----------------------------- MODULE ApiProofs -----------------------------
(***************************************************************************)
(* Proofs about the dynamic API as any host may call it, for any bounds    *)
(* and arguments: no system gets lost in the tree or is in two lists       *)
(* unless it moved, full names follow parents, and the destruction of a    *)
(* package leaves no association of what is gone and takes nothing of the  *)
(* other packages; and, for a host that destroys none, the storage type of *)
(* an enum fits its values and no two fields overlap.                      *)
(***************************************************************************)
EXTENDS DynamicApiProps, Layout, FiniteSetTheorems, SequenceTheorems,
        WellFoundedInduction, TLAPS

-----------------------------------------------------------------------------
(* Lists of ids                                                            *)

AtMostOnce(list, x) ==
  \A i, j \in 1 .. Len(list) : list[i] = x /\ list[j] = x => i = j

LEMMA LeastOf ==
  ASSUME NEW S, S \subseteq Nat, S # {}
  PROVE  Min(S) \in S /\ \A y \in S : Min(S) <= y
<1>1. \E x \in S : \A y \in S : ~(<<y, x>> \in OpToRel(<, Nat))
  BY NatLessThanWellFounded, WFMin
<1>2. \A x, y \in Nat : y < x => <<y, x>> \in OpToRel(<, Nat)
  BY Zenon DEF OpToRel
<1>3. \E x \in S : \A y \in S : ~(y < x)
  BY <1>1, <1>2, Zenon
<1>4. \E x \in S : \A y \in S : x <= y
  BY <1>3
<1> QED
  BY <1>4 DEF Min

(* RemoveFirst takes the entry at some position that holds the element.    *)
TakenAt(rest, list, k, e) ==
  /\ k \in 1 .. Len(list) /\ list[k] = e
  /\ rest \in Seq(Nat) /\ Len(rest) = Len(list) - 1
  /\ \A i \in 1 .. Len(list) - 1 : rest[i] = IF i < k THEN list[i] ELSE list[i + 1]

LEMMA RemoveFirstIs ==
  ASSUME NEW list \in Seq(Nat), NEW e, Contains(list, e),
         NEW rest, rest = RemoveFirst(list, e)
  PROVE  \E k : TakenAt(rest, list, k, e)
<1> DEFINE I == {i \in 1 .. Len(list) : list[i] = e}
<1>1. I \subseteq Nat /\ I # {}
  BY DEF Contains
<1>2. PICK k : k = Min(I)
  OBVIOUS
<1>3. k \in I
  BY <1>1, <1>2, LeastOf
<1>4. RemoveFirst(list, e) = RemoveAt(list, k)
  BY <1>1, <1>2, Zenon DEF RemoveFirst, SelectInSeq, Contains
<1>5. PICK n \in Nat : n = Len(list) /\ k \in 1 .. n /\ list[k] = e
  BY <1>3
<1>6. PICK a : a = SubSeq(list, 1, k - 1)
  OBVIOUS
<1>7. PICK b : b = SubSeq(list, k + 1, n)
  OBVIOUS
<1>8. /\ a \in Seq(Nat) /\ Len(a) = k - 1 /\ \A i \in 1 .. k - 1 : a[i] = list[i]
  BY <1>5, <1>6
<1>9. /\ b \in Seq(Nat) /\ Len(b) = n - k /\ \A i \in 1 .. n - k : b[i] = list[k + i]
  BY <1>5, <1>7
<1>10. RemoveAt(list, k) = a \o b
  BY <1>5, <1>6, <1>7 DEF RemoveAt
<1>11. /\ a \o b \in Seq(Nat) /\ Len(a \o b) = n - 1
       /\ \A i \in 1 .. n - 1 : (a \o b)[i] = IF i <= k - 1 THEN a[i] ELSE b[i - (k - 1)]
  <2>1. a \o b \in Seq(Nat) /\ Len(a \o b) = Len(a) + Len(b)
    BY <1>8, <1>9, ConcatProperties
  <2>2. \A i \in 1 .. Len(a) + Len(b) :
          (a \o b)[i] = IF i <= Len(a) THEN a[i] ELSE b[i - Len(a)]
    BY <1>8, <1>9, ConcatProperties
  <2>3. Len(a) = k - 1 /\ Len(b) = n - k /\ Len(a) + Len(b) = n - 1
    BY <1>5, <1>8, <1>9
  <2> QED
    BY <2>1, <2>2, <2>3
<1>12. ASSUME NEW i \in 1 .. n - 1
       PROVE  (a \o b)[i] = IF i < k THEN list[i] ELSE list[i + 1]
  <2>1. CASE i < k
    <3>1. i <= k - 1 /\ i \in 1 .. k - 1
      BY <1>5, <2>1
    <3> QED
      BY <1>8, <1>11, <2>1, <3>1
  <2>2. CASE ~(i < k)
    <3>1. /\ ~(i <= k - 1) /\ i - (k - 1) \in 1 .. n - k
          /\ k + (i - (k - 1)) = i + 1
      BY <1>5, <2>2
    <3>2. b[i - (k - 1)] = list[i + 1]
      BY <1>9, <3>1
    <3> QED
      BY <1>11, <2>2, <3>1, <3>2
  <2> QED
    BY <2>1, <2>2
<1> QED
  BY <1>4, <1>5, <1>10, <1>11, <1>12 DEF TakenAt

(* What a list that only e is put into or taken from has of the others.    *)
SameButFor(new, old, e) ==
  /\ new \in Seq(Nat)
  /\ \A x \in Nat \ {e} : /\ Contains(new, x) <=> Contains(old, x)
                          /\ AtMostOnce(old, x) => AtMostOnce(new, x)

LEMMA SameList ==
  ASSUME NEW list \in Seq(Nat), NEW e
  PROVE  SameButFor(list, list, e)
BY DEF SameButFor

LEMMA ButForTrans ==
  ASSUME NEW a, NEW b, NEW c, NEW e, SameButFor(b, a, e), SameButFor(c, b, e)
  PROVE  SameButFor(c, a, e)
BY DEF SameButFor

LEMMA RemovedFrom ==
  ASSUME NEW list \in Seq(Nat), NEW e \in Nat
  PROVE  /\ SameButFor(RemoveFirst(list, e), list, e)
         /\ AtMostOnce(list, e) => ~Contains(RemoveFirst(list, e), e)
<1>1. CASE ~Contains(list, e)
  <2>1. RemoveFirst(list, e) = list
    BY <1>1 DEF RemoveFirst, Contains
  <2> QED
    BY <1>1, <2>1, SameList
<1>2. CASE Contains(list, e)
  <2>1. PICK rest : rest = RemoveFirst(list, e)
    OBVIOUS
  <2>0. PICK k : TakenAt(rest, list, k, e)
    BY <1>2, <2>1, RemoveFirstIs
  <2>2. /\ k \in 1 .. Len(list) /\ list[k] = e
        /\ rest \in Seq(Nat) /\ Len(rest) = Len(list) - 1
        /\ \A i \in 1 .. Len(list) - 1 :
             rest[i] = IF i < k THEN list[i] ELSE list[i + 1]
    BY <2>0 DEF TakenAt
  <2>3. PICK n \in Nat : n = Len(list) /\ n - 1 = Len(rest)
    BY <2>2
  <2>4. \A i \in 1 .. n - 1 : i \in 1 .. n /\ i + 1 \in 1 .. n
    BY <2>3
  <2>5. ASSUME NEW x, Contains(rest, x)
        PROVE  \E j \in 1 .. n : list[j] = x /\ j # k
    <3>1. PICK i \in 1 .. n - 1 : rest[i] = x
      BY <2>3, <2>5 DEF Contains
    <3>2. rest[i] = IF i < k THEN list[i] ELSE list[i + 1]
      BY <2>2, <2>3
    <3>3. i \in 1 .. n /\ i + 1 \in 1 .. n /\ i # i + 1 /\ (i < k => i # k)
          /\ (~(i < k) => i + 1 # k)
      BY <2>2, <2>3
    <3> QED
      BY <3>1, <3>2, <3>3
  <2>6. ASSUME NEW x \in Nat \ {e}, Contains(list, x)
        PROVE  Contains(rest, x)
    <3>1. PICK j \in 1 .. n : list[j] = x
      BY <2>3, <2>6 DEF Contains
    <3>2. j # k
      BY <2>2, <2>6, <3>1
    <3>3. CASE j < k
      <4>2. j \in 1 .. n - 1
        BY <2>2, <2>3, <3>3
      <4>1. j \in 1 .. n - 1 /\ rest[j] = x
        BY <2>2, <2>3, <3>1, <3>3, <4>2
      <4> QED
        BY <2>3, <4>1 DEF Contains
    <3>4. CASE j > k
      <4>1. j - 1 \in 1 .. n - 1 /\ ~(j - 1 < k) /\ (j - 1) + 1 = j
        BY <2>2, <2>3, <3>1, <3>4
      <4>2. rest[j - 1] = list[(j - 1) + 1]
        BY <2>2, <2>3, <4>1
      <4>3. rest[j - 1] = x
        BY <3>1, <4>1, <4>2
      <4> QED
        BY <2>3, <4>1, <4>3 DEF Contains
    <3> QED
      BY <2>2, <3>2, <3>3, <3>4
  <2>7. ASSUME NEW x \in Nat, AtMostOnce(list, x)
        PROVE  AtMostOnce(rest, x)
    <3> SUFFICES ASSUME NEW i \in 1 .. n - 1, NEW j \in 1 .. n - 1,
                        rest[i] = x, rest[j] = x
                 PROVE  i = j
      BY <2>3 DEF AtMostOnce
    <3> DEFINE At(m) == IF m < k THEN m ELSE m + 1
    <3>1. At(i) \in 1 .. n /\ At(j) \in 1 .. n
      BY <2>4
    <3>2. list[At(i)] = x /\ list[At(j)] = x
      BY <2>2, <2>3
    <3>3. At(i) = At(j)
      BY <2>3, <2>7, <3>1, <3>2 DEF AtMostOnce
    <3>4. i \in Int /\ j \in Int /\ k \in Int
      BY <2>2, <2>3
    <3> QED
      BY <3>3, <3>4
  <2>8. AtMostOnce(list, e) => ~Contains(rest, e)
    BY <2>2, <2>3, <2>5 DEF AtMostOnce
  <2>9. SameButFor(rest, list, e)
    <3>1. \A x \in Nat : Contains(rest, x) => Contains(list, x)
      BY <2>3, <2>5 DEF Contains
    <3> QED
      BY <2>2, <2>6, <2>7, <3>1 DEF SameButFor
  <2> QED
    BY <2>1, <2>8, <2>9
<1> QED
  BY <1>1, <1>2

LEMMA AppendedTo ==
  ASSUME NEW list \in Seq(Nat), NEW e \in Nat
  PROVE  /\ SameButFor(Append(list, e), list, e) /\ Contains(Append(list, e), e)
         /\ ~Contains(list, e) => AtMostOnce(Append(list, e), e)
<1>1. PICK n \in Nat : n = Len(list)
  OBVIOUS
<1>2. PICK more : more = Append(list, e)
  OBVIOUS
<1>3. /\ more \in Seq(Nat) /\ Len(more) = n + 1 /\ more[n + 1] = e
      /\ \A i \in 1 .. n : more[i] = list[i]
  BY <1>1, <1>2, AppendProperties
<1>4. \A i \in 1 .. n + 1 : i \in 1 .. n \/ i = n + 1
  BY <1>1
<1>5. \A i \in 1 .. n : i \in 1 .. n + 1
  BY <1>1
<1>6. n + 1 \in 1 .. n + 1
  BY <1>1
<1>7. Contains(more, e)
  BY <1>3, <1>6 DEF Contains
<1>8. ASSUME NEW x \in Nat \ {e}
      PROVE  Contains(more, x) <=> Contains(list, x)
  <2>1. Contains(list, x) => Contains(more, x)
    BY <1>1, <1>3, <1>5 DEF Contains
  <2>2. Contains(more, x) => Contains(list, x)
    BY <1>1, <1>3, <1>4 DEF Contains
  <2> QED
    BY <2>1, <2>2
<1>9. ASSUME NEW x \in Nat \ {e}, AtMostOnce(list, x)
      PROVE  AtMostOnce(more, x)
  BY <1>1, <1>3, <1>4, <1>9 DEF AtMostOnce
<1>10. ASSUME ~Contains(list, e)
       PROVE  AtMostOnce(more, e)
  <2>1. \A i \in 1 .. n : more[i] # e
    BY <1>1, <1>3, <1>10 DEF Contains
  <2> QED
    BY <1>3, <1>4, <2>1 DEF AtMostOnce
<1> QED
  BY <1>2, <1>3, <1>7, <1>8, <1>9, <1>10 DEF SameButFor

-----------------------------------------------------------------------------
(* The inductive invariant                                                 *)

IsPackage(p) ==
  p = [name |-> p.name, dependencies |-> p.dependencies,
       top_level_systems |-> p.top_level_systems]
IsDef(d) ==
  d = [kind |-> d.kind, owner |-> d.owner, name |-> d.name, comp_type |-> d.comp_type]
IsLike(l) ==
  l = [caps |-> l.caps, generates |-> l.generates, notify_settings |-> l.notify_settings,
       parent_system_id |-> l.parent_system_id, nested_systems |-> l.nested_systems,
       parallel_execution |-> l.parallel_execution,
       lazy_iteration_rate |-> l.lazy_iteration_rate]

IsFun(f) == f = [x \in DOMAIN f |-> f[x]]

Systems   == DOMAIN system_likes
Parent(s) == system_likes[s].parent_system_id
Nested(s) == system_likes[s].nested_systems
Top(p)    == package_defs[p].top_level_systems
Owner(d)  == defs[d].owner

(* Each declaration that lives is of a package that lives, and has its     *)
(* entries in the maps.                                                    *)
Shape ==
  /\ last_id \in 0 .. MaxId
  /\ IsFun(package_defs) /\ Packages \subseteq 0 .. last_id - 1
  /\ \A p \in Packages : IsPackage(package_defs[p])
  /\ IsFun(defs) /\ DOMAIN defs \subseteq 0 .. last_id - 1
  /\ \A d \in DOMAIN defs : IsDef(defs[d]) /\ defs[d].kind \in Kinds
  /\ \A d \in DOMAIN defs : defs[d].kind # "enum" => Owner(d) \in Packages
  /\ IsFun(system_likes) /\ Systems = Declared(SystemLikes)
  /\ \A s \in Systems : IsLike(system_likes[s])
  /\ IsFun(fields) /\ DOMAIN fields = Declared(Composites)
  /\ IsFun(full_names) /\ Declared(DeclKinds) \subseteq DOMAIN full_names

(* A list holds systems that live, of its own package.                     *)
Lists ==
  /\ \A p \in Packages :
       /\ Top(p) \in Seq(Nat)
       /\ \A x \in Nat : Contains(Top(p), x) => x \in Systems /\ Owner(x) = p
  /\ \A s \in Systems :
       /\ Nested(s) \in Seq(Nat)
       /\ \A x \in Nat : Contains(Nested(s), x) => x \in Systems /\ Owner(x) = Owner(s)

(* A system's parent lives, in the same package.                           *)
Parents ==
  \A s \in Systems :
    IF Parent(s) = NoId THEN Contains(Top(Owner(s)), s)
    ELSE /\ Parent(s) \in Systems \ {s} /\ Owner(Parent(s)) = Owner(s)
         /\ Contains(Nested(Parent(s)), s)

(* A system that did not move is in the list of its parent, once, and in   *)
(* no other.                                                               *)
OnePlace ==
  \A s \in Systems \ moved :
    /\ AtMostOnce(Top(Owner(s)), s)
    /\ Contains(Top(Owner(s)), s) => Parent(s) = NoId
    /\ \A q \in Systems : /\ AtMostOnce(Nested(q), s)
                          /\ Contains(Nested(q), s) => Parent(s) = q

(* Its full name is the one that its parent gives it, and an anonymous     *)
(* system never has one.                                                   *)
PathOf(s) == SystemFullName("system", Owner(s), defs[s].name, Parent(s))
NamesInv ==
  \A s \in Declared({"system"}) :
    /\ defs[s].name = "" => full_names[s] = <<>>
    /\ Parent(s) \notin renamed => full_names[s] = PathOf(s)

TreeInv == Lists /\ Parents /\ OnePlace /\ NamesInv

-----------------------------------------------------------------------------
(* Steps that leave the tree alone                                         *)

Untouched ==
  /\ Packages \subseteq Packages'
  /\ \A p \in Packages : Top(p)' = Top(p) /\ package_defs'[p].name = package_defs[p].name
  /\ \A p \in Packages' \ Packages : Top(p)' = <<>>
  /\ DOMAIN defs \subseteq DOMAIN defs'
  /\ \A d \in DOMAIN defs : /\ defs'[d].kind = defs[d].kind
                            /\ defs'[d].owner = defs[d].owner
                            /\ defs'[d].name = defs[d].name
  /\ Systems' = Systems
  /\ \A s \in Systems : /\ Parent(s)' = Parent(s) /\ Nested(s)' = Nested(s)
                        /\ full_names'[s] = full_names[s]
  /\ UNCHANGED history_vars

LEMMA SystemIds ==
  ASSUME Shape
  PROVE  /\ \A s \in Systems : /\ s \in Nat /\ s \in DOMAIN defs /\ Owner(s) \in Packages
                               /\ defs[s].kind \in SystemLikes
         /\ \A s \in Declared({"system"}) : s \in Systems /\ defs[s].kind = "system"
BY MaxIdAssumption DEF Shape, Declared, SystemLikes

LEMMA UntouchedTree ==
  ASSUME Shape, TreeInv, Untouched, Shape'
  PROVE  TreeInv'
<1>1. /\ \A s \in Systems : /\ s \in Nat /\ s \in DOMAIN defs /\ Owner(s) \in Packages
                            /\ Owner(s)' = Owner(s)
      /\ Systems' = Systems
  BY SystemIds DEF Untouched, Owner
<1>2. Lists'
  <2>1. ASSUME NEW p \in Packages'
        PROVE  /\ Top(p)' \in Seq(Nat)
               /\ \A x \in Nat : Contains(Top(p)', x) => x \in Systems /\ Owner(x)' = p
    <3>1. CASE p \in Packages
      <4>1. Top(p)' = Top(p)
        BY <3>1 DEF Untouched
      <4>2. /\ Top(p) \in Seq(Nat)
            /\ \A x \in Nat : Contains(Top(p), x) => x \in Systems /\ Owner(x) = p
        BY <3>1 DEF TreeInv, Lists
      <4> QED
        BY <1>1, <4>1, <4>2
    <3>2. CASE p \notin Packages
      <4>1. Top(p)' = <<>>
        BY <3>2 DEF Untouched
      <4> QED
        BY <4>1 DEF Contains
    <3> QED
      BY <3>1, <3>2
  <2>2. ASSUME NEW s \in Systems
        PROVE  /\ Nested(s)' \in Seq(Nat)
               /\ \A x \in Nat : Contains(Nested(s)', x)
                                   => x \in Systems /\ Owner(x)' = Owner(s)'
    <3>1. Nested(s)' = Nested(s)
      BY DEF Untouched
    <3>2. /\ Nested(s) \in Seq(Nat)
          /\ \A x \in Nat : Contains(Nested(s), x) => x \in Systems /\ Owner(x) = Owner(s)
      BY DEF TreeInv, Lists
    <3> QED
      BY <1>1, <3>1, <3>2
  <2> QED
    BY <1>1, <2>1, <2>2, Zenon DEF Lists
<1>3. Parents'
  <2>1. ASSUME NEW s \in Systems
        PROVE  IF Parent(s)' = NoId THEN Contains(Top(Owner(s))', s)
               ELSE /\ Parent(s)' \in Systems \ {s} /\ Owner(Parent(s))' = Owner(s)'
                    /\ Contains(Nested(Parent(s))', s)
    <3>1. Parent(s)' = Parent(s)
      BY DEF Untouched
    <3>2. CASE Parent(s) = NoId
      <4>1. Contains(Top(Owner(s)), s)
        BY <3>2 DEF TreeInv, Parents
      <4>2. PICK p \in Packages : p = Owner(s) /\ p = Owner(s)'
        BY <1>1
      <4>3. Top(p)' = Top(p)
        BY DEF Untouched
      <4> QED
        BY <3>1, <3>2, <4>1, <4>2, <4>3 DEF Top
    <3>3. CASE Parent(s) # NoId
      <4>1. PICK q \in Systems \ {s} : /\ q = Parent(s) /\ q = Parent(s)'
                                       /\ Owner(q) = Owner(s) /\ Contains(Nested(q), s)
        BY <3>1, <3>3 DEF TreeInv, Parents
      <4>2. Nested(q)' = Nested(q)
        BY DEF Untouched
      <4>3. Nested(Parent(s))' = Nested(q)'  /\ Owner(Parent(s))' = Owner(q)'
        BY <4>1 DEF Nested, Owner
      <4> QED
        BY <1>1, <3>1, <3>3, <4>1, <4>2, <4>3
    <3> QED
      BY <3>2, <3>3
  <2> QED
    BY <1>1, <2>1 DEF Parents
<1>4. OnePlace'
  <2>1. moved' = moved
    BY DEF Untouched, history_vars
  <2>2. ASSUME NEW s \in Systems \ moved
        PROVE  /\ AtMostOnce(Top(Owner(s))', s)
               /\ Contains(Top(Owner(s))', s) => Parent(s)' = NoId
               /\ \A q \in Systems : /\ AtMostOnce(Nested(q)', s)
                                     /\ Contains(Nested(q)', s) => Parent(s)' = q
    <3>1. PICK p \in Packages : p = Owner(s) /\ p = Owner(s)'
      BY <1>1
    <3>2. Top(Owner(s))' = Top(p)' /\ Top(p)' = Top(p)
      BY <3>1 DEF Untouched, Top
    <3>3. Parent(s)' = Parent(s) /\ \A q \in Systems : Nested(q)' = Nested(q)
      BY DEF Untouched
    <3>4. /\ AtMostOnce(Top(p), s)
          /\ Contains(Top(p), s) => Parent(s) = NoId
          /\ \A q \in Systems : /\ AtMostOnce(Nested(q), s)
                                /\ Contains(Nested(q), s) => Parent(s) = q
      BY <3>1, Zenon DEF TreeInv, OnePlace
    <3> QED
      BY <3>2, <3>3, <3>4
  <2> QED
    BY <1>1, <2>1, <2>2, Zenon DEF OnePlace
<1>5. NamesInv'
  <2>1. renamed' = renamed
    BY DEF Untouched, history_vars
  <2>2. Declared({"system"})' = Declared({"system"})
    <3>1. \A s : s \in Declared({"system"}) <=> s \in Systems /\ defs[s].kind = "system"
      BY SystemIds DEF Shape, Declared
    <3>2. \A s : s \in Declared({"system"})' <=> s \in Systems' /\ defs'[s].kind = "system"
      BY DEF Shape, Declared, SystemLikes
    <3> QED
      BY <1>1, <3>1, <3>2 DEF Untouched
  <2>3. ASSUME NEW s \in Declared({"system"})
        PROVE  /\ defs'[s].name = "" => full_names'[s] = <<>>
               /\ Parent(s)' \notin renamed => full_names'[s] = PathOf(s)'
    <3>1. s \in Systems
      BY SystemIds
    <3>2. PICK p \in Packages : p = Owner(s) /\ p = Owner(s)'
      BY <1>1, <3>1
    <3>3. /\ defs'[s].name = defs[s].name /\ full_names'[s] = full_names[s]
          /\ Parent(s)' = Parent(s) /\ package_defs'[p].name = package_defs[p].name
      BY <1>1, <3>1 DEF Untouched
    <3>4. Parent(s) # NoId => full_names'[Parent(s)] = full_names[Parent(s)]
      BY <3>1 DEF Untouched, TreeInv, Parents
    <3>5. PathOf(s)' = PathOf(s)
      BY <3>2, <3>3, <3>4, Zenon DEF PathOf, SystemFullName
    <3> QED
      BY <3>3, <3>5 DEF TreeInv, NamesInv
  <2> QED
    BY <2>1, <2>2, <2>3, Zenon DEF NamesInv
<1> QED
  BY <1>2, <1>3, <1>4, <1>5 DEF TreeInv

-----------------------------------------------------------------------------
(* The operations that create, but for systems                             *)

LEMMA PutFun ==
  ASSUME NEW f, IsFun(f), NEW k, NEW v, k \notin DOMAIN f
  PROVE  /\ IsFun(Put(f, k, v)) /\ DOMAIN Put(f, k, v) = DOMAIN f \cup {k}
         /\ Put(f, k, v)[k] = v /\ \A x \in DOMAIN f : Put(f, k, v)[x] = f[x]
BY DEF Put, IsFun

LEMMA NewId ==
  ASSUME Shape, NextId
  PROVE  /\ last_id \in Nat /\ last_id' = last_id + 1 /\ last_id' \in 0 .. MaxId
         /\ last_id \notin Packages /\ last_id \notin DOMAIN defs
         /\ \A S : S \subseteq 0 .. last_id - 1 => S \cup {last_id} \subseteq 0 .. last_id' - 1
         /\ \A S : S \subseteq 0 .. last_id - 1 => S \subseteq 0 .. last_id' - 1
<1>1. last_id \in Nat /\ last_id' = last_id + 1 /\ last_id' \in 0 .. MaxId
  BY MaxIdAssumption DEF Shape, NextId
<1>2. last_id \notin 0 .. last_id - 1
  BY <1>1
<1>3. (0 .. last_id - 1) \subseteq 0 .. last_id' - 1 /\ last_id \in 0 .. last_id' - 1
  BY <1>1
<1> QED
  BY <1>1, <1>2, <1>3 DEF Shape

LEMMA DefFields ==
  ASSUME NEW kind, NEW owner, NEW name, NEW type, NEW d,
         d = [kind |-> kind, owner |-> owner, name |-> name, comp_type |-> type]
  PROVE  IsDef(d) /\ d.kind = kind /\ d.owner = owner /\ d.name = name
BY DEF IsDef

(* The new declaration, and the sets of declarations with it               *)
LEMMA NewDefIs ==
  ASSUME Shape, NEW kind \in Kinds, NEW owner \in Packages, NEW name, NEW type,
         NewDef(kind, owner, name, type), package_defs' = package_defs \/ Packages' = Packages
  PROVE  /\ NextId /\ IsFun(defs') /\ DOMAIN defs' = DOMAIN defs \cup {last_id}
         /\ \A d \in DOMAIN defs : defs'[d] = defs[d]
         /\ defs'[last_id].kind = kind /\ defs'[last_id].owner = owner
         /\ defs'[last_id].name = name
         /\ \A d \in DOMAIN defs' : /\ IsDef(defs'[d]) /\ defs'[d].kind \in Kinds
                                    /\ defs'[d].kind # "enum" => Owner(d)' \in Packages'
         /\ \A kinds : Declared(kinds)' =
              Declared(kinds) \cup (IF kind \in kinds THEN {last_id} ELSE {})
<1>1. PICK new : new = [kind |-> kind, owner |-> owner, name |-> name, comp_type |-> type]
  OBVIOUS
<1>2. IsDef(new) /\ new.kind = kind /\ new.owner = owner /\ new.name = name
  BY <1>1, DefFields
<1>3. NextId /\ defs' = Put(defs, last_id, new)
  BY <1>1 DEF NewDef
<1>4. last_id \notin DOMAIN defs
  BY <1>3, NewId
<1>5. /\ IsFun(defs') /\ DOMAIN defs' = DOMAIN defs \cup {last_id}
      /\ defs'[last_id] = new /\ \A d \in DOMAIN defs : defs'[d] = defs[d]
  BY <1>3, <1>4 DEF Shape, Put, IsFun
<1>6. Packages' = Packages
  BY DEF Packages
<1>7. \A d \in DOMAIN defs' : /\ IsDef(defs'[d]) /\ defs'[d].kind \in Kinds
                              /\ defs'[d].kind # "enum" => Owner(d)' \in Packages'
  BY <1>2, <1>5, <1>6 DEF Shape, Owner
<1>8. ASSUME NEW kinds
      PROVE  Declared(kinds)' =
               Declared(kinds) \cup (IF kind \in kinds THEN {last_id} ELSE {})
  <2>1. \A d : d \in Declared(kinds)' <=> /\ d \in DOMAIN defs' /\ defs'[d].kind \in kinds
                                          /\ defs'[d].owner \in Packages'
    BY DEF Declared
  <2>2. \A d : d \in Declared(kinds) <=> /\ d \in DOMAIN defs /\ defs[d].kind \in kinds
                                         /\ defs[d].owner \in Packages
    BY DEF Declared
  <2> QED
    BY <1>2, <1>4, <1>5, <1>6, <2>1, <2>2
<1> QED
  BY <1>2, <1>3, <1>5, <1>7, <1>8

LEMMA CreatePackageInv ==
  ASSUME Shape, NEW name, NEW main, CreatePackage(name, main), UNCHANGED history_vars
  PROVE  Shape' /\ Untouched
<1>1. PICK new : new = [name |-> name, dependencies |-> <<>>, top_level_systems |-> <<>>]
  OBVIOUS
<1>2. IsPackage(new) /\ new.top_level_systems = <<>>
  BY <1>1 DEF IsPackage
<1>3. /\ NextId /\ package_defs' = Put(package_defs, last_id, new)
      /\ UNCHANGED <<defs, full_names, fields, enum_values, system_likes>>
  BY <1>1 DEF CreatePackage
<1>4. /\ last_id' \in 0 .. MaxId /\ last_id \notin Packages
      /\ \A S : S \subseteq 0 .. last_id - 1 => S \cup {last_id} \subseteq 0 .. last_id' - 1
      /\ \A S : S \subseteq 0 .. last_id - 1 => S \subseteq 0 .. last_id' - 1
  BY <1>3, NewId
<1>5. /\ IsFun(package_defs') /\ Packages' = Packages \cup {last_id}
      /\ package_defs'[last_id] = new
      /\ \A p \in Packages : package_defs'[p] = package_defs[p]
  BY <1>3, <1>4 DEF Shape, Packages, Put, IsFun
<1>6. \A kinds : kinds \subseteq DeclKinds => Declared(kinds)' = Declared(kinds)
  <2>1. \A d \in DOMAIN defs : defs[d].kind \in DeclKinds =>
          defs[d].owner \in Packages /\ defs[d].owner \in Packages'
    BY <1>5 DEF Shape, Owner, DeclKinds, ComponentLikes, SystemLikes
  <2>2. ASSUME NEW kinds, kinds \subseteq DeclKinds
        PROVE  Declared(kinds)' = Declared(kinds)
    <3>1. \A d : d \in Declared(kinds)' <=> /\ d \in DOMAIN defs /\ defs[d].kind \in kinds
                                            /\ defs[d].owner \in Packages'
      BY <1>3 DEF Declared
    <3>2. \A d : d \in Declared(kinds) <=> /\ d \in DOMAIN defs /\ defs[d].kind \in kinds
                                           /\ defs[d].owner \in Packages
      BY DEF Declared
    <3> QED
      BY <2>1, <2>2, <3>1, <3>2
  <2> QED
    BY <2>2
<1>7. /\ Declared(SystemLikes)' = Declared(SystemLikes)
      /\ Declared(Composites)' = Declared(Composites)
      /\ Declared(DeclKinds)' = Declared(DeclKinds)
  BY <1>6 DEF DeclKinds, ComponentLikes, SystemLikes, Composites
<1>8. Shape'
  <2>1. /\ last_id' \in 0 .. MaxId /\ IsFun(package_defs)' /\ Packages' \subseteq 0 .. last_id' - 1
        /\ \A p \in Packages' : IsPackage(package_defs[p])'
    BY <1>2, <1>4, <1>5 DEF Shape
  <2>2. /\ IsFun(defs)' /\ DOMAIN defs' \subseteq 0 .. last_id' - 1
        /\ \A d \in DOMAIN defs' : IsDef(defs[d])' /\ defs'[d].kind \in Kinds
    BY <1>3, <1>4 DEF Shape
  <2>3. \A d \in DOMAIN defs' : defs'[d].kind # "enum" => Owner(d)' \in Packages'
    BY <1>3, <1>5 DEF Shape, Owner
  <2>4. /\ IsFun(system_likes)' /\ Systems' = Declared(SystemLikes)'
        /\ \A s \in Systems' : IsLike(system_likes[s])'
    BY <1>3, <1>7 DEF Shape, Systems
  <2>5. /\ IsFun(fields)' /\ DOMAIN fields' = Declared(Composites)'
        /\ IsFun(full_names)' /\ Declared(DeclKinds)' \subseteq DOMAIN full_names'
    BY <1>3, <1>7 DEF Shape
  <2> QED
    BY <2>1, <2>2, <2>3, <2>4, <2>5 DEF Shape
<1>9. Untouched
  <2>1. /\ Packages \subseteq Packages'
        /\ \A p \in Packages : Top(p)' = Top(p) /\ package_defs'[p].name = package_defs[p].name
        /\ \A p \in Packages' \ Packages : Top(p)' = <<>>
    BY <1>2, <1>5 DEF Top
  <2>2. /\ Systems' = Systems
        /\ \A s \in Systems : /\ Parent(s)' = Parent(s) /\ Nested(s)' = Nested(s)
                              /\ full_names'[s] = full_names[s]
    BY <1>3 DEF Systems, Parent, Nested
  <2> QED
    BY <1>3, <2>1, <2>2 DEF Untouched
<1> QED
  BY <1>8, <1>9

(* The rest of Shape after a declaration that is no system                 *)
LEMMA NewDeclInv ==
  ASSUME Shape, NEW kind \in ComponentLikes \cup {"enum"}, NEW owner \in Packages,
         NEW name, NEW type, NewDef(kind, owner, name, type),
         UNCHANGED <<package_defs, system_likes, history_vars>>,
         IF kind = "enum" THEN UNCHANGED <<full_names, fields>>
         ELSE /\ \E v : full_names' = Put(full_names, last_id, v)
              /\ fields' = Put(fields, last_id, <<>>)
  PROVE  Shape' /\ Untouched
<1>0. kind \in Kinds
  BY DEF Kinds, DeclKinds
<1>1. /\ NextId /\ IsFun(defs') /\ DOMAIN defs' = DOMAIN defs \cup {last_id}
      /\ \A d \in DOMAIN defs : defs'[d] = defs[d]
      /\ \A d \in DOMAIN defs' : /\ IsDef(defs'[d]) /\ defs'[d].kind \in Kinds
                                 /\ defs'[d].kind # "enum" => Owner(d)' \in Packages'
      /\ \A kinds : Declared(kinds)' =
           Declared(kinds) \cup (IF kind \in kinds THEN {last_id} ELSE {})
  BY <1>0, NewDefIs
<1>2. /\ last_id' \in 0 .. MaxId /\ last_id \notin DOMAIN defs
      /\ \A S : S \subseteq 0 .. last_id - 1 => S \cup {last_id} \subseteq 0 .. last_id' - 1
      /\ \A S : S \subseteq 0 .. last_id - 1 => S \subseteq 0 .. last_id' - 1
  BY <1>1, NewId
<1>3. Packages' = Packages /\ Systems' = Systems
  BY DEF Packages, Systems
<1>4. Declared(SystemLikes)' = Declared(SystemLikes)
  <2>1. kind \notin SystemLikes
    BY DEF SystemLikes, ComponentLikes
  <2> QED
    BY <1>1, <2>1
<1>5. /\ IsFun(fields') /\ DOMAIN fields' = Declared(Composites)'
  <2>1. CASE kind = "enum"
    <3>1. kind \notin Composites
      BY <2>1 DEF Composites, ComponentLikes
    <3>2. Declared(Composites)' = Declared(Composites)
      BY <1>1, <3>1
    <3> QED
      BY <2>1, <3>2 DEF Shape
  <2>2. CASE kind # "enum"
    <3>1. kind \in Composites
      BY <2>2 DEF Composites
    <3>2. Declared(Composites)' = Declared(Composites) \cup {last_id}
      BY <1>1, <3>1
    <3>3. fields' = Put(fields, last_id, <<>>) /\ IsFun(fields) /\ last_id \notin DOMAIN fields
      BY <1>2, <2>2 DEF Shape, Declared
    <3>4. IsFun(fields') /\ DOMAIN fields' = DOMAIN fields \cup {last_id}
      BY <3>3, PutFun
    <3> QED
      BY <3>2, <3>4 DEF Shape
  <2> QED
    BY <2>1, <2>2
<1>6. /\ IsFun(full_names') /\ Declared(DeclKinds)' \subseteq DOMAIN full_names'
      /\ \A s \in Systems : full_names'[s] = full_names[s]
  <2>1. CASE kind = "enum"
    <3>1. kind \notin DeclKinds
      BY <2>1 DEF DeclKinds, ComponentLikes, SystemLikes
    <3>2. Declared(DeclKinds)' = Declared(DeclKinds)
      BY <1>1, <3>1
    <3> QED
      BY <2>1, <3>2 DEF Shape
  <2>2. CASE kind # "enum"
    <3>1. PICK v : full_names' = Put(full_names, last_id, v)
      BY <2>2
    <3>2. /\ IsFun(full_names') /\ DOMAIN full_names' = DOMAIN full_names \cup {last_id}
          /\ \A x \in DOMAIN full_names \ {last_id} : full_names'[x] = full_names[x]
      BY <3>1 DEF Put, IsFun
    <3>3. Declared(DeclKinds)' \subseteq Declared(DeclKinds) \cup {last_id}
      BY <1>1
    <3>4. \A s \in Systems : s # last_id /\ s \in DOMAIN full_names
      BY <1>2, SystemIds DEF Shape, Declared, DeclKinds
    <3> QED
      BY <3>2, <3>3, <3>4 DEF Shape
  <2> QED
    BY <2>1, <2>2
<1>7. Shape'
  <2>1. /\ last_id' \in 0 .. MaxId /\ IsFun(package_defs)' /\ Packages' \subseteq 0 .. last_id' - 1
        /\ \A p \in Packages' : IsPackage(package_defs[p])'
    BY <1>2, <1>3 DEF Shape
  <2>2. /\ IsFun(defs)' /\ DOMAIN defs' \subseteq 0 .. last_id' - 1
        /\ \A d \in DOMAIN defs' : IsDef(defs[d])' /\ defs'[d].kind \in Kinds
    BY <1>1, <1>2 DEF Shape
  <2>4. /\ IsFun(system_likes)' /\ Systems' = Declared(SystemLikes)'
        /\ \A s \in Systems' : IsLike(system_likes[s])'
    BY <1>3, <1>4 DEF Shape
  <2> QED
    BY <1>1, <1>5, <1>6, <2>1, <2>2, <2>4 DEF Shape
<1>8. Untouched
  <2>1. /\ Packages \subseteq Packages'
        /\ \A p \in Packages : Top(p)' = Top(p) /\ package_defs'[p].name = package_defs[p].name
        /\ \A p \in Packages' \ Packages : Top(p)' = <<>>
    BY <1>3 DEF Top
  <2>2. \A s \in Systems : Parent(s)' = Parent(s) /\ Nested(s)' = Nested(s)
    BY DEF Parent, Nested
  <2> QED
    BY <1>1, <1>3, <1>6, <2>1, <2>2 DEF Untouched
<1> QED
  BY <1>7, <1>8

-----------------------------------------------------------------------------
(* A new system or action                                                  *)

NewSystem(kind, p, name) ==
  /\ last_id \notin Systems /\ Systems' = Systems \cup {last_id}
  /\ Packages' = Packages
  /\ \A q \in Packages : package_defs'[q].name = package_defs[q].name
  /\ Top(p)' = Append(Top(p), last_id)
  /\ \A q \in Packages \ {p} : Top(q)' = Top(q)
  /\ \A s \in Systems : /\ Parent(s)' = Parent(s) /\ Nested(s)' = Nested(s)
                        /\ full_names'[s] = full_names[s] /\ defs'[s] = defs[s]
  /\ DOMAIN defs \subseteq DOMAIN defs' /\ \A d \in DOMAIN defs : defs'[d] = defs[d]
  /\ system_likes'[last_id].parent_system_id = NoId
  /\ system_likes'[last_id].nested_systems = <<>>
  /\ defs'[last_id].kind = kind /\ defs'[last_id].owner = p /\ defs'[last_id].name = name
  /\ full_names'[last_id] = SystemFullName(kind, p, name, NoId)
  /\ UNCHANGED history_vars

(* Packages of which one has another list at the top                       *)
ArePackages(pkgs) == IsFun(pkgs) /\ \A q \in DOMAIN pkgs : IsPackage(pkgs[q])
OneTop(new, pkgs, p, list) ==
  /\ ArePackages(new) /\ DOMAIN new = DOMAIN pkgs
  /\ \A q \in DOMAIN pkgs : new[q].name = pkgs[q].name
  /\ new[p].top_level_systems = list
  /\ \A q \in DOMAIN pkgs \ {p} : new[q] = pkgs[q]

LEMMA ChangedTop ==
  ASSUME NEW pkgs, ArePackages(pkgs), NEW p \in DOMAIN pkgs, NEW list, NEW new,
         new = [pkgs EXCEPT ![p].top_level_systems = list]
  PROVE  OneTop(new, pkgs, p, list)
<1>1. PICK a, b, c : pkgs[p] = [name |-> a, dependencies |-> b, top_level_systems |-> c]
  BY DEF ArePackages, IsPackage
<1>2. PICK r : r = [pkgs[p] EXCEPT !.top_level_systems = list]
  OBVIOUS
<1>3. r = [name |-> a, dependencies |-> b, top_level_systems |-> list]
  BY <1>1, <1>2
<1>4. IsPackage(r) /\ r.name = a /\ pkgs[p].name = a /\ r.top_level_systems = list
  BY <1>1, <1>3 DEF IsPackage
<1>5. new = [pkgs EXCEPT ![p] = r]
  BY <1>2, Zenon
<1> QED
  BY <1>4, <1>5 DEF OneTop, ArePackages, IsFun

LEMMA CreateSystemShape ==
  ASSUME Shape, NEW kind \in SystemLikes, NEW p \in Packages, NEW name,
         NEW execution, NEW rate,
         CreateSystemLike(kind, p, name, NoId, execution, rate), UNCHANGED history_vars
  PROVE  Shape' /\ NewSystem(kind, p, name)
<1>0. kind \in Kinds /\ kind \in DeclKinds
  BY DEF Kinds, DeclKinds
<1>1. PICK list : list = Append(Top(p), last_id)
  OBVIOUS
<1>2. PICK new : new = NewSystemLike(NoId, execution, rate)
  OBVIOUS
<1>3. /\ NewDef(kind, p, name, "NONE")
      /\ full_names' = Put(full_names, last_id, SystemFullName(kind, p, name, NoId))
      /\ fields' = IF kind = "action" THEN Put(fields, last_id, <<>>) ELSE fields
      /\ package_defs' = [package_defs EXCEPT ![p].top_level_systems = list]
      /\ system_likes' = Put(system_likes, last_id, new)
  BY <1>1, <1>2 DEF CreateSystemLike, Top
<1>4. /\ IsFun(package_defs') /\ Packages' = Packages
      /\ \A q \in Packages : /\ IsPackage(package_defs'[q])
                             /\ package_defs'[q].name = package_defs[q].name
      /\ Top(p)' = list /\ \A q \in Packages \ {p} : package_defs'[q] = package_defs[q]
  <2>1. ArePackages(package_defs) /\ p \in DOMAIN package_defs
    BY DEF Shape, ArePackages, Packages
  <2>2. OneTop(package_defs', package_defs, p, list)
    BY <1>3, <2>1, ChangedTop
  <2> QED
    BY <2>2 DEF OneTop, ArePackages, Packages, Top
<1>5. /\ NextId /\ IsFun(defs') /\ DOMAIN defs' = DOMAIN defs \cup {last_id}
      /\ \A d \in DOMAIN defs : defs'[d] = defs[d]
      /\ defs'[last_id].kind = kind /\ defs'[last_id].owner = p /\ defs'[last_id].name = name
      /\ \A d \in DOMAIN defs' : /\ IsDef(defs'[d]) /\ defs'[d].kind \in Kinds
                                 /\ defs'[d].kind # "enum" => Owner(d)' \in Packages'
      /\ \A kinds : Declared(kinds)' =
           Declared(kinds) \cup (IF kind \in kinds THEN {last_id} ELSE {})
  BY <1>0, <1>3, <1>4, NewDefIs
<1>6. /\ last_id' \in 0 .. MaxId /\ last_id \notin DOMAIN defs
      /\ \A S : S \subseteq 0 .. last_id - 1 => S \cup {last_id} \subseteq 0 .. last_id' - 1
      /\ \A S : S \subseteq 0 .. last_id - 1 => S \subseteq 0 .. last_id' - 1
  BY <1>5, NewId
<1>7. /\ IsLike(new) /\ new.parent_system_id = NoId /\ new.nested_systems = <<>>
  BY <1>2 DEF NewSystemLike, IsLike
<1>8. last_id \notin Systems
  BY <1>6, SystemIds
<1>9. /\ IsFun(system_likes') /\ Systems' = Systems \cup {last_id}
      /\ system_likes'[last_id] = new
      /\ \A s \in Systems : system_likes'[s] = system_likes[s]
  BY <1>3, <1>8 DEF Shape, Systems, Put, IsFun
<1>10. /\ Declared(SystemLikes)' = Declared(SystemLikes) \cup {last_id}
       /\ Declared(DeclKinds)' = Declared(DeclKinds) \cup {last_id}
       /\ Declared(Composites)' =
            Declared(Composites) \cup (IF kind = "action" THEN {last_id} ELSE {})
  <2>1. kind \in Composites <=> kind = "action"
    BY DEF Composites, ComponentLikes, SystemLikes
  <2> QED
    BY <1>0, <1>5, <2>1
<1>11. IsFun(fields') /\ DOMAIN fields' = Declared(Composites)'
  <2>1. IsFun(fields) /\ DOMAIN fields = Declared(Composites)
    BY DEF Shape
  <2>2. CASE kind = "action"
    BY <1>3, <1>10, <2>1, <2>2 DEF Put, IsFun
  <2>3. CASE kind # "action"
    BY <1>3, <1>10, <2>1, <2>3
  <2> QED
    BY <2>2, <2>3
<1>12. /\ IsFun(full_names') /\ DOMAIN full_names' = DOMAIN full_names \cup {last_id}
       /\ full_names'[last_id] = SystemFullName(kind, p, name, NoId)
       /\ \A x \in DOMAIN full_names \ {last_id} : full_names'[x] = full_names[x]
  BY <1>3 DEF Put, IsFun
<1>13. \A s \in Systems : s # last_id /\ s \in DOMAIN full_names /\ s \in DOMAIN defs
  BY <1>6, SystemIds DEF Shape, Declared, DeclKinds
<1>14. Shape'
  <2>1. /\ last_id' \in 0 .. MaxId /\ IsFun(package_defs)' /\ Packages' \subseteq 0 .. last_id' - 1
        /\ \A q \in Packages' : IsPackage(package_defs[q])'
    BY <1>4, <1>6 DEF Shape
  <2>2. /\ IsFun(defs)' /\ DOMAIN defs' \subseteq 0 .. last_id' - 1
        /\ \A d \in DOMAIN defs' : IsDef(defs[d])' /\ defs'[d].kind \in Kinds
    BY <1>5, <1>6 DEF Shape
  <2>3. /\ IsFun(system_likes)' /\ Systems' = Declared(SystemLikes)'
        /\ \A s \in Systems' : IsLike(system_likes[s])'
    BY <1>7, <1>9, <1>10 DEF Shape
  <2>4. IsFun(full_names)' /\ Declared(DeclKinds)' \subseteq DOMAIN full_names'
    BY <1>10, <1>12 DEF Shape
  <2> QED
    BY <1>5, <1>11, <2>1, <2>2, <2>3, <2>4 DEF Shape
<1>15. NewSystem(kind, p, name)
  <2>1. \A q \in Packages \ {p} : Top(q)' = Top(q)
    BY <1>4 DEF Top
  <2>2. \A s \in Systems : /\ Parent(s)' = Parent(s) /\ Nested(s)' = Nested(s)
                           /\ full_names'[s] = full_names[s] /\ defs'[s] = defs[s]
    BY <1>5, <1>9, <1>12, <1>13 DEF Parent, Nested
  <2>3. system_likes'[last_id].parent_system_id = NoId
        /\ system_likes'[last_id].nested_systems = <<>>
    BY <1>7, <1>9
  <2> QED
    BY <1>1, <1>4, <1>5, <1>8, <1>9, <1>12, <2>1, <2>2, <2>3 DEF NewSystem
<1> QED
  BY <1>14, <1>15

(* The systems that are no actions                                         *)
LEMMA SystemsAre ==
  ASSUME Shape
  PROVE  \A s : s \in Declared({"system"}) <=> s \in Systems /\ defs[s].kind = "system"
BY SystemIds DEF Shape, Declared

LEMMA NewSystemTree ==
  ASSUME Shape, TreeInv, NEW kind \in SystemLikes, NEW p \in Packages, NEW name,
         NewSystem(kind, p, name), Shape'
  PROVE  TreeInv'
<1>1. PICK n \in Nat : n = last_id
  BY MaxIdAssumption DEF Shape
<1>2. /\ n \notin Systems /\ Systems' = Systems \cup {n} /\ Packages' = Packages
      /\ \A s \in Systems : /\ Parent(s)' = Parent(s) /\ Nested(s)' = Nested(s)
                            /\ Owner(s)' = Owner(s) /\ full_names'[s] = full_names[s]
                            /\ defs'[s] = defs[s]
      /\ Parent(n)' = NoId /\ Nested(n)' = <<>> /\ Owner(n)' = p
      /\ \A q \in Packages \ {p} : Top(q)' = Top(q)
      /\ moved' = moved /\ renamed' = renamed
  BY <1>1 DEF NewSystem, Parent, Nested, Owner, history_vars
<1>3. \A s \in Systems : s \in Nat /\ Owner(s) \in Packages
  BY SystemIds
<1>4. PICK top : top = Top(p)'
  OBVIOUS
<1>5. /\ SameButFor(top, Top(p), n) /\ Contains(top, n) /\ AtMostOnce(top, n)
  <2>1. Top(p) \in Seq(Nat) /\ ~Contains(Top(p), n)
    BY <1>2 DEF TreeInv, Lists
  <2>2. top = Append(Top(p), n)
    BY <1>1, <1>4 DEF NewSystem
  <2> QED
    BY <2>1, <2>2, AppendedTo
<1>6. Lists'
  <2>1. ASSUME NEW q \in Packages
        PROVE  /\ Top(q)' \in Seq(Nat)
               /\ \A x \in Nat : Contains(Top(q)', x) => x \in Systems' /\ Owner(x)' = q
    <3>1. /\ Top(q) \in Seq(Nat)
          /\ \A x \in Nat : Contains(Top(q), x) => x \in Systems /\ Owner(x) = q
      BY DEF TreeInv, Lists
    <3>2. CASE q = p
      <4>1. top = Top(q)'
        BY <1>4, <3>2
      <4> QED
        BY <1>2, <1>5, <3>1, <3>2, <4>1 DEF SameButFor
    <3>3. CASE q # p
      BY <1>2, <3>1, <3>3
    <3> QED
      BY <3>2, <3>3
  <2>2. ASSUME NEW s \in Systems'
        PROVE  /\ Nested(s)' \in Seq(Nat)
               /\ \A x \in Nat : Contains(Nested(s)', x)
                                   => x \in Systems' /\ Owner(x)' = Owner(s)'
    <3>1. CASE s \in Systems
      <4>1. /\ Nested(s) \in Seq(Nat)
            /\ \A x \in Nat : Contains(Nested(s), x) => x \in Systems /\ Owner(x) = Owner(s)
        BY <3>1 DEF TreeInv, Lists
      <4> QED
        BY <1>2, <3>1, <4>1
    <3>2. CASE s = n
      BY <1>2, <3>2 DEF Contains
    <3> QED
      BY <1>2, <3>1, <3>2
  <2> QED
    BY <1>2, <2>1, <2>2, Zenon DEF Lists
<1>7. Parents'
  <2>1. ASSUME NEW s \in Systems'
        PROVE  IF Parent(s)' = NoId THEN Contains(Top(Owner(s))', s)
               ELSE /\ Parent(s)' \in Systems' \ {s} /\ Owner(Parent(s))' = Owner(s)'
                    /\ Contains(Nested(Parent(s))', s)
    <3>1. CASE s = n
      <4>1. Top(Owner(s))' = Top(p)'
        BY <1>2, <3>1 DEF Top
      <4> QED
        BY <1>2, <1>4, <1>5, <3>1, <4>1
    <3>2. CASE s \in Systems /\ Parent(s) = NoId
      <4>1. PICK q \in Packages : q = Owner(s) /\ q = Owner(s)' /\ Contains(Top(q), s)
        BY <1>2, <1>3, <3>2 DEF TreeInv, Parents
      <4>2. Top(Owner(s))' = Top(q)'
        BY <4>1 DEF Top
      <4>3. Contains(Top(q)', s)
        BY <1>2, <1>3, <1>4, <1>5, <3>2, <4>1 DEF SameButFor
      <4> QED
        BY <1>2, <3>2, <4>2, <4>3
    <3>3. CASE s \in Systems /\ Parent(s) # NoId
      <4>1. PICK q \in Systems \ {s} : /\ q = Parent(s) /\ q = Parent(s)'
                                       /\ Owner(q) = Owner(s) /\ Contains(Nested(q), s)
        BY <1>2, <3>3 DEF TreeInv, Parents
      <4>2. Nested(Parent(s))' = Nested(q)' /\ Owner(Parent(s))' = Owner(q)'
        BY <4>1 DEF Nested, Owner
      <4> QED
        BY <1>2, <3>3, <4>1, <4>2
    <3> QED
      BY <1>2, <3>1, <3>2, <3>3
  <2> QED
    BY <2>1 DEF Parents
<1>8. OnePlace'
  <2>1. ASSUME NEW s \in Systems' \ moved
        PROVE  /\ AtMostOnce(Top(Owner(s))', s)
               /\ Contains(Top(Owner(s))', s) => Parent(s)' = NoId
               /\ \A q \in Systems' : /\ AtMostOnce(Nested(q)', s)
                                      /\ Contains(Nested(q)', s) => Parent(s)' = q
    <3>0. AtMostOnce(<<>>, s) /\ ~Contains(<<>>, s)
      BY DEF AtMostOnce, Contains
    <3>1. CASE s = n
      <4>1. Top(Owner(s))' = Top(p)'
        BY <1>2, <3>1 DEF Top
      <4>2. ASSUME NEW q \in Systems'
            PROVE  AtMostOnce(Nested(q)', s) /\ ~Contains(Nested(q)', s)
        <5>1. CASE q = n
          BY <1>2, <3>0, <5>1
        <5>2. CASE q \in Systems
          <6>1. ~Contains(Nested(q), n) /\ Nested(q)' = Nested(q)
            BY <1>2, <5>2 DEF TreeInv, Lists
          <6> QED
            BY <3>1, <6>1 DEF AtMostOnce, Contains
        <5> QED
          BY <1>2, <5>1, <5>2
      <4> QED
        BY <1>2, <1>4, <1>5, <3>1, <4>1, <4>2
    <3>2. CASE s \in Systems
      <4>1. PICK q \in Packages : q = Owner(s) /\ q = Owner(s)'
        BY <1>2, <1>3, <3>2
      <4>2. /\ AtMostOnce(Top(q), s)
            /\ Contains(Top(q), s) => Parent(s) = NoId
            /\ \A r \in Systems : /\ AtMostOnce(Nested(r), s)
                                  /\ Contains(Nested(r), s) => Parent(s) = r
        BY <3>2, <4>1, Zenon DEF TreeInv, OnePlace
      <4>3. Top(Owner(s))' = Top(q)'
        BY <4>1 DEF Top
      <4>4. s \in Nat \ {n}
        BY <1>2, <1>3, <3>2
      <4>5. AtMostOnce(Top(q)', s) /\ (Contains(Top(q)', s) => Parent(s) = NoId)
        <5>1. CASE q = p
          <6>1. /\ Contains(top, s) <=> Contains(Top(p), s)
                /\ AtMostOnce(Top(p), s) => AtMostOnce(top, s)
            BY <1>5, <4>4 DEF SameButFor
          <6>2. Top(q)' = top
            BY <1>4, <5>1
          <6> QED
            BY <4>2, <5>1, <6>1, <6>2
        <5>2. CASE q # p
          <6>1. Top(q)' = Top(q)
            BY <1>2, <5>2
          <6> QED
            BY <4>2, <6>1
        <5> QED
          BY <5>1, <5>2
      <4>6. \A r \in Systems' : /\ AtMostOnce(Nested(r)', s)
                                /\ Contains(Nested(r)', s) => Parent(s) = r
        BY <1>2, <3>0, <4>2
      <4> QED
        BY <1>2, <3>2, <4>3, <4>5, <4>6
    <3> QED
      BY <1>2, <3>1, <3>2
  <2> QED
    BY <1>2, <2>1, Zenon DEF OnePlace
<1>9. NamesInv'
  <2>1. ASSUME NEW s \in Systems', defs'[s].kind = "system"
        PROVE  /\ defs'[s].name = "" => full_names'[s] = <<>>
               /\ Parent(s)' \notin renamed => full_names'[s] = PathOf(s)'
    <3>1. CASE s = n
      <4>1. /\ kind = "system" /\ defs'[s].name = name /\ Owner(s)' = p /\ Parent(s)' = NoId
            /\ full_names'[s] = SystemFullName("system", p, name, NoId)
            /\ package_defs'[p].name = package_defs[p].name
        BY <1>1, <1>2, <2>1, <3>1 DEF NewSystem
      <4> QED
        BY <4>1, Zenon DEF PathOf, SystemFullName
    <3>2. CASE s \in Systems
      <4>1. defs'[s] = defs[s] /\ full_names'[s] = full_names[s] /\ Parent(s)' = Parent(s)
        BY <1>2, <3>2
      <4>2. PICK q \in Packages : q = Owner(s) /\ q = Owner(s)'
        BY <1>2, <1>3, <3>2
      <4>3. package_defs'[q].name = package_defs[q].name
        BY DEF NewSystem
      <4>4. Parent(s) # NoId => full_names'[Parent(s)] = full_names[Parent(s)]
        BY <1>2, <3>2 DEF TreeInv, Parents
      <4>5. PathOf(s)' = PathOf(s)
        BY <4>1, <4>2, <4>3, <4>4, Zenon DEF PathOf, SystemFullName
      <4>6. s \in Declared({"system"})
        BY <2>1, <3>2, <4>1, SystemsAre
      <4> QED
        BY <4>1, <4>5, <4>6 DEF TreeInv, NamesInv
    <3> QED
      BY <1>2, <3>1, <3>2
  <2>2. \A s : s \in Declared({"system"})' => s \in Systems' /\ defs'[s].kind = "system"
    BY DEF Shape, Declared, SystemLikes
  <2> QED
    BY <1>2, <2>1, <2>2, Zenon DEF NamesInv
<1> QED
  BY <1>6, <1>7, <1>8, <1>9 DEF TreeInv

-----------------------------------------------------------------------------
(* Settings: one system, component or package gets another value           *)

LEMMA SettingInv ==
  ASSUME Shape, NEW s \in Systems, NEW l, IsLike(l),
         l.parent_system_id = Parent(s), l.nested_systems = Nested(s),
         system_likes' = [system_likes EXCEPT ![s] = l],
         OnlySystemLikes, UNCHANGED history_vars, last_id' = last_id \/ NextId
  PROVE  Shape' /\ Untouched
<1>1. /\ last_id' \in 0 .. MaxId
      /\ \A S : S \subseteq 0 .. last_id - 1 => S \subseteq 0 .. last_id' - 1
  <2>1. CASE NextId
    BY <2>1, NewId
  <2>2. CASE last_id' = last_id
    BY <2>2 DEF Shape
  <2> QED
    BY <2>1, <2>2
<1>2. UNCHANGED <<package_defs, defs, full_names, fields, enum_values>>
  BY DEF OnlySystemLikes
<1>3. /\ IsFun(system_likes') /\ Systems' = Systems /\ system_likes'[s] = l
      /\ \A r \in Systems \ {s} : system_likes'[r] = system_likes[r]
  BY DEF Shape, IsFun, Systems
<1>4. \A r \in Systems : /\ IsLike(system_likes'[r])
                         /\ Parent(r)' = Parent(r) /\ Nested(r)' = Nested(r)
  BY <1>3 DEF Shape, Parent, Nested
<1>5. Packages' = Packages /\ \A kinds : Declared(kinds)' = Declared(kinds)
  BY <1>2 DEF Packages, Declared
<1>6. Shape'
  BY <1>1, <1>2, <1>3, <1>4, <1>5 DEF Shape, Owner
<1>7. Untouched
  BY <1>2, <1>3, <1>4, <1>5 DEF Untouched, Top
<1> QED
  BY <1>6, <1>7

LEMMA LikeChanged ==
  ASSUME NEW l, IsLike(l), NEW v
  PROVE  /\ IsLike([l EXCEPT !.caps = v]) /\ IsLike([l EXCEPT !.generates = v])
         /\ IsLike([l EXCEPT !.notify_settings = v])
         /\ IsLike([l EXCEPT !.parallel_execution = v])
         /\ IsLike([l EXCEPT !.lazy_iteration_rate = v])
         /\ [l EXCEPT !.caps = v].parent_system_id = l.parent_system_id
         /\ [l EXCEPT !.caps = v].nested_systems = l.nested_systems
         /\ [l EXCEPT !.generates = v].parent_system_id = l.parent_system_id
         /\ [l EXCEPT !.generates = v].nested_systems = l.nested_systems
         /\ [l EXCEPT !.notify_settings = v].parent_system_id = l.parent_system_id
         /\ [l EXCEPT !.notify_settings = v].nested_systems = l.nested_systems
         /\ [l EXCEPT !.parallel_execution = v].parent_system_id = l.parent_system_id
         /\ [l EXCEPT !.parallel_execution = v].nested_systems = l.nested_systems
         /\ [l EXCEPT !.lazy_iteration_rate = v].parent_system_id = l.parent_system_id
         /\ [l EXCEPT !.lazy_iteration_rate = v].nested_systems = l.nested_systems
<1>1. PICK c, g, n, p, ns, e, r :
        l = [caps |-> c, generates |-> g, notify_settings |-> n, parent_system_id |-> p,
             nested_systems |-> ns, parallel_execution |-> e, lazy_iteration_rate |-> r]
  BY DEF IsLike
<1>2. /\ IsLike([l EXCEPT !.caps = v]) /\ IsLike([l EXCEPT !.generates = v])
      /\ IsLike([l EXCEPT !.notify_settings = v])
  BY <1>1 DEF IsLike
<1>3. /\ IsLike([l EXCEPT !.parallel_execution = v])
      /\ IsLike([l EXCEPT !.lazy_iteration_rate = v])
  BY <1>1 DEF IsLike
<1> QED
  BY <1>1, <1>2, <1>3

(* One of these is the next value of the system s.                         *)
Setting(s) ==
  \E v, l :
    /\ system_likes' = [system_likes EXCEPT ![s] = l]
    /\ l \in {[system_likes[s] EXCEPT !.caps = v], [system_likes[s] EXCEPT !.generates = v],
              [system_likes[s] EXCEPT !.notify_settings = v],
              [system_likes[s] EXCEPT !.parallel_execution = v],
              [system_likes[s] EXCEPT !.lazy_iteration_rate = v]}
    /\ OnlySystemLikes /\ (last_id' = last_id \/ NextId)

LEMMA SettingsInv ==
  ASSUME Shape, NEW s \in Systems, Setting(s), UNCHANGED history_vars
  PROVE  Shape' /\ Untouched
<1>1. PICK old : old = system_likes[s]
  OBVIOUS
<1>2. PICK v, l :
        /\ system_likes' = [system_likes EXCEPT ![s] = l]
        /\ l \in {[old EXCEPT !.caps = v], [old EXCEPT !.generates = v],
                  [old EXCEPT !.notify_settings = v], [old EXCEPT !.parallel_execution = v],
                  [old EXCEPT !.lazy_iteration_rate = v]}
        /\ OnlySystemLikes /\ (last_id' = last_id \/ NextId)
  BY <1>1 DEF Setting
<1>3. IsLike(old) /\ old.parent_system_id = Parent(s) /\ old.nested_systems = Nested(s)
  BY <1>1 DEF Shape, Parent, Nested
<1>4. IsLike(l) /\ l.parent_system_id = Parent(s) /\ l.nested_systems = Nested(s)
  <2>1. CASE l = [old EXCEPT !.caps = v]
    BY <1>3, <2>1, LikeChanged
  <2>2. CASE l = [old EXCEPT !.generates = v]
    BY <1>3, <2>2, LikeChanged
  <2>3. CASE l = [old EXCEPT !.notify_settings = v]
    BY <1>3, <2>3, LikeChanged
  <2>4. CASE l = [old EXCEPT !.parallel_execution = v]
    BY <1>3, <2>4, LikeChanged
  <2>5. CASE l = [old EXCEPT !.lazy_iteration_rate = v]
    BY <1>3, <2>5, LikeChanged
  <2> QED
    BY <1>2, <2>1, <2>2, <2>3, <2>4, <2>5
<1> QED
  BY <1>2, <1>4, SettingInv

LEMMA AreSettings ==
  ASSUME NEW s, NEW c, NEW v, NEW gen
  PROVE  /\ SetSystemCapability(s, c, v) => Setting(s)
         /\ UnsetSystemCapability(s, c) => Setting(s)
         /\ SetNotifySettings(s, {c}, v) => Setting(s)
         /\ SetNotifyNone(s, c) => Setting(s)
         /\ SystemGeneratesSetComponent(s, gen, c, v) => Setting(s)
         /\ SystemGeneratesUnsetComponent(s, gen, c) => Setting(s)
         /\ AddSystemGenerates(s) => Setting(s)
         /\ RemoveSystemGenerates(s, gen) => Setting(s)
         /\ SetParallelExecution(s, v) => Setting(s)
         /\ SetLazyIterationRate(s, v) => Setting(s)
<1>1. SetSystemCapability(s, c, v) => Setting(s)
  BY Zenon DEF SetSystemCapability, Setting
<1>2. UnsetSystemCapability(s, c) => Setting(s)
  BY DEF UnsetSystemCapability, Setting
<1>3. SetNotifySettings(s, {c}, v) => Setting(s)
  BY DEF SetNotifySettings, Setting
<1>4. SetNotifyNone(s, c) => Setting(s)
  BY DEF SetNotifyNone, Setting
<1>5. SystemGeneratesSetComponent(s, gen, c, v) => Setting(s)
  BY DEF SystemGeneratesSetComponent, Setting
<1>6. SystemGeneratesUnsetComponent(s, gen, c) => Setting(s)
  BY DEF SystemGeneratesUnsetComponent, Setting
<1>7. AddSystemGenerates(s) => Setting(s)
  BY DEF AddSystemGenerates, Setting
<1>8. RemoveSystemGenerates(s, gen) => Setting(s)
  BY DEF RemoveSystemGenerates, Setting
<1>9. SetParallelExecution(s, v) => Setting(s)
  BY DEF SetParallelExecution, Setting
<1>10. SetLazyIterationRate(s, v) => Setting(s)
  BY DEF SetLazyIterationRate, Setting
<1> QED
  BY <1>1, <1>2, <1>3, <1>4, <1>5, <1>6, <1>7, <1>8, <1>9, <1>10

LEMMA SetComponentTypeInv ==
  ASSUME Shape, NEW c \in Declared({"component"}), NEW type, SetComponentType(c, type),
         UNCHANGED history_vars
  PROVE  Shape' /\ Untouched
<1>1. c \in DOMAIN defs
  BY DEF Declared
<1>2. PICK k, o, n, t : defs[c] = [kind |-> k, owner |-> o, name |-> n, comp_type |-> t]
  BY <1>1 DEF Shape, IsDef
<1>3. PICK new : new = [defs[c] EXCEPT !.comp_type = type]
  OBVIOUS
<1>4. new = [kind |-> k, owner |-> o, name |-> n, comp_type |-> type]
  BY <1>2, <1>3
<1>5. IsDef(new) /\ new.kind = defs[c].kind /\ new.owner = defs[c].owner
      /\ new.name = defs[c].name
  BY <1>2, <1>4, DefFields
<1>6. /\ defs' = [defs EXCEPT ![c] = new]
      /\ UNCHANGED <<last_id, package_defs, full_names, fields, enum_values, system_likes>>
  BY <1>3 DEF SetComponentType
<1>7. /\ IsFun(defs') /\ DOMAIN defs' = DOMAIN defs
      /\ \A d \in DOMAIN defs : /\ IsDef(defs'[d]) /\ defs'[d].kind = defs[d].kind
                                /\ defs'[d].owner = defs[d].owner
                                /\ defs'[d].name = defs[d].name
  BY <1>1, <1>5, <1>6 DEF Shape, IsFun
<1>8. Packages' = Packages /\ \A kinds : Declared(kinds)' = Declared(kinds)
  BY <1>6, <1>7 DEF Packages, Declared
<1>9. Shape'
  BY <1>6, <1>7, <1>8 DEF Shape, Owner, Systems
<1>10. Untouched
  BY <1>6, <1>7, <1>8 DEF Untouched, Top, Systems, Parent, Nested
<1> QED
  BY <1>9, <1>10

LEMMA AddDependencyInv ==
  ASSUME Shape, NEW p \in Packages, NEW q, AddDependency(p, q), UNCHANGED history_vars
  PROVE  Shape' /\ Untouched
<1>0. UNCHANGED <<last_id, defs, full_names, fields, enum_values, system_likes>>
  BY DEF AddDependency
<1>v. PICK v : v = Append(package_defs[p].dependencies, q)
  OBVIOUS
<1>1. PICK new : new = [package_defs[p] EXCEPT !.dependencies = v]
  OBVIOUS
<1>2. PICK a, b, c : package_defs[p] = [name |-> a, dependencies |-> b, top_level_systems |-> c]
  BY DEF Shape, IsPackage
<1>3. new = [name |-> a, dependencies |-> v, top_level_systems |-> c]
  BY <1>1, <1>2
<1>4. IsPackage(new) /\ new.name = package_defs[p].name
      /\ new.top_level_systems = package_defs[p].top_level_systems
  BY <1>2, <1>3 DEF IsPackage
<1>5. package_defs' = package_defs \/ package_defs' = [package_defs EXCEPT ![p] = new]
  BY <1>v, <1>1 DEF AddDependency
<1>6. /\ IsFun(package_defs') /\ Packages' = Packages
      /\ \A r \in Packages : /\ IsPackage(package_defs'[r]) /\ Top(r)' = Top(r)
                             /\ package_defs'[r].name = package_defs[r].name
  BY <1>4, <1>5 DEF Shape, IsFun, Packages, Top
<1>7. \A kinds : Declared(kinds)' = Declared(kinds)
  BY <1>0, <1>6 DEF Declared
<1>8. Shape'
  BY <1>0, <1>6, <1>7 DEF Shape, Owner, Systems
<1>9. Untouched
  BY <1>0, <1>6, <1>7 DEF Untouched, Systems, Parent, Nested
<1> QED
  BY <1>8, <1>9
-----------------------------------------------------------------------------
(* Adding and removing a child                                             *)

AreLikes(likes) == IsFun(likes) /\ \A s \in DOMAIN likes : IsLike(likes[s])

(* The system child has the parent np, and parent the list nested.         *)
OneMoved(new, likes, parent, child, np, nested) ==
  /\ AreLikes(new) /\ DOMAIN new = DOMAIN likes
  /\ new[child].parent_system_id = np
  /\ new[child].nested_systems = likes[child].nested_systems
  /\ new[parent].parent_system_id = likes[parent].parent_system_id
  /\ new[parent].nested_systems = nested
  /\ \A s \in DOMAIN likes \ {parent, child} : new[s] = likes[s]

LEMMA WithParent ==
  ASSUME NEW l, IsLike(l), NEW v, NEW new, new = [l EXCEPT !.parent_system_id = v]
  PROVE  IsLike(new) /\ new.parent_system_id = v /\ new.nested_systems = l.nested_systems
<1>1. PICK c, g, n, p, ns, e, r :
        l = [caps |-> c, generates |-> g, notify_settings |-> n, parent_system_id |-> p,
             nested_systems |-> ns, parallel_execution |-> e, lazy_iteration_rate |-> r]
  BY DEF IsLike
<1>2. new = [caps |-> c, generates |-> g, notify_settings |-> n, parent_system_id |-> v,
             nested_systems |-> ns, parallel_execution |-> e, lazy_iteration_rate |-> r]
  BY <1>1
<1> QED
  BY <1>1, <1>2 DEF IsLike

LEMMA WithNested ==
  ASSUME NEW l, IsLike(l), NEW v, NEW new, new = [l EXCEPT !.nested_systems = v]
  PROVE  IsLike(new) /\ new.parent_system_id = l.parent_system_id /\ new.nested_systems = v
<1>1. PICK c, g, n, p, ns, e, r :
        l = [caps |-> c, generates |-> g, notify_settings |-> n, parent_system_id |-> p,
             nested_systems |-> ns, parallel_execution |-> e, lazy_iteration_rate |-> r]
  BY DEF IsLike
<1>2. new = [caps |-> c, generates |-> g, notify_settings |-> n, parent_system_id |-> p,
             nested_systems |-> v, parallel_execution |-> e, lazy_iteration_rate |-> r]
  BY <1>1
<1> QED
  BY <1>1, <1>2 DEF IsLike

LEMMA ChangedLikes ==
  ASSUME NEW likes, AreLikes(likes), NEW parent \in DOMAIN likes,
         NEW child \in DOMAIN likes \ {parent}, NEW np, NEW nested, NEW a, NEW b, NEW new,
         a = [likes[child] EXCEPT !.parent_system_id = np],
         b = [likes[parent] EXCEPT !.nested_systems = nested],
         new = [likes EXCEPT ![child] = a, ![parent] = b]
  PROVE  OneMoved(new, likes, parent, child, np, nested)
<1>1. /\ IsLike(a) /\ a.parent_system_id = np
      /\ a.nested_systems = likes[child].nested_systems
      /\ IsLike(b) /\ b.parent_system_id = likes[parent].parent_system_id
      /\ b.nested_systems = nested
  <2>1. PICK l : l = likes[child] /\ IsLike(l)
    BY DEF AreLikes
  <2>2. PICK m : m = likes[parent] /\ IsLike(m)
    BY DEF AreLikes
  <2>3. a = [l EXCEPT !.parent_system_id = np] /\ b = [m EXCEPT !.nested_systems = nested]
    BY <2>1, <2>2, Zenon
  <2>4. IsLike(a) /\ a.parent_system_id = np /\ a.nested_systems = l.nested_systems
    BY <2>1, <2>3, WithParent
  <2>5. IsLike(b) /\ b.parent_system_id = m.parent_system_id /\ b.nested_systems = nested
    BY <2>2, <2>3, WithNested
  <2> QED
    BY <2>1, <2>2, <2>4, <2>5
<1>2. /\ IsFun(new) /\ DOMAIN new = DOMAIN likes
      /\ new[child] = a /\ new[parent] = b
      /\ \A s \in DOMAIN likes \ {parent, child} : new[s] = likes[s]
  BY DEF AreLikes, IsFun
<1> QED
  BY <1>1, <1>2 DEF OneMoved, AreLikes

(* The tree with other lists, and another full name for child              *)
OneName(new, names, child, name) ==
  /\ IsFun(new) /\ DOMAIN new = DOMAIN names
  /\ new[child] = IF defs[child].name = "" THEN names[child] ELSE name
  /\ \A x \in DOMAIN names \ {child} : new[x] = names[x]
IsTree(t) == AreLikes(t.likes) /\ ArePackages(t.packages) /\ IsFun(t.names)
Moved(new, t, parent, child, np, nested, top, name) ==
  /\ OneMoved(new.likes, t.likes, parent, child, np, nested)
  /\ OneTop(new.packages, t.packages, Owner(parent), top)
  /\ OneName(new.names, t.names, child, name)

Related(t, parent, child) ==
  /\ IsTree(t) /\ parent \in DOMAIN t.likes /\ child \in DOMAIN t.likes \ {parent}
  /\ Owner(parent) \in DOMAIN t.packages /\ Owner(child) = Owner(parent)
  /\ child \in DOMAIN t.names

LEMMA RemovedMoves ==
  ASSUME NEW t, NEW parent, NEW child, Related(t, parent, child),
         t.likes[child].parent_system_id = parent,
         Contains(t.likes[parent].nested_systems, child)
  PROVE  Moved(Removed(t, parent, child), t, parent, child, NoId,
               RemoveFirst(t.likes[parent].nested_systems, child),
               Append(t.packages[Owner(parent)].top_level_systems, child),
               Append(t.packages[Owner(parent)].name, defs[child].name))
<1>1. PICK likes, pkgs, names, o, nested, top, name :
        /\ likes = t.likes /\ pkgs = t.packages /\ names = t.names /\ o = Owner(parent)
        /\ nested = RemoveFirst(t.likes[parent].nested_systems, child)
        /\ top = Append(t.packages[Owner(parent)].top_level_systems, child)
        /\ name = Append(t.packages[Owner(parent)].name, defs[child].name)
  OBVIOUS
<1>2. PICK L : L = [likes EXCEPT ![child].parent_system_id = NoId,
                                 ![parent].nested_systems = RemoveFirst(@, child)]
  OBVIOUS
<1>3. PICK P : P = [pkgs EXCEPT ![o].top_level_systems = Append(@, child)]
  OBVIOUS
<1>4. PICK N : N = IF defs[child].name = "" THEN names ELSE [names EXCEPT ![child] = name]
  OBVIOUS
<1>5. Removed(t, parent, child) = [likes |-> L, packages |-> P, names |-> N]
  BY <1>1, <1>2, <1>3, <1>4, Zenon DEF Removed, Owner, Related
<1>6. OneMoved(L, likes, parent, child, NoId, nested)
  <2>1. PICK a : a = [likes[child] EXCEPT !.parent_system_id = NoId]
    OBVIOUS
  <2>2. PICK b : b = [likes[parent] EXCEPT !.nested_systems = nested]
    OBVIOUS
  <2>3. child # parent /\ nested = RemoveFirst(likes[parent].nested_systems, child)
    BY <1>1 DEF Related
  <2>4. L = [likes EXCEPT ![child] = a, ![parent] = b]
    BY <1>2, <2>1, <2>2, <2>3
  <2> QED
    BY <1>1, <2>1, <2>2, <2>4, ChangedLikes DEF Related, IsTree
<1>7. OneTop(P, pkgs, o, top)
  <2>1. P = [pkgs EXCEPT ![o].top_level_systems = top]
    BY <1>1, <1>3
  <2> QED
    BY <1>1, <2>1, ChangedTop DEF Related, IsTree
<1>8. OneName(N, names, child, name)
  BY <1>1, <1>4 DEF OneName, Related, IsTree, IsFun
<1> QED
  BY <1>1, <1>5, <1>6, <1>7, <1>8 DEF Moved

LEMMA AddedMoves ==
  ASSUME NEW tree, NEW t, NEW parent, NEW child, Related(t, parent, child),
         t = RemovedFirst(tree, parent, child)
  PROVE  Moved(Added(tree, parent, child), t, parent, child, parent,
               Append(t.likes[parent].nested_systems, child),
               RemoveFirst(t.packages[Owner(parent)].top_level_systems, child),
               Append(IF t.names[parent] # <<>> THEN t.names[parent]
                      ELSE t.packages[Owner(parent)].name, defs[child].name))
<1>1. PICK likes, pkgs, names, o, nested, top, name :
        /\ likes = t.likes /\ pkgs = t.packages /\ names = t.names /\ o = Owner(parent)
        /\ nested = Append(t.likes[parent].nested_systems, child)
        /\ top = RemoveFirst(t.packages[Owner(parent)].top_level_systems, child)
        /\ name = Append(IF t.names[parent] # <<>> THEN t.names[parent]
                         ELSE t.packages[Owner(parent)].name, defs[child].name)
  OBVIOUS
<1>2. PICK L : L = [likes EXCEPT ![child].parent_system_id = parent,
                                 ![parent].nested_systems = Append(@, child)]
  OBVIOUS
<1>3. PICK P : P = [pkgs EXCEPT ![o].top_level_systems = RemoveFirst(@, child)]
  OBVIOUS
<1>4. PICK N : N = IF defs[child].name = "" THEN names ELSE [names EXCEPT ![child] = name]
  OBVIOUS
<1>5. Added(tree, parent, child) = [likes |-> L, packages |-> P, names |-> N]
  BY <1>1, <1>2, <1>3, <1>4, Zenon DEF Added, Owner
<1>6. OneMoved(L, likes, parent, child, parent, nested)
  <2>1. PICK a : a = [likes[child] EXCEPT !.parent_system_id = parent]
    OBVIOUS
  <2>2. PICK b : b = [likes[parent] EXCEPT !.nested_systems = nested]
    OBVIOUS
  <2>3. child # parent /\ nested = Append(likes[parent].nested_systems, child)
    BY <1>1 DEF Related
  <2>4. L = [likes EXCEPT ![child] = a, ![parent] = b]
    BY <1>2, <2>1, <2>2, <2>3
  <2> QED
    BY <1>1, <2>1, <2>2, <2>4, ChangedLikes DEF Related, IsTree
<1>7. OneTop(P, pkgs, o, top)
  <2>1. P = [pkgs EXCEPT ![o].top_level_systems = top]
    BY <1>1, <1>3
  <2> QED
    BY <1>1, <2>1, ChangedTop DEF Related, IsTree
<1>8. OneName(N, names, child, name)
  BY <1>1, <1>4 DEF OneName, Related, IsTree, IsFun
<1>9. PICK new : new = [likes |-> L, packages |-> P, names |-> N]
  OBVIOUS
<1>10. new.likes = L /\ new.packages = P /\ new.names = N /\ Added(tree, parent, child) = new
  BY <1>5, <1>9
<1>11. Moved(new, t, parent, child, parent, nested, top, name)
  BY <1>1, <1>6, <1>7, <1>8, <1>10 DEF Moved
<1> QED
  BY <1>1, <1>10, <1>11

LEMMA MovedTwice ==
  ASSUME NEW r, NEW s, NEW t, NEW parent, NEW child, Related(t, parent, child),
         NEW np1, NEW nested1, NEW top1, NEW name1, NEW np2, NEW nested2, NEW top2, NEW name2,
         Moved(s, t, parent, child, np1, nested1, top1, name1),
         Moved(r, s, parent, child, np2, nested2, top2, name2)
  PROVE  Moved(r, t, parent, child, np2, nested2, top2, name2)
<1>1. OneMoved(r.likes, t.likes, parent, child, np2, nested2)
  BY DEF Moved, OneMoved, AreLikes, IsFun, Related
<1>2. OneTop(r.packages, t.packages, Owner(parent), top2)
  BY DEF Moved, OneTop
<1>3. OneName(r.names, t.names, child, name2)
  BY DEF Moved, OneName, Related
<1> QED
  BY <1>1, <1>2, <1>3 DEF Moved

(* A step that makes np the parent of child, with these lists of parent    *)
(* and of their package.                                                   *)
TreeStep(parent, child, np, nested, top) ==
  /\ Systems' = Systems /\ Packages' = Packages /\ UNCHANGED defs
  /\ \A q \in Packages : package_defs'[q].name = package_defs[q].name
  /\ package_defs'[Owner(child)].top_level_systems = top
  /\ \A q \in Packages \ {Owner(child)} : Top(q)' = Top(q)
  /\ system_likes'[child].parent_system_id = np
  /\ system_likes'[parent].nested_systems = nested
  /\ \A s \in Systems \ {child} : Parent(s)' = Parent(s)
  /\ \A s \in Systems \ {parent} : Nested(s)' = Nested(s)
  /\ \A s \in Systems \ {child} : full_names'[s] = full_names[s]
  /\ full_names'[child] =
       IF defs[child].name = "" THEN full_names[child]
       ELSE SystemFullName("system", Owner(child), defs[child].name, np)
  /\ renamed' = IF full_names'[child] # full_names[child] /\ Nested(child) # <<>>
                THEN renamed \cup {child} ELSE renamed

Placed(parent, child, np, nested, top) ==
  /\ np \in {NoId, parent}
  /\ SameButFor(nested, Nested(parent), child)
  /\ SameButFor(top, Top(Owner(child)), child)
  /\ np = NoId => Contains(top, child)
  /\ np = parent => Contains(nested, child)
  /\ moved \subseteq moved' /\ moved' \subseteq moved \cup {child}
  /\ child \notin moved' => /\ Parent(child) \in {NoId, parent}
                            /\ AtMostOnce(top, child) /\ AtMostOnce(nested, child)
                            /\ np = NoId => ~Contains(nested, child)
                            /\ np = parent => ~Contains(top, child)

LEMMA TreeStepInv ==
  ASSUME Shape, TreeInv, NEW parent \in Systems, NEW child \in Systems \ {parent},
         defs[child].kind = "system", Owner(parent) = Owner(child), NEW np, NEW nested, NEW top,
         TreeStep(parent, child, np, nested, top), Placed(parent, child, np, nested, top),
         Shape'
  PROVE  TreeInv'
<1>1. /\ child \in Nat /\ parent \in Nat /\ NoId \notin Nat /\ np # child
      /\ \A s \in Systems : s \in Nat /\ Owner(s) \in Packages
  BY SystemIds DEF Placed, NoId
<1>2. PICK o \in Packages : o = Owner(child) /\ o = Owner(parent)
  BY <1>1
<1>3. /\ Systems' = Systems /\ Packages' = Packages /\ defs' = defs
      /\ \A s : Owner(s)' = Owner(s)
  BY DEF TreeStep, Owner
<1>4. /\ Top(o)' = top /\ \A q \in Packages \ {o} : Top(q)' = Top(q)
  BY <1>2 DEF TreeStep, Top
<1>5. /\ Parent(child)' = np /\ \A s \in Systems \ {child} : Parent(s)' = Parent(s)
      /\ Nested(parent)' = nested /\ \A s \in Systems \ {parent} : Nested(s)' = Nested(s)
  BY DEF TreeStep, Parent, Nested
<1>6. Lists'
  <2>1. ASSUME NEW q \in Packages
        PROVE  /\ Top(q)' \in Seq(Nat)
               /\ \A x \in Nat : Contains(Top(q)', x) => x \in Systems /\ Owner(x)' = q
    <3>1. /\ Top(q) \in Seq(Nat)
          /\ \A x \in Nat : Contains(Top(q), x) => x \in Systems /\ Owner(x) = q
      BY DEF TreeInv, Lists
    <3>2. CASE q = o
      <4>1. Top(q)' = top
        BY <1>4, <3>2
      <4>2. SameButFor(top, Top(q), child)
        BY <1>2, <3>2 DEF Placed
      <4> QED
        BY <1>2, <1>3, <3>1, <3>2, <4>1, <4>2 DEF SameButFor
    <3>3. CASE q # o
      BY <1>3, <1>4, <3>1, <3>3
    <3> QED
      BY <3>2, <3>3
  <2>2. ASSUME NEW s \in Systems
        PROVE  /\ Nested(s)' \in Seq(Nat)
               /\ \A x \in Nat : Contains(Nested(s)', x)
                                   => x \in Systems /\ Owner(x)' = Owner(s)'
    <3>1. /\ Nested(s) \in Seq(Nat)
          /\ \A x \in Nat : Contains(Nested(s), x) => x \in Systems /\ Owner(x) = Owner(s)
      BY DEF TreeInv, Lists
    <3>2. CASE s = parent
      <4>1. Nested(s)' = nested
        BY <1>5, <3>2
      <4>2. SameButFor(nested, Nested(s), child)
        BY <3>2 DEF Placed
      <4> QED
        BY <1>2, <1>3, <3>1, <3>2, <4>1, <4>2 DEF SameButFor
    <3>3. CASE s # parent
      BY <1>3, <1>5, <3>1, <3>3
    <3> QED
      BY <3>2, <3>3
  <2> QED
    BY <1>3, <2>1, <2>2, Zenon DEF Lists
<1>7. Parents'
  <2>1. ASSUME NEW s \in Systems
        PROVE  IF Parent(s)' = NoId THEN Contains(Top(Owner(s))', s)
               ELSE /\ Parent(s)' \in Systems \ {s} /\ Owner(Parent(s))' = Owner(s)'
                    /\ Contains(Nested(Parent(s))', s)
    <3>1. CASE s = child /\ np = NoId
      <4>1. Top(Owner(s))' = Top(o)'
        BY <1>2, <1>3, <3>1 DEF Top
      <4> QED
        BY <1>4, <1>5, <3>1, <4>1 DEF Placed
    <3>2. CASE s = child /\ np = parent
      <4>1. Parent(s)' = parent
        BY <1>5, <3>2
      <4>2. Nested(Parent(s))' = Nested(parent)' /\ Owner(Parent(s))' = Owner(parent)'
        BY <4>1 DEF Nested, Owner
      <4> QED
        BY <1>1, <1>2, <1>3, <1>5, <3>2, <4>1, <4>2 DEF Placed
    <3>3. CASE s # child /\ Parent(s) = NoId
      <4>1. PICK q \in Packages : q = Owner(s) /\ Contains(Top(q), s)
        BY <1>1, <3>3 DEF TreeInv, Parents
      <4>2. Top(Owner(s))' = Top(q)'
        BY <1>3, <4>1 DEF Top
      <4>3. Contains(Top(q)', s)
        <5>1. CASE q = o
          <6>1. SameButFor(top, Top(q), child)
            BY <1>2, <5>1 DEF Placed
          <6> QED
            BY <1>1, <1>4, <3>3, <4>1, <5>1, <6>1 DEF SameButFor
        <5>2. CASE q # o
          BY <1>4, <4>1, <5>2
        <5> QED
          BY <5>1, <5>2
      <4> QED
        BY <1>5, <3>3, <4>2, <4>3
    <3>4. CASE s # child /\ Parent(s) # NoId
      <4>1. PICK q \in Systems \ {s} : /\ q = Parent(s) /\ q = Parent(s)'
                                       /\ Owner(q) = Owner(s) /\ Contains(Nested(q), s)
        BY <1>5, <3>4 DEF TreeInv, Parents
      <4>2. Nested(Parent(s))' = Nested(q)' /\ Owner(Parent(s))' = Owner(q)'
        BY <4>1 DEF Nested, Owner
      <4>3. Contains(Nested(q)', s)
        <5>1. CASE q = parent
          <6>1. SameButFor(nested, Nested(q), child)
            BY <5>1 DEF Placed
          <6> QED
            BY <1>1, <1>5, <3>4, <4>1, <5>1, <6>1 DEF SameButFor
        <5>2. CASE q # parent
          BY <1>5, <4>1, <5>2
        <5> QED
          BY <5>1, <5>2
      <4> QED
        BY <1>3, <3>4, <4>1, <4>2, <4>3
    <3> QED
      BY <3>1, <3>2, <3>3, <3>4 DEF Placed
  <2> QED
    BY <1>3, <2>1 DEF Parents
<1>8. OnePlace'
  <2>1. ASSUME NEW s \in Systems \ moved'
        PROVE  /\ AtMostOnce(Top(Owner(s))', s)
               /\ Contains(Top(Owner(s))', s) => Parent(s)' = NoId
               /\ \A q \in Systems : /\ AtMostOnce(Nested(q)', s)
                                     /\ Contains(Nested(q)', s) => Parent(s)' = q
    <3>1. PICK p \in Packages : p = Owner(s)
      BY <1>1
    <3>2. Top(Owner(s))' = Top(p)'
      BY <1>3, <3>1 DEF Top
    <3>3. /\ AtMostOnce(Top(p), s)
          /\ Contains(Top(p), s) => Parent(s) = NoId
          /\ \A q \in Systems : /\ AtMostOnce(Nested(q), s)
                                /\ Contains(Nested(q), s) => Parent(s) = q
      <4>1. s \in Systems \ moved
        BY DEF Placed
      <4> QED
        BY <3>1, <4>1, Zenon DEF TreeInv, OnePlace
    <3>4. CASE s = child
      <4>1. /\ Parent(child) \in {NoId, parent}
            /\ AtMostOnce(top, child) /\ AtMostOnce(nested, child)
            /\ np = NoId => ~Contains(nested, child)
            /\ np = parent => ~Contains(top, child)
            /\ np \in {NoId, parent}
        BY <3>4 DEF Placed
      <4>2. ASSUME NEW q \in Systems
            PROVE  AtMostOnce(Nested(q)', s) /\ (Contains(Nested(q)', s) => np = q)
        <5>1. CASE q = parent
          BY <1>5, <3>4, <4>1, <5>1
        <5>2. CASE q # parent
          <6>1. Nested(q)' = Nested(q)
            BY <1>5, <5>2
          <6>2. q # NoId
            BY <1>1
          <6> QED
            BY <3>3, <3>4, <4>1, <5>2, <6>1, <6>2
        <5> QED
          BY <5>1, <5>2
      <4>3. AtMostOnce(Top(p)', s) /\ (Contains(Top(p)', s) => np = NoId)
        BY <1>2, <1>4, <3>1, <3>4, <4>1
      <4> QED
        BY <1>5, <3>2, <3>4, <4>2, <4>3
    <3>5. CASE s # child
      <4>1. s \in Nat \ {child}
        BY <1>1, <3>5
      <4>2. AtMostOnce(Top(p)', s) /\ (Contains(Top(p)', s) => Parent(s) = NoId)
        <5>1. CASE p = o
          <6>1. SameButFor(top, Top(p), child)
            BY <1>2, <5>1 DEF Placed
          <6> QED
            BY <1>4, <3>3, <4>1, <5>1, <6>1 DEF SameButFor
        <5>2. CASE p # o
          <6>1. Top(p)' = Top(p)
            BY <1>4, <5>2
          <6> QED
            BY <3>3, <6>1
        <5> QED
          BY <5>1, <5>2
      <4>3. ASSUME NEW q \in Systems
            PROVE  AtMostOnce(Nested(q)', s) /\ (Contains(Nested(q)', s) => Parent(s) = q)
        <5>1. CASE q = parent
          <6>1. SameButFor(nested, Nested(q), child)
            BY <5>1 DEF Placed
          <6> QED
            BY <1>5, <3>3, <4>1, <5>1, <6>1 DEF SameButFor
        <5>2. CASE q # parent
          <6>1. Nested(q)' = Nested(q)
            BY <1>5, <5>2
          <6> QED
            BY <3>3, <6>1
        <5> QED
          BY <5>1, <5>2
      <4> QED
        BY <1>5, <3>2, <3>5, <4>2, <4>3
    <3> QED
      BY <3>4, <3>5
  <2> QED
    BY <1>3, <2>1, Zenon DEF OnePlace
<1>9. NamesInv'
  <2>1. /\ \A q \in Packages : package_defs'[q].name = package_defs[q].name
        /\ \A s \in Systems \ {child} : full_names'[s] = full_names[s]
        /\ renamed \subseteq renamed'
    BY DEF TreeStep
  <2>2. ASSUME NEW s \in Systems, defs[s].kind = "system"
        PROVE  /\ defs[s].name = "" => full_names'[s] = <<>>
               /\ Parent(s)' \notin renamed' => full_names'[s] = PathOf(s)'
    <3>1. PICK p \in Packages : p = Owner(s) /\ p = Owner(s)'
      BY <1>1, <1>3
    <3>2. s \in Declared({"system"})
      BY <2>2, SystemsAre
    <3>3. /\ defs[s].name = "" => full_names[s] = <<>>
          /\ Parent(s) \notin renamed => full_names[s] = PathOf(s)
      BY <3>2 DEF TreeInv, NamesInv
    <3>4. CASE s = child /\ defs[s].name = ""
      <4>1. full_names'[s] = <<>>
        BY <3>3, <3>4 DEF TreeStep
      <4>2. PathOf(s)' = <<>>
        BY <1>3, <3>4, Zenon DEF PathOf, SystemFullName
      <4> QED
        BY <4>1, <4>2
    <3>5. CASE s = child /\ defs[s].name # ""
      <4>1. full_names'[s] = SystemFullName("system", p, defs[s].name, np)
        BY <3>1, <3>5 DEF TreeStep
      <4>2. np # NoId => full_names'[np] = full_names[np]
        BY <2>1 DEF Placed
      <4>3. PathOf(s)' = SystemFullName("system", p, defs[s].name, np)
        BY <1>3, <1>5, <2>1, <3>1, <3>5, <4>2, Zenon DEF PathOf, SystemFullName
      <4> QED
        BY <3>5, <4>1, <4>3
    <3>6. CASE s # child
      <4>1. full_names'[s] = full_names[s] /\ Parent(s)' = Parent(s)
        BY <1>5, <2>1, <3>6
      <4>2. ASSUME Parent(s) \notin renamed'
            PROVE  full_names'[s] = PathOf(s)'
        <5>1. full_names[s] = PathOf(s)
          BY <2>1, <3>3, <4>2
        <5>2. Parent(s) # NoId => Parent(s) \in Systems /\ Contains(Nested(Parent(s)), s)
          BY DEF TreeInv, Parents
        <5>3. Parent(s) # NoId => full_names'[Parent(s)] = full_names[Parent(s)]
          <6>1. CASE Parent(s) = child
            <7>1. child # NoId /\ Nested(child) # <<>>
              BY <1>1, <5>2, <6>1 DEF Contains
            <7> QED
              BY <4>2, <6>1, <7>1 DEF TreeStep
          <6>2. CASE Parent(s) # child
            BY <2>1, <5>2, <6>2
          <6> QED
            BY <6>1, <6>2
        <5>4. PathOf(s)' = PathOf(s)
          BY <1>3, <2>1, <3>1, <4>1, <5>3, Zenon DEF PathOf, SystemFullName
        <5> QED
          BY <4>1, <5>1, <5>4
      <4> QED
        BY <3>3, <4>1, <4>2
    <3> QED
      BY <3>4, <3>5, <3>6
  <2>3. \A s : s \in Declared({"system"})' => s \in Systems' /\ defs'[s].kind = "system"
    BY DEF Shape, Declared, SystemLikes
  <2> QED
    BY <1>3, <2>2, <2>3, Zenon DEF NamesInv
<1> QED
  BY <1>6, <1>7, <1>8, <1>9 DEF TreeInv

LEMMA TreeRelated ==
  ASSUME Shape, NEW parent \in Systems, NEW child \in Systems \ {parent},
         Owner(parent) = Owner(child)
  PROVE  /\ Related(Tree, parent, child)
         /\ Tree.likes = system_likes /\ Tree.packages = package_defs
         /\ Tree.names = full_names
<1>1. PICK t : t = Tree
  OBVIOUS
<1>2. t.likes = system_likes /\ t.packages = package_defs /\ t.names = full_names
  BY <1>1 DEF Tree
<1>3. Owner(parent) \in DOMAIN package_defs
  BY SystemIds DEF Packages
<1>4. child \in DOMAIN full_names
  BY DEF Shape, Declared, SystemLikes, DeclKinds, Systems
<1> QED
  BY <1>1, <1>2, <1>3, <1>4
     DEF Related, IsTree, Shape, Packages, AreLikes, ArePackages, Systems

LEMMA MovedStep ==
  ASSUME Shape, NEW parent \in Systems, NEW child \in Systems \ {parent},
         Owner(parent) = Owner(child), NEW new, NEW np, NEW nested, NEW top, NEW name,
         Moved(new, Tree, parent, child, np, nested, top, name), BecomesTree(new, child),
         name = SystemFullName("system", Owner(child), defs[child].name, np)
                  \/ defs[child].name = "",
         np = NoId \/ np = parent
  PROVE  Shape' /\ TreeStep(parent, child, np, nested, top)
<1>1. /\ OneMoved(system_likes', system_likes, parent, child, np, nested)
      /\ OneTop(package_defs', package_defs, Owner(parent), top)
      /\ OneName(full_names', full_names, child, name)
      /\ UNCHANGED <<last_id, defs, fields>>
  BY TreeRelated DEF Moved, BecomesTree
<1>2. /\ AreLikes(system_likes') /\ Systems' = Systems
      /\ system_likes'[child].parent_system_id = np
      /\ system_likes'[child].nested_systems = system_likes[child].nested_systems
      /\ system_likes'[parent].parent_system_id = system_likes[parent].parent_system_id
      /\ system_likes'[parent].nested_systems = nested
      /\ \A s \in Systems \ {parent, child} : system_likes'[s] = system_likes[s]
  BY <1>1 DEF OneMoved, Systems
<1>3. /\ ArePackages(package_defs') /\ Packages' = Packages
      /\ \A q \in Packages : package_defs'[q].name = package_defs[q].name
      /\ package_defs'[Owner(parent)].top_level_systems = top
      /\ \A q \in Packages \ {Owner(parent)} : package_defs'[q] = package_defs[q]
  BY <1>1 DEF OneTop, Packages
<1>4. /\ IsFun(full_names') /\ DOMAIN full_names' = DOMAIN full_names
      /\ full_names'[child] = IF defs[child].name = "" THEN full_names[child] ELSE name
      /\ \A x \in DOMAIN full_names \ {child} : full_names'[x] = full_names[x]
  BY <1>1 DEF OneName
<1>5. \A kinds : Declared(kinds)' = Declared(kinds)
  BY <1>1, <1>3 DEF Declared
<1>6. Shape'
  <2>1. /\ last_id' \in 0 .. MaxId /\ IsFun(package_defs)' /\ Packages' \subseteq 0 .. last_id' - 1
        /\ \A q \in Packages' : IsPackage(package_defs[q])'
    BY <1>1, <1>3 DEF Shape, ArePackages, Packages
  <2>2. /\ IsFun(defs)' /\ DOMAIN defs' \subseteq 0 .. last_id' - 1
        /\ \A d \in DOMAIN defs' : IsDef(defs[d])' /\ defs'[d].kind \in Kinds
        /\ \A d \in DOMAIN defs' : defs'[d].kind # "enum" => Owner(d)' \in Packages'
    BY <1>1, <1>3 DEF Shape, Owner
  <2>3. /\ IsFun(system_likes)' /\ Systems' = Declared(SystemLikes)'
        /\ \A s \in Systems' : IsLike(system_likes[s])'
    BY <1>2, <1>5 DEF Shape, AreLikes, Systems
  <2>4. IsFun(fields') /\ DOMAIN fields' = Declared(Composites)'
    BY <1>1, <1>5 DEF Shape
  <2>5. IsFun(full_names)' /\ Declared(DeclKinds)' \subseteq DOMAIN full_names'
    BY <1>4, <1>5 DEF Shape
  <2> QED
    BY <2>1, <2>2, <2>3, <2>4, <2>5 DEF Shape
<1>7. TreeStep(parent, child, np, nested, top)
  <2>1. \A s \in Systems \ {child} : Parent(s)' = Parent(s) /\ full_names'[s] = full_names[s]
    <3>1. \A s \in Systems : s \in DOMAIN full_names
      BY DEF Shape, Declared, SystemLikes, DeclKinds, Systems
    <3> QED
      BY <1>2, <1>4, <3>1 DEF Parent
  <2>2. \A s \in Systems \ {parent} : Nested(s)' = Nested(s)
    BY <1>2 DEF Nested
  <2>3. \A q \in Packages \ {Owner(child)} : Top(q)' = Top(q)
    BY <1>3 DEF Top
  <2>4. renamed' = IF full_names'[child] # full_names[child] /\ Nested(child) # <<>>
                   THEN renamed \cup {child} ELSE renamed
    BY DEF BecomesTree, Nested
  <2> QED
    BY <1>1, <1>2, <1>3, <1>4, <2>1, <2>2, <2>3, <2>4 DEF TreeStep
<1> QED
  BY <1>6, <1>7

LEMMA NotBelow ==
  ASSUME NEW child \in Systems
  PROVE  child \in Below(child)
BY DEF Below, Systems

(* The parts of the invariant about a system and its parent                *)
LEMMA PlaceOf ==
  ASSUME Shape, TreeInv, NEW s \in Systems
  PROVE  /\ s \in Nat /\ NoId \notin Nat /\ Owner(s) \in Packages
         /\ Top(Owner(s)) \in Seq(Nat) /\ Nested(s) \in Seq(Nat)
         /\ Parent(s) = NoId => Contains(Top(Owner(s)), s)
         /\ Parent(s) # NoId => /\ Parent(s) \in Systems \ {s} /\ Owner(Parent(s)) = Owner(s)
                                /\ Contains(Nested(Parent(s)), s)
         /\ s \notin moved =>
              /\ AtMostOnce(Top(Owner(s)), s)
              /\ Parent(s) # NoId => ~Contains(Top(Owner(s)), s)
              /\ \A q \in Systems : /\ AtMostOnce(Nested(q), s)
                                    /\ q # Parent(s) => ~Contains(Nested(q), s)
<1>1. s \in Nat /\ NoId \notin Nat /\ Owner(s) \in Packages
  BY SystemIds DEF NoId
<1>2. Top(Owner(s)) \in Seq(Nat) /\ Nested(s) \in Seq(Nat)
  BY <1>1 DEF TreeInv, Lists
<1>3. /\ Parent(s) = NoId => Contains(Top(Owner(s)), s)
      /\ Parent(s) # NoId => /\ Parent(s) \in Systems \ {s} /\ Owner(Parent(s)) = Owner(s)
                             /\ Contains(Nested(Parent(s)), s)
  BY DEF TreeInv, Parents
<1>4. s \notin moved =>
        /\ AtMostOnce(Top(Owner(s)), s)
        /\ Parent(s) # NoId => ~Contains(Top(Owner(s)), s)
        /\ \A q \in Systems : /\ AtMostOnce(Nested(q), s)
                              /\ q # Parent(s) => ~Contains(Nested(q), s)
  BY Zenon DEF TreeInv, OnePlace
<1> QED
  BY <1>1, <1>2, <1>3, <1>4

LEMMA RemoveChildInv ==
  ASSUME Shape, TreeInv, NEW parent \in Systems, NEW child \in Declared({"system"}),
         RemoveChildSystem(parent, child)
  PROVE  Shape' /\ TreeInv' /\ Packages' = Packages
<1>1. child \in Systems /\ defs[child].kind = "system"
  BY SystemIds
<1>2. moved' = moved /\ BecomesTree(Removed(Tree, parent, child), child)
  BY DEF RemoveChildSystem
<1>3. CASE Parent(child) # parent
  <2>1. Removed(Tree, parent, child) = Tree
    BY <1>3, Zenon DEF Removed, Tree, Parent
  <2>2. /\ UNCHANGED <<system_likes, package_defs, full_names, last_id, defs, fields>>
        /\ UNCHANGED history_vars
    BY <1>2, <2>1 DEF BecomesTree, Tree, history_vars
  <2>3. Shape'
    BY <2>2 DEF Shape, Packages, Declared, Systems, Owner
  <2>4. Untouched
    BY <2>2 DEF Untouched, Packages, Systems, Top, Parent, Nested
  <2>5. Packages' = Packages
    BY <2>2 DEF Packages
  <2> QED
    BY <2>3, <2>4, <2>5, UntouchedTree
<1>4. CASE Parent(child) = parent
  <2>1. /\ child \in Nat /\ parent \in Nat /\ NoId \notin Nat
        /\ child # parent /\ Owner(parent) = Owner(child)
        /\ Contains(Nested(parent), child) /\ Owner(child) \in Packages
        /\ Top(Owner(child)) \in Seq(Nat) /\ Nested(parent) \in Seq(Nat)
    BY <1>1, <1>4, PlaceOf
  <2>2. PICK nested, top, name :
          /\ nested = RemoveFirst(Nested(parent), child) /\ top = Append(Top(Owner(child)), child)
          /\ name = Append(package_defs[Owner(child)].name, defs[child].name)
    OBVIOUS
  <2>3. PICK new : new = Removed(Tree, parent, child)
    OBVIOUS
  <2>4. Moved(new, Tree, parent, child, NoId, nested, top, name)
    BY <1>1, <1>4, <2>1, <2>2, <2>3, TreeRelated, RemovedMoves DEF Nested, Top, Parent
  <2>5. name = SystemFullName("system", Owner(child), defs[child].name, NoId)
          \/ defs[child].name = ""
    BY <2>2, Zenon DEF SystemFullName
  <2>6. Shape' /\ TreeStep(parent, child, NoId, nested, top)
    BY <1>1, <1>2, <2>1, <2>3, <2>4, <2>5, MovedStep
  <2>7. Placed(parent, child, NoId, nested, top)
    <3>1. /\ SameButFor(nested, Nested(parent), child)
          /\ AtMostOnce(Nested(parent), child) => ~Contains(nested, child)
          /\ SameButFor(top, Top(Owner(child)), child) /\ Contains(top, child)
          /\ ~Contains(Top(Owner(child)), child) => AtMostOnce(top, child)
      BY <2>1, <2>2, RemovedFrom, AppendedTo
    <3>2. child \notin moved =>
            ~Contains(Top(Owner(child)), child) /\ AtMostOnce(Nested(parent), child)
      BY <1>1, <1>4, <2>1, PlaceOf
    <3>3. ~Contains(nested, child) => AtMostOnce(nested, child)
      BY DEF AtMostOnce, Contains
    <3> QED
      BY <1>2, <1>4, <2>1, <3>1, <3>2, <3>3 DEF Placed
  <2>8. Packages' = Packages
    BY <2>6 DEF TreeStep
  <2> QED
    BY <1>1, <2>1, <2>6, <2>7, <2>8, TreeStepInv
<1> QED
  BY <1>3, <1>4

LEMMA AddChildInv ==
  ASSUME Shape, TreeInv, NEW parent \in Systems, NEW child \in Declared({"system"}),
         AddChildSystem(parent, child)
  PROVE  Shape' /\ TreeInv' /\ Packages' = Packages
<1>1. child \in Systems /\ defs[child].kind = "system"
  BY SystemIds
<1>2. /\ parent # child /\ Owner(parent) = Owner(child)
      /\ BecomesTree(Added(Tree, parent, child), child)
      /\ moved' = IF Parent(child) \notin {NoId, parent} THEN moved \cup {child} ELSE moved
  BY <1>1, NotBelow DEF AddChildSystem, Owner, Parent
<1>3. /\ child \in Nat /\ parent \in Nat /\ NoId \notin Nat /\ Owner(child) \in Packages
      /\ Top(Owner(child)) \in Seq(Nat) /\ Nested(parent) \in Seq(Nat)
  BY <1>1, PlaceOf
<1>4. PICK t : t = RemovedFirst(Tree, parent, child)
  OBVIOUS
<1>5. PICK new : new = Added(Tree, parent, child)
  OBVIOUS
<1>6. PICK name : name = Append(IF full_names[parent] # <<>> THEN full_names[parent]
                                ELSE package_defs[Owner(child)].name, defs[child].name)
  OBVIOUS
<1>7. name = SystemFullName("system", Owner(child), defs[child].name, parent)
        \/ defs[child].name = ""
  <2>1. parent # NoId
    BY <1>3
  <2> QED
    BY <1>6, <2>1, Zenon DEF SystemFullName
<1>8. CASE Parent(child) # parent
  <2>1. t = Tree
    BY <1>4, <1>8, Zenon DEF RemovedFirst, Removed, Tree, Parent
  <2>2. PICK nested, top :
          nested = Append(Nested(parent), child) /\ top = RemoveFirst(Top(Owner(child)), child)
    OBVIOUS
  <2>3. Moved(new, Tree, parent, child, parent, nested, top, name)
    <3>1. Related(t, parent, child)
      BY <1>1, <1>2, <2>1, TreeRelated
    <3>2. /\ t.likes[parent].nested_systems = Nested(parent)
          /\ t.packages[Owner(parent)].top_level_systems = Top(Owner(child))
          /\ t.packages[Owner(parent)].name = package_defs[Owner(child)].name
          /\ t.names[parent] = full_names[parent]
      BY <1>1, <1>2, <2>1, TreeRelated DEF Nested, Top
    <3>3. Moved(new, t, parent, child, parent, nested, top, name)
      BY <1>2, <1>4, <1>5, <1>6, <2>2, <3>1, <3>2, AddedMoves
    <3> QED
      BY <2>1, <3>3
  <2>4. Shape' /\ TreeStep(parent, child, parent, nested, top)
    BY <1>1, <1>2, <1>5, <1>7, <2>3, MovedStep
  <2>5. Placed(parent, child, parent, nested, top)
    <3>1. /\ SameButFor(nested, Nested(parent), child) /\ Contains(nested, child)
          /\ ~Contains(Nested(parent), child) => AtMostOnce(nested, child)
          /\ SameButFor(top, Top(Owner(child)), child)
          /\ AtMostOnce(Top(Owner(child)), child) => ~Contains(top, child)
      BY <1>3, <2>2, RemovedFrom, AppendedTo
    <3>2. child \notin moved =>
            AtMostOnce(Top(Owner(child)), child) /\ ~Contains(Nested(parent), child)
      BY <1>1, <1>8, PlaceOf
    <3>3. ~Contains(top, child) => AtMostOnce(top, child)
      BY DEF AtMostOnce, Contains
    <3> QED
      BY <1>2, <1>3, <3>1, <3>2, <3>3 DEF Placed
  <2>6. Packages' = Packages
    BY <2>4 DEF TreeStep
  <2> QED
    BY <1>1, <1>2, <2>4, <2>5, <2>6, TreeStepInv
<1>9. CASE Parent(child) = parent
  <2>1. t = Removed(Tree, parent, child) /\ Contains(Nested(parent), child)
    <3>1. Parent(child) # NoId
      BY <1>3, <1>9
    <3>2. Contains(Nested(parent), child)
      BY <1>1, <1>9, <3>1, PlaceOf
    <3> QED
      BY <1>4, <3>1, <3>2, Zenon DEF RemovedFirst, Tree, Parent
  <2>2. PICK nested1, top1, name1 :
          /\ nested1 = RemoveFirst(Nested(parent), child)
          /\ top1 = Append(Top(Owner(child)), child)
          /\ name1 = Append(package_defs[Owner(child)].name, defs[child].name)
    OBVIOUS
  <2>3. Moved(t, Tree, parent, child, NoId, nested1, top1, name1)
    BY <1>1, <1>2, <1>9, <2>1, <2>2, TreeRelated, RemovedMoves DEF Nested, Top, Parent
  <2>4. PICK nested, top : nested = Append(nested1, child) /\ top = RemoveFirst(top1, child)
    OBVIOUS
  <2>5. Moved(new, t, parent, child, parent, nested, top, name)
    <3>1. Related(t, parent, child)
      BY <1>1, <1>2, <2>3, TreeRelated
         DEF Related, IsTree, Moved, OneMoved, OneTop, OneName, AreLikes, ArePackages
    <3>2. /\ t.likes[parent].nested_systems = nested1
          /\ t.packages[Owner(parent)].top_level_systems = top1
          /\ t.packages[Owner(parent)].name = package_defs[Owner(child)].name
          /\ t.names[parent] = full_names[parent]
      <4>1. parent \in DOMAIN full_names \ {child}
        BY <1>2 DEF Shape, Declared, SystemLikes, DeclKinds, Systems
      <4> QED
        BY <1>1, <1>2, <1>3, <2>3, <4>1, TreeRelated
           DEF Moved, OneMoved, OneTop, OneName, Packages
    <3> QED
      BY <1>2, <1>4, <1>5, <1>6, <2>4, <3>1, <3>2, AddedMoves
  <2>6. Moved(new, Tree, parent, child, parent, nested, top, name)
    BY <1>1, <1>2, <2>3, <2>5, TreeRelated, MovedTwice
  <2>7. Shape' /\ TreeStep(parent, child, parent, nested, top)
    BY <1>1, <1>2, <1>5, <1>7, <2>6, MovedStep
  <2>8. Placed(parent, child, parent, nested, top)
    <3>1. /\ SameButFor(nested1, Nested(parent), child)
          /\ AtMostOnce(Nested(parent), child) => ~Contains(nested1, child)
          /\ SameButFor(top1, Top(Owner(child)), child)
          /\ ~Contains(Top(Owner(child)), child) => AtMostOnce(top1, child)
      BY <1>3, <2>2, RemovedFrom, AppendedTo
    <3>2. nested1 \in Seq(Nat) /\ top1 \in Seq(Nat)
      BY <3>1 DEF SameButFor
    <3>3. /\ SameButFor(nested, nested1, child) /\ Contains(nested, child)
          /\ ~Contains(nested1, child) => AtMostOnce(nested, child)
          /\ SameButFor(top, top1, child)
          /\ AtMostOnce(top1, child) => ~Contains(top, child)
      BY <1>3, <2>4, <3>2, RemovedFrom, AppendedTo
    <3>4. child \notin moved =>
            ~Contains(Top(Owner(child)), child) /\ AtMostOnce(Nested(parent), child)
      BY <1>1, <1>3, <1>9, PlaceOf
    <3>5. ~Contains(top, child) => AtMostOnce(top, child)
      BY DEF AtMostOnce, Contains
    <3>6. /\ SameButFor(nested, Nested(parent), child)
          /\ SameButFor(top, Top(Owner(child)), child)
      BY <3>1, <3>3, ButForTrans
    <3> QED
      BY <1>2, <1>3, <1>9, <3>1, <3>3, <3>4, <3>5, <3>6 DEF Placed
  <2>9. Packages' = Packages
    BY <2>7 DEF TreeStep
  <2> QED
    BY <1>1, <1>2, <2>7, <2>8, <2>9, TreeStepInv
<1> QED
  BY <1>8, <1>9
-----------------------------------------------------------------------------
(* What Kept keeps: the fold's function on the sets of positions           *)

KeepOne(kept, set, a) == IF a \in set THEN Append(kept, a) ELSE kept

KeptBelow(list, set, g, k) ==
  \A S \in SUBSET (1 .. k) :
    g[S] = IF S = {} THEN <<>> ELSE KeepOne(g[S \ {Max(S)}], set, list[Max(S)])

HasFold(list, set, n) ==
  \E g : KeptBelow(list, set, g, n) /\ g = [S \in SUBSET (1 .. n) |-> g[S]]

LEMMA MaxOfTop ==
  ASSUME NEW k \in Nat, NEW S \in SUBSET (1 .. k + 1), ~(S \subseteq 1 .. k)
  PROVE  S # {} /\ Max(S) = k + 1 /\ S \ {Max(S)} \subseteq 1 .. k
<1>1. k + 1 \in S /\ \A x \in S : k + 1 >= x
  OBVIOUS
<1>2. \A x \in S : (\A y \in S : x >= y) => x = k + 1
  BY <1>1
<1>3. Max(S) = k + 1
  BY <1>1, <1>2 DEF Max
<1> QED
  BY <1>1, <1>3

LEMMA LeastNat ==
  ASSUME NEW B \in SUBSET Nat, B # {}, 0 \notin B
  PROVE  \E k \in Nat : k \notin B /\ k + 1 \in B
<1>1. PICK m : m = Min(B)
  OBVIOUS
<1>2. m \in Nat \ {0} /\ m \in B /\ \A y \in B : m <= y
  BY <1>1, LeastOf
<1>3. m - 1 \in Nat /\ m - 1 \notin B /\ (m - 1) + 1 \in B
  BY <1>2
<1> QED
  BY <1>3

(* There is such a function, one more position at a time.                  *)
LEMMA KeptExists ==
  ASSUME NEW list, NEW set, NEW n \in Nat
  PROVE  HasFold(list, set, n)
<1> DEFINE B == {k \in Nat : ~\E g : KeptBelow(list, set, g, k)}
<1>1. 0 \notin B
  <2>1. PICK g : g = [S \in {{}} |-> <<>>]
    OBVIOUS
  <2>2. KeptBelow(list, set, g, 0)
    <3>1. SUBSET (1 .. 0) = {{}}
      OBVIOUS
    <3> QED
      BY <2>1, <3>1 DEF KeptBelow
  <2> QED
    BY <2>2
<1>2. ASSUME NEW k \in Nat, NEW g, KeptBelow(list, set, g, k)
      PROVE  \E h : KeptBelow(list, set, h, k + 1)
  <2>1. PICK h : h = [S \in SUBSET (1 .. k + 1) |->
                        IF S \subseteq 1 .. k THEN g[S]
                        ELSE KeepOne(g[S \ {k + 1}], set, list[k + 1])]
    OBVIOUS
  <2>2. 1 .. k \subseteq 1 .. k + 1
    OBVIOUS
  <2>3. \A S \in SUBSET (1 .. k) : h[S] = g[S] /\ S \in SUBSET (1 .. k + 1)
    BY <2>1, <2>2
  <2>4. ASSUME NEW S \in SUBSET (1 .. k + 1)
        PROVE  h[S] = IF S = {} THEN <<>> ELSE KeepOne(h[S \ {Max(S)}], set, list[Max(S)])
    <3>1. CASE S \subseteq 1 .. k
      <4>1. S \ {Max(S)} \in SUBSET (1 .. k)
        BY <3>1
      <4>2. h[S] = g[S] /\ h[S \ {Max(S)}] = g[S \ {Max(S)}]
        BY <2>3, <3>1, <4>1
      <4>3. g[S] = IF S = {} THEN <<>> ELSE KeepOne(g[S \ {Max(S)}], set, list[Max(S)])
        BY <1>2, <3>1 DEF KeptBelow
      <4> QED
        BY <4>2, <4>3
    <3>2. CASE ~(S \subseteq 1 .. k)
      <4>1. S # {} /\ Max(S) = k + 1 /\ S \ {Max(S)} \in SUBSET (1 .. k)
        BY <3>2, MaxOfTop
      <4>2. h[S] = KeepOne(g[S \ {k + 1}], set, list[k + 1])
        BY <2>1, <3>2
      <4>3. h[S \ {Max(S)}] = g[S \ {k + 1}]
        BY <2>3, <4>1
      <4> QED
        BY <4>1, <4>2, <4>3
    <3> QED
      BY <3>1, <3>2
  <2> QED
    BY <2>4 DEF KeptBelow
<1>3. B = {}
  <2>1. B \in SUBSET Nat
    OBVIOUS
  <2>2. \A k \in Nat : k \notin B => k + 1 \notin B
    BY <1>2
  <2> HIDE DEF B
  <2> QED
    BY <1>1, <2>1, <2>2, LeastNat
<1>4. PICK g : KeptBelow(list, set, g, n)
  BY <1>3
<1>5. PICK h : h = [S \in SUBSET (1 .. n) |-> g[S]]
  OBVIOUS
<1>6. KeptBelow(list, set, h, n)
  BY <1>4, <1>5 DEF KeptBelow
<1> QED
  BY <1>5, <1>6 DEF HasFold

LEMMA KeptIsFold ==
  ASSUME NEW list, NEW set, NEW n \in Nat, DOMAIN list = 1 .. n
  PROVE  \E g : KeptBelow(list, set, g, n) /\ Kept(list, set) = g[1 .. n]
<1> DEFINE Fold(g) == g = [S \in SUBSET (DOMAIN list) |->
                             IF S = {} THEN <<>>
                             ELSE LET x == Max(S)
                                  IN IF list[x] \in set THEN Append(g[S \ {x}], list[x])
                                     ELSE g[S \ {x}]]
<1>1. \E g : Fold(g)
  <2>1. PICK g : KeptBelow(list, set, g, n) /\ g = [S \in SUBSET (1 .. n) |-> g[S]]
    <3>1. HasFold(list, set, n)
      BY KeptExists
    <3> QED
      BY <3>1 DEF HasFold
  <2>2. g = [S \in SUBSET (1 .. n) |->
               IF S = {} THEN <<>>
               ELSE LET x == Max(S)
                    IN IF list[x] \in set THEN Append(g[S \ {x}], list[x]) ELSE g[S \ {x}]]
    BY <2>1 DEF KeptBelow, KeepOne
  <2> QED
    BY <2>2
<1>2. PICK g : g = CHOOSE h : Fold(h)
  OBVIOUS
<1>3. Fold(g)
  BY <1>1, <1>2
<1>4. Kept(list, set) = g[DOMAIN list]
  BY <1>2, Zenon DEF Kept, FoldLeft, MapThenFoldSet
<1>5. KeptBelow(list, set, g, n)
  BY <1>3 DEF KeptBelow, KeepOne
<1> QED
  BY <1>4, <1>5

LEMMA KeptInSet ==
  ASSUME NEW T, NEW list \in Seq(T), NEW set
  PROVE  Kept(list, set) \in Seq(set)
<1>1. PICK n \in Nat : DOMAIN list = 1 .. n
  OBVIOUS
<1>2. PICK g : KeptBelow(list, set, g, n) /\ Kept(list, set) = g[1 .. n]
  BY <1>1, KeptIsFold
<1> DEFINE B == {k \in Nat : k <= n /\ g[1 .. k] \notin Seq(set)}
<1>3. 0 \notin B
  <2>1. 1 .. 0 = {} /\ {} \in SUBSET (1 .. n) /\ <<>> \in Seq(set)
    OBVIOUS
  <2>2. g[{}] = <<>>
    BY <1>2, <2>1 DEF KeptBelow
  <2> QED
    BY <2>1, <2>2
<1>4. ASSUME NEW k \in Nat, k + 1 <= n, g[1 .. k] \in Seq(set)
      PROVE  g[1 .. k + 1] \in Seq(set)
  <2>1. PICK S : S = 1 .. k + 1
    OBVIOUS
  <2>2. S \in SUBSET (1 .. k + 1) /\ ~(S \subseteq 1 .. k) /\ S \in SUBSET (1 .. n)
    <3>1. k + 1 \in S /\ k + 1 \notin 1 .. k
      BY <2>1
    <3>2. S \subseteq 1 .. n
      BY <1>1, <1>4, <2>1
    <3> QED
      BY <2>1, <3>1, <3>2
  <2>3. S # {} /\ Max(S) = k + 1
    BY <2>2, MaxOfTop
  <2>4. S \ {k + 1} = 1 .. k
    BY <2>1
  <2>5. g[S] = KeepOne(g[1 .. k], set, list[k + 1])
    BY <1>2, <2>2, <2>3, <2>4 DEF KeptBelow
  <2>6. PICK kept, a : kept = g[1 .. k] /\ a = list[k + 1]
    OBVIOUS
  <2>7. kept \in Seq(set)
    BY <1>4, <2>6
  <2>8. KeepOne(kept, set, a) \in Seq(set)
    BY <2>7 DEF KeepOne
  <2> QED
    BY <2>1, <2>5, <2>6, <2>8
<1>5. B = {}
  <2>1. B \in SUBSET Nat
    OBVIOUS
  <2>2. \A k \in Nat : k \notin B => k + 1 \notin B
    BY <1>4
  <2> HIDE DEF B
  <2> QED
    BY <1>3, <2>1, <2>2, LeastNat
<1>6. g[1 .. n] \in Seq(set)
  BY <1>5
<1> QED
  BY <1>2, <1>6

LEMMA KeptOfNothing ==
  ASSUME NEW set
  PROVE  Kept(<<>>, set) = <<>>
<1>1. PICK list, n : list = <<>> /\ n = 0
  OBVIOUS
<1>2. DOMAIN list = 1 .. n /\ n \in Nat /\ 1 .. n = {}
  BY <1>1
<1>3. PICK g : KeptBelow(list, set, g, n) /\ Kept(list, set) = g[1 .. n]
  BY <1>2, KeptIsFold
<1>4. g[{}] = <<>>
  BY <1>2, <1>3 DEF KeptBelow
<1> QED
  BY <1>1, <1>2, <1>3, <1>4
-----------------------------------------------------------------------------
(* Associations and their callbacks                                        *)

IsAssoc(a) ==
  a = [id |-> a.id, comp_id |-> a.comp_id, added_fields |-> a.added_fields, caps |-> a.caps]
IsCallback(c) ==
  /\ c = Callback(c.index, c.id, c.system, c.assoc)
  /\ c.index \in {"system_like", "component_like"}
  /\ c.id \in 0 .. last_id - 1 /\ c.system \in 0 .. last_id - 1
  /\ c.assoc \in 0 .. last_assoc_id - 1
  /\ c.index = "system_like" => c.id = c.system
IsListing(list) == \E T : list \in Seq(T)

(* The two callbacks of an association are there as long as it is, and the *)
(* system and the component that they are registered for.                  *)
Watched(s, a) ==
  /\ IsAssoc(a)
  /\ s \in Declared(SystemLikes) /\ a.comp_id \in Declared(ComponentLikes)
  /\ Callback("system_like", s, s, a.id) \in callbacks
  /\ Callback("component_like", a.comp_id, s, a.id) \in callbacks

WatchedList(s, list) == IsListing(list) /\ \A i \in DOMAIN list : Watched(s, list[i])
AssocInv ==
  /\ last_assoc_id \in 0 .. MaxAssocId
  /\ IsFun(system_assoc_info)
  /\ \A s \in DOMAIN system_assoc_info : WatchedList(s, system_assoc_info[s])
  /\ \A c \in callbacks : IsCallback(c)
  /\ \A c, d \in callbacks : c.index = d.index /\ c.assoc = d.assoc => c = d

(* Steps that only add declarations                                        *)
LEMMA AssocKept ==
  ASSUME Shape, AssocInv, UNCHANGED <<assoc_vars, callbacks>>,
         last_id' = last_id \/ NextId,
         \A kinds : Declared(kinds) \subseteq Declared(kinds)'
  PROVE  AssocInv'
<1>1. /\ UNCHANGED <<last_assoc_id, system_assoc_info, callbacks>>
      /\ \A x \in 0 .. last_id - 1 : x \in 0 .. last_id' - 1
  BY DEF assoc_vars, Shape, NextId
<1>2. \A s, a : Watched(s, a) => Watched(s, a)'
  BY <1>1 DEF Watched
<1>3. \A c : IsCallback(c) => IsCallback(c)'
  BY <1>1 DEF IsCallback
<1>4. \A s, list : WatchedList(s, list) => WatchedList(s, list)'
  BY <1>2 DEF WatchedList
<1> QED
  BY <1>1, <1>3, <1>4 DEF AssocInv

(* A list to which an association is added                                 *)
LEMMA AddAssocInv ==
  ASSUME Shape, AssocInv, NEW s \in Declared(SystemLikes), NEW c \in Declared(ComponentLikes),
         AddAssoc(s, c)
  PROVE  AssocInv'
<1>1. PICK n \in Nat : n = last_assoc_id /\ n + 1 = last_assoc_id' /\ n < MaxAssocId
  BY MaxAssocIdAssumption DEF AssocInv, AddAssoc, NextAssocId
<1>2. PICK a : a = [id |-> n, comp_id |-> c, added_fields |-> <<>>, caps |-> EmptyMap]
  OBVIOUS
<1>3. PICK list : list = AssocList(system_assoc_info, s)
  OBVIOUS
<1>4. PICK x, y : /\ x = Callback("system_like", s, s, n)
                  /\ y = Callback("component_like", c, s, n)
  OBVIOUS
<1>5. /\ system_assoc_info' = Put(system_assoc_info, s, Append(list, a))
      /\ callbacks' = callbacks \cup {x, y}
      /\ UNCHANGED <<last_id, defs, package_defs>>
  BY <1>1, <1>2, <1>3, <1>4 DEF AddAssoc, AddSystemAssoc, runtime_vars
<1>6. /\ \A kinds : Declared(kinds)' = Declared(kinds)
      /\ s \in 0 .. last_id - 1 /\ c \in 0 .. last_id - 1
  BY <1>5 DEF Declared, Packages, Shape
<1>7. \A r, b : Watched(r, b) => Watched(r, b)'
  BY <1>5, <1>6 DEF Watched
<1>8. Watched(s, a)'
  <2>1. a.id = n /\ a.comp_id = c /\ IsAssoc(a)
    BY <1>2 DEF IsAssoc
  <2> QED
    BY <1>4, <1>5, <1>6, <2>1 DEF Watched
<1>9. WatchedList(s, list)
  <2>1. CASE s \in DOMAIN system_assoc_info
    BY <1>3, <2>1 DEF AssocList, AssocInv
  <2>2. CASE s \notin DOMAIN system_assoc_info
    <3>1. list = <<>>
      BY <1>3, <2>2 DEF AssocList
    <3>2. list \in Seq({}) /\ DOMAIN list = {}
      BY <3>1
    <3> QED
      BY <3>2 DEF WatchedList, IsListing
  <2> QED
    BY <2>1, <2>2
<1>10. WatchedList(s, Append(list, a))'
  <2>1. PICK T : list \in Seq(T)
    BY <1>9 DEF WatchedList, IsListing
  <2>2. PICK U, more : U = T \cup {a} /\ more = Append(list, a)
    OBVIOUS
  <2>3. list \in Seq(U) /\ a \in U
    BY <2>1, <2>2
  <2>4. PICK k \in Nat : k = Len(list) /\ DOMAIN list = 1 .. k
    BY <2>1
  <2>5. /\ more \in Seq(U) /\ DOMAIN more = 1 .. k + 1 /\ more[k + 1] = a
        /\ \A i \in 1 .. k : more[i] = list[i]
    BY <2>2, <2>3, <2>4, AppendProperties
  <2>6. \A i \in 1 .. k + 1 : i \in 1 .. k \/ i = k + 1
    BY <2>4
  <2>7. \A i \in DOMAIN more : Watched(s, more[i])'
    BY <1>7, <1>8, <1>9, <2>4, <2>5, <2>6 DEF WatchedList
  <2> QED
    BY <2>2, <2>5, <2>7 DEF WatchedList, IsListing
<1>11. \A r \in DOMAIN system_assoc_info' : WatchedList(r, system_assoc_info[r])'
  <2>1. ASSUME NEW r \in DOMAIN system_assoc_info', r # s
        PROVE  WatchedList(r, system_assoc_info[r])'
    <3>1. r \in DOMAIN system_assoc_info /\ system_assoc_info'[r] = system_assoc_info[r]
      BY <1>5, <2>1 DEF Put
    <3>2. WatchedList(r, system_assoc_info[r])
      BY <3>1 DEF AssocInv
    <3> QED
      BY <1>7, <3>1, <3>2 DEF WatchedList
  <2>2. system_assoc_info'[s] = Append(list, a)
    BY <1>5 DEF Put
  <2> QED
    BY <1>10, <2>1, <2>2
<1>12. IsFun(system_assoc_info')
  BY <1>5 DEF Put, IsFun
<1>13. /\ IsCallback(x)' /\ IsCallback(y)' /\ x.index = "system_like"
       /\ y.index = "component_like" /\ x.assoc = n /\ y.assoc = n
  BY <1>1, <1>4, <1>5, <1>6 DEF IsCallback, Callback
<1>14. \A d \in callbacks : IsCallback(d)' /\ d.assoc # n
  BY <1>1, <1>5 DEF AssocInv, IsCallback
<1>15. \A d, e \in callbacks' : d.index = e.index /\ d.assoc = e.assoc => d = e
  BY <1>5, <1>13, <1>14 DEF AssocInv
<1>16. last_assoc_id' \in 0 .. MaxAssocId
  BY <1>1, MaxAssocIdAssumption
<1> QED
  BY <1>5, <1>11, <1>12, <1>13, <1>14, <1>15, <1>16 DEF AssocInv

(* Associations that are removed, whatever callbacks go with them          *)
LEMMA WithoutIs ==
  ASSUME AssocInv, NEW gone, NEW new, new = AssocsWithout(system_assoc_info, gone)
  PROVE  /\ IsFun(new) /\ DOMAIN new = DOMAIN system_assoc_info
         /\ \A s \in DOMAIN new :
              /\ IsListing(new[s])
              /\ \A i \in DOMAIN new[s] : Watched(s, new[s][i]) /\ <<s, new[s][i].id>> \notin gone
<1>1. /\ IsFun(new) /\ DOMAIN new = DOMAIN system_assoc_info
      /\ \A s \in DOMAIN new : new[s] = Kept(system_assoc_info[s],
           {a \in ToSet(system_assoc_info[s]) : <<s, a.id>> \notin gone})
  BY DEF AssocsWithout, IsFun
<1>2. ASSUME NEW s \in DOMAIN new
      PROVE  /\ IsListing(new[s])
             /\ \A i \in DOMAIN new[s] :
                  Watched(s, new[s][i]) /\ <<s, new[s][i].id>> \notin gone
  <2>1. PICK list, set : /\ list = system_assoc_info[s]
                         /\ set = {a \in ToSet(list) : <<s, a.id>> \notin gone}
    OBVIOUS
  <2>2. new[s] = Kept(list, set)
    BY <1>1, <2>1
  <2>3. IsListing(list) /\ \A i \in DOMAIN list : Watched(s, list[i])
    BY <1>1, <2>1 DEF AssocInv, WatchedList
  <2>4. PICK T : list \in Seq(T)
    BY <2>3 DEF IsListing
  <2>5. new[s] \in Seq(set)
    BY <2>2, <2>4, KeptInSet
  <2>6. \A i \in DOMAIN new[s] : new[s][i] \in set
    BY <2>5
  <2>7. \A a \in set : Watched(s, a) /\ <<s, a.id>> \notin gone
    BY <2>1, <2>3 DEF ToSet
  <2> QED
    BY <2>5, <2>6, <2>7 DEF IsListing
<1> QED
  BY <1>1, <1>2

LEMMA RemoveAssocInv ==
  ASSUME Shape, AssocInv, NEW s, NEW a, RemoveAssoc(s, a)
  PROVE  AssocInv'
<1>1. /\ system_assoc_info' = AssocsWithout(system_assoc_info, {<<s, a>>})
      /\ UNCHANGED <<runtime_vars, last_assoc_id, callbacks>>
  BY DEF RemoveAssoc
<1>2. UNCHANGED <<last_id, defs, package_defs>>
  BY <1>1 DEF runtime_vars
<1>3. \A r, b : Watched(r, b) => Watched(r, b)'
  BY <1>1, <1>2 DEF Watched, Declared, Packages
<1>4. \A c : IsCallback(c) => IsCallback(c)'
  BY <1>1, <1>2 DEF IsCallback
<1>5. /\ IsFun(system_assoc_info')
      /\ \A r \in DOMAIN system_assoc_info' :
           /\ IsListing(system_assoc_info'[r])
           /\ \A i \in DOMAIN system_assoc_info'[r] : Watched(r, system_assoc_info'[r][i])
  BY <1>1, WithoutIs
<1>6. \A r \in DOMAIN system_assoc_info' : WatchedList(r, system_assoc_info[r])'
  BY <1>3, <1>5 DEF WatchedList
<1> QED
  BY <1>1, <1>4, <1>5, <1>6 DEF AssocInv

(* An association that is changed, in its list                             *)
ChangesTo(old, new) ==
  \/ new = old
  \/ \E v : new = [old EXCEPT !.added_fields = v] \/ new = [old EXCEPT !.caps = v]
ListChanges(old, new) ==
  /\ DOMAIN new = DOMAIN old /\ IsFun(new)
  /\ \A i \in DOMAIN new : ChangesTo(old[i], new[i])
Changing(s) ==
  /\ \E list : /\ system_assoc_info' = [system_assoc_info EXCEPT ![s] = list]
               /\ ListChanges(system_assoc_info[s], list)
  /\ UNCHANGED <<runtime_vars, last_assoc_id, callbacks, history_vars>>

LEMMA ChangedAssoc ==
  ASSUME NEW a, IsAssoc(a), NEW v, NEW new,
         new = [a EXCEPT !.added_fields = v] \/ new = [a EXCEPT !.caps = v]
  PROVE  IsAssoc(new) /\ new.id = a.id /\ new.comp_id = a.comp_id
<1>1. PICK i, c, f, p : a = [id |-> i, comp_id |-> c, added_fields |-> f, caps |-> p]
  BY DEF IsAssoc
<1>2. \/ new = [id |-> i, comp_id |-> c, added_fields |-> v, caps |-> p]
      \/ new = [id |-> i, comp_id |-> c, added_fields |-> f, caps |-> v]
  BY <1>1
<1> QED
  BY <1>1, <1>2 DEF IsAssoc

LEMMA ChangingInv ==
  ASSUME Shape, AssocInv, NEW s \in DOMAIN system_assoc_info, Changing(s)
  PROVE  AssocInv'
<1>1. PICK old : old = system_assoc_info[s]
  OBVIOUS
<1>2. PICK list : /\ system_assoc_info' = [system_assoc_info EXCEPT ![s] = list]
                  /\ ListChanges(old, list)
                  /\ UNCHANGED <<runtime_vars, last_assoc_id, callbacks>>
  BY <1>1 DEF Changing
<1>3. UNCHANGED <<last_id, defs, package_defs>>
  BY <1>2 DEF runtime_vars
<1>4. \A r, b : Watched(r, b) => Watched(r, b)'
  BY <1>2, <1>3 DEF Watched, Declared, Packages
<1>5. \A c : IsCallback(c) => IsCallback(c)'
  BY <1>2, <1>3 DEF IsCallback
<1>6. IsListing(old) /\ \A i \in DOMAIN old : Watched(s, old[i])
  BY <1>1 DEF AssocInv, WatchedList
<1>7. \A i \in DOMAIN list : Watched(s, list[i])'
  <2>1. ASSUME NEW i \in DOMAIN list
        PROVE  Watched(s, list[i])'
    <3>1. PICK b, c : b = old[i] /\ c = list[i] /\ i \in DOMAIN old /\ ChangesTo(b, c)
      BY <1>2 DEF ListChanges
    <3>2. Watched(s, b)
      BY <1>6, <3>1
    <3>3. CASE c = b
      BY <1>4, <3>1, <3>2, <3>3
    <3>4. ASSUME NEW v, c = [b EXCEPT !.added_fields = v] \/ c = [b EXCEPT !.caps = v]
          PROVE  Watched(s, c)'
      <4>1. IsAssoc(c) /\ c.id = b.id /\ c.comp_id = b.comp_id
        BY <3>2, <3>4, ChangedAssoc DEF Watched
      <4>2. Watched(s, c)
        BY <3>2, <4>1 DEF Watched
      <4> QED
        BY <1>4, <4>2
    <3> QED
      BY <3>1, <3>3, <3>4 DEF ChangesTo
  <2> QED
    BY <2>1
<1>8. IsListing(list)
  <2>1. PICK T : old \in Seq(T)
    BY <1>6 DEF IsListing
  <2>2. PICK n \in Nat : DOMAIN old = 1 .. n
    BY <2>1
  <2>3. PICK U : U = {list[i] : i \in 1 .. n}
    OBVIOUS
  <2>4. list \in [1 .. n -> U]
    BY <1>2, <2>2, <2>3 DEF ListChanges, IsFun
  <2>5. list \in Seq(U)
    BY <2>2, <2>4, SeqDef
  <2> QED
    BY <2>5 DEF IsListing
<1>9. \A r \in DOMAIN system_assoc_info' : WatchedList(r, system_assoc_info[r])'
  <2>1. ASSUME NEW r \in DOMAIN system_assoc_info', r # s
        PROVE  WatchedList(r, system_assoc_info[r])'
    <3>1. r \in DOMAIN system_assoc_info /\ system_assoc_info'[r] = system_assoc_info[r]
      BY <1>2, <2>1
    <3>2. WatchedList(r, system_assoc_info[r])
      BY <3>1 DEF AssocInv
    <3> QED
      BY <1>4, <3>1, <3>2 DEF WatchedList
  <2>2. system_assoc_info'[s] = list
    BY <1>2
  <2> QED
    BY <1>7, <1>8, <2>1, <2>2 DEF WatchedList
<1>10. IsFun(system_assoc_info')
  BY <1>2 DEF AssocInv, IsFun
<1> QED
  BY <1>2, <1>5, <1>9, <1>10 DEF AssocInv

LEMMA AreChanges ==
  ASSUME NEW s, NEW a, NEW f, NEW c, NEW cap
  PROVE  /\ AddAssocField(s, a, f) => Changing(s)
         /\ RemoveAssocField(s, a, f) => Changing(s)
         /\ SetAssocCapability(s, a, c, cap) => Changing(s)
<1> PICK old : old = system_assoc_info[s]
  OBVIOUS
<1>1. ASSUME AddAssocField(s, a, f)
      PROVE  Changing(s)
  <2>1. PICK list : list = [i \in DOMAIN old |->
          IF old[i].id = a
          THEN [old[i] EXCEPT !.added_fields =
                  IF Contains(old[i].added_fields, f) THEN old[i].added_fields
                  ELSE Append(old[i].added_fields, f)]
          ELSE old[i]]
    OBVIOUS
  <2>2. ListChanges(old, list)
    BY <2>1 DEF ListChanges, ChangesTo, IsFun
  <2>3. system_assoc_info' = [system_assoc_info EXCEPT ![s] = list]
    BY <1>1, <2>1, Zenon DEF AddAssocField, ChangeAssoc
  <2>4. UNCHANGED <<runtime_vars, last_assoc_id, callbacks, history_vars>>
    BY <1>1, Zenon DEF AddAssocField, ChangeAssoc
  <2> QED
    BY <2>2, <2>3, <2>4 DEF Changing
<1>2. ASSUME RemoveAssocField(s, a, f)
      PROVE  Changing(s)
  <2>1. PICK list : list = [i \in DOMAIN old |->
          IF old[i].id = a
          THEN [old[i] EXCEPT !.added_fields = RemoveFirst(old[i].added_fields, f)]
          ELSE old[i]]
    OBVIOUS
  <2>2. ListChanges(old, list)
    BY <2>1 DEF ListChanges, ChangesTo, IsFun
  <2>3. system_assoc_info' = [system_assoc_info EXCEPT ![s] = list]
    BY <1>2, <2>1, Zenon DEF RemoveAssocField, ChangeAssoc
  <2>4. UNCHANGED <<runtime_vars, last_assoc_id, callbacks, history_vars>>
    BY <1>2, Zenon DEF RemoveAssocField, ChangeAssoc
  <2> QED
    BY <2>2, <2>3, <2>4 DEF Changing
<1>3. ASSUME SetAssocCapability(s, a, c, cap)
      PROVE  Changing(s)
  <2>1. PICK list : list = [i \in DOMAIN old |->
          IF old[i].id = a
          THEN IF cap = "NONE" THEN [old[i] EXCEPT !.caps = Without(old[i].caps, c)]
               ELSE [old[i] EXCEPT !.caps = Put(old[i].caps, c, cap)]
          ELSE old[i]]
    OBVIOUS
  <2>2. ListChanges(old, list)
    BY <2>1 DEF ListChanges, ChangesTo, IsFun
  <2>3. system_assoc_info' = [system_assoc_info EXCEPT ![s] = list]
    BY <1>3, <2>1, Zenon DEF SetAssocCapability, ChangeAssoc, WithCapability
  <2>4. UNCHANGED <<runtime_vars, last_assoc_id, callbacks, history_vars>>
    BY <1>3, Zenon DEF SetAssocCapability, ChangeAssoc
  <2> QED
    BY <2>2, <2>3, <2>4 DEF Changing
<1> QED
  BY <1>1, <1>2, <1>3
-----------------------------------------------------------------------------
(* A package is destroyed                                                  *)

RunBy(p) ==
  (UNION {Triggered(callbacks, d, defs[d].kind) : d \in Destroyed(p)})
    \cup Triggered(callbacks, p, "package")

LEMMA RestrictedIs ==
  ASSUME NEW f, NEW S \in SUBSET DOMAIN f, NEW new, new = Restrict(f, S)
  PROVE  IsFun(new) /\ DOMAIN new = S /\ \A x \in S : new[x] = f[x]
BY DEF Restrict, IsFun

(* What goes: the declarations of the package, but for its enums           *)
Gone(p) ==
  /\ Packages' = Packages \ {p}
  /\ \A q \in Packages' : package_defs'[q] = package_defs[q]
  /\ DOMAIN defs' = {d \in DOMAIN defs : Owner(d) # p \/ defs[d].kind = "enum"}
  /\ \A d \in DOMAIN defs' : defs'[d] = defs[d]
  /\ Systems' = {s \in Systems : Owner(s) # p}
  /\ \A s \in Systems' : system_likes'[s] = system_likes[s]
  /\ \A kinds \in SUBSET DeclKinds :
       Declared(kinds)' = {d \in Declared(kinds) : Owner(d) # p}
  /\ UNCHANGED <<last_id, full_names, history_vars, last_assoc_id>>
  /\ callbacks' = callbacks \ RunBy(p)
  /\ system_assoc_info' = AssocsWithout(system_assoc_info,
                                        {<<c.system, c.assoc>> : c \in RunBy(p)})

LEMMA DestroyShape ==
  ASSUME Shape, NEW p \in Packages, DestroyPackage(p)
  PROVE  Shape' /\ Gone(p)
<1>1. /\ package_defs' = Restrict(package_defs, DOMAIN package_defs \ {p})
      /\ defs' = Restrict(defs, DOMAIN defs \ Destroyed(p))
      /\ fields' = Restrict(fields, DOMAIN fields \ Destroyed(p))
      /\ system_likes' = Restrict(system_likes, DOMAIN system_likes \ Destroyed(p))
      /\ callbacks' = callbacks \ RunBy(p)
      /\ system_assoc_info' = AssocsWithout(system_assoc_info,
                                            {<<c.system, c.assoc>> : c \in RunBy(p)})
      /\ UNCHANGED <<last_id, full_names, last_assoc_id, history_vars>>
  BY DEF DestroyPackage, RunBy, Without
<1>2. /\ IsFun(package_defs') /\ Packages' = Packages \ {p}
      /\ \A q \in Packages' : package_defs'[q] = package_defs[q]
  BY <1>1, RestrictedIs DEF Packages
<1>3. /\ IsFun(defs') /\ DOMAIN defs' = DOMAIN defs \ Destroyed(p)
      /\ \A d \in DOMAIN defs' : defs'[d] = defs[d]
  BY <1>1, RestrictedIs
<1>4. /\ \A d \in DOMAIN defs : defs[d].kind \in DeclKinds <=> defs[d].kind # "enum"
      /\ DOMAIN defs' = {d \in DOMAIN defs : Owner(d) # p \/ defs[d].kind = "enum"}
  <2>1. \A d \in DOMAIN defs : defs[d].kind \in DeclKinds <=> defs[d].kind # "enum"
    BY DEF Shape, Kinds, DeclKinds, ComponentLikes, SystemLikes
  <2> QED
    BY <1>3, <2>1 DEF Destroyed, Owner
<1>5. ASSUME NEW kinds \in SUBSET DeclKinds
      PROVE  Declared(kinds)' = {d \in Declared(kinds) : Owner(d) # p}
  <2>1. "enum" \notin kinds
    BY DEF DeclKinds, ComponentLikes, SystemLikes
  <2> QED
    BY <1>2, <1>3, <1>4, <2>1 DEF Declared, Owner
<1>6. SystemLikes \in SUBSET DeclKinds /\ Composites \in SUBSET DeclKinds
      /\ ComponentLikes \in SUBSET DeclKinds
  BY DEF SystemLikes, Composites, ComponentLikes, DeclKinds
<1>7. \A kinds \in SUBSET DeclKinds :
        \A d \in Declared(kinds) : d \in Destroyed(p) <=> Owner(d) = p
  BY DEF Declared, Destroyed, Owner
<1>8. /\ IsFun(system_likes') /\ Systems' = {s \in Systems : Owner(s) # p}
      /\ \A s \in Systems' : system_likes'[s] = system_likes[s]
  <2>1. Systems = Declared(SystemLikes)
    BY DEF Shape
  <2>2. /\ IsFun(system_likes') /\ Systems' = Systems \ Destroyed(p)
        /\ \A s \in Systems' : system_likes'[s] = system_likes[s]
    BY <1>1, RestrictedIs DEF Systems
  <2> QED
    BY <1>6, <1>7, <2>1, <2>2
<1>9. IsFun(fields') /\ DOMAIN fields' = Declared(Composites)'
  <2>1. DOMAIN fields = Declared(Composites)
    BY DEF Shape
  <2>2. IsFun(fields') /\ DOMAIN fields' = DOMAIN fields \ Destroyed(p)
    BY <1>1, RestrictedIs
  <2> QED
    BY <1>5, <1>6, <1>7, <2>1, <2>2
<1>10. Shape'
  <2>1. /\ last_id' \in 0 .. MaxId /\ IsFun(package_defs)' /\ Packages' \subseteq 0 .. last_id' - 1
        /\ \A q \in Packages' : IsPackage(package_defs[q])'
    BY <1>1, <1>2 DEF Shape
  <2>2. /\ IsFun(defs)' /\ DOMAIN defs' \subseteq 0 .. last_id' - 1
        /\ \A d \in DOMAIN defs' : IsDef(defs[d])' /\ defs'[d].kind \in Kinds
    BY <1>1, <1>3 DEF Shape
  <2>3. \A d \in DOMAIN defs' : defs'[d].kind # "enum" => Owner(d)' \in Packages'
    BY <1>2, <1>3, <1>4 DEF Shape, Owner
  <2>4. /\ IsFun(system_likes)' /\ Systems' = Declared(SystemLikes)'
        /\ \A s \in Systems' : IsLike(system_likes[s])'
    <3>1. Systems = Declared(SystemLikes)
      BY DEF Shape
    <3>2. Systems' = Declared(SystemLikes)'
      BY <1>5, <1>6, <1>8, <3>1
    <3> QED
      BY <1>8, <3>2 DEF Shape
  <2>5. IsFun(full_names)' /\ Declared(DeclKinds)' \subseteq DOMAIN full_names'
    BY <1>1, <1>5 DEF Shape
  <2> QED
    BY <1>9, <2>1, <2>2, <2>3, <2>4, <2>5 DEF Shape
<1> QED
  BY <1>1, <1>2, <1>3, <1>4, <1>5, <1>8, <1>10 DEF Gone

LEMMA DestroyTree ==
  ASSUME Shape, TreeInv, NEW p \in Packages, Gone(p), Shape'
  PROVE  TreeInv'
<1>1. /\ Packages' = Packages \ {p} /\ Systems' = {s \in Systems : Owner(s) # p}
      /\ \A q \in Packages' : Top(q)' = Top(q) /\ package_defs'[q].name = package_defs[q].name
      /\ \A s \in Systems' : Parent(s)' = Parent(s) /\ Nested(s)' = Nested(s)
      /\ full_names' = full_names /\ moved' = moved /\ renamed' = renamed
  BY DEF Gone, Top, Parent, Nested, history_vars
<1>2. \A s \in Systems' : /\ s \in Nat /\ Owner(s) \in Packages' /\ Owner(s)' = Owner(s)
                          /\ defs'[s] = defs[s]
  BY <1>1, SystemIds DEF Gone, Owner, SystemLikes
<1>3. Lists'
  <2>1. ASSUME NEW q \in Packages'
        PROVE  /\ Top(q)' \in Seq(Nat)
               /\ \A x \in Nat : Contains(Top(q)', x) => x \in Systems' /\ Owner(x)' = q
    <3>1. /\ Top(q) \in Seq(Nat)
          /\ \A x \in Nat : Contains(Top(q), x) => x \in Systems /\ Owner(x) = q
      BY <1>1 DEF TreeInv, Lists
    <3> QED
      BY <1>1, <1>2, <3>1
  <2>2. ASSUME NEW s \in Systems'
        PROVE  /\ Nested(s)' \in Seq(Nat)
               /\ \A x \in Nat : Contains(Nested(s)', x)
                                   => x \in Systems' /\ Owner(x)' = Owner(s)'
    <3>1. /\ Nested(s) \in Seq(Nat)
          /\ \A x \in Nat : Contains(Nested(s), x) => x \in Systems /\ Owner(x) = Owner(s)
      BY <1>1 DEF TreeInv, Lists
    <3> QED
      BY <1>1, <1>2, <3>1
  <2> QED
    BY <2>1, <2>2, Zenon DEF Lists
<1>4. Parents'
  <2>1. ASSUME NEW s \in Systems'
        PROVE  IF Parent(s)' = NoId THEN Contains(Top(Owner(s))', s)
               ELSE /\ Parent(s)' \in Systems' \ {s} /\ Owner(Parent(s))' = Owner(s)'
                    /\ Contains(Nested(Parent(s))', s)
    <3>1. s \in Systems /\ Parent(s)' = Parent(s)
      BY <1>1
    <3>2. CASE Parent(s) = NoId
      <4>1. PICK q \in Packages' : q = Owner(s) /\ Contains(Top(q), s)
        BY <1>2, <3>1, <3>2 DEF TreeInv, Parents
      <4>2. Top(Owner(s))' = Top(q)'
        BY <1>2, <4>1 DEF Top
      <4> QED
        BY <1>1, <3>1, <3>2, <4>1, <4>2
    <3>3. CASE Parent(s) # NoId
      <4>1. PICK q \in Systems \ {s} : /\ q = Parent(s) /\ Owner(q) = Owner(s)
                                       /\ Contains(Nested(q), s)
        BY <3>1, <3>3 DEF TreeInv, Parents
      <4>2. q \in Systems' /\ q = Parent(s)'
        BY <1>1, <3>1, <4>1
      <4>3. Nested(Parent(s))' = Nested(q)' /\ Owner(Parent(s))' = Owner(q)'
        BY <4>2 DEF Nested, Owner
      <4> QED
        BY <1>1, <1>2, <3>1, <3>3, <4>1, <4>2, <4>3
    <3> QED
      BY <3>2, <3>3
  <2> QED
    BY <2>1 DEF Parents
<1>5. OnePlace'
  <2>1. ASSUME NEW s \in Systems' \ moved
        PROVE  /\ AtMostOnce(Top(Owner(s))', s)
               /\ Contains(Top(Owner(s))', s) => Parent(s)' = NoId
               /\ \A q \in Systems' : /\ AtMostOnce(Nested(q)', s)
                                      /\ Contains(Nested(q)', s) => Parent(s)' = q
    <3>1. PICK q \in Packages' : q = Owner(s)
      BY <1>2
    <3>2. Top(Owner(s))' = Top(q)'
      BY <1>2, <3>1 DEF Top
    <3>3. /\ AtMostOnce(Top(q), s)
          /\ Contains(Top(q), s) => Parent(s) = NoId
          /\ \A r \in Systems : /\ AtMostOnce(Nested(r), s)
                                /\ Contains(Nested(r), s) => Parent(s) = r
      <4>1. s \in Systems \ moved
        BY <1>1
      <4> QED
        BY <3>1, <4>1, Zenon DEF TreeInv, OnePlace
    <3>4. /\ Top(q)' = Top(q) /\ Parent(s)' = Parent(s)
          /\ \A r \in Systems' : r \in Systems /\ Nested(r)' = Nested(r)
      BY <1>1
    <3> QED
      BY <3>2, <3>3, <3>4
  <2> QED
    BY <1>1, <2>1, Zenon DEF OnePlace
<1>6. NamesInv'
  <2>1. ASSUME NEW s \in Systems', defs'[s].kind = "system"
        PROVE  /\ defs'[s].name = "" => full_names'[s] = <<>>
               /\ Parent(s)' \notin renamed => full_names'[s] = PathOf(s)'
    <3>1. /\ s \in Systems /\ defs'[s] = defs[s] /\ Parent(s)' = Parent(s)
          /\ full_names' = full_names
      BY <1>1, <1>2
    <3>2. PICK q \in Packages' : q = Owner(s) /\ q = Owner(s)'
      BY <1>2
    <3>3. package_defs'[q].name = package_defs[q].name
      BY <1>1
    <3>4. PathOf(s)' = PathOf(s)
      BY <3>1, <3>2, <3>3, Zenon DEF PathOf, SystemFullName
    <3>5. s \in Declared({"system"})
      BY <2>1, <3>1, SystemsAre
    <3> QED
      BY <3>1, <3>4, <3>5 DEF TreeInv, NamesInv
  <2>2. \A s : s \in Declared({"system"})' => s \in Systems' /\ defs'[s].kind = "system"
    BY DEF Shape, Declared, SystemLikes
  <2> QED
    BY <1>1, <2>1, <2>2, Zenon DEF NamesInv
<1> QED
  BY <1>3, <1>4, <1>5, <1>6 DEF TreeInv

(* The callbacks that run are those of the declarations that go.           *)
LEMMA RunsIff ==
  ASSUME Shape, AssocInv, NEW p \in Packages, NEW s, NEW a, Watched(s, a)
  PROVE  <<s, a.id>> \in {<<c.system, c.assoc>> : c \in RunBy(p)}
           <=> Owner(s) = p \/ Owner(a.comp_id) = p
<1>1. PICK n, k : n = a.id /\ k = a.comp_id
  OBVIOUS
<1>2. PICK x, y : x = Callback("system_like", s, s, n) /\ y = Callback("component_like", k, s, n)
  OBVIOUS
<1>3. /\ x \in callbacks /\ y \in callbacks
      /\ s \in Declared(SystemLikes) /\ k \in Declared(ComponentLikes)
  BY <1>1, <1>2 DEF Watched
<1>4. /\ x.index = "system_like" /\ x.id = s /\ x.system = s /\ x.assoc = n
      /\ y.index = "component_like" /\ y.id = k /\ y.system = s /\ y.assoc = n
  BY <1>2 DEF Callback
<1>5. /\ s \in DOMAIN defs /\ defs[s].kind \in SystemLikes
      /\ k \in DOMAIN defs /\ defs[k].kind \in ComponentLikes
  BY <1>3 DEF Declared
<1>6. ASSUME Owner(s) = p
      PROVE  x \in RunBy(p)
  <2>1. s \in Destroyed(p)
    BY <1>5, <1>6 DEF Destroyed, Owner, SystemLikes, DeclKinds
  <2>2. "system_like" \in CallbackIndices(defs[s].kind)
    <3>1. CASE defs[s].kind = "system"
      BY <3>1 DEF CallbackIndices
    <3>2. CASE defs[s].kind = "action"
      BY <3>2 DEF CallbackIndices
    <3> QED
      BY <1>5, <3>1, <3>2 DEF SystemLikes
  <2>3. x \in Triggered(callbacks, s, defs[s].kind)
    BY <1>3, <1>4, <2>2 DEF Triggered
  <2> QED
    BY <2>1, <2>3 DEF RunBy
<1>7. ASSUME Owner(k) = p
      PROVE  y \in RunBy(p)
  <2>1. k \in Destroyed(p)
    BY <1>5, <1>7 DEF Destroyed, Owner, ComponentLikes, DeclKinds
  <2>2. "component_like" \in CallbackIndices(defs[k].kind)
    <3>1. CASE defs[k].kind = "component"
      BY <3>1 DEF CallbackIndices
    <3>2. CASE defs[k].kind = "transient"
      BY <3>2 DEF CallbackIndices
    <3> QED
      BY <1>5, <3>1, <3>2 DEF ComponentLikes
  <2>3. y \in Triggered(callbacks, k, defs[k].kind)
    BY <1>3, <1>4, <2>2 DEF Triggered
  <2> QED
    BY <2>1, <2>3 DEF RunBy
<1>8. ASSUME NEW c \in RunBy(p), c.system = s, c.assoc = n
      PROVE  Owner(s) = p \/ Owner(k) = p
  <2>1. c \in callbacks /\ c.index \in {"system_like", "component_like"}
    BY DEF RunBy, Triggered, AssocInv, IsCallback
  <2>2. c = x \/ c = y
    BY <1>3, <1>4, <1>8, <2>1 DEF AssocInv
  <2>3. c \notin Triggered(callbacks, p, "package")
    BY <2>1 DEF Triggered, CallbackIndices
  <2>4. PICK d \in Destroyed(p) : c \in Triggered(callbacks, d, defs[d].kind)
    BY <2>3 DEF RunBy
  <2>5. c.id = d /\ Owner(d) = p
    BY <2>4 DEF Triggered, Destroyed, Owner
  <2> QED
    BY <1>4, <2>2, <2>5
<1> QED
  BY <1>1, <1>4, <1>6, <1>7, <1>8

LEMMA DestroyAssocs ==
  ASSUME Shape, AssocInv, NEW p \in Packages, Gone(p)
  PROVE  AssocInv'
<1> DEFINE pairs == {<<c.system, c.assoc>> : c \in RunBy(p)}
<1>1. /\ system_assoc_info' = AssocsWithout(system_assoc_info, pairs)
      /\ callbacks' = callbacks \ RunBy(p) /\ UNCHANGED <<last_id, last_assoc_id>>
  BY DEF Gone
<1>2. /\ IsFun(system_assoc_info')
      /\ \A s \in DOMAIN system_assoc_info' :
           /\ IsListing(system_assoc_info'[s])
           /\ \A i \in DOMAIN system_assoc_info'[s] :
                /\ Watched(s, system_assoc_info'[s][i])
                /\ <<s, system_assoc_info'[s][i].id>> \notin pairs
  <2> HIDE DEF pairs
  <2> QED
    BY <1>1, WithoutIs
<1>3. ASSUME NEW s, NEW a, Watched(s, a), <<s, a.id>> \notin pairs
      PROVE  Watched(s, a)'
  <2>1. Owner(s) # p /\ Owner(a.comp_id) # p
    BY <1>3, RunsIff
  <2>2. /\ Declared(SystemLikes)' = {d \in Declared(SystemLikes) : Owner(d) # p}
        /\ Declared(ComponentLikes)' = {d \in Declared(ComponentLikes) : Owner(d) # p}
    BY DEF Gone, SystemLikes, ComponentLikes, DeclKinds
  <2>3. \A c : c.system = s /\ c.assoc = a.id => c \notin RunBy(p)
    BY <1>3
  <2>4. /\ Callback("system_like", s, s, a.id) \in callbacks \ RunBy(p)
        /\ Callback("component_like", a.comp_id, s, a.id) \in callbacks \ RunBy(p)
    BY <1>3, <2>3 DEF Watched, Callback
  <2> QED
    BY <1>1, <1>3, <2>1, <2>2, <2>4 DEF Watched
<1>4. \A s \in DOMAIN system_assoc_info' : WatchedList(s, system_assoc_info[s])'
  BY <1>2, <1>3 DEF WatchedList
<1>5. \A c : IsCallback(c) => IsCallback(c)'
  BY <1>1 DEF IsCallback
<1> QED
  BY <1>1, <1>2, <1>4, <1>5 DEF AssocInv
-----------------------------------------------------------------------------
(* Every call keeps the invariant                                          *)

ApiInv == Shape /\ TreeInv /\ AssocInv

LEMMA InitInv == ApiInit => ApiInv
<1> SUFFICES ASSUME ApiInit PROVE ApiInv
  OBVIOUS
<1>1. /\ last_id = 0 /\ package_defs = EmptyMap /\ defs = EmptyMap /\ full_names = EmptyMap
      /\ fields = EmptyMap /\ system_likes = EmptyMap /\ last_assoc_id = 0
      /\ system_assoc_info = EmptyMap /\ callbacks = {}
  BY DEF ApiInit, RuntimeInit, AssocInit
<1>2. DOMAIN EmptyMap = {} /\ IsFun(EmptyMap)
  BY DEF EmptyMap, IsFun
<1>3. Packages = {} /\ Systems = {} /\ \A kinds : Declared(kinds) = {}
  BY <1>1, <1>2 DEF Packages, Systems, Declared
<1>4. Shape
  BY <1>1, <1>2, <1>3, MaxIdAssumption DEF Shape
<1>5. Lists /\ Parents /\ OnePlace
  BY <1>3 DEF Lists, Parents, OnePlace
<1>6. NamesInv
  BY <1>3 DEF NamesInv
<1>7. AssocInv
  BY <1>1, <1>2, MaxAssocIdAssumption DEF AssocInv
<1> QED
  BY <1>4, <1>5, <1>6, <1>7 DEF ApiInv, TreeInv

LEMMA DeclaredGrows ==
  ASSUME Packages \subseteq Packages', DOMAIN defs \subseteq DOMAIN defs',
         \A d \in DOMAIN defs : defs'[d].kind = defs[d].kind /\ defs'[d].owner = defs[d].owner
  PROVE  \A kinds : Declared(kinds) \subseteq Declared(kinds)'
BY DEF Declared

(* What calls that leave the tree alone have in common                     *)
OnlyAdds ==
  /\ Shape' /\ Untouched /\ UNCHANGED <<assoc_vars, callbacks>>
  /\ last_id' = last_id \/ NextId

LEMMA OnlyAddsInv ==
  ASSUME ApiInv, OnlyAdds
  PROVE  ApiInv'
<1>1. \A kinds : Declared(kinds) \subseteq Declared(kinds)'
  BY DeclaredGrows DEF OnlyAdds, Untouched
<1>2. AssocInv'
  BY <1>1, AssocKept DEF ApiInv, OnlyAdds
<1>3. TreeInv'
  BY UntouchedTree DEF ApiInv, OnlyAdds
<1> QED
  BY <1>2, <1>3 DEF ApiInv, OnlyAdds

LEMMA CreateCallsAdd ==
  ASSUME ApiInv, CreateCalls
  PROVE  OnlyAdds
<1>1. UNCHANGED <<assoc_vars, callbacks>> /\ UNCHANGED history_vars /\ Shape
  BY DEF CreateCalls, OnlyRuntime, ApiInv
<1>2. ASSUME NEW name, NEW main, CreatePackage(name, main)
      PROVE  OnlyAdds
  <2>1. NextId
    BY <1>2 DEF CreatePackage
  <2>2. Shape' /\ Untouched
    BY <1>1, <1>2, CreatePackageInv
  <2> QED
    BY <1>1, <2>1, <2>2 DEF OnlyAdds
<1>3. ASSUME NEW p \in Packages, NEW kind \in ComponentLikes, NEW name, NEW type,
             CreateComponentLike(kind, p, name, type)
      PROVE  OnlyAdds
  <2>1. /\ NewDef(kind, p, name, type) /\ UNCHANGED <<package_defs, system_likes>>
        /\ \E v : full_names' = Put(full_names, last_id, v)
        /\ fields' = Put(fields, last_id, <<>>)
    BY <1>3 DEF CreateComponentLike
  <2>2. kind # "enum" /\ kind \in ComponentLikes \cup {"enum"}
    BY DEF ComponentLikes
  <2>3. NextId
    BY <2>1 DEF NewDef
  <2>4. Shape' /\ Untouched
    BY <1>1, <2>1, <2>2, NewDeclInv
  <2> QED
    BY <1>1, <2>3, <2>4 DEF OnlyAdds
<1>4. ASSUME NEW p \in Packages, NEW name, CreateEnum(p, name)
      PROVE  OnlyAdds
  <2>1. /\ NewDef("enum", p, name, "NONE")
        /\ UNCHANGED <<package_defs, system_likes, full_names, fields>>
    BY <1>4 DEF CreateEnum
  <2>2. NextId
    BY <2>1 DEF NewDef
  <2>3. Shape' /\ Untouched
    BY <1>1, <2>1, NewDeclInv
  <2> QED
    BY <1>1, <2>2, <2>3 DEF OnlyAdds
<1> QED
  BY <1>2, <1>3, <1>4 DEF CreateCalls

LEMMA SystemCallsInv ==
  ASSUME ApiInv, SystemCalls
  PROVE  ApiInv'
<1>1. UNCHANGED <<assoc_vars, callbacks>> /\ UNCHANGED history_vars
  BY DEF SystemCalls, OnlyRuntime
<1>2. PICK p, kind, name :
        /\ p \in Packages
        /\ kind \in SystemLikes
        /\ CreateSystemLike(kind, p, name, NoId, "AUTO", 0)
  <2>1. PICK p \in Packages :
             \/ \E name \in SystemNames : CreateSystemLike("system", p, name, NoId, "AUTO", 0)
             \/ CreateSystemLike("action", p, "A", NoId, "AUTO", 0)
    BY Zenon DEF SystemCalls
  <2>2. "system" \in SystemLikes /\ "action" \in SystemLikes
    BY DEF SystemLikes
  <2> QED
    BY <2>1, <2>2, Zenon
<1>3. Shape' /\ NewSystem(kind, p, name)
  BY <1>1, <1>2, CreateSystemShape DEF ApiInv
<1>4. TreeInv'
  BY <1>2, <1>3, NewSystemTree DEF ApiInv
<1>5. NextId
  BY <1>2 DEF CreateSystemLike, NewDef
<1>6. \A kinds : Declared(kinds) \subseteq Declared(kinds)'
  BY <1>3, DeclaredGrows DEF NewSystem
<1>7. AssocInv'
  BY <1>1, <1>5, <1>6, AssocKept DEF ApiInv
<1> QED
  BY <1>3, <1>4, <1>7 DEF ApiInv

LEMMA TreeCallsInv ==
  ASSUME ApiInv, TreeCalls
  PROVE  ApiInv'
<1>1. PICK parent \in Systems, child \in Declared({"system"}) :
        AddChildSystem(parent, child) \/ RemoveChildSystem(parent, child)
  BY DEF TreeCalls, ApiInv, Shape
<1>2. Shape' /\ TreeInv' /\ Packages' = Packages
  BY <1>1, AddChildInv, RemoveChildInv DEF ApiInv
<1>3. /\ UNCHANGED <<last_id, defs, assoc_vars, callbacks>>
  BY <1>1 DEF AddChildSystem, RemoveChildSystem, BecomesTree
<1>4. \A kinds : Declared(kinds) \subseteq Declared(kinds)'
  BY <1>2, <1>3 DEF Declared
<1>5. AssocInv'
  BY <1>3, <1>4, AssocKept DEF ApiInv
<1> QED
  BY <1>2, <1>5 DEF ApiInv

LEMMA SettingCallsAdd ==
  ASSUME ApiInv, SettingCalls
  PROVE  OnlyAdds
<1>1. UNCHANGED <<assoc_vars, callbacks>> /\ UNCHANGED history_vars /\ Shape
  BY DEF SettingCalls, OnlyRuntime, ApiInv
<1>2. ASSUME NEW s \in Systems, Setting(s)
      PROVE  OnlyAdds
  <2>1. Shape' /\ Untouched
    BY <1>1, <1>2, SettingsInv
  <2>2. last_id' = last_id \/ NextId
    BY <1>2 DEF Setting
  <2> QED
    BY <1>1, <2>1, <2>2 DEF OnlyAdds
<1>3. /\ Declared(SystemLikes) = Systems /\ \A s \in Declared({"system"}) : s \in Systems
  BY <1>1, SystemIds DEF Shape
<1>4. ASSUME NEW c \in Declared({"component"}), SetComponentType(c, "STREAM")
      PROVE  OnlyAdds
  <2>1. Shape' /\ Untouched
    BY <1>1, <1>4, SetComponentTypeInv
  <2>2. last_id' = last_id
    BY <1>4 DEF SetComponentType
  <2> QED
    BY <1>1, <2>1, <2>2 DEF OnlyAdds
<1>5. ASSUME NEW p \in Packages, NEW q, AddDependency(p, q)
      PROVE  OnlyAdds
  <2>1. Shape' /\ Untouched
    BY <1>1, <1>5, AddDependencyInv
  <2>2. last_id' = last_id
    BY <1>5 DEF AddDependency
  <2> QED
    BY <1>1, <2>1, <2>2 DEF OnlyAdds
<1>6. \/ \E s \in Declared(SystemLikes), c \in Declared(ComponentLikes) :
           \/ \E cap \in Capabilities : SetSystemCapability(s, c, cap)
           \/ UnsetSystemCapability(s, c)
           \/ SetNotifySettings(s, {c}, "ALWAYS")
           \/ SetNotifyNone(s, c)
           \/ \E gen \in DOMAIN system_likes[s].generates :
                \/ SystemGeneratesSetComponent(s, gen, c, "OPTIONAL")
                \/ SystemGeneratesUnsetComponent(s, gen, c)
      \/ \E s \in Declared(SystemLikes) :
           \/ AddSystemGenerates(s)
           \/ \E gen \in DOMAIN system_likes[s].generates : RemoveSystemGenerates(s, gen)
           \/ SetParallelExecution(s, "DENY")
      \/ \E s \in Declared({"system"}) : SetLazyIterationRate(s, 1)
      \/ \E c \in Declared({"component"}) : SetComponentType(c, "STREAM")
      \/ \E p, q \in Packages : AddDependency(p, q)
  BY Zenon DEF SettingCalls
<1>7. CASE \E s \in Declared(SystemLikes), c \in Declared(ComponentLikes) :
             \/ \E cap \in Capabilities : SetSystemCapability(s, c, cap)
             \/ UnsetSystemCapability(s, c)
             \/ SetNotifySettings(s, {c}, "ALWAYS")
             \/ SetNotifyNone(s, c)
             \/ \E gen \in DOMAIN system_likes[s].generates :
                  \/ SystemGeneratesSetComponent(s, gen, c, "OPTIONAL")
                  \/ SystemGeneratesUnsetComponent(s, gen, c)
  <2>1. PICK s \in Systems : Setting(s)
    BY <1>3, <1>7, AreSettings
  <2> QED
    BY <1>2, <2>1
<1>8. CASE \E s \in Declared(SystemLikes) :
             \/ AddSystemGenerates(s)
             \/ \E gen \in DOMAIN system_likes[s].generates : RemoveSystemGenerates(s, gen)
             \/ SetParallelExecution(s, "DENY")
  <2>1. PICK s \in Systems : Setting(s)
    BY <1>3, <1>8, AreSettings
  <2> QED
    BY <1>2, <2>1
<1>9. CASE \E s \in Declared({"system"}) : SetLazyIterationRate(s, 1)
  <2>1. PICK s \in Systems : Setting(s)
    BY <1>3, <1>9, AreSettings
  <2> QED
    BY <1>2, <2>1
<1> QED
  BY <1>4, <1>5, <1>6, <1>7, <1>8, <1>9

LEMMA AssocCallsInv ==
  ASSUME ApiInv, AssocCalls
  PROVE  ApiInv'
<1>1. PICK s \in Declared(SystemLikes) :
        \/ \E c \in Declared(ComponentLikes) : AddAssoc(s, c)
        \/ \E a \in AssocIds(s) :
             \/ RemoveAssoc(s, a)
             \/ \E f \in FieldIds : AddAssocField(s, a, f) \/ RemoveAssocField(s, a, f)
             \/ \E c \in Declared(ComponentLikes), cap \in Capabilities \cup {"NONE"} :
                  SetAssocCapability(s, a, c, cap)
  BY Zenon DEF AssocCalls
<1>2. ASSUME AssocInv', UNCHANGED <<runtime_vars, history_vars>>
      PROVE  ApiInv'
  <2>1. /\ UNCHANGED <<last_id, package_defs, defs, full_names, fields, system_likes>>
        /\ UNCHANGED history_vars
    BY <1>2 DEF runtime_vars
  <2>2. Shape'
    BY <2>1 DEF ApiInv, Shape, Packages, Declared, Systems, Owner
  <2>3. Untouched
    BY <2>1 DEF Untouched, Packages, Systems, Top, Parent, Nested
  <2>4. TreeInv'
    BY <2>2, <2>3, UntouchedTree DEF ApiInv
  <2> QED
    BY <1>2, <2>2, <2>4 DEF ApiInv
<1>3. ASSUME NEW c \in Declared(ComponentLikes), AddAssoc(s, c)
      PROVE  ApiInv'
  <2>1. AssocInv'
    BY <1>3, AddAssocInv DEF ApiInv
  <2> QED
    BY <1>2, <1>3, <2>1 DEF AddAssoc
<1>4. ASSUME NEW a, RemoveAssoc(s, a)
      PROVE  ApiInv'
  <2>1. AssocInv'
    BY <1>4, RemoveAssocInv DEF ApiInv
  <2> QED
    BY <1>2, <1>4, <2>1 DEF RemoveAssoc
<1>5. ASSUME NEW a \in AssocIds(s), Changing(s)
      PROVE  ApiInv'
  <2>1. s \in DOMAIN system_assoc_info
    <3>1. CASE s \notin DOMAIN system_assoc_info
      <4>1. AssocList(system_assoc_info, s) = <<>>
        BY <3>1 DEF AssocList
      <4> QED
        BY <4>1 DEF AssocIds
    <3> QED
      BY <3>1
  <2>2. AssocInv'
    BY <1>5, <2>1, ChangingInv DEF ApiInv
  <2> QED
    BY <1>2, <1>5, <2>2 DEF Changing
<1> QED
  BY <1>1, <1>3, <1>4, <1>5, AreChanges

LEMMA DestroyCallsInv ==
  ASSUME ApiInv, NEW p \in Packages, DestroyPackage(p)
  PROVE  ApiInv'
BY DestroyShape, DestroyTree, DestroyAssocs DEF ApiInv

LEMMA StepInv ==
  ASSUME ApiInv, [Next]_api_vars
  PROVE  ApiInv'
<1>1. CASE CreateCalls
  BY <1>1, CreateCallsAdd, OnlyAddsInv
<1>2. CASE SystemCalls
  BY <1>2, SystemCallsInv
<1>3. CASE TreeCalls
  BY <1>3, TreeCallsInv
<1>4. CASE SettingCalls
  BY <1>4, SettingCallsAdd, OnlyAddsInv
<1>5. CASE AssocCalls
  BY <1>5, AssocCallsInv
<1>6. CASE DestroyCalls
  BY <1>6, DestroyCallsInv DEF DestroyCalls
<1>7. CASE UNCHANGED api_vars
  <2>1. /\ UNCHANGED <<last_id, package_defs, defs, full_names, fields, system_likes>>
        /\ UNCHANGED <<assoc_vars, callbacks>> /\ UNCHANGED history_vars
    BY <1>7 DEF api_vars, runtime_vars
  <2>2. Shape'
    BY <2>1 DEF ApiInv, Shape, Packages, Declared, Systems, Owner
  <2>3. Untouched
    BY <2>1 DEF Untouched, Packages, Systems, Top, Parent, Nested
  <2> QED
    BY <2>1, <2>2, <2>3, OnlyAddsInv DEF OnlyAdds
<1> QED
  BY <1>1, <1>2, <1>3, <1>4, <1>5, <1>6, <1>7 DEF Next

LEMMA Invariance == Spec => []ApiInv
<1>1. ApiInit => ApiInv
  BY InitInv
<1>2. ApiInv /\ [Next]_api_vars => ApiInv'
  BY StepInv
<1> QED
  BY <1>1, <1>2, PTL DEF Spec
-----------------------------------------------------------------------------
(* What a host may rely on                                                 *)

LEMMA TypesHold == ApiInv => ApiTypeOK
<1> SUFFICES ASSUME ApiInv PROVE ApiTypeOK
  OBVIOUS
<1>1. /\ last_id \in 0 .. MaxId /\ last_assoc_id \in 0 .. MaxAssocId
      /\ Packages \subseteq 0 .. last_id - 1 /\ DOMAIN defs \subseteq 0 .. last_id - 1
      /\ \A d \in DOMAIN defs : defs[d].kind # "enum" => defs[d].owner \in Packages
      /\ DOMAIN system_likes = Declared(SystemLikes)
      /\ DOMAIN fields = Declared(Composites)
      /\ Declared(DeclKinds) \subseteq DOMAIN full_names
  BY DEF ApiInv, Shape, AssocInv, Systems, Owner
<1>2. (UNION {ToSet(list) : list \in AllLists}) \subseteq DOMAIN system_likes
  <2>1. ASSUME NEW list \in AllLists, NEW x \in ToSet(list)
        PROVE  x \in Systems
    <3>1. PICK i \in DOMAIN list : x = list[i]
      BY <2>1 DEF ToSet
    <3>2. list \in Seq(Nat) => x \in Nat /\ Contains(list, x)
      BY <3>1 DEF Contains
    <3>3. CASE \E p \in Packages : list = Top(p)
      BY <3>2, <3>3 DEF ApiInv, TreeInv, Lists
    <3>4. CASE \E s \in Systems : list = Nested(s)
      BY <3>2, <3>4 DEF ApiInv, TreeInv, Lists
    <3> QED
      BY <3>3, <3>4 DEF AllLists, Top, Nested, Systems
  <2> QED
    BY <2>1 DEF Systems
<1>3. callbacks \subseteq [index : {"system_like", "component_like"}, id : 0 .. MaxId,
                           system : 0 .. MaxId, assoc : 0 .. MaxAssocId]
  <2>1. ASSUME NEW c \in callbacks
        PROVE  c \in [index : {"system_like", "component_like"}, id : 0 .. MaxId,
                      system : 0 .. MaxId, assoc : 0 .. MaxAssocId]
    <3>1. IsCallback(c)
      BY DEF ApiInv, AssocInv
    <3>2. c.id \in 0 .. MaxId /\ c.system \in 0 .. MaxId /\ c.assoc \in 0 .. MaxAssocId
      BY <1>1, <3>1, MaxIdAssumption, MaxAssocIdAssumption DEF IsCallback
    <3>3. PICK i, d, s, a : /\ c = [index |-> i, id |-> d, system |-> s, assoc |-> a]
                            /\ i = c.index /\ d = c.id /\ s = c.system /\ a = c.assoc
      BY <3>1 DEF IsCallback, Callback
    <3> QED
      BY <3>1, <3>2, <3>3 DEF IsCallback
  <2> QED
    BY <2>1
<1> QED
  BY <1>1, <1>2, <1>3 DEF ApiTypeOK

LEMMA NoneIsLost == ApiInv => NoSystemLost
<1> SUFFICES ASSUME ApiInv, NEW s \in Declared(SystemLikes)
             PROVE  IF Parent(s) = NoId THEN ListedAtTop(s)
                    ELSE Parent(s) \in DOMAIN system_likes /\ Contains(Nested(Parent(s)), s)
  BY DEF NoSystemLost, Parent, Nested
<1>1. s \in Systems /\ Owner(s) \in Packages
  BY SystemIds DEF ApiInv, Shape
<1> QED
  BY <1>1 DEF ApiInv, TreeInv, Parents, ListedAtTop, Top, Owner, Systems

LEMMA OneList == ApiInv => OneListUnlessMoved
<1> SUFFICES ASSUME ApiInv, NEW s \in Declared(SystemLikes) \ moved
             PROVE  /\ Cardinality({list \in AllLists : Contains(list, s)}) = 1
                    /\ \A list \in AllLists : Cardinality(Entries(list, s)) <= 1
  BY DEF OneListUnlessMoved
<1>1. /\ Shape /\ TreeInv /\ s \in Systems \ moved /\ s \in Nat /\ NoId \notin Nat
      /\ Owner(s) \in Packages
  BY PlaceOf DEF ApiInv, Shape
<1>2. \A list : list \in AllLists <=> \/ \E p \in Packages : list = Top(p)
                                      \/ \E q \in Systems : list = Nested(q)
  BY DEF AllLists, Top, Nested, Systems
<1>3. \A p \in Packages : /\ Top(p) \in Seq(Nat)
                          /\ Contains(Top(p), s) => p = Owner(s) /\ Parent(s) = NoId
                          /\ AtMostOnce(Top(p), s)
  <2>1. ASSUME NEW p \in Packages
        PROVE  /\ Top(p) \in Seq(Nat)
               /\ Contains(Top(p), s) => p = Owner(s) /\ Parent(s) = NoId
               /\ AtMostOnce(Top(p), s)
    <3>1. Top(p) \in Seq(Nat) /\ (Contains(Top(p), s) => p = Owner(s))
      BY <1>1 DEF TreeInv, Lists
    <3>2. AtMostOnce(Top(Owner(s)), s) /\ (Contains(Top(Owner(s)), s) => Parent(s) = NoId)
      BY <1>1, Zenon DEF TreeInv, OnePlace
    <3>3. ~Contains(Top(p), s) => AtMostOnce(Top(p), s)
      BY DEF AtMostOnce, Contains
    <3> QED
      BY <3>1, <3>2, <3>3
  <2> QED
    BY <2>1
<1>4. \A q \in Systems : /\ Nested(q) \in Seq(Nat)
                         /\ Contains(Nested(q), s) => Parent(s) = q
                         /\ AtMostOnce(Nested(q), s)
  <2>1. \A q \in Systems : /\ AtMostOnce(Nested(q), s)
                           /\ Contains(Nested(q), s) => Parent(s) = q
    BY <1>1, Zenon DEF TreeInv, OnePlace
  <2> QED
    BY <2>1 DEF ApiInv, TreeInv, Lists
<1>5. PICK own : own \in AllLists /\ {list \in AllLists : Contains(list, s)} = {own}
  <2>1. CASE Parent(s) = NoId
    <3>1. PICK own : own = Top(Owner(s)) /\ Contains(own, s)
      BY <1>1, <2>1 DEF TreeInv, Parents
    <3>2. own \in AllLists
      BY <1>1, <1>2, <3>1
    <3>3. \A list \in AllLists : Contains(list, s) => list = own
      BY <1>1, <1>2, <1>3, <1>4, <2>1, <3>1, SystemIds
    <3> QED
      BY <3>1, <3>2, <3>3
  <2>2. CASE Parent(s) # NoId
    <3>1. PICK own : own = Nested(Parent(s)) /\ Contains(own, s) /\ Parent(s) \in Systems
      BY <1>1, <2>2 DEF TreeInv, Parents
    <3>2. own \in AllLists
      BY <1>2, <3>1
    <3>3. \A list \in AllLists : Contains(list, s) => list = own
      BY <1>2, <1>3, <1>4, <2>2, <3>1
    <3> QED
      BY <3>1, <3>2, <3>3
  <2> QED
    BY <2>1, <2>2
<1>6. Cardinality({own}) = 1
  BY FS_Singleton
<1>7. ASSUME NEW list \in AllLists
      PROVE  Cardinality(Entries(list, s)) <= 1
  <2>1. list \in Seq(Nat) /\ AtMostOnce(list, s)
    BY <1>2, <1>3, <1>4
  <2>2. Entries(list, s) = {} \/ \E i : Entries(list, s) = {i}
    <3>1. \A i, j \in Entries(list, s) : i = j
      BY <2>1 DEF Entries, AtMostOnce
    <3> QED
      BY <3>1
  <2>3. CASE Entries(list, s) = {}
    <3>1. Cardinality({}) = 0
      BY FS_EmptySet
    <3> QED
      BY <2>3, <3>1
  <2>4. ASSUME NEW i, Entries(list, s) = {i}
        PROVE  Cardinality(Entries(list, s)) <= 1
    <3>1. Cardinality({i}) = 1
      BY FS_Singleton
    <3> QED
      BY <2>4, <3>1
  <2> QED
    BY <2>2, <2>3, <2>4
<1> QED
  BY <1>5, <1>6, <1>7

LEMMA NamesFollow == ApiInv => NamesFollowParents
BY DEF ApiInv, TreeInv, NamesInv, NamesFollowParents, PathOf, Parent, Owner

LEMMA AssocsLive == ApiInv => AssocsReferToLiving
<1> SUFFICES ASSUME ApiInv, NEW s \in DOMAIN system_assoc_info, system_assoc_info[s] # <<>>
             PROVE  /\ s \in Declared(SystemLikes)
                    /\ \A i \in DOMAIN system_assoc_info[s] :
                         system_assoc_info[s][i].comp_id \in Declared(ComponentLikes)
  BY DEF AssocsReferToLiving
<1>1. PICK list : list = system_assoc_info[s]
  OBVIOUS
<1>2. IsListing(list) /\ \A i \in DOMAIN list : Watched(s, list[i])
  BY <1>1 DEF ApiInv, AssocInv, WatchedList
<1>3. PICK T : list \in Seq(T) /\ list # <<>>
  BY <1>1, <1>2 DEF IsListing
<1>4. 1 \in DOMAIN list
  <2>1. Len(list) \in Nat \ {0}
    BY <1>3, EmptySeq
  <2> QED
    BY <1>3, <2>1
<1> QED
  BY <1>1, <1>2, <1>4 DEF Watched

(* Only the step that destroys it takes a package away.                    *)
LEMMA PackagesStay ==
  ASSUME ApiInv, [Next]_api_vars, NEW p \in Packages, Packages' = Packages \ {p}
  PROVE  DestroyPackage(p)
<1>1. CASE CreateCalls
  <2>1. Packages \subseteq Packages'
    BY <1>1, CreateCallsAdd DEF OnlyAdds, Untouched
  <2> QED
    BY <2>1
<1>2. CASE SystemCalls
  <2>1. PICK q, kind, name :
          /\ q \in Packages
          /\ kind \in SystemLikes
          /\ CreateSystemLike(kind, q, name, NoId, "AUTO", 0)
    <3>1. PICK q \in Packages :
               \/ \E name \in SystemNames : CreateSystemLike("system", q, name, NoId, "AUTO", 0)
               \/ CreateSystemLike("action", q, "A", NoId, "AUTO", 0)
      BY <1>2, Zenon DEF SystemCalls
    <3>2. "system" \in SystemLikes /\ "action" \in SystemLikes
      BY DEF SystemLikes
    <3> QED
      BY <3>1, <3>2, Zenon
  <2>2. UNCHANGED history_vars
    BY <1>2 DEF SystemCalls, OnlyRuntime
  <2>3. NewSystem(kind, q, name)
    BY <2>1, <2>2, CreateSystemShape DEF ApiInv
  <2> QED
    BY <2>3 DEF NewSystem
<1>3. CASE TreeCalls
  <2>1. PICK parent \in Systems, child \in Declared({"system"}) :
          AddChildSystem(parent, child) \/ RemoveChildSystem(parent, child)
    BY <1>3 DEF TreeCalls, ApiInv, Shape
  <2>2. Packages' = Packages
    BY <2>1, AddChildInv, RemoveChildInv DEF ApiInv
  <2> QED
    BY <2>2
<1>4. CASE SettingCalls
  <2>1. Packages \subseteq Packages'
    BY <1>4, SettingCallsAdd DEF OnlyAdds, Untouched
  <2> QED
    BY <2>1
<1>5. CASE AssocCalls
  <2>1. UNCHANGED runtime_vars
    BY <1>5 DEF AssocCalls, AddAssoc, RemoveAssoc, AddAssocField, RemoveAssocField,
                SetAssocCapability, ChangeAssoc
  <2> QED
    BY <2>1 DEF runtime_vars, Packages
<1>6. CASE DestroyCalls
  <2>1. PICK q \in Packages : DestroyPackage(q)
    BY <1>6 DEF DestroyCalls
  <2>2. Packages' = Packages \ {q}
    BY <2>1, DestroyShape DEF Gone, ApiInv
  <2> QED
    BY <2>1, <2>2
<1>7. CASE UNCHANGED api_vars
  BY <1>7 DEF api_vars, runtime_vars, Packages
<1> QED
  BY <1>1, <1>2, <1>3, <1>4, <1>5, <1>6, <1>7 DEF Next

OthersStay(p) ==
  /\ defs' = [d \in {d \in DOMAIN defs : defs[d].owner # p \/ defs[d].kind = "enum"}
                |-> defs[d]]
  /\ \A q \in Packages' : package_defs'[q] = package_defs[q]
  /\ \A s \in Declared(SystemLikes)' :
       /\ system_likes'[s] = system_likes[s] /\ full_names'[s] = full_names[s]
       /\ AssocList(system_assoc_info', s) =
            Kept(AssocList(system_assoc_info, s),
                 {a \in ToSet(AssocList(system_assoc_info, s)) : defs[a.comp_id].owner # p})

LEMMA DestroyStep ==
  ASSUME ApiInv, NEW p \in Packages, DestroyPackage(p)
  PROVE  OthersStay(p)
<1>1. Gone(p) /\ Shape' /\ Shape /\ AssocInv
  BY DestroyShape DEF ApiInv
<1>2. defs' = [d \in {d \in DOMAIN defs : defs[d].owner # p \/ defs[d].kind = "enum"}
                |-> defs[d]]
  BY <1>1 DEF Gone, Shape, IsFun, Owner
<1>3. ASSUME NEW s \in Declared(SystemLikes)'
      PROVE  /\ system_likes'[s] = system_likes[s] /\ full_names'[s] = full_names[s]
             /\ AssocList(system_assoc_info', s) =
                  Kept(AssocList(system_assoc_info, s),
                       {a \in ToSet(AssocList(system_assoc_info, s)) :
                          defs[a.comp_id].owner # p})
  <2>1. s \in Systems' /\ Owner(s) # p
    BY <1>1 DEF Gone, Shape
  <2>2. system_likes'[s] = system_likes[s] /\ full_names'[s] = full_names[s]
    BY <1>1, <2>1 DEF Gone
  <2>3. PICK pairs : /\ pairs = {<<c.system, c.assoc>> : c \in RunBy(p)}
                     /\ system_assoc_info' = AssocsWithout(system_assoc_info, pairs)
    BY <1>1 DEF Gone
  <2>4. CASE s \notin DOMAIN system_assoc_info
    <3>1. AssocList(system_assoc_info, s) = <<>> /\ AssocList(system_assoc_info', s) = <<>>
      BY <2>3, <2>4 DEF AssocList, AssocsWithout
    <3> QED
      BY <2>2, <3>1, KeptOfNothing
  <2>5. CASE s \in DOMAIN system_assoc_info
    <3>1. PICK list : list = system_assoc_info[s]
      OBVIOUS
    <3>2. /\ AssocList(system_assoc_info, s) = list
          /\ AssocList(system_assoc_info', s) =
               Kept(list, {a \in ToSet(list) : <<s, a.id>> \notin pairs})
      BY <2>3, <2>5, <3>1 DEF AssocList, AssocsWithout
    <3>3. \A a \in ToSet(list) : Watched(s, a)
      BY <2>5, <3>1 DEF ApiInv, AssocInv, WatchedList, ToSet
    <3>4. \A a \in ToSet(list) : <<s, a.id>> \notin pairs <=> Owner(a.comp_id) # p
      BY <1>1, <2>1, <2>3, <3>3, RunsIff
    <3>5. {a \in ToSet(list) : <<s, a.id>> \notin pairs}
            = {a \in ToSet(list) : defs[a.comp_id].owner # p}
      BY <3>4 DEF Owner
    <3> QED
      BY <2>2, <3>2, <3>5
  <2> QED
    BY <2>4, <2>5
<1> QED
  BY <1>1, <1>2, <1>3 DEF OthersStay, Gone

(* The types of every state, whatever calls were made: the counters stay   *)
(* within their ranges, ids come from them, only an enum outlives its      *)
(* package, and the lists hold systems that live.                          *)
THEOREM ApiTypesCorrect == Spec => []ApiTypeOK
BY Invariance, TypesHold, PTL

(* Through all moves, removals and destructions a system is in the list    *)
(* that its parent says, which lives: the meta API reaches it.             *)
THEOREM NoSystemIsLost == Spec => []NoSystemLost
BY Invariance, NoneIsLost, PTL

(* A system that never went straight from one parent to another is in one  *)
(* list, and there once.                                                   *)
THEOREM OneListAlways == Spec => []OneListUnlessMoved
BY Invariance, OneList, PTL

(* A full name is the one that the parent gives, unless the parent was     *)
(* renamed by a move of its own.                                           *)
THEOREM NamesFollowAlways == Spec => []NamesFollowParents
BY Invariance, NamesFollow, PTL

(* No association is left of a system or component that is gone.           *)
THEOREM AssocsStayAlive == Spec => []AssocsReferToLiving
BY Invariance, AssocsLive, PTL

(* The destruction of a package leaves the declarations, trees, settings   *)
(* and associations of the others alone, but for associations of a         *)
(* component that is destroyed.                                            *)
THEOREM DestructionIsLocal == Spec => DestroyKeepsOthers
<1>1. ApiInv /\ [Next]_api_vars
        => [\A p \in Packages : Packages' = Packages \ {p} => OthersStay(p)]_api_vars
  BY PackagesStay, DestroyStep
<1>2. [\A p \in Packages : Packages' = Packages \ {p} => OthersStay(p)]_api_vars
        => [\A p \in Packages : Packages' = Packages \ {p} =>
              /\ defs' = [d \in {d \in DOMAIN defs : defs[d].owner # p \/ defs[d].kind = "enum"}
                            |-> defs[d]]
              /\ \A q \in Packages' : package_defs'[q] = package_defs[q]
              /\ \A s \in Declared(SystemLikes)' :
                   /\ system_likes'[s] = system_likes[s] /\ full_names'[s] = full_names[s]
                   /\ AssocList(system_assoc_info', s) =
                        Kept(AssocList(system_assoc_info, s),
                             {a \in ToSet(AssocList(system_assoc_info, s)) :
                                defs[a.comp_id].owner # p})]_api_vars
  BY DEF OthersStay
<1> QED
  BY Invariance, <1>1, <1>2, PTL DEF Spec, DestroyKeepsOthers

-----------------------------------------------------------------------------
(* The layout of composites                                                *)

LEMMA LeastInt ==
  ASSUME NEW low \in Int, NEW high \in Int, NEW S, S \subseteq low .. high, S # {}
  PROVE  Min(S) \in S /\ \A y \in S : Min(S) <= y
<1> DEFINE T == {t \in Nat : low + t \in S}
<1>0. \A v \in S : v \in Int /\ v - low \in Nat /\ low + (v - low) = v
  OBVIOUS
<1>1. T \subseteq Nat /\ T # {} /\ \A v \in S : v - low \in T
  BY <1>0
<1>2. PICK m : m = Min(T)
  OBVIOUS
<1>3. m \in T /\ \A y \in T : m <= y
  BY <1>1, <1>2, LeastOf
<1>4. low + m \in S /\ \A y \in S : low + m <= y
  BY <1>0, <1>1, <1>3
<1> QED
  BY <1>4 DEF Min

LEMMA GreatestInt ==
  ASSUME NEW low \in Int, NEW high \in Int, NEW S, S \subseteq low .. high, S # {}
  PROVE  Max(S) \in S /\ \A y \in S : Max(S) >= y
<1> DEFINE T == {t \in Nat : high - t \in S}
<1>0. \A v \in S : v \in Int /\ high - v \in Nat /\ high - (high - v) = v
  OBVIOUS
<1>1. T \subseteq Nat /\ T # {} /\ \A v \in S : high - v \in T
  BY <1>0
<1>2. PICK m : m = Min(T)
  OBVIOUS
<1>3. m \in T /\ \A y \in T : m <= y
  BY <1>1, <1>2, LeastOf
<1>4. high - m \in S /\ \A y \in S : high - m >= y
  BY <1>0, <1>1, <1>3
<1> QED
  BY <1>4 DEF Max

(* The greatest of finitely many numbers, as there is no least length of a *)
(* list without one.                                                       *)
LEMMA GreatestNat ==
  ASSUME NEW n \in Nat, NEW f, \A i \in 1 .. n : f[i] \in Nat
  PROVE  LET S == {0} \cup {f[i] : i \in 1 .. n}
         IN Max(S) \in S /\ \A y \in S : Max(S) >= y
<1> DEFINE Upto(k) == {0} \cup {f[i] : i \in 1 .. k}
           HasMax(k) == \E x \in Upto(k) : \A y \in Upto(k) : x >= y
           B == {k \in 0 .. n : ~HasMax(k)}
<1>1. B = {}
  <2> SUFFICES ASSUME B # {} PROVE FALSE
    OBVIOUS
  <2>1. PICK m : m = Min(B)
    OBVIOUS
  <2>2. m \in B /\ \A k \in B : m <= k
    <3>1. B \subseteq Nat
      OBVIOUS
    <3> QED
      BY <2>1, <3>1, LeastOf
  <2>3. m # 0
    BY <2>2
  <2>4. m \in 1 .. n /\ m - 1 \in 0 .. n /\ m - 1 \notin B
    <3> HIDE DEF HasMax
    <3> QED
      BY <2>2, <2>3
  <2>5. PICK x \in Upto(m - 1) : \A y \in Upto(m - 1) : x >= y
    BY <2>4
  <2>6. Upto(m) = Upto(m - 1) \cup {f[m]}
    <3>1. 1 .. m = (1 .. m - 1) \cup {m}
      BY <2>4
    <3> QED
      BY <3>1
  <2>7. x \in Nat /\ f[m] \in Nat
    BY <2>4, <2>5
  <2>8. \A y \in Upto(m - 1) : y \in Nat
    BY <2>4
  <2> HIDE DEF Upto
  <2>9. HasMax(m)
    <3>1. CASE x >= f[m]
      BY <2>5, <2>6, <3>1
    <3>2. CASE ~(x >= f[m])
      BY <2>5, <2>6, <2>7, <2>8, <3>2
    <3> QED
      BY <3>1, <3>2
  <2> QED
    BY <2>2, <2>9
<1>2. HasMax(n)
  <2> HIDE DEF HasMax
  <2> QED
    BY <1>1
<1>3. PICK S : S = Upto(n)
  OBVIOUS
<1>4. \E x \in S : \A y \in S : x >= y
  BY <1>2, <1>3
<1>5. Max(S) \in S /\ \A y \in S : Max(S) >= y
  BY <1>4 DEF Max
<1> QED
  BY <1>3, <1>5

EnumRecs == [name : {"v"}, value : EnumNumbers]
TypeRecs ==
  [kind : {"BUILTIN"}, builtin : FieldBuiltins, length : Nat]
    \cup [kind : {"ENUM"}, ref : Nat, length : Nat]
    \cup [kind : {"FIELD_INDEX"}, ref : Nat, field : Nat, length : Nat]
FieldRecs == [name : {"f"}, type : TypeRecs]

(* What a field type refers to is there.                                   *)
Refers(type, enums, slots) ==
  /\ type.kind = "ENUM" => type.ref \in enums
  /\ type.kind = "FIELD_INDEX" => <<type.ref, type.field>> \in slots

LayoutShape ==
  /\ last_id \in Nat
  /\ DOMAIN fields \subseteq 0 .. last_id - 1
  /\ DOMAIN enum_values \subseteq 0 .. last_id - 1
  /\ \A c \in DOMAIN fields : fields[c] \in Seq(FieldRecs)
  /\ \A e \in DOMAIN enum_values : enum_values[e] \in Seq(EnumRecs)
  /\ \A slot \in Slots : Refers(TypeAt(slot), DOMAIN enum_values, Slots)

(* The equations of the sizes, whatever the sizes of the enums.            *)
SizeBy(type, sizes, enum_sizes) ==
  Times(type.length, CASE type.kind = "BUILTIN"     -> BuiltinSize(type.builtin)
                       [] type.kind = "ENUM"        -> enum_sizes[type.ref]
                       [] type.kind = "FIELD_INDEX" -> sizes[<<type.ref, type.field>>])
Solves(sizes, enum_sizes) ==
  sizes = [slot \in Slots |-> SizeBy(TypeAt(slot), sizes, enum_sizes)]

(* They have a solution, and numbers and overflows are the only one, as a  *)
(* field type only refers to a field that was there before.                *)
FieldSizes == Nat \cup {Overflown}
EnumSizesAre(enum_sizes) == \A e \in DOMAIN enum_values : enum_sizes[e] \in Nat
Solvable(enum_sizes) ==
  /\ \E sizes : Solves(sizes, enum_sizes)
  /\ \A sizes : Solves(sizes, enum_sizes) => \A slot \in Slots : sizes[slot] \in FieldSizes
WellFoundedTypes == \A enum_sizes : EnumSizesAre(enum_sizes) => Solvable(enum_sizes)

LayoutInv == LayoutShape /\ WellFoundedTypes

LEMMA TimesIs ==
  ASSUME NEW n \in Nat, NEW size \in FieldSizes
  PROVE  /\ Times(n, size) \in FieldSizes
         /\ Times(n, size) # Overflown => size \in Nat /\ Times(n, size) = n * size
<1>1. size \in Nat => n * size \in Nat
  OBVIOUS
<1> QED
  BY <1>1, SMT DEF Times, FieldSizes, Overflown

LEMMA TimesFewer ==
  ASSUME NEW n \in Nat, NEW k \in Nat, k <= n, NEW size \in FieldSizes,
         Times(n, size) # Overflown
  PROVE  Times(k, size) # Overflown
<1>1. size \in Nat /\ k * size \in Nat
  BY TimesIs DEF FieldSizes
<1>2. size > 0 => GreatestInt32 \div size \in Int
  BY <1>1, SMT DEF GreatestInt32
<1>3. size > 0 => n <= GreatestInt32 \div size
  BY <1>1, <1>2, SMT DEF Times, Overflown
<1>4. size > 0 => k <= GreatestInt32 \div size
  BY <1>1, <1>2, <1>3, SMT
<1> QED
  BY <1>1, <1>2, <1>4, SMT DEF Times, Overflown

LEMMA SizeIsDefined ==
  ASSUME NEW type \in TypeRecs, NEW enums, NEW slots, Refers(type, enums, slots),
         NEW sizes, \A slot \in slots : sizes[slot] \in FieldSizes,
         NEW enum_sizes, \A e \in enums : enum_sizes[e] \in Nat
  PROVE  SizeBy(type, sizes, enum_sizes) \in FieldSizes
<1>1. type.length \in Nat /\ type.kind \in {"BUILTIN", "ENUM", "FIELD_INDEX"}
  BY DEF TypeRecs
<1>2. BuiltinSize(type.builtin) \in FieldSizes
  BY SMT DEF BuiltinSize, FieldSizes
<1>3. CASE type.kind = "BUILTIN"
  BY <1>1, <1>2, <1>3, TimesIs DEF SizeBy
<1>4. CASE type.kind = "ENUM"
  <2>1. enum_sizes[type.ref] \in FieldSizes
    BY <1>4 DEF Refers, FieldSizes
  <2> QED
    BY <1>1, <1>4, <2>1, TimesIs DEF SizeBy
<1>5. CASE type.kind = "FIELD_INDEX"
  <2>1. sizes[<<type.ref, type.field>>] \in FieldSizes
    BY <1>5 DEF Refers
  <2> QED
    BY <1>1, <1>5, <2>1, TimesIs DEF SizeBy
<1> QED
  BY <1>1, <1>3, <1>4, <1>5

LEMMA SizeAgrees ==
  ASSUME NEW type \in TypeRecs, NEW enums, NEW slots, Refers(type, enums, slots),
         NEW sizes, NEW other, \A slot \in slots : sizes[slot] = other[slot],
         NEW enum_sizes
  PROVE  SizeBy(type, sizes, enum_sizes) = SizeBy(type, other, enum_sizes)
<1>1. \/ type.kind = "BUILTIN" \/ type.kind = "ENUM"
      \/ type.kind = "FIELD_INDEX" /\ sizes[<<type.ref, type.field>>] =
                                        other[<<type.ref, type.field>>]
  BY DEF TypeRecs, Refers
<1> QED
  BY <1>1 DEF SizeBy

LEMMA SlotIs ==
  /\ \A c, i : <<c, i>> \in Slots <=> c \in DOMAIN fields /\ i \in DOMAIN fields[c]
  /\ \A slot \in Slots : slot = <<slot[1], slot[2]>>
BY DEF Slots

LEMMA TypesAre ==
  ASSUME LayoutShape, NEW slot \in Slots
  PROVE  TypeAt(slot) \in TypeRecs
<1>1. slot[1] \in DOMAIN fields /\ slot[2] \in DOMAIN fields[slot[1]]
  BY SlotIs
<1>2. fields[slot[1]] \in Seq(FieldRecs)
  BY <1>1 DEF LayoutShape
<1>3. fields[slot[1]][slot[2]] \in FieldRecs
  BY <1>1, <1>2
<1> QED
  BY <1>3 DEF TypeAt, FieldRecs

SameTypes == \A slot \in Slots : TypeAt(slot)' = TypeAt(slot)

LEMMA SameSlots ==
  ASSUME LayoutInv, Slots' = Slots, SameTypes, DOMAIN enum_values \subseteq DOMAIN enum_values'
  PROVE  WellFoundedTypes'
<1> SUFFICES ASSUME NEW es, EnumSizesAre(es)' PROVE Solvable(es)'
  BY DEF WellFoundedTypes
<1>1. EnumSizesAre(es)
  BY DEF EnumSizesAre
<1>2. Solvable(es)
  BY <1>1 DEF LayoutInv, WellFoundedTypes
<1>3. ASSUME NEW sizes PROVE Solves(sizes, es)' = Solves(sizes, es)
  <2>1. [slot \in Slots' |-> SizeBy(TypeAt(slot)', sizes, es)]
          = [slot \in Slots |-> SizeBy(TypeAt(slot), sizes, es)]
    BY DEF SameTypes
  <2> QED
    BY <2>1, Zenon DEF Solves
<1> QED
  BY <1>2, <1>3, Zenon DEF Solvable

LEMMA NewSlot ==
  ASSUME LayoutInv, NEW new, new \notin Slots, Slots' = Slots \cup {new}, SameTypes,
         NEW type \in TypeRecs, TypeAt(new)' = type, Refers(type, DOMAIN enum_values, Slots),
         DOMAIN enum_values \subseteq DOMAIN enum_values'
  PROVE  WellFoundedTypes'
<1> SUFFICES ASSUME NEW es, EnumSizesAre(es)' PROVE Solvable(es)'
  BY DEF WellFoundedTypes
<1>1. EnumSizesAre(es)
  BY DEF EnumSizesAre
<1>2. Solvable(es)
  BY <1>1 DEF LayoutInv, WellFoundedTypes
<1>3. \A slot \in Slots : TypeAt(slot) \in TypeRecs /\ Refers(TypeAt(slot), DOMAIN enum_values, Slots)
  BY TypesAre DEF LayoutInv, LayoutShape
<1>4. ASSUME NEW f, NEW g, \A slot \in Slots : f[slot] = g[slot]
      PROVE  /\ \A slot \in Slots : SizeBy(TypeAt(slot), f, es) = SizeBy(TypeAt(slot), g, es)
             /\ SizeBy(type, f, es) = SizeBy(type, g, es)
  BY <1>3, <1>4, SizeAgrees
<1>5. \E sizes : Solves(sizes, es)'
  <2>1. PICK f : Solves(f, es)
    BY <1>2 DEF Solvable
  <2>2. PICK v : v = SizeBy(type, f, es)
    OBVIOUS
  <2>3. PICK g : g = [slot \in Slots \cup {new} |-> IF slot = new THEN v ELSE f[slot]]
    OBVIOUS
  <2>4. \A slot \in Slots : f[slot] = g[slot]
    BY <2>3
  <2>5. \A slot \in Slots : f[slot] = SizeBy(TypeAt(slot), f, es)
    BY <2>1 DEF Solves
  <2>6. \A slot \in Slots : g[slot] = SizeBy(TypeAt(slot)', g, es)
    BY <1>4, <2>4, <2>5 DEF SameTypes
  <2>7. g[new] = SizeBy(TypeAt(new)', g, es)
    BY <1>4, <2>2, <2>3, <2>4
  <2>8. g = [slot \in Slots' |-> SizeBy(TypeAt(slot)', g, es)]
    BY <2>3, <2>6, <2>7
  <2> QED
    BY <2>8 DEF Solves
<1>6. ASSUME NEW g, Solves(g, es)'
      PROVE  \A slot \in Slots' : g[slot] \in FieldSizes
  <2>1. g = [slot \in Slots' |-> SizeBy(TypeAt(slot)', g, es)]
    BY <1>6 DEF Solves
  <2>2. \A slot \in Slots' : g[slot] = SizeBy(TypeAt(slot)', g, es)
    BY <2>1
  <2>3. PICK f : f = [slot \in Slots |-> g[slot]]
    OBVIOUS
  <2>4. \A slot \in Slots : f[slot] = g[slot]
    BY <2>3
  <2>5. \A slot \in Slots : g[slot] = SizeBy(TypeAt(slot), f, es)
    BY <1>4, <2>2, <2>4 DEF SameTypes
  <2>6. Solves(f, es)
    BY <2>3, <2>5 DEF Solves
  <2>7. \A slot \in Slots : g[slot] \in FieldSizes
    BY <1>2, <2>4, <2>6 DEF Solvable
  <2>8. g[new] \in FieldSizes
    BY <1>1, <2>2, <2>7, SizeIsDefined DEF EnumSizesAre
  <2> QED
    BY <2>7, <2>8
<1> QED
  BY <1>5, <1>6 DEF Solvable

(* Every call but those that fill an enum or a composite                   *)
LEMMA OnlyCreates ==
  ASSUME LayoutInv, last_id' = last_id \/ last_id' = last_id + 1,
         \/ fields' = fields
         \/ last_id' = last_id + 1 /\ fields' = Put(fields, last_id, <<>>),
         \/ enum_values' = enum_values
         \/ last_id' = last_id + 1 /\ enum_values' = Put(enum_values, last_id, <<>>)
  PROVE  LayoutInv'
<1>1. /\ last_id \in Nat /\ last_id' \in Nat /\ last_id \notin DOMAIN fields
      /\ last_id \notin DOMAIN enum_values
  BY DEF LayoutInv, LayoutShape
<1>2. /\ DOMAIN fields' \subseteq 0 .. last_id' - 1
      /\ \A c \in DOMAIN fields : c \in DOMAIN fields' /\ fields'[c] = fields[c]
      /\ \A c \in DOMAIN fields' \ DOMAIN fields : fields'[c] = <<>>
  BY <1>1 DEF LayoutInv, LayoutShape, Put
<1>3. /\ DOMAIN enum_values' \subseteq 0 .. last_id' - 1
      /\ \A c \in DOMAIN enum_values : c \in DOMAIN enum_values' /\ enum_values'[c] = enum_values[c]
      /\ \A c \in DOMAIN enum_values' \ DOMAIN enum_values : enum_values'[c] = <<>>
  BY <1>1 DEF LayoutInv, LayoutShape, Put
<1>4. DOMAIN enum_values \subseteq DOMAIN enum_values'
  BY <1>3
<1>5. /\ \A c \in DOMAIN fields' : fields'[c] \in Seq(FieldRecs)
      /\ \A e \in DOMAIN enum_values' : enum_values'[e] \in Seq(EnumRecs)
  <2>1. <<>> \in Seq(FieldRecs) /\ <<>> \in Seq(EnumRecs)
    OBVIOUS
  <2>2. /\ \A c \in DOMAIN fields : fields[c] \in Seq(FieldRecs)
        /\ \A e \in DOMAIN enum_values : enum_values[e] \in Seq(EnumRecs)
    BY DEF LayoutInv, LayoutShape
  <2> QED
    BY <1>2, <1>3, <2>1, <2>2, Zenon
<1>6. Slots' = Slots
  <2>1. \A c \in DOMAIN fields' \ DOMAIN fields : DOMAIN fields'[c] = {}
    BY <1>2
  <2>2. \A c, i : c \in DOMAIN fields' /\ i \in DOMAIN fields'[c]
                  <=> c \in DOMAIN fields /\ i \in DOMAIN fields[c]
    BY <1>2, <2>1
  <2>3. \A slot : slot \in Slots' <=> \E c, i : /\ c \in DOMAIN fields' /\ i \in DOMAIN fields'[c]
                                               /\ slot = <<c, i>>
    BY DEF Slots
  <2>4. \A slot : slot \in Slots <=> \E c, i : /\ c \in DOMAIN fields /\ i \in DOMAIN fields[c]
                                              /\ slot = <<c, i>>
    BY DEF Slots
  <2> QED
    BY <2>2, <2>3, <2>4
<1>7. SameTypes
  BY <1>2, SlotIs DEF SameTypes, TypeAt
<1>8. WellFoundedTypes'
  BY <1>4, <1>6, <1>7, SameSlots
<1>9. \A slot \in Slots' : Refers(TypeAt(slot)', DOMAIN enum_values', Slots')
  BY <1>4, <1>6, <1>7 DEF LayoutInv, LayoutShape, Refers, SameTypes
<1> QED
  BY <1>1, <1>2, <1>3, <1>5, <1>8, <1>9 DEF LayoutInv, LayoutShape

LEMMA AddValueInv ==
  ASSUME LayoutInv, NEW e \in DOMAIN enum_values, NEW v \in EnumNumbers,
         AddEnumValue(e, "v", v)
  PROVE  LayoutInv'
<1>1. UNCHANGED <<last_id, fields>>
  BY DEF AddEnumValue
<1>2. PICK new : new = [name |-> "v", value |-> v]
  OBVIOUS
<1>3. new \in EnumRecs
  BY <1>2 DEF EnumRecs
<1>4. enum_values' = [enum_values EXCEPT ![e] = Append(enum_values[e], new)]
  BY <1>2 DEF AddEnumValue
<1>5. DOMAIN enum_values' = DOMAIN enum_values
  BY <1>4
<1>6. \A d \in DOMAIN enum_values : enum_values[d] \in Seq(EnumRecs)
  BY DEF LayoutInv, LayoutShape
<1>7. \A d \in DOMAIN enum_values' : enum_values'[d] \in Seq(EnumRecs)
  <2>1. Append(enum_values[e], new) \in Seq(EnumRecs)
    BY <1>3, <1>6
  <2> QED
    BY <1>4, <1>5, <1>6, <2>1
<1>8. Slots' = Slots /\ SameTypes
  BY <1>1 DEF Slots, SameTypes, TypeAt
<1>9. WellFoundedTypes'
  BY <1>5, <1>8, SameSlots
<1>10. \A slot \in Slots' : Refers(TypeAt(slot)', DOMAIN enum_values', Slots')
  BY <1>5, <1>8 DEF LayoutInv, LayoutShape, SameTypes
<1> QED
  BY <1>1, <1>5, <1>7, <1>9, <1>10 DEF LayoutInv, LayoutShape

LEMMA AddFieldInv ==
  ASSUME LayoutInv, NEW c \in DOMAIN fields, NEW type \in TypeRecs,
         Refers(type, DOMAIN enum_values, Slots), AddField(c, "f", type)
  PROVE  LayoutInv'
<1>1. UNCHANGED <<last_id, enum_values>>
  BY DEF AddField
<1>2. PICK new : new = [name |-> "f", type |-> type]
  OBVIOUS
<1>3. new \in FieldRecs /\ new.type = type
  BY <1>2 DEF FieldRecs
<1>4. PICK list : list = fields[c]
  OBVIOUS
<1>5. PICK n : n = Len(list)
  OBVIOUS
<1>6. \A d \in DOMAIN fields : fields[d] \in Seq(FieldRecs)
  BY DEF LayoutInv, LayoutShape
<1>7. list \in Seq(FieldRecs) /\ n \in Nat /\ DOMAIN list = 1 .. n
  BY <1>4, <1>5, <1>6
<1>8. PICK longer : longer = Append(list, new)
  OBVIOUS
<1>9. /\ longer \in Seq(FieldRecs) /\ DOMAIN longer = (1 .. n) \cup {n + 1}
      /\ longer[n + 1] = new /\ \A i \in 1 .. n : longer[i] = list[i]
  BY <1>3, <1>5, <1>7, <1>8
<1>10. fields' = [fields EXCEPT ![c] = longer]
  BY <1>2, <1>4, <1>8 DEF AddField
<1>11. /\ DOMAIN fields' = DOMAIN fields /\ fields'[c] = longer
       /\ \A d \in DOMAIN fields : d # c => fields'[d] = fields[d]
  BY <1>10
<1>12. \A d \in DOMAIN fields' : fields'[d] \in Seq(FieldRecs)
  BY <1>6, <1>9, <1>11
<1>13. PICK slot : slot = <<c, n + 1>>
  OBVIOUS
<1>14. slot \notin Slots
  <2>1. n + 1 \notin 1 .. n
    BY <1>7
  <2> QED
    BY <1>4, <1>7, <1>13, <2>1, SlotIs
<1>15. Slots' = Slots \cup {slot}
  <2>1. \A d, i : d \in DOMAIN fields' /\ i \in DOMAIN fields'[d]
                  <=> \/ d \in DOMAIN fields /\ i \in DOMAIN fields[d]
                      \/ d = c /\ i = n + 1
    BY <1>4, <1>7, <1>9, <1>11
  <2>2. \A s : s \in Slots' <=> \E d, i : /\ d \in DOMAIN fields' /\ i \in DOMAIN fields'[d]
                                          /\ s = <<d, i>>
    BY DEF Slots
  <2>3. \A s : s \in Slots <=> \E d, i : /\ d \in DOMAIN fields /\ i \in DOMAIN fields[d]
                                         /\ s = <<d, i>>
    BY DEF Slots
  <2> QED
    BY <1>13, <2>1, <2>2, <2>3
<1>16. SameTypes
  <2> SUFFICES ASSUME NEW s \in Slots PROVE TypeAt(s)' = TypeAt(s)
    BY DEF SameTypes
  <2>1. PICK d, i : d = s[1] /\ i = s[2] /\ d \in DOMAIN fields /\ i \in DOMAIN fields[d]
    BY SlotIs
  <2>2. fields'[d][i] = fields[d][i]
    <3>1. CASE d = c
      BY <1>4, <1>7, <1>9, <1>11, <2>1, <3>1
    <3>2. CASE d # c
      BY <1>11, <2>1, <3>2
    <3> QED
      BY <3>1, <3>2
  <2> QED
    BY <2>1, <2>2 DEF TypeAt
<1>17. TypeAt(slot)' = type
  BY <1>3, <1>9, <1>11, <1>13 DEF TypeAt
<1>18. WellFoundedTypes'
  BY <1>1, <1>14, <1>15, <1>16, <1>17, NewSlot
<1>19. \A s \in Slots' : Refers(TypeAt(s)', DOMAIN enum_values', Slots')
  <2>1. \A s \in Slots : Refers(TypeAt(s), DOMAIN enum_values, Slots)
    BY DEF LayoutInv, LayoutShape
  <2> QED
    BY <1>1, <1>15, <1>16, <1>17, <2>1 DEF Refers, SameTypes
<1> QED
  BY <1>1, <1>11, <1>12, <1>18, <1>19 DEF LayoutInv, LayoutShape

LEMMA LongBuiltin ==
  ASSUME NEW b \in FieldBuiltins, NEW n \in Nat, NEW type, type = Long(BuiltinType(b), n)
  PROVE  type \in TypeRecs /\ \A enums, slots : Refers(type, enums, slots)
<1>1. type = [kind |-> "BUILTIN", builtin |-> b, length |-> n]
  BY DEF Long, BuiltinType
<1> QED
  BY <1>1 DEF TypeRecs, Refers

LEMMA LongEnum ==
  ASSUME NEW e \in Nat, NEW n \in Nat, NEW type, type = Long(EnumType(e), n)
  PROVE  type \in TypeRecs /\ \A enums, slots : e \in enums => Refers(type, enums, slots)
<1>1. type = [kind |-> "ENUM", ref |-> e, length |-> n]
  BY DEF Long, EnumType
<1> QED
  BY <1>1 DEF TypeRecs, Refers

LEMMA LongIndex ==
  ASSUME NEW c \in Nat, NEW i \in Nat, NEW n \in Nat, NEW type, type = Long(FieldIndex(c, i), n)
  PROVE  /\ type \in TypeRecs
         /\ \A enums, slots : <<c, i>> \in slots => Refers(type, enums, slots)
<1>1. type = [kind |-> "FIELD_INDEX", ref |-> c, field |-> i, length |-> n]
  BY DEF Long, FieldIndex
<1> QED
  BY <1>1 DEF TypeRecs, Refers

LEMMA Int32s == LeastInt32 \in Int /\ GreatestInt32 \in Int
BY SMT DEF LeastInt32, GreatestInt32

LEMMA Lengths == FieldLengths \subseteq Nat
BY Int32s, Int32Assumption

LEMMA AddFieldCallsInv ==
  ASSUME LayoutInv, AddFieldCalls, Declared(Composites) \subseteq DOMAIN fields
  PROVE  LayoutInv'
<1>1. /\ DOMAIN enum_values \subseteq Nat /\ DOMAIN fields \subseteq Nat
      /\ \A c \in DOMAIN fields : fields[c] \in Seq(FieldRecs)
  BY DEF LayoutInv, LayoutShape
<1>2. \A c, i : <<c, i>> \in Slots => c \in Nat /\ i \in Nat
  BY <1>1, SlotIs
<1>3. PICK c \in DOMAIN fields :
        \/ \E b \in FieldBuiltins, n \in FieldLengths :
             AddField(c, "f", Long(BuiltinType(b), n))
        \/ \E e \in DOMAIN enum_values, n \in FieldLengths :
             AddField(c, "f", Long(EnumType(e), n))
        \/ \E slot \in Slots, n \in FieldLengths \cup {0} :
             AddField(c, "f", Long(FieldIndex(slot[1], slot[2]), n))
  BY Zenon DEF AddFieldCalls
<1>4. ASSUME NEW b \in FieldBuiltins, NEW n \in FieldLengths,
             AddField(c, "f", Long(BuiltinType(b), n))
      PROVE  LayoutInv'
  <2>1. PICK type : type = Long(BuiltinType(b), n)
    OBVIOUS
  <2>2. type \in TypeRecs /\ Refers(type, DOMAIN enum_values, Slots)
    BY <2>1, Lengths, LongBuiltin
  <2>3. AddField(c, "f", type)
    BY <1>4, <2>1
  <2> QED
    BY <2>2, <2>3, AddFieldInv
<1>5. ASSUME NEW e \in DOMAIN enum_values, NEW n \in FieldLengths,
             AddField(c, "f", Long(EnumType(e), n))
      PROVE  LayoutInv'
  <2>1. PICK type : type = Long(EnumType(e), n)
    OBVIOUS
  <2>2. type \in TypeRecs /\ Refers(type, DOMAIN enum_values, Slots)
    BY <1>1, <2>1, Lengths, LongEnum
  <2>3. AddField(c, "f", type)
    BY <1>5, <2>1
  <2> QED
    BY <2>2, <2>3, AddFieldInv
<1>6. ASSUME NEW slot \in Slots, NEW n \in FieldLengths \cup {0},
             AddField(c, "f", Long(FieldIndex(slot[1], slot[2]), n))
      PROVE  LayoutInv'
  <2>1. PICK type, d, i : type = Long(FieldIndex(d, i), n) /\ d = slot[1] /\ i = slot[2]
    OBVIOUS
  <2>2. <<d, i>> \in Slots /\ d \in Nat /\ i \in Nat /\ n \in Nat
    BY <1>2, <2>1, SlotIs, Lengths
  <2>3. type \in TypeRecs /\ Refers(type, DOMAIN enum_values, Slots)
    BY <2>1, <2>2, LongIndex
  <2>4. AddField(c, "f", type)
    BY <1>6, <2>1
  <2> QED
    BY <2>3, <2>4, AddFieldInv
<1> QED
  BY <1>3, <1>4, <1>5, <1>6

(* The calls that fill neither an enum nor a composite                     *)
LEMMA OtherCallsInv ==
  ASSUME LayoutInv, CreateCalls \/ SystemCalls \/ TreeCalls \/ SettingCalls \/ AssocCalls
  PROVE  LayoutInv'
<1>1. ASSUME UNCHANGED <<last_id, fields, enum_values>>
      PROVE  LayoutInv'
  BY <1>1, OnlyCreates
<1>2. CASE CreateCalls
  BY <1>2, OnlyCreates
     DEF CreateCalls, CreatePackage, CreateComponentLike, CreateEnum, NewDef, NextId
<1>3. CASE SystemCalls
  BY <1>3, OnlyCreates DEF SystemCalls, CreateSystemLike, NewDef, NextId
<1>4. CASE TreeCalls
  BY <1>1, <1>4 DEF TreeCalls, AddChildSystem, RemoveChildSystem, BecomesTree
<1>5. CASE SettingCalls
  <2>1. UNCHANGED <<fields, enum_values>> /\ (last_id' = last_id \/ last_id' = last_id + 1)
    BY <1>5 DEF SettingCalls, SetSystemCapability, UnsetSystemCapability, SetNotifySettings,
       SetNotifyNone, SystemGeneratesSetComponent, SystemGeneratesUnsetComponent,
       AddSystemGenerates, RemoveSystemGenerates, SetParallelExecution, SetLazyIterationRate,
       SetComponentType, AddDependency, OnlySystemLikes, NextId
  <2> QED
    BY <2>1, OnlyCreates
<1>6. CASE AssocCalls
  BY <1>1, <1>6 DEF AssocCalls, AddAssoc, RemoveAssoc, AddAssocField, RemoveAssocField,
     SetAssocCapability, ChangeAssoc, runtime_vars
<1> QED
  BY <1>2, <1>3, <1>4, <1>5, <1>6

LEMMA LayoutInit == ApiInit => LayoutInv
<1> SUFFICES ASSUME ApiInit PROVE LayoutInv
  OBVIOUS
<1>1. last_id = 0 /\ fields = EmptyMap /\ enum_values = EmptyMap
  BY DEF ApiInit, RuntimeInit
<1>2. DOMAIN EmptyMap = {}
  BY DEF EmptyMap
<1>3. Slots = {}
  BY <1>1, <1>2, SlotIs DEF Slots
<1>4. LayoutShape
  BY <1>1, <1>2, <1>3 DEF LayoutShape
<1>5. \A es : Solvable(es)
  <2> TAKE es
  <2>1. PICK f : f = [slot \in {} |-> SizeBy(TypeAt(slot), slot, es)]
    OBVIOUS
  <2>2. Solves(f, es)
    BY <1>3, <2>1 DEF Solves
  <2> QED
    BY <1>3, <2>2 DEF Solvable
<1> QED
  BY <1>4, <1>5 DEF LayoutInv, WellFoundedTypes

(* Both invariants of a host that lays out fields: the one of every host   *)
(* gives the declarations their entry.                                     *)
LEMMA LayoutStep ==
  ASSUME ApiInv, LayoutInv, [LayoutNext]_api_vars
  PROVE  ApiInv' /\ LayoutInv'
<1>1. CASE CreateCalls \/ SystemCalls \/ TreeCalls \/ SettingCalls \/ AssocCalls
  <2>1. [Next]_api_vars
    BY <1>1 DEF Next
  <2> QED
    BY <1>1, <2>1, StepInv, OtherCallsInv
<1>2. CASE LayoutCalls(EnumNumbers)
  <2>1. /\ UNCHANGED <<last_id, package_defs, defs, full_names, system_likes>>
        /\ UNCHANGED <<assoc_vars, callbacks>> /\ UNCHANGED history_vars
        /\ DOMAIN fields' = DOMAIN fields /\ (IsFun(fields) => IsFun(fields'))
    BY <1>2 DEF IsFun, LayoutCalls, AddValueCalls, AddFieldCalls, AddEnumValue, AddField, OnlyRuntime
  <2>2. Shape'
    BY <2>1 DEF ApiInv, Shape, Packages, Declared, Systems, Owner
  <2>3. Untouched
    BY <2>1 DEF Untouched, Packages, Systems, Top, Parent, Nested
  <2>4. ApiInv'
    BY <2>1, <2>2, <2>3, OnlyAddsInv DEF OnlyAdds
  <2>5. CASE AddValueCalls(EnumNumbers)
    BY <2>4, <2>5, AddValueInv DEF AddValueCalls
  <2>6. CASE AddFieldCalls
    <3>1. Declared(Composites) \subseteq DOMAIN fields
      BY DEF ApiInv, Shape
    <3> QED
      BY <2>4, <2>6, <3>1, AddFieldCallsInv
  <2> QED
    BY <1>2, <2>5, <2>6 DEF LayoutCalls
<1>3. CASE UNCHANGED api_vars
  <2>1. UNCHANGED <<last_id, fields, enum_values>>
    BY <1>3 DEF api_vars, runtime_vars
  <2> QED
    BY <1>3, <2>1, OnlyCreates, StepInv
<1> QED
  BY <1>1, <1>2, <1>3 DEF LayoutNext

LEMMA LayoutInvariance == LayoutSpec => [](ApiInv /\ LayoutInv)
BY InitInv, LayoutInit, LayoutStep, PTL DEF LayoutSpec

(* The storage type by the least and the greatest value                    *)
LEMMA StorageTypeIs ==
  ASSUME NEW values, values # {}, NEW low, low = Min(values), NEW high, high = Max(values),
         low \in Int, high \in Int, NEW type, type = StorageType(values)
  PROVE  /\ Least(values) = low /\ Greatest(values) = high
         /\ \/ type = "I8" /\ low < 0 /\ high <= 127
            \/ type = "I16" /\ low < 0 /\ high > 127 /\ high <= 32767
            \/ type = "I32" /\ low < 0 /\ high > 32767
            \/ type = "U8" /\ low >= 0 /\ high <= 255
            \/ type = "U16" /\ low >= 0 /\ high > 255 /\ high <= 65535
            \/ type = "U32" /\ low >= 0 /\ high > 65535
<1>1. Least(values) = low /\ Greatest(values) = high
  BY SMT DEF Least, Greatest
<1> QED
  BY SMT, <1>1 DEF StorageType

(* By the bounds of the types, a builtin type holds a set of numbers if it *)
(* holds the least and the greatest of them.                               *)
HoldsBoth(b, low, high) ==
  \/ b = "I8" /\ low >= -128 /\ high <= 127
  \/ b = "I16" /\ low >= -32768 /\ high <= 32767
  \/ b = "I32"
  \/ b = "U8" /\ low >= 0 /\ high <= 255
  \/ b = "U16" /\ low >= 0 /\ high <= 65535
  \/ b = "U32" /\ low >= 0
IntTypes == {"I8", "I16", "I32", "U8", "U16", "U32"}

LEMMA HoldsIs ==
  ASSUME NEW values, values \subseteq Int, NEW low \in values, NEW high \in values,
         \A v \in values : low <= v /\ high >= v, NEW b \in IntTypes
  PROVE  Holds(b, values) <=> HoldsBoth(b, low, high)
<1>1. \A v \in values : low <= v /\ v <= high /\ v \in Int
  OBVIOUS
<1>2. CASE b = "I8"
  BY SMT, <1>1, <1>2 DEF Holds, HoldsBoth
<1>3. CASE b = "I16"
  BY SMT, <1>1, <1>3 DEF Holds, HoldsBoth
<1>4. CASE b = "I32"
  BY SMT, <1>4 DEF Holds, HoldsBoth
<1>5. CASE b = "U8"
  BY SMT, <1>1, <1>5 DEF Holds, HoldsBoth
<1>6. CASE b = "U16"
  BY SMT, <1>1, <1>6 DEF Holds, HoldsBoth
<1>7. CASE b = "U32"
  BY SMT, <1>1, <1>7 DEF Holds, HoldsBoth
<1> QED
  BY <1>2, <1>3, <1>4, <1>5, <1>6, <1>7 DEF IntTypes

LEMMA StorageFits == LayoutInv => StorageTypeFits
<1> SUFFICES ASSUME LayoutInv, NEW e \in DOMAIN enum_values,
                    NEW values, values = ValuesOf(e), NEW type, type = StorageType(values),
                    values # {}, GreatestDecides(values)
             PROVE  /\ Holds(type, values)
                    /\ \A b \in IntTypes : Holds(b, values) => BuiltinSize(type) <= BuiltinSize(b)
  BY Zenon DEF StorageTypeFits, IntTypes
<1>1. values \subseteq LeastInt32 .. GreatestInt32
  <2>1. PICK list : list = enum_values[e]
    OBVIOUS
  <2>2. list \in Seq(EnumRecs)
    BY <2>1 DEF LayoutInv, LayoutShape
  <2>3. \A i \in DOMAIN list : list[i] \in EnumRecs
    BY <2>2
  <2>4. \A i \in DOMAIN list : list[i].value \in EnumNumbers
    BY <2>3 DEF EnumRecs
  <2>5. values \subseteq EnumNumbers
    BY <2>1, <2>4 DEF ValuesOf
  <2> QED
    BY <2>5, Int32Assumption
<1>2. PICK low, high : low = Min(values) /\ high = Max(values)
  OBVIOUS
<1>3. /\ low \in values /\ high \in values
      /\ \A v \in values : low <= v /\ high >= v
  BY <1>1, <1>2, Int32s, LeastInt, GreatestInt
<1>4. values \subseteq Int /\ low \in Int /\ high \in Int
  BY <1>1, <1>3, Int32s
<1>5. low <= high
  BY <1>3
<1>6. PICK l, h : l = Least(values) /\ h = Greatest(values)
  OBVIOUS
<1>7. /\ l = low /\ h = high
      /\ \/ type = "I8" /\ low < 0 /\ high <= 127
         \/ type = "I16" /\ low < 0 /\ high > 127 /\ high <= 32767
         \/ type = "I32" /\ low < 0 /\ high > 32767
         \/ type = "U8" /\ low >= 0 /\ high <= 255
         \/ type = "U16" /\ low >= 0 /\ high > 255 /\ high <= 65535
         \/ type = "U32" /\ low >= 0 /\ high > 65535
  BY SMT, <1>2, <1>4, <1>6, StorageTypeIs
<1>8. low >= -128 \/ (low >= -32768 /\ high > 127) \/ high > 32767
  BY SMT, <1>6, <1>7 DEF GreatestDecides
<1>9. type \in IntTypes
  BY SMT, <1>7 DEF IntTypes
<1>10. HoldsBoth(type, low, high)
  BY SMT, <1>4, <1>7, <1>8 DEF HoldsBoth
<1>11. ASSUME NEW b \in IntTypes, Holds(b, values)
       PROVE  BuiltinSize(type) <= BuiltinSize(b)
  <2>1. HoldsBoth(b, low, high)
    BY <1>3, <1>4, <1>11, HoldsIs
  <2>2. /\ BuiltinSize("I8") = 1 /\ BuiltinSize("U8") = 1 /\ BuiltinSize("I16") = 2
        /\ BuiltinSize("U16") = 2 /\ BuiltinSize("I32") = 4 /\ BuiltinSize("U32") = 4
    BY SMT DEF BuiltinSize
  <2> QED
    BY SMT, <1>4, <1>5, <1>7, <2>1, <2>2 DEF HoldsBoth
<1> QED
  BY <1>3, <1>4, <1>9, <1>10, <1>11, HoldsIs

EnumBytes == [e \in DOMAIN enum_values |-> BuiltinSize(StorageType(ValuesOf(e)))]

LEMMA SizesAreNumbers ==
  ASSUME LayoutInv
  PROVE  \A slot \in Slots : FieldTypeSize[slot] \in FieldSizes
<1>1. PICK es : es = EnumBytes
  OBVIOUS
<1>2. EnumSizesAre(es)
  <2>1. \A builtin : BuiltinSize(builtin) \in Nat
    BY SMT DEF BuiltinSize
  <2> QED
    BY <1>1, <2>1 DEF EnumBytes, EnumSizesAre
<1>3. Solvable(es)
  BY <1>2 DEF LayoutInv, WellFoundedTypes
<1>4. ASSUME NEW f
      PROVE  [slot \in Slots |-> Times(TypeAt(slot).length, BaseSize(TypeAt(slot), f))]
               = [slot \in Slots |-> SizeBy(TypeAt(slot), f, es)]
  <2> SUFFICES ASSUME NEW slot \in Slots, NEW type, type = TypeAt(slot)
               PROVE  Times(type.length, BaseSize(type, f)) = SizeBy(type, f, es)
    OBVIOUS
  <2>1. type \in TypeRecs /\ Refers(type, DOMAIN enum_values, Slots)
    BY TypesAre DEF LayoutInv, LayoutShape
  <2>2. \/ type.kind = "BUILTIN" \/ type.kind = "FIELD_INDEX"
        \/ type.kind = "ENUM" /\ es[type.ref] = BuiltinSize(StorageType(ValuesOf(type.ref)))
    BY <1>1, <2>1 DEF TypeRecs, Refers, EnumBytes
  <2> QED
    BY <2>2 DEF BaseSize, SizeBy
<1>5. FieldTypeSize = CHOOSE f :
        f = [slot \in Slots |-> Times(TypeAt(slot).length, BaseSize(TypeAt(slot), f))]
  BY DEF FieldTypeSize
<1>6. \E f : f = [slot \in Slots |-> Times(TypeAt(slot).length, BaseSize(TypeAt(slot), f))]
  <2>1. PICK f : Solves(f, es)
    BY <1>3 DEF Solvable
  <2> QED
    BY <1>4, <2>1, Zenon DEF Solves
<1>7. PICK f : /\ f = FieldTypeSize
               /\ f = [slot \in Slots |-> Times(TypeAt(slot).length, BaseSize(TypeAt(slot), f))]
  BY <1>5, <1>6, Zenon
<1>8. Solves(f, es)
  BY <1>4, <1>7, Zenon DEF Solves
<1> QED
  BY <1>3, <1>7, <1>8 DEF Solvable

LEMMA NoOverlap == LayoutInv => FieldsDoNotOverlap
<1> SUFFICES ASSUME LayoutInv, NEW c \in DOMAIN fields,
                    NEW i \in DOMAIN fields[c], NEW j \in DOMAIN fields[c], i < j,
                    FieldOffset(c, j) # Overflown
             PROVE  /\ FieldOffset(c, i) # Overflown
                    /\ FieldOffset(c, i) + Sizes(c)[i] <= FieldOffset(c, j)
  BY DEF FieldsDoNotOverlap
<1>1. fields[c] \in Seq(FieldRecs)
  BY DEF LayoutInv, LayoutShape
<1>2. PICK n \in Nat : DOMAIN fields[c] = 1 .. n
  BY <1>1
<1>3. PICK f : f = Sizes(c) /\ f = [k \in 1 .. n |-> FieldTypeSize[<<c, k>>]]
  BY <1>2 DEF Sizes
<1>4. \A k \in 1 .. n : f[k] \in FieldSizes
  BY <1>2, <1>3, SizesAreNumbers, SlotIs
<1>5. PICK m : m = LargestFieldSize(c)
  OBVIOUS
<1>6. /\ Overflown \notin Range(f)
      /\ FieldOffset(c, i) = Times(i - 1, m) /\ FieldOffset(c, j) = Times(j - 1, m)
  BY <1>3, <1>5, Zenon DEF FieldOffset
<1>7. \A k \in 1 .. n : f[k] \in Nat
  <2> SUFFICES ASSUME NEW k \in 1 .. n PROVE f[k] \in Nat
    OBVIOUS
  <2>1. f[k] \in Range(f)
    BY <1>3 DEF Range
  <2> QED
    BY <1>4, <1>6, <2>1 DEF FieldSizes
<1>8. PICK S : S = {0} \cup {f[k] : k \in 1 .. n}
  OBVIOUS
<1>9. m = Max(S)
  BY <1>2, <1>3, <1>5, <1>8 DEF LargestFieldSize
<1>10. m \in S /\ \A y \in S : m >= y
  BY <1>7, <1>8, <1>9, GreatestNat
<1>11. m \in Nat /\ f[i] \in Nat /\ f[i] <= m
  BY <1>2, <1>7, <1>8, <1>10
<1>12. i \in Nat /\ i - 1 \in Nat /\ j \in Nat /\ j - 1 \in Nat /\ j - 1 >= i
  BY <1>2
<1>13. Times(i - 1, m) # Overflown
  BY <1>6, <1>11, <1>12, TimesFewer DEF FieldSizes
<1>14. FieldOffset(c, i) = (i - 1) * m /\ FieldOffset(c, j) = (j - 1) * m
  BY <1>6, <1>11, <1>12, <1>13, TimesIs DEF FieldSizes
<1>15. PICK k \in Nat : j - 1 = i + k
  <2>1. j - 1 - i \in Nat /\ j - 1 = i + (j - 1 - i)
    BY <1>12
  <2> QED
    BY <2>1
<1>16. (i - 1) * m + m = i * m /\ (i + k) * m = i * m + k * m /\ k * m \in Nat /\ i * m \in Nat
  BY <1>11, <1>12, <1>15
<1>17. (i - 1) * m + f[i] <= (j - 1) * m
  BY <1>11, <1>12, <1>15, <1>16
<1> QED
  BY <1>3, <1>6, <1>13, <1>14, <1>17

(* The storage type of an enum fits its values, whatever 32 bit numbers    *)
(* they are: ecsact_meta_enum_storage_type compares at the right bounds.   *)
THEOREM StorageTypeAlwaysFits == LayoutSpec => []StorageTypeFits
BY LayoutInvariance, StorageFits, PTL

(* The offsets that ecsact_meta_field_offset reports leave every field its *)
(* bytes, whatever the types of the fields and the order in which they and *)
(* the enum values are added: the recursion of field_type_size ends, as a  *)
(* field only refers to an earlier one.  Lengths are those of int32_t, and *)
(* the offsets those that are computed without an overflow of it.          *)
THEOREM FieldsNeverOverlap == LayoutSpec => []FieldsDoNotOverlap
BY LayoutInvariance, NoOverlap, PTL
=============================================================================
