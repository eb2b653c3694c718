-------------------------- MODULE DeviceIds_proofs --------------------------
(***************************************************************************)
(* The ids of a device list are distinct, for every list: the search of    *)
(* _unique_id ends within the number of ids seen, by the pigeonhole        *)
(* principle, and the number it takes is free.                             *)
(***************************************************************************)
EXTENDS DeviceIds, TLAPS, FiniteSetTheorems, WellFoundedInduction

Ids == [type : {"video", "audio", "none", ""}, index : Nat,
        root : Roots, tail : Seq(Nat), form : Forms]

Items == [id : Ids, type : {"video", "audio", "none"}, name : Texts]

IInv == devices \in Seq(Items) /\ IsFiniteSet(Seen) /\ IdsDistinct

\* A non-empty set of natural numbers has a least element.
LEMMA Least ==
  ASSUME NEW T \in SUBSET Nat, T # {}
  PROVE  \E x \in T : \A y \in T : x <= y
<1>1. PICK R : R = OpToRel(<, Nat)
  BY Zenon
<1>2. \A x, y \in Nat : y < x => <<y, x>> \in R
  BY <1>1, Zenon DEF OpToRel
<1>3. IsWellFoundedOn(R, Nat)
  BY <1>1, NatLessThanWellFounded, Zenon
<1>4. \E x \in T : \A y \in T : <<y, x>> \notin R
  BY <1>3, WFMin, Zenon
<1>5. \E x \in T : \A y \in T : ~ (y < x)
  BY <1>2, <1>4, Zenon
<1>. HIDE <1>1
<1>. QED  BY <1>5, SMT

LEMMA SuffixedInjective ==
  ASSUME NEW id \in Ids, NEW i \in Nat, NEW j \in Nat, Suffixed(id, i) = Suffixed(id, j)
  PROVE  i = j
<1>1. id.tail \in Seq(Nat)
  BY DEF Ids
<1>2. Append(id.tail, i) = Append(id.tail, j)
  BY DEF Suffixed, Ids
<1>. QED  BY <1>1, <1>2

LEMMA SuffixedType ==
  ASSUME NEW id \in Ids, NEW i \in Nat
  PROVE  Suffixed(id, i) \in Ids
<1>1. id.tail \in Seq(Nat)
  BY DEF Ids
<1>2. Append(id.tail, i) \in Seq(Nat)
  BY <1>1
<1>. QED  BY <1>2 DEF Suffixed, Ids

LEMMA BaseType ==
  ASSUME NEW l \in Lines
  PROVE  BaseId(l) \in Ids /\ ParsedType(l) \in {"video", "audio", "none"} /\ l.name \in Texts
<1>1. /\ l.type \in {"video", "audio", "none"} /\ l.index \in Nat
      /\ l.name \in Texts /\ l.path \in Texts
  BY DeviceIdsAssumption DEF DeviceIdsAssumption
<1>2. ParsedType(l) \in {"video", "audio", "none"}
  BY <1>1 DEF ParsedType
<1>3. Slug(l.name) \in Texts /\ Slug(l.path) \in Texts
  BY <1>1, DeviceIdsAssumption DEF DeviceIdsAssumption, Slug, Texts
<1>4. \A t \in {"video", "audio", "none", ""}, n \in Nat, x \in Texts : Id(t, n, x) \in Ids
  BY DEF Id, Ids, Texts
<1>5. BaseId(l) \in {Id(l.type, 0, Slug(l.name)), Id(ParsedType(l), l.index + 1, Slug(l.name)),
                     Id("", 0, Slug(l.path))}
  BY DEF BaseId
<1>6. l.index + 1 \in Nat
  BY <1>1
<1>. HIDE DEF Slug, Id, BaseId, ParsedType
<1>. QED  BY <1>1, <1>2, <1>3, <1>4, <1>5, <1>6

\* Among one number more than there are ids, one is free.
LEMMA FreeExists ==
  ASSUME IsFiniteSet(Seen), NEW base \in Ids
  PROVE  Free(base) # {}
<1>1. Cardinality(Seen) \in Nat
  BY FS_CardinalityType
<1>. DEFINE S == 1 .. Cardinality(Seen) + 1
            f == [i \in S |-> Suffixed(base, i)]
<1>2. IsFiniteSet(S) /\ Cardinality(S) = Cardinality(Seen) + 1
  BY <1>1, FS_Interval
<1>3. SUFFICES ASSUME Free(base) = {}  PROVE FALSE
  OBVIOUS
<1>4. f \in [S -> Seen]
  BY <1>3 DEF Free
<1>5. Cardinality(Seen) < Cardinality(S)
  BY <1>1, <1>2
<1>6. \E x, y \in S : x # y /\ f[x] = f[y]
  <2>. HIDE DEF S, f
  <2>. QED  BY <1>2, <1>4, <1>5, FS_PigeonHole
<1>. QED  BY <1>1, <1>6, SuffixedInjective

LEMMA UniqueIsNew ==
  ASSUME IsFiniteSet(Seen), NEW base \in Ids
  PROVE  UniqueId(base) \in Ids /\ UniqueId(base) \notin Seen
<1>1. CASE base \notin Seen
  BY <1>1 DEF UniqueId
<1>2. CASE base \in Seen
  <2>1. Free(base) \in SUBSET Nat
    BY FS_CardinalityType DEF Free
  <2>2. \E i \in Free(base) : \A j \in Free(base) : i <= j
    BY <2>1, FreeExists, Least
  <2>3. PICK i \in Free(base) : UniqueId(base) = Suffixed(base, i)
    BY <1>2, <2>2 DEF UniqueId
  <2>. QED  BY <2>1, <2>3, SuffixedType DEF Free
<1>. QED  BY <1>1, <1>2

-----------------------------------------------------------------------------
LEMMA InitInv == Init => IInv
<1>1. <<>> \in Seq(Items)
  OBVIOUS
<1>2. ASSUME Init  PROVE IsFiniteSet(Seen)
  <2>1. Seen = {}
    BY <1>2 DEF Init, Seen
  <2>. QED  BY <2>1, FS_EmptySet
<1>. QED  BY <1>1, <1>2 DEF Init, IInv, IdsDistinct

LEMMA ParseKeeps ==
  ASSUME IInv, NEW l \in Lines, Parse(l)
  PROVE  IInv'
<1>. DEFINE id == UniqueId(BaseId(l))
            d == Item(id, ParsedType(l), l.name)
<1>1. id \in Ids /\ id \notin Seen
  BY BaseType, UniqueIsNew DEF IInv
<1>2. d \in Items /\ d.id = id
  BY <1>1, BaseType DEF Item, Items
<1>3. devices' = Append(devices, d)
  BY DEF Parse
<1>. HIDE DEF id, d
<1>4. devices \in Seq(Items)
  BY DEF IInv
<1>5. /\ devices' \in Seq(Items)
      /\ DOMAIN devices' = DOMAIN devices \union {Len(devices) + 1}
      /\ DOMAIN devices = 1 .. Len(devices) /\ Len(devices) \in Nat
      /\ devices'[Len(devices) + 1] = d
      /\ \A k \in DOMAIN devices : devices'[k] = devices[k]
  BY <1>2, <1>3, <1>4
<1>6. Seen' = Seen \union {id}
  BY <1>2, <1>5 DEF Seen
<1>7. IsFiniteSet(Seen')
  BY <1>6, FS_AddElement DEF IInv
<1>8. \A k \in DOMAIN devices : devices[k].id # id
  BY <1>1 DEF Seen
<1>9. IdsDistinct'
  BY <1>2, <1>5, <1>8 DEF IInv, IdsDistinct
<1>. QED  BY <1>5, <1>7, <1>9 DEF IInv

LEMMA StepInv == IInv /\ [Next]_vars => IInv'
<1>1. ASSUME IInv, UNCHANGED devices  PROVE IInv'
  BY <1>1 DEF IInv, Seen, IdsDistinct
<1>2. Next => UNCHANGED devices \/ \E l \in Lines : Parse(l)
  BY DEF Next, Serve, Enable, Disable
<1>. QED  BY <1>1, <1>2, ParseKeeps DEF vars

(***************************************************************************)
(* The ids of a device list are distinct, for every driver and list        *)
(* (base.py:46-58).                                                        *)
(***************************************************************************)
THEOREM IdsDistinctHolds == Spec => []IdsDistinct
<1>1. IInv => IdsDistinct
  BY DEF IInv
<1>. QED  BY <1>1, InitInv, StepInv, PTL DEF Spec

-----------------------------------------------------------------------------
(***************************************************************************)
(* Who may be enabled: devices of the list, and placeholders of a type and *)
(* a name of the Server.  The type is part of the id of both, or the id of *)
(* a listed device has none and cannot be that of a placeholder.           *)
(***************************************************************************)
Placeholders ==
  {Item(Id(t, 0, n), t, n) : t \in {"video", "audio"}, n \in ServerNames}

TypedIds == \A d \in Listed : d.id.type \in {"", d.type}

EInv ==
  /\ IInv /\ TypedIds /\ LostEnablesClash
  /\ registry \subseteq Listed \union Placeholders
  /\ phase = "list" => registry = {} /\ answered = <<>>

\* What an enable picks, and that it is a placeholder if it is not listed.
LEMMA ChosenFacts ==
  ASSUME NEW type, NEW name, IInv
  PROVE  /\ Chosen(type, name).type = type /\ Chosen(type, name).name = name
         /\ \/ Chosen(type, name) \in Listed
            \/ Chosen(type, name) = Item(Id(type, 0, name), type, name)
<1>. DEFINE found == {k \in DOMAIN devices : devices[k].type = type /\ devices[k].name = name}
<1>1. CASE found = {}
  BY <1>1 DEF Chosen, PlaceholderId, Item
<1>2. CASE found # {}
  <2>1. found \in SUBSET Nat
    BY DEF IInv
  <2>2. \E k \in found : \A j \in found : k <= j
    BY <1>2, <2>1, Least
  <2>3. PICK k \in found : Chosen(type, name) = devices[k]
    BY <1>2, <2>2 DEF Chosen
  <2>. QED  BY <2>3 DEF Listed
<1>. QED  BY <1>1, <1>2

\* Ids of placeholders are those of their types and names.
LEMMA PlaceholderFacts ==
  ASSUME NEW d \in Placeholders
  PROVE  /\ d.type \in {"video", "audio"} /\ d.id.type = d.type
         /\ \A e \in Placeholders : e.id = d.id => e = d
<1>1. PICK t \in {"video", "audio"}, n \in ServerNames : d = Item(Id(t, 0, n), t, n)
  BY DEF Placeholders
<1>2. d.type = t /\ d.id = Id(t, 0, n) /\ d.id.type = t
  BY <1>1 DEF Item, Id
<1>3. ASSUME NEW e \in Placeholders, e.id = d.id  PROVE e = d
  <2>1. PICK u \in {"video", "audio"}, m \in ServerNames : e = Item(Id(u, 0, m), u, m)
    BY DEF Placeholders
  <2>2. Id(u, 0, m) = Id(t, 0, n)
    BY <1>2, <1>3, <2>1 DEF Item
  <2>3. u = t /\ m.root = n.root /\ m.tail = n.tail /\ m.form = n.form
    BY <2>2 DEF Id
  <2>4. m \in Texts /\ n \in Texts
    BY DeviceIdsAssumption DEF DeviceIdsAssumption
  <2>5. m = n
    BY <2>3, <2>4 DEF Texts
  <2>. QED  BY <1>1, <2>1, <2>3, <2>5
<1>. QED  BY <1>2, <1>3

\* Two items with one id: the same, or one listed and one placeholder.
LEMMA SameId ==
  ASSUME IInv, TypedIds, NEW d \in Listed \union Placeholders,
         NEW e \in Listed \union Placeholders, d.id = e.id, d # e,
         d.type \in {"video", "audio"}
  PROVE  e.type = d.type /\ (e \in Listed <=> d \notin Listed)
<1>1. ~ (d \in Listed /\ e \in Listed)
  BY DEF IInv, IdsDistinct, Listed
<1>2. ~ (d \in Placeholders /\ e \in Placeholders)
  BY PlaceholderFacts
<1>3. CASE d \in Listed /\ e \in Placeholders
  BY <1>1, <1>3, PlaceholderFacts DEF TypedIds
<1>4. CASE d \in Placeholders /\ e \in Listed
  BY <1>1, <1>4, PlaceholderFacts DEF TypedIds
<1>. QED  BY <1>1, <1>2, <1>3, <1>4

LEMMA EnableKeeps ==
  ASSUME EInv, NEW type \in {"video", "audio"}, NEW name \in ServerNames, Enable(type, name)
  PROVE  EInv'
<1>. DEFINE d == Chosen(type, name)
<1>1. d.type = type /\ d.name = name /\ d \in Listed \union Placeholders
  BY ChosenFacts DEF EInv, Placeholders
<1>2. devices' = devices /\ phase' = phase /\ phase = "serve"
  BY DEF Enable
<1>3. IInv' /\ TypedIds' /\ Listed' = Listed /\ Chosen(type, name)' = d
  <2>1. Listed' = Listed /\ Seen' = Seen /\ Chosen(type, name)' = d
    BY <1>2 DEF Listed, Seen, Chosen
  <2>2. IInv'
    BY <1>2, <2>1 DEF EInv, IInv, IdsDistinct
  <2>. QED  BY <2>1, <2>2 DEF EInv, TypedIds
<1>4. registry' \in {registry, registry \union {d}}
  BY DEF Enable
<1>5. registry' \subseteq (Listed \union Placeholders)'
  BY <1>1, <1>3, <1>4 DEF EInv, Placeholders
<1>6. LostEnablesClash'
  <2>1. SUFFICES ASSUME NEW t \in {"video", "audio"}, NEW n \in ServerNames,
                        answered' = <<"enabled", t, n>>, Matching(registry', t, n) = {}
                 PROVE  \E e \in registry' :
                          /\ e.id = Chosen(t, n)'.id /\ e.type = t
                          /\ e \in Listed' <=> Chosen(t, n)' \notin Listed'
    BY DEF LostEnablesClash, Matching
  <2>2. t = type /\ n = name
    BY <2>1 DEF Enable
  <2>3. d \notin registry'
    BY <1>1, <2>1, <2>2 DEF Matching
  <2>4. PICK e \in registry : e.id = d.id
    BY <2>3 DEF Enable
  <2>5. e \in registry' /\ e # d /\ e \in Listed \union Placeholders
    BY <1>4, <2>3, <2>4 DEF EInv
  <2>6. e.type = type /\ (e \in Listed <=> d \notin Listed)
    BY <1>1, <2>4, <2>5, SameId DEF EInv
  <2>. QED  BY <1>3, <2>2, <2>4, <2>5, <2>6
<1>. QED  BY <1>2, <1>3, <1>5, <1>6 DEF EInv

LEMMA ParseKeepsTypes ==
  ASSUME EInv, NEW l \in Lines, Parse(l)
  PROVE  TypedIds'
<1>. DEFINE base == BaseId(l)
            d == Item(UniqueId(base), ParsedType(l), l.name)
<1>1. base \in Ids /\ base.type \in {"", ParsedType(l)}
  BY BaseType DEF BaseId, ParsedType, Id
<1>2. UniqueId(base).type = base.type
  BY <1>1 DEF UniqueId, Suffixed, Ids
<1>3. d.id.type \in {"", d.type}
  BY <1>1, <1>2 DEF Item
<1>4. devices' = Append(devices, d) /\ devices \in Seq(Items)
  BY DEF Parse, EInv, IInv
<1>5. d \in Items
  BY <1>1, BaseType, UniqueIsNew DEF EInv, IInv, Item, Items
<1>. HIDE DEF base, d
<1>6. Listed' = Listed \union {d}
  BY <1>4, <1>5 DEF Listed
<1>. QED  BY <1>3, <1>6 DEF EInv, TypedIds

LEMMA EStep == EInv /\ [Next]_vars => EInv'
<1>1. SUFFICES ASSUME EInv, [Next]_vars  PROVE EInv'
  OBVIOUS
<1>2. IInv'
  BY <1>1, StepInv DEF EInv
<1>3. ASSUME answered' = <<>>  PROVE LostEnablesClash'
  BY <1>3 DEF LostEnablesClash
<1>4. ASSUME NEW l \in Lines, Parse(l)  PROVE EInv'
  BY <1>1, <1>2, <1>3, <1>4, ParseKeepsTypes DEF EInv, Parse
<1>5. CASE Serve
  <2>1. registry' \subseteq Listed /\ Listed' = Listed /\ answered' = <<>> /\ phase' = "serve"
    BY <1>1, <1>5 DEF EInv, Serve, Listed
  <2>. QED  BY <1>1, <1>2, <1>3, <2>1 DEF EInv, TypedIds
<1>6. CASE \E t \in {"video", "audio"}, n \in ServerNames : Enable(t, n)
  BY <1>1, <1>6, EnableKeeps
<1>7. ASSUME NEW t, NEW n, Disable(t, n)  PROVE EInv'
  <2>1. /\ LostEnablesClash' /\ phase' = phase /\ phase = "serve"
        /\ registry' \subseteq registry /\ Listed' = Listed
    <3>1. answered' = <<"disabled", t, n>> /\ registry' \subseteq registry
      BY <1>7 DEF Disable
    <3>2. LostEnablesClash'
      BY <3>1 DEF LostEnablesClash
    <3>. QED  BY <1>7, <3>1, <3>2 DEF Disable, Listed
  <2>2. TypedIds'
    BY <1>1, <2>1 DEF EInv, TypedIds
  <2>3. Placeholders' = Placeholders
    BY DEF Placeholders
  <2>4. registry' \subseteq (Listed \union Placeholders)'
    BY <1>1, <2>1, <2>3 DEF EInv
  <2>. QED  BY <1>1, <1>2, <2>1, <2>2, <2>4 DEF EInv
<1>8. CASE UNCHANGED vars
  <2>1. /\ Listed' = Listed /\ \A t, n : Chosen(t, n)' = Chosen(t, n)
        /\ registry' = registry /\ answered' = answered /\ phase' = phase
    BY <1>8 DEF vars, Listed, Chosen
  <2>2. LostEnablesClash' /\ TypedIds'
    BY <1>1, <2>1 DEF EInv, LostEnablesClash, TypedIds, Matching
  <2>3. Placeholders' = Placeholders
    BY DEF Placeholders
  <2>. QED  BY <1>1, <1>2, <2>1, <2>2, <2>3 DEF EInv
<1>. QED  BY <1>1, <1>4, <1>5, <1>6, <1>7, <1>8 DEF Next

(***************************************************************************)
(* An enable that is confirmed without effect is a clash of one device of  *)
(* the list and one placeholder of the same type, for any list and names   *)
(* (device_registry.py:26-35, command_handler.py:109-123).                 *)
(***************************************************************************)
THEOREM LostEnablesClashHolds == Spec => []LostEnablesClash
<1>1. Init => EInv
  <2>1. Init => LostEnablesClash /\ TypedIds
    BY DEF Init, LostEnablesClash, TypedIds, Listed
  <2>. QED  BY <2>1, InitInv DEF Init, EInv
<1>2. EInv => LostEnablesClash
  BY DEF EInv
<1>. QED  BY <1>1, <1>2, EStep, PTL DEF Spec
=============================================================================
