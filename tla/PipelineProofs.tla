--------------------------- MODULE PipelineProofs ---------------------------
(***************************************************************************)
(* That the catalog stays whole, for any records administrators send, any  *)
(* number of changes and any moment at which the seeding reads; and that   *)
(* routing is exact, for any requests, models, adapters and answers, any   *)
(* number of executions, and any change of the catalog or of the adapters  *)
(* between two of their steps.                                             *)
(*                                                                         *)
(* CatalogIsWhole is inductive as it stands.  What keeps it is that each   *)
(* operation compares the normalised ids and changes both tables under one *)
(* lock; that seeding looks under another does not matter, because         *)
(* registering looks again.                                                *)
(*                                                                         *)
(* RoutingIsExact is not.  PipelineInv adds what an execution carries from *)
(* one step to the next: a context whose names and demands are those of    *)
(* the request, a classification of that context, and models that were     *)
(* listed whole.  Sorting and cleaning number the elements of a finite set *)
(* in an order; that they lose and add none rests on lemma Ranked.         *)
(***************************************************************************)
EXTENDS Pipeline, FiniteSetTheorems, SequenceTheorems, WellFoundedInduction, TLAPS

(***************************************************************************)
(* The catalog.                                                            *)
(***************************************************************************)
\* Registering a provider keeps the catalog whole (registry/repository.py
\* register_provider): its id, once normalised, is new.
LEMMA RegisterProvider ==
    ASSUME CatalogIsWhole, NEW p, register_provider(p)
    PROVE  CatalogIsWhole'
<1> DEFINE q == normalize_provider_record(p)
<1>1. q.provider_id \notin ProviderIds /\ providers' = providers \cup {q} /\ models' = models
    BY DEF register_provider
<1> HIDE DEF q
<1>2. \A m \in models' : m.provider_id \in ProviderIds'
    BY <1>1 DEF CatalogIsWhole, ProviderIds
<1>3. \A a, b \in providers' : a.provider_id = b.provider_id => a = b
    BY <1>1 DEF CatalogIsWhole, ProviderIds
<1>4. \A m, n \in models' : Key(m) = Key(n) => m = n
    BY <1>1 DEF CatalogIsWhole
<1> QED BY <1>2, <1>3, <1>4 DEF CatalogIsWhole, Key

\* Replacing a provider keeps the catalog whole (update_provider): its id
\* stays listed, so its models keep a provider.
LEMMA UpdateProvider ==
    ASSUME CatalogIsWhole, NEW p, update_provider(p)
    PROVE  CatalogIsWhole'
<1> DEFINE q == normalize_provider_record(p)
           rest == {x \in providers : x.provider_id # q.provider_id}
<1>1. q.provider_id \in ProviderIds /\ providers' = rest \cup {q} /\ models' = models
    BY DEF update_provider
<1>2. \A x \in providers : x = q \/ x.provider_id = q.provider_id \/ x \in rest
    OBVIOUS
<1>3. ProviderIds \subseteq ProviderIds'
  <2> SUFFICES ASSUME NEW x \in providers PROVE x.provider_id \in ProviderIds'
      BY DEF ProviderIds
  <2>1. CASE x \in rest
      BY <2>1, <1>1 DEF ProviderIds
  <2>2. CASE x.provider_id = q.provider_id
      BY <2>2, <1>1 DEF ProviderIds
  <2> QED BY <2>1, <2>2
<1>4. \A m \in models' : m.provider_id \in ProviderIds'
    BY <1>1, <1>3 DEF CatalogIsWhole
<1>5. \A a, b \in providers' : a.provider_id = b.provider_id => a = b
    BY <1>1 DEF CatalogIsWhole
<1>6. \A m, n \in models' : Key(m) = Key(n) => m = n
    BY <1>1 DEF CatalogIsWhole
<1> QED BY <1>4, <1>5, <1>6 DEF CatalogIsWhole, Key

\* Deleting a provider keeps the catalog whole (delete_provider): its models
\* go under the same lock.
LEMMA DeleteProvider ==
    ASSUME CatalogIsWhole, NEW pid, delete_provider(pid)
    PROVE  CatalogIsWhole'
<1>1. /\ providers' = {q \in providers : q.provider_id # pid}
      /\ models' = {m \in models : m.provider_id # pid}
    BY DEF delete_provider
<1>2. \A m \in models' : m.provider_id \in ProviderIds'
  <2> SUFFICES ASSUME NEW m \in models' PROVE m.provider_id \in ProviderIds'
      OBVIOUS
  <2>1. PICK x \in providers : x.provider_id = m.provider_id
      BY <1>1 DEF CatalogIsWhole, ProviderIds
  <2>2. x \in providers'
      BY <1>1, <2>1
  <2> QED BY <2>1, <2>2 DEF ProviderIds
<1>3. \A a, b \in providers' : a.provider_id = b.provider_id => a = b
    BY <1>1 DEF CatalogIsWhole
<1>4. \A m, n \in models' : Key(m) = Key(n) => m = n
    BY <1>1 DEF CatalogIsWhole
<1> QED BY <1>2, <1>3, <1>4 DEF CatalogIsWhole, Key

\* Registering a model keeps the catalog whole (register_model): its provider
\* is listed and its key, once normalised, is new.
LEMMA RegisterModel ==
    ASSUME CatalogIsWhole, NEW m, register_model(m)
    PROVE  CatalogIsWhole'
<1> DEFINE q == normalize_model_record(m)
<1>1. /\ q.provider_id \in ProviderIds /\ Key(q) \notin ModelKeys
      /\ models' = models \cup {q} /\ providers' = providers
    BY DEF register_model
<1> HIDE DEF q
<1>2. \A x \in models' : x.provider_id \in ProviderIds'
    BY <1>1 DEF CatalogIsWhole, ProviderIds
<1>3. \A a, b \in models' : Key(a) = Key(b) => a = b
    BY <1>1 DEF CatalogIsWhole, ModelKeys
<1>4. \A a, b \in providers' : a.provider_id = b.provider_id => a = b
    BY <1>1 DEF CatalogIsWhole
<1> QED BY <1>2, <1>3, <1>4 DEF CatalogIsWhole, Key

\* Replacing a model keeps the catalog whole (update_model), although it does
\* not look for the provider: a model of that key had one.
LEMMA UpdateModel ==
    ASSUME CatalogIsWhole, NEW m, update_model(m)
    PROVE  CatalogIsWhole'
<1> DEFINE q == normalize_model_record(m)
<1>1. /\ Key(q) \in ModelKeys /\ providers' = providers
      /\ models' = {x \in models : Key(x) # Key(q)} \cup {q}
    BY DEF update_model
<1> HIDE DEF q
<1>2. q.provider_id \in ProviderIds
    BY <1>1 DEF CatalogIsWhole, ModelKeys, Key
<1>3. \A x \in models' : x.provider_id \in ProviderIds'
    BY <1>1, <1>2 DEF CatalogIsWhole, ProviderIds
<1>4. \A a, b \in models' : Key(a) = Key(b) => a = b
    BY <1>1 DEF CatalogIsWhole
<1>5. \A a, b \in providers' : a.provider_id = b.provider_id => a = b
    BY <1>1 DEF CatalogIsWhole
<1> QED BY <1>3, <1>4, <1>5 DEF CatalogIsWhole, Key

\* Deleting models keeps the catalog whole (delete_model).
LEMMA DeleteModel ==
    ASSUME CatalogIsWhole, NEW mid, NEW pid, delete_model(mid, pid)
    PROVE  CatalogIsWhole'
<1>1. models' \subseteq models /\ providers' = providers
    BY DEF delete_model
<1> QED BY <1>1 DEF CatalogIsWhole, ProviderIds, Key

\* Whatever administrators delete, replace or add while the defaults are
\* seeded: no model is listed without its provider, and nothing twice.
THEOREM CatalogStaysWhole == CatalogSpec => []CatalogIsWhole
<1>1. CatalogInit => CatalogIsWhole
    BY DEF CatalogInit, CatalogIsWhole
<1>2. CatalogIsWhole /\ [CatalogNext]_catalog_vars => CatalogIsWhole'
  <2> SUFFICES ASSUME CatalogIsWhole, [CatalogNext]_catalog_vars PROVE CatalogIsWhole'
      OBVIOUS
  <2>1. ASSUME UNCHANGED <<providers, models>> PROVE CatalogIsWhole'
      BY <2>1 DEF CatalogIsWhole, ProviderIds, Key
  <2>2. CASE SeedLooks
      BY <2>1, <2>2 DEF SeedLooks
  <2>3. CASE SeedRegisters
    <3>1. CASE IF IsProvider(seeding.at) THEN register_provider(Seeds[seeding.at])
               ELSE register_model(Seeds[seeding.at])
        BY <3>1, RegisterProvider, RegisterModel
    <3>2. CASE UNCHANGED <<providers, models>>
        BY <2>1, <3>2
    <3> QED BY <2>3, <3>1, <3>2 DEF SeedRegisters
  <2>4. CASE Administer
    <3>1. ASSUME NEW p \in SubmittedProviders, register_provider(p) \/ update_provider(p)
          PROVE  CatalogIsWhole'
        BY <3>1, RegisterProvider, UpdateProvider
    <3>2. ASSUME NEW m \in SubmittedModels, register_model(m) \/ update_model(m)
          PROVE  CatalogIsWhole'
        BY <3>2, RegisterModel, UpdateModel
    <3>3. ASSUME NEW pid \in ProviderIds, delete_provider(pid) PROVE CatalogIsWhole'
        BY <3>3, DeleteProvider
    <3>4. ASSUME NEW m \in models, NEW pid \in {{}, {m.provider_id}},
                 delete_model(m.model_id, pid)
          PROVE  CatalogIsWhole'
        BY <3>4, DeleteModel
    <3> QED BY <2>4, <3>1, <3>2, <3>3, <3>4 DEF Administer
  <2>5. CASE UNCHANGED catalog_vars
      BY <2>1, <2>5 DEF catalog_vars
  <2> QED BY <2>2, <2>3, <2>4, <2>5 DEF CatalogNext
<1> QED BY <1>1, <1>2, PTL DEF CatalogSpec

-----------------------------------------------------------------------------
(***************************************************************************)
(* Sets in an order.                                                       *)
(***************************************************************************)
\* A set of natural numbers that is not empty has a least one.
LEMMA LeastElement ==
    ASSUME NEW S, S \subseteq Nat, S # {}
    PROVE  \E m \in S : \A n \in S : m <= n
<1> DEFINE R == OpToRel(<, Nat)
<1>1. IsWellFoundedOn(R, Nat)
    BY NatLessThanWellFounded
<1>2. PICK m \in S : \A n \in S : <<n, m>> \notin R
  <2> HIDE DEF R
  <2> QED
      BY <1>1, WFMin
<1>3. ASSUME NEW n \in S PROVE m <= n
  <2>1. <<n, m>> \in Nat \X Nat
      OBVIOUS
  <2>2. ~ (n < m)
      BY <1>2, <2>1 DEF OpToRel
  <2> QED
      BY <2>2
<1> QED
    BY <1>2, <1>3

\* How many of S come before x, in the order R.
Below(x, S, R) == Cardinality({y \in S : <<y, x>> \in R})

\* R orders S: of two, one comes first.
Orders(R, S) ==
    /\ \A x \in S : <<x, x>> \notin R
    /\ \A x, y \in S : x # y => (<<x, y>> \in R \/ <<y, x>> \in R)
    /\ \A x, y, z \in S : (<<x, y>> \in R /\ <<y, z>> \in R) => <<x, z>> \in R

\* In a finite set that is ordered, each place is one element's.
LEMMA Ranked ==
    ASSUME NEW S, IsFiniteSet(S), NEW R, Orders(R, S)
    PROVE  /\ \A x \in S : Below(x, S, R) \in 0 .. (Cardinality(S) - 1)
           /\ \A x, y \in S : Below(x, S, R) = Below(y, S, R) => x = y
           /\ \A i \in 1 .. Cardinality(S) : \E x \in S : Below(x, S, R) = i - 1
<1> DEFINE B(x) == {y \in S : <<y, x>> \in R}
           n == Cardinality(S)
<1>0. n \in Nat
    BY FS_CardinalityType
<1>1. ASSUME NEW x \in S
      PROVE  IsFiniteSet(B(x)) /\ Cardinality(B(x)) \in Nat /\ Cardinality(B(x)) < n
  <2>1. B(x) \in SUBSET S /\ B(x) # S
      BY DEF Orders
  <2>2. IsFiniteSet(B(x)) /\ Cardinality(B(x)) <= n /\ (n = Cardinality(B(x)) => S = B(x))
    <3> HIDE DEF B
    <3> QED
        BY <2>1, FS_Subset
  <2>3. Cardinality(B(x)) \in Nat
    <3> HIDE DEF B
    <3> QED
        BY <2>2, FS_CardinalityType
  <2> HIDE DEF B
  <2> QED
      BY <1>0, <2>1, <2>2, <2>3
<1>2. ASSUME NEW x \in S, NEW y \in S, <<x, y>> \in R
      PROVE  Cardinality(B(x)) < Cardinality(B(y))
  <2>1. B(x) \in SUBSET B(y) /\ x \in B(y) /\ x \notin B(x)
      BY <1>2 DEF Orders
  <2> HIDE DEF B
  <2>2. Cardinality(B(x)) <= Cardinality(B(y))
        /\ (Cardinality(B(y)) = Cardinality(B(x)) => B(y) = B(x))
      BY <1>1, <2>1, FS_Subset
  <2> QED
      BY <1>1, <2>1, <2>2
<1>3. \A x, y \in S : Cardinality(B(x)) = Cardinality(B(y)) => x = y
  <2> HIDE DEF B
  <2> SUFFICES ASSUME NEW x \in S, NEW y \in S, x # y
               PROVE  Cardinality(B(x)) # Cardinality(B(y))
      OBVIOUS
  <2>1. CASE <<x, y>> \in R
      BY <1>1, <1>2, <2>1
  <2>2. CASE <<y, x>> \in R
      BY <1>1, <1>2, <2>2
  <2> QED
      BY <2>1, <2>2 DEF Orders
<1> DEFINE f == [x \in S |-> Cardinality(B(x))]
<1>4. f \in Injection(S, 0 .. (n - 1))
  <2> HIDE DEF B
  <2>1. f \in [S -> 0 .. (n - 1)]
      BY <1>0, <1>1
  <2>2. IsInjective(f)
      BY <1>3 DEF IsInjective
  <2> QED
      BY <2>1, <2>2 DEF Injection
<1>5. IsFiniteSet(0 .. (n - 1)) /\ Cardinality(0 .. (n - 1)) = n
  <2>1. 0 \in Int /\ n - 1 \in Int
      BY <1>0
  <2>2. /\ IsFiniteSet(0 .. (n - 1))
        /\ Cardinality(0 .. (n - 1))
             = IF 0 > n - 1 THEN 0 ELSE (n - 1) - 0 + 1
      BY <2>1, FS_Interval, Zenon
  <2>3. (IF 0 > n - 1 THEN 0 ELSE (n - 1) - 0 + 1) = n
      BY <1>0
  <2> QED
      BY <2>2, <2>3
<1>6. f \in Surjection(S, 0 .. (n - 1))
  <2> HIDE DEF f
  <2> QED
      BY <1>4, <1>5, FS_Injection
<1>7. ASSUME NEW i \in 1 .. n
      PROVE  \E x \in S : Cardinality(B(x)) = i - 1
  <2>1. i - 1 \in 0 .. (n - 1)
      BY <1>0
  <2>2. \A t \in 0 .. (n - 1) : \E x \in S : f[x] = t
    <3> HIDE DEF f
    <3> QED
        BY <1>6 DEF Surjection
  <2>3. PICK x \in S : f[x] = i - 1
      BY <2>1, <2>2
  <2> QED
      BY <2>3
<1>8. \A x : Below(x, S, R) = Cardinality(B(x))
    BY DEF Below
<1> HIDE DEF B
<1> QED
    BY <1>0, <1>1, <1>3, <1>7, <1>8

\* Keys of one length are ordered by the first place they differ at.
LEMMA KeysAreOrdered ==
    ASSUME NEW n \in Nat, NEW k \in [1 .. n -> Int], NEW l \in [1 .. n -> Int]
    PROVE  /\ ~Precedes(k, k)
           /\ k # l => (Precedes(k, l) \/ Precedes(l, k))
           /\ \A m \in [1 .. n -> Int] : (Precedes(k, l) /\ Precedes(l, m)) => Precedes(k, m)
<1>1. ~Precedes(k, k)
    BY DEF Precedes
<1>2. ASSUME k # l
      PROVE  Precedes(k, l) \/ Precedes(l, k)
  <2> DEFINE D == {i \in 1 .. n : k[i] # l[i]}
  <2>1. D \subseteq Nat /\ D # {}
      BY <1>2
  <2>2. PICK i \in D : \A j \in D : i <= j
    <3> HIDE DEF D
    <3> QED
        BY <2>1, LeastElement
  <2>3. \A j \in 1 .. (i - 1) : k[j] = l[j]
    <3> SUFFICES ASSUME NEW j \in 1 .. (i - 1) PROVE k[j] = l[j]
        OBVIOUS
    <3>1. j \in 1 .. n /\ ~(i <= j)
        OBVIOUS
    <3> QED
        BY <2>2, <3>1
  <2>4. k[i] < l[i] \/ l[i] < k[i]
      OBVIOUS
  <2> QED
      BY <2>3, <2>4 DEF Precedes
<1>3. ASSUME NEW m \in [1 .. n -> Int], Precedes(k, l), Precedes(l, m)
      PROVE  Precedes(k, m)
  <2>1. PICK i \in 1 .. n : k[i] < l[i] /\ \A j \in 1 .. (i - 1) : k[j] = l[j]
      BY <1>3 DEF Precedes
  <2>2. PICK h \in 1 .. n : l[h] < m[h] /\ \A j \in 1 .. (h - 1) : l[j] = m[j]
      BY <1>3 DEF Precedes
  <2>3. CASE i <= h
    <3>1. k[i] < m[i]
      <4>1. k[i] \in Int /\ l[i] \in Int /\ m[i] \in Int /\ l[h] \in Int /\ m[h] \in Int
          BY <1>3
      <4>2. CASE i = h
          BY <2>1, <2>2, <4>1, <4>2
      <4>3. CASE i < h
        <5>1. l[i] = m[i]
            BY <2>2, <4>3
        <5> QED
            BY <2>1, <4>1, <5>1
      <4> QED
          BY <2>3, <4>2, <4>3
    <3>2. \A j \in 1 .. (i - 1) : k[j] = m[j]
        BY <2>1, <2>2, <2>3
    <3> QED
        BY <3>1, <3>2 DEF Precedes
  <2>4. CASE h < i
    <3>1. k[h] < m[h]
        BY <2>1, <2>2, <2>4
    <3>2. \A j \in 1 .. (h - 1) : k[j] = m[j]
        BY <2>1, <2>2, <2>4
    <3> QED
        BY <3>1, <3>2 DEF Precedes
  <2> QED
      BY <2>3, <2>4
<1> QED
    BY <1>1, <1>2, <1>3

\* Sorting loses and adds no candidate, where keys tell them apart.
LEMMA SortingKeepsAll ==
    ASSUME NEW S, IsFiniteSet(S), NEW n \in Nat, NEW key \in [S -> [1 .. n -> Int]],
           \A x, y \in S : key[x] = key[y] => x = y
    PROVE  /\ DOMAIN _sort_candidates(S, key) = 1 .. Cardinality(S)
           /\ ToSet(_sort_candidates(S, key)) = S
<1> DEFINE R == {p \in S \X S : Precedes(key[p[1]], key[p[2]])}
           sorted == _sort_candidates(S, key)
<1>1. Orders(R, S)
  <2>1. \A x, y \in S : <<x, y>> \in R <=> Precedes(key[x], key[y])
      OBVIOUS
  <2>2. \A x \in S : key[x] \in [1 .. n -> Int]
      OBVIOUS
  <2> HIDE DEF R
  <2>3. \A x \in S : <<x, x>> \notin R
      BY <2>1, <2>2, KeysAreOrdered
  <2>4. \A x, y \in S : x # y => (<<x, y>> \in R \/ <<y, x>> \in R)
      BY <2>1, <2>2, KeysAreOrdered
  <2>5. \A x, y, z \in S : (<<x, y>> \in R /\ <<y, z>> \in R) => <<x, z>> \in R
      BY <2>1, <2>2, KeysAreOrdered
  <2> QED
      BY <2>3, <2>4, <2>5 DEF Orders
<1>2. \A m \in S : Cardinality({x \in S : Precedes(key[x], key[m])}) = Below(m, S, R)
  <2> SUFFICES ASSUME NEW m \in S
               PROVE  {x \in S : Precedes(key[x], key[m])} = {y \in S : <<y, m>> \in R}
      BY DEF Below
  <2> QED
      OBVIOUS
<1> HIDE DEF R
<1>3. /\ \A x \in S : Below(x, S, R) \in 0 .. (Cardinality(S) - 1)
      /\ \A x, y \in S : Below(x, S, R) = Below(y, S, R) => x = y
      /\ \A i \in 1 .. Cardinality(S) : \E x \in S : Below(x, S, R) = i - 1
    BY <1>1, Ranked
<1>4. DOMAIN sorted = 1 .. Cardinality(S)
    BY DEF _sort_candidates
<1>5. ASSUME NEW i \in 1 .. Cardinality(S)
      PROVE  sorted[i] \in S /\ Below(sorted[i], S, R) = i - 1
  <2>1. sorted[i] = CHOOSE m \in S : Cardinality({x \in S : Precedes(key[x], key[m])}) = i - 1
      BY DEF _sort_candidates
  <2>2. \E m \in S : Cardinality({x \in S : Precedes(key[x], key[m])}) = i - 1
      BY <1>2, <1>3
  <2>3. /\ sorted[i] \in S
        /\ Cardinality({x \in S : Precedes(key[x], key[sorted[i]])}) = i - 1
    <3> HIDE DEF sorted
    <3> QED
        BY <2>1, <2>2
  <2> HIDE DEF sorted
  <2> QED
      BY <1>2, <2>3
<1> HIDE DEF sorted
<1>6. ASSUME NEW x \in S
      PROVE  x \in ToSet(sorted)
  <2>1. Below(x, S, R) + 1 \in 1 .. Cardinality(S)
      BY <1>3, FS_CardinalityType
  <2>2. Below(sorted[Below(x, S, R) + 1], S, R) = Below(x, S, R)
      BY <1>3, <1>5, <2>1
  <2>3. sorted[Below(x, S, R) + 1] = x
      BY <1>3, <1>5, <2>1, <2>2
  <2> QED
      BY <1>4, <2>1, <2>3 DEF ToSet
<1>7. ToSet(sorted) \subseteq S
    BY <1>4, <1>5 DEF ToSet
<1> QED
    BY <1>4, <1>6, <1>7 DEF sorted

\* The texts of a list of names.
Texts(names) == {n.text : n \in ToSet(names)}

\* A cleaned list is a list of names, and has the texts that are not empty.
LEMMA Cleaned ==
    ASSUME NEW names \in Seq(AnyName)
    PROVE  /\ _clean_str_list(names) \in Seq(AnyName)
           /\ Texts(_clean_str_list(names)) = Texts(names) \ {""}
<1> DEFINE kept == {i \in DOMAIN names : /\ names[i].text # ""
                                         /\ \A j \in 1..(i - 1) : names[j].text # names[i].text}
           R == {p \in kept \X kept : p[1] < p[2]}
           at(k) == CHOOSE i \in kept : Cardinality({j \in kept : j < i}) = k - 1
           clean == _clean_str_list(names)
<1>0. /\ Len(names) \in Nat /\ DOMAIN names = 1 .. Len(names)
      /\ \A i \in 1 .. Len(names) : names[i] \in AnyName
    OBVIOUS
<1>1. /\ kept \subseteq 1 .. Len(names) /\ Len(names) \in Nat /\ DOMAIN names = 1 .. Len(names)
      /\ \A i \in 1 .. Len(names) : names[i] \in AnyName
    BY <1>0
<1>2. clean = [k \in 1 .. Cardinality(kept) |-> trim(names[at(k)])]
    BY DEF _clean_str_list
<1>3. \A i \in kept : names[i].text # ""
    OBVIOUS
<1>4. ASSUME NEW i \in 1 .. Len(names), names[i].text # ""
      PROVE  \E h \in kept : names[h].text = names[i].text
  <2> DEFINE D == {j \in 1 .. Len(names) : names[j].text = names[i].text}
  <2>1. D \subseteq Nat /\ D # {}
    <3>1. i \in D
        OBVIOUS
    <3>2. D \subseteq 1 .. Len(names)
        OBVIOUS
    <3> HIDE DEF D
    <3> QED
        BY <1>0, <3>1, <3>2
  <2>2. PICK h \in D : \A j \in D : h <= j
    <3> HIDE DEF D
    <3> QED
        BY <2>1, LeastElement
  <2>3. \A j \in 1 .. (h - 1) : names[j].text # names[h].text
    <3> SUFFICES ASSUME NEW j \in 1 .. (h - 1), names[j].text = names[h].text PROVE FALSE
        OBVIOUS
    <3>1. h \in 1 .. Len(names) /\ names[h].text = names[i].text
        OBVIOUS
    <3>2. j \in 1 .. Len(names) /\ ~(h <= j)
      <4> HIDE DEF D, kept
      <4> QED
          BY <1>0, <3>1
    <3>3. j \in D
        BY <3>1, <3>2
    <3> HIDE DEF D
    <3> QED
        BY <2>2, <3>2, <3>3
  <2>4. h \in kept
      BY <1>1, <1>4, <2>3
  <2> QED
      BY <2>4
<1> HIDE DEF kept
<1>5. IsFiniteSet(kept) /\ Cardinality(kept) \in Nat
  <2>1. IsFiniteSet(1 .. Len(names))
      BY <1>1, FS_Interval
  <2>2. IsFiniteSet(kept)
      BY <1>1, <2>1, FS_Subset
  <2> QED
      BY <2>2, FS_CardinalityType
<1>6. Orders(R, kept)
    BY <1>1 DEF Orders
<1>7. \A i \in kept : Cardinality({j \in kept : j < i}) = Below(i, kept, R)
  <2> SUFFICES ASSUME NEW i \in kept PROVE {j \in kept : j < i} = {y \in kept : <<y, i>> \in R}
      BY DEF Below
  <2> QED
      OBVIOUS
<1> HIDE DEF R
<1>8. /\ \A i \in kept : Below(i, kept, R) \in 0 .. (Cardinality(kept) - 1)
      /\ \A i, j \in kept : Below(i, kept, R) = Below(j, kept, R) => i = j
      /\ \A k \in 1 .. Cardinality(kept) : \E i \in kept : Below(i, kept, R) = k - 1
    BY <1>5, <1>6, Ranked
<1>9. ASSUME NEW k \in 1 .. Cardinality(kept)
      PROVE  at(k) \in kept /\ Below(at(k), kept, R) = k - 1
  <2>1. \E i \in kept : Cardinality({j \in kept : j < i}) = k - 1
      BY <1>7, <1>8
  <2>2. at(k) \in kept /\ Cardinality({j \in kept : j < at(k)}) = k - 1
      BY <2>1
  <2> HIDE DEF at
  <2> QED
      BY <1>7, <2>2
<1>10. ASSUME NEW i \in kept
       PROVE  \E k \in 1 .. Cardinality(kept) : at(k) = i
  <2> DEFINE k == Below(i, kept, R) + 1
  <2>1. k \in 1 .. Cardinality(kept) /\ k - 1 = Below(i, kept, R)
      BY <1>5, <1>8
  <2> HIDE DEF k, at
  <2>2. at(k) \in kept /\ Below(at(k), kept, R) = Below(i, kept, R)
      BY <1>9, <2>1
  <2>3. at(k) = i
      BY <1>8, <2>2
  <2> QED
      BY <2>1, <2>3
<1> HIDE DEF at, clean
<1>11. \A i \in 1 .. Len(names) : trim(names[i]) \in AnyName /\ trim(names[i]).text = names[i].text
    BY <1>1 DEF trim, Name, AnyName
<1>12. clean \in Seq(AnyName) /\ DOMAIN clean = 1 .. Cardinality(kept)
  <2>1. \A k \in 1 .. Cardinality(kept) : clean[k] \in AnyName
      BY <1>1, <1>2, <1>9, <1>11
  <2>2. DOMAIN clean = 1 .. Cardinality(kept)
      BY <1>2
  <2>3. clean \in [1 .. Cardinality(kept) -> AnyName]
      BY <1>2, <2>1, <2>2
  <2> QED
      BY <1>5, <2>2, <2>3
<1>13. Texts(clean) \subseteq Texts(names) \ {""}
  <2> SUFFICES ASSUME NEW k \in 1 .. Cardinality(kept)
               PROVE  clean[k].text \in Texts(names) \ {""}
      BY <1>12 DEF Texts, ToSet
  <2>1. clean[k].text = names[at(k)].text /\ at(k) \in kept
      BY <1>1, <1>2, <1>9, <1>11
  <2> QED
      BY <1>1, <1>3, <2>1 DEF Texts, ToSet
<1>14. ASSUME NEW i \in 1 .. Len(names), names[i].text # ""
       PROVE  names[i].text \in Texts(clean)
  <2>1. PICK h \in kept : names[h].text = names[i].text
      BY <1>4, <1>14
  <2>2. PICK k \in 1 .. Cardinality(kept) : at(k) = h
      BY <1>10
  <2>3. clean[k].text = names[i].text
      BY <1>1, <1>2, <1>11, <2>1, <2>2
  <2> QED
      BY <1>12, <2>3 DEF Texts, ToSet
<1>15. Texts(names) \ {""} \subseteq Texts(clean)
    BY <1>1, <1>14 DEF Texts, ToSet
<1> QED
    BY <1>12, <1>13, <1>15 DEF clean

-----------------------------------------------------------------------------
(***************************************************************************)
(* The models that are listed.                                             *)
(***************************************************************************)
IsModel(m) ==
    /\ {m.provider_id, m.model_id} \subseteq ToSet(Alphabet)
    /\ m.context_window \in Int /\ m.context_window > 0
    /\ m.supports \subseteq Flags /\ IsFiniteSet(m.declared)

AreModels(set) ==
    /\ IsFiniteSet(set)
    /\ \A m \in set : IsModel(m)
    /\ \A m, n \in set : Key(m) = Key(n) => m = n

\* A submitted model, once normalised, is a model.
LEMMA NormalisedIs ==
    ASSUME NEW m \in SubmittedModels \cup ToSet(DefaultModels), validate_model_record(m)
    PROVE  IsModel(normalize_model_record(m))
<1> DEFINE q == normalize_model_record(m)
           kept == {n \in m.declared : n.text # ""}
           f == [n \in kept |-> lower(n.text)]
<1>1. /\ {m.provider_id.text, m.model_id.text} \subseteq ToSet(Alphabet)
      /\ m.context_window \in Int /\ m.supports \subseteq Flags /\ IsFiniteSet(m.declared)
    BY ModelsAssumption
<1>2. m.context_window > 0
    BY DEF validate_model_record
<1>3. IsFiniteSet(_clean_list(m.declared))
  <2>1. IsFiniteSet(kept)
    <3>1. kept \in SUBSET m.declared
        OBVIOUS
    <3> HIDE DEF kept
    <3> QED
        BY <1>1, <3>1, FS_Subset
  <2>2. _clean_list(m.declared) = {f[n] : n \in kept}
      BY DEF _clean_list
  <2>3. f \in Surjection(kept, {f[n] : n \in kept})
    <3> HIDE DEF kept
    <3> QED
        BY DEF Surjection
  <2> HIDE DEF f, kept
  <2> QED
      BY <2>1, <2>2, <2>3, FS_Surjection
<1>4. /\ q.provider_id = m.provider_id.text /\ q.model_id = m.model_id.text
      /\ q.context_window = m.context_window /\ q.supports = m.supports
      /\ q.declared = _clean_list(m.declared)
    BY DEF normalize_model_record
<1> HIDE DEF q
<1> QED
    BY <1>1, <1>2, <1>3, <1>4 DEF IsModel, q

\* The place of a seed.
LEMMA SeedsAre ==
    /\ Len(Seeds) = 8 /\ Len(DefaultProviders) = 4
    /\ \A i \in 1 .. 8 : ~IsProvider(i) => Seeds[i] \in ToSet(DefaultModels)
<1>1. PICK a, b, c, d : DefaultModels = <<a, b, c, d>>
    BY DEF DefaultModels
<1>2. PICK p, q, r, s : DefaultProviders = <<p, q, r, s>>
    BY DEF DefaultProviders
<1>3. /\ ToSet(DefaultModels) = {a, b, c, d} /\ Len(DefaultModels) = 4
      /\ Len(DefaultProviders) = 4
  <2>1. DOMAIN DefaultModels = 1 .. 4 /\ Len(DefaultModels) = 4 /\ Len(DefaultProviders) = 4
      BY <1>1, <1>2
  <2>2. ToSet(DefaultModels) \subseteq {a, b, c, d}
      BY <1>1, <2>1 DEF ToSet
  <2>3. a \in ToSet(DefaultModels) /\ b \in ToSet(DefaultModels)
        /\ c \in ToSet(DefaultModels) /\ d \in ToSet(DefaultModels)
      BY <1>1, <2>1 DEF ToSet
  <2> QED
      BY <2>1, <2>2, <2>3
<1>4. Seeds = <<p, q, r, s>> \o <<a, b, c, d>>
    BY <1>1, <1>2 DEF Seeds
<1> DEFINE S == {a, b, c, d, p, q, r, s}
<1>5. <<p, q, r, s>> \in Seq(S) /\ <<a, b, c, d>> \in Seq(S)
    OBVIOUS
<1>6. /\ Len(Seeds) = 8
      /\ \A i \in 1 .. 8 : i > 4 => Seeds[i] = <<a, b, c, d>>[i - 4]
  <2> HIDE DEF S
  <2>1. Len(<<p, q, r, s>>) = 4 /\ Len(<<a, b, c, d>>) = 4
      OBVIOUS
  <2> QED
      BY <1>4, <1>5, <2>1, ConcatProperties
<1>7. \A i \in 1 .. 4 : <<a, b, c, d>>[i] \in {a, b, c, d}
    OBVIOUS
<1>8. ASSUME NEW i \in 1 .. 8, ~IsProvider(i)
      PROVE  Seeds[i] \in ToSet(DefaultModels)
  <2>1. i > 4 /\ i - 4 \in 1 .. 4
      BY <1>3, <1>8 DEF IsProvider
  <2> QED
      BY <1>3, <1>6, <1>7, <2>1
<1> QED
    BY <1>3, <1>6, <1>8

\* What the catalog lists are models; a seed that was missing is one.
ListsModels ==
    /\ AreModels(models)
    /\ seeding \in [at : Nat \ {0}, missing : BOOLEAN]
    /\ seeding.missing => seeding.at <= Len(Seeds)

\* Fewer models are models.
LEMMA FewerModels ==
    ASSUME NEW S, AreModels(S), NEW T, T \subseteq S
    PROVE  AreModels(T)
<1>1. IsFiniteSet(T)
    BY FS_Subset DEF AreModels
<1> QED
    BY <1>1 DEF AreModels

\* A model that is added has a key of its own.
LEMMA OneMoreModel ==
    ASSUME NEW S, AreModels(S), NEW q, IsModel(q), \A m \in S : Key(m) # Key(q)
    PROVE  AreModels(S \cup {q})
<1>1. IsFiniteSet(S \cup {q})
    BY FS_AddElement DEF AreModels
<1>2. \A m \in S \cup {q} : IsModel(m)
    BY DEF AreModels
<1>3. \A m, n \in S \cup {q} : Key(m) = Key(n) => m = n
    BY DEF AreModels
<1> QED
    BY <1>1, <1>2, <1>3 DEF AreModels

\* A model that is registered or replaced leaves models (register_model,
\* update_model): its key was new, or the record that had it goes.
LEMMA ModelArrives ==
    ASSUME AreModels(models), NEW m \in SubmittedModels \cup ToSet(DefaultModels),
           register_model(m) \/ update_model(m)
    PROVE  AreModels(models)'
<1> DEFINE q == normalize_model_record(m)
<1>1. IsModel(q)
    BY NormalisedIs DEF register_model, update_model
<1>2. CASE register_model(m)
  <2>1. models' = models \cup {q} /\ Key(q) \notin ModelKeys
      BY <1>2 DEF register_model
  <2>2. \A n \in models : Key(n) # Key(q)
      BY <2>1 DEF ModelKeys
  <2> HIDE DEF q
  <2>3. AreModels(models \cup {q})
      BY <1>1, <2>2, OneMoreModel
  <2> QED
      BY <2>1, <2>3 DEF AreModels, IsModel, Key
<1>3. CASE update_model(m)
  <2> DEFINE rest == {x \in models : Key(x) # Key(q)}
  <2>1. models' = rest \cup {q}
      BY <1>3 DEF update_model
  <2>2. rest \subseteq models /\ \A n \in rest : Key(n) # Key(q)
      OBVIOUS
  <2> HIDE DEF q, rest
  <2>3. AreModels(rest)
      BY <2>2, FewerModels
  <2>4. AreModels(rest \cup {q})
      BY <1>1, <2>2, <2>3, OneMoreModel
  <2> QED
      BY <2>1, <2>4 DEF AreModels, IsModel, Key
<1> QED
    BY <1>2, <1>3

\* So does a deletion.
LEMMA ModelsLeave ==
    ASSUME AreModels(models), models' \subseteq models
    PROVE  AreModels(models)'
<1>1. AreModels(models')
    BY FewerModels
<1> QED
    BY <1>1 DEF AreModels, IsModel, Key

\* Every step of the catalog does.
LEMMA CatalogListsModels ==
    /\ CatalogInit => ListsModels
    /\ ListsModels /\ [CatalogNext]_catalog_vars => ListsModels'
<1>1. CatalogInit => ListsModels
  <2> SUFFICES ASSUME CatalogInit PROVE ListsModels
      OBVIOUS
  <2>1. models = {} /\ seeding = [at |-> 1, missing |-> FALSE]
      BY DEF CatalogInit
  <2>2. AreModels(models)
      BY <2>1, FS_EmptySet DEF AreModels
  <2> QED
      BY <2>1, <2>2 DEF ListsModels
<1>2. ASSUME ListsModels, [CatalogNext]_catalog_vars
      PROVE  ListsModels'
  <2>0. Len(Seeds) = 8 /\ Len(Seeds)' = 8
      BY SeedsAre
  <2>1. /\ AreModels(models) /\ seeding \in [at : Nat \ {0}, missing : BOOLEAN]
        /\ seeding.missing => seeding.at <= 8
      BY <1>2, <2>0 DEF ListsModels
  <2>2. ASSUME models' \subseteq models, seeding' = seeding
        PROVE  ListsModels'
      BY <1>2, <2>1, <2>2, ModelsLeave DEF ListsModels
  <2>3. CASE SeedLooks
    <3>1. models' = models
        BY <2>3 DEF SeedLooks
    <3>2. AreModels(models)'
        BY <2>1, <3>1, ModelsLeave
    <3>3. seeding.at <= 8 /\ ~seeding.missing
        BY <2>0, <2>3 DEF SeedLooks
    <3>4. \/ seeding' = [seeding EXCEPT !.at = @ + 1]
          \/ seeding' = [seeding EXCEPT !.missing = TRUE]
        BY <2>3 DEF SeedLooks
    <3>5. /\ seeding' \in [at : Nat \ {0}, missing : BOOLEAN]
          /\ seeding'.missing => seeding'.at <= 8
      <4>1. CASE seeding' = [seeding EXCEPT !.at = @ + 1]
        <5>1. seeding.at + 1 \in Nat \ {0}
            BY <2>1
        <5> QED
            BY <2>1, <3>3, <4>1, <5>1
      <4>2. CASE seeding' = [seeding EXCEPT !.missing = TRUE]
          BY <2>1, <3>3, <4>2
      <4> QED
          BY <3>4, <4>1, <4>2
    <3> QED
        BY <2>0, <3>2, <3>5 DEF ListsModels
  <2>4. CASE SeedRegisters
    <3>1. seeding.missing /\ seeding.at \in 1 .. 8
        BY <2>1, <2>4 DEF SeedRegisters
    <3>2. ~seeding'.missing /\ seeding' \in [at : Nat \ {0}, missing : BOOLEAN]
      <4>1. seeding.at + 1 \in Nat \ {0} /\ Len(Seeds) + 1 \in Nat \ {0}
          BY <2>0, <2>1
      <4>2. \/ seeding' = [at |-> seeding.at + 1, missing |-> FALSE]
            \/ seeding' = [at |-> Len(Seeds) + 1, missing |-> FALSE]
          BY <2>4 DEF SeedRegisters
      <4>3. PICK n \in Nat \ {0} : seeding' = [at |-> n, missing |-> FALSE]
          BY <4>1, <4>2
      <4> QED
          BY <4>3
    <3>3. CASE models' = models
        BY <2>1, <3>2, <3>3, ModelsLeave DEF ListsModels
    <3>4. CASE IF IsProvider(seeding.at) THEN register_provider(Seeds[seeding.at])
               ELSE register_model(Seeds[seeding.at])
      <4>1. CASE IsProvider(seeding.at)
        <5>1. models' = models
            BY <3>4, <4>1 DEF register_provider
        <5> QED
            BY <3>3, <5>1
      <4>2. CASE ~IsProvider(seeding.at)
        <5>1. Seeds[seeding.at] \in ToSet(DefaultModels) /\ register_model(Seeds[seeding.at])
            BY <3>1, <3>4, <4>2, SeedsAre
        <5>2. AreModels(models)'
            BY <2>1, <5>1, ModelArrives
        <5> QED
            BY <3>2, <5>2 DEF ListsModels
      <4> QED
          BY <4>1, <4>2
    <3> QED
        BY <2>4, <3>3, <3>4 DEF SeedRegisters
  <2>5. CASE Administer
    <3>0. seeding' = seeding
        BY <2>5 DEF Administer
    <3>1. ASSUME NEW p \in SubmittedProviders, register_provider(p) \/ update_provider(p)
          PROVE  ListsModels'
        BY <2>2, <3>0, <3>1 DEF register_provider, update_provider
    <3>2. ASSUME NEW m \in SubmittedModels, register_model(m) \/ update_model(m)
          PROVE  ListsModels'
      <4>1. AreModels(models)'
          BY <2>1, <3>2, ModelArrives
      <4> QED
          BY <1>2, <3>0, <4>1 DEF ListsModels
    <3>3. ASSUME NEW pid \in ProviderIds, delete_provider(pid) PROVE ListsModels'
        BY <2>2, <3>0, <3>3 DEF delete_provider
    <3>4. ASSUME NEW m \in models, NEW pid \in {{}, {m.provider_id}},
                 delete_model(m.model_id, pid)
          PROVE  ListsModels'
        BY <2>2, <3>0, <3>4 DEF delete_model
    <3> QED
        BY <2>5, <3>1, <3>2, <3>3, <3>4 DEF Administer
  <2>6. CASE UNCHANGED catalog_vars
      BY <2>2, <2>6 DEF catalog_vars
  <2> QED
      BY <1>2, <2>3, <2>4, <2>5, <2>6 DEF CatalogNext
<1> QED
    BY <1>1, <1>2

-----------------------------------------------------------------------------
(***************************************************************************)
(* The context, the sort keys and the router.                              *)
(***************************************************************************)
\* What the later steps read of a context is what was asked.
Carries(c, a) ==
    /\ c.requested_capabilities = Words(a) /\ c.supports = a.request.supports
    /\ c.min_context_tokens = a.request.min_context_tokens
    /\ c.tool_count = a.request.tool_count
    /\ c.preferred_providers \in Seq(AnyName) /\ c.preferred_models \in Seq(AnyName)
    /\ Texts(c.excluded_providers) = Texts(a.request.excluded_providers) \ {""}
    /\ Texts(c.excluded_models) = Texts(a.request.excluded_models) \ {""}

\* Normalisation changes the names, and leaves the demands alone, of a context
\* made of the request as of one a caller filled in.
LEMMA ContextCarries ==
    ASSUME NEW a, IsRequest(a.request), NEW e, NEW c \in Built(a, e)
    PROVE  Carries(c, a)
<1> DEFINE request == a.request
           r == from_execution_request(request, e, {})
           s == set_constraints(r, a.words, a.routing_strategy)
           d == IF OfRequest(a) THEN r ELSE s
<1>1. c = normalize_execution_context(d)
  <2>1. Built(a, e) = build(d)
      BY DEF Built, create_execution_context
  <2> HIDE DEF d
  <2> QED
      BY <2>1 DEF build
<1>2. /\ r.requested_capabilities = request.supports
      /\ r.supports = request.supports
      /\ r.min_context_tokens = request.min_context_tokens
      /\ r.tool_count = request.tool_count
      /\ r.preferred_providers = request.preferred_providers
      /\ r.preferred_models = request.preferred_models
      /\ r.excluded_providers = request.excluded_providers
      /\ r.excluded_models = request.excluded_models
      /\ {"requested_capabilities", "supports", "min_context_tokens", "tool_count",
          "preferred_providers", "preferred_models", "excluded_providers", "excluded_models"}
             \subseteq DOMAIN r
    BY DEF from_execution_request
<1> HIDE DEF r
<1>3. /\ s.requested_capabilities = r.requested_capabilities \cup a.words
      /\ s.supports = r.supports
      /\ s.min_context_tokens = r.min_context_tokens
      /\ s.tool_count = r.tool_count
      /\ s.preferred_providers = r.preferred_providers
      /\ s.preferred_models = r.preferred_models
      /\ s.excluded_providers = r.excluded_providers
      /\ s.excluded_models = r.excluded_models
      /\ DOMAIN s = DOMAIN r
    BY <1>2 DEF set_constraints
<1> HIDE DEF s
<1>4. /\ d.requested_capabilities = Words(a)
      /\ d.supports = request.supports
      /\ d.min_context_tokens = request.min_context_tokens
      /\ d.tool_count = request.tool_count
      /\ d.preferred_providers = request.preferred_providers
      /\ d.preferred_models = request.preferred_models
      /\ d.excluded_providers = request.excluded_providers
      /\ d.excluded_models = request.excluded_models
      /\ DOMAIN d = DOMAIN r
  <2>1. CASE OfRequest(a)
      BY <1>2, <2>1 DEF OfRequest, Words
  <2>2. CASE ~OfRequest(a)
      BY <1>2, <1>3, <2>2 DEF Words
  <2> QED
      BY <2>1, <2>2
<1> HIDE DEF d
<1>5. /\ c.requested_capabilities = d.requested_capabilities
      /\ c.supports = d.supports
      /\ c.min_context_tokens = d.min_context_tokens
      /\ c.tool_count = d.tool_count
      /\ c.preferred_providers = _clean_str_list(d.preferred_providers)
      /\ c.preferred_models = _clean_str_list(d.preferred_models)
      /\ c.excluded_providers = _clean_str_list(d.excluded_providers)
      /\ c.excluded_models = _clean_str_list(d.excluded_models)
    BY <1>1, <1>2, <1>4 DEF normalize_execution_context
<1>6. /\ request.preferred_providers \in Seq(AnyName) /\ request.preferred_models \in Seq(AnyName)
      /\ request.excluded_providers \in Seq(AnyName) /\ request.excluded_models \in Seq(AnyName)
    BY DEF IsRequest
<1> QED
    BY <1>4, <1>5, <1>6, Cleaned DEF Carries

\* The length of a strategy's key.
KeyLength(strategy) ==
    IF strategy \in {"preference", "low_latency", "cost_efficient"} THEN 4 ELSE 5

\* The place of a name in a list is a number.
LEMMA PreferenceIsInt ==
    ASSUME NEW names \in Seq(AnyName), NEW id
    PROVE  Preference(id, names) \in Int
<1> DEFINE I == {i \in 1 .. Len(names) : lower(names[i].text) = lower(id)}
           found == IF I # {} THEN Min(I) ELSE 0
<1>1. I \subseteq Nat /\ I \subseteq Int
    OBVIOUS
<1>2. Preference(id, names) = IF found = 0 THEN Unranked ELSE found - 1
    BY DEF Preference, SelectInSeq
<1>3. found \in Int
  <2> HIDE DEF I
  <2>1. CASE I # {}
    <3>1. \E x \in I : \A y \in I : x <= y
        BY <1>1, <2>1, LeastElement
    <3>2. Min(I) \in I
        BY <3>1 DEF Min
    <3> QED
        BY <1>1, <2>1, <3>2
  <2>2. CASE I = {}
      BY <2>2
  <2> QED
      BY <2>1, <2>2
<1> HIDE DEF found
<1> QED
    BY <1>2, <1>3 DEF Unranked

\* A strategy's keys are numbers, as many for each model.
LEMMA SortKeyIs ==
    ASSUME NEW m, IsModel(m), NEW c, NEW strategy, NEW complex,
           c.preferred_providers \in Seq(AnyName), c.preferred_models \in Seq(AnyName)
    PROVE  SortKey(m, c, strategy, complex) \in [1 .. KeyLength(strategy) -> Int]
<1> DEFINE choice == Preference(m.model_id, c.preferred_models)
           owner == Preference(m.provider_id, c.preferred_providers)
           window == m.context_window
           skills == Cardinality(m.declared)
           zero(holds) == IF holds THEN 0 ELSE 1
           says(keywords) == keywords \cap m.declared # {}
           fits == complex /\ says({"reasoning", "coder", "coding"})
           key == SortKey(m, c, strategy, complex)
<1>1. choice \in Int /\ owner \in Int
    BY PreferenceIsInt
<1>2. window \in Int /\ -window \in Int
    BY DEF IsModel
<1>3. skills \in Int /\ -skills \in Int
    BY FS_CardinalityType DEF IsModel
<1>4. zero(fits) \in Int /\ zero(says({"streaming", "sse"})) \in Int
      /\ zero(choice # Unranked \/ owner # Unranked) \in Int
    OBVIOUS
<1>5. CASE strategy = "preference"
  <2>1. key = <<choice, owner, -window, -skills>>
      BY <1>5 DEF SortKey
  <2> HIDE DEF choice, owner, window, skills, zero, says, fits, key
  <2>2. key \in [1 .. 4 -> Int]
      BY <1>1, <1>2, <1>3, <2>1
  <2> QED
      BY <1>5, <2>2 DEF KeyLength, key
<1>6. CASE strategy = "workload_fit"
  <2>1. key = <<zero(fits), choice, owner, -window, -skills>>
      BY <1>6 DEF SortKey
  <2> HIDE DEF choice, owner, window, skills, zero, says, fits, key
  <2>2. key \in [1 .. 5 -> Int]
      BY <1>1, <1>2, <1>3, <1>4, <2>1
  <2> QED
      BY <1>6, <2>2 DEF KeyLength, key
<1>7. CASE strategy = "low_latency"
  <2>1. key = <<zero(says({"streaming", "sse"})), choice, owner, window>>
      BY <1>7 DEF SortKey
  <2> HIDE DEF choice, owner, window, skills, zero, says, fits, key
  <2>2. key \in [1 .. 4 -> Int]
      BY <1>1, <1>2, <1>3, <1>4, <2>1
  <2> QED
      BY <1>7, <2>2 DEF KeyLength, key
<1>8. CASE strategy = "cost_efficient"
  <2>1. key = <<choice, owner, -skills, window>>
      BY <1>8 DEF SortKey
  <2> HIDE DEF choice, owner, window, skills, zero, says, fits, key
  <2>2. key \in [1 .. 4 -> Int]
      BY <1>1, <1>2, <1>3, <2>1
  <2> QED
      BY <1>8, <2>2 DEF KeyLength, key
<1>9. CASE strategy \notin {"preference", "workload_fit", "low_latency", "cost_efficient"}
  <2>1. key = <<zero(choice # Unranked \/ owner # Unranked), choice, owner, -skills, -window>>
      BY <1>9 DEF SortKey
  <2> HIDE DEF choice, owner, window, skills, zero, says, fits, key
  <2>2. key \in [1 .. 5 -> Int]
      BY <1>1, <1>2, <1>3, <1>4, <2>1
  <2> QED
      BY <1>9, <2>2 DEF KeyLength, key
<1> QED
    BY <1>5, <1>6, <1>7, <1>8, <1>9

\* An id of the alphabet has a place of its own.
LEMMA RankIs ==
    ASSUME NEW x \in ToSet(Alphabet)
    PROVE  Rank(x) \in DOMAIN Alphabet /\ Alphabet[Rank(x)] = x /\ Rank(x) \in Int
<1>1. DOMAIN Alphabet \subseteq Int
    BY ModelsAssumption
<1>2. \E i \in DOMAIN Alphabet : Alphabet[i] = x
    BY DEF ToSet
<1>3. Rank(x) \in DOMAIN Alphabet /\ Alphabet[Rank(x)] = x
    BY <1>2 DEF Rank
<1> QED
    BY <1>1, <1>3

\* Routing keeps every candidate and adds none.
LEMMA RouteKeepsAll ==
    ASSUME NEW S, AreModels(S), S # {}, NEW c, NEW classification, NEW strategy,
           c.preferred_providers \in Seq(AnyName), c.preferred_models \in Seq(AnyName),
           NEW d \in route(c, S, classification, strategy)
    PROVE  ToSet(d) = S
<1> DEFINE active == _determine_strategy(c, strategy)
           base(m) == SortKey(m, c, active, classification # {})
           full(m) == base(m) \o <<Rank(m.provider_id), Rank(m.model_id)>>
           key == [model \in S |-> full(model)]
           n == KeyLength(active)
<1>1. d = _sort_candidates(S, key)
    BY DEF route
<1>2. n \in Nat
    BY DEF KeyLength
<1>3. ASSUME NEW m \in S
      PROVE  /\ full(m) \in [1 .. n + 2 -> Int]
             /\ full(m)[n + 1] = Rank(m.provider_id) /\ full(m)[n + 2] = Rank(m.model_id)
  <2>1. base(m) \in [1 .. n -> Int]
      BY SortKeyIs DEF AreModels
  <2>2. Rank(m.provider_id) \in Int /\ Rank(m.model_id) \in Int
      BY RankIs DEF AreModels, IsModel
  <2> DEFINE b == base(m)
             p == Rank(m.provider_id)
             q == Rank(m.model_id)
             two == <<p, q>>
  <2> HIDE DEF b, p, q, base, n
  <2>3. b \in Seq(Int) /\ Len(b) = n /\ two \in Seq(Int) /\ Len(two) = 2
        /\ two[1] = p /\ two[2] = q
      BY <1>2, <2>1, <2>2 DEF b, p, q
  <2> HIDE DEF two
  <2>4. /\ b \o two \in Seq(Int) /\ Len(b \o two) = n + 2
        /\ \A i \in 1 .. n + 2 : (b \o two)[i] = IF i <= n THEN b[i] ELSE two[i - n]
    <3>1. /\ b \o two \in Seq(Int) /\ Len(b \o two) = Len(b) + Len(two)
          /\ \A i \in 1 .. Len(b) + Len(two) :
                (b \o two)[i] = IF i <= Len(b) THEN b[i] ELSE two[i - Len(b)]
        BY <2>3, ConcatProperties
    <3> QED
        BY <2>3, <3>1
  <2>5. b \o two \in [1 .. n + 2 -> Int]
    <3> DEFINE bt == b \o two
    <3> HIDE DEF bt
    <3>1. bt \in Seq(Int) /\ Len(bt) = n + 2
        BY <2>4 DEF bt
    <3>2. bt \in [1 .. Len(bt) -> Int]
        BY <3>1, LenProperties
    <3> QED
        BY <3>1, <3>2 DEF bt
  <2>6. (b \o two)[n + 1] = p /\ (b \o two)[n + 2] = q
    <3>1. /\ n + 1 \in 1 .. n + 2 /\ n + 2 \in 1 .. n + 2 /\ ~(n + 1 <= n) /\ ~(n + 2 <= n)
          /\ (n + 1) - n = 1 /\ (n + 2) - n = 2
        BY <1>2
    <3> QED
        BY <2>3, <2>4, <3>1
  <2> QED
      BY <2>5, <2>6 DEF b, p, q, two
<1> HIDE DEF full, n
<1>4. key \in [S -> [1 .. n + 2 -> Int]]
    BY <1>3
<1>5. ASSUME NEW x \in S, NEW y \in S, key[x] = key[y]
      PROVE  x = y
  <2>1. Rank(x.provider_id) = Rank(y.provider_id) /\ Rank(x.model_id) = Rank(y.model_id)
    <3>1. full(x) = full(y)
        BY <1>5
    <3> QED
        BY <1>3, <3>1
  <2>2. x.provider_id = y.provider_id /\ x.model_id = y.model_id
      BY <2>1, RankIs DEF AreModels, IsModel
  <2> QED
      BY <2>2 DEF AreModels, Key
<1>6. IsFiniteSet(S) /\ n + 2 \in Nat
    BY <1>2 DEF AreModels
<1> HIDE DEF key
<1> QED
    BY <1>1, <1>4, <1>5, <1>6, SortingKeepsAll

-----------------------------------------------------------------------------
(***************************************************************************)
(* The resolver.                                                           *)
(***************************************************************************)
\* The names that are excluded are those the request excludes, blanks and
\* case aside.
LEMMA ExclusionsAreKept ==
    ASSUME NEW mine, NEW theirs, Texts(mine) = Texts(theirs) \ {""}, NEW id
    PROVE  lower(id) \in TextsOf(mine) <=> Names(id, theirs)
<1>1. lower(id) \in TextsOf(mine) <=> \E t \in Texts(mine) : lower(t) = lower(id)
    BY DEF TextsOf, Texts
<1>2. Names(id, theirs) <=> \E t \in Texts(theirs) : t # "" /\ lower(t) = lower(id)
    BY DEF Names, Texts
<1> QED
    BY <1>1, <1>2

\* The classification an execution has of a context.
Found(a, c) == IF a.classified THEN {classify(c)} ELSE {}

\* Of a context that carries what was asked, and its classification if any,
\* the resolver asks as much room as the request does.
LEMMA RoomIsKept ==
    ASSUME NEW a, IsRequest(a.request), NEW c, Carries(c, a), NEW m, IsModel(m)
    PROVE  m.context_window >= _extract_requirements(c, Found(a, c)).min_context_tokens
              <=> \A n \in a.request.min_context_tokens : m.context_window >= n
<1> DEFINE found == Found(a, c)
           estimates == {Estimate(c)} \cup {x.dimensions.estimated_context_tokens : x \in found}
           least == CHOOSE n \in estimates : \A k \in estimates : k <= n
<1>1. classify(c).dimensions.estimated_context_tokens = Estimate(c)
    BY DEF classify, _compute_dimensions
<1>2. estimates = {Estimate(c)}
    BY <1>1 DEF Found
<1>3. _extract_requirements(c, found).min_context_tokens = least
    BY DEF _extract_requirements
<1>4. /\ Estimate(c) \in Int
      /\ m.context_window >= Estimate(c)
            <=> \A n \in a.request.min_context_tokens : m.context_window >= n
  <2>1. c.min_context_tokens = a.request.min_context_tokens
      BY DEF Carries
  <2>2. m.context_window \in Int /\ m.context_window > 0
      BY DEF IsModel
  <2>3. CASE a.request.min_context_tokens = {}
      BY <2>1, <2>2, <2>3 DEF Estimate
  <2>4. CASE a.request.min_context_tokens # {}
    <3>1. PICK n \in a.request.min_context_tokens : TRUE
        BY <2>4
    <3>2. a.request.min_context_tokens = {n} /\ n \in Int
        BY <3>1 DEF IsRequest
    <3>3. Estimate(c) = n
        BY <2>1, <3>2 DEF Estimate
    <3> QED
        BY <2>2, <3>2, <3>3
  <2> QED
      BY <2>3, <2>4
<1> HIDE DEF estimates
<1>5. least = Estimate(c)
    BY <1>2, <1>4
<1> QED
    BY <1>3, <1>4, <1>5

Needs == {"tools", "vision", "structured_output", "web"}

\* What is asked of a model, need by need, and word by word.
LEMMA AskedIs ==
    ASSUME NEW a
    PROVE  /\ "tools" \in Asks(a) <=> \/ {"tools", "tool_use"} \cap Words(a) # {}
                                      \/ a.request.tool_count > 0
           /\ "vision" \in Asks(a) <=> {"vision", "multimodal"} \cap Words(a) # {}
           /\ "structured_output" \in Asks(a)
                 <=> {"structured_output", "json"} \cap Words(a) # {}
           /\ "web" \in Asks(a) <=> \/ {"web", "search"} \cap Words(a) # {}
                                    \/ a.classified /\ "browsing" \in Words(a)
           /\ \A x : x \notin Needs =>
                 (x \in Asks(a) <=> x \in Words(a) \ StandardCapabilities)
<1>1. /\ DOMAIN Synonyms = Needs
      /\ Synonyms["tools"] = {"tools", "tool_use"}
      /\ Synonyms["vision"] = {"vision", "multimodal"}
      /\ Synonyms["structured_output"] = {"structured_output", "json"}
      /\ Synonyms["web"] = {"web", "search"}
    BY DEF Synonyms, Needs
<1>2. \A x : x \in Asks(a) <=>
         \/ x \in Needs /\ Synonyms[x] \cap Words(a) # {}
         \/ x = "tools" /\ a.request.tool_count > 0
         \/ x = "web" /\ a.classified /\ "browsing" \in Words(a)
         \/ x \in Words(a) /\ x # "streaming" /\ \A need \in Needs : x \notin Synonyms[need]
    BY <1>1 DEF Asks
<1>3. \A x : (\A need \in Needs : x \notin Synonyms[need]) <=>
         x \notin {"tools", "tool_use", "vision", "multimodal", "structured_output", "json",
                   "web", "search"}
    BY <1>1 DEF Needs
<1>4. "tools" \in Asks(a) <=> \/ Synonyms["tools"] \cap Words(a) # {}
                              \/ a.request.tool_count > 0
    BY <1>2, <1>3 DEF Needs
<1>5. "vision" \in Asks(a) <=> Synonyms["vision"] \cap Words(a) # {}
    BY <1>2, <1>3 DEF Needs
<1>6. "structured_output" \in Asks(a) <=> Synonyms["structured_output"] \cap Words(a) # {}
    BY <1>2, <1>3 DEF Needs
<1>7. "web" \in Asks(a) <=> \/ Synonyms["web"] \cap Words(a) # {}
                            \/ a.classified /\ "browsing" \in Words(a)
    BY <1>2, <1>3 DEF Needs
<1>8. \A x : x \notin Needs => (x \in Asks(a) <=> x \in Words(a) \ StandardCapabilities)
    BY <1>2, <1>3 DEF Needs, StandardCapabilities
<1> QED
    BY <1>1, <1>4, <1>5, <1>6, <1>7, <1>8

\* The resolver's needs are what was asked, no fewer and no more.
LEMMA NeedsAreAsked ==
    ASSUME NEW a, NEW c, Carries(c, a), IsRequest(a.request)
    PROVE  _extract_requirements(c, Found(a, c)).needs = Asks(a)
<1> DEFINE found == Found(a, c)
           caps == c.requested_capabilities
           states(x) == \E k \in found : k.dimensions.requires[x]
           says(words) == caps \cap words # {}
           needs == _extract_requirements(c, found).needs
<1>1. /\ caps = Words(a) /\ c.tool_count = a.request.tool_count
      /\ c.supports = a.request.supports /\ c.supports \subseteq caps
      /\ c.supports \subseteq {"tools", "vision", "structured_output"}
    BY DEF Carries, Words, IsRequest
<1>2. classify(c).dimensions.requires = Requires(c)
    BY DEF classify, _compute_dimensions
<1>3. \A x \in Needs : states(x) <=> a.classified /\ Requires(c)[x]
    BY <1>2 DEF Found
<1>4. /\ Requires(c)["tools"] <=> \/ "tools" \in c.supports \/ c.tool_count > 0
                                  \/ says({"tools", "tool_use"})
      /\ Requires(c)["vision"] <=> "vision" \in c.supports \/ says({"vision", "multimodal"})
      /\ Requires(c)["structured_output"] <=> \/ "structured_output" \in c.supports
                                              \/ says({"structured_output", "json"})
      /\ Requires(c)["web"] <=> says({"web", "search", "browsing"})
    BY DEF Requires
<1> HIDE DEF states
<1>5. \A x : x \in needs <=>
         \/ /\ x \in Needs
            /\ \/ states(x) \/ x \in c.supports
               \/ x = "tools" /\ (c.tool_count > 0 \/ says({"tools", "tool_use"}))
               \/ x = "vision" /\ says({"vision", "multimodal"})
               \/ x = "structured_output" /\ says({"structured_output", "json"})
               \/ x = "web" /\ says({"web", "search"})
         \/ x \in caps \ StandardCapabilities
    BY DEF _extract_requirements, Needs, states
<1> HIDE DEF needs
<1>6. Needs \subseteq StandardCapabilities
    BY DEF Needs, StandardCapabilities
<1>7. "tools" \in needs <=> c.tool_count > 0 \/ says({"tools", "tool_use"})
  <2>1. "tools" \in c.supports => says({"tools", "tool_use"})
      BY <1>1
  <2> HIDE DEF says
  <2> QED
      BY <1>3, <1>4, <1>5, <1>6, <2>1 DEF Needs
<1>8. "vision" \in needs <=> says({"vision", "multimodal"})
  <2>1. "vision" \in c.supports => says({"vision", "multimodal"})
      BY <1>1
  <2> HIDE DEF says
  <2> QED
      BY <1>3, <1>4, <1>5, <1>6, <2>1 DEF Needs
<1>9. "structured_output" \in needs <=> says({"structured_output", "json"})
  <2>1. "structured_output" \in c.supports => says({"structured_output", "json"})
      BY <1>1
  <2> HIDE DEF says
  <2> QED
      BY <1>3, <1>4, <1>5, <1>6, <2>1 DEF Needs
<1>10. "web" \in needs <=> says({"web", "search"}) \/ (a.classified /\ "browsing" \in caps)
  <2>1. "web" \notin c.supports
      BY <1>1
  <2>2. says({"web", "search", "browsing"}) <=> says({"web", "search"}) \/ "browsing" \in caps
      OBVIOUS
  <2> HIDE DEF says, caps
  <2> QED
      BY <1>3, <1>4, <1>5, <1>6, <2>1, <2>2 DEF Needs
<1>11. \A x : x \notin Needs => (x \in needs <=> x \in caps \ StandardCapabilities)
    BY <1>5
<1>12. ASSUME NEW x
       PROVE  x \in needs <=> x \in Asks(a)
  <2> HIDE DEF caps
  <2>1. says({"tools", "tool_use"}) <=> {"tools", "tool_use"} \cap Words(a) # {}
      BY <1>1
  <2>2. says({"vision", "multimodal"}) <=> {"vision", "multimodal"} \cap Words(a) # {}
      BY <1>1
  <2>3. says({"structured_output", "json"})
           <=> {"structured_output", "json"} \cap Words(a) # {}
      BY <1>1
  <2>4. says({"web", "search"}) <=> {"web", "search"} \cap Words(a) # {}
      BY <1>1
  <2> HIDE DEF says
  <2>5. CASE x = "tools"
      BY <1>1, <1>7, <2>1, <2>5, AskedIs
  <2>6. CASE x = "vision"
      BY <1>8, <2>2, <2>6, AskedIs
  <2>7. CASE x = "structured_output"
      BY <1>9, <2>3, <2>7, AskedIs
  <2>8. CASE x = "web"
      BY <1>1, <1>10, <2>4, <2>8, AskedIs
  <2>9. CASE x \notin Needs
      BY <1>1, <1>11, <2>9, AskedIs
  <2> QED
      BY <2>5, <2>6, <2>7, <2>8, <2>9 DEF Needs
<1>13. needs = Asks(a)
    BY <1>12
<1> QED
    BY <1>13 DEF needs

\* Hosted, of any list of providers.
HostedBy(m, list) == \E p \in list : p.provider_id = m.provider_id /\ p.status = "ACTIVE"

\* The resolver lets pass what serves, from a provider listed as active, and
\* nothing else.
LEMMA ResolverIsExact ==
    ASSUME NEW a, IsRequest(a.request), NEW c, Carries(c, a), NEW m, IsModel(m), NEW list
    PROVE  Compatible(m, list, _extract_requirements(c, Found(a, c)))
              <=> Serves(m, a) /\ HostedBy(m, list)
<1> DEFINE req == _extract_requirements(c, Found(a, c))
<1>1. /\ req.excluded_providers = TextsOf(c.excluded_providers)
      /\ req.excluded_models = TextsOf(c.excluded_models)
    BY DEF _extract_requirements
<1>2. /\ lower(m.provider_id) \in req.excluded_providers
            <=> Names(m.provider_id, a.request.excluded_providers)
      /\ lower(m.model_id) \in req.excluded_models
            <=> Names(m.model_id, a.request.excluded_models)
  <2>1. lower(m.provider_id) \in TextsOf(c.excluded_providers)
           <=> Names(m.provider_id, a.request.excluded_providers)
      BY ExclusionsAreKept, Zenon DEF Carries
  <2>2. lower(m.model_id) \in TextsOf(c.excluded_models)
           <=> Names(m.model_id, a.request.excluded_models)
      BY ExclusionsAreKept, Zenon DEF Carries
  <2> HIDE DEF req
  <2> QED
      BY <1>1, <2>1, <2>2
<1>3. m.context_window >= req.min_context_tokens
         <=> \A n \in a.request.min_context_tokens : m.context_window >= n
    BY RoomIsKept
<1>4. req.needs = Asks(a)
    BY NeedsAreAsked
<1> HIDE DEF req
<1>5. Compatible(m, list, req) <=> Serves(m, a) /\ HostedBy(m, list)
    BY <1>2, <1>3, <1>4 DEF Compatible, Serves, HostedBy
<1> QED
    BY <1>5 DEF req

-----------------------------------------------------------------------------
(***************************************************************************)
(* The pipeline.                                                           *)
(***************************************************************************)
\* What RoutingIsExact promises of one execution, of what was asked, listed,
\* routed and told.
Exact(a, list, chosen, told) ==
    /\ chosen # <<>> \/ told = NoTarget =>
          ToSet(chosen) = {m \in list.models : Serves(m, a) /\ HostedBy(m, list.providers)}
    /\ told.status = "COMPLETED" =>
          /\ chosen # <<>>
          /\ told.model = Head(chosen).model_id /\ told.provider = lower(Head(chosen).provider_id)

Unrouted == [status |-> "none"]

Waiting == {"classify", "list_models", "list_providers"}

\* An execution at a step: until it is routed it has a context that carries
\* what was asked, its classification is that context's, and the models it
\* listed are models.
Stage(at, question, context, found, list, chosen, told) ==
    /\ DOMAIN list = {"models", "providers"}
    /\ at \in {"start"} \cup Waiting => chosen = <<>> /\ told = Unrouted
    /\ at \in Waiting =>
          \E a \in Asked : \E c \in context :
             /\ question = {a} /\ context = {c} /\ Carries(c, a)
             /\ at # "classify" => found = Found(a, c)
    /\ at = "list_providers" => AreModels(list.models)
    /\ at \in {"call", "failing"} => chosen # <<>>
    /\ \A a \in question : Exact(a, list, chosen, told)

StageOf(e) == Stage(pc[e], asked[e], ctx[e], classified[e], listed[e], targets[e], outcome[e])

Domains ==
    /\ DOMAIN pc = Executions /\ DOMAIN asked = Executions /\ DOMAIN ctx = Executions
    /\ DOMAIN classified = Executions /\ DOMAIN listed = Executions
    /\ DOMAIN targets = Executions /\ DOMAIN outcome = Executions

PipelineInv ==
    /\ ListsModels
    /\ adapters \subseteq Offered
    /\ Domains
    /\ \A e \in Executions : StageOf(e)

\* The invariant says of each execution what RoutingIsExact does.
LEMMA InvIsExact == PipelineInv => RoutingIsExact
<1> SUFFICES ASSUME PipelineInv, NEW e \in Executions, NEW a \in asked[e]
             PROVE  /\ targets[e] # <<>> \/ outcome[e] = NoTarget =>
                          ToSet(targets[e])
                             = {m \in listed[e].models : Serves(m, a) /\ Hosted(m, e)}
                    /\ outcome[e].status = "COMPLETED" =>
                          /\ targets[e] # <<>>
                          /\ outcome[e].model = Head(targets[e]).model_id
                          /\ outcome[e].provider = lower(Head(targets[e]).provider_id)
    BY DEF RoutingIsExact
<1>1. Exact(a, listed[e], targets[e], outcome[e])
    BY DEF PipelineInv, StageOf, Stage
<1>2. \A m : Hosted(m, e) <=> HostedBy(m, listed[e].providers)
    BY DEF Hosted, HostedBy
<1> QED
    BY <1>1, <1>2 DEF Exact

\* An execution no other step concerns stays at its stage.
LEMMA StageStays ==
    ASSUME NEW e, StageOf(e),
           pc'[e] = pc[e], asked'[e] = asked[e], ctx'[e] = ctx[e],
           classified'[e] = classified[e], listed'[e] = listed[e],
           targets'[e] = targets[e], outcome'[e] = outcome[e]
    PROVE  StageOf(e)'
BY DEF StageOf

\* A request without a target, and one that was routed or answered, differ.
LEMMA OutcomesDiffer ==
    /\ Unrouted # NoTarget /\ Unrouted.status # "COMPLETED"
    /\ NoTarget.status # "COMPLETED"
    /\ \A what : Raised(what) # NoTarget /\ Raised(what).status # "COMPLETED"
    /\ \A error : /\ Failed("PROVIDER_ERROR", error) # NoTarget
                  /\ Failed("PROVIDER_ERROR", error).status # "COMPLETED"
    /\ \A reply : /\ normalize_response_to_result(reply) # NoTarget
                  /\ Failing(reply) # NoTarget /\ Failing(reply).status # "COMPLETED"
<1>1. NoTarget.status = "FAILED" /\ NoTarget.cause = "RESOLUTION_ERROR"
    BY DEF NoTarget, Failed
<1> HIDE DEF NoTarget
<1>2. Unrouted.status = "none"
    BY DEF Unrouted
<1>3. \A what : Raised(what).status = "raised"
    BY DEF Raised
<1>4. \A error : /\ Failed("PROVIDER_ERROR", error).status = "FAILED"
                 /\ Failed("PROVIDER_ERROR", error).cause = "PROVIDER_ERROR"
    BY DEF Failed
<1>5. \A reply : /\ normalize_response_to_result(reply).status = "COMPLETED"
                /\ Failing(reply).status = "failing"
    BY DEF normalize_response_to_result, Failing
<1> QED
    BY <1>1, <1>2, <1>3, <1>4, <1>5

\* An answer is told of the target it was asked of.
LEMMA ReplyIsOfTarget ==
    ASSUME NEW e, NEW request, NEW target, NEW answer \in Answers, adapters \subseteq Offered,
           NEW reply, reply = execute_target(e, request, target, answer), ~reply.failed
    PROVE  reply.model_id = target.model_id /\ reply.provider_id = lower(target.provider_id)
<1> DEFINE sent == translate_request(e, request, target)
           held == get_adapter(target.provider_id)
           a == CHOOSE x \in held : TRUE
<1>1. sent.model_id = target.model_id /\ sent.provider_id = target.provider_id
    BY DEF translate_request
<1>2. Internal.failed
    BY DEF Internal, Failure
<1>3. answer.failed => Invocation(answer).failed
    BY PipelineAssumption DEF Invocation
<1> HIDE DEF sent
<1>4. \A pid, model, usage, told :
         /\ Reply(pid, model, usage, told).model_id = model
         /\ Reply(pid, model, usage, told).provider_id = pid
    BY DEF Reply
<1>5. held # {}
    BY <1>2 DEF execute_target
<1>6. a \in adapters /\ AdapterId(a) = lower(target.provider_id)
    BY <1>5 DEF get_adapter
<1> HIDE DEF held, a
<1>7. reply = IF a.kind = "litellm" THEN LiteLLMExecute(a, sent, answer)
              ELSE MockExecute(a, sent, answer)
    BY <1>5 DEF execute_target, held, a, sent
<1>8. CASE a.kind = "litellm"
  <2>1. AdapterId(a) = "litellm"
      BY <1>6, <1>8, PipelineAssumption
  <2>2. \E usage, told : reply = Reply("litellm", sent.model_id, usage, told)
      BY <1>2, <1>3, <1>7, <1>8 DEF LiteLLMExecute
  <2> QED
      BY <1>1, <1>4, <1>6, <2>1, <2>2
<1>9. CASE a.kind # "litellm"
  <2>1. \E usage, told : reply = Reply(AdapterId(a), sent.model_id, usage, told)
      BY <1>2, <1>3, <1>7, <1>9 DEF MockExecute
  <2> QED
      BY <1>1, <1>4, <1>6, <2>1
<1> QED
    BY <1>8, <1>9

\* Creating an execution leaves it with a context that carries the request.
LEMMA CreateKeeps ==
    ASSUME PipelineInv, NEW e \in Executions, Create(e)
    PROVE  StageOf(e)'
<1>1. PICK a \in Asked :
         /\ asked' = [asked EXCEPT ![e] = {a}]
         /\ \/ /\ Built(a, e) # {}
               /\ ctx' = [ctx EXCEPT ![e] = Built(a, e)]
               /\ Goes(e, "classify")
               /\ UNCHANGED outcome
            \/ /\ Built(a, e) = {}
               /\ Ends(e, Raised("InvalidExecutionContextError"))
               /\ UNCHANGED <<contexts, ctx>>
    BY DEF Create
<1>2. /\ pc[e] = "start" /\ classified' = classified /\ listed' = listed /\ targets' = targets
      /\ Domains
    BY DEF Create, PipelineInv
<1>3. targets[e] = <<>> /\ outcome[e] = Unrouted /\ DOMAIN listed[e] = {"models", "providers"}
    BY <1>2 DEF PipelineInv, StageOf, Stage
<1>4. asked'[e] = {a}
    BY <1>1, <1>2 DEF Domains
<1>5. CASE /\ Built(a, e) # {}
           /\ ctx' = [ctx EXCEPT ![e] = Built(a, e)]
           /\ Goes(e, "classify")
           /\ UNCHANGED outcome
  <2>1. pc'[e] = "classify" /\ outcome'[e] = Unrouted /\ ctx'[e] = Built(a, e)
      BY <1>2, <1>3, <1>5 DEF Goes, Domains
  <2>2. PICK c : Built(a, e) = {c}
    <3>1. PICK c \in Built(a, e) : TRUE
        BY <1>5
    <3>2. PICK draft : Built(a, e) = build(draft)
        BY DEF Built, create_execution_context
    <3>3. Built(a, e) = {c}
        BY <3>1, <3>2 DEF build
    <3> QED
        BY <3>3
  <2>3. Carries(c, a)
      BY <2>2, ContextCarries, PipelineAssumption
  <2>4. Exact(a, listed'[e], targets'[e], outcome'[e])
      BY <1>2, <1>3, <2>1, OutcomesDiffer DEF Exact
  <2> QED
      BY <1>2, <1>3, <1>4, <2>1, <2>2, <2>3, <2>4 DEF StageOf, Stage, Waiting
<1>6. CASE /\ Ends(e, Raised("InvalidExecutionContextError"))
           /\ UNCHANGED <<contexts, ctx>>
  <2>1. pc'[e] = "end" /\ outcome'[e] = Raised("InvalidExecutionContextError")
      BY <1>2, <1>6 DEF Ends, Goes, Domains
  <2>2. Exact(a, listed'[e], targets'[e], outcome'[e])
      BY <1>2, <1>3, <2>1, OutcomesDiffer DEF Exact
  <2> QED
      BY <1>2, <1>3, <1>4, <2>1, <2>2 DEF StageOf, Stage, Waiting
<1> QED
    BY <1>1, <1>5, <1>6

\* What is classified is the context that was created.
LEMMA ClassifyKeeps ==
    ASSUME PipelineInv, NEW e \in Executions, Classify(e)
    PROVE  StageOf(e)'
<1>1. /\ pc[e] = "classify" /\ Goes(e, "list_models") /\ Domains
      /\ classified' = [classified EXCEPT ![e] =
                           IF The(asked[e]).classified THEN {classify(The(ctx[e]))} ELSE {}]
      /\ asked' = asked /\ ctx' = ctx /\ listed' = listed /\ targets' = targets
      /\ outcome' = outcome
    BY DEF Classify, PipelineInv
<1>2. StageOf(e)
    BY DEF PipelineInv
<1>3. PICK a \in Asked, c \in ctx[e] :
         asked[e] = {a} /\ ctx[e] = {c} /\ Carries(c, a)
    BY <1>1, <1>2 DEF StageOf, Stage, Waiting
<1>4. pc'[e] = "list_models"
    BY <1>1 DEF Goes, Domains
<1>5. The(ctx[e]) = c /\ The(asked[e]) = a
    BY <1>3 DEF The
<1>6. classified'[e] = Found(a, c)
    BY <1>1, <1>5 DEF Domains, Found
<1> QED
    BY <1>1, <1>2, <1>3, <1>4, <1>6 DEF StageOf, Stage, Waiting

\* The models that are listed stay what they were when they were listed.
LEMMA ListModelsKeeps ==
    ASSUME PipelineInv, NEW e \in Executions, ListModels(e)
    PROVE  StageOf(e)'
<1>1. /\ pc[e] = "list_models" /\ Goes(e, "list_providers") /\ Domains
      /\ listed' = [listed EXCEPT ![e].models = models]
      /\ asked' = asked /\ ctx' = ctx /\ classified' = classified /\ targets' = targets
      /\ outcome' = outcome
    BY DEF ListModels, PipelineInv
<1>2. StageOf(e) /\ AreModels(models)
    BY DEF PipelineInv, ListsModels
<1>3. pc'[e] = "list_providers"
    BY <1>1 DEF Goes, Domains
<1>4. listed'[e] = [listed[e] EXCEPT !.models = models]
    BY <1>1 DEF Domains
<1>5. /\ DOMAIN listed'[e] = {"models", "providers"} /\ listed'[e].models = models
      /\ targets[e] = <<>> /\ outcome[e] = Unrouted
    BY <1>1, <1>2, <1>4 DEF StageOf, Stage, Waiting
<1>6. \A a : Exact(a, listed'[e], targets'[e], outcome'[e])
  <2>1. ToSet(targets[e]) = {}
      BY <1>5 DEF ToSet
  <2> QED
      BY <1>1, <1>5, <2>1, OutcomesDiffer DEF Exact
<1>7. \E a \in Asked : \E c \in ctx[e] :
         /\ asked[e] = {a} /\ ctx[e] = {c} /\ Carries(c, a)
         /\ classified[e] = Found(a, c)
    BY <1>1, <1>2 DEF StageOf, Stage, Waiting
<1> QED
    BY <1>1, <1>2, <1>3, <1>5, <1>6, <1>7 DEF StageOf, Stage, Waiting

\* What is routed is all that serves the request and is hosted by the lists
\* that were read.
LEMMA RouteKeeps ==
    ASSUME PipelineInv, NEW e \in Executions, Route(e)
    PROVE  StageOf(e)'
<1> DEFINE list == [listed[e] EXCEPT !.providers = providers]
           candidates == resolve(The(ctx[e]), classified[e], list)
           decision == route(The(ctx[e]), candidates, classified[e], The(asked[e]).strategy)
<1>1. /\ pc[e] = "list_providers" /\ Domains
      /\ listed' = [listed EXCEPT ![e] = list]
      /\ asked' = asked /\ ctx' = ctx /\ classified' = classified
      /\ \/ candidates = {} /\ Ends(e, NoTarget) /\ UNCHANGED targets
         \/ candidates # {} /\ decision = {} /\ Ends(e, Raised("NameError")) /\ UNCHANGED targets
         \/ /\ decision # {}
            /\ targets' = [targets EXCEPT ![e] = The(decision)]
            /\ Goes(e, "call") /\ UNCHANGED outcome
    BY DEF Route, PipelineInv
<1>2. StageOf(e)
    BY DEF PipelineInv
<1>3. PICK a \in Asked, c \in ctx[e] :
         /\ asked[e] = {a} /\ ctx[e] = {c} /\ Carries(c, a)
         /\ classified[e] = Found(a, c)
    BY <1>1, <1>2 DEF StageOf, Stage, Waiting
<1>4. /\ AreModels(listed[e].models) /\ DOMAIN listed[e] = {"models", "providers"}
      /\ targets[e] = <<>> /\ outcome[e] = Unrouted
    BY <1>1, <1>2 DEF StageOf, Stage, Waiting
<1>5. /\ list.models = listed[e].models /\ list.providers = providers
      /\ DOMAIN list = {"models", "providers"}
    BY <1>4
<1>6. The(ctx[e]) = c
    BY <1>3 DEF The
<1>7. listed'[e] = list
    BY <1>1 DEF Domains
<1> HIDE DEF list
<1> DEFINE req == _extract_requirements(c, classified[e])
<1>8. candidates = {m \in list.models : Compatible(m, list.providers, req)}
    BY <1>6 DEF resolve
<1>9. \A m \in list.models :
         Compatible(m, list.providers, req) <=> Serves(m, a) /\ HostedBy(m, list.providers)
  <2>1. IsRequest(a.request)
      BY PipelineAssumption
  <2>2. \A m \in list.models : IsModel(m)
      BY <1>4, <1>5 DEF AreModels
  <2> HIDE DEF req
  <2> QED
      BY <1>3, <2>1, <2>2, ResolverIsExact DEF req
<1> DEFINE serving == {m \in list.models : Serves(m, a) /\ HostedBy(m, list.providers)}
<1> HIDE DEF req
<1>9a. candidates = serving
    BY <1>8, <1>9
<1> HIDE DEF candidates, decision
<1>10. CASE candidates = {} /\ Ends(e, NoTarget) /\ UNCHANGED targets
  <2>1. pc'[e] = "end" /\ outcome'[e] = NoTarget
      BY <1>1, <1>10 DEF Ends, Goes, Domains
  <2>2. ToSet(targets'[e]) = {}
      BY <1>4, <1>10 DEF ToSet
  <2>3. Exact(a, listed'[e], targets'[e], outcome'[e])
      BY <1>7, <1>9a, <1>10, <2>1, <2>2, OutcomesDiffer DEF Exact
  <2> QED
      BY <1>1, <1>3, <1>5, <1>7, <2>1, <2>3 DEF StageOf, Stage, Waiting
<1>11. CASE Ends(e, Raised("NameError")) /\ UNCHANGED targets
  <2>1. pc'[e] = "end" /\ outcome'[e] = Raised("NameError")
      BY <1>1, <1>11 DEF Ends, Goes, Domains
  <2>3. Exact(a, listed'[e], targets'[e], outcome'[e])
      BY <1>4, <1>11, <2>1, OutcomesDiffer DEF Exact
  <2> QED
      BY <1>1, <1>3, <1>5, <1>7, <2>1, <2>3 DEF StageOf, Stage, Waiting
<1>12. CASE /\ decision # {}
            /\ targets' = [targets EXCEPT ![e] = The(decision)]
            /\ Goes(e, "call") /\ UNCHANGED outcome
  <2>1. pc'[e] = "call" /\ outcome'[e] = Unrouted /\ targets'[e] = The(decision)
      BY <1>1, <1>4, <1>12 DEF Goes, Domains
  <2>2. targets'[e] \in decision
      BY <1>12, <2>1 DEF The
  <2>3. candidates # {}
      BY <1>12 DEF decision, route
  <2>4. AreModels(candidates)
    <3>1. candidates \subseteq listed[e].models
        BY <1>5, <1>8
    <3> QED
        BY <1>4, <3>1, FewerModels
  <2>5. ToSet(targets'[e]) = candidates
    <3>1. c.preferred_providers \in Seq(AnyName) /\ c.preferred_models \in Seq(AnyName)
        BY <1>3 DEF Carries
    <3>2. targets'[e] \in route(c, candidates, classified[e], The(asked[e]).strategy)
        BY <1>6, <2>2 DEF decision
    <3> DEFINE d == targets'[e]
    <3> HIDE DEF d
    <3>3. ToSet(d) = candidates
        BY <2>3, <2>4, <3>1, <3>2, RouteKeepsAll DEF d
    <3> QED
        BY <3>3 DEF d
  <2>6. targets'[e] # <<>>
    <3>1. ToSet(<<>>) = {}
        BY DEF ToSet
    <3> QED
        BY <2>3, <2>5, <3>1
  <2>7. Exact(a, listed'[e], targets'[e], outcome'[e])
      BY <1>7, <1>9a, <2>1, <2>5, OutcomesDiffer DEF Exact
  <2> QED
      BY <1>1, <1>3, <1>5, <1>7, <2>1, <2>6, <2>7 DEF StageOf, Stage, Waiting
<1> QED
    BY <1>1, <1>10, <1>11, <1>12 DEF candidates, decision

\* The provider's answer is told of the first target; a failure awaits its
\* record.
LEMMA CallKeeps ==
    ASSUME PipelineInv, NEW e \in Executions, CallProvider(e)
    PROVE  StageOf(e)'
<1> DEFINE request == The(asked[e]).request
           target == Head(targets[e])
<1>1. /\ pc[e] = "call" /\ Domains /\ adapters \subseteq Offered
      /\ asked' = asked /\ ctx' = ctx /\ classified' = classified /\ targets' = targets
      /\ listed' = listed
    BY DEF CallProvider, PipelineInv
<1>2. PICK answer \in Answers :
         LET reply == execute_target(e, request, target, answer) IN
         \/ ~reply.failed /\ Ends(e, normalize_response_to_result(reply))
         \/ /\ reply.failed
            /\ Goes(e, "failing")
            /\ outcome' = [outcome EXCEPT ![e] = Failing(reply)]
    BY DEF CallProvider
<1> DEFINE reply == execute_target(e, request, target, answer)
<1> HIDE DEF request, target
<1>3. \/ /\ ~reply.failed /\ pc'[e] = "end"
         /\ outcome'[e] = normalize_response_to_result(reply)
      \/ /\ reply.failed /\ pc'[e] = "failing" /\ outcome'[e] = Failing(reply)
    BY <1>1, <1>2 DEF Ends, Goes, Domains
<1>4. ~reply.failed =>
         reply.model_id = target.model_id /\ reply.provider_id = lower(target.provider_id)
    BY <1>1, ReplyIsOfTarget
<1> HIDE DEF reply
<1>5. StageOf(e) /\ targets[e] # <<>>
    BY <1>1 DEF PipelineInv, StageOf, Stage
<1>6. /\ outcome'[e] # NoTarget
      /\ outcome'[e].status = "COMPLETED" =>
            outcome'[e].model = target.model_id /\ outcome'[e].provider = lower(target.provider_id)
  <2>1. CASE reply.failed
      BY <1>3, <2>1, OutcomesDiffer
  <2>2. CASE ~reply.failed
    <3>1. outcome'[e].model = reply.model_id /\ outcome'[e].provider = reply.provider_id
        BY <1>3, <2>2 DEF normalize_response_to_result
    <3> QED
        BY <1>3, <1>4, <2>2, <3>1, OutcomesDiffer
  <2> QED
      BY <2>1, <2>2
<1>7. \A a \in asked[e] : Exact(a, listed'[e], targets'[e], outcome'[e])
    BY <1>1, <1>5, <1>6 DEF StageOf, Stage, Exact, target
<1> QED
    BY <1>1, <1>3, <1>5, <1>7 DEF StageOf, Stage, Waiting

\* The record of a failure tells of no answer.
LEMMA NormalizeKeeps ==
    ASSUME PipelineInv, NEW e \in Executions, NormalizeError(e)
    PROVE  StageOf(e)'
<1> DEFINE error == service_normalize_error(Head(targets[e]).provider_id, outcome[e].reply)
<1>1. /\ pc[e] = "failing" /\ Domains /\ Ends(e, Failed("PROVIDER_ERROR", error))
      /\ asked' = asked /\ ctx' = ctx /\ classified' = classified /\ targets' = targets
      /\ listed' = listed
    BY DEF NormalizeError, PipelineInv
<1> HIDE DEF error
<1>2. pc'[e] = "end" /\ outcome'[e] = Failed("PROVIDER_ERROR", error)
    BY <1>1 DEF Ends, Goes, Domains
<1>3. StageOf(e) /\ targets[e] # <<>>
    BY <1>1 DEF PipelineInv, StageOf, Stage
<1>4. \A a \in asked[e] : Exact(a, listed'[e], targets'[e], outcome'[e])
    BY <1>1, <1>2, <1>3, OutcomesDiffer DEF StageOf, Stage, Exact
<1> QED
    BY <1>1, <1>2, <1>3, <1>4 DEF StageOf, Stage, Waiting

\* A step of an execution is of that execution alone.
LEMMA ExecutesAlone ==
    ASSUME PipelineInv, NEW e \in Executions, Execute(e)
    PROVE  /\ Domains' /\ UNCHANGED <<catalog_vars, adapters>>
           /\ \A x \in Executions : x # e =>
                 /\ pc'[x] = pc[x] /\ asked'[x] = asked[x] /\ ctx'[x] = ctx[x]
                 /\ classified'[x] = classified[x] /\ listed'[x] = listed[x]
                 /\ targets'[x] = targets[x] /\ outcome'[x] = outcome[x]
<1> USE DEF PipelineInv, Domains, Goes, Ends
<1>1. CASE Create(e)
    BY <1>1 DEF Create, Services, adapter_vars
<1>2. CASE Classify(e)
    BY <1>2 DEF Classify, Services, adapter_vars
<1>3. CASE ListModels(e)
    BY <1>3 DEF ListModels, Services, adapter_vars
<1>4. CASE Route(e)
    BY <1>4 DEF Route, Services, adapter_vars
<1>5. CASE CallProvider(e)
    BY <1>5 DEF CallProvider
<1>6. CASE NormalizeError(e)
    BY <1>6 DEF NormalizeError, Services, adapter_vars
<1> QED
    BY <1>1, <1>2, <1>3, <1>4, <1>5, <1>6 DEF Execute

\* Whatever is asked, listed, answered, or changed by administrators between
\* two steps of an execution: its targets are just the listed models that
\* serve all that was asked of them, streaming apart, from providers listed as
\* active; its answer is told of the first; and one that is refused had none
\* (lifecycle/service.py execute).
THEOREM RoutingStaysExact == PipelineSpec => []RoutingIsExact
<1>1. PipelineInit => PipelineInv
  <2> SUFFICES ASSUME PipelineInit PROVE PipelineInv
      OBVIOUS
  <2>1. ListsModels /\ adapters \subseteq Offered
      BY CatalogListsModels DEF PipelineInit
  <2>2. Domains
      BY DEF PipelineInit, ExecuteInit, Domains
  <2>3. ASSUME NEW e \in Executions
        PROVE  StageOf(e)
    <3>1. /\ pc[e] = "start" /\ asked[e] = {} /\ listed[e] = Unlisted /\ targets[e] = <<>>
          /\ outcome[e] = Unrouted
        BY DEF PipelineInit, ExecuteInit, Unrouted
    <3> QED
        BY <3>1 DEF StageOf, Stage, Waiting, Unlisted
  <2> QED
      BY <2>1, <2>2, <2>3 DEF PipelineInv
<1>2. PipelineInv /\ [PipelineNext]_pipeline_vars => PipelineInv'
  <2> SUFFICES ASSUME PipelineInv, [PipelineNext]_pipeline_vars PROVE PipelineInv'
      OBVIOUS
  <2>1. ListsModels /\ adapters \subseteq Offered /\ Domains
      BY DEF PipelineInv
  <2>2. ASSUME NEW e \in Executions, Execute(e)
        PROVE  PipelineInv'
    <3>1. StageOf(e)'
        BY <2>2, CreateKeeps, ClassifyKeeps, ListModelsKeeps, RouteKeeps, CallKeeps,
           NormalizeKeeps DEF Execute
    <3>2. ASSUME NEW x \in Executions, x # e
          PROVE  StageOf(x)'
        BY <2>2, <3>2, ExecutesAlone, StageStays DEF PipelineInv
    <3>3. Domains' /\ UNCHANGED <<catalog_vars, adapters>>
        BY <2>2, ExecutesAlone
    <3>4. ListsModels'
        BY <2>1, <3>3, CatalogListsModels
    <3> QED
        BY <2>1, <3>1, <3>2, <3>3, <3>4 DEF PipelineInv
  <2>3. ASSUME UNCHANGED <<pc, asked, ctx, classified, listed, targets, outcome>>
        PROVE  Domains' /\ \A e \in Executions : StageOf(e)'
      BY <2>3, StageStays DEF PipelineInv, Domains
  <2>4. CASE /\ SeedLooks \/ SeedRegisters \/ Administer
             /\ UNCHANGED <<adapter_vars, contexts, pc, asked, ctx, classified, listed, targets,
                            outcome>>
    <3>1. ListsModels'
        BY <2>1, <2>4, CatalogListsModels DEF CatalogNext
    <3> QED
        BY <2>1, <2>3, <2>4, <3>1 DEF PipelineInv, adapter_vars
  <2>5. CASE /\ ManageAdapters
             /\ UNCHANGED <<catalog_vars, contexts, pc, asked, ctx, classified, listed, targets,
                            outcome>>
    <3>1. adapters' \subseteq Offered
        BY <2>1, <2>5 DEF ManageAdapters, register_adapter, unregister_adapter
    <3>2. ListsModels'
        BY <2>1, <2>5, CatalogListsModels
    <3> QED
        BY <2>1, <2>3, <2>5, <3>1, <3>2 DEF PipelineInv
  <2>6. CASE UNCHANGED pipeline_vars
    <3>1. ListsModels'
        BY <2>1, <2>6, CatalogListsModels DEF pipeline_vars
    <3> QED
        BY <2>1, <2>3, <2>6, <3>1 DEF PipelineInv, pipeline_vars, adapter_vars
  <2> QED
      BY <2>2, <2>4, <2>5, <2>6 DEF PipelineNext
<1> QED
    BY <1>1, <1>2, InvIsExact, PTL DEF PipelineSpec
=============================================================================
