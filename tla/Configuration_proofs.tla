------------------------ MODULE Configuration_proofs ------------------------
(***************************************************************************)
(* What loading the radios of a document yields, for a document of any     *)
(* length.  Loading is a recursion over the entries, so the proofs are     *)
(* inductions; the induction rule is derived from the well-foundedness of  *)
(* the order of the natural numbers.                                       *)
(***************************************************************************)
EXTENDS Configuration, WellFoundedInduction, TLAPS

-----------------------------------------------------------------------------
(* A set that has 0 and with each number the next has them all.            *)
LEMMA SetInduction ==
    ASSUME NEW T, 0 \in T, \A n \in Nat : n \in T => n + 1 \in T
    PROVE  Nat \subseteq T
<1> DEFINE R == {p \in Nat \X Nat : p[1] < p[2]}
           M == Nat \ T
<1>1. IsWellFoundedOn(R, Nat)
  <2>1. R = OpToRel(<, Nat)
    BY DEF OpToRel
  <2> QED BY <2>1, NatLessThanWellFounded
<1>2. SUFFICES ASSUME M # {} PROVE FALSE
  OBVIOUS
<1>3. PICK x \in M : \A y \in M : <<y, x>> \notin R
  <2> HIDE DEF R
  <2>1. M \subseteq Nat
    OBVIOUS
  <2> HIDE DEF M
  <2>2. \E x \in M : \A y \in M : ~(<<y, x>> \in R)
    BY <1>1, <1>2, <2>1, WFMin, Zenon
  <2> QED BY <2>2
<1>4. x # 0 /\ x - 1 \in Nat /\ x - 1 \notin T
  OBVIOUS
<1>5. <<x - 1, x>> \in R
  BY <1>4
<1> QED BY <1>3, <1>4, <1>5

-----------------------------------------------------------------------------
(* Loading.                                                                *)

Entries(entries) == Len(entries) \in Nat /\ DOMAIN entries = 1..Len(entries)

\* The step of the recursion.
LoadedAt(f, entries, n) ==
    IF n = 0 THEN EmptyCatalog ELSE Emplace(f[n - 1], entries[n])

\* A catalog is loaded whatever the entries are.
LEMMA LoadedExists ==
    ASSUME NEW entries, NEW m \in Nat
    PROVE  \E f : f = [n \in 0..m |-> LoadedAt(f, entries, n)]
<1> DEFINE T == {k \in Nat : \E f : f = [n \in 0..k |-> LoadedAt(f, entries, n)]}
<1>1. 0 \in T
  <2> DEFINE g == [n \in 0..0 |-> EmptyCatalog]
  <2>1. g = [n \in 0..0 |-> LoadedAt(g, entries, n)]
    BY DEF LoadedAt
  <2> HIDE DEF g
  <2> QED BY <2>1
<1>2. ASSUME NEW k \in Nat, k \in T PROVE k + 1 \in T
  <2>1. PICK f : f = [n \in 0..k |-> LoadedAt(f, entries, n)]
    BY <1>2
  <2> DEFINE g == [n \in 0..(k + 1) |-> IF n <= k THEN f[n]
                                        ELSE Emplace(f[k], entries[k + 1])]
             h == [n \in 0..(k + 1) |-> LoadedAt(g, entries, n)]
  <2>2. \A n \in 0..(k + 1) : g[n] = h[n]
    <3> TAKE n \in 0..(k + 1)
    <3>1. CASE n = 0
      BY <2>1, <3>1 DEF LoadedAt
    <3>2. CASE n \in 1..k
      <4>1. f[n] = Emplace(f[n - 1], entries[n])
        BY <2>1, <3>2 DEF LoadedAt
      <4>2. g[n] = f[n] /\ g[n - 1] = f[n - 1]
        BY <3>2
      <4> HIDE DEF g
      <4> QED BY <3>2, <4>1, <4>2 DEF LoadedAt
    <3>3. CASE n = k + 1
      <4>1. g[n] = Emplace(f[k], entries[n]) /\ g[n - 1] = f[k] /\ n - 1 = k
        BY <3>3
      <4> HIDE DEF g
      <4> QED BY <3>3, <4>1 DEF LoadedAt
    <3> QED BY <3>1, <3>2, <3>3
  <2>3. g = h
    <3>1. DOMAIN g = 0..(k + 1) /\ DOMAIN h = 0..(k + 1)
      OBVIOUS
    <3>2. g = [n \in 0..(k + 1) |-> g[n]] /\ h = [n \in 0..(k + 1) |-> h[n]]
      OBVIOUS
    <3> HIDE DEF g, h
    <3> QED BY <2>2, <3>2
  <2>4. \E e : e = [n \in 0..(k + 1) |-> LoadedAt(e, entries, n)]
    <3> HIDE DEF g
    <3> QED BY <2>3
  <2> QED BY <2>4
<1> HIDE DEF T
<1>3. Nat \subseteq T
  BY <1>1, <1>2, SetInduction
<1> QED BY <1>3 DEF T

\* Each entry is loaded on top of those before it.
LEMMA LoadedStep ==
    ASSUME NEW entries, Entries(entries)
    PROVE  /\ Loaded(entries)[0] = EmptyCatalog
           /\ \A n \in 1..Len(entries) :
                 Loaded(entries)[n] = Emplace(Loaded(entries)[n - 1], entries[n])
<1> DEFINE m == Len(entries)
<1>1. m \in Nat
  BY DEF Entries
<1>2. Loaded(entries) = CHOOSE f : f = [n \in 0..m |-> LoadedAt(f, entries, n)]
  BY DEF Loaded, LoadedAt
<1> HIDE DEF m
<1>3. Loaded(entries) = [n \in 0..m |-> LoadedAt(Loaded(entries), entries, n)]
  BY <1>1, <1>2, LoadedExists
<1>4. \A n \in 0..m : Loaded(entries)[n] = LoadedAt(Loaded(entries), entries, n)
  BY <1>3
<1>5. 0 \in 0..m /\ \A n \in 1..m : n \in 0..m /\ n # 0
  BY <1>1
<1> QED BY <1>4, <1>5 DEF LoadedAt, m

-----------------------------------------------------------------------------
(* What is in the catalog after n entries.                                 *)

Supported(entries, n) == {i \in 1..n : entries[i].adapter = "silvus"}

\* The entry an id is taken from.
IsFirst(entries, i) ==
    /\ entries[i].adapter = "silvus"
    /\ \A j \in 1..(i - 1) :
          entries[j].adapter = "silvus" => entries[j].id # entries[i].id

FromFirsts(entries, n) ==
    LET catalog == Loaded(entries)[n]
    IN /\ DOMAIN catalog = {entries[i].id : i \in Supported(entries, n)}
       /\ \A id \in DOMAIN catalog :
             \E i \in 1..n :
                /\ IsFirst(entries, i) /\ entries[i].id = id
                /\ catalog[id] = RangeOf(entries[i])

\* An entry adds itself where its id is new, and disturbs no other.
LEMMA OneMore ==
    ASSUME NEW entries, Entries(entries), NEW n \in 0..(Len(entries) - 1),
           FromFirsts(entries, n)
    PROVE  FromFirsts(entries, n + 1)
<1> DEFINE before == Loaded(entries)[n]
           after == Loaded(entries)[n + 1]
           e == entries[n + 1]
<1>1. n \in Nat /\ n + 1 \in 1..Len(entries) /\ (n + 1) - 1 = n
  BY DEF Entries
<1>2. after = Emplace(before, e)
  BY <1>1, LoadedStep
<1>3. /\ DOMAIN before = {entries[i].id : i \in Supported(entries, n)}
      /\ \A id \in DOMAIN before :
            \E i \in 1..n : /\ IsFirst(entries, i) /\ entries[i].id = id
                            /\ before[id] = RangeOf(entries[i])
  BY DEF FromFirsts
<1>4. \A i \in 1..n : i \in 1..(n + 1)
  BY <1>1
<1>5. SUFFICES /\ DOMAIN after = {entries[i].id : i \in Supported(entries, n + 1)}
               /\ \A id \in DOMAIN after :
                     \E i \in 1..(n + 1) : /\ IsFirst(entries, i) /\ entries[i].id = id
                                           /\ after[id] = RangeOf(entries[i])
  BY DEF FromFirsts
<1> HIDE DEF before, after
<1>6. CASE e.adapter # "silvus"
  <2>1. after = before
    BY <1>2, <1>6 DEF Emplace
  <2>2. Supported(entries, n + 1) = Supported(entries, n)
    BY <1>1, <1>6 DEF Supported
  <2> QED BY <1>3, <1>4, <2>1, <2>2
<1>7. CASE e.adapter = "silvus" /\ e.id \in DOMAIN before
  <2>1. after = before
    BY <1>2, <1>7 DEF Emplace
  <2>2. Supported(entries, n + 1) = Supported(entries, n) \cup {n + 1}
    BY <1>1, <1>7 DEF Supported
  <2>3. e.id \in {entries[i].id : i \in Supported(entries, n)}
    BY <1>3, <1>7
  <2>4. {entries[i].id : i \in Supported(entries, n + 1)}
           = {entries[i].id : i \in Supported(entries, n)}
    BY <2>2, <2>3
  <2> QED BY <1>3, <1>4, <2>1, <2>4
<1>8. CASE e.adapter = "silvus" /\ e.id \notin DOMAIN before
  <2>1. /\ DOMAIN after = DOMAIN before \cup {e.id}
        /\ after[e.id] = RangeOf(e)
        /\ \A id \in DOMAIN before : after[id] = before[id]
    BY <1>2, <1>8 DEF Emplace
  <2>2. Supported(entries, n + 1) = Supported(entries, n) \cup {n + 1}
    BY <1>1, <1>8 DEF Supported
  <2>3. {entries[i].id : i \in Supported(entries, n + 1)}
           = {entries[i].id : i \in Supported(entries, n)} \cup {e.id}
    BY <2>2
  <2>4. IsFirst(entries, n + 1)
    BY <1>1, <1>3, <1>8 DEF IsFirst, Supported
  <2>5. n + 1 \in 1..(n + 1)
    BY <1>1
  <2> HIDE DEF e
  <2>6. ASSUME NEW id \in DOMAIN after
        PROVE  \E i \in 1..(n + 1) : /\ IsFirst(entries, i) /\ entries[i].id = id
                                      /\ after[id] = RangeOf(entries[i])
    <3>1. CASE id \in DOMAIN before
      BY <1>3, <1>4, <2>1, <3>1
    <3>2. CASE id = e.id
      BY <2>1, <2>4, <2>5, <3>2 DEF e
    <3> QED BY <2>1, <3>1, <3>2
  <2> QED BY <1>3, <2>1, <2>3, <2>6
<1> QED BY <1>6, <1>7, <1>8

LEMMA AllFromFirsts ==
    ASSUME NEW entries, Entries(entries)
    PROVE  FromFirsts(entries, Len(entries))
<1> DEFINE T == {n \in Nat : n <= Len(entries) => FromFirsts(entries, n)}
<1>1. Len(entries) \in Nat
  BY DEF Entries
<1>2. 0 \in T
  <2>1. Loaded(entries)[0] = EmptyCatalog /\ DOMAIN EmptyCatalog = {}
    BY LoadedStep DEF EmptyCatalog
  <2>2. Supported(entries, 0) = {}
    BY DEF Supported
  <2>3. FromFirsts(entries, 0)
    BY <2>1, <2>2 DEF FromFirsts
  <2> QED BY <2>3
<1>3. ASSUME NEW n \in Nat, n \in T PROVE n + 1 \in T
  <2> SUFFICES ASSUME n + 1 <= Len(entries) PROVE FromFirsts(entries, n + 1)
    OBVIOUS
  <2>1. n \in 0..(Len(entries) - 1) /\ FromFirsts(entries, n)
    BY <1>1, <1>3
  <2> QED BY <2>1, OneMore
<1> HIDE DEF T
<1>4. Len(entries) \in T
  BY <1>1, <1>2, <1>3, SetInduction
<1> QED BY <1>1, <1>4 DEF T

\* One entry only is the first with its id.
LEMMA FirstIsOne ==
    ASSUME NEW entries, Entries(entries),
           NEW i \in DOMAIN entries, NEW j \in DOMAIN entries,
           IsFirst(entries, i), IsFirst(entries, j), entries[i].id = entries[j].id
    PROVE  i = j
<1>1. i \in Nat /\ j \in Nat /\ i > 0 /\ j > 0
  BY DEF Entries
<1>2. ~(i < j) /\ ~(j < i)
  BY <1>1 DEF IsFirst
<1> QED BY <1>1, <1>2

\* Each supported id once, with the limits of the first of its entries, and
\* limits an adapter can work with.
Fits(entries, catalog) ==
    /\ DOMAIN catalog = {entries[i].id : i \in Supported(entries, Len(entries))}
    /\ \A id \in DOMAIN catalog :
          /\ \E i \in DOMAIN entries :
                /\ IsFirst(entries, i) /\ entries[i].id = id
                /\ catalog[id] = RangeOf(entries[i])
          /\ 0 <= catalog[id][1] /\ catalog[id][1] <= catalog[id][2]
          /\ catalog[id][2] <= MaxDbm

\* Loading a document that is read makes a catalog that fits it, however many
\* entries it has and however they repeat.
THEOREM CatalogOfDocument ==
    ASSUME NEW doc, Valid(doc), Entries(doc.radios)
    PROVE  Fits(Parse(doc).radios, Catalog(Parse(doc)))
<1> DEFINE entries == doc.radios
           catalog == Catalog(Parse(doc))
<1>1. Parse(doc).radios = entries
  BY DEF Parse
<1>2. FromFirsts(entries, Len(entries)) /\ DOMAIN entries = 1..Len(entries)
  BY AllFromFirsts DEF Entries
<1>3. catalog = Loaded(entries)[Len(entries)]
  BY <1>1 DEF Catalog
<1>4. \A i \in DOMAIN entries : RangeOK(entries[i])
  BY DEF Valid, EntryOK
<1> HIDE DEF catalog
<1>5. \A i \in DOMAIN entries :
         LET range == RangeOf(entries[i])
         IN 0 <= range[1] /\ range[1] <= range[2] /\ range[2] <= MaxDbm
  <2> TAKE i \in DOMAIN entries
  <2>1. CASE entries[i].min = {} \/ entries[i].max = {}
    BY <2>1 DEF RangeOf, VendorRange, MaxDbm
  <2>2. CASE entries[i].min # {} /\ entries[i].max # {}
    <3> DEFINE lo == Or(entries[i].min, 0)
               hi == Or(entries[i].max, 0)
    <3>1. lo \in entries[i].min /\ hi \in entries[i].max
      BY <2>2 DEF Or
    <3>2. RangeOf(entries[i]) = <<lo, hi>>
      BY <2>2 DEF RangeOf
    <3> HIDE DEF lo, hi
    <3> QED BY <1>4, <3>1, <3>2 DEF RangeOK
  <2> QED BY <2>1, <2>2
<1>6. Fits(entries, catalog)
  BY <1>2, <1>3, <1>5 DEF FromFirsts, Fits
<1> QED BY <1>1, <1>6 DEF catalog
=============================================================================
