-------------------------- MODULE FavouritesProofs --------------------------
(***************************************************************************)
(* Theorems about Favourites, for any boards and folders in memory and all *)
(* limits: its types, that the counts fit the lists, that the folders are  *)
(* a tree, that a saved file is what the user saw, and that a move of      *)
(* tagged entries loses nothing.                                           *)
(***************************************************************************)
EXTENDS Favourites, FiniteSetTheorems, SequenceTheorems, WellFoundedInduction, TLAPS

-----------------------------------------------------------------------------
(* Numbers of elements                                                     *)

LEMMA LeastNatural ==
    ASSUME NEW T, T \subseteq Nat, T # {}
    PROVE  \E n \in T : \A m \in T : n <= m
<1>1. PICK n \in T : \A m \in T : ~ (<<m, n>> \in OpToRel(<, Nat))
  BY NatLessThanWellFounded, WFMin
<1>2. \A m \in T : ~ (m < n)
  BY <1>1 DEF OpToRel
<1> QED
  BY <1>2

LEMMA SameSize ==
    ASSUME NEW S, NEW T, IsFiniteSet(S), NEW f \in [S -> T],
           \A x, y \in S : f[x] = f[y] => x = y,
           \A t \in T : \E x \in S : f[x] = t
    PROVE  IsFiniteSet(T) /\ Cardinality(T) = Cardinality(S)
<1>1. f \in Bijection(S, T)
  BY DEF Bijection, Injection, Surjection, IsInjective
<1>2. ExistsBijection(S, T)
  BY <1>1 DEF ExistsBijection
<1> QED
  BY <1>2, FS_Bijection

LEMMA DisjointSize ==
    ASSUME NEW S, NEW T, IsFiniteSet(S), IsFiniteSet(T), S \cap T = {}
    PROVE  /\ IsFiniteSet(S \cup T)
           /\ Cardinality(S \cup T) = Cardinality(S) + Cardinality(T)
<1>1. /\ Cardinality(S) \in Nat /\ Cardinality(T) \in Nat
      /\ Cardinality(S \cap T) = 0
  BY FS_CardinalityType, FS_EmptySet
<1>2. /\ IsFiniteSet(S \cup T)
      /\ Cardinality(S \cup T) = Cardinality(S) + Cardinality(T) - Cardinality(S \cap T)
  BY FS_Union
<1> QED
  BY <1>1, <1>2

LEMMA LessSize ==
    ASSUME NEW S, NEW T, IsFiniteSet(S), T \subseteq S
    PROVE  /\ IsFiniteSet(T) /\ IsFiniteSet(S \ T)
           /\ Cardinality(S \ T) = Cardinality(S) - Cardinality(T)
           /\ Cardinality(T) \in Nat /\ Cardinality(S) \in Nat
           /\ Cardinality(T) <= Cardinality(S)
<1>1. S \cap T = T
  OBVIOUS
<1> QED
  BY ZenonT(60), <1>1, FS_Difference, FS_Subset, FS_CardinalityType

LEMMA UpToSize ==
    ASSUME NEW n \in Nat
    PROVE  IsFiniteSet(1..n) /\ Cardinality(1..n) = n
<1>1. 1 \in Int /\ n \in Int
  OBVIOUS
<1>2. IsFiniteSet(1..n) /\ Cardinality(1..n) = IF 1 > n THEN 0 ELSE n - 1 + 1
  BY <1>1, FS_Interval
<1> QED
  BY <1>2

-----------------------------------------------------------------------------
(* The valid entries of an array                                           *)

LEMMA ValidFinite ==
    ASSUME NEW X, NEW items \in Seq(X)
    PROVE  /\ ValidAt(items) \subseteq 1..Len(items) /\ Len(items) \in Nat
           /\ DOMAIN items = 1..Len(items)
           /\ IsFiniteSet(ValidAt(items)) /\ Cardinality(ValidAt(items)) \in Nat
<1>1. Len(items) \in Nat /\ DOMAIN items = 1..Len(items)
  BY LenProperties
<1>2. ValidAt(items) \subseteq 1..Len(items)
  BY <1>1 DEF ValidAt
<1>3. IsFiniteSet(1..Len(items))
  BY <1>1, UpToSize
<1> QED
  BY <1>1, <1>2, <1>3, LessSize

\* How many valid entries there are up to i.
UpTo(items, i) == Cardinality({j \in ValidAt(items) : j <= i})

LEMMA UpToGrows ==
    ASSUME NEW X, NEW items \in Seq(X)
    PROVE  /\ \A i \in ValidAt(items) : UpTo(items, i) \in 1..Cardinality(ValidAt(items))
           /\ \A i, j \in ValidAt(items) : i < j => UpTo(items, i) < UpTo(items, j)
<1> DEFINE V == ValidAt(items)
           B(i) == {j \in V : j <= i}
<1>1. V \subseteq 1..Len(items) /\ IsFiniteSet(V) /\ Cardinality(V) \in Nat /\ Len(items) \in Nat
  BY ValidFinite
<1> HIDE DEF V
<1>2. \A i \in V : IsFiniteSet(B(i)) /\ Cardinality(B(i)) \in Nat /\ Cardinality(B(i)) <= Cardinality(V)
  <2> TAKE i \in V
  <2>1. B(i) \subseteq V
    OBVIOUS
  <2> HIDE DEF B
  <2> QED
    BY <1>1, <2>1, LessSize
<1>3. \A i \in V : Cardinality(B(i)) # 0
  <2> TAKE i \in V
  <2>1. i \in B(i)
    BY <1>1
  <2> HIDE DEF B
  <2> QED
    BY <1>2, <2>1, FS_EmptySet
<1>4. ASSUME NEW i \in V, NEW j \in V, i < j PROVE Cardinality(B(i)) < Cardinality(B(j))
  <2>1. B(i) \cup {j} \subseteq B(j) /\ j \notin B(i)
    <3>1. i \in Nat /\ j \in Nat /\ V \subseteq Nat
      BY <1>1
    <3>2. \A m \in V : m <= i => m <= j
      BY <1>4, <3>1
    <3>3. ~ (j <= i) /\ j <= j
      BY <1>4, <3>1
    <3> QED
      BY <3>2, <3>3
  <2> HIDE DEF B
  <2>2. /\ IsFiniteSet(B(i) \cup {j})
        /\ Cardinality(B(i) \cup {j}) = IF j \in B(i) THEN Cardinality(B(i)) ELSE Cardinality(B(i)) + 1
    BY <1>2, FS_AddElement
  <2>3. Cardinality(B(i) \cup {j}) <= Cardinality(B(j))
    BY <1>2, <2>1, LessSize
  <2> QED
    BY <1>2, <2>1, <2>2, <2>3
<1>5. \A i \in V : Cardinality(B(i)) \in 1..Cardinality(V)
  <2> TAKE i \in V
  <2>1. Cardinality(B(i)) \in Nat /\ Cardinality(B(i)) <= Cardinality(V) /\ Cardinality(B(i)) # 0
    BY <1>2, <1>3
  <2> HIDE DEF B
  <2> QED
    BY <1>1, <2>1
<1> QED
  BY <1>4, <1>5 DEF UpTo, V

\* The positions are those of the valid entries, one after the other.
LEMMA PositionsAre ==
    ASSUME NEW X, NEW items \in Seq(X)
    PROVE  /\ Positions(items) \in [1..Cardinality(ValidAt(items)) -> ValidAt(items)]
           /\ \A k \in DOMAIN Positions(items) : UpTo(items, Positions(items)[k]) = k
           /\ \A i \in ValidAt(items) : Positions(items)[UpTo(items, i)] = i
           /\ \A k, l \in DOMAIN Positions(items) :
                 Positions(items)[k] = Positions(items)[l] => k = l
<1> DEFINE V == ValidAt(items)
           n == Cardinality(V)
<1>1. V \subseteq 1..Len(items) /\ IsFiniteSet(V) /\ n \in Nat /\ Len(items) \in Nat
  BY ValidFinite
<1>2. /\ \A i \in V : UpTo(items, i) \in 1..n
      /\ \A i, j \in V : i < j => UpTo(items, i) < UpTo(items, j)
  BY UpToGrows
<1>3. \A i, j \in V : UpTo(items, i) = UpTo(items, j) => i = j
  <2> SUFFICES ASSUME NEW i \in V, NEW j \in V, UpTo(items, i) = UpTo(items, j), i # j
               PROVE  FALSE
    OBVIOUS
  <2>1. i \in Nat /\ j \in Nat
    BY <1>1
  <2>2. UpTo(items, i) \in Nat
    BY <1>2
  <2>3. i < j \/ j < i
    BY <2>1
  <2> QED
    BY <1>2, <2>2, <2>3
<1>4. \A k \in 1..n : \E i \in V : UpTo(items, i) = k
  <2> DEFINE f == [i \in V |-> UpTo(items, i)]
  <2>1. f \in [V -> 1..n] /\ \A i, j \in V : f[i] = f[j] => i = j
    BY <1>2, <1>3
  <2> HIDE DEF n
  <2>2. f \in Injection(V, 1..n)
    BY <2>1 DEF Injection, IsInjective
  <2>3. IsFiniteSet(1..n) /\ Cardinality(1..n) = n
    BY <1>1, UpToSize
  <2>4. f \in Surjection(V, 1..n)
    BY <2>2, <2>3, FS_Injection DEF n
  <2> QED
    BY <2>4 DEF Surjection
<1>5. Positions(items) = [k \in 1..n |-> CHOOSE i \in V : UpTo(items, i) = k]
  BY DEF Positions, UpTo
<1> HIDE DEF n, V
<1>6. \A k \in 1..n : Positions(items)[k] \in V /\ UpTo(items, Positions(items)[k]) = k
  BY <1>4, <1>5
<1>7. \A i \in V : Positions(items)[UpTo(items, i)] = i
  BY <1>2, <1>3, <1>6
<1>8. DOMAIN Positions(items) = 1..n
  BY <1>5
<1>9. Positions(items) \in [1..n -> V]
  BY <1>5, <1>6
<1>10. \A k, l \in 1..n : Positions(items)[k] = Positions(items)[l] => k = l
  BY <1>6
<1> QED
  BY <1>6, <1>7, <1>8, <1>9, <1>10 DEF n, V

\* What the list of the valid entries is.
ListsValid(items) ==
    /\ Len(Valid(items)) = Cardinality(ValidAt(items))
    /\ Valid(items) \in Seq({items[i] : i \in ValidAt(items)})
    /\ DOMAIN Valid(items) = 1..Len(Valid(items)) /\ Len(Valid(items)) \in Nat
    /\ \A k \in 1..Len(Valid(items)) :
           /\ Positions(items)[k] \in ValidAt(items)
           /\ Valid(items)[k] = items[Positions(items)[k]]

LEMMA ValidIs == ASSUME NEW X, NEW items \in Seq(X) PROVE ListsValid(items)
<1> USE DEF ListsValid
<1> DEFINE V == ValidAt(items)
           n == Cardinality(V)
<1>1. n \in Nat
  BY ValidFinite
<1>2. Positions(items) \in [1..n -> V] /\ DOMAIN Positions(items) = 1..n
  BY PositionsAre
<1> HIDE DEF n, V
<1>3. Valid(items) = [k \in 1..n |-> items[Positions(items)[k]]]
  BY <1>2 DEF Valid
<1>4. \A k \in 1..n : Positions(items)[k] \in V
  BY <1>2
<1>5. Valid(items) \in [1..n -> {items[i] : i \in V}]
  BY <1>3, <1>4
<1>6. Valid(items) \in Seq({items[i] : i \in V})
  BY <1>1, <1>5
<1>7. Len(Valid(items)) = n /\ DOMAIN Valid(items) = 1..n
  BY <1>1, <1>3, <1>6, LenProperties
<1> QED
  BY <1>1, <1>3, <1>4, <1>6, <1>7 DEF n, V

\* An array of valid entries alone.
LEMMA AllValid ==
    ASSUME NEW X, NEW items \in Seq(X), ValidAt(items) = DOMAIN items
    PROVE  /\ \A k \in DOMAIN items : Positions(items)[k] = k
           /\ Cardinality(ValidAt(items)) = Len(items)
           /\ Valid(items) = items
<1>1. Len(items) \in Nat /\ DOMAIN items = 1..Len(items)
  BY LenProperties
<1>2. Cardinality(ValidAt(items)) = Len(items)
  BY <1>1, UpToSize
<1>3. \A i \in 1..Len(items) : UpTo(items, i) = i
  <2> TAKE i \in 1..Len(items)
  <2>1. i \in Nat /\ {j \in 1..Len(items) : j <= i} = 1..i
    BY <1>1
  <2> QED
    BY <1>1, <2>1, UpToSize DEF UpTo
<1>4. \A k \in 1..Len(items) : Positions(items)[k] = k
  BY <1>1, <1>3, PositionsAre
<1>5. Len(Valid(items)) = Len(items) /\ DOMAIN Valid(items) = 1..Len(items)
  BY <1>2, ValidIs DEF ListsValid
<1>6. \A k \in 1..Len(items) : Valid(items)[k] = items[k]
  <2>1. \A k \in 1..Len(Valid(items)) : Valid(items)[k] = items[Positions(items)[k]]
    BY ValidIs DEF ListsValid
  <2> QED
    BY <1>4, <1>5, <2>1
<1>7. Valid(items) \in Seq({items[i] : i \in ValidAt(items)})
  BY ValidIs DEF ListsValid
<1>8. Valid(items) = items
  BY <1>5, <1>6, <1>7, SeqEqual
<1> QED
  BY <1>1, <1>2, <1>4, <1>8

-----------------------------------------------------------------------------
(* Entries and folders                                                     *)

\* An entry, with or without its flag.
Proper(e) ==
    /\ e \in Entry
    /\ e.tag => e.fav
    /\ e.fav => /\ e.type = "folder" <=> e.sub \in Dirs
                /\ IF e.type = "board" THEN e.id \in FavBoards ELSE e.id \in Int

FoldersAt(items) == {i \in ValidAt(items) : items[i].type = "folder"}
Count(items, t) == Cardinality({i \in ValidAt(items) : items[i].type = t})

\* A folder: its counts are right and the numbers of its folders differ.
Sound(f) ==
    /\ f \in Folder
    /\ \A i \in DOMAIN f.items : Proper(f.items[i])
    /\ \A t \in Types : f.n[t] = Count(f.items, t)
    /\ f.last["folder"] \in Nat
    /\ \A i \in FoldersAt(f.items) : f.items[i].id <= f.last["folder"]
    /\ \A i, j \in FoldersAt(f.items) : i # j => f.items[i].id # f.items[j].id

\* What a signed char holds of a number of lines and folders is the number.
Small(f) == f.n["line"] <= CHAR_MAX /\ f.n["folder"] <= CHAR_MAX /\ f.last["folder"] <= CHAR_MAX

LEMMA BareIs ==
    ASSUME NEW e \in Entry
    PROVE  Bare(e) = [type |-> e.type, fav |-> e.fav, tag |-> e.tag,
                      id |-> IF e.type = "board" THEN e.id ELSE 0, sub |-> e.sub]
  BY DEF Bare, Entry

\* Entries that differ in a number alone.
LEMMA SameBare ==
    ASSUME NEW e \in Entry, NEW g \in Entry
    PROVE  Bare(e) = Bare(g) <=>
               /\ e.type = g.type /\ e.fav = g.fav /\ e.tag = g.tag /\ e.sub = g.sub
               /\ e.type = "board" => e.id = g.id
<1> DEFINE b == IF e.type = "board" THEN e.id ELSE 0
           c == IF g.type = "board" THEN g.id ELSE 0
<1>1. Bare(e) = [type |-> e.type, fav |-> e.fav, tag |-> e.tag, id |-> b, sub |-> e.sub]
  BY BareIs
<1>2. Bare(g) = [type |-> g.type, fav |-> g.fav, tag |-> g.tag, id |-> c, sub |-> g.sub]
  BY BareIs
<1> HIDE DEF b, c
<1>3. Bare(e) = Bare(g) <=> /\ e.type = g.type /\ e.fav = g.fav /\ e.tag = g.tag
                            /\ e.sub = g.sub /\ b = c
  BY <1>1, <1>2
<1> QED
  BY <1>3 DEF b, c

LEMMA CountFinite ==
    ASSUME NEW X, NEW items \in Seq(X), NEW t
    PROVE  /\ IsFiniteSet({i \in ValidAt(items) : items[i].type = t})
           /\ Count(items, t) \in Nat
<1>1. IsFiniteSet(ValidAt(items))
  BY ValidFinite
<1>2. {i \in ValidAt(items) : items[i].type = t} \subseteq ValidAt(items)
  OBVIOUS
<1> QED
  BY <1>1, <1>2, LessSize DEF Count

\* get_data_number counts the valid entries.
LEMMA CountsAdd ==
    ASSUME NEW f, Sound(f)
    PROVE  get_data_number(f) = Cardinality(ValidAt(f.items))
<1> DEFINE V == ValidAt(f.items)
           At(t) == {i \in V : f.items[i].type = t}
<1>1. f.items \in Seq(Entry)
  BY DEF Sound, Folder
<1>2. V = (At("board") \cup At("line")) \cup At("folder")
  <2>1. \A i \in V : f.items[i] \in Entry
    BY DEF ValidAt, Sound, Proper
  <2> QED
    BY <2>1 DEF Entry, Types
<1>3. \A t : IsFiniteSet(At(t)) /\ Cardinality(At(t)) \in Nat
  BY <1>1, CountFinite DEF Count
<1>4. /\ IsFiniteSet(At("board") \cup At("line"))
      /\ Cardinality(At("board") \cup At("line")) = Cardinality(At("board")) + Cardinality(At("line"))
  <2>1. At("board") \cap At("line") = {}
    OBVIOUS
  <2> HIDE DEF At
  <2> QED
    BY <1>3, <2>1, DisjointSize
<1>5. Cardinality(V) = Cardinality(At("board") \cup At("line")) + Cardinality(At("folder"))
  <2>1. (At("board") \cup At("line")) \cap At("folder") = {}
    OBVIOUS
  <2> HIDE DEF At, V
  <2> QED
    BY <1>2, <1>3, <1>4, <2>1, DisjointSize
<1>6. \A t \in Types : f.n[t] = Cardinality(At(t))
  BY DEF Sound, Count
<1>7. get_data_number(f) = Cardinality(At("board")) + Cardinality(At("line")) + Cardinality(At("folder"))
  BY <1>6 DEF get_data_number, Types
<1> HIDE DEF At, V
<1>8. get_data_number(f) = Cardinality(V)
  BY <1>3, <1>4, <1>5, <1>7
<1> QED
  BY <1>8 DEF V

LEMMA NewIsSound ==
    /\ Sound(NewFolder) /\ NewFolder.items = <<>> /\ ValidAt(NewFolder.items) = {}
    /\ Small(NewFolder)
<1>1. NewFolder.items = <<>> /\ ValidAt(<<>>) = {} /\ <<>> \in Seq(Entry)
  BY DEF NewFolder, ValidAt
<1>2. \A t \in Types : NewFolder.n[t] = Count(<<>>, t)
  <2> TAKE t \in Types
  <2>1. {i \in ValidAt(<<>>) : <<>>[i].type = t} = {}
    BY <1>1
  <2> QED
    BY <2>1, FS_EmptySet DEF Count, NewFolder
<1>3. NewFolder \in Folder
  BY DEF NewFolder, Folder
<1>4. Small(NewFolder) /\ NewFolder.last["folder"] = 0
  <2>1. CHAR_MAX \in Nat /\ {"line", "folder"} \subseteq Types
    BY FavAssumption DEF Types
  <2> QED
    BY <2>1 DEF NewFolder, Small
<1> QED
  BY <1>1, <1>2, <1>3, <1>4 DEF Sound, FoldersAt

-----------------------------------------------------------------------------
(* What happens to one folder                                              *)

\* What a signed char holds.
LEMMA CharType ==
    ASSUME NEW i \in Int
    PROVE  Char(i) \in Int /\ Char(i) <= CHAR_MAX
<1> DEFINE M == 2 * (CHAR_MAX + 1)
           x == i + CHAR_MAX + 1
<1>1. M \in Nat \ {0} /\ x \in Int /\ CHAR_MAX \in Nat /\ M = CHAR_MAX + CHAR_MAX + 2
  BY FavAssumption
<1>2. Char(i) = (x % M) - (CHAR_MAX + 1)
  BY DEF Char
<1> HIDE DEF M, x
<1>3. x % M \in 0..(M - 1)
  BY <1>1
<1> QED
  BY <1>1, <1>2, <1>3

\* It is never more than what was counted, the same as long as there is room, and
\* no number of an entry just behind that.
LEMMA CharIs ==
    ASSUME NEW i \in Nat
    PROVE  /\ Char(i) \in Int /\ Char(i) <= i /\ Char(i) <= CHAR_MAX
           /\ i <= CHAR_MAX => Char(i) = i
           /\ i = CHAR_MAX + 1 => Char(i) < 1
<1> DEFINE M == 2 * (CHAR_MAX + 1)
           x == i + CHAR_MAX + 1
<1>1. M \in Nat \ {0} /\ x \in Nat /\ CHAR_MAX \in Nat /\ M = CHAR_MAX + CHAR_MAX + 2
  BY FavAssumption
<1>2. Char(i) = (x % M) - (CHAR_MAX + 1)
  BY DEF Char
<1> HIDE DEF M
<1>3. x % M \in 0..(M - 1)
  BY <1>1
<1>4. x < M => x % M = x
  BY <1>1
<1>5. x % M <= x
  BY <1>1
<1>6. x = M => x % M = 0
  BY <1>1
<1> QED
  BY <1>1, <1>2, <1>3, <1>4, <1>5, <1>6

\* The counts of entries of a type grow with each of them.
LEMMA OfTypeGrows ==
    ASSUME NEW es \in Seq(Entry), NEW t
    PROVE  /\ \A k \in 0..Len(es) : OfType(es, t, k) \in Nat
           /\ \A k \in 1..Len(es) : es[k].type = t => OfType(es, t, k) > 0
           /\ \A k, l \in 0..Len(es) : k <= l => OfType(es, t, k) <= OfType(es, t, l)
           /\ \A k, l \in 1..Len(es) :
                 k < l /\ es[l].type = t => OfType(es, t, k) < OfType(es, t, l)
<1> DEFINE A(k) == {j \in 1..k : es[j].type = t}
<1>1. Len(es) \in Nat
  BY LenProperties
<1>2. \A k \in 0..Len(es) : IsFiniteSet(A(k)) /\ Cardinality(A(k)) \in Nat
  <2> TAKE k \in 0..Len(es)
  <2>1. A(k) \subseteq 1..k /\ IsFiniteSet(1..k)
    BY <1>1, UpToSize
  <2> HIDE DEF A
  <2> QED
    BY <2>1, LessSize
<1>3. ASSUME NEW k \in 0..Len(es), NEW l \in 0..Len(es), k <= l
      PROVE  Cardinality(A(k)) <= Cardinality(A(l))
  <2>1. A(k) \subseteq A(l)
    BY <1>1, <1>3
  <2> HIDE DEF A
  <2> QED
    BY <1>2, <2>1, LessSize
<1>4. ASSUME NEW k \in 0..Len(es), NEW l \in 1..Len(es), k < l, es[l].type = t
      PROVE  Cardinality(A(k)) < Cardinality(A(l))
  <2>1. A(k) \cup {l} \subseteq A(l) /\ l \notin A(k)
    BY <1>1, <1>4
  <2>2. k \in 0..Len(es) /\ l \in 0..Len(es)
    BY <1>1
  <2> HIDE DEF A
  <2>3. /\ IsFiniteSet(A(k) \cup {l})
        /\ Cardinality(A(k) \cup {l}) = IF l \in A(k) THEN Cardinality(A(k)) ELSE Cardinality(A(k)) + 1
    BY <1>2, <2>2, FS_AddElement
  <2>4. Cardinality(A(k) \cup {l}) <= Cardinality(A(l))
    BY <1>2, <2>1, <2>2, LessSize
  <2> QED
    BY <1>2, <2>1, <2>2, <2>3, <2>4
<1>5. \A k \in 0..Len(es) : OfType(es, t, k) = Cardinality(A(k))
  BY DEF OfType
<1>6. A(0) = {} /\ Cardinality(A(0)) = 0 /\ 0 \in 0..Len(es) /\ 1..Len(es) \subseteq 0..Len(es)
  BY <1>1, FS_EmptySet
<1> HIDE DEF A
<1>7. \A k \in 1..Len(es) : es[k].type = t => OfType(es, t, k) > 0
  <2> TAKE k \in 1..Len(es)
  <2>1. k \in 0..Len(es) /\ 0 < k
    BY <1>6
  <2>2. es[k].type = t => Cardinality(A(0)) < Cardinality(A(k))
    BY <1>4, <1>6, <2>1
  <2> QED
    BY <1>2, <1>5, <1>6, <2>1, <2>2
<1> QED
  BY <1>2, <1>3, <1>4, <1>5, <1>6, <1>7

\* The positions of m entries behind p others.
LEMMA Offsets ==
    ASSUME NEW p \in Nat, NEW m \in Nat
    PROVE  /\ \A k \in 1..m : /\ p + k \in 1..(p + m) /\ p + k \in (p + 1)..(p + m)
                              /\ p + k \notin 1..p /\ ~ (p + k <= p) /\ (p + k) - p = k
           /\ \A i \in 1..p : i \in 1..(p + m) /\ i <= p /\ i \notin (p + 1)..(p + m)
           /\ \A i \in (p + 1)..(p + m) : i \in 1..(p + m) /\ i \notin 1..p
           /\ \A i \in 1..(p + m) :
                 i \in 1..p \/ (i \in (p + 1)..(p + m) /\ \E k \in 1..m : i = p + k)
<1>1. \A i \in 1..(p + m) :
         i \in 1..p \/ (i \in (p + 1)..(p + m) /\ \E k \in 1..m : i = p + k)
  <2> TAKE i \in 1..(p + m)
  <2>1. i \in 1..p \/ (i \in (p + 1)..(p + m) /\ i - p \in 1..m /\ i = p + (i - p))
    OBVIOUS
  <2> QED
    BY <2>1
<1> QED
  BY <1>1

LEMMA ConcatIs ==
    ASSUME NEW S, NEW s \in Seq(S), NEW t \in Seq(S)
    PROVE  /\ s \o t \in Seq(S) /\ Len(s \o t) = Len(s) + Len(t)
           /\ \A i \in 1..Len(s) : (s \o t)[i] = s[i]
           /\ \A k \in 1..Len(t) : (s \o t)[Len(s) + k] = t[k]
<1>1. Len(s) \in Nat /\ Len(t) \in Nat
  BY LenProperties
<1>2. s \o t \in Seq(S) /\ Len(s \o t) = Len(s) + Len(t)
  BY ConcatProperties
<1>3. ASSUME NEW i \in 1..Len(s) PROVE (s \o t)[i] = s[i]
  <2>1. i \in 1..(Len(s) + Len(t)) /\ i <= Len(s)
    BY <1>1, Offsets
  <2> QED
    BY <2>1, ConcatProperties
<1>4. ASSUME NEW k \in 1..Len(t) PROVE (s \o t)[Len(s) + k] = t[k]
  <2>1. /\ Len(s) + k \in 1..(Len(s) + Len(t)) /\ ~ (Len(s) + k <= Len(s))
        /\ (Len(s) + k) - Len(s) = k
    BY <1>1, Offsets
  <2> QED
    BY <2>1, ConcatProperties
<1> QED
  BY <1>2, <1>3, <1>4

\* The valid entries es come behind those of f.
Longer(g, f, es) ==
    /\ Len(g.items) = Len(f.items) + Len(es)
    /\ \A i \in 1..Len(f.items) : g.items[i] = f.items[i]
    /\ \A k \in 1..Len(es) : Bare(g.items[Len(f.items) + k]) = Bare(es[k])
    /\ ValidAt(g.items) = ValidAt(f.items) \cup (Len(f.items) + 1)..(Len(f.items) + Len(es))

Flagged(es) == es \in Seq(Entry) /\ \A k \in 1..Len(es) : Proper(es[k]) /\ es[k].fav

\* What fav_increase would make of a folder if counts and the numbers of folders
\* had no limit.
NumberOf(t, i) == IF t = "folder" THEN i ELSE Char(i)
Grown(f, es, keep) ==
    [items |-> f.items \o [k \in DOMAIN es |->
         IF es[k].type \in keep THEN es[k]
         ELSE [es[k] EXCEPT !.id =
                 NumberOf(es[k].type, f.last[es[k].type] + OfType(es, es[k].type, k))]],
     n |-> [t \in Types |-> f.n[t] + OfType(es, t, Len(es))],
     last |-> [t \in {"line", "folder"} |->
                 NumberOf(t, f.last[t] + OfType(es, t, Len(es)))]]

\* fav_increase for each of some entries keeps the folder in order then, since
\* folders get new numbers.
LEMMA GrownIs ==
    ASSUME NEW f, Sound(f), NEW es, Flagged(es), NEW keep,
           "board" \in keep, "folder" \notin keep,
           NEW g, g = Grown(f, es, keep)
    PROVE  Sound(g) /\ Longer(g, f, es)
<1> USE DEF Flagged
<1> DEFINE p == Len(f.items)
           m == Len(es)
           number(k) == NumberOf(es[k].type, f.last[es[k].type] + OfType(es, es[k].type, k))
           new(k) == IF es[k].type \in keep THEN es[k] ELSE [es[k] EXCEPT !.id = number(k)]
           h == [k \in 1..m |-> new(k)]
<1>1. /\ m \in Nat /\ DOMAIN es = 1..m /\ f.items \in Seq(Entry) /\ p \in Nat
      /\ DOMAIN f.items = 1..p /\ f.n \in [Types -> Int] /\ f.last \in [{"line", "folder"} -> Int]
      /\ \A k \in 1..m : es[k] \in Entry
  <2>1. f.items \in Seq(Entry) /\ f.n \in [Types -> Int] /\ f.last \in [{"line", "folder"} -> Int]
    BY DEF Sound, Folder
  <2>2. m \in Nat /\ DOMAIN es = 1..m /\ p \in Nat /\ DOMAIN f.items = 1..p
    BY <2>1, LenProperties
  <2> QED
    BY <2>1, <2>2, ElementOfSeq
<1>2. \A t : \A k \in 1..m : OfType(es, t, k) \in Nat
  <2>1. 1..m \subseteq 0..m
    BY <1>1
  <2> QED
    BY <2>1, OfTypeGrows
<1>3. ASSUME NEW k \in 1..m
      PROVE  /\ new(k) \in Entry /\ Proper(new(k)) /\ new(k).fav
             /\ new(k).type = es[k].type /\ Bare(new(k)) = Bare(es[k])
             /\ es[k].type = "folder" => new(k).id = f.last["folder"] + OfType(es, "folder", k)
  <2>1. Proper(es[k]) /\ es[k].fav /\ es[k] \in Entry
    BY <1>1
  <2>2. CASE es[k].type \in keep
    BY <2>1, <2>2
  <2>3. CASE es[k].type \notin keep
    <3>1. es[k].type \in {"line", "folder"}
      BY <2>1, <2>3 DEF Entry, Types
    <3>2. number(k) \in Int
      <4>1. f.last[es[k].type] \in Int /\ OfType(es, es[k].type, k) \in Nat
        BY <1>1, <1>2, <3>1
      <4>2. f.last[es[k].type] + OfType(es, es[k].type, k) \in Int
        BY <4>1
      <4> QED
        BY <4>2, CharType DEF NumberOf
    <3>3. es[k].type = "folder" => number(k) = f.last["folder"] + OfType(es, "folder", k)
      BY DEF NumberOf
    <3>4. new(k) = [es[k] EXCEPT !.id = number(k)]
      BY <2>3
    <3> HIDE DEF new, number
    <3>5. /\ new(k) \in Entry /\ new(k).id = number(k) /\ new(k).type = es[k].type
          /\ new(k).fav = es[k].fav /\ new(k).tag = es[k].tag /\ new(k).sub = es[k].sub
      BY <2>1, <3>2, <3>4 DEF Entry
    <3>6. Bare(new(k)) = Bare(es[k])
      BY <2>1, <3>1, <3>5, SameBare
    <3> QED
      BY <2>1, <3>1, <3>2, <3>3, <3>5, <3>6 DEF Proper
  <2> QED
    BY <2>2, <2>3
<1>4. h \in Seq(Entry) /\ Len(h) = m /\ \A k \in 1..m : h[k] = new(k)
  <2>1. h \in [1..m -> Entry]
    BY <1>3
  <2>2. h \in Seq(Entry)
    BY <1>1, <2>1
  <2> QED
    BY <1>1, <2>2, LenProperties
<1>5. /\ g.items = f.items \o h
      /\ g.n = [t \in Types |-> f.n[t] + OfType(es, t, m)]
      /\ g.last = [t \in {"line", "folder"} |-> NumberOf(t, f.last[t] + OfType(es, t, m))]
      /\ g = [items |-> g.items, n |-> g.n, last |-> g.last]
  BY <1>1 DEF Grown
<1> HIDE DEF new, number, h
<1>6. /\ g.items \in Seq(Entry) /\ Len(g.items) = p + m /\ DOMAIN g.items = 1..(p + m)
      /\ \A i \in 1..p : g.items[i] = f.items[i]
      /\ \A k \in 1..m : g.items[p + k] = new(k)
  <2>1. f.items \in Seq(Entry) /\ h \in Seq(Entry) /\ Len(h) = m
    BY <1>1, <1>4
  <2>2. /\ f.items \o h \in Seq(Entry) /\ Len(f.items \o h) = p + m
        /\ \A i \in 1..p : (f.items \o h)[i] = f.items[i]
        /\ \A k \in 1..m : (f.items \o h)[p + k] = h[k]
    <3> DEFINE s == f.items
    <3>1. s \in Seq(Entry) /\ h \in Seq(Entry)
      BY <2>1
    <3> HIDE DEF s
    <3>2. /\ s \o h \in Seq(Entry) /\ Len(s \o h) = Len(s) + Len(h)
          /\ \A i \in 1..Len(s) : (s \o h)[i] = s[i]
          /\ \A k \in 1..Len(h) : (s \o h)[Len(s) + k] = h[k]
      BY <3>1, ConcatIs
    <3>3. /\ s \o h \in Seq(Entry) /\ Len(s \o h) = Len(s) + m
          /\ \A i \in 1..Len(s) : (s \o h)[i] = s[i]
          /\ \A k \in 1..m : (s \o h)[Len(s) + k] = h[k]
      BY <2>1, <3>2
    <3> QED
      BY <3>3 DEF s
  <2>3. DOMAIN (f.items \o h) = 1..(p + m)
    BY <2>2, LenProperties
  <2>4. g.items = f.items \o h /\ \A k \in 1..m : h[k] = new(k)
    BY <1>4, <1>5
  <2> HIDE DEF p, m
  <2> QED
    BY <2>2, <2>3, <2>4
<1>7. \A i \in 1..(p + m) : i \in 1..p \/ (i \in (p + 1)..(p + m) /\ \E k \in 1..m : i = p + k)
  BY <1>1, Offsets
<1>8. /\ \A i \in 1..p : i \in 1..(p + m) /\ i \notin (p + 1)..(p + m)
      /\ \A i \in (p + 1)..(p + m) : i \in 1..(p + m) /\ i \notin 1..p
  BY <1>1, Offsets
<1>9. \A k \in 1..m : p + k \in 1..(p + m) /\ p + k \in (p + 1)..(p + m) /\ p + k \notin 1..p
  BY <1>1, Offsets
<1>10. ValidAt(g.items) = ValidAt(f.items) \cup (p + 1)..(p + m)
  <2>1. \A i \in 1..(p + m) : g.items[i].fav <=> (i \in 1..p /\ f.items[i].fav) \/ i \in (p + 1)..(p + m)
    <3> TAKE i \in 1..(p + m)
    <3>1. CASE i \in 1..p
      BY <1>6, <1>8, <3>1
    <3>2. CASE i \in (p + 1)..(p + m)
      <4>1. i \notin 1..p
        BY <1>8, <3>2
      <4>2. PICK k \in 1..m : i = p + k
        BY <1>7, <4>1
      <4>3. g.items[i] = new(k) /\ new(k).fav
        BY <1>3, <1>6, <4>2
      <4> QED
        BY <3>2, <4>3
    <3> QED
      BY <1>7, <3>1, <3>2
  <2>2. (p + 1)..(p + m) \subseteq 1..(p + m)
    BY <1>8
  <2>3. 1..p \subseteq 1..(p + m)
    BY <1>8
  <2> HIDE DEF p, m
  <2>4. ValidAt(g.items) = {i \in 1..(p + m) : g.items[i].fav}
    BY <1>6 DEF ValidAt
  <2>5. ValidAt(f.items) = {i \in 1..p : f.items[i].fav}
    BY <1>1 DEF ValidAt
  <2> QED
    BY <2>1, <2>2, <2>3, <2>4, <2>5
<1>11. \A i \in DOMAIN g.items : Proper(g.items[i])
  <2>1. \A i \in 1..p : Proper(f.items[i])
    BY <1>1 DEF Sound
  <2> HIDE DEF p, m
  <2>2. ASSUME NEW i \in 1..(p + m) PROVE Proper(g.items[i])
    <3>1. CASE i \in 1..p
      BY <1>6, <2>1, <3>1
    <3>2. CASE \E k \in 1..m : i = p + k
      <4>1. PICK k \in 1..m : i = p + k
        BY <3>2
      <4> QED
        BY <1>3, <1>6, <4>1
    <3> QED
      BY <1>7, <3>1, <3>2
  <2> QED
    BY <1>6, <2>2
<1>12. ASSUME NEW t \in Types PROVE g.n[t] = Count(g.items, t)
  <2> DEFINE A == {i \in ValidAt(f.items) : f.items[i].type = t}
             B == {j \in 1..m : es[j].type = t}
             C == {i \in (p + 1)..(p + m) : g.items[i].type = t}
             b == [j \in B |-> p + j]
  <2>1. {i \in ValidAt(g.items) : g.items[i].type = t} = A \cup C
    <3>1. ValidAt(f.items) \subseteq 1..p
      BY <1>1 DEF ValidAt
    <3> QED
      BY <1>6, <1>10, <3>1
  <2>2. A \cap C = {}
    <3>1. ValidAt(f.items) \subseteq 1..p
      BY <1>1 DEF ValidAt
    <3> QED
      BY <1>8, <3>1
  <2>3. IsFiniteSet(A) /\ Cardinality(A) = f.n[t] /\ f.n[t] \in Nat
    <3>1. f.n[t] = Count(f.items, t)
      BY DEF Sound
    <3>2. IsFiniteSet(A) /\ Count(f.items, t) \in Nat
      BY <1>1, CountFinite
    <3> QED
      BY <3>1, <3>2 DEF Count
  <2>4. IsFiniteSet(B) /\ Cardinality(B) = OfType(es, t, m)
    <3>1. IsFiniteSet(1..m) /\ B \subseteq 1..m
      BY <1>1, UpToSize
    <3> QED
      BY <3>1, LessSize DEF OfType
  <2>5. /\ b \in [B -> C] /\ \A x, y \in B : b[x] = b[y] => x = y
        /\ \A c \in C : \E x \in B : b[x] = c
    <3>1. \A j \in B : p + j \in C
      BY <1>3, <1>6, <1>9
    <3>2. \A x, y \in B : p + x = p + y => x = y
      <4>1. p \in Int /\ \A x \in B : x \in Int
        BY <1>1
      <4> HIDE DEF B, p
      <4> QED
        BY <4>1
    <3>3. \A c \in C : \E x \in B : p + x = c
      <4> TAKE c \in C
      <4>1. c \in 1..(p + m) /\ c \notin 1..p
        BY <1>8
      <4>2. PICK k \in 1..m : c = p + k
        BY <1>7, <4>1
      <4>3. g.items[c] = new(k) /\ new(k).type = es[k].type
        BY <1>3, <1>6, <4>2
      <4> QED
        BY <4>2, <4>3
    <3> HIDE DEF B, C
    <3> QED
      BY <3>1, <3>2, <3>3
  <2> HIDE DEF A, B, C, b
  <2>6. IsFiniteSet(C) /\ Cardinality(C) = OfType(es, t, m)
    <3>1. IsFiniteSet(C) /\ Cardinality(C) = Cardinality(B)
      BY <2>4, <2>5, SameSize
    <3> QED
      BY <2>4, <3>1
  <2>7. Cardinality(A \cup C) = f.n[t] + OfType(es, t, m)
    <3>1. Cardinality(A \cup C) = Cardinality(A) + Cardinality(C)
      BY <2>2, <2>3, <2>6, DisjointSize
    <3> QED
      BY <2>3, <2>6, <3>1
  <2>8. g.n[t] = f.n[t] + OfType(es, t, m)
    BY <1>5
  <2>9. Count(g.items, t) = Cardinality(A \cup C)
    BY <2>1 DEF Count
  <2> QED
    BY <2>7, <2>8, <2>9
<1>13. /\ g.last \in [{"line", "folder"} -> Int] /\ g.n \in [Types -> Int]
       /\ f.last["folder"] \in Nat /\ OfType(es, "folder", m) \in Nat
       /\ g.last["folder"] = f.last["folder"] + OfType(es, "folder", m)
  <2>1. \A t : OfType(es, t, m) \in Nat
    <3>1. m \in 0..m
      BY <1>1
    <3> QED
      BY <3>1, OfTypeGrows
  <2>2. f.last["folder"] \in Nat
    BY DEF Sound
  <2> HIDE DEF m
  <2>3. \A t \in {"line", "folder"} : NumberOf(t, f.last[t] + OfType(es, t, m)) \in Int
    <3> TAKE t \in {"line", "folder"}
    <3>1. f.last[t] \in Int /\ OfType(es, t, m) \in Nat
      BY <1>1, <2>1
    <3>2. f.last[t] + OfType(es, t, m) \in Int
      BY <3>1
    <3> QED
      BY <3>2, CharType DEF NumberOf
  <2>4. g.last \in [{"line", "folder"} -> Int]
    BY <1>5, <2>3
  <2>5. g.n \in [Types -> Int]
    <3>1. \A t \in Types : f.n[t] + OfType(es, t, m) \in Int
      BY <1>1, <2>1
    <3> QED
      BY <1>5, <3>1
  <2>6. g.last["folder"] = f.last["folder"] + OfType(es, "folder", m)
    BY <1>5 DEF NumberOf
  <2> QED
    BY <2>1, <2>2, <2>4, <2>5, <2>6
<1>14. FoldersAt(g.items) = FoldersAt(f.items) \cup {i \in (p + 1)..(p + m) : g.items[i].type = "folder"}
  <2>1. ValidAt(f.items) \subseteq 1..p
    BY <1>1 DEF ValidAt
  <2> QED
    BY <1>6, <1>10, <2>1 DEF FoldersAt
<1>15. ASSUME NEW i \in FoldersAt(f.items)
       PROVE  /\ i \in 1..p /\ g.items[i].id = f.items[i].id
              /\ g.items[i].id \in Int /\ g.items[i].id <= f.last["folder"]
  <2>1. i \in 1..p
    BY <1>1, <1>15 DEF FoldersAt, ValidAt
  <2>2. Proper(f.items[i]) /\ f.items[i].fav /\ f.items[i].type = "folder"
    BY <1>1, <1>15, <2>1 DEF FoldersAt, ValidAt, Sound
  <2> QED
    BY <1>6, <2>1, <2>2 DEF Proper, Sound
<1>16. ASSUME NEW i \in (p + 1)..(p + m), g.items[i].type = "folder"
       PROVE  \E k \in 1..m : /\ i = p + k /\ es[k].type = "folder"
                              /\ g.items[i].id = f.last["folder"] + OfType(es, "folder", k)
  <2>1. i \in 1..(p + m) /\ i \notin 1..p
    BY <1>1
  <2>2. PICK k \in 1..m : i = p + k
    BY <1>7, <2>1
  <2>3. g.items[i] = new(k)
    BY <1>6, <2>2
  <2> QED
    BY <1>3, <1>16, <2>2, <2>3
<1>17. ASSUME NEW i \in FoldersAt(g.items) PROVE g.items[i].id <= g.last["folder"]
  <2>1. CASE i \in FoldersAt(f.items)
    BY SMTT(40), <1>13, <1>15, <2>1
  <2>2. CASE i \in (p + 1)..(p + m) /\ g.items[i].type = "folder"
    <3>1. PICK k \in 1..m : g.items[i].id = f.last["folder"] + OfType(es, "folder", k)
      BY <1>16, <2>2
    <3>2. OfType(es, "folder", k) <= OfType(es, "folder", m) /\ OfType(es, "folder", k) \in Nat
      <4>1. k \in 0..m /\ m \in 0..m /\ k <= m
        BY <1>1
      <4> QED
        BY <4>1, OfTypeGrows
    <3> QED
      BY <1>13, <3>1, <3>2
  <2> QED
    BY <1>14, <1>17, <2>1, <2>2
<1>18. ASSUME NEW i \in FoldersAt(f.items), NEW j \in (p + 1)..(p + m), g.items[j].type = "folder"
       PROVE  g.items[i].id # g.items[j].id
  <2>1. PICK k \in 1..m : es[k].type = "folder" /\ g.items[j].id = f.last["folder"] + OfType(es, "folder", k)
    BY <1>16, <1>18
  <2>2. OfType(es, "folder", k) \in Nat /\ OfType(es, "folder", k) > 0
    BY <1>2, <2>1, OfTypeGrows
  <2>3. g.items[i].id \in Int /\ g.items[i].id <= f.last["folder"]
    BY <1>15
  <2> QED
    BY <1>13, <2>1, <2>2, <2>3
<1>19. ASSUME NEW i \in (p + 1)..(p + m), g.items[i].type = "folder",
              NEW j \in (p + 1)..(p + m), g.items[j].type = "folder", i # j
       PROVE  g.items[i].id # g.items[j].id
  <2>1. PICK k \in 1..m : /\ i = p + k /\ es[k].type = "folder"
                          /\ g.items[i].id = f.last["folder"] + OfType(es, "folder", k)
    BY <1>16, <1>19
  <2>2. PICK l \in 1..m : /\ j = p + l /\ es[l].type = "folder"
                          /\ g.items[j].id = f.last["folder"] + OfType(es, "folder", l)
    BY <1>16, <1>19
  <2>3. k < l \/ l < k
    BY <1>1, <1>19, <2>1, <2>2
  <2>4. OfType(es, "folder", k) # OfType(es, "folder", l)
    <3>1. OfType(es, "folder", k) \in Nat /\ OfType(es, "folder", l) \in Nat
      BY <1>2
    <3>2. OfType(es, "folder", k) < OfType(es, "folder", l) \/ OfType(es, "folder", l) < OfType(es, "folder", k)
      BY <2>1, <2>2, <2>3, OfTypeGrows
    <3> QED
      BY <3>1, <3>2
  <2>5. /\ OfType(es, "folder", k) \in Nat /\ OfType(es, "folder", l) \in Nat
        /\ f.last["folder"] \in Nat
    BY <1>2, <1>13
  <2>6. f.last["folder"] + OfType(es, "folder", k) # f.last["folder"] + OfType(es, "folder", l)
    BY SMTT(40), <2>4, <2>5
  <2> QED
    BY <2>1, <2>2, <2>6
<1>20. ASSUME NEW i \in FoldersAt(g.items), NEW j \in FoldersAt(g.items), i # j
       PROVE  g.items[i].id # g.items[j].id
  <2>1. CASE i \in FoldersAt(f.items) /\ j \in FoldersAt(f.items)
    BY <1>15, <1>20, <2>1 DEF Sound
  <2> QED
    BY <1>14, <1>18, <1>19, <1>20, <2>1
<1>21. g \in Folder
  <2> HIDE DEF p, m
  <2> QED
    BY <1>5, <1>6, <1>13 DEF Folder
<1>22. g.last["folder"] \in Nat
  BY <1>13
<1>23. Sound(g)
  BY <1>11, <1>12, <1>17, <1>20, <1>21, <1>22 DEF Sound
<1> QED
  BY <1>3, <1>6, <1>10, <1>23 DEF Longer

\* Nothing wraps when the entries es come to f.
Fits(f, es) ==
    /\ f.n["line"] + OfType(es, "line", Len(es)) <= CHAR_MAX
    /\ f.n["folder"] + OfType(es, "folder", Len(es)) <= CHAR_MAX
    /\ f.last["folder"] + OfType(es, "folder", Len(es)) <= CHAR_MAX

\* The numbers that the counts are made of.
LEMMA CountsAre ==
    ASSUME NEW f, Sound(f), NEW es, Flagged(es)
    PROVE  /\ f.items \in Seq(Entry) /\ Len(f.items) \in Nat /\ f.last["line"] \in Int
           /\ f.last["folder"] \in Nat
           /\ Len(es) \in Nat /\ DOMAIN es = 1..Len(es) /\ es \in Seq(Entry)
           /\ \A k \in 1..Len(es) : es[k] \in Entry /\ es[k].fav
           /\ \A t \in Types : f.n[t] \in Nat
           /\ \A t \in Types : \A k \in 0..Len(es) : OfType(es, t, k) \in Nat
           /\ \A t \in Types : \A k \in 0..Len(es) : OfType(es, t, k) <= OfType(es, t, Len(es))
<1>1. /\ f.items \in Seq(Entry) /\ f.last["folder"] \in Nat /\ f.last["line"] \in Int
  BY DEF Sound, Folder
<1>2. \A t \in Types : f.n[t] \in Nat
  BY <1>1, CountFinite DEF Sound
<1>3. es \in Seq(Entry) /\ \A k \in 1..Len(es) : es[k].fav
  BY DEF Flagged
<1>4. Len(es) \in Nat /\ DOMAIN es = 1..Len(es) /\ \A k \in 1..Len(es) : es[k] \in Entry
  BY <1>3, LenProperties, ElementOfSeq
<1>5. Len(f.items) \in Nat
  BY <1>1, LenProperties
<1>6. /\ \A t \in Types : \A k \in 0..Len(es) : OfType(es, t, k) \in Nat
      /\ \A t \in Types : \A k \in 0..Len(es) : OfType(es, t, k) <= OfType(es, t, Len(es))
  <2>1. \A k \in 0..Len(es) : k <= Len(es)
    BY <1>4
  <2>2. Len(es) \in 0..Len(es)
    BY <1>4
  <2> QED
    BY <1>3, <2>1, <2>2, OfTypeGrows
<1> QED
  BY <1>1, <1>2, <1>3, <1>4, <1>5, <1>6

\* Then fav_increase does what it would do without limits.
LEMMA ExtendedIs ==
    ASSUME NEW f, Sound(f), NEW es, Flagged(es), NEW keep, "board" \in keep, Fits(f, es)
    PROVE  Extended(f, es, keep) = Grown(f, es, keep) /\ Small(Grown(f, es, keep))
<1> DEFINE m == Len(es)
<1>1. /\ m \in Nat /\ DOMAIN es = 1..m /\ f.last["folder"] \in Nat /\ CHAR_MAX \in Nat
      /\ \A k \in 1..m : es[k] \in Entry
      /\ \A t \in Types : f.n[t] \in Nat
      /\ \A t \in Types : \A k \in 0..m : OfType(es, t, k) \in Nat
      /\ \A t \in Types : \A k \in 0..m : OfType(es, t, k) <= OfType(es, t, m)
  BY CountsAre, FavAssumption
<1>2. /\ f.n["line"] + OfType(es, "line", m) <= CHAR_MAX
      /\ f.n["folder"] + OfType(es, "folder", m) <= CHAR_MAX
      /\ f.last["folder"] + OfType(es, "folder", m) <= CHAR_MAX
  BY DEF Fits
<1> HIDE DEF m
<1>3. m \in 0..m /\ \A k \in 1..m : k \in 0..m
  BY <1>1
<1>4. "line" \in Types /\ "folder" \in Types
  BY DEF Types
<1>5. \A k \in 0..m : Char(f.last["folder"] + OfType(es, "folder", k)) = f.last["folder"] + OfType(es, "folder", k)
  <2> TAKE k \in 0..m
  <2>1. /\ OfType(es, "folder", k) \in Nat /\ OfType(es, "folder", m) \in Nat
        /\ OfType(es, "folder", k) <= OfType(es, "folder", m)
    BY <1>1, <1>3, <1>4
  <2>2. /\ f.last["folder"] + OfType(es, "folder", k) \in Nat
        /\ f.last["folder"] + OfType(es, "folder", k) <= CHAR_MAX
    BY <1>1, <1>2, <2>1
  <2> QED
    BY <2>2, CharIs
<1>6. \A t \in Types : Stored(t, f.n[t] + OfType(es, t, m)) = f.n[t] + OfType(es, t, m)
  <2> TAKE t \in Types
  <2>1. CASE t = "board"
    BY <2>1 DEF Stored
  <2>2. CASE t # "board"
    <3>1. f.n[t] \in Nat /\ OfType(es, t, m) \in Nat
      BY <1>1, <1>3
    <3>2. t = "line" \/ t = "folder"
      BY <2>2 DEF Types
    <3>3. f.n[t] + OfType(es, t, m) <= CHAR_MAX
      BY <1>2, <3>2
    <3>4. f.n[t] + OfType(es, t, m) \in Nat
      BY <3>1
    <3> QED
      BY <2>2, <3>3, <3>4, CharIs DEF Stored
  <2> QED
    BY <2>1, <2>2
<1>7. \A t \in {"line", "folder"} :
         Char(f.last[t] + OfType(es, t, m)) = NumberOf(t, f.last[t] + OfType(es, t, m))
  BY <1>3, <1>5 DEF NumberOf
<1>8. \A k \in 1..m : es[k].type \notin keep =>
         Char(f.last[es[k].type] + OfType(es, es[k].type, k))
            = NumberOf(es[k].type, f.last[es[k].type] + OfType(es, es[k].type, k))
  BY <1>3, <1>5 DEF NumberOf
<1> DEFINE old(k) == Char(f.last[es[k].type] + OfType(es, es[k].type, k))
           new(k) == NumberOf(es[k].type, f.last[es[k].type] + OfType(es, es[k].type, k))
<1>9. [k \in 1..m |-> IF es[k].type \in keep THEN es[k] ELSE [es[k] EXCEPT !.id = old(k)]]
        = [k \in 1..m |-> IF es[k].type \in keep THEN es[k] ELSE [es[k] EXCEPT !.id = new(k)]]
  <2>1. \A k \in 1..m : es[k].type \notin keep => old(k) = new(k)
    BY <1>8
  <2> HIDE DEF old, new
  <2> QED
    BY <2>1
<1>10. Extended(f, es, keep) = Grown(f, es, keep)
  <2>1. [t \in Types |-> Stored(t, f.n[t] + OfType(es, t, m))] = [t \in Types |-> f.n[t] + OfType(es, t, m)]
    BY <1>6
  <2>2. [t \in {"line", "folder"} |-> Char(f.last[t] + OfType(es, t, m))]
          = [t \in {"line", "folder"} |-> NumberOf(t, f.last[t] + OfType(es, t, m))]
    BY <1>7
  <2> QED
    BY <1>1, <1>9, <2>1, <2>2 DEF Extended, Grown, m
<1>11. Small(Grown(f, es, keep))
  <2>1. /\ Grown(f, es, keep).n = [t \in Types |-> f.n[t] + OfType(es, t, m)]
        /\ Grown(f, es, keep).last = [t \in {"line", "folder"} |-> NumberOf(t, f.last[t] + OfType(es, t, m))]
    BY DEF Grown, m
  <2>2. Grown(f, es, keep).last["folder"] = f.last["folder"] + OfType(es, "folder", m)
    BY <2>1 DEF NumberOf
  <2> QED
    BY <1>2, <1>4, <2>1, <2>2 DEF Small
<1> QED
  BY <1>10, <1>11

\* In any case the same entries come behind those of f, but for their numbers.
LEMMA ExtendedParts ==
    ASSUME NEW f, Sound(f), NEW es, Flagged(es), NEW keep, "board" \in keep,
           NEW g, g = Extended(f, es, keep), NEW h, h = Grown(f, es, keep)
    PROVE  /\ g \in Folder /\ ValidAt(g.items) = ValidAt(h.items)
           /\ \A i \in ValidAt(h.items) : g.items[i].sub = h.items[i].sub
           /\ \A k \in 1..Len(es) : es[k].type \notin keep =>
                 /\ Len(f.items) + k \in ValidAt(g.items)
                 /\ g.items[Len(f.items) + k].type = es[k].type
                 /\ g.items[Len(f.items) + k].id
                       = Char(f.last[es[k].type] + OfType(es, es[k].type, k))
<1> DEFINE p == Len(f.items)
           m == Len(es)
           number(k) == f.last[es[k].type] + OfType(es, es[k].type, k)
           old(k) == IF es[k].type \in keep THEN es[k] ELSE [es[k] EXCEPT !.id = Char(number(k))]
           new(k) == IF es[k].type \in keep THEN es[k]
                     ELSE [es[k] EXCEPT !.id = NumberOf(es[k].type, number(k))]
           a == [k \in 1..m |-> old(k)]
           b == [k \in 1..m |-> new(k)]
<1>1. /\ f.items \in Seq(Entry) /\ p \in Nat /\ f.last["folder"] \in Nat /\ f.last["line"] \in Int
      /\ m \in Nat /\ DOMAIN es = 1..m
      /\ \A k \in 1..m : es[k] \in Entry /\ es[k].fav
      /\ \A t \in Types : f.n[t] \in Nat
      /\ \A t \in Types : \A k \in 0..m : OfType(es, t, k) \in Nat
  BY CountsAre
<1>2. /\ g.items = f.items \o a /\ h.items = f.items \o b
      /\ g.n = [t \in Types |-> Stored(t, f.n[t] + OfType(es, t, m))]
      /\ g.last = [t \in {"line", "folder"} |-> Char(f.last[t] + OfType(es, t, m))]
      /\ g = [items |-> g.items, n |-> g.n, last |-> g.last]
  BY <1>1 DEF Extended, Grown
<1> HIDE DEF p, m
<1>3. ASSUME NEW k \in 1..m, es[k].type \notin keep PROVE number(k) \in Int
  <2>1. es[k].type \in {"line", "folder"} /\ es[k].type \in Types
    BY <1>1, <1>3 DEF Entry, Types
  <2>2. OfType(es, es[k].type, k) \in Nat
    <3>1. k \in 0..m
      BY <1>1
    <3> QED
      BY <1>1, <2>1, <3>1
  <2>3. f.last[es[k].type] \in Int
    BY <1>1, <2>1
  <2> QED
    BY <2>2, <2>3
<1> HIDE DEF number
<1>4. ASSUME NEW k \in 1..m
      PROVE  /\ old(k) \in Entry /\ new(k) \in Entry
             /\ old(k).fav /\ new(k).fav /\ old(k).sub = new(k).sub
             /\ es[k].type \notin keep => old(k).type = es[k].type /\ old(k).id = Char(number(k))
  <2>1. es[k] \in Entry /\ es[k].fav
    BY <1>1
  <2>2. CASE es[k].type \in keep
    BY <2>1, <2>2
  <2>3. CASE es[k].type \notin keep
    <3>1. Char(number(k)) \in Int /\ NumberOf(es[k].type, number(k)) \in Int
      BY <1>3, <2>3, CharType DEF NumberOf
    <3>2. /\ old(k) = [es[k] EXCEPT !.id = Char(number(k))]
          /\ new(k) = [es[k] EXCEPT !.id = NumberOf(es[k].type, number(k))]
      BY <2>3
    <3> DEFINE x == Char(number(k))
               y == NumberOf(es[k].type, number(k))
    <3> HIDE DEF old, new, x, y
    <3>3. \A z \in Int : /\ [es[k] EXCEPT !.id = z] \in Entry
                         /\ [es[k] EXCEPT !.id = z].fav = es[k].fav
                         /\ [es[k] EXCEPT !.id = z].sub = es[k].sub
                         /\ [es[k] EXCEPT !.id = z].type = es[k].type
                         /\ [es[k] EXCEPT !.id = z].id = z
      BY <2>1 DEF Entry
    <3>4. x \in Int /\ y \in Int /\ old(k) = [es[k] EXCEPT !.id = x] /\ new(k) = [es[k] EXCEPT !.id = y]
      BY <3>1, <3>2 DEF x, y
    <3>5. old(k).id = x /\ old(k).type = es[k].type
      BY <3>3, <3>4
    <3>6. /\ old(k) \in Entry /\ new(k) \in Entry
          /\ old(k).fav = es[k].fav /\ new(k).fav = es[k].fav
          /\ old(k).sub = es[k].sub /\ new(k).sub = es[k].sub
      BY <3>3, <3>4
    <3>7. old(k).id = Char(number(k))
      BY <3>5 DEF x
    <3> QED
      BY <2>1, <3>5, <3>6, <3>7
  <2> QED
    BY <2>2, <2>3
<1> HIDE DEF old, new
<1>5. /\ a \in Seq(Entry) /\ Len(a) = m /\ \A k \in 1..m : a[k] = old(k)
      /\ b \in Seq(Entry) /\ Len(b) = m /\ \A k \in 1..m : b[k] = new(k)
  <2>1. a \in [1..m -> Entry] /\ b \in [1..m -> Entry]
    BY <1>4
  <2>2. a \in Seq(Entry) /\ b \in Seq(Entry)
    BY <1>1, <2>1
  <2> QED
    BY <1>1, <2>2, LenProperties
<1> HIDE DEF a, b
<1>6. /\ g.items \in Seq(Entry) /\ h.items \in Seq(Entry)
      /\ DOMAIN g.items = 1..(p + m) /\ DOMAIN h.items = 1..(p + m)
      /\ \A i \in 1..p : g.items[i] = f.items[i] /\ h.items[i] = f.items[i]
      /\ \A k \in 1..m : g.items[p + k] = old(k) /\ h.items[p + k] = new(k)
  <2> DEFINE s == f.items
  <2>1. s \in Seq(Entry) /\ Len(s) = p
    BY <1>1 DEF p
  <2> HIDE DEF s
  <2>2. /\ s \o a \in Seq(Entry) /\ Len(s \o a) = p + m
        /\ \A i \in 1..p : (s \o a)[i] = s[i]
        /\ \A k \in 1..m : (s \o a)[p + k] = a[k]
    <3>1. s \in Seq(Entry) /\ a \in Seq(Entry)
      BY <1>5, <2>1
    <3>2. /\ s \o a \in Seq(Entry) /\ Len(s \o a) = Len(s) + Len(a)
          /\ \A i \in 1..Len(s) : (s \o a)[i] = s[i]
          /\ \A k \in 1..Len(a) : (s \o a)[Len(s) + k] = a[k]
      BY <3>1, ConcatIs
    <3> QED
      BY <1>5, <2>1, <3>2
  <2>3. /\ s \o b \in Seq(Entry) /\ Len(s \o b) = p + m
        /\ \A i \in 1..p : (s \o b)[i] = s[i]
        /\ \A k \in 1..m : (s \o b)[p + k] = b[k]
    <3>1. s \in Seq(Entry) /\ b \in Seq(Entry)
      BY <1>5, <2>1
    <3>2. /\ s \o b \in Seq(Entry) /\ Len(s \o b) = Len(s) + Len(b)
          /\ \A i \in 1..Len(s) : (s \o b)[i] = s[i]
          /\ \A k \in 1..Len(b) : (s \o b)[Len(s) + k] = b[k]
      BY <3>1, ConcatIs
    <3> QED
      BY <1>5, <2>1, <3>2
  <2>4. DOMAIN (s \o a) = 1..(p + m) /\ DOMAIN (s \o b) = 1..(p + m)
    BY <2>2, <2>3, LenProperties
  <2>5. g.items = s \o a /\ h.items = s \o b
    BY <1>2 DEF s
  <2> QED
    BY <1>5, <2>2, <2>3, <2>4, <2>5 DEF s
<1>7. \A i \in 1..(p + m) : g.items[i].fav = h.items[i].fav /\ g.items[i].sub = h.items[i].sub
  <2> TAKE i \in 1..(p + m)
  <2>1. CASE i \in 1..p
    BY <1>6, <2>1
  <2>2. CASE i \notin 1..p
    <3>1. PICK k \in 1..m : i = p + k
      BY <1>1, <2>2, Offsets
    <3>2. old(k).fav = TRUE /\ new(k).fav = TRUE
      BY <1>4 DEF Entry
    <3> QED
      BY <1>4, <1>6, <3>1, <3>2
  <2> QED
    BY <2>1, <2>2
<1>8. ValidAt(g.items) = ValidAt(h.items) /\ ValidAt(h.items) \subseteq 1..(p + m)
  BY <1>6, <1>7 DEF ValidAt
<1>9. g \in Folder
  <2>1. 0 \in 0..m /\ m \in 0..m
    BY <1>1
  <2>2. \A t \in Types : f.n[t] + OfType(es, t, m) \in Int
    BY <1>1, <2>1
  <2>3. \A t \in {"line", "folder"} : t \in Types /\ f.last[t] \in Int
    BY <1>1 DEF Types
  <2>4. \A t \in {"line", "folder"} : f.last[t] + OfType(es, t, m) \in Int
    BY <1>1, <2>1, <2>3
  <2>5. g.n \in [Types -> Int]
    <3>1. \A t \in Types : Stored(t, f.n[t] + OfType(es, t, m)) \in Int
      BY <2>2, CharType DEF Stored
    <3> QED
      BY <1>2, <3>1
  <2>6. g.last \in [{"line", "folder"} -> Int]
    <3>1. \A t \in {"line", "folder"} : Char(f.last[t] + OfType(es, t, m)) \in Int
      BY <2>4, CharType
    <3> QED
      BY <1>2, <3>1
  <2> QED
    BY <1>2, <1>6, <2>5, <2>6 DEF Folder
<1>10. ASSUME NEW k \in 1..m, es[k].type \notin keep
       PROVE  /\ p + k \in ValidAt(g.items) /\ g.items[p + k].type = es[k].type
              /\ g.items[p + k].id = Char(number(k))
  <2>1. p + k \in 1..(p + m)
    BY <1>1, Offsets
  <2> QED
    BY <1>4, <1>6, <1>10, <2>1 DEF ValidAt
<1> QED
  BY <1>7, <1>8, <1>9, <1>10 DEF p, m, number

\* The numbers of folders have not wrapped if none of them is less than 1.
LEMMA NumbersFit ==
    ASSUME NEW f, Sound(f), Small(f), NEW es, Flagged(es), NEW keep,
           "board" \in keep, "folder" \notin keep, NEW g, g = Extended(f, es, keep),
           \A i \in ValidAt(g.items) : g.items[i].type = "folder" => g.items[i].id >= 1
    PROVE  f.last["folder"] + OfType(es, "folder", Len(es)) <= CHAR_MAX
<1> DEFINE m == Len(es)
           c(k) == OfType(es, "folder", k)
           last == f.last["folder"]
           T == {k \in 0..m : last + c(k) > CHAR_MAX}
<1>1. /\ m \in Nat /\ last \in Nat /\ CHAR_MAX \in Nat /\ last <= CHAR_MAX
      /\ \A k \in 0..m : c(k) \in Nat
  <2>1. last \in Nat /\ last <= CHAR_MAX
    BY CountsAre DEF Small
  <2>2. CHAR_MAX \in Nat
    BY FavAssumption
  <2>3. m \in Nat /\ \A k \in 0..m : c(k) \in Nat
    BY CountsAre DEF Types
  <2> QED
    BY <2>1, <2>2, <2>3
<1>2. c(0) = 0
  <2>1. {j \in 1..0 : es[j].type = "folder"} = {}
    OBVIOUS
  <2> QED
    BY <2>1, FS_EmptySet DEF OfType
<1>3. ASSUME NEW k \in 1..m
      PROVE  /\ es[k].type = "folder" => c(k) = c(k - 1) + 1
             /\ es[k].type # "folder" => c(k) = c(k - 1)
  <2> DEFINE A(l) == {j \in 1..l : es[j].type = "folder"}
  <2>1. k - 1 \in 0..m /\ k - 1 \in Nat /\ IsFiniteSet(1..(k - 1)) /\ k \notin 1..(k - 1)
    BY <1>1, UpToSize
  <2>2. 1..k = 1..(k - 1) \cup {k}
    BY <1>1
  <2>3. IsFiniteSet(A(k - 1)) /\ k \notin A(k - 1) /\ Cardinality(A(k - 1)) \in Nat
    <3>1. A(k - 1) \subseteq 1..(k - 1)
      OBVIOUS
    <3> HIDE DEF A
    <3> QED
      BY <2>1, <3>1, LessSize
  <2>4. es[k].type = "folder" => A(k) = A(k - 1) \cup {k}
    BY <2>2
  <2>5. es[k].type # "folder" => A(k) = A(k - 1)
    BY <2>2
  <2>6. c(k) = Cardinality(A(k)) /\ c(k - 1) = Cardinality(A(k - 1))
    BY DEF OfType
  <2> HIDE DEF A, c
  <2>7. Cardinality(A(k - 1) \cup {k}) = Cardinality(A(k - 1)) + 1
    BY <2>3, FS_AddElement
  <2> QED
    BY <2>4, <2>5, <2>6, <2>7
<1> HIDE DEF m, c, last
<1>4. SUFFICES ASSUME T # {} PROVE FALSE
  <2>1. m \in 0..m
    BY <1>1
  <2>2. m \in T \/ ~ (last + c(m) > CHAR_MAX)
    BY <2>1
  <2>3. T = {} => last + c(m) <= CHAR_MAX
    BY <1>1, <2>1, <2>2
  <2> QED
    BY <2>3 DEF m, c, last
<1>5. PICK k \in T : \A l \in T : k <= l
  <2>1. T \subseteq Nat
    BY <1>1
  <2> HIDE DEF T
  <2> QED
    BY <1>4, <2>1, LeastNatural
<1>6. k # 0 /\ k \in 1..m /\ last + c(k) > CHAR_MAX
  BY <1>1, <1>2, <1>5
<1>7. k - 1 \in 0..m /\ k - 1 \notin T
  BY <1>1, <1>5, <1>6
<1>8. last + c(k - 1) <= CHAR_MAX /\ c(k - 1) \in Nat /\ c(k) \in Nat
  BY <1>1, <1>6, <1>7
<1>9. es[k].type = "folder" /\ last + c(k) = CHAR_MAX + 1
  BY <1>1, <1>3, <1>6, <1>8
<1>10. Char(last + c(k)) < 1
  BY <1>1, <1>9, CharIs
<1>11. /\ Len(f.items) + k \in ValidAt(g.items)
       /\ g.items[Len(f.items) + k].type = "folder"
       /\ g.items[Len(f.items) + k].id = Char(last + c(k))
  <2>1. \A j \in 1..Len(es) : es[j].type \notin keep =>
            /\ Len(f.items) + j \in ValidAt(g.items)
            /\ g.items[Len(f.items) + j].type = es[j].type
            /\ g.items[Len(f.items) + j].id = Char(f.last[es[j].type] + OfType(es, es[j].type, j))
    BY ExtendedParts
  <2> QED
    BY <1>6, <1>9, <2>1 DEF m, last, c
<1>12. Char(last + c(k)) >= 1 /\ Char(last + c(k)) \in Int
  <2>1. last + c(k) \in Int
    BY <1>1, <1>8
  <2> QED
    BY <1>11, <2>1, CharType
<1> QED
  BY <1>10, <1>12

\* The counts have not wrapped if they are not less than the entries.
LEMMA CountsKeepUp ==
    ASSUME NEW f, Sound(f), NEW es, Flagged(es), NEW keep, "board" \in keep,
           "folder" \notin keep, NEW g, g = Extended(f, es, keep),
           Cardinality(ValidAt(g.items)) <= get_data_number(g)
    PROVE  /\ f.n["line"] + OfType(es, "line", Len(es)) <= CHAR_MAX
           /\ f.n["folder"] + OfType(es, "folder", Len(es)) <= CHAR_MAX
<1> DEFINE m == Len(es)
           h == Grown(f, es, keep)
           x(t) == f.n[t] + OfType(es, t, m)
<1>1. /\ m \in Nat /\ \A t \in Types : f.n[t] \in Nat
      /\ \A t \in Types : \A k \in 0..m : OfType(es, t, k) \in Nat
  BY CountsAre
<1>2. \A t \in Types : x(t) \in Nat
  <2>1. m \in 0..m
    BY <1>1
  <2> HIDE DEF m
  <2> QED
    BY <1>1, <2>1
<1>3. /\ g.n = [t \in Types |-> Stored(t, x(t))] /\ h.n = [t \in Types |-> x(t)]
      /\ {"board", "line", "folder"} = Types
  BY DEF Extended, Grown, Types
<1>4. Cardinality(ValidAt(h.items)) = get_data_number(h)
  <2>1. Sound(h)
    BY GrownIs
  <2> QED
    BY <2>1, CountsAdd
<1>5. ValidAt(g.items) = ValidAt(h.items)
  BY ExtendedParts
<1> HIDE DEF h, x
<1>6. get_data_number(h) = x("board") + x("line") + x("folder")
  BY <1>3 DEF get_data_number
<1>7. get_data_number(g) = x("board") + Char(x("line")) + Char(x("folder"))
  BY <1>3 DEF get_data_number, Stored
<1>8. /\ Char(x("line")) \in Int /\ Char(x("line")) <= x("line") /\ Char(x("line")) <= CHAR_MAX
      /\ Char(x("folder")) \in Int /\ Char(x("folder")) <= x("folder") /\ Char(x("folder")) <= CHAR_MAX
      /\ x("board") \in Nat /\ x("line") \in Nat /\ x("folder") \in Nat /\ CHAR_MAX \in Nat
  BY <1>2, <1>3, CharIs, FavAssumption
<1>9. x("line") <= CHAR_MAX /\ x("folder") <= CHAR_MAX
  BY <1>4, <1>5, <1>6, <1>7, <1>8
<1> QED
  BY <1>9 DEF x

\* Entries at P lose their flag and the counts go down with them, whatever
\* happens to entries without it.
LessBy(f, g, P) ==
    /\ g \in Folder /\ Len(g.items) = Len(f.items) /\ g.last = f.last
    /\ \A i \in 1..Len(f.items) : Proper(g.items[i])
    /\ ValidAt(g.items) = ValidAt(f.items) \ P
    /\ \A i \in ValidAt(f.items) \ P :
           g.items[i].type = f.items[i].type /\ g.items[i].id = f.items[i].id
    /\ \A t \in Types : g.n[t] = f.n[t] - Cardinality({i \in P : f.items[i].type = t})

\* A folder stays in order then.
LEMMA StillSound ==
    ASSUME NEW f, Sound(f), NEW P, P \subseteq ValidAt(f.items), NEW g, LessBy(f, g, P)
    PROVE  Sound(g)
<1> USE DEF LessBy
<1> DEFINE V == ValidAt(f.items)
           W == ValidAt(g.items)
<1>1. f.items \in Seq(Entry) /\ g.items \in Seq(Entry)
  BY DEF Sound, Folder
<1>2. DOMAIN g.items = 1..Len(f.items)
  BY <1>1, LenProperties
<1>3. W = V \ P
  OBVIOUS
<1>4. \A i \in W : g.items[i].type = f.items[i].type /\ g.items[i].id = f.items[i].id
  OBVIOUS
<1>5. ASSUME NEW t \in Types PROVE g.n[t] = Count(g.items, t)
  <2> DEFINE A == {i \in V : f.items[i].type = t}
             B == {i \in P : f.items[i].type = t}
             C == {i \in W : g.items[i].type = t}
  <2>1. C = A \ B /\ B \subseteq A
    <3> HIDE DEF V, W
    <3>1. P \subseteq V
      BY DEF V
    <3> QED
      BY <1>3, <1>4, <3>1
  <2>2. IsFiniteSet(A) /\ Cardinality(A) = f.n[t]
    <3>1. IsFiniteSet(A)
      BY ZenonT(60), <1>1, CountFinite
    <3>2. f.n[t] = Cardinality(A)
      BY DEF Sound, Count
    <3> QED
      BY <3>1, <3>2
  <2>3. g.n[t] = f.n[t] - Cardinality(B) /\ Count(g.items, t) = Cardinality(C)
    BY DEF Count
  <2> HIDE DEF A, B, C
  <2>4. Cardinality(C) = Cardinality(A) - Cardinality(B)
    BY <2>1, <2>2, LessSize
  <2> QED
    BY <2>2, <2>3, <2>4
<1>6. FoldersAt(g.items) \subseteq FoldersAt(f.items)
  <2> HIDE DEF V, W
  <2> QED
    BY <1>3, <1>4 DEF FoldersAt, V, W
<1>7. \A i \in FoldersAt(g.items) : g.items[i].id = f.items[i].id
  BY <1>4 DEF FoldersAt
<1>8. \A i \in FoldersAt(g.items) : g.items[i].id <= g.last["folder"]
  BY <1>6, <1>7 DEF Sound
<1>9. \A i, j \in FoldersAt(g.items) : i # j => g.items[i].id # g.items[j].id
  BY <1>6, <1>7 DEF Sound
<1> QED
  BY <1>2, <1>5, <1>8, <1>9 DEF Sound

\* The parts of a folder.
LEMMA SoundParts ==
    ASSUME NEW f, Sound(f)
    PROVE  /\ f.items \in Seq(Entry) /\ f.n \in [Types -> Int]
           /\ f.last \in [{"line", "folder"} -> Int] /\ f.last["folder"] \in Nat
           /\ Len(f.items) \in Nat /\ DOMAIN f.items = 1..Len(f.items)
           /\ ValidAt(f.items) \subseteq 1..Len(f.items)
           /\ IsFiniteSet(ValidAt(f.items)) /\ Cardinality(ValidAt(f.items)) \in Nat
           /\ \A i \in 1..Len(f.items) : Proper(f.items[i]) /\ f.items[i] \in Entry
           /\ \A i \in ValidAt(f.items) : f.items[i].fav = TRUE
<1>1. /\ f.items \in Seq(Entry) /\ f.n \in [Types -> Int]
      /\ f.last \in [{"line", "folder"} -> Int] /\ f.last["folder"] \in Nat
  BY DEF Sound, Folder
<1>2. Len(f.items) \in Nat /\ DOMAIN f.items = 1..Len(f.items)
  BY <1>1, LenProperties
<1>3. \A i \in 1..Len(f.items) : Proper(f.items[i]) /\ f.items[i] \in Entry
  BY <1>2 DEF Sound, Proper
<1>4. \A i \in ValidAt(f.items) : f.items[i].fav = TRUE
  BY <1>2, <1>3 DEF ValidAt, Entry
<1>5. /\ ValidAt(f.items) \subseteq 1..Len(f.items)
      /\ IsFiniteSet(ValidAt(f.items)) /\ Cardinality(ValidAt(f.items)) \in Nat
  BY <1>1, ValidFinite
<1> QED
  BY <1>1, <1>2, <1>3, <1>4, <1>5

\* The entries at P have lost their flag and tag.
Loses(f, g, P) ==
    /\ Sound(g) /\ Len(g.items) = Len(f.items)
    /\ ValidAt(g.items) = ValidAt(f.items) \ P
    /\ \A i \in 1..Len(f.items) \ P : g.items[i] = f.items[i]
    /\ \A i \in P : ~ g.items[i].tag

\* fav_remove for each of some valid entries.
LEMMA RemovedIs ==
    ASSUME NEW f, Sound(f), NEW P, P \subseteq ValidAt(f.items), NEW moved \in BOOLEAN,
           NEW g, g = Removed(f, P, moved)
    PROVE  Loses(f, g, P)
<1> USE DEF Loses
<1> DEFINE V == ValidAt(f.items)
           id(i) == IF moved /\ f.items[i].type = "folder" THEN Gone ELSE f.items[i].id
           left(i) == [f.items[i] EXCEPT !.fav = FALSE, !.tag = FALSE, !.id = id(i)]
           h == [i \in 1..Len(f.items) |-> IF i \notin P THEN f.items[i] ELSE left(i)]
<1>1. /\ f.items \in Seq(Entry) /\ f.n \in [Types -> Int] /\ f.last \in [{"line", "folder"} -> Int]
      /\ Len(f.items) \in Nat /\ DOMAIN f.items = 1..Len(f.items)
      /\ V \subseteq 1..Len(f.items)
      /\ \A i \in 1..Len(f.items) : Proper(f.items[i]) /\ f.items[i] \in Entry
      /\ IsFiniteSet(V)
  BY SoundParts
<1>2. ASSUME NEW i \in 1..Len(f.items)
      PROVE  left(i) \in Entry /\ Proper(left(i)) /\ left(i).fav = FALSE /\ left(i).tag = FALSE
  <2>1. id(i) \in FavBoards \cup Int \cup {Gone} /\ f.items[i] \in Entry
    BY <1>1 DEF Entry
  <2> HIDE DEF id
  <2>2. left(i) \in Entry /\ left(i).fav = FALSE /\ left(i).tag = FALSE
    BY <2>1 DEF Entry
  <2> QED
    BY <2>2 DEF Proper
<1>3. /\ g.items = h /\ g.last = f.last
      /\ g.n = [t \in Types |-> f.n[t] - Cardinality({i \in P : f.items[i].type = t})]
      /\ g = [items |-> g.items, n |-> g.n, last |-> g.last]
  BY <1>1 DEF Removed
<1> HIDE DEF left
<1>4. h \in Seq(Entry) /\ Len(h) = Len(f.items)
  <2>1. h \in [1..Len(f.items) -> Entry]
    BY <1>1, <1>2
  <2>2. h \in Seq(Entry)
    BY <1>1, <2>1
  <2> QED
    BY <1>1, <2>2, LenProperties
<1>5. /\ \A i \in 1..Len(f.items) \ P : g.items[i] = f.items[i]
      /\ \A i \in P : g.items[i] = left(i)
  BY <1>1, <1>3
<1>6. DOMAIN g.items = 1..Len(f.items)
  BY <1>3
<1> HIDE DEF h
<1>7. ValidAt(g.items) = V \ P
  <2>1. \A i \in P : ~ g.items[i].fav
    BY <1>1, <1>2, <1>5
  <2>2. V = {i \in 1..Len(f.items) : f.items[i].fav}
    BY <1>1 DEF ValidAt
  <2>3. ValidAt(g.items) = {i \in 1..Len(f.items) : g.items[i].fav}
    BY <1>6 DEF ValidAt
  <2> HIDE DEF V
  <2> QED
    BY <1>5, <2>1, <2>2, <2>3
<1>8. \A t \in Types : Cardinality({i \in P : f.items[i].type = t}) \in Nat
  <2> TAKE t \in Types
  <2>1. {i \in P : f.items[i].type = t} \subseteq V
    OBVIOUS
  <2> HIDE DEF V
  <2> QED
    BY <1>1, <2>1, LessSize
<1>9. g \in Folder
  <2>1. ASSUME NEW t \in Types
        PROVE  f.n[t] - Cardinality({i \in P : f.items[i].type = t}) \in Int
    <3>1. f.n[t] \in Int /\ Cardinality({i \in P : f.items[i].type = t}) \in Int
      BY <1>1, <1>8
    <3> QED
      BY <3>1
  <2>2. g.n \in [Types -> Int]
    BY <1>3, <2>1
  <2> QED
    BY <1>1, <1>3, <1>4, <2>2 DEF Folder
<1>10. \A i \in 1..Len(f.items) : Proper(g.items[i])
  <2> TAKE i \in 1..Len(f.items)
  <2>1. CASE i \in P
    BY <1>2, <1>5, <2>1
  <2>2. CASE i \notin P
    BY <1>1, <1>5, <2>2
  <2> QED
    BY <2>1, <2>2
<1>11. \A t \in Types : g.n[t] = f.n[t] - Cardinality({i \in P : f.items[i].type = t})
  BY <1>3
<1>12. \A i \in V \ P : g.items[i].type = f.items[i].type /\ g.items[i].id = f.items[i].id
  BY <1>1, <1>5
<1>13. Len(g.items) = Len(f.items) /\ g.last = f.last
  BY <1>3, <1>4
<1>14. Sound(g)
  <2>1. LessBy(f, g, P)
    BY <1>7, <1>9, <1>10, <1>11, <1>12, <1>13 DEF LessBy
  <2> QED
    BY <2>1, StillSound
<1>15. \A i \in P : ~ g.items[i].tag
  BY <1>1, <1>2, <1>5
<1> QED
  BY <1>5, <1>7, <1>13, <1>14, <1>15

\* The entries at P have the tag bit now.
Ticked(f, g, P, bit) ==
    /\ Sound(g) /\ Len(g.items) = Len(f.items) /\ g.n = f.n
    /\ ValidAt(g.items) = ValidAt(f.items)
    /\ \A i \in 1..Len(f.items) \ P : g.items[i] = f.items[i]
    /\ \A i \in P : g.items[i] = [f.items[i] EXCEPT !.tag = bit]
    /\ \A i \in 1..Len(f.items) :
          /\ g.items[i].type = f.items[i].type /\ g.items[i].id = f.items[i].id
          /\ g.items[i].sub = f.items[i].sub /\ g.items[i].fav = f.items[i].fav
    /\ \A i \in P : g.items[i].tag = bit

\* set_attr of the tag of valid entries.
LEMMA TagSetIs ==
    ASSUME NEW f, Sound(f), NEW P, P \subseteq ValidAt(f.items), NEW bit \in BOOLEAN,
           NEW g, g = TagSet(f, P, bit)
    PROVE  Ticked(f, g, P, bit)
<1> USE DEF Ticked
<1> DEFINE V == ValidAt(f.items)
           set(i) == [f.items[i] EXCEPT !.tag = bit]
           h == [i \in 1..Len(f.items) |-> IF i \in P THEN set(i) ELSE f.items[i]]
<1>1. /\ f.items \in Seq(Entry) /\ f.n \in [Types -> Int] /\ f.last \in [{"line", "folder"} -> Int]
      /\ Len(f.items) \in Nat /\ DOMAIN f.items = 1..Len(f.items)
      /\ V \subseteq 1..Len(f.items)
      /\ \A i \in 1..Len(f.items) : Proper(f.items[i]) /\ f.items[i] \in Entry
      /\ \A i \in V : f.items[i].fav = TRUE
  BY SoundParts
<1>2. ASSUME NEW i \in 1..Len(f.items)
      PROVE  /\ set(i) \in Entry /\ set(i).tag = bit
             /\ set(i).type = f.items[i].type /\ set(i).id = f.items[i].id
             /\ set(i).sub = f.items[i].sub /\ set(i).fav = f.items[i].fav
             /\ i \in P => Proper(set(i))
  <2>1. f.items[i] \in Entry /\ Proper(f.items[i]) /\ (i \in P => f.items[i].fav = TRUE)
    BY <1>1
  <2>2. /\ set(i) \in Entry /\ set(i).tag = bit
        /\ set(i).type = f.items[i].type /\ set(i).id = f.items[i].id
        /\ set(i).sub = f.items[i].sub /\ set(i).fav = f.items[i].fav
    BY <2>1 DEF Entry
  <2> HIDE DEF set
  <2>3. i \in P => Proper(set(i))
    BY <2>1, <2>2 DEF Proper
  <2> QED
    BY <2>2, <2>3
<1>3. /\ g.items = h /\ g.last = f.last /\ g.n = f.n
      /\ g = [items |-> g.items, n |-> g.n, last |-> g.last]
  <2>1. f \in Folder
    BY DEF Sound
  <2>2. g = [f EXCEPT !.items = h]
    BY <1>1 DEF TagSet
  <2> HIDE DEF h
  <2> QED
    BY <2>1, <2>2 DEF Folder
<1> HIDE DEF set
<1>4. h \in Seq(Entry) /\ Len(h) = Len(f.items)
  <2>1. h \in [1..Len(f.items) -> Entry]
    BY <1>1, <1>2
  <2>2. h \in Seq(Entry)
    BY <1>1, <2>1
  <2> QED
    BY <1>1, <2>2, LenProperties
<1>5. /\ \A i \in 1..Len(f.items) \ P : g.items[i] = f.items[i]
      /\ \A i \in P : i \in 1..Len(f.items) /\ g.items[i] = set(i)
  BY <1>1, <1>3
<1>6. DOMAIN g.items = 1..Len(f.items)
  BY <1>3
<1> HIDE DEF h
<1>7. \A i \in 1..Len(f.items) :
         /\ g.items[i].type = f.items[i].type /\ g.items[i].id = f.items[i].id
         /\ g.items[i].sub = f.items[i].sub /\ g.items[i].fav = f.items[i].fav
         /\ Proper(g.items[i])
  BY <1>1, <1>2, <1>5
<1>8. ValidAt(g.items) = V
  BY <1>1, <1>6, <1>7 DEF ValidAt
<1>9. g \in Folder
  BY <1>1, <1>3, <1>4 DEF Folder
<1>10. \A t \in Types : g.n[t] = f.n[t] - Cardinality({i \in {} : f.items[i].type = t})
  <2> TAKE t \in Types
  <2>1. {i \in {} : f.items[i].type = t} = {} /\ f.n[t] \in Int
    BY <1>1
  <2> QED
    BY <1>3, <2>1, FS_EmptySet
<1>11. Len(g.items) = Len(f.items) /\ g.last = f.last
  BY <1>3, <1>4
<1>12. Sound(g)
  <2>1. ValidAt(g.items) = V \ {} /\ {} \subseteq V
    BY <1>8
  <2>2. \A i \in V \ {} : g.items[i].type = f.items[i].type /\ g.items[i].id = f.items[i].id
    BY <1>1, <1>7
  <2>3. \A i \in 1..Len(f.items) : Proper(g.items[i])
    BY <1>7
  <2>4. LessBy(f, g, {})
    BY <1>9, <1>10, <1>11, <2>1, <2>2, <2>3 DEF LessBy
  <2> QED
    BY <2>1, <2>4, StillSound
<1>13. /\ \A i \in P : g.items[i].tag = bit
       /\ \A i \in P : g.items[i] = [f.items[i] EXCEPT !.tag = bit]
  BY ZenonT(60), <1>2, <1>5 DEF set
<1> QED
  BY <1>3, <1>5, <1>7, <1>8, <1>11, <1>12, <1>13

\* The entries in another order, p telling where each comes from.
Reordered(f, g, p) ==
    /\ p \in [1..Len(f.items) -> 1..Len(f.items)]
    /\ \A i, j \in 1..Len(f.items) : p[i] = p[j] => i = j
    /\ \A j \in 1..Len(f.items) : \E i \in 1..Len(f.items) : p[i] = j
    /\ g = [f EXCEPT !.items = [i \in 1..Len(f.items) |-> f.items[p[i]]]]

LEMMA ReorderedIs ==
    ASSUME NEW f, Sound(f), NEW p, NEW g, Reordered(f, g, p)
    PROVE  /\ Sound(g) /\ Len(g.items) = Len(f.items)
           /\ \A i \in 1..Len(f.items) : g.items[i] = f.items[p[i]]
           /\ ValidAt(g.items) = {i \in 1..Len(f.items) : p[i] \in ValidAt(f.items)}
<1> DEFINE n == Len(f.items)
           V == ValidAt(f.items)
           W == ValidAt(g.items)
           h == [i \in 1..n |-> f.items[p[i]]]
<1>1. /\ f.items \in Seq(Entry) /\ f.n \in [Types -> Int] /\ f.last \in [{"line", "folder"} -> Int]
      /\ n \in Nat /\ DOMAIN f.items = 1..n /\ V \subseteq 1..n
      /\ \A i \in 1..n : Proper(f.items[i]) /\ f.items[i] \in Entry
  BY SoundParts
<1>2. /\ p \in [1..n -> 1..n] /\ \A i, j \in 1..n : p[i] = p[j] => i = j
      /\ \A j \in 1..n : \E i \in 1..n : p[i] = j
      /\ g = [f EXCEPT !.items = h]
  BY DEF Reordered
<1> HIDE DEF n, V, W
<1>3. h \in Seq(Entry) /\ Len(h) = n
  <2>1. h \in [1..n -> Entry]
    BY <1>1, <1>2
  <2>2. h \in Seq(Entry)
    BY <1>1, <2>1
  <2> QED
    BY <1>1, <2>2, LenProperties
<1>4. /\ g.items = h /\ g.n = f.n /\ g.last = f.last
      /\ g = [items |-> g.items, n |-> g.n, last |-> g.last]
  <2>1. f \in Folder
    BY DEF Sound
  <2> HIDE DEF h
  <2> QED
    BY <1>2, <2>1 DEF Folder
<1>5. g \in Folder
  BY <1>1, <1>3, <1>4 DEF Folder
<1>6. DOMAIN g.items = 1..n /\ \A i \in 1..n : g.items[i] = f.items[p[i]] /\ p[i] \in 1..n
  BY <1>2, <1>4
<1> HIDE DEF h
<1>7. W = {i \in 1..n : p[i] \in V}
  BY <1>1, <1>6 DEF ValidAt, V, W
<1>8. ASSUME NEW t \in Types PROVE g.n[t] = Count(g.items, t)
  <2> DEFINE A == {i \in V : f.items[i].type = t}
             B == {i \in W : g.items[i].type = t}
             b == [i \in B |-> p[i]]
  <2>1. IsFiniteSet(B)
    <3>1. IsFiniteSet(1..n) /\ B \subseteq 1..n
      BY <1>1, <1>7, UpToSize
    <3> HIDE DEF B
    <3> QED
      BY <3>1, LessSize
  <2>2. \A i \in B : p[i] \in A /\ i \in 1..n
    BY <1>6, <1>7
  <2>3. \A j \in A : \E i \in B : p[i] = j
    <3> TAKE j \in A
    <3>1. PICK i \in 1..n : p[i] = j
      BY <1>1, <1>2
    <3> QED
      BY <1>6, <1>7, <3>1
  <2>4. Count(f.items, t) = Cardinality(A) /\ Count(g.items, t) = Cardinality(B)
    BY DEF Count, V, W
  <2> HIDE DEF A, B
  <2>5. /\ b \in [B -> A] /\ \A x, y \in B : b[x] = b[y] => x = y
        /\ \A j \in A : \E i \in B : b[i] = j
    BY <1>2, <2>2, <2>3
  <2> HIDE DEF b
  <2>6. Cardinality(A) = Cardinality(B)
    BY <2>1, <2>5, SameSize
  <2>7. f.n[t] = Count(f.items, t)
    BY DEF Sound
  <2> QED
    BY <1>4, <2>4, <2>6, <2>7
<1>9. \A i \in FoldersAt(g.items) : i \in 1..n /\ p[i] \in FoldersAt(f.items) /\ g.items[i] = f.items[p[i]]
  BY <1>6, <1>7 DEF FoldersAt, V, W
<1>10. \A i \in FoldersAt(g.items) : g.items[i].id <= g.last["folder"]
  BY <1>4, <1>9 DEF Sound
<1>11. ASSUME NEW i \in FoldersAt(g.items), NEW j \in FoldersAt(g.items), i # j
       PROVE  g.items[i].id # g.items[j].id
  <2>1. p[i] # p[j]
    BY <1>2, <1>9, <1>11
  <2> QED
    BY <1>9, <2>1 DEF Sound
<1>12. \A i \in DOMAIN g.items : Proper(g.items[i])
  BY <1>1, <1>6
<1>13. Sound(g)
  <2>1. g.last["folder"] \in Nat
    BY <1>4 DEF Sound
  <2> QED
    BY <1>5, <1>8, <1>10, <1>11, <1>12, <2>1 DEF Sound
<1> QED
  BY <1>3, <1>4, <1>6, <1>7, <1>13 DEF n, V, W

\* As many entries of each type are in the list of the valid ones.
LEMMA OfValid ==
    ASSUME NEW items \in Seq(Entry), NEW t
    PROVE  OfType(Valid(items), t, Len(Valid(items))) = Count(items, t)
<1> DEFINE v == Valid(items)
           p == Positions(items)
           V == ValidAt(items)
           S == {j \in 1..Len(v) : v[j].type = t}
           T == {i \in V : items[i].type = t}
           w == [j \in S |-> p[j]]
<1>1. ListsValid(items)
  BY ValidIs
<1>2. Len(v) = Cardinality(V) /\ Len(v) \in Nat
  BY <1>1 DEF ListsValid
<1>3. /\ p \in [1..Len(v) -> V] /\ \A k, l \in 1..Len(v) : p[k] = p[l] => k = l
      /\ \A i \in V : UpTo(items, i) \in 1..Len(v) /\ p[UpTo(items, i)] = i
  <2>1. /\ p \in [1..Cardinality(V) -> V] /\ \A k, l \in DOMAIN p : p[k] = p[l] => k = l
        /\ \A i \in V : p[UpTo(items, i)] = i
    BY PositionsAre
  <2>2. \A i \in V : UpTo(items, i) \in 1..Cardinality(V)
    BY UpToGrows
  <2> QED
    BY <1>2, <2>1, <2>2
<1>4. \A k \in 1..Len(v) : v[k] = items[p[k]]
  BY <1>1 DEF ListsValid
<1> HIDE DEF v, p, V
<1>5. w \in [S -> T] /\ \A x, y \in S : w[x] = w[y] => x = y
  BY <1>3, <1>4
<1>6. \A i \in T : \E x \in S : w[x] = i
  <2> TAKE i \in T
  <2>1. UpTo(items, i) \in S
    BY <1>3, <1>4
  <2> QED
    BY <1>3, <2>1
<1>7. IsFiniteSet(S)
  <2>1. IsFiniteSet(1..Len(v)) /\ S \subseteq 1..Len(v)
    BY <1>2, UpToSize
  <2> HIDE DEF S
  <2> QED
    BY <2>1, LessSize
<1> HIDE DEF w, S, T
<1>8. Cardinality(T) = Cardinality(S)
  BY <1>5, <1>6, <1>7, SameSize
<1> QED
  BY <1>8 DEF OfType, Count, S, T, v, V

\* So many lines and folders fit into a char each.
InChars(items) == Count(items, "line") <= CHAR_MAX /\ Count(items, "folder") <= CHAR_MAX

\* rebuild_fav makes a folder of the valid entries.
Arranges(items, g) ==
    /\ Sound(g) /\ Len(g.items) = Cardinality(ValidAt(items))
    /\ ValidAt(g.items) = 1..Len(g.items)
    /\ Len(g.items) = Len(Valid(items))
    /\ \A k \in 1..Len(g.items) : /\ Bare(g.items[k]) = Bare(Valid(items)[k])
                                  /\ Positions(items)[k] \in ValidAt(items)
                                  /\ Valid(items)[k] = items[Positions(items)[k]]

LEMMA ArrangedIs ==
    ASSUME NEW items \in Seq(Entry), \A i \in ValidAt(items) : Proper(items[i]),
           InChars(items), NEW g, g = Arranged(items)
    PROVE  Arranges(items, g) /\ Small(g)
<1> USE DEF Arranges
<1> DEFINE es == Valid(items)
           m == Len(es)
<1>1. /\ m = Cardinality(ValidAt(items)) /\ m \in Nat
      /\ es \in Seq({items[i] : i \in ValidAt(items)})
      /\ \A k \in 1..m : Positions(items)[k] \in ValidAt(items) /\ es[k] = items[Positions(items)[k]]
  <2>1. ListsValid(items)
    BY ValidIs
  <2> QED
    BY <2>1 DEF ListsValid
<1>2. \A i \in ValidAt(items) : Proper(items[i]) /\ items[i].fav /\ items[i] \in Entry
  BY DEF ValidAt, Proper
<1>3. es \in Seq(Entry)
  <2>1. {items[i] : i \in ValidAt(items)} \subseteq Entry
    BY <1>2
  <2> HIDE DEF es, m
  <2> QED
    BY <1>1, <2>1
<1>4. \A k \in 1..m : Proper(es[k]) /\ es[k].fav
  BY <1>1, <1>2
<1>5. OfType(es, "line", m) <= CHAR_MAX /\ OfType(es, "folder", m) <= CHAR_MAX
  BY OfValid DEF InChars
<1>6. Sound(NewFolder) /\ Len(NewFolder.items) = 0 /\ ValidAt(NewFolder.items) = {}
  BY NewIsSound
<1> HIDE DEF es, m
<1>7. /\ Sound(g) /\ Small(g) /\ Len(g.items) = 0 + m
      /\ \A k \in 1..m : Bare(g.items[0 + k]) = Bare(es[k])
      /\ ValidAt(g.items) = {} \cup (0 + 1)..(0 + m)
  <2>1. Flagged(es)
    BY <1>3, <1>4 DEF Flagged, m
  <2>2. "board" \in {"board"} /\ "folder" \notin {"board"}
    OBVIOUS
  <2>3. Fits(NewFolder, es)
    <3>1. /\ NewFolder.n["line"] = 0 /\ NewFolder.n["folder"] = 0 /\ NewFolder.last["folder"] = 0
      BY DEF NewFolder, Types
    <3>2. OfType(es, "line", Len(es)) \in Nat /\ OfType(es, "folder", Len(es)) \in Nat
      <4>1. Len(es) \in 0..Len(es)
        BY <1>1 DEF m
      <4> QED
        BY <1>6, <2>1, <4>1, CountsAre DEF Types
    <3> QED
      BY <1>5, <3>1, <3>2 DEF Fits, m
  <2>4. g = Extended(NewFolder, es, {"board"})
    BY DEF Arranged, es
  <2>5. g = Grown(NewFolder, es, {"board"}) /\ Small(g)
    BY <1>6, <2>1, <2>2, <2>3, <2>4, ExtendedIs
  <2>6. Sound(g) /\ Longer(g, NewFolder, es)
    BY <1>6, <2>1, <2>2, <2>5, GrownIs
  <2> QED
    BY <1>6, <2>5, <2>6 DEF Longer, m
<1>8. 0 + m = m /\ 0 + 1 = 1 /\ \A k \in 1..m : 0 + k = k
  BY <1>1
<1> QED
  BY <1>1, <1>7, <1>8 DEF es, m

\* The first valid entry with these properties, or 0.
LEMMA GetFavItemIs ==
    ASSUME NEW items \in Seq(Entry), NEW type, NEW id, NEW i, i = get_fav_item(items, type, id)
    PROVE  /\ i \in 0..Len(items)
           /\ i # 0 => i \in ValidAt(items) /\ items[i].type = type /\ items[i].id = id
<1> DEFINE F == {j \in 1..Len(items) : items[j].fav /\ items[j].type = type /\ items[j].id = id}
<1>1. Len(items) \in Nat /\ DOMAIN items = 1..Len(items)
  BY LenProperties
<1>2. i = IF F # {} THEN Min(F) ELSE 0
  BY DEF get_fav_item, SelectInSeq
<1>3. F \subseteq Nat
  BY <1>1
<1>4. F # {} => Min(F) \in F
  <2> HIDE DEF F
  <2>1. F # {} => \E n \in F : \A m \in F : n <= m
    BY <1>3, LeastNatural
  <2> QED
    BY <2>1 DEF Min
<1>5. i = 0 \/ i \in F
  <2> HIDE DEF F
  <2> QED
    BY <1>2, <1>4
<1>6. i \in F => i # 0 /\ i \in ValidAt(items) /\ i \in 1..Len(items)
  BY <1>1 DEF ValidAt
<1> QED
  BY <1>1, <1>5, <1>6

\* The loops of move_in_folder reorder the entries.
LEMMA ShiftedIs ==
    ASSUME NEW f \in Folder, NEW a \in 1..Len(f.items), NEW b \in 1..Len(f.items)
    PROVE  \E p : Reordered(f, Shifted(f, a, b), p)
<1> DEFINE n == Len(f.items)
           from(i) == IF i = b THEN a
                      ELSE IF a <= i /\ i < b THEN i + 1
                      ELSE IF b < i /\ i <= a THEN i - 1 ELSE i
           to(j) == IF j = a THEN b
                    ELSE IF a < j /\ j <= b THEN j - 1
                    ELSE IF b <= j /\ j < a THEN j + 1 ELSE j
           p == [i \in 1..n |-> from(i)]
<1>1. n \in Nat /\ DOMAIN f.items = 1..n
  <2>1. f.items \in Seq(Entry)
    BY DEF Folder
  <2> QED
    BY <2>1, LenProperties
<1> HIDE DEF n
<1>2. a \in 1..n /\ b \in 1..n
  BY DEF n
<1>3. \A i \in 1..n : from(i) \in 1..n
  BY <1>1, <1>2
<1>4. \A j \in 1..n : to(j) \in 1..n /\ from(to(j)) = j
  BY <1>1, <1>2
<1>5. \A i \in 1..n : to(from(i)) = i
  BY <1>1, <1>2
<1>6. Shifted(f, a, b) = [f EXCEPT !.items = [i \in 1..n |-> f.items[from(i)]]]
  <2>1. [i \in DOMAIN f.items |->
         IF i = b THEN f.items[a]
         ELSE IF a <= i /\ i < b THEN f.items[i + 1]
         ELSE IF b < i /\ i <= a THEN f.items[i - 1]
         ELSE f.items[i]] = [i \in 1..n |-> f.items[from(i)]]
    BY <1>1
  <2> QED
    BY <2>1 DEF Shifted
<1> HIDE DEF from, to
<1>7. /\ p \in [1..n -> 1..n]
      /\ \A i, j \in 1..n : p[i] = p[j] => i = j
      /\ \A j \in 1..n : \E i \in 1..n : p[i] = j
      /\ \A i \in 1..n : p[i] = from(i)
  BY <1>3, <1>4, <1>5
<1>8. [i \in 1..n |-> f.items[from(i)]] = [i \in 1..n |-> f.items[p[i]]]
  BY <1>7
<1> HIDE DEF p
<1>9. Shifted(f, a, b) = [f EXCEPT !.items = [i \in 1..n |-> f.items[p[i]]]]
  BY <1>6, <1>8
<1>10. Reordered(f, Shifted(f, a, b), p)
  BY <1>7, <1>9 DEF Reordered, n
<1> QED
  BY <1>10

\* Where the user's k-th entry is.
LEMMA PlaceIs ==
    ASSUME NEW X, NEW items \in Seq(X), NEW k
    PROVE  Place(items, k) = 0 \/ Place(items, k) \in ValidAt(items)
<1>1. Positions(items) \in [1..Cardinality(ValidAt(items)) -> ValidAt(items)]
  BY PositionsAre
<1> QED
  BY <1>1 DEF Place

-----------------------------------------------------------------------------
(* The entries of all folders                                              *)

\* Every folder in memory is in order.
AllSound(dirs) == dirs \in [Dirs -> Folder] /\ \A d \in Dirs : Sound(dirs[d])

\* The valid entries of the folders D: folder and position.
Pairs(dirs, D) == UNION {{d} \X ValidAt(dirs[d].items) : d \in D}
At(dirs, l) == dirs[l[1]].items[l[2]]

LEMMA PairsAre ==
    ASSUME NEW dirs, NEW D
    PROVE  /\ \A d \in D : \A i \in ValidAt(dirs[d].items) :
                 <<d, i>> \in Pairs(dirs, D) /\ At(dirs, <<d, i>>) = dirs[d].items[i]
           /\ \A l \in Pairs(dirs, D) :
                 l[1] \in D /\ l[2] \in ValidAt(dirs[l[1]].items) /\ l = <<l[1], l[2]>>
           /\ \A d, i : <<d, i>> \in Pairs(dirs, D) => d \in D /\ i \in ValidAt(dirs[d].items)
  BY DEF Pairs, At

LEMMA DirsFinite == IsFiniteSet(Dirs)
BY FavAssumption

LEMMA PairsFinite ==
    ASSUME NEW dirs, AllSound(dirs), NEW D, D \subseteq Dirs
    PROVE  /\ IsFiniteSet(Pairs(dirs, D)) /\ Cardinality(Pairs(dirs, D)) \in Nat
           /\ \A d \in D : /\ IsFiniteSet({d} \X ValidAt(dirs[d].items))
                           /\ Cardinality({d} \X ValidAt(dirs[d].items)) = get_data_number(dirs[d])
                           /\ get_data_number(dirs[d]) \in Nat
<1> DEFINE at(d) == {d} \X ValidAt(dirs[d].items)
           f == [d \in D |-> at(d)]
           S == {at(d) : d \in D}
<1>1. IsFiniteSet(D)
  BY DirsFinite, LessSize
<1>2. ASSUME NEW d \in D
      PROVE  IsFiniteSet(at(d)) /\ Cardinality(at(d)) = get_data_number(dirs[d])
             /\ get_data_number(dirs[d]) \in Nat
  <2> DEFINE V == ValidAt(dirs[d].items)
             g == [i \in V |-> <<d, i>>]
  <2>1. Sound(dirs[d])
    BY DEF AllSound
  <2>2. IsFiniteSet(V) /\ Cardinality(V) \in Nat
    BY <2>1, SoundParts
  <2>3. get_data_number(dirs[d]) = Cardinality(V)
    BY <2>1, CountsAdd
  <2> HIDE DEF V
  <2>4. /\ g \in [V -> {d} \X V] /\ \A x, y \in V : g[x] = g[y] => x = y
        /\ \A t \in {d} \X V : \E x \in V : g[x] = t
    OBVIOUS
  <2> HIDE DEF g
  <2>5. IsFiniteSet({d} \X V) /\ Cardinality({d} \X V) = Cardinality(V)
    BY <2>2, <2>4, SameSize
  <2> QED
    BY <2>2, <2>3, <2>5 DEF V
<1> HIDE DEF at
<1>3. f \in Surjection(D, S)
  BY DEF Surjection
<1>4. IsFiniteSet(S)
  <2> HIDE DEF f, S
  <2> QED
    BY <1>1, <1>3, FS_Surjection
<1>5. \A T \in S : IsFiniteSet(T)
  BY <1>2
<1>6. IsFiniteSet(UNION S)
  <2> HIDE DEF S
  <2> QED
    BY <1>4, <1>5, FS_UNION
<1>7. Pairs(dirs, D) = UNION S
  BY DEF Pairs, at
<1>8. Cardinality(UNION S) \in Nat
  <2> HIDE DEF S
  <2> QED
    BY <1>6, FS_CardinalityType
<1>9. \A d \in D : at(d) = {d} \X ValidAt(dirs[d].items)
  BY DEF at
<1> HIDE DEF S
<1> QED
  BY <1>2, <1>6, <1>7, <1>8, <1>9

\* The sum of the counts is the number of valid entries.
LEMMA TotalIs ==
    ASSUME NEW dirs, AllSound(dirs), NEW D, D \subseteq Dirs
    PROVE  Total(dirs, D) = Cardinality(Pairs(dirs, D))
<1> DEFINE n(d) == get_data_number(dirs[d])
           C(s) == Cardinality(Pairs(dirs, s))
           pick(s) == CHOOSE x \in s : TRUE
           Is(iter) == iter = [s \in SUBSET D |->
                                 IF s = {} THEN 0 ELSE n(pick(s)) + iter[s \ {pick(s)}]]
           iter == CHOOSE i : Is(i)
           witness == [s \in SUBSET D |-> C(s)]
<1>1. Total(dirs, D) = iter[D]
  BY DEF Total, MapThenSumSet, MapThenFoldSet
<1>2. \A s \in SUBSET D : s \subseteq Dirs /\ IsFiniteSet(s) /\ Cardinality(s) \in Nat
  BY DirsFinite, LessSize
<1>3. C({}) = 0
  <2>1. Pairs(dirs, {}) = {}
    BY DEF Pairs
  <2> QED
    BY <2>1, FS_EmptySet
<1>4. ASSUME NEW s \in SUBSET D, s # {}
      PROVE  pick(s) \in s /\ s \ {pick(s)} \in SUBSET D /\ C(s) = n(pick(s)) + C(s \ {pick(s)})
  <2>1. pick(s) \in s
    BY <1>4
  <2> HIDE DEF pick
  <2> DEFINE x == pick(s)
             r == s \ {x}
             A == {x} \X ValidAt(dirs[x].items)
  <2>2. r \in SUBSET D /\ x \in D /\ r \subseteq Dirs /\ s \subseteq Dirs
    BY <1>2, <2>1
  <2>3. Pairs(dirs, s) = A \cup Pairs(dirs, r) /\ A \cap Pairs(dirs, r) = {}
    <3>1. s = {x} \cup r /\ x \notin r
      BY <2>1
    <3> HIDE DEF x, r
    <3> QED
      BY <3>1 DEF Pairs
  <2>4. IsFiniteSet(A) /\ Cardinality(A) = n(x) /\ n(x) \in Nat
    <3> HIDE DEF x
    <3> QED
      BY <2>2, PairsFinite
  <2>5. IsFiniteSet(Pairs(dirs, r))
    <3> HIDE DEF r
    <3> QED
      BY <2>2, PairsFinite
  <2> HIDE DEF A
  <2>6. C(s) = Cardinality(A) + C(r)
    <3> HIDE DEF r
    <3> QED
      BY <2>3, <2>4, <2>5, DisjointSize
  <2> QED
    BY <2>1, <2>2, <2>4, <2>6
<1> HIDE DEF pick, n, C
<1>5. Is(witness)
  BY <1>3, <1>4
<1>6. Is(iter)
  <2> HIDE DEF Is, witness
  <2> QED
    BY <1>5
<1> HIDE DEF iter
<1>7. \A s \in SUBSET D : iter[s] = C(s)
  <2> DEFINE Bad == {k \in Nat : \E s \in SUBSET D : Cardinality(s) = k /\ iter[s] # C(s)}
  <2>1. Bad = {}
    <3> SUFFICES ASSUME Bad # {} PROVE FALSE
      OBVIOUS
    <3>1. PICK k \in Bad : \A j \in Bad : k <= j
      <4>1. Bad \subseteq Nat
        OBVIOUS
      <4> HIDE DEF Bad
      <4> QED
        BY <4>1, LeastNatural
    <3>2. PICK s \in SUBSET D : Cardinality(s) = k /\ iter[s] # C(s)
      BY <3>1
    <3>3. s # {}
      BY <1>3, <1>6, <3>2
    <3> DEFINE r == s \ {pick(s)}
    <3>4. /\ pick(s) \in s /\ r \in SUBSET D /\ C(s) = n(pick(s)) + C(r)
      BY <1>4, <3>3
    <3>5. iter[s] = n(pick(s)) + iter[r]
      BY <1>6, <3>3
    <3>6. iter[r] # C(r)
      BY <3>2, <3>4, <3>5
    <3>7. Cardinality(r) = Cardinality(s) - 1 /\ Cardinality(r) \in Nat /\ Cardinality(s) \in Nat
      BY <1>2, <3>4, FS_RemoveElement
    <3>8. Cardinality(r) \in Bad
      BY <3>4, <3>6, <3>7
    <3> HIDE DEF Bad, r
    <3>9. k <= Cardinality(r)
      BY <3>1, <3>8
    <3> QED
      BY <3>2, <3>7, <3>9
  <2> QED
    BY <1>2, <2>1
<1> QED
  BY <1>1, <1>7 DEF C

-----------------------------------------------------------------------------
(* The folders below a folder                                              *)

\* A valid entry of x leads to y.
Child(dirs, x, y) == \E i \in ValidAt(dirs[x].items) : dirs[x].items[i].sub = y

Closed(dirs, S) == \A x \in S, y \in Dirs : Child(dirs, x, y) => y \in S

\* B has d and what folders of B lead to, and nothing else.
Least(dirs, d, B) ==
    /\ B \subseteq Dirs /\ d \in B /\ Closed(dirs, B)
    /\ \A S \in SUBSET Dirs : d \in S /\ Closed(dirs, S) => B \subseteq S

LEMMA BelowIs ==
    ASSUME NEW dirs, AllSound(dirs), NEW d \in Dirs
    PROVE  Least(dirs, d, Below(dirs, d))
<1> DEFINE subs == [x \in Dirs |-> {dirs[x].items[i].sub : i \in ValidAt(dirs[x].items)}]
           B == Below(dirs, d)
           Entered(S) == \E y \in Dirs \ S : subs[y] \cap S # {}
<1>1. \A x, y \in Dirs : y \in subs[x] <=> Child(dirs, x, y)
  BY DEF Child
<1>2. B = {x \in Dirs : \A S \in SUBSET (Dirs \ {d}) : x \in S => Entered(S)}
  BY DEF Below, Reached
<1> HIDE DEF subs, B
<1>3. ASSUME NEW S \in SUBSET Dirs PROVE Entered(S) <=> ~ Closed(dirs, Dirs \ S)
  BY <1>1 DEF Closed
<1> HIDE DEF Entered
<1>6. \A x \in Dirs : x \in B <=> \A S \in SUBSET Dirs : d \in S /\ Closed(dirs, S) => x \in S
  <2> TAKE x \in Dirs
  <2>1. ASSUME x \in B, NEW S \in SUBSET Dirs, d \in S, Closed(dirs, S) PROVE x \in S
    <3>1. Dirs \ S \in SUBSET (Dirs \ {d}) /\ Dirs \ (Dirs \ S) = S
      BY <2>1
    <3>2. ~ Entered(Dirs \ S)
      BY <1>3, <2>1, <3>1
    <3> QED
      BY <1>2, <2>1, <3>1, <3>2
  <2>2. ASSUME x \notin B PROVE \E S \in SUBSET Dirs : d \in S /\ Closed(dirs, S) /\ x \notin S
    <3>1. PICK T \in SUBSET (Dirs \ {d}) : x \in T /\ ~ Entered(T)
      BY <1>2, <2>2
    <3>2. Closed(dirs, Dirs \ T)
      BY <1>3, <3>1
    <3> QED
      BY <3>1, <3>2
  <2> QED
    BY <2>1, <2>2
<1>7. B \subseteq Dirs
  BY <1>2
<1>8. d \in B
  BY <1>6
<1>9. ASSUME NEW x \in B, NEW y \in Dirs, Child(dirs, x, y) PROVE y \in B
  <2>1. ASSUME NEW S \in SUBSET Dirs, d \in S, Closed(dirs, S) PROVE y \in S
    <3>1. x \in S
      BY <1>6, <1>7, <2>1
    <3> QED
      BY <1>9, <2>1, <3>1 DEF Closed
  <2> QED
    BY <1>6, <2>1
<1>10. \A S \in SUBSET Dirs : d \in S /\ Closed(dirs, S) => B \subseteq S
  BY <1>6, <1>7
<1> QED
  BY <1>7, <1>8, <1>9, <1>10 DEF Least, Closed, B

\* A folder below d, other than d, has one that leads to it.
LEMMA ParentIs ==
    ASSUME NEW dirs, AllSound(dirs), NEW d \in Dirs, NEW x \in Below(dirs, d), x # d
    PROVE  \E y \in Below(dirs, d) : Child(dirs, y, x)
<1> DEFINE B == Below(dirs, d)
<1>1. Least(dirs, d, B)
  BY BelowIs
<1> HIDE DEF B
<1> SUFFICES ASSUME \A y \in B : ~ Child(dirs, y, x) PROVE FALSE
  BY DEF B
<1>2. B \ {x} \in SUBSET Dirs /\ d \in B \ {x}
  BY <1>1 DEF Least
<1>3. Closed(dirs, B \ {x})
  BY <1>1 DEF Least, Closed
<1>4. B \subseteq B \ {x}
  BY <1>1, <1>2, <1>3 DEF Least
<1> QED
  BY <1>4 DEF B

\* Folders that lead to less have less below them.
LEMMA BelowShrinks ==
    ASSUME NEW dirs, AllSound(dirs), NEW after, AllSound(after), NEW d \in Dirs,
           \A x \in Below(dirs, d), y \in Dirs : Child(after, x, y) => Child(dirs, x, y)
    PROVE  Below(after, d) \subseteq Below(dirs, d)
<1>1. Least(dirs, d, Below(dirs, d)) /\ Least(after, d, Below(after, d))
  BY BelowIs
<1>2. Closed(after, Below(dirs, d)) /\ Below(dirs, d) \in SUBSET Dirs /\ d \in Below(dirs, d)
  BY <1>1 DEF Least, Closed
<1> QED
  BY <1>1, <1>2 DEF Least

LEMMA BelowSame ==
    ASSUME NEW dirs, AllSound(dirs), NEW after, AllSound(after), NEW d \in Dirs,
           \A x \in Below(dirs, d), y \in Dirs : Child(after, x, y) <=> Child(dirs, x, y)
    PROVE  Below(after, d) = Below(dirs, d)
<1>1. Below(after, d) \subseteq Below(dirs, d)
  BY BelowShrinks
<1>2. \A x \in Below(after, d), y \in Dirs : Child(dirs, x, y) => Child(after, x, y)
  BY <1>1
<1>3. Below(dirs, d) \subseteq Below(after, d)
  BY <1>2, BelowShrinks
<1> QED
  BY <1>1, <1>3

\* Where the user may be: from the outermost folder to the current one.
Path(dirs, stack) ==
    /\ stack \in Seq(Dirs) /\ stack # <<>> /\ stack[1] = Root
    /\ \A k \in 1..Len(stack) : k > 1 => Child(dirs, stack[k - 1], stack[k])
    /\ \A k, l \in 1..Len(stack) : stack[k] = stack[l] => k = l

\* A set of folders that leads to no other folders and has the outermost one
\* has all of the path.
LEMMA PathWithin ==
    ASSUME NEW dirs, NEW stack, Path(dirs, stack), NEW S, Root \in S, Closed(dirs, S)
    PROVE  \A k \in 1..Len(stack) : stack[k] \in S
<1> DEFINE Bad == {k \in 1..Len(stack) : stack[k] \notin S}
<1>1. Len(stack) \in Nat /\ \A k \in 1..Len(stack) : stack[k] \in Dirs
  BY LenProperties, ElementOfSeq DEF Path
<1>2. Bad = {}
  <2> SUFFICES ASSUME Bad # {} PROVE FALSE
    OBVIOUS
  <2>1. Bad \subseteq Nat
    BY <1>1
  <2>2. PICK k \in Bad : \A j \in Bad : k <= j
    <3> HIDE DEF Bad
    <3> QED
      BY <2>1, LeastNatural
  <2>3. k \in 1..Len(stack) /\ k # 1 /\ stack[k] \notin S
    BY <2>2 DEF Path
  <2>4. k - 1 \in 1..Len(stack) /\ k > 1 /\ ~ (k <= k - 1)
    BY <1>1, <2>3
  <2>5. stack[k - 1] \in S
    BY <2>2, <2>4
  <2>6. Child(dirs, stack[k - 1], stack[k])
    BY <2>3, <2>4 DEF Path
  <2> QED
    BY <1>1, <2>3, <2>5, <2>6 DEF Closed
<1> QED
  BY <1>2

LEMMA PathBelow ==
    ASSUME NEW dirs, AllSound(dirs), NEW stack, Path(dirs, stack)
    PROVE  /\ \A k \in 1..Len(stack) : stack[k] \in Below(dirs, Root)
           /\ Len(stack) \in Nat \ {0} /\ Last(stack) = stack[Len(stack)]
           /\ Last(stack) \in Below(dirs, Root) /\ Last(stack) \in Dirs
           /\ DOMAIN stack = 1..Len(stack)
<1>1. Least(dirs, Root, Below(dirs, Root))
  BY FavAssumption, BelowIs
<1>2. \A k \in 1..Len(stack) : stack[k] \in Below(dirs, Root)
  BY <1>1, PathWithin DEF Least
<1>3. Len(stack) \in Nat \ {0} /\ DOMAIN stack = 1..Len(stack)
  BY LenProperties, EmptySeq DEF Path
<1>4. Len(stack) \in 1..Len(stack)
  BY <1>3
<1>5. Last(stack) = stack[Len(stack)]
  BY DEF Last
<1> QED
  BY <1>1, <1>2, <1>3, <1>4, <1>5 DEF Least

-----------------------------------------------------------------------------
(* What the user sees                                                      *)

\* The lists of two folders, but for numbers.
SameList(f, g) ==
    /\ Len(Valid(g.items)) = Len(Valid(f.items))
    /\ \A k \in 1..Len(Valid(f.items)) : Bare(Valid(g.items)[k]) = Bare(Valid(f.items)[k])

\* Two folders that have the same valid entries at the same positions.
LEMMA SameValid ==
    ASSUME NEW f, Sound(f), NEW g, Sound(g), ValidAt(g.items) = ValidAt(f.items),
           \A i \in ValidAt(f.items) : Bare(g.items[i]) = Bare(f.items[i])
    PROVE  SameList(f, g)
<1>1. f.items \in Seq(Entry) /\ g.items \in Seq(Entry)
  BY SoundParts
<1>2. ListsValid(f.items) /\ ListsValid(g.items)
  BY <1>1, ValidIs
<1>3. Positions(g.items) = Positions(f.items)
  BY DEF Positions
<1> QED
  BY <1>2, <1>3 DEF ListsValid, SameList

\* The k-th valid entry is an entry with its flag, and each is one of these.
ListsAll(f) ==
    /\ \A k \in 1..Len(Valid(f.items)) :
          /\ Valid(f.items)[k] \in Entry /\ Proper(Valid(f.items)[k]) /\ Valid(f.items)[k].fav
          /\ Positions(f.items)[k] \in ValidAt(f.items)
          /\ Valid(f.items)[k] = f.items[Positions(f.items)[k]]
    /\ \A i \in ValidAt(f.items) : \E k \in 1..Len(Valid(f.items)) :
          Positions(f.items)[k] = i /\ Valid(f.items)[k] = f.items[i]

LEMMA ValidEntries == ASSUME NEW f, Sound(f) PROVE ListsValid(f.items) /\ ListsAll(f)
<1>1. /\ f.items \in Seq(Entry) /\ ValidAt(f.items) \subseteq 1..Len(f.items)
      /\ \A i \in 1..Len(f.items) : Proper(f.items[i]) /\ f.items[i] \in Entry
      /\ \A i \in ValidAt(f.items) : f.items[i].fav = TRUE
  BY SoundParts
<1>2. ListsValid(f.items)
  BY <1>1, ValidIs
<1>3. /\ \A i \in ValidAt(f.items) : UpTo(f.items, i) \in 1..Cardinality(ValidAt(f.items))
      /\ \A i \in ValidAt(f.items) : Positions(f.items)[UpTo(f.items, i)] = i
  BY <1>1, UpToGrows, PositionsAre
<1>4. \A i \in ValidAt(f.items) : \E k \in 1..Len(Valid(f.items)) :
         Positions(f.items)[k] = i /\ Valid(f.items)[k] = f.items[i]
  <2> TAKE i \in ValidAt(f.items)
  <2>1. /\ UpTo(f.items, i) \in 1..Len(Valid(f.items))
        /\ Positions(f.items)[UpTo(f.items, i)] = i
    BY <1>2, <1>3 DEF ListsValid
  <2> QED
    BY <1>2, <2>1 DEF ListsValid
<1>5. ASSUME NEW k \in 1..Len(Valid(f.items))
      PROVE  /\ Valid(f.items)[k] \in Entry /\ Proper(Valid(f.items)[k]) /\ Valid(f.items)[k].fav
             /\ Positions(f.items)[k] \in ValidAt(f.items)
             /\ Valid(f.items)[k] = f.items[Positions(f.items)[k]]
  <2>1. /\ Positions(f.items)[k] \in ValidAt(f.items)
        /\ Valid(f.items)[k] = f.items[Positions(f.items)[k]]
    BY <1>2 DEF ListsValid
  <2> QED
    BY <1>1, <2>1
<1> QED
  BY <1>2, <1>4, <1>5 DEF ListsAll

LEMMA ChildListed ==
    ASSUME NEW dirs, NEW x, ListsAll(dirs[x]), NEW y
    PROVE  Child(dirs, x, y) <=>
               \E k \in 1..Len(Valid(dirs[x].items)) : Valid(dirs[x].items)[k].sub = y
<1>1. ASSUME Child(dirs, x, y)
      PROVE  \E k \in 1..Len(Valid(dirs[x].items)) : Valid(dirs[x].items)[k].sub = y
  <2>1. PICK i \in ValidAt(dirs[x].items) : dirs[x].items[i].sub = y
    BY <1>1 DEF Child
  <2>2. PICK k \in 1..Len(Valid(dirs[x].items)) : Valid(dirs[x].items)[k] = dirs[x].items[i]
    BY DEF ListsAll
  <2> QED
    BY <2>1, <2>2
<1>2. ASSUME NEW k \in 1..Len(Valid(dirs[x].items)), Valid(dirs[x].items)[k].sub = y
      PROVE  Child(dirs, x, y)
  BY <1>2 DEF ListsAll, Child
<1> QED
  BY <1>1, <1>2

LEMMA SameChildren ==
    ASSUME NEW dirs, AllSound(dirs), NEW after, AllSound(after),
           NEW x \in Dirs, SameList(dirs[x], after[x]), NEW y
    PROVE  Child(after, x, y) <=> Child(dirs, x, y)
<1> DEFINE v == Valid(dirs[x].items)
           w == Valid(after[x].items)
<1>1. ListsAll(dirs[x]) /\ ListsAll(after[x])
  BY ValidEntries DEF AllSound
<1>2. Len(w) = Len(v) /\ \A k \in 1..Len(v) : Bare(w[k]) = Bare(v[k])
  BY DEF SameList
<1>3. ASSUME NEW k \in 1..Len(v) PROVE w[k].sub = v[k].sub
  <2>1. v[k] \in Entry /\ w[k] \in Entry
    BY <1>1, <1>2 DEF ListsAll
  <2> HIDE DEF v, w
  <2> QED
    BY <1>2, <2>1, SameBare
<1>4. Child(dirs, x, y) <=> \E k \in 1..Len(v) : v[k].sub = y
  BY <1>1, ChildListed
<1>5. Child(after, x, y) <=> \E k \in 1..Len(w) : w[k].sub = y
  BY <1>1, ChildListed
<1> HIDE DEF v, w
<1> QED
  BY <1>2, <1>3, <1>4, <1>5

\* The same lists in the folders that the user can come to: all looks the same.
LEMMA SeenSame ==
    ASSUME NEW dirs, AllSound(dirs), NEW after, AllSound(after),
           \A d \in Below(dirs, Root) : SameList(dirs[d], after[d])
    PROVE  Below(after, Root) = Below(dirs, Root) /\ Seen(after) = Seen(dirs)
<1>1. Root \in Dirs /\ Below(dirs, Root) \subseteq Dirs
  BY FavAssumption, BelowIs DEF Least
<1>2. \A x \in Below(dirs, Root), y \in Dirs : Child(after, x, y) <=> Child(dirs, x, y)
  BY <1>1, SameChildren
<1>3. Below(after, Root) = Below(dirs, Root)
  BY <1>1, <1>2, BelowSame
<1> DEFINE shown(e, d) == [i \in DOMAIN Valid(e[d].items) |-> Bare(Valid(e[d].items)[i])]
<1>4. \A d \in Below(dirs, Root) : shown(after, d) = shown(dirs, d)
  <2> TAKE d \in Below(dirs, Root)
  <2>1. ListsValid(dirs[d].items) /\ ListsValid(after[d].items)
    BY <1>1, ValidEntries DEF AllSound
  <2>2. /\ DOMAIN Valid(after[d].items) = DOMAIN Valid(dirs[d].items)
        /\ \A k \in DOMAIN Valid(dirs[d].items) : Bare(Valid(after[d].items)[k]) = Bare(Valid(dirs[d].items)[k])
    BY <2>1 DEF ListsValid, SameList
  <2> QED
    BY <2>2
<1>5. Seen(after) = [d \in Below(after, Root) |-> shown(after, d)]
  BY DEF Seen
<1>6. Seen(dirs) = [d \in Below(dirs, Root) |-> shown(dirs, d)]
  BY DEF Seen
<1> HIDE DEF shown
<1> QED
  BY <1>3, <1>4, <1>5, <1>6
-----------------------------------------------------------------------------
(* The tables                                                              *)

\* One entry leads to each folder, none to the outermost one.
Linked(dirs) ==
    /\ \A l \in Pairs(dirs, Dirs) : At(dirs, l).sub # Root
    /\ \A l, m \in Pairs(dirs, Dirs) :
          At(dirs, l).sub \in Dirs /\ At(dirs, l).sub = At(dirs, m).sub => l = m

\* Memory that cannot be come to is new.
Tidy(dirs) == \A d \in Dirs \ Below(dirs, Root) : dirs[d] = NewFolder

AllTables == [dirs : [Dirs -> Folder], number : Nat, dirty : BOOLEAN, leaked : Nat]

\* Tables that are changed in some parts.
Tbl(d, n, b, k) == [dirs |-> d, number |-> n, dirty |-> b, leaked |-> k]

LEMMA TablesAre ==
    ASSUME NEW s \in AllTables
    PROVE  s = Tbl(s.dirs, s.number, s.dirty, s.leaked)
  BY DEF AllTables, Tbl

LEMMA DirsLeaked ==
    ASSUME NEW s \in AllTables, NEW d, NEW k
    PROVE  [s EXCEPT !.dirs = d, !.leaked = k] = Tbl(d, s.number, s.dirty, k)
<1> DEFINE r == [s EXCEPT !.dirs = d]
<1>1. r = Tbl(d, s.number, s.dirty, s.leaked)
  BY TablesAre DEF Tbl
<1> HIDE DEF r
<1>2. [r EXCEPT !.leaked = k] = Tbl(d, s.number, s.dirty, k)
  BY <1>1 DEF Tbl
<1> QED
  BY <1>2 DEF r

LEMMA DirsDirty ==
    ASSUME NEW s \in AllTables, NEW d, NEW b
    PROVE  [s EXCEPT !.dirs = d, !.dirty = b] = Tbl(d, s.number, b, s.leaked)
<1> DEFINE r == [s EXCEPT !.dirs = d]
<1>1. r = Tbl(d, s.number, s.dirty, s.leaked)
  BY TablesAre DEF Tbl
<1> HIDE DEF r
<1>2. [r EXCEPT !.dirty = b] = Tbl(d, s.number, b, s.leaked)
  BY <1>1 DEF Tbl
<1> QED
  BY <1>2 DEF r

LEMMA DirsNumberDirty ==
    ASSUME NEW s \in AllTables, NEW d, NEW n, NEW b
    PROVE  [s EXCEPT !.dirs = d, !.number = n, !.dirty = b] = Tbl(d, n, b, s.leaked)
<1> DEFINE r == [s EXCEPT !.dirs = d]
           q == [r EXCEPT !.number = n]
<1>1. r = Tbl(d, s.number, s.dirty, s.leaked)
  BY TablesAre DEF Tbl
<1> HIDE DEF r
<1>2. q = Tbl(d, n, s.dirty, s.leaked)
  BY <1>1 DEF Tbl
<1> HIDE DEF q
<1>3. [q EXCEPT !.dirty = b] = Tbl(d, n, b, s.leaked)
  BY <1>2 DEF Tbl
<1> QED
  BY <1>3 DEF q, r

Whole(s) ==
    /\ s \in AllTables /\ AllSound(s.dirs) /\ Linked(s.dirs)
    /\ s.number = s.leaked + Cardinality(Pairs(s.dirs, Dirs))

\* The valid entries of after come from valid entries of dirs, each from one of
\* its own, and lead to the same folders.
CameFrom(dirs, after, w) ==
    /\ w \in [Pairs(after, Dirs) -> Pairs(dirs, Dirs)]
    /\ \A l, m \in Pairs(after, Dirs) : w[l] = w[m] => l = m
    /\ \A l \in Pairs(after, Dirs) : At(after, l).sub = At(dirs, w[l]).sub

LEMMA LinkedStays ==
    ASSUME NEW dirs, Linked(dirs), NEW after, NEW w, CameFrom(dirs, after, w)
    PROVE  Linked(after)
  BY DEF Linked, CameFrom

LEMMA AllCame ==
    ASSUME NEW dirs, AllSound(dirs), NEW after, NEW w, CameFrom(dirs, after, w),
           \A m \in Pairs(dirs, Dirs) : \E l \in Pairs(after, Dirs) : w[l] = m,
           AllSound(after)
    PROVE  Cardinality(Pairs(after, Dirs)) = Cardinality(Pairs(dirs, Dirs))
<1>1. IsFiniteSet(Pairs(after, Dirs))
  BY PairsFinite
<1> QED
  BY <1>1, SameSize DEF CameFrom

LEMMA FewerLinked ==
    ASSUME NEW dirs, Linked(dirs), NEW after, Pairs(after, Dirs) \subseteq Pairs(dirs, Dirs),
           \A l \in Pairs(after, Dirs) : At(after, l).sub = At(dirs, l).sub
    PROVE  Linked(after)
  BY DEF Linked

\* What the user can come to stays, the rest is new memory and no longer counted.
Forgets(s, t) ==
    /\ Whole(t) /\ Tidy(t.dirs) /\ t.dirty = s.dirty
    /\ Below(t.dirs, Root) = Below(s.dirs, Root) /\ Seen(t.dirs) = Seen(s.dirs)
    /\ \A d \in Below(s.dirs, Root) :
          /\ ValidAt(t.dirs[d].items) = ValidAt(s.dirs[d].items)
          /\ \A i \in ValidAt(s.dirs[d].items) : t.dirs[d].items[i] = s.dirs[d].items[i]

LEMMA ForgetIs == ASSUME NEW s, Whole(s) PROVE Forgets(s, Forget(s))
<1> DEFINE live == Below(s.dirs, Root)
           Lost(e) == e.id = Gone \/ (e.sub \in Dirs /\ Torn(s.dirs, e.sub))
           rest(e) == [type |-> "line", fav |-> FALSE, tag |-> FALSE,
                       id |-> IF Lost(e) THEN Gone ELSE 0, sub |-> NoDir]
           Left(e) == IF e.fav THEN e ELSE rest(e)
           items(d) == [i \in DOMAIN s.dirs[d].items |-> Left(s.dirs[d].items[i])]
           new(d) == IF d \notin live THEN NewFolder ELSE [s.dirs[d] EXCEPT !.items = items(d)]
           dirs == [d \in Dirs |-> new(d)]
           t == [s EXCEPT !.dirs = dirs, !.leaked = s.leaked + Total(s.dirs, Dirs \ live)]
<1>1. t = Forget(s)
  BY DEF Forget
<1>2. s \in AllTables /\ AllSound(s.dirs) /\ Linked(s.dirs)
      /\ s.number = s.leaked + Cardinality(Pairs(s.dirs, Dirs))
  BY DEF Whole
<1>3. live \subseteq Dirs /\ Root \in Dirs
  BY <1>2, FavAssumption, BelowIs DEF Least
<1> HIDE DEF live
<1>4. \A e : rest(e) \in Entry /\ Proper(rest(e)) /\ rest(e).fav = FALSE
  <2> TAKE e
  <2>1. (IF Lost(e) THEN Gone ELSE 0) \in FavBoards \cup Int \cup {Gone}
    OBVIOUS
  <2> HIDE DEF Lost
  <2>2. rest(e) \in Entry /\ rest(e).fav = FALSE /\ rest(e).tag = FALSE
    BY <2>1 DEF Entry, Types
  <2> HIDE DEF rest
  <2> QED
    BY <2>2 DEF Proper
<1> HIDE DEF rest
<1>5. ASSUME NEW d \in live
      PROVE  /\ Sound(new(d)) /\ ValidAt(new(d).items) = ValidAt(s.dirs[d].items)
             /\ \A i \in ValidAt(s.dirs[d].items) : new(d).items[i] = s.dirs[d].items[i]
             /\ new(d) \in Folder
  <2> DEFINE f == s.dirs[d]
             g == new(d)
             n == Len(f.items)
  <2>1. Sound(f)
    BY <1>2, <1>3 DEF AllSound
  <2>2. /\ f.items \in Seq(Entry) /\ f.n \in [Types -> Int] /\ f.last \in [{"line", "folder"} -> Int]
        /\ n \in Nat /\ DOMAIN f.items = 1..n /\ ValidAt(f.items) \subseteq 1..n
        /\ \A i \in 1..n : Proper(f.items[i]) /\ f.items[i] \in Entry
    BY <2>1, SoundParts
  <2>3. f \in Folder /\ g = [f EXCEPT !.items = items(d)]
    BY <1>5, <2>1 DEF Sound
  <2>4. items(d) = [i \in 1..n |-> Left(f.items[i])]
    BY <2>2
  <2>5. \A i \in 1..n : Left(f.items[i]) \in Entry /\ Proper(Left(f.items[i]))
    BY <1>4, <2>2
  <2>6. /\ \A i \in 1..n : Left(f.items[i]).fav = f.items[i].fav
        /\ \A i \in 1..n : f.items[i].fav => Left(f.items[i]) = f.items[i]
    BY <1>4, <2>2 DEF Entry
  <2> HIDE DEF items, Left, f
  <2>7. /\ g.items = items(d) /\ g.n = f.n /\ g.last = f.last
        /\ g = [items |-> g.items, n |-> g.n, last |-> g.last]
    <3> HIDE DEF new, n
    <3> QED
      BY <2>3 DEF Folder
  <2> HIDE DEF new
  <2>8. items(d) \in Seq(Entry) /\ Len(items(d)) = n
    <3>1. items(d) \in [1..n -> Entry]
      BY <2>4, <2>5
    <3>2. items(d) \in Seq(Entry)
      BY SMTT(40), <2>2, <3>1
    <3> QED
      BY <2>2, <2>4, <3>2, LenProperties
  <2>9. DOMAIN g.items = 1..n /\ \A i \in 1..n : g.items[i] = Left(f.items[i])
    BY <2>4, <2>7
  <2>10. ValidAt(g.items) = ValidAt(f.items)
    BY <2>2, <2>6, <2>9 DEF ValidAt
  <2>11. \A i \in ValidAt(f.items) : g.items[i] = f.items[i]
    BY <2>2, <2>6, <2>9 DEF ValidAt
  <2>12. g \in Folder
    BY <2>2, <2>7, <2>8 DEF Folder
  <2>13. Sound(g)
    <3>1. \A i \in 1..n : Proper(g.items[i])
      BY <2>5, <2>9
    <3>2. \A tt \in Types : g.n[tt] = f.n[tt] - Cardinality({i \in {} : f.items[i].type = tt})
      <4> TAKE tt \in Types
      <4>1. {i \in {} : f.items[i].type = tt} = {} /\ f.n[tt] \in Int
        BY <2>2
      <4> QED
        BY <2>7, <4>1, FS_EmptySet
    <3>3. LessBy(f, g, {})
      BY <2>7, <2>8, <2>10, <2>11, <2>12, <3>1, <3>2 DEF LessBy
    <3>4. {} \subseteq ValidAt(f.items)
      OBVIOUS
    <3> QED
      BY <2>1, <3>3, <3>4, StillSound
  <2> QED
    BY <2>10, <2>11, <2>12, <2>13 DEF f
<1>6. \A d \in Dirs \ live : new(d) = NewFolder
  OBVIOUS
<1> HIDE DEF new
<1>7. AllSound(dirs) /\ dirs \in [Dirs -> Folder]
  <2>1. \A d \in Dirs : Sound(new(d)) /\ new(d) \in Folder
    BY <1>5, <1>6, NewIsSound DEF Sound
  <2> QED
    BY <2>1 DEF AllSound
<1>8. \A d \in live : /\ ValidAt(dirs[d].items) = ValidAt(s.dirs[d].items)
                      /\ \A i \in ValidAt(s.dirs[d].items) : dirs[d].items[i] = s.dirs[d].items[i]
  BY <1>3, <1>5
<1>9. \A d \in Dirs \ live : dirs[d] = NewFolder
  BY <1>6
<1> HIDE DEF dirs
<1>10. Below(dirs, Root) = live /\ Seen(dirs) = Seen(s.dirs)
  <2>1. \A d \in live : SameList(s.dirs[d], dirs[d])
    <3> TAKE d \in live
    <3>1. Sound(s.dirs[d]) /\ Sound(dirs[d])
      BY <1>2, <1>3, <1>7 DEF AllSound
    <3> QED
      BY <1>8, <3>1, SameValid
  <2> QED
    BY <1>2, <1>7, <2>1, SeenSame DEF live
<1>11. Pairs(dirs, Dirs) = Pairs(s.dirs, live)
  <2>1. \A d \in Dirs \ live : ValidAt(dirs[d].items) = {}
    BY <1>9, NewIsSound
  <2> QED
    BY <1>3, <1>8, <2>1 DEF Pairs
<1>12. \A l \in Pairs(s.dirs, live) : At(dirs, l) = At(s.dirs, l)
  BY <1>8, PairsAre DEF At
<1>13. Linked(dirs)
  <2>1. Pairs(s.dirs, live) \subseteq Pairs(s.dirs, Dirs)
    BY <1>3 DEF Pairs
  <2> QED
    BY <1>2, <1>11, <1>12, <2>1, FewerLinked
<1>14. /\ Cardinality(Pairs(s.dirs, Dirs)) = Cardinality(Pairs(s.dirs, live)) + Total(s.dirs, Dirs \ live)
       /\ Total(s.dirs, Dirs \ live) \in Nat /\ Cardinality(Pairs(s.dirs, live)) \in Nat
  <2> DEFINE A == Pairs(s.dirs, live)
             B == Pairs(s.dirs, Dirs \ live)
  <2>1. Total(s.dirs, Dirs \ live) = Cardinality(B)
    BY <1>2, TotalIs
  <2>2. IsFiniteSet(A) /\ IsFiniteSet(B) /\ Cardinality(A) \in Nat /\ Cardinality(B) \in Nat
    BY <1>2, <1>3, PairsFinite
  <2>3. Pairs(s.dirs, Dirs) = A \cup B /\ A \cap B = {}
    BY <1>3 DEF Pairs
  <2> HIDE DEF A, B
  <2>4. Cardinality(A \cup B) = Cardinality(A) + Cardinality(B)
    BY <2>2, <2>3, DisjointSize
  <2> QED
    BY <2>1, <2>2, <2>3, <2>4 DEF A
<1> DEFINE out == Total(s.dirs, Dirs \ live)
<1>15. /\ t.dirs = dirs /\ t.number = s.number /\ t.dirty = s.dirty /\ t.leaked = s.leaked + out
       /\ t = [dirs |-> t.dirs, number |-> t.number, dirty |-> t.dirty, leaked |-> t.leaked]
  <2> HIDE DEF out
  <2>1. [s EXCEPT !.dirs = dirs, !.leaked = s.leaked + out] = Tbl(dirs, s.number, s.dirty, s.leaked + out)
    BY <1>2, DirsLeaked
  <2>2. t = Tbl(dirs, s.number, s.dirty, s.leaked + out)
    BY <2>1 DEF out
  <2> HIDE DEF t
  <2> QED
    BY <2>2 DEF Tbl
<1>16. /\ s.number \in Nat /\ s.dirty \in BOOLEAN /\ s.leaked \in Nat
  BY <1>2 DEF AllTables
<1> HIDE DEF t
<1>17. t.number = t.leaked + Cardinality(Pairs(t.dirs, Dirs))
  <2>1. s.number = s.leaked + (Cardinality(Pairs(s.dirs, live)) + out)
    BY <1>2, <1>14
  <2>2. t.number = (s.leaked + out) + Cardinality(Pairs(s.dirs, live))
    BY <1>14, <1>15, <1>16, <2>1
  <2> QED
    BY <1>11, <1>15, <2>2
<1>18. t \in AllTables
  BY <1>7, <1>14, <1>15, <1>16 DEF AllTables
<1>19. Whole(t)
  BY <1>7, <1>13, <1>15, <1>17, <1>18 DEF Whole
<1>20. Tidy(t.dirs)
  BY <1>9, <1>10, <1>15 DEF Tidy
<1>21. Forgets(s, t)
  BY <1>8, <1>10, <1>15, <1>19, <1>20 DEF Forgets, live
<1> QED
  BY <1>1, <1>21

-----------------------------------------------------------------------------
(* What a command does to the tables                                       *)

\* The tables t are in order, the user is where he was, and dirty is set if he
\* sees something else now.
Follows(s, t, stack) ==
    /\ Whole(t) /\ Tidy(t.dirs) /\ Path(t.dirs, stack)
    /\ ~ t.dirty => ~ s.dirty /\ Seen(t.dirs) = Seen(s.dirs)

LEMMA PathStays ==
    ASSUME NEW dirs, NEW stack, Path(dirs, stack), NEW after,
           \A k \in 1..Len(stack) : k > 1 /\ Child(dirs, stack[k - 1], stack[k])
               => Child(after, stack[k - 1], stack[k])
    PROVE  Path(after, stack)
  BY DEF Path

\* The folders that the path goes through, but for the last one.
LEMMA PathSteps ==
    ASSUME NEW dirs, AllSound(dirs), NEW stack, Path(dirs, stack),
           NEW k \in 1..Len(stack), k > 1
    PROVE  /\ k - 1 \in 1..Len(stack) /\ stack[k - 1] \in Below(dirs, Root)
           /\ stack[k - 1] \in Dirs /\ stack[k] \in Dirs /\ stack[k - 1] # Last(stack)
           /\ Child(dirs, stack[k - 1], stack[k])
<1>1. Len(stack) \in Nat /\ Last(stack) = stack[Len(stack)]
  BY PathBelow
<1>2. k - 1 \in 1..Len(stack) /\ Len(stack) \in 1..Len(stack) /\ k - 1 # Len(stack)
  BY <1>1
<1>3. stack[k - 1] \in Below(dirs, Root) /\ stack[k] \in Below(dirs, Root)
  BY <1>2, PathBelow
<1>4. Below(dirs, Root) \subseteq Dirs
  BY FavAssumption, BelowIs DEF Least
<1>5. stack[k - 1] # stack[Len(stack)]
  BY <1>2 DEF Path
<1> QED
  BY <1>1, <1>2, <1>3, <1>4, <1>5 DEF Path

\* Forgetting what cannot be come to.
LEMMA ForgetFollows ==
    ASSUME NEW s, NEW r, Whole(r), NEW stack, Path(r.dirs, stack),
           ~ r.dirty => ~ s.dirty /\ Seen(r.dirs) = Seen(s.dirs)
    PROVE  Follows(s, Forget(r), stack)
<1> DEFINE t == Forget(r)
<1>1. Forgets(r, t)
  BY ForgetIs
<1> HIDE DEF t
<1>2. AllSound(r.dirs)
  BY DEF Whole
<1>3. ASSUME NEW k \in 1..Len(stack), k > 1
      PROVE  Child(t.dirs, stack[k - 1], stack[k])
  <2>1. stack[k - 1] \in Below(r.dirs, Root) /\ Child(r.dirs, stack[k - 1], stack[k])
    BY <1>2, <1>3, PathSteps
  <2> QED
    BY <1>1, <2>1 DEF Forgets, Child
<1>4. Path(t.dirs, stack)
  BY <1>3, PathStays
<1>5. Follows(s, t, stack)
  BY <1>1, <1>4 DEF Forgets, Follows
<1> QED
  BY <1>5 DEF t

\* Nothing but the order or numbers of entries changes.
LEMMA AlikeStays ==
    ASSUME NEW dirs, AllSound(dirs), Tidy(dirs), NEW stack, Path(dirs, stack),
           NEW after, AllSound(after),
           \A x \in Dirs, y \in Dirs : Child(after, x, y) <=> Child(dirs, x, y),
           \A x \in Dirs \ Below(dirs, Root) : after[x] = dirs[x]
    PROVE  Below(after, Root) = Below(dirs, Root) /\ Tidy(after) /\ Path(after, stack)
<1>1. Root \in Dirs /\ Below(dirs, Root) \subseteq Dirs
  BY FavAssumption, BelowIs DEF Least
<1>2. Below(after, Root) = Below(dirs, Root)
  BY <1>1, BelowSame
<1>3. Path(after, stack)
  BY PathSteps, PathStays
<1> QED
  BY <1>2, <1>3 DEF Tidy

\* One folder is replaced.
Puts(s, d, g, t) ==
    /\ t \in AllTables /\ AllSound(t.dirs)
    /\ t.number = s.number /\ t.dirty = TRUE /\ t.leaked = s.leaked
    /\ t.dirs[d] = g /\ \A x \in Dirs \ {d} : t.dirs[x] = s.dirs[x]

LEMMA WithIs ==
    ASSUME NEW s, Whole(s), NEW d \in Dirs, NEW g, Sound(g)
    PROVE  Puts(s, d, g, With(s, d, g))
<1> DEFINE dirs == [s.dirs EXCEPT ![d] = g]
           t == With(s, d, g)
<1>1. s \in AllTables /\ AllSound(s.dirs)
  BY DEF Whole
<1>2. t = [s EXCEPT !.dirs = dirs, !.dirty = TRUE]
  BY DEF With
<1>3. /\ dirs \in [Dirs -> Folder] /\ dirs[d] = g
      /\ \A x \in Dirs \ {d} : dirs[x] = s.dirs[x]
  BY <1>1 DEF AllSound, Sound
<1> HIDE DEF dirs, t
<1>4. t = Tbl(dirs, s.number, TRUE, s.leaked)
  BY <1>1, <1>2, DirsDirty
<1>5. /\ t.dirs = dirs /\ t.number = s.number /\ t.dirty = TRUE /\ t.leaked = s.leaked
      /\ t \in AllTables
  BY <1>1, <1>3, <1>4 DEF Tbl, AllTables
<1>6. AllSound(dirs)
  BY <1>1, <1>3 DEF AllSound
<1>7. Puts(s, d, g, t)
  BY <1>3, <1>5, <1>6 DEF Puts
<1> QED
  BY <1>7 DEF t

LEMMA NumberIs ==
    ASSUME NEW r \in AllTables, NEW n \in Nat, NEW t, t = [r EXCEPT !.number = n]
    PROVE  /\ t \in AllTables /\ t.dirs = r.dirs /\ t.number = n
           /\ t.dirty = r.dirty /\ t.leaked = r.leaked
  BY DEF AllTables

\* An entry comes behind the others of the current folder, a folder from free
\* memory.
LEMMA PreappendIs ==
    ASSUME NEW s, Whole(s), Tidy(s.dirs), NEW stack, Path(s.dirs, stack),
           NEW e \in Entry, Proper(e), e.fav,
           e.sub \in Dirs => e.sub \notin Below(s.dirs, Root),
           Fits(s.dirs[Last(stack)], <<e>>), NEW t, t = Preappend(s, Last(stack), e)
    PROVE  Follows(s, t, stack)
<1> DEFINE d == Last(stack)
           f == s.dirs[d]
           g == Extended(f, <<e>>, {"board"})
           r == With(s, d, g)
           q == Len(f.items) + 1
<1>1. s \in AllTables /\ AllSound(s.dirs) /\ Linked(s.dirs) /\ s.leaked \in Nat
  BY DEF Whole, AllTables
<1>2. d \in Dirs /\ d \in Below(s.dirs, Root) /\ Sound(f)
  BY <1>1, PathBelow DEF AllSound
<1>3. Sound(g) /\ Longer(g, f, <<e>>)
  <2>1. Flagged(<<e>>)
    BY DEF Flagged
  <2>2. Fits(f, <<e>>)
    OBVIOUS
  <2> HIDE DEF f
  <2>3. \A h : h = Grown(f, <<e>>, {"board"}) => Sound(h) /\ Longer(h, f, <<e>>)
    BY <1>2, <2>1, GrownIs
  <2>4. Extended(f, <<e>>, {"board"}) = Grown(f, <<e>>, {"board"})
    BY <1>2, <2>1, <2>2, ExtendedIs
  <2> QED
    BY <2>3, <2>4
<1>4. /\ ValidAt(g.items) = ValidAt(f.items) \cup {q} /\ q \notin ValidAt(f.items)
      /\ \A i \in ValidAt(f.items) : g.items[i] = f.items[i]
      /\ g.items[q].sub = e.sub
  <2>1. /\ Len(f.items) \in Nat /\ ValidAt(f.items) \subseteq 1..Len(f.items)
        /\ \A i \in 1..Len(g.items) : g.items[i] \in Entry
    BY <1>2, <1>3, SoundParts
  <2>2. Len(<<e>>) = 1 /\ <<e>>[1] = e
    OBVIOUS
  <2> HIDE DEF f, g
  <2>3. /\ Len(g.items) = q /\ \A i \in 1..Len(f.items) : g.items[i] = f.items[i]
        /\ Bare(g.items[q]) = Bare(e) /\ ValidAt(g.items) = ValidAt(f.items) \cup q..q
    BY <1>3, <2>2 DEF Longer
  <2>4. q..q = {q} /\ q \in 1..q /\ q \notin 1..Len(f.items)
    BY <2>1
  <2>5. g.items[q].sub = e.sub
    BY <2>1, <2>3, <2>4, SameBare
  <2> QED
    BY <2>1, <2>3, <2>4, <2>5
<1> HIDE DEF d, f, g, q
<1>5. /\ r \in AllTables /\ AllSound(r.dirs) /\ r.dirty = TRUE /\ r.leaked = s.leaked
      /\ r.dirs[d] = g /\ \A x \in Dirs \ {d} : r.dirs[x] = s.dirs[x]
  <2>1. Puts(s, d, g, r)
    BY <1>2, <1>3, WithIs
  <2> HIDE DEF r
  <2> QED
    BY <2>1 DEF Puts
<1>6. /\ t \in AllTables /\ t.dirs = r.dirs /\ t.number = s.number + 1
      /\ t.dirty = TRUE /\ t.leaked = s.leaked
  <2>1. t = [r EXCEPT !.number = s.number + 1]
    BY DEF Preappend, r, d, f, g
  <2>2. s.number + 1 \in Nat
    BY <1>1 DEF AllTables
  <2> DEFINE n == s.number + 1
  <2> HIDE DEF r, n
  <2>3. t = [r EXCEPT !.number = n] /\ n \in Nat
    BY <2>1, <2>2 DEF n
  <2>4. /\ t \in AllTables /\ t.dirs = r.dirs /\ t.number = n
        /\ t.dirty = r.dirty /\ t.leaked = r.leaked
    BY <1>5, <2>3, NumberIs
  <2> QED
    BY <1>5, <2>4 DEF n
<1> DEFINE a == r.dirs
<1> HIDE DEF r
<1>7. /\ Pairs(a, Dirs) = Pairs(s.dirs, Dirs) \cup {<<d, q>>} /\ <<d, q>> \notin Pairs(s.dirs, Dirs)
      /\ \A l \in Pairs(s.dirs, Dirs) : At(a, l) = At(s.dirs, l)
      /\ At(a, <<d, q>>).sub = e.sub
  <2>1. \A x \in Dirs : \A i : i \in ValidAt(a[x].items) <=>
            i \in ValidAt(s.dirs[x].items) \/ (x = d /\ i = q)
    BY <1>4, <1>5 DEF f
  <2>2. \A x \in Dirs : \A i \in ValidAt(s.dirs[x].items) : a[x].items[i] = s.dirs[x].items[i]
    BY <1>4, <1>5 DEF f
  <2>3. q \notin ValidAt(s.dirs[d].items) /\ a[d].items[q].sub = e.sub
    BY <1>4, <1>5 DEF f
  <2> HIDE DEF a
  <2> QED
    BY <1>2, <2>1, <2>2, <2>3 DEF Pairs, At
<1> HIDE DEF a
<1>8. Cardinality(Pairs(a, Dirs)) = Cardinality(Pairs(s.dirs, Dirs)) + 1
  <2>1. IsFiniteSet(Pairs(s.dirs, Dirs))
    BY <1>1, PairsFinite
  <2> QED
    BY <1>7, <2>1, FS_AddElement
<1>9. \A l \in Pairs(s.dirs, Dirs) : At(s.dirs, l).sub \in Dirs => At(s.dirs, l).sub \in Below(s.dirs, Root)
  <2> SUFFICES ASSUME NEW l \in Pairs(s.dirs, Dirs), At(s.dirs, l).sub \in Dirs
               PROVE  At(s.dirs, l).sub \in Below(s.dirs, Root)
    OBVIOUS
  <2>1. l[1] \in Dirs /\ l[2] \in ValidAt(s.dirs[l[1]].items)
    BY PairsAre
  <2>2. l[1] \in Below(s.dirs, Root)
    BY <2>1, NewIsSound DEF Tidy
  <2>3. Closed(s.dirs, Below(s.dirs, Root))
    BY <1>1, BelowIs, FavAssumption DEF Least
  <2> QED
    BY <2>1, <2>2, <2>3 DEF Closed, Child, At
<1>10. Root \in Below(s.dirs, Root) /\ Root \in Dirs
  BY <1>1, BelowIs, FavAssumption DEF Least
<1>11. Linked(a)
  BY <1>1, <1>7, <1>9, <1>10 DEF Linked
<1>12. AllSound(a) /\ a[d] = g /\ \A x \in Dirs \ {d} : a[x] = s.dirs[x]
  BY <1>5 DEF a
<1>13. \A x \in Dirs, y \in Dirs : Child(s.dirs, x, y) => Child(a, x, y)
  BY <1>4, <1>12 DEF Child, f
<1>14. Below(s.dirs, Root) \subseteq Below(a, Root)
  <2>1. Below(a, Root) \subseteq Dirs
    BY <1>10, <1>12, BelowIs DEF Least
  <2> QED
    BY <1>1, <1>10, <1>12, <1>13, <2>1, BelowShrinks
<1>15. Tidy(a)
  BY <1>2, <1>12, <1>14 DEF Tidy
<1>16. Path(a, stack)
  <2>1. \A k \in 1..Len(stack) : k > 1 => stack[k - 1] \in Dirs /\ stack[k] \in Dirs
    BY <1>1, PathSteps
  <2> QED
    BY <1>13, <2>1, PathStays
<1>17. Whole(t) /\ t.dirs = a /\ t.dirty = TRUE
  <2>1. s.number + 1 = s.leaked + Cardinality(Pairs(a, Dirs))
    <3>1. s.number = s.leaked + Cardinality(Pairs(s.dirs, Dirs)) /\ Cardinality(Pairs(s.dirs, Dirs)) \in Nat
      BY <1>1, PairsFinite DEF Whole
    <3> QED
      BY <1>1, <1>8, <3>1
  <2> QED
    BY <1>6, <1>11, <1>12, <2>1 DEF Whole, a
<1> QED
  BY <1>15, <1>16, <1>17 DEF Follows

\* An entry of the current folder is removed, and with it all that one comes to
\* only by it.
LEMMA FavRemoveIs ==
    ASSUME NEW s, Whole(s), NEW stack, Path(s.dirs, stack),
           NEW i \in ValidAt(s.dirs[Last(stack)].items)
    PROVE  /\ Follows(s, Forget(FavRemove(s, Last(stack), i)), stack)
           /\ FavRemove(s, Last(stack), i) \in AllTables
<1> DEFINE d == Last(stack)
           f == s.dirs[d]
           g == Removed(f, {i}, FALSE)
           r == With(s, d, g)
           t == FavRemove(s, d, i)
<1>1. s \in AllTables /\ AllSound(s.dirs) /\ Linked(s.dirs) /\ s.leaked \in Nat
  BY DEF Whole, AllTables
<1>2. d \in Dirs /\ d \in Below(s.dirs, Root) /\ Sound(f)
  BY <1>1, PathBelow DEF AllSound
<1>3. /\ Sound(g) /\ ValidAt(g.items) = ValidAt(f.items) \ {i}
      /\ \A j \in ValidAt(f.items) \ {i} : g.items[j] = f.items[j]
  <2> HIDE DEF f, g
  <2>1. PICK m \in BOOLEAN : m = FALSE
    OBVIOUS
  <2> DEFINE P == {i}
  <2>2. P \subseteq ValidAt(f.items) /\ g = Removed(f, P, m)
    BY <2>1 DEF f, g
  <2> HIDE DEF P
  <2>4. Loses(f, g, P)
    BY <1>2, <2>2, RemovedIs
  <2>3. ValidAt(f.items) \subseteq 1..Len(f.items)
    BY <1>2, SoundParts
  <2> QED
    BY <2>3, <2>4 DEF P, Loses
<1>4. i \in ValidAt(f.items)
  OBVIOUS
<1> HIDE DEF d, f, g
<1>5. /\ r \in AllTables /\ AllSound(r.dirs) /\ r.dirty = TRUE /\ r.leaked = s.leaked
      /\ r.dirs[d] = g /\ \A x \in Dirs \ {d} : r.dirs[x] = s.dirs[x]
  <2>1. Puts(s, d, g, r)
    BY <1>2, <1>3, WithIs
  <2> HIDE DEF r
  <2> QED
    BY <2>1 DEF Puts
<1> DEFINE a == r.dirs
<1>7. /\ Pairs(a, Dirs) = Pairs(s.dirs, Dirs) \ {<<d, i>>} /\ <<d, i>> \in Pairs(s.dirs, Dirs)
      /\ \A l \in Pairs(a, Dirs) : At(a, l) = At(s.dirs, l)
  <2>1. \A x \in Dirs : \A j : j \in ValidAt(a[x].items) <=>
            j \in ValidAt(s.dirs[x].items) /\ ~ (x = d /\ j = i)
    BY <1>3, <1>5 DEF f
  <2>2. \A x \in Dirs : \A j \in ValidAt(a[x].items) : a[x].items[j] = s.dirs[x].items[j]
    BY <1>3, <1>5 DEF f
  <2>3. i \in ValidAt(s.dirs[d].items)
    BY <1>4 DEF f
  <2> HIDE DEF a
  <2>4. \A l \in Pairs(a, Dirs) : At(a, l) = At(s.dirs, l)
    BY <2>2, PairsAre DEF At
  <2> QED
    BY <1>2, <2>1, <2>3, <2>4 DEF Pairs
<1>8. /\ Cardinality(Pairs(a, Dirs)) = Cardinality(Pairs(s.dirs, Dirs)) - 1
      /\ Cardinality(Pairs(a, Dirs)) \in Nat /\ Cardinality(Pairs(s.dirs, Dirs)) \in Nat
  <2>1. IsFiniteSet(Pairs(s.dirs, Dirs)) /\ Cardinality(Pairs(s.dirs, Dirs)) \in Nat
    BY <1>1, PairsFinite
  <2>2. Cardinality(Pairs(a, Dirs)) \in Nat
    BY <1>5, PairsFinite
  <2> HIDE DEF a
  <2> QED
    BY <1>7, <2>1, <2>2, FS_RemoveElement
<1>9. s.number = s.leaked + Cardinality(Pairs(s.dirs, Dirs))
  BY DEF Whole
<1>10. /\ t \in AllTables /\ t.dirs = r.dirs /\ t.number = s.number - 1
       /\ t.dirty = TRUE /\ t.leaked = s.leaked
  <2>1. t = [r EXCEPT !.number = s.number - 1]
    BY DEF FavRemove, r, d, f, g
  <2>2. s.number - 1 \in Nat
    BY <1>1, <1>8, <1>9
  <2> DEFINE n == s.number - 1
  <2> HIDE DEF r, n, t
  <2>3. t = [r EXCEPT !.number = n] /\ n \in Nat
    BY <2>1, <2>2 DEF n
  <2>4. /\ t \in AllTables /\ t.dirs = r.dirs /\ t.number = n
        /\ t.dirty = r.dirty /\ t.leaked = r.leaked
    BY <1>5, <2>3, NumberIs
  <2> QED
    BY <1>5, <2>4 DEF n
<1> HIDE DEF r, t
<1>11. Linked(a)
  <2>1. Pairs(a, Dirs) \subseteq Pairs(s.dirs, Dirs) /\ \A l \in Pairs(a, Dirs) : At(a, l).sub = At(s.dirs, l).sub
    BY <1>7
  <2> HIDE DEF a
  <2> QED
    BY <1>1, <2>1, FewerLinked
<1>12. Path(a, stack)
  <2>1. \A k \in 1..Len(stack) : k > 1 =>
            stack[k - 1] \in Dirs /\ stack[k] \in Dirs /\ stack[k - 1] # d
    BY <1>1, PathSteps DEF d
  <2>2. \A k \in 1..Len(stack) : k > 1 /\ Child(s.dirs, stack[k - 1], stack[k])
               => Child(a, stack[k - 1], stack[k])
    BY <1>5, <2>1 DEF Child
  <2> HIDE DEF a
  <2> QED
    BY <2>2, PathStays
<1>13. Whole(t)
  <2>1. s.number - 1 = s.leaked + Cardinality(Pairs(a, Dirs))
    BY <1>1, <1>8, <1>9
  <2> QED
    BY <1>5, <1>10, <1>11, <2>1 DEF Whole
<1>14. Follows(s, Forget(t), stack)
  <2>1. Path(t.dirs, stack) /\ t.dirty = TRUE
    BY <1>10, <1>12
  <2> QED
    BY <1>13, <2>1, ForgetFollows
<1> QED
  BY <1>10, <1>14 DEF t, d

\* The entries of the current folder come in another order.
LEMMA ReorderFollows ==
    ASSUME NEW s, Whole(s), Tidy(s.dirs), NEW stack, Path(s.dirs, stack),
           NEW g, NEW p, Reordered(s.dirs[Last(stack)], g, p)
    PROVE  Follows(s, With(s, Last(stack), g), stack)
<1> DEFINE d == Last(stack)
           f == s.dirs[d]
           n == Len(f.items)
           t == With(s, d, g)
           a == t.dirs
           from(l) == IF l[1] = d THEN <<d, p[l[2]]>> ELSE l
           w == [l \in Pairs(a, Dirs) |-> from(l)]
<1>1. s \in AllTables /\ AllSound(s.dirs) /\ Linked(s.dirs)
  BY DEF Whole
<1>2. d \in Dirs /\ d \in Below(s.dirs, Root) /\ Sound(f)
  BY <1>1, PathBelow DEF AllSound
<1>3. /\ Sound(g) /\ \A i \in 1..n : g.items[i] = f.items[p[i]]
      /\ ValidAt(g.items) = {i \in 1..n : p[i] \in ValidAt(f.items)}
  <2>1. Reordered(f, g, p)
    OBVIOUS
  <2> HIDE DEF f
  <2> QED
    BY <1>2, <2>1, ReorderedIs
<1>4. /\ p \in [1..n -> 1..n]
      /\ \A i, j \in 1..n : p[i] = p[j] => i = j
      /\ \A j \in 1..n : \E i \in 1..n : p[i] = j
  BY DEF Reordered
<1>5. ValidAt(f.items) \subseteq 1..n
  BY <1>2, SoundParts
<1> HIDE DEF d, f, n
<1>6. /\ t \in AllTables /\ AllSound(a) /\ t.dirty = TRUE /\ t.leaked = s.leaked
      /\ t.number = s.number /\ a[d] = g /\ \A x \in Dirs \ {d} : a[x] = s.dirs[x]
  <2>1. Puts(s, d, g, t)
    BY <1>2, <1>3, WithIs
  <2> HIDE DEF t
  <2> QED
    BY <2>1 DEF Puts
<1> HIDE DEF t, a, from, w
<1>7. \A l \in Pairs(a, Dirs) : /\ from(l) \in Pairs(s.dirs, Dirs)
                                /\ At(a, l) = At(s.dirs, from(l))
  <2> TAKE l \in Pairs(a, Dirs)
  <2>1. l[1] \in Dirs /\ l[2] \in ValidAt(a[l[1]].items) /\ l = <<l[1], l[2]>>
    BY PairsAre
  <2>2. CASE l[1] = d
    <3>1. l[2] \in 1..n /\ p[l[2]] \in ValidAt(f.items) /\ from(l) = <<d, p[l[2]]>>
      BY <1>3, <1>6, <2>1, <2>2 DEF from
    <3>2. \A i \in ValidAt(f.items) :
              <<d, i>> \in Pairs(s.dirs, Dirs) /\ At(s.dirs, <<d, i>>) = f.items[i]
      BY <1>2 DEF f, Pairs, At
    <3>4. from(l) \in Pairs(s.dirs, Dirs) /\ At(s.dirs, from(l)) = f.items[p[l[2]]]
      BY <3>1, <3>2
    <3>3. At(a, l) = g.items[l[2]]
      BY <1>6, <2>2 DEF At
    <3> QED
      BY <1>3, <3>1, <3>3, <3>4
  <2>3. CASE l[1] # d
    <3>1. from(l) = l /\ a[l[1]] = s.dirs[l[1]]
      BY <1>6, <2>1, <2>3 DEF from
    <3>2. l \in Pairs(s.dirs, Dirs)
      BY <2>1, <3>1, PairsAre
    <3> QED
      BY <3>1, <3>2 DEF At
  <2> QED
    BY <2>2, <2>3
<1>8. \A l, m \in Pairs(a, Dirs) : from(l) = from(m) => l = m
  <2> SUFFICES ASSUME NEW l \in Pairs(a, Dirs), NEW m \in Pairs(a, Dirs), from(l) = from(m)
               PROVE  l = m
    OBVIOUS
  <2>1. l = <<l[1], l[2]>> /\ m = <<m[1], m[2]>> /\ from(l)[1] = l[1] /\ from(m)[1] = m[1]
    BY PairsAre DEF from
  <2>2. CASE l[1] = d
    <3>1. m[1] = d /\ p[l[2]] = p[m[2]]
      BY <2>1, <2>2 DEF from
    <3>2. l[2] \in 1..n /\ m[2] \in 1..n
      BY <1>3, <1>6, <2>2, <3>1, PairsAre
    <3> QED
      BY <1>4, <2>1, <2>2, <3>1, <3>2
  <2>3. CASE l[1] # d
    BY <2>1, <2>3 DEF from
  <2> QED
    BY <2>2, <2>3
<1>9. \A m \in Pairs(s.dirs, Dirs) : \E l \in Pairs(a, Dirs) : from(l) = m
  <2> TAKE m \in Pairs(s.dirs, Dirs)
  <2>1. m[1] \in Dirs /\ m[2] \in ValidAt(s.dirs[m[1]].items) /\ m = <<m[1], m[2]>>
    BY PairsAre
  <2>2. CASE m[1] = d
    <3>1. m[2] \in ValidAt(f.items)
      BY <2>1, <2>2 DEF f
    <3>2. PICK i \in 1..n : p[i] = m[2]
      BY <1>4, <1>5, <3>1
    <3>3. i \in ValidAt(a[d].items)
      BY <1>3, <1>6, <3>1, <3>2
    <3>4. <<d, i>> \in Pairs(a, Dirs) /\ from(<<d, i>>) = m
      BY <1>2, <2>1, <2>2, <3>2, <3>3, PairsAre DEF from
    <3> QED
      BY <3>4
  <2>3. CASE m[1] # d
    <3>1. from(m) = m /\ a[m[1]] = s.dirs[m[1]]
      BY <1>6, <2>1, <2>3 DEF from
    <3>2. m \in Pairs(a, Dirs)
      BY <2>1, <3>1, PairsAre
    <3> QED
      BY <3>1, <3>2
  <2> QED
    BY <2>2, <2>3
<1>10. CameFrom(s.dirs, a, w) /\ \A m \in Pairs(s.dirs, Dirs) : \E l \in Pairs(a, Dirs) : w[l] = m
  BY <1>7, <1>8, <1>9 DEF CameFrom, w
<1>11. Linked(a)
  BY <1>1, <1>10, LinkedStays
<1>12. Cardinality(Pairs(a, Dirs)) = Cardinality(Pairs(s.dirs, Dirs))
  BY <1>1, <1>6, <1>10, AllCame
<1>13. \A x \in Dirs, y \in Dirs : Child(a, x, y) <=> Child(s.dirs, x, y)
  <2> TAKE x \in Dirs, y \in Dirs
  <2>1. CASE x = d
    <3>1. ASSUME Child(a, x, y) PROVE Child(s.dirs, x, y)
      BY <1>3, <1>6, <2>1, <3>1 DEF Child, f
    <3>2. ASSUME Child(s.dirs, x, y) PROVE Child(a, x, y)
      <4>1. PICK j \in ValidAt(f.items) : f.items[j].sub = y
        BY <2>1, <3>2 DEF Child, f
      <4>2. PICK i \in 1..n : p[i] = j
        BY <1>4, <1>5, <4>1
      <4> QED
        BY <1>3, <1>6, <2>1, <4>1, <4>2 DEF Child
    <3> QED
      BY <3>1, <3>2
  <2>2. CASE x # d
    BY <1>6, <2>2 DEF Child
  <2> QED
    BY <2>1, <2>2
<1>14. Tidy(a) /\ Path(a, stack)
  <2>1. \A x \in Dirs \ Below(s.dirs, Root) : a[x] = s.dirs[x]
    BY <1>2, <1>6
  <2> QED
    BY <1>1, <1>6, <1>13, <2>1, AlikeStays
<1>15. Whole(t)
  BY <1>6, <1>11, <1>12 DEF Whole, a
<1>16. Follows(s, t, stack)
  BY <1>6, <1>14, <1>15 DEF Follows, a
<1> QED
  BY <1>16 DEF t, d

LEMMA FollowsNext ==
    ASSUME NEW s, NEW r, NEW t, NEW stack, Follows(s, r, stack), Follows(r, t, stack)
    PROVE  Follows(s, t, stack)
  BY DEF Follows

LEMMA FollowsItself ==
    ASSUME NEW s, Whole(s), Tidy(s.dirs), NEW stack, Path(s.dirs, stack)
    PROVE  Follows(s, s, stack)
  BY DEF Follows

LEMMA MoveInIs ==
    ASSUME NEW s, Whole(s), Tidy(s.dirs), NEW stack, Path(s.dirs, stack), NEW src, NEW dst
    PROVE  Follows(s, MoveIn(s, Last(stack), src, dst), stack)
<1> DEFINE d == Last(stack)
           f == s.dirs[d]
           a == Place(f.items, src)
           b == Place(f.items, dst)
           t == MoveIn(s, d, src, dst)
<1>1. s \in AllTables /\ AllSound(s.dirs)
  BY DEF Whole
<1>2. Sound(f)
  BY <1>1, PathBelow DEF AllSound
<1>3. CASE src = dst
  BY <1>3, FollowsItself DEF MoveIn
<1>4. CASE src # dst /\ (a = 0 \/ b = 0)
  <2>1. t = [s EXCEPT !.dirty = TRUE]
    BY <1>4 DEF MoveIn
  <2> HIDE DEF t
  <2>2. /\ t \in AllTables /\ t.dirs = s.dirs /\ t.number = s.number /\ t.dirty = TRUE
        /\ t.leaked = s.leaked
    BY <1>1, <2>1 DEF AllTables
  <2>3. Follows(s, t, stack)
    BY <2>2 DEF Follows, Whole
  <2> QED
    BY <2>3 DEF t, d
<1>5. CASE src # dst /\ ~ (a = 0 \/ b = 0)
  <2>1. a \in 1..Len(f.items) /\ b \in 1..Len(f.items)
    <3>1. f.items \in Seq(Entry) /\ ValidAt(f.items) \subseteq 1..Len(f.items)
      BY <1>2, SoundParts
    <3> QED
      BY <1>5, <3>1, PlaceIs
  <2>2. t = With(s, d, Shifted(f, a, b))
    BY <1>5 DEF MoveIn
  <2> DEFINE g == Shifted(f, a, b)
  <2> HIDE DEF a, b
  <2>3. \E p : Reordered(f, g, p)
    <3>1. f \in Folder
      BY <1>2 DEF Sound
    <3> HIDE DEF f
    <3> QED
      BY <2>1, <3>1, ShiftedIs
  <2>4. PICK p : Reordered(f, g, p)
    BY <2>3
  <2> HIDE DEF g
  <2>5. Follows(s, With(s, Last(stack), g), stack)
    BY <2>4, ReorderFollows
  <2> QED
    BY <2>2, <2>5 DEF g
<1> QED
  BY <1>3, <1>4, <1>5

\* Nothing but tags and ids changes.
Marks(dirs, after) ==
    /\ \A x \in Dirs : ValidAt(after[x].items) = ValidAt(dirs[x].items)
    /\ \A x \in Dirs : \A i \in ValidAt(dirs[x].items) :
          after[x].items[i].sub = dirs[x].items[i].sub
    /\ \A x \in Dirs \ Below(dirs, Root) : after[x] = dirs[x]

LEMMA MarksFollow ==
    ASSUME NEW s, Whole(s), Tidy(s.dirs), NEW stack, Path(s.dirs, stack),
           NEW t, t \in AllTables, AllSound(t.dirs), Marks(s.dirs, t.dirs),
           t.number = s.number, t.leaked = s.leaked,
           ~ t.dirty => ~ s.dirty /\ Seen(t.dirs) = Seen(s.dirs)
    PROVE  Follows(s, t, stack)
<1> DEFINE a == t.dirs
<1>1. AllSound(s.dirs) /\ Linked(s.dirs)
  BY DEF Whole
<1>2. /\ \A x \in Dirs : ValidAt(a[x].items) = ValidAt(s.dirs[x].items)
      /\ \A x \in Dirs : \A i \in ValidAt(s.dirs[x].items) :
            a[x].items[i].sub = s.dirs[x].items[i].sub
      /\ \A x \in Dirs \ Below(s.dirs, Root) : a[x] = s.dirs[x]
  BY DEF Marks
<1> HIDE DEF a
<1>3. Pairs(a, Dirs) = Pairs(s.dirs, Dirs)
  BY <1>2 DEF Pairs
<1>4. \A l \in Pairs(a, Dirs) : At(a, l).sub = At(s.dirs, l).sub
  BY <1>2, <1>3, PairsAre DEF At
<1>5. Linked(a)
  BY <1>1, <1>3, <1>4, FewerLinked
<1>6. \A x \in Dirs, y \in Dirs : Child(a, x, y) <=> Child(s.dirs, x, y)
  BY <1>2 DEF Child
<1>7. AllSound(a)
  BY DEF a
<1>8. Tidy(a) /\ Path(a, stack)
  BY <1>1, <1>2, <1>6, <1>7, AlikeStays
<1>9. Whole(t)
  BY <1>3, <1>5 DEF Whole, a
<1> QED
  BY <1>8, <1>9 DEF Follows, a

\* The tag of an entry in the current folder changes.
LEMMA TagFollows ==
    ASSUME NEW s, Whole(s), Tidy(s.dirs), NEW stack, Path(s.dirs, stack),
           NEW i \in ValidAt(s.dirs[Last(stack)].items), NEW bit \in BOOLEAN
    PROVE  Follows(s, With(s, Last(stack), TagSet(s.dirs[Last(stack)], {i}, bit)), stack)
<1> DEFINE d == Last(stack)
           f == s.dirs[d]
           P == {i}
           g == TagSet(f, P, bit)
           t == With(s, d, g)
<1>1. AllSound(s.dirs)
  BY DEF Whole
<1>2. d \in Dirs /\ d \in Below(s.dirs, Root) /\ Sound(f)
  BY <1>1, PathBelow DEF AllSound
<1>3. P \subseteq ValidAt(f.items)
  OBVIOUS
<1>4. Ticked(f, g, P, bit)
  <2> HIDE DEF f, P
  <2> QED
    BY <1>2, <1>3, TagSetIs
<1>5. /\ Sound(g) /\ ValidAt(g.items) = ValidAt(f.items)
      /\ \A j \in ValidAt(f.items) : g.items[j].sub = f.items[j].sub
  <2>1. ValidAt(f.items) \subseteq 1..Len(f.items)
    BY <1>2, SoundParts
  <2> HIDE DEF f, P, g
  <2> QED
    BY <1>4, <2>1 DEF Ticked
<1> HIDE DEF d, f, g
<1>6. /\ t \in AllTables /\ AllSound(t.dirs) /\ t.dirty = TRUE /\ t.leaked = s.leaked
      /\ t.number = s.number /\ t.dirs[d] = g /\ \A x \in Dirs \ {d} : t.dirs[x] = s.dirs[x]
  <2>1. Puts(s, d, g, t)
    BY <1>2, <1>5, WithIs
  <2> HIDE DEF t
  <2> QED
    BY <2>1 DEF Puts
<1> HIDE DEF t
<1>7. Marks(s.dirs, t.dirs)
  <2>1. \A x \in Dirs : ValidAt(t.dirs[x].items) = ValidAt(s.dirs[x].items)
    BY <1>5, <1>6 DEF f
  <2>2. \A x \in Dirs : \A j \in ValidAt(s.dirs[x].items) :
            t.dirs[x].items[j].sub = s.dirs[x].items[j].sub
    BY <1>5, <1>6 DEF f
  <2> QED
    BY <1>2, <1>6, <2>1, <2>2 DEF Marks
<1>8. Follows(s, t, stack)
  BY <1>6, <1>7, MarksFollow
<1> QED
  BY <1>8 DEF t, g, f, d

LEMMA NoTagSet ==
    ASSUME NEW f, Sound(f), NEW bit
    PROVE  TagSet(f, {}, bit) = f
<1>1. f \in Folder /\ f.items \in Seq(Entry)
  BY DEF Sound, Folder
<1>2. [i \in DOMAIN f.items |-> f.items[i]] = f.items
  BY <1>1
<1>3. TagSet(f, {}, bit) = [f EXCEPT !.items = f.items]
  BY <1>2 DEF TagSet
<1> QED
  BY <1>1, <1>3 DEF Folder

\* All tags are taken off.
Untagged(dirs) == [d \in Dirs |-> TagSet(dirs[d], TaggedAt(dirs[d]), FALSE)]

LEMMA UntaggedIs ==
    ASSUME NEW dirs, AllSound(dirs), Tidy(dirs)
    PROVE  /\ AllSound(Untagged(dirs)) /\ Marks(dirs, Untagged(dirs))
           /\ ~ Tagged(dirs) => Untagged(dirs) = dirs
<1> DEFINE a == Untagged(dirs)
<1>1. ASSUME NEW x \in Dirs
      PROVE  /\ Sound(a[x]) /\ ValidAt(a[x].items) = ValidAt(dirs[x].items)
             /\ \A i \in ValidAt(dirs[x].items) : a[x].items[i].sub = dirs[x].items[i].sub
             /\ TaggedAt(dirs[x]) = {} => a[x] = dirs[x]
  <2> DEFINE f == dirs[x]
             P == TaggedAt(f)
             g == a[x]
  <2>1. Sound(f)
    BY DEF AllSound
  <2>2. PICK bit \in BOOLEAN : bit = FALSE
    OBVIOUS
  <2>3. g = TagSet(f, P, bit)
    BY <2>2 DEF Untagged
  <2>4. P \subseteq ValidAt(f.items)
    BY DEF TaggedAt, ValidAt
  <2>5. P = {} => g = f
    <3> HIDE DEF f, P, g
    <3> QED
      BY <2>1, <2>3, NoTagSet
  <2>6. Ticked(f, g, P, bit)
    <3> HIDE DEF f, P, g
    <3> QED
      BY <2>1, <2>3, <2>4, TagSetIs
  <2>7. ValidAt(f.items) \subseteq 1..Len(f.items)
    BY <2>1, SoundParts
  <2>8. /\ Sound(g) /\ ValidAt(g.items) = ValidAt(f.items)
        /\ \A i \in ValidAt(f.items) : g.items[i].sub = f.items[i].sub
    <3> HIDE DEF f, P, g
    <3> QED
      BY <2>6, <2>7 DEF Ticked
  <2> QED
    BY <2>5, <2>8
<1>2. a = [x \in Dirs |-> a[x]]
  BY DEF Untagged
<1>3. dirs \in [Dirs -> Folder]
  BY DEF AllSound
<1> HIDE DEF a
<1>4. AllSound(a)
  BY <1>1, <1>2 DEF AllSound, Sound
<1>5. \A x \in Dirs \ Below(dirs, Root) : a[x] = dirs[x]
  <2> TAKE x \in Dirs \ Below(dirs, Root)
  <2>1. dirs[x] = NewFolder /\ ValidAt(NewFolder.items) = {}
    BY NewIsSound DEF Tidy
  <2>2. TaggedAt(dirs[x]) = {}
    BY <2>1 DEF TaggedAt, ValidAt
  <2> QED
    BY <1>1, <2>2
<1>6. Marks(dirs, a)
  BY <1>1, <1>5 DEF Marks
<1>7. ~ Tagged(dirs) => a = dirs
  BY <1>1, <1>2, <1>3 DEF Tagged
<1> QED
  BY <1>4, <1>6, <1>7 DEF a

LEMMA UntagFollows ==
    ASSUME NEW s, Whole(s), Tidy(s.dirs), NEW stack, Path(s.dirs, stack)
    PROVE  Follows(s, [s EXCEPT !.dirs = Untagged(s.dirs),
                                !.dirty = s.dirty \/ Tagged(s.dirs)], stack)
<1> DEFINE a == Untagged(s.dirs)
           b == s.dirty \/ Tagged(s.dirs)
           t == [s EXCEPT !.dirs = a, !.dirty = b]
<1>1. s \in AllTables /\ AllSound(s.dirs)
  BY DEF Whole
<1>2. AllSound(a) /\ Marks(s.dirs, a) /\ (~ Tagged(s.dirs) => a = s.dirs)
  BY <1>1, UntaggedIs
<1>3. b \in BOOLEAN /\ (b = FALSE => ~ s.dirty /\ ~ Tagged(s.dirs))
  BY <1>1 DEF AllTables
<1>4. ~ b => ~ s.dirty /\ a = s.dirs
  BY <1>2
<1> HIDE DEF a, b, t
<1>5. t = Tbl(a, s.number, b, s.leaked)
  BY <1>1, DirsDirty DEF t
<1>6. /\ t \in AllTables /\ t.dirs = a /\ t.number = s.number /\ t.leaked = s.leaked
      /\ t.dirty = b
  BY <1>1, <1>2, <1>3, <1>5 DEF AllTables, Tbl, AllSound
<1>7. ~ t.dirty => ~ s.dirty /\ Seen(t.dirs) = Seen(s.dirs)
  BY <1>4, <1>6
<1>8. Follows(s, t, stack)
  BY <1>2, <1>6, <1>7, MarksFollow
<1> QED
  BY <1>8 DEF t, a, b

\* The entries at P have lost their flag, and all their tag.
Sweeps(f, g, P) ==
    /\ Sound(g) /\ Len(g.items) = Len(f.items)
    /\ ValidAt(g.items) = ValidAt(f.items) \ P
    /\ \A i \in ValidAt(f.items) \ P :
          /\ g.items[i].type = f.items[i].type /\ g.items[i].id = f.items[i].id
          /\ g.items[i].sub = f.items[i].sub
    /\ \A i \in 1..Len(f.items) : ~ g.items[i].tag
    /\ TaggedAt(f) = {} => \A i \in 1..Len(f.items) : g.items[i] = f.items[i]

LEMMA SweepIs ==
    ASSUME NEW f, Sound(f), NEW P, P \subseteq TaggedAt(f), NEW moved \in BOOLEAN,
           NEW g, g = Removed(TagSet(f, TaggedAt(f), FALSE), P, moved)
    PROVE  Sweeps(f, g, P)
<1> DEFINE T == TaggedAt(f)
           h == TagSet(f, T, FALSE)
<1>1. T \subseteq ValidAt(f.items) /\ P \subseteq ValidAt(f.items)
  BY DEF TaggedAt, ValidAt
<1>2. PICK bit \in BOOLEAN : bit = FALSE
  OBVIOUS
<1>3. Ticked(f, h, T, bit)
  <2>1. h = TagSet(f, T, bit)
    BY <1>2
  <2> HIDE DEF T, h
  <2> QED
    BY <1>1, <2>1, TagSetIs
<1>4. g = Removed(h, P, moved)
  OBVIOUS
<1>5. T = {} => h = f
  <2> HIDE DEF T
  <2> QED
    BY NoTagSet
<1>6. \A i \in 1..Len(f.items) : f.items[i].tag => i \in T
  <2>1. \A i \in 1..Len(f.items) : i \in DOMAIN f.items /\ Proper(f.items[i])
    BY SoundParts
  <2> QED
    BY <2>1 DEF TaggedAt, Proper
<1> HIDE DEF T, h
<1>7. /\ Sound(h) /\ Len(h.items) = Len(f.items) /\ ValidAt(h.items) = ValidAt(f.items)
      /\ \A i \in 1..Len(f.items) : /\ h.items[i].type = f.items[i].type
                                    /\ h.items[i].id = f.items[i].id
                                    /\ h.items[i].sub = f.items[i].sub
      /\ \A i \in 1..Len(f.items) \ T : h.items[i] = f.items[i]
      /\ \A i \in T : h.items[i].tag = FALSE
  BY <1>2, <1>3 DEF Ticked
<1>8. Loses(h, g, P)
  BY <1>1, <1>4, <1>7, RemovedIs
<1>9. /\ Sound(g) /\ Len(g.items) = Len(f.items)
      /\ ValidAt(g.items) = ValidAt(f.items) \ P
      /\ \A i \in 1..Len(f.items) \ P : g.items[i] = h.items[i]
      /\ \A i \in P : ~ g.items[i].tag
  BY <1>7, <1>8 DEF Loses
<1>10. ValidAt(f.items) \subseteq 1..Len(f.items)
  BY SoundParts
<1>11. \A i \in 1..Len(f.items) : ~ g.items[i].tag
  BY <1>6, <1>7, <1>9
<1>12. T = {} => \A i \in 1..Len(f.items) : g.items[i] = f.items[i]
  <2>1. P \subseteq T
    BY DEF T
  <2> QED
    BY <1>5, <1>9, <2>1
<1>13. \A i \in ValidAt(f.items) \ P :
          /\ g.items[i].type = f.items[i].type /\ g.items[i].id = f.items[i].id
          /\ g.items[i].sub = f.items[i].sub
  BY <1>7, <1>9, <1>10
<1> QED
  BY <1>9, <1>11, <1>12, <1>13 DEF Sweeps, T

\* The positions in x that a command on tagged entries takes.
From(dirs, x, taken) == {i \in DOMAIN dirs[x].items : <<x, i>> \in taken}

Takes(dirs, D, taken) ==
    /\ taken \subseteq Pairs(dirs, D)
    /\ \A x \in Dirs : From(dirs, x, taken) \subseteq TaggedAt(dirs[x])
    /\ \A x \in Dirs : \A i : <<x, i>> \in taken <=> i \in From(dirs, x, taken)
    /\ \A x \in D : \A i \in TaggedAt(dirs[x]) :
          <<x, i>> \in taken <=> ~ OnStack(dirs[x].items[i])

LEMMA TakenAre ==
    ASSUME NEW dirs, AllSound(dirs), NEW D, D \subseteq Dirs, NEW taken, taken = Taken(dirs, D)
    PROVE  Takes(dirs, D, taken)
<1> USE DEF Takes
<1>1. \A d \in D : TaggedAt(dirs[d]) \subseteq ValidAt(dirs[d].items)
  BY DEF TaggedAt, ValidAt
<1>2. taken \subseteq UNION {{d} \X TaggedAt(dirs[d]) : d \in D}
  BY DEF Taken
<1>3. taken \subseteq Pairs(dirs, D)
  BY <1>1, <1>2 DEF Pairs
<1>4. \A x : \A i : <<x, i>> \in taken => x \in D /\ i \in TaggedAt(dirs[x])
  BY <1>2
<1>5. \A x \in D : \A i \in TaggedAt(dirs[x]) :
          <<x, i>> \in taken <=> ~ OnStack(dirs[x].items[i])
  <2>1. \A x \in D : \A i \in TaggedAt(dirs[x]) :
            <<x, i>> \in UNION {{d} \X TaggedAt(dirs[d]) : d \in D}
    OBVIOUS
  <2> QED
    BY <2>1 DEF Taken
<1>6. \A x \in Dirs : \A i : <<x, i>> \in taken <=> i \in From(dirs, x, taken)
  <2>1. \A x : \A i \in TaggedAt(dirs[x]) : i \in DOMAIN dirs[x].items
    BY DEF TaggedAt
  <2> QED
    BY <1>4, <2>1 DEF From
<1> QED
  BY <1>3, <1>4, <1>5, <1>6 DEF From

LEMMA SweptIs ==
    ASSUME NEW dirs, AllSound(dirs), NEW D, D \subseteq Dirs, NEW taken, taken = Taken(dirs, D),
           NEW moved \in BOOLEAN, NEW x \in Dirs
    PROVE  Sweeps(dirs[x], Swept(dirs, x, taken, moved), From(dirs, x, taken))
<1> DEFINE f == dirs[x]
           P == From(dirs, x, taken)
           g == Swept(dirs, x, taken, moved)
<1>1. Sound(f)
  BY DEF AllSound
<1>2. P \subseteq TaggedAt(f)
  BY TakenAre DEF Takes
<1>3. g = Removed(TagSet(f, TaggedAt(f), FALSE), P, moved)
  BY DEF Swept, From
<1> HIDE DEF f, P, g
<1>4. Sweeps(f, g, P)
  BY <1>1, <1>2, <1>3, SweepIs
<1> QED
  BY <1>4 DEF f, P, g

\* The tagged entries of all folders are removed.
DeleteSwept(s) ==
    LET taken == Taken(s.dirs, Dirs)
    IN [s EXCEPT !.dirs = [d \in Dirs |-> Swept(s.dirs, d, taken, FALSE)],
                 !.number = s.number - Cardinality(taken),
                 !.dirty = s.dirty \/ Tagged(s.dirs)]

LEMMA DeleteTaggedFollows ==
    ASSUME NEW s, Whole(s), Path(s.dirs, fav_stack)
    PROVE  Follows(s, Forget(DeleteSwept(s)), fav_stack) /\ DeleteSwept(s) \in AllTables
<1> DEFINE taken == Taken(s.dirs, Dirs)
           P(x) == From(s.dirs, x, taken)
           a == [d \in Dirs |-> Swept(s.dirs, d, taken, FALSE)]
           n == s.number - Cardinality(taken)
           b == s.dirty \/ Tagged(s.dirs)
           t == DeleteSwept(s)
<1>1. s \in AllTables /\ AllSound(s.dirs) /\ Linked(s.dirs)
  BY DEF Whole
<1>2. /\ taken \subseteq Pairs(s.dirs, Dirs)
      /\ \A x \in Dirs : \A i : <<x, i>> \in taken <=> i \in P(x)
      /\ \A x \in Dirs : \A i \in TaggedAt(s.dirs[x]) :
            <<x, i>> \in taken <=> ~ OnStack(s.dirs[x].items[i])
      /\ \A x \in Dirs : P(x) \subseteq TaggedAt(s.dirs[x])
  <2> HIDE DEF taken
  <2>1. taken = Taken(s.dirs, Dirs)
    BY DEF taken
  <2> QED
    BY <1>1, <2>1, TakenAre DEF Takes
<1>3. \A x \in Dirs : Sweeps(s.dirs[x], a[x], P(x))
  <2>1. PICK moved \in BOOLEAN : moved = FALSE
    OBVIOUS
  <2>2. \A x \in Dirs : a[x] = Swept(s.dirs, x, taken, moved)
    BY <2>1
  <2> HIDE DEF taken, a
  <2>3. taken = Taken(s.dirs, Dirs)
    BY DEF taken
  <2>4. \A x \in Dirs : Sweeps(s.dirs[x], Swept(s.dirs, x, taken, moved), From(s.dirs, x, taken))
    BY <1>1, <2>3, SweptIs
  <2> QED
    BY <2>2, <2>4
<1>4. a = [x \in Dirs |-> a[x]] /\ b \in BOOLEAN
  BY <1>1 DEF AllTables
<1>5. t = [s EXCEPT !.dirs = a, !.number = n, !.dirty = b]
  BY DEF DeleteSwept
<1>6. b = FALSE => ~ s.dirty /\ ~ Tagged(s.dirs)
  BY <1>1 DEF AllTables
<1> HIDE DEF taken, P, a, b, n, t
<1>7. t = Tbl(a, n, b, s.leaked)
  BY <1>1, <1>5, DirsNumberDirty
<1>8. AllSound(a)
  BY <1>3, <1>4 DEF AllSound, Sound, Sweeps
<1>9. /\ \A x \in Dirs : ValidAt(a[x].items) = ValidAt(s.dirs[x].items) \ P(x)
      /\ \A x \in Dirs : \A i \in ValidAt(a[x].items) : a[x].items[i].sub = s.dirs[x].items[i].sub
  BY <1>3 DEF Sweeps
<1>10. Pairs(a, Dirs) = Pairs(s.dirs, Dirs) \ taken
  BY <1>2, <1>9 DEF Pairs
<1>11. \A l \in Pairs(a, Dirs) : At(a, l).sub = At(s.dirs, l).sub
  BY <1>9, PairsAre DEF At
<1>12. Linked(a)
  BY <1>1, <1>10, <1>11, FewerLinked
<1>13. n = s.leaked + Cardinality(Pairs(a, Dirs)) /\ n \in Nat
  <2>1. IsFiniteSet(Pairs(s.dirs, Dirs))
    BY <1>1, PairsFinite
  <2>2. /\ Cardinality(Pairs(a, Dirs)) = Cardinality(Pairs(s.dirs, Dirs)) - Cardinality(taken)
        /\ Cardinality(taken) \in Nat /\ Cardinality(Pairs(s.dirs, Dirs)) \in Nat
    BY <1>2, <1>10, <2>1, LessSize
  <2>3. Cardinality(Pairs(a, Dirs)) \in Nat
    BY <1>8, PairsFinite
  <2>4. s.number = s.leaked + Cardinality(Pairs(s.dirs, Dirs)) /\ s.leaked \in Nat
    BY <1>1 DEF Whole, AllTables
  <2> QED
    BY <2>2, <2>3, <2>4 DEF n
<1>14. Path(a, fav_stack)
  <2>1. ASSUME NEW k \in 1..Len(fav_stack), k > 1
        PROVE  Child(a, fav_stack[k - 1], fav_stack[k])
    <3> DEFINE x == fav_stack[k - 1]
               y == fav_stack[k]
    <3>1. x \in Dirs /\ y \in Dirs /\ Child(s.dirs, x, y)
      BY <1>1, <2>1, PathSteps
    <3>2. k \in DOMAIN fav_stack
      BY <1>1, PathBelow
    <3>3. PICK i \in ValidAt(s.dirs[x].items) : s.dirs[x].items[i].sub = y
      BY <3>1 DEF Child
    <3>4. s.dirs[x].items[i].type = "folder"
      <4>1. Sound(s.dirs[x])
        BY <1>1, <3>1 DEF AllSound
      <4>2. Proper(s.dirs[x].items[i]) /\ s.dirs[x].items[i].fav
        BY <4>1, SoundParts
      <4> QED
        BY <3>1, <3>3, <4>2 DEF Proper
    <3>5. OnStack(s.dirs[x].items[i])
      BY <3>2, <3>3, <3>4 DEF OnStack
    <3>6. i \notin P(x)
      BY <1>2, <3>1, <3>5
    <3> QED
      BY <1>9, <3>1, <3>3, <3>6 DEF Child
  <2> QED
    BY <2>1, PathStays
<1>15. b = FALSE => Seen(a) = Seen(s.dirs)
  <2> SUFFICES ASSUME b = FALSE PROVE Seen(a) = Seen(s.dirs)
    OBVIOUS
  <2>1. ASSUME NEW x \in Dirs PROVE SameList(s.dirs[x], a[x])
    <3> DEFINE f == s.dirs[x]
               g == a[x]
    <3>1. TaggedAt(f) = {} /\ Sound(f) /\ Sound(g) /\ Sweeps(f, g, P(x))
      BY <1>1, <1>3, <1>6, <1>8 DEF Tagged, AllSound
    <3>2. P(x) \subseteq TaggedAt(f)
      BY <1>2
    <3> HIDE DEF f, g
    <3>3. ValidAt(f.items) \subseteq 1..Len(f.items)
      BY <3>1, SoundParts
    <3>4. ValidAt(g.items) = ValidAt(f.items) /\ \A i \in ValidAt(f.items) : Bare(g.items[i]) = Bare(f.items[i])
      BY <3>1, <3>2, <3>3 DEF Sweeps
    <3>5. SameList(f, g)
      BY <3>1, <3>4, SameValid
    <3> QED
      BY <3>5 DEF f, g
  <2>2. Below(s.dirs, Root) \subseteq Dirs
    BY <1>1, BelowIs, FavAssumption DEF Least
  <2> QED
    BY <1>1, <1>8, <2>1, <2>2, SeenSame
<1>16. /\ t \in AllTables /\ t.dirs = a /\ t.number = n /\ t.dirty = b /\ t.leaked = s.leaked
  BY <1>1, <1>4, <1>7, <1>8, <1>13 DEF AllTables, Tbl, AllSound
<1>17. Whole(t)
  BY <1>8, <1>12, <1>13, <1>16 DEF Whole
<1>18. Path(t.dirs, fav_stack) /\ (~ t.dirty => ~ s.dirty /\ Seen(t.dirs) = Seen(s.dirs))
  BY <1>4, <1>6, <1>14, <1>15, <1>16
<1>19. Follows(s, Forget(t), fav_stack)
  BY <1>17, <1>18, ForgetFollows
<1> QED
  BY <1>16, <1>19 DEF t

\* An order of some entries has each of them once.
Once(o, taken) ==
    /\ Cardinality(taken) \in Nat /\ Len(o) = Cardinality(taken) /\ DOMAIN o = 1..Len(o)
    /\ o \in Seq(taken)
    /\ \A k, l \in 1..Len(o) : o[k] = o[l] => k = l
    /\ \A m \in taken : \E k \in 1..Len(o) : o[k] = m

LEMMA OrderIs ==
    ASSUME NEW dirs, NEW taken, IsFiniteSet(taken), NEW o \in Orders(dirs, taken)
    PROVE  Once(o, taken)
<1> DEFINE m == Cardinality(taken)
<1>1. m \in Nat
  BY FS_CardinalityType
<1>2. o \in [1..m -> taken] /\ Range(o) = taken
  BY DEF Orders
<1> HIDE DEF m
<1>3. \A x \in taken : \E k \in 1..m : o[k] = x
  BY <1>2 DEF Range
<1>4. o \in Surjection(1..m, taken)
  BY <1>2, <1>3 DEF Surjection
<1>5. IsFiniteSet(1..m) /\ Cardinality(1..m) = Cardinality(taken)
  BY <1>1, UpToSize DEF m
<1>6. o \in Injection(1..m, taken)
  BY <1>4, <1>5, FS_SurjSameCardinalityImpliesInj
<1>7. o \in Seq(taken)
  BY <1>1, <1>2
<1>8. Len(o) = m /\ DOMAIN o = 1..m
  BY <1>1, <1>2, <1>7, LenProperties
<1> QED
  BY <1>1, <1>3, <1>6, <1>7, <1>8 DEF Once, m, Injection, IsInjective

\* What comes to the current folder, in this order.
Came(dirs, o) == [k \in DOMAIN o |-> [dirs[o[k][1]].items[o[k][2]] EXCEPT !.tag = FALSE]]

Comes(dirs, o, es) ==
    /\ Flagged(es) /\ Len(es) = Len(o) /\ Len(o) \in Nat
    /\ \A k \in 1..Len(o) :
          /\ es[k].type = At(dirs, o[k]).type /\ es[k].id = At(dirs, o[k]).id
          /\ es[k].sub = At(dirs, o[k]).sub

LEMMA CameIs ==
    ASSUME NEW dirs, AllSound(dirs), NEW D, D \subseteq Dirs,
           NEW taken, taken \subseteq Pairs(dirs, D), NEW o, Once(o, taken)
    PROVE  Comes(dirs, o, Came(dirs, o))
<1> USE DEF Comes
<1> DEFINE es == Came(dirs, o)
           m == Len(o)
           e(k) == At(dirs, o[k])
           g(k) == [e(k) EXCEPT !.tag = FALSE]
<1>1. m \in Nat /\ DOMAIN o = 1..m /\ \A k \in 1..m : o[k] \in taken
  <2>1. o \in Seq(taken)
    BY DEF Once
  <2>2. \A k \in 1..Len(o) : o[k] \in taken
    BY <2>1, ElementOfSeq
  <2> QED
    BY <2>2 DEF Once
<1>2. \A k \in 1..m : e(k) \in Entry /\ Proper(e(k)) /\ e(k).fav
  <2> TAKE k \in 1..m
  <2>1. o[k][1] \in D /\ o[k][2] \in ValidAt(dirs[o[k][1]].items)
    BY <1>1, PairsAre
  <2>2. Sound(dirs[o[k][1]])
    BY <2>1 DEF AllSound
  <2> QED
    BY <2>1, <2>2, SoundParts DEF At
<1>3. es = [k \in 1..m |-> g(k)]
  BY <1>1 DEF Came, At
<1> HIDE DEF es, m, e
<1>4. \A k \in 1..m : /\ g(k) \in Entry /\ Proper(g(k)) /\ g(k).fav
                      /\ g(k).type = e(k).type /\ g(k).id = e(k).id /\ g(k).sub = e(k).sub
  BY <1>2 DEF Entry, Proper
<1> HIDE DEF g
<1>5. es \in [1..m -> Entry] /\ \A k \in 1..m : es[k] = g(k)
  BY <1>3, <1>4
<1>6. es \in Seq(Entry)
  BY <1>1, <1>5
<1>7. Len(es) = m
  BY <1>1, <1>5, <1>6, LenProperties
<1> QED
  BY <1>1, <1>4, <1>5, <1>6, <1>7 DEF Flagged, es, m, e

-----------------------------------------------------------------------------
(* Counts that fit in a char                                               *)

AllSmall(dirs) == \A d \in Dirs : Small(dirs[d])

\* Entries are removed, ticked or come in another order, or their folder is
\* given other entries without a flag.
LEMMA RemovedSmall ==
    ASSUME NEW f, Sound(f), Small(f), NEW P, P \subseteq DOMAIN f.items, NEW moved
    PROVE  Small(Removed(f, P, moved))
<1> DEFINE c(t) == Cardinality({i \in P : f.items[i].type = t})
           g == Removed(f, P, moved)
<1>1. /\ f.n \in [Types -> Int] /\ Len(f.items) \in Nat /\ DOMAIN f.items = 1..Len(f.items)
  BY SoundParts
<1>2. \A t : c(t) \in Nat
  <2> TAKE t
  <2>1. {i \in P : f.items[i].type = t} \subseteq 1..Len(f.items) /\ IsFiniteSet(1..Len(f.items))
    BY <1>1, UpToSize
  <2> QED
    BY <2>1, LessSize
<1>3. g.n = [t \in Types |-> f.n[t] - c(t)] /\ g.last = f.last
  BY DEF Removed
<1> HIDE DEF c, g
<1>4. /\ g.n["line"] = f.n["line"] - c("line") /\ g.n["folder"] = f.n["folder"] - c("folder")
      /\ f.n["line"] \in Int /\ f.n["folder"] \in Int /\ CHAR_MAX \in Nat
  BY <1>1, <1>3, FavAssumption DEF Types
<1>5. Small(g)
  BY <1>2, <1>3, <1>4 DEF Small
<1> QED
  BY <1>5 DEF g

LEMMA ItemsSmall ==
    ASSUME NEW f \in Folder, NEW items
    PROVE  /\ [f EXCEPT !.items = items].items = items
           /\ [f EXCEPT !.items = items].n = f.n /\ [f EXCEPT !.items = items].last = f.last
           /\ Small(f) => Small([f EXCEPT !.items = items])
  BY DEF Folder, Small

LEMMA TagSetSmall ==
    ASSUME NEW f, Sound(f), Small(f), NEW P, NEW bit
    PROVE  Small(TagSet(f, P, bit))
<1>1. f \in Folder
  BY DEF Sound
<1> QED
  BY <1>1, ItemsSmall DEF TagSet

LEMMA ShiftedSmall ==
    ASSUME NEW f, Sound(f), Small(f), NEW a, NEW b
    PROVE  Small(Shifted(f, a, b))
<1>1. f \in Folder
  BY DEF Sound
<1> QED
  BY <1>1, ItemsSmall DEF Shifted

LEMMA SweptSmall ==
    ASSUME NEW dirs, AllSound(dirs), NEW d \in Dirs, Small(dirs[d]), NEW taken, NEW moved
    PROVE  Small(Swept(dirs, d, taken, moved))
<1> DEFINE f == dirs[d]
           g == TagSet(f, TaggedAt(f), FALSE)
           P == {i \in DOMAIN f.items : <<d, i>> \in taken}
<1>1. Sound(f) /\ Small(f)
  BY DEF AllSound
<1>2. Swept(dirs, d, taken, moved) = Removed(g, P, moved)
  BY DEF Swept
<1> HIDE DEF f
<1>3. Sound(g) /\ Len(g.items) = Len(f.items)
  <2> DEFINE T == TaggedAt(f)
  <2>1. PICK bit \in BOOLEAN : bit = FALSE
    OBVIOUS
  <2>2. T \subseteq ValidAt(f.items) /\ g = TagSet(f, T, bit)
    BY <2>1 DEF TaggedAt, ValidAt
  <2> HIDE DEF T, g
  <2>3. Ticked(f, g, T, bit)
    BY <1>1, <2>2, TagSetIs
  <2> QED
    BY <2>3 DEF Ticked
<1>4. Small(g)
  BY <1>1, TagSetSmall
<1> HIDE DEF g
<1>5. P \subseteq DOMAIN g.items
  <2>1. DOMAIN f.items = 1..Len(f.items) /\ DOMAIN g.items = 1..Len(g.items)
    BY <1>1, <1>3, SoundParts
  <2> QED
    BY <1>3, <2>1
<1> HIDE DEF P
<1> QED
  BY <1>2, <1>3, <1>4, <1>5, RemovedSmall

\* One folder is replaced.
LEMMA WithSmall ==
    ASSUME NEW s \in AllTables, AllSmall(s.dirs), NEW d \in Dirs, NEW g, Small(g), NEW n
    PROVE  /\ AllSmall(With(s, d, g).dirs)
           /\ AllSmall([With(s, d, g) EXCEPT !.number = n].dirs)
<1> DEFINE a == [s.dirs EXCEPT ![d] = g]
           t == With(s, d, g)
<1>1. AllSmall(a)
  BY DEF AllTables, AllSmall
<1>2. t = [s EXCEPT !.dirs = a, !.dirty = TRUE]
  BY DEF With
<1> HIDE DEF a, t
<1>3. t = Tbl(a, s.number, TRUE, s.leaked)
  BY <1>2, DirsDirty
<1>4. t.dirs = a /\ [t EXCEPT !.number = n].dirs = a
  BY <1>3 DEF Tbl
<1> QED
  BY <1>1, <1>4 DEF t

\* What Forget leaves of a folder that one can come to.
LEMMA ForgetLists ==
    ASSUME NEW s \in AllTables, NEW d \in Below(s.dirs, Root), d \in Dirs,
           NEW f, f = s.dirs[d], NEW g, g = Forget(s).dirs[d]
    PROVE  /\ g.n = f.n /\ g.last = f.last /\ ValidAt(g.items) = ValidAt(f.items)
           /\ \A i \in ValidAt(f.items) : g.items[i] = f.items[i]
<1> DEFINE live == Below(s.dirs, Root)
           Lost(e) == e.id = Gone \/ (e.sub \in Dirs /\ Torn(s.dirs, e.sub))
           Left(e) == IF e.fav THEN e
                      ELSE [type |-> "line", fav |-> FALSE, tag |-> FALSE,
                            id |-> IF Lost(e) THEN Gone ELSE 0, sub |-> NoDir]
           items(x) == [i \in DOMAIN s.dirs[x].items |-> Left(s.dirs[x].items[i])]
           a == [x \in Dirs |-> IF x \notin live THEN NewFolder
                                ELSE [s.dirs[x] EXCEPT !.items = items(x)]]
           k == s.leaked + Total(s.dirs, Dirs \ live)
<1>1. Forget(s) = [s EXCEPT !.dirs = a, !.leaked = k]
  BY DEF Forget
<1>3. \A e : e.fav => Left(e) = e
  OBVIOUS
<1>4. \A e : ~ e.fav => Left(e).fav = FALSE
  OBVIOUS
<1>5. a[d] = [f EXCEPT !.items = items(d)]
  OBVIOUS
<1>6. items(d) = [i \in DOMAIN f.items |-> Left(f.items[i])]
  OBVIOUS
<1>7. f \in Folder
  BY DEF AllTables
<1> HIDE DEF a, k, items, Left
<1>8. Forget(s).dirs = a
  <2>1. Forget(s) = Tbl(a, s.number, s.dirty, k)
    BY <1>1, DirsLeaked
  <2> QED
    BY <2>1 DEF Tbl
<1>9. g.items = items(d) /\ g.n = f.n /\ g.last = f.last
  <2>1. g = [f EXCEPT !.items = items(d)]
    BY <1>5, <1>8
  <2> DEFINE h == items(d)
  <2> HIDE DEF h
  <2>2. g = [f EXCEPT !.items = h]
    BY <2>1 DEF h
  <2>3. g.items = h /\ g.n = f.n /\ g.last = f.last
    BY <1>7, <2>2, ItemsSmall
  <2> QED
    BY <2>3 DEF h
<1>10. ValidAt(g.items) = ValidAt(f.items)
  BY <1>3, <1>4, <1>6, <1>9 DEF ValidAt
<1>11. \A i \in ValidAt(f.items) : g.items[i] = f.items[i]
  BY <1>3, <1>6, <1>9 DEF ValidAt
<1> QED
  BY <1>9, <1>10, <1>11

LEMMA ForgetSmall ==
    ASSUME NEW s \in AllTables, AllSmall(s.dirs)
    PROVE  AllSmall(Forget(s).dirs)
<1> DEFINE live == Below(s.dirs, Root)
<1>1. ASSUME NEW d \in Dirs, d \in live PROVE Small(Forget(s).dirs[d])
  <2>1. Forget(s).dirs[d].n = s.dirs[d].n /\ Forget(s).dirs[d].last = s.dirs[d].last
    BY <1>1, ForgetLists
  <2> QED
    BY <2>1 DEF Small, AllSmall
<1>2. ASSUME NEW d \in Dirs, d \notin live PROVE Small(Forget(s).dirs[d])
  <2> DEFINE Lost(e) == e.id = Gone \/ (e.sub \in Dirs /\ Torn(s.dirs, e.sub))
             Left(e) == IF e.fav THEN e
                        ELSE [type |-> "line", fav |-> FALSE, tag |-> FALSE,
                              id |-> IF Lost(e) THEN Gone ELSE 0, sub |-> NoDir]
             a == [x \in Dirs |-> IF x \notin live THEN NewFolder
                     ELSE [s.dirs[x] EXCEPT !.items =
                             [i \in DOMAIN s.dirs[x].items |-> Left(s.dirs[x].items[i])]]]
             k == s.leaked + Total(s.dirs, Dirs \ live)
  <2>1. Forget(s) = [s EXCEPT !.dirs = a, !.leaked = k]
    BY DEF Forget
  <2>2. a[d] = NewFolder
    BY <1>2
  <2> HIDE DEF a, k, live
  <2>3. Forget(s) = Tbl(a, s.number, s.dirty, k)
    BY <2>1, DirsLeaked
  <2>4. Forget(s).dirs = a
    BY <2>3 DEF Tbl
  <2> QED
    BY <2>2, <2>4, NewIsSound
<1> QED
  BY <1>1, <1>2 DEF AllSmall

\* An entry is moved in its folder.
LEMMA MoveInSmall ==
    ASSUME NEW s, Whole(s), AllSmall(s.dirs), NEW d \in Dirs, NEW src, NEW dst
    PROVE  AllSmall(MoveIn(s, d, src, dst).dirs)
<1> DEFINE f == s.dirs[d]
           a == Place(f.items, src)
           b == Place(f.items, dst)
           g == Shifted(f, a, b)
           t == MoveIn(s, d, src, dst)
<1>1. s \in AllTables /\ Sound(f) /\ Small(f)
  BY DEF Whole, AllSound, AllSmall
<1>2. t = s \/ t = [s EXCEPT !.dirty = TRUE] \/ t = With(s, d, g)
  BY DEF MoveIn
<1>3. [s EXCEPT !.dirty = TRUE].dirs = s.dirs
  BY <1>1 DEF AllTables
<1>4. Small(g)
  <2> HIDE DEF f, a, b
  <2> QED
    BY <1>1, ShiftedSmall
<1> HIDE DEF g, t
<1>5. AllSmall(With(s, d, g).dirs)
  BY <1>1, <1>4, WithSmall
<1>6. AllSmall(t.dirs)
  BY <1>2, <1>3, <1>5
<1> QED
  BY <1>6 DEF t

-----------------------------------------------------------------------------
(* Tagged entries that are moved                                           *)

\* What is tagged elsewhere goes to the folder c, in this order, if counts and
\* the numbers of folders had no limit.
Moved(dirs, c, taken, o) ==
    [d \in Dirs |-> IF d = c THEN Grown(dirs[d], Came(dirs, o), {"board", "line"})
                    ELSE Swept(dirs, d, taken, TRUE)]

\* The folders after this.
MovesTo(dirs, a, c, taken, o) ==
    /\ AllSound(a) /\ Len(o) \in Nat
    /\ ValidAt(a[c].items) = ValidAt(dirs[c].items) \cup {Len(dirs[c].items) + k : k \in 1..Len(o)}
    /\ \A i \in ValidAt(dirs[c].items) : a[c].items[i] = dirs[c].items[i]
    /\ \A k \in 1..Len(o) :
          /\ Len(dirs[c].items) + k \notin ValidAt(dirs[c].items)
          /\ a[c].items[Len(dirs[c].items) + k].type = At(dirs, o[k]).type
          /\ a[c].items[Len(dirs[c].items) + k].sub = At(dirs, o[k]).sub
          /\ At(dirs, o[k]).type = "board" =>
                a[c].items[Len(dirs[c].items) + k].id = At(dirs, o[k]).id
    /\ \A k, l \in 1..Len(o) : Len(dirs[c].items) + k = Len(dirs[c].items) + l => k = l
    /\ \A x \in Dirs \ {c} : Sweeps(dirs[x], a[x], From(dirs, x, taken))

LEMMA MovesToIs ==
    ASSUME NEW dirs, AllSound(dirs), NEW c \in Dirs,
           NEW taken, taken = Taken(dirs, Dirs \ {c}), NEW o, Once(o, taken)
    PROVE  MovesTo(dirs, Moved(dirs, c, taken, o), c, taken, o)
<1> DEFINE a == Moved(dirs, c, taken, o)
           es == Came(dirs, o)
           f == dirs[c]
           p == Len(f.items)
           D == Dirs \ {c}
<1>1. taken \subseteq Pairs(dirs, D)
  <2>1. D \subseteq Dirs /\ taken = Taken(dirs, D)
    OBVIOUS
  <2> HIDE DEF D
  <2>2. Takes(dirs, D, taken)
    BY <2>1, TakenAre
  <2> QED
    BY <2>2 DEF Takes
<1>2. /\ Flagged(es) /\ Len(es) = Len(o) /\ Len(o) \in Nat
      /\ \A k \in 1..Len(o) :
            /\ es[k].type = At(dirs, o[k]).type /\ es[k].id = At(dirs, o[k]).id
            /\ es[k].sub = At(dirs, o[k]).sub
  <2>1. D \subseteq Dirs
    OBVIOUS
  <2> HIDE DEF D, es
  <2>2. Comes(dirs, o, es)
    BY <1>1, <2>1, CameIs DEF es
  <2> QED
    BY <2>2 DEF Comes
<1>3. Sound(f) /\ p \in Nat /\ ValidAt(f.items) \subseteq 1..p
  <2>1. Sound(f)
    BY DEF AllSound
  <2> QED
    BY <2>1, SoundParts
<1>4. Sound(a[c]) /\ Longer(a[c], f, es)
  <2> DEFINE keep == {"board", "line"}
             g == a[c]
  <2>1. g = Grown(f, es, keep)
    BY DEF Moved
  <2>2. "board" \in keep /\ "folder" \notin keep
    OBVIOUS
  <2> HIDE DEF f, es, keep, g
  <2>3. Sound(g) /\ Longer(g, f, es)
    BY <1>2, <1>3, <2>1, <2>2, GrownIs
  <2> QED
    BY <2>3 DEF g
<1>5. \A x \in D : Sweeps(dirs[x], a[x], From(dirs, x, taken))
  <2>1. PICK moved \in BOOLEAN : moved = TRUE
    OBVIOUS
  <2>2. \A x \in D : a[x] = Swept(dirs, x, taken, moved)
    BY <2>1 DEF Moved
  <2>3. D \subseteq Dirs /\ taken = Taken(dirs, D)
    OBVIOUS
  <2> HIDE DEF a, D
  <2>4. \A x \in Dirs : Sweeps(dirs[x], Swept(dirs, x, taken, moved), From(dirs, x, taken))
    BY <2>3, SweptIs
  <2> QED
    BY <2>2, <2>3, <2>4
<1>6. a = [x \in Dirs |-> a[x]]
  BY DEF Moved
<1> HIDE DEF a, es, f
<1>7. \A x \in Dirs : Sound(a[x])
  BY <1>4, <1>5 DEF Sweeps
<1>8. AllSound(a)
  BY <1>6, <1>7 DEF AllSound, Sound
<1>9. /\ Len(a[c].items) = p + Len(o)
      /\ \A i \in 1..p : a[c].items[i] = f.items[i]
      /\ \A k \in 1..Len(o) : Bare(a[c].items[p + k]) = Bare(es[k])
      /\ ValidAt(a[c].items) = ValidAt(f.items) \cup (p + 1)..(p + Len(o))
  BY <1>2, <1>4 DEF Longer
<1>10. \A k \in 1..Len(o) : p + k \in 1..(p + Len(o)) /\ p + k \notin 1..p
  BY <1>2, <1>3, Offsets
<1>11. (p + 1)..(p + Len(o)) = {p + k : k \in 1..Len(o)}
  <2> DEFINE n == Len(o)
  <2> HIDE DEF p, n
  <2>1. p \in Nat /\ n \in Nat
    BY <1>2, <1>3 DEF n
  <2>2. \A i \in (p + 1)..(p + n) : \E k \in 1..n : i = p + k
    <3> TAKE i \in (p + 1)..(p + n)
    <3>1. i - p \in 1..n /\ i = p + (i - p)
      BY <2>1
    <3> QED
      BY <3>1
  <2>3. \A k \in 1..n : p + k \in (p + 1)..(p + n)
    BY <2>1
  <2>4. (p + 1)..(p + n) = {p + k : k \in 1..n}
    BY <2>2, <2>3
  <2> QED
    BY <2>4 DEF n
<1>12. ASSUME NEW k \in 1..Len(o)
       PROVE  /\ p + k \notin ValidAt(f.items)
              /\ a[c].items[p + k].type = At(dirs, o[k]).type
              /\ a[c].items[p + k].sub = At(dirs, o[k]).sub
              /\ At(dirs, o[k]).type = "board" => a[c].items[p + k].id = At(dirs, o[k]).id
  <2>1. p + k \in 1..Len(a[c].items)
    BY <1>9, <1>10
  <2>2. a[c].items[p + k] \in Entry
    BY <1>4, <2>1, SoundParts
  <2>3. es[k] \in Entry
    <3>1. es \in Seq(Entry) /\ k \in 1..Len(es)
      BY <1>2 DEF Flagged
    <3> QED
      BY <3>1, ElementOfSeq
  <2>4. Bare(a[c].items[p + k]) = Bare(es[k])
    BY <1>9
  <2> DEFINE i == p + k
  <2>5. p + k \notin ValidAt(f.items)
    BY <1>3, <1>10
  <2> HIDE DEF i
  <2>6. /\ a[c].items[i].type = es[k].type /\ a[c].items[i].sub = es[k].sub
        /\ es[k].type = "board" => a[c].items[i].id = es[k].id
    <3>1. a[c].items[i] \in Entry /\ Bare(a[c].items[i]) = Bare(es[k])
      BY <2>2, <2>4 DEF i
    <3> QED
      BY <2>3, <3>1, SameBare
  <2> QED
    BY <1>2, <2>5, <2>6 DEF i
<1>13. \A k, l \in 1..Len(o) : p + k = p + l => k = l
  <2> HIDE DEF p
  <2> QED
    BY <1>2, <1>3
<1>14. \A i \in ValidAt(f.items) : a[c].items[i] = f.items[i]
  BY <1>3, <1>9
<1>15. ValidAt(a[c].items) = ValidAt(f.items) \cup {p + k : k \in 1..Len(o)}
  BY <1>9, <1>11
<1> HIDE DEF p
<1>16. MovesTo(dirs, a, c, taken, o)
  BY <1>2, <1>5, <1>8, <1>12, <1>13, <1>14, <1>15 DEF MovesTo, f, p
<1> QED
  BY <1>16 DEF a

\* The valid entries of after are those of dirs, at other places; lines and
\* folders may have other numbers.
SameEntries(dirs, after, w) ==
    /\ CameFrom(dirs, after, w)
    /\ \A m \in Pairs(dirs, Dirs) : \E l \in Pairs(after, Dirs) : w[l] = m
    /\ \A l \in Pairs(after, Dirs) :
          /\ At(after, l).type = At(dirs, w[l]).type
          /\ At(dirs, w[l]).type = "board" => At(after, l).id = At(dirs, w[l]).id

LEMMA MovesKeep ==
    ASSUME NEW dirs, AllSound(dirs), NEW c \in Dirs, NEW taken, Takes(dirs, Dirs \ {c}, taken),
           NEW o, Once(o, taken), NEW a, MovesTo(dirs, a, c, taken, o)
    PROVE  \E w : SameEntries(dirs, a, w)
<1> DEFINE V == ValidAt(dirs[c].items)
           p(k) == Len(dirs[c].items) + k
           num(i) == CHOOSE k \in 1..Len(o) : i = p(k)
           from(l) == IF l[1] = c /\ l[2] \notin V THEN o[num(l[2])] ELSE l
           w == [l \in Pairs(a, Dirs) |-> from(l)]
           P(x) == From(dirs, x, taken)
<1>1. /\ ValidAt(a[c].items) = V \cup {p(k) : k \in 1..Len(o)}
      /\ \A i \in V : a[c].items[i] = dirs[c].items[i]
      /\ \A k \in 1..Len(o) : /\ p(k) \notin V
                              /\ a[c].items[p(k)].type = At(dirs, o[k]).type
                              /\ a[c].items[p(k)].sub = At(dirs, o[k]).sub
                              /\ At(dirs, o[k]).type = "board" =>
                                     a[c].items[p(k)].id = At(dirs, o[k]).id
      /\ \A k, l \in 1..Len(o) : p(k) = p(l) => k = l
      /\ \A x \in Dirs \ {c} : Sweeps(dirs[x], a[x], P(x))
  BY DEF MovesTo
<1> HIDE DEF V, p, P
<1>2. \A k \in 1..Len(o) : num(p(k)) = k
  BY <1>1
<1>3. \A x \in Dirs \ {c} :
         /\ ValidAt(a[x].items) = ValidAt(dirs[x].items) \ P(x)
         /\ \A i \in ValidAt(a[x].items) :
               /\ a[x].items[i].type = dirs[x].items[i].type
               /\ a[x].items[i].id = dirs[x].items[i].id
               /\ a[x].items[i].sub = dirs[x].items[i].sub
  BY <1>1 DEF Sweeps
<1>4. /\ \A m \in taken : m \in Pairs(dirs, Dirs) /\ m[1] # c
      /\ \A x \in Dirs : \A i : <<x, i>> \in taken <=> i \in P(x)
  <2>1. \A m \in Pairs(dirs, Dirs \ {c}) : m \in Pairs(dirs, Dirs) /\ m[1] # c
    BY DEF Pairs
  <2> QED
    BY <2>1 DEF Takes, P
<1>5. \A k \in 1..Len(o) : o[k] \in taken
  <2>1. o \in Seq(taken)
    BY DEF Once
  <2> QED
    BY <2>1, ElementOfSeq
<1> HIDE DEF num
<1>6. \A l \in Pairs(a, Dirs) : l[1] \in Dirs /\ l[2] \in ValidAt(a[l[1]].items) /\ l = <<l[1], l[2]>>
  BY PairsAre
<1>7. \A k \in 1..Len(o) : <<c, p(k)>> \in Pairs(a, Dirs) /\ from(<<c, p(k)>>) = o[k]
  <2> TAKE k \in 1..Len(o)
  <2>1. <<c, p(k)>> \in Pairs(a, Dirs)
    BY <1>1 DEF Pairs
  <2>2. p(k) \notin V /\ num(p(k)) = k
    BY <1>1, <1>2
  <2> QED
    BY <2>1, <2>2
<1>8. ASSUME NEW l \in Pairs(a, Dirs)
      PROVE  \/ \E k \in 1..Len(o) : l = <<c, p(k)>> /\ from(l) = o[k]
             \/ l[1] = c /\ l[2] \in V /\ from(l) = l
             \/ l[1] # c /\ l \notin taken /\ from(l) = l
  <2>1. CASE l[1] = c /\ l[2] \notin V
    <3>1. PICK k \in 1..Len(o) : l[2] = p(k)
      BY <1>1, <1>6, <2>1
    <3>2. l = <<c, p(k)>>
      BY <1>6, <2>1, <3>1
    <3> QED
      BY <1>7, <3>2
  <2>2. CASE l[1] = c /\ l[2] \in V
    BY <2>2
  <2>3. CASE l[1] # c
    <3>1. l[1] \in Dirs /\ l[2] \notin P(l[1]) /\ l = <<l[1], l[2]>>
      BY <1>3, <1>6, <2>3
    <3>2. l \notin taken
      BY <1>4, <3>1
    <3> QED
      BY <2>3, <3>2
  <2> QED
    BY <2>1, <2>2, <2>3
<1>9. ASSUME NEW l \in Pairs(a, Dirs)
      PROVE  /\ from(l) \in Pairs(dirs, Dirs)
             /\ At(a, l).sub = At(dirs, from(l)).sub
             /\ At(a, l).type = At(dirs, from(l)).type
             /\ At(dirs, from(l)).type = "board" => At(a, l).id = At(dirs, from(l)).id
  <2>1. CASE \E k \in 1..Len(o) : l = <<c, p(k)>> /\ from(l) = o[k]
    <3>1. PICK k \in 1..Len(o) : l = <<c, p(k)>> /\ from(l) = o[k]
      BY <2>1
    <3>2. At(a, l) = a[c].items[p(k)]
      BY <3>1 DEF At
    <3>3. o[k] \in Pairs(dirs, Dirs)
      BY <1>4, <1>5
    <3> HIDE DEF from
    <3> QED
      BY <1>1, <3>1, <3>2, <3>3
  <2>2. CASE l[1] = c /\ l[2] \in V /\ from(l) = l
    <3>1. l \in Pairs(dirs, Dirs)
      BY <1>6, <2>2 DEF Pairs, V
    <3>2. At(a, l) = At(dirs, l)
      BY <1>1, <2>2 DEF At
    <3> HIDE DEF from
    <3> QED
      BY <2>2, <3>1, <3>2
  <2>3. CASE l[1] # c /\ l \notin taken /\ from(l) = l
    <3>1. l[1] \in Dirs \ {c} /\ l[2] \in ValidAt(a[l[1]].items) /\ l = <<l[1], l[2]>>
      BY <1>6, <2>3
    <3>2. l[2] \in ValidAt(dirs[l[1]].items)
      BY <1>3, <3>1
    <3>3. l \in Pairs(dirs, Dirs)
      BY <3>1, <3>2 DEF Pairs
    <3>4. /\ At(a, l).sub = At(dirs, l).sub /\ At(a, l).type = At(dirs, l).type
          /\ At(a, l).id = At(dirs, l).id
      BY <1>3, <3>1 DEF At
    <3> HIDE DEF from
    <3> QED
      BY <2>3, <3>3, <3>4
  <2> QED
    BY <1>8, <2>1, <2>2, <2>3
<1> HIDE DEF from
<1>10. ASSUME NEW l \in Pairs(a, Dirs), NEW m \in Pairs(a, Dirs), from(l) = from(m)
       PROVE  l = m
  <2> DEFINE A(x) == \E k \in 1..Len(o) : x = <<c, p(k)>> /\ from(x) = o[k]
             B(x) == x[1] = c /\ from(x) = x
             C(x) == x[1] # c /\ x \notin taken /\ from(x) = x
  <2>1. (A(l) \/ B(l) \/ C(l)) /\ (A(m) \/ B(m) \/ C(m))
    BY <1>8
  <2>2. \A x : A(x) => from(x) \in taken /\ from(x)[1] # c
    BY <1>4, <1>5
  <2>3. CASE A(l)
    <3>1. A(m)
      BY <1>10, <2>1, <2>2, <2>3
    <3>2. PICK k \in 1..Len(o) : l = <<c, p(k)>> /\ from(l) = o[k]
      BY <2>3
    <3>3. PICK j \in 1..Len(o) : m = <<c, p(j)>> /\ from(m) = o[j]
      BY <3>1
    <3>4. k = j
      BY <1>10, <3>2, <3>3 DEF Once
    <3> QED
      BY <3>2, <3>3, <3>4
  <2>4. CASE ~ A(l)
    <3>1. ~ A(m)
      BY <1>10, <2>1, <2>2, <2>4
    <3> QED
      BY <1>10, <2>1, <2>4, <3>1
  <2> QED
    BY <2>3, <2>4
<1>11. ASSUME NEW m \in Pairs(dirs, Dirs)
       PROVE  \E l \in Pairs(a, Dirs) : from(l) = m
  <2>1. m[1] \in Dirs /\ m[2] \in ValidAt(dirs[m[1]].items) /\ m = <<m[1], m[2]>>
    BY PairsAre
  <2>2. CASE m \in taken
    <3>1. PICK k \in 1..Len(o) : o[k] = m
      BY <2>2 DEF Once
    <3> QED
      BY <1>7, <3>1
  <2>3. CASE m \notin taken
    <3>1. m \in Pairs(a, Dirs) /\ (m[1] = c => m[2] \in V)
      <4>1. CASE m[1] = c
        BY <1>1, <2>1, <4>1 DEF Pairs, V
      <4>2. CASE m[1] # c
        <5>1. m[2] \notin P(m[1])
          BY <1>4, <2>1, <2>3
        <5>2. m[2] \in ValidAt(a[m[1]].items)
          BY <1>3, <2>1, <4>2, <5>1
        <5> QED
          BY <2>1, <4>2, <5>2 DEF Pairs
      <4> QED
        BY <4>1, <4>2
    <3>2. from(m) = m
      BY <3>1 DEF from
    <3> QED
      BY <3>1, <3>2
  <2> QED
    BY <2>2, <2>3
<1>12. CameFrom(dirs, a, w)
  BY <1>9, <1>10 DEF CameFrom
<1>13. SameEntries(dirs, a, w)
  BY <1>9, <1>11, <1>12 DEF SameEntries
<1> QED
  BY <1>13

\* The user is where he was, and can come to the same folders.
LEMMA MovesStay ==
    ASSUME NEW dirs, AllSound(dirs), Tidy(dirs), Path(dirs, fav_stack), NEW c, c = Last(fav_stack),
           NEW taken, Takes(dirs, Dirs \ {c}, taken),
           NEW o, Once(o, taken), NEW a, MovesTo(dirs, a, c, taken, o)
    PROVE  Path(a, fav_stack) /\ Below(a, Root) = Below(dirs, Root)
<1> DEFINE V == ValidAt(dirs[c].items)
           p(k) == Len(dirs[c].items) + k
           P(x) == From(dirs, x, taken)
           B == Below(dirs, Root)
           A == Below(a, Root)
<1>1. /\ ValidAt(a[c].items) = V \cup {p(k) : k \in 1..Len(o)}
      /\ \A i \in V : a[c].items[i] = dirs[c].items[i]
      /\ \A k \in 1..Len(o) : a[c].items[p(k)].sub = At(dirs, o[k]).sub
      /\ AllSound(a)
      /\ \A x \in Dirs \ {c} : Sweeps(dirs[x], a[x], P(x))
  BY DEF MovesTo
<1>2. /\ \A x \in Dirs : \A i : <<x, i>> \in taken <=> i \in P(x)
      /\ \A x \in Dirs \ {c} : \A i \in TaggedAt(dirs[x]) :
            <<x, i>> \in taken <=> ~ OnStack(dirs[x].items[i])
      /\ \A x \in Dirs : P(x) \subseteq TaggedAt(dirs[x])
      /\ taken \subseteq Pairs(dirs, Dirs \ {c})
  BY DEF Takes
<1> HIDE DEF V, p, P
<1>3. /\ \A x \in Dirs \ {c} : ValidAt(a[x].items) = ValidAt(dirs[x].items) \ P(x)
      /\ \A x \in Dirs \ {c} : \A i \in ValidAt(a[x].items) : a[x].items[i].sub = dirs[x].items[i].sub
  BY ZenonT(60), <1>1 DEF Sweeps
<1>4. c \in B /\ c \in Dirs /\ B \subseteq Dirs /\ Root \in B /\ Root \in Dirs
  BY BelowIs, PathBelow, FavAssumption DEF Least
<1>5. \A k \in 1..Len(o) : o[k] \in taken
  <2>1. o \in Seq(taken)
    BY DEF Once
  <2> QED
    BY <2>1, ElementOfSeq
<1>6. Path(a, fav_stack)
  <2>1. ASSUME NEW k \in 1..Len(fav_stack), k > 1
        PROVE  Child(a, fav_stack[k - 1], fav_stack[k])
    <3> DEFINE x == fav_stack[k - 1]
               y == fav_stack[k]
    <3>1. x \in Dirs /\ y \in Dirs /\ Child(dirs, x, y) /\ x # c
      BY <2>1, PathSteps
    <3>2. k \in DOMAIN fav_stack
      BY PathBelow
    <3>3. PICK i \in ValidAt(dirs[x].items) : dirs[x].items[i].sub = y
      BY <3>1 DEF Child
    <3>4. dirs[x].items[i].type = "folder"
      <4>1. Sound(dirs[x])
        BY <3>1 DEF AllSound
      <4>2. Proper(dirs[x].items[i]) /\ dirs[x].items[i].fav
        BY <4>1, SoundParts
      <4> QED
        BY <3>1, <3>3, <4>2 DEF Proper
    <3>5. OnStack(dirs[x].items[i])
      BY <3>2, <3>3, <3>4 DEF OnStack
    <3>6. i \notin P(x)
      BY <1>2, <3>1, <3>5
    <3> QED
      BY <1>3, <3>1, <3>3, <3>6 DEF Child
  <2> QED
    BY <2>1, PathStays
<1>7. Closed(dirs, B)
  BY <1>4, BelowIs DEF Least
<1>8. \A m \in Pairs(dirs, Dirs) : At(dirs, m).sub \in Dirs => At(dirs, m).sub \in B
  <2> SUFFICES ASSUME NEW m \in Pairs(dirs, Dirs), At(dirs, m).sub \in Dirs
               PROVE  At(dirs, m).sub \in B
    OBVIOUS
  <2>1. m[1] \in Dirs /\ m[2] \in ValidAt(dirs[m[1]].items)
    BY PairsAre
  <2>2. m[1] \in B
    BY <2>1, NewIsSound DEF Tidy
  <2> QED
    BY <1>7, <2>1, <2>2 DEF Closed, Child, At
<1>9. Closed(a, B)
  <2> SUFFICES ASSUME NEW x \in B, NEW y \in Dirs, Child(a, x, y) PROVE y \in B
    BY DEF Closed
  <2>1. PICK i \in ValidAt(a[x].items) : a[x].items[i].sub = y
    BY DEF Child
  <2>2. CASE x = c /\ i \in V
    <3>1. Child(dirs, x, y)
      BY <1>1, <2>1, <2>2 DEF Child, V
    <3> QED
      BY <1>7, <3>1 DEF Closed
  <2>3. CASE x = c /\ i \notin V
    <3>1. PICK k \in 1..Len(o) : i = p(k)
      BY <1>1, <2>1, <2>3
    <3>2. o[k] \in Pairs(dirs, Dirs)
      BY <1>2, <1>5 DEF Pairs
    <3>3. At(dirs, o[k]).sub = y
      BY <1>1, <2>1, <2>3, <3>1
    <3> QED
      BY <1>8, <3>2, <3>3
  <2>4. CASE x # c
    <3>1. x \in Dirs \ {c}
      BY <1>4, <2>4
    <3>2. Child(dirs, x, y)
      BY <1>3, <2>1, <3>1 DEF Child
    <3> QED
      BY <1>7, <3>2 DEF Closed
  <2> QED
    BY <2>2, <2>3, <2>4
<1>10. A \subseteq B
  <2>1. B \in SUBSET Dirs /\ Root \in B
    BY <1>4
  <2>2. Least(a, Root, A)
    BY <1>1, <1>4, BelowIs
  <2> HIDE DEF A, B
  <2> QED
    BY <1>9, <2>1, <2>2 DEF Least
<1>11. c \in A /\ A \subseteq Dirs /\ Root \in A /\ Closed(a, A)
  BY <1>1, <1>4, <1>6, PathBelow, BelowIs DEF Least
<1> HIDE DEF A, B
<1>12. Closed(dirs, A)
  <2> SUFFICES ASSUME NEW x \in A, NEW y \in Dirs, Child(dirs, x, y) PROVE y \in A
    BY DEF Closed
  <2>1. PICK i \in ValidAt(dirs[x].items) : dirs[x].items[i].sub = y
    BY DEF Child
  <2>2. x \in Dirs
    BY <1>11
  <2>3. CASE x = c
    <3>1. Child(a, c, y)
      BY <1>1, <2>1, <2>3 DEF Child, V
    <3> QED
      BY <1>11, <3>1 DEF Closed
  <2>4. CASE x # c /\ <<x, i>> \notin taken
    <3>1. i \notin P(x)
      BY <1>2, <2>2, <2>4
    <3>2. Child(a, x, y)
      BY <1>3, <2>1, <2>2, <2>4, <3>1 DEF Child
    <3> QED
      BY <1>11, <3>2 DEF Closed
  <2>5. CASE <<x, i>> \in taken
    <3>1. PICK k \in 1..Len(o) : o[k] = <<x, i>>
      BY <2>5 DEF Once
    <3>2. At(dirs, o[k]).sub = y
      BY <2>1, <3>1 DEF At
    <3>3. p(k) \in ValidAt(a[c].items) /\ a[c].items[p(k)].sub = y
      BY <1>1, <3>2
    <3>4. Child(a, c, y)
      BY <3>3 DEF Child
    <3> QED
      BY <1>11, <3>4 DEF Closed
  <2> QED
    BY <2>3, <2>4, <2>5
<1>13. B \subseteq A
  <2>1. A \in SUBSET Dirs
    BY <1>11
  <2>2. Least(dirs, Root, B)
    BY <1>4, BelowIs DEF B
  <2> QED
    BY <1>11, <1>12, <2>1, <2>2 DEF Least
<1> QED
  BY <1>6, <1>10, <1>13 DEF A, B

TagsIn(dirs, D) == \E d \in D : TaggedAt(dirs[d]) # {}

\* Without tags elsewhere nothing changes that the user sees.
LEMMA NoMoveSeen ==
    ASSUME NEW dirs, AllSound(dirs), NEW c \in Dirs, ~ TagsIn(dirs, Dirs \ {c}),
           NEW taken, Takes(dirs, Dirs \ {c}, taken),
           NEW o, Once(o, taken), NEW a, MovesTo(dirs, a, c, taken, o)
    PROVE  Seen(a) = Seen(dirs)
<1>1. \A x \in Dirs \ {c} : TaggedAt(dirs[x]) = {}
  BY DEF TagsIn
<1>2. taken = {}
  <2>1. \A m \in taken : m[1] \in Dirs \ {c} /\ m = <<m[1], m[2]>>
    <3>1. \A m \in taken : m \in Pairs(dirs, Dirs \ {c})
      BY DEF Takes
    <3> QED
      BY <3>1, PairsAre
  <2>2. \A x \in Dirs \ {c} : \A i : <<x, i>> \notin taken
    BY <1>1 DEF Takes
  <2> QED
    BY <2>1, <2>2
<1>3. Len(o) = 0
  BY <1>2, FS_EmptySet DEF Once
<1>4. AllSound(a)
  BY DEF MovesTo
<1>5. ASSUME NEW x \in Dirs
      PROVE  /\ ValidAt(a[x].items) = ValidAt(dirs[x].items)
             /\ \A i \in ValidAt(dirs[x].items) : a[x].items[i] = dirs[x].items[i]
  <2>1. CASE x = c
    <3>1. 1..0 = {}
      OBVIOUS
    <3>2. {Len(dirs[c].items) + k : k \in 1..Len(o)} = {}
      BY <1>3, <3>1
    <3> QED
      BY <2>1, <3>2 DEF MovesTo
  <2>2. CASE x # c
    <3>1. Sweeps(dirs[x], a[x], From(dirs, x, taken)) /\ From(dirs, x, taken) = {}
      BY <1>2, <2>2 DEF MovesTo, From
    <3>2. ValidAt(dirs[x].items) \subseteq 1..Len(dirs[x].items)
      <4>1. Sound(dirs[x])
        BY DEF AllSound
      <4> QED
        BY <4>1, SoundParts
    <3> QED
      BY <1>1, <2>2, <3>1, <3>2 DEF Sweeps
  <2> QED
    BY <2>1, <2>2
<1>6. ASSUME NEW x \in Dirs PROVE SameList(dirs[x], a[x])
  <2> DEFINE f == dirs[x]
             g == a[x]
  <2>1. Sound(f) /\ Sound(g)
    BY <1>4 DEF AllSound
  <2>2. ValidAt(g.items) = ValidAt(f.items) /\ \A i \in ValidAt(f.items) : Bare(g.items[i]) = Bare(f.items[i])
    BY <1>5
  <2> HIDE DEF f, g
  <2>3. SameList(f, g)
    BY <2>1, <2>2, SameValid
  <2> QED
    BY <2>3 DEF f, g
<1>7. Below(dirs, Root) \subseteq Dirs
  BY BelowIs, FavAssumption DEF Least
<1> QED
  BY <1>4, <1>6, <1>7, SeenSame

\* The tables before fav_free of what was moved.
AddMoved(s, c, taken, o) ==
    [s EXCEPT !.dirs = Moved(s.dirs, c, taken, o),
              !.dirty = s.dirty \/ TagsIn(s.dirs, Dirs \ {c})]

\* What fav_add_all_tagged_item does: all of the tables, and the bijection.
Moves(s, r, c, taken, o) ==
    /\ MovesTo(s.dirs, r.dirs, c, taken, o) /\ Whole(r)
    /\ Path(r.dirs, fav_stack) /\ Below(r.dirs, Root) = Below(s.dirs, Root)
    /\ \E w : SameEntries(s.dirs, r.dirs, w)
    /\ ~ r.dirty => ~ s.dirty /\ Seen(r.dirs) = Seen(s.dirs)

LEMMA AddMovedIs ==
    ASSUME NEW s, Whole(s), Tidy(s.dirs), Path(s.dirs, fav_stack),
           NEW c, c = Last(fav_stack), NEW taken, taken = Taken(s.dirs, Dirs \ {c}),
           NEW o \in Orders(s.dirs, taken)
    PROVE  Moves(s, AddMoved(s, c, taken, o), c, taken, o)
<1> DEFINE a == Moved(s.dirs, c, taken, o)
           b == s.dirty \/ TagsIn(s.dirs, Dirs \ {c})
           r == AddMoved(s, c, taken, o)
<1>1. s \in AllTables /\ AllSound(s.dirs) /\ Linked(s.dirs)
  BY DEF Whole
<1>2. c \in Dirs
  BY <1>1, PathBelow
<1>3. Takes(s.dirs, Dirs \ {c}, taken)
  <2> DEFINE D == Dirs \ {c}
  <2>1. D \subseteq Dirs /\ taken = Taken(s.dirs, D)
    OBVIOUS
  <2> HIDE DEF D
  <2>2. Takes(s.dirs, D, taken)
    BY <1>1, <2>1, TakenAre
  <2> QED
    BY <2>2 DEF D
<1>4. IsFiniteSet(taken)
  <2>1. Dirs \ {c} \subseteq Dirs
    OBVIOUS
  <2>2. IsFiniteSet(Pairs(s.dirs, Dirs \ {c}))
    BY <1>1, <2>1, PairsFinite
  <2> QED
    BY <1>3, <2>2, FS_Subset DEF Takes
<1>5. Once(o, taken)
  BY <1>4, OrderIs
<1>6. MovesTo(s.dirs, a, c, taken, o)
  BY SMTT(40), <1>1, <1>2, <1>5, MovesToIs
<1>7. AllSound(a)
  BY <1>6 DEF MovesTo
<1>8. b \in BOOLEAN /\ (b = FALSE => ~ s.dirty /\ ~ TagsIn(s.dirs, Dirs \ {c}))
  BY <1>1 DEF AllTables
<1> HIDE DEF a, b, r
<1>9. r = Tbl(a, s.number, b, s.leaked)
  <2>1. r = [s EXCEPT !.dirs = a, !.dirty = b]
    BY DEF r, AddMoved, a, b
  <2> QED
    BY <1>1, <2>1, DirsDirty
<1>10. PICK w : SameEntries(s.dirs, a, w)
  BY <1>1, <1>2, <1>3, <1>5, <1>6, MovesKeep
<1>11. Linked(a) /\ Cardinality(Pairs(a, Dirs)) = Cardinality(Pairs(s.dirs, Dirs))
  <2>1. CameFrom(s.dirs, a, w) /\ \A m \in Pairs(s.dirs, Dirs) : \E l \in Pairs(a, Dirs) : w[l] = m
    BY <1>10 DEF SameEntries
  <2>2. Linked(a)
    BY <1>1, <2>1, LinkedStays
  <2>3. Cardinality(Pairs(a, Dirs)) = Cardinality(Pairs(s.dirs, Dirs))
    BY <1>1, <1>7, <2>1, AllCame
  <2> QED
    BY <2>2, <2>3
<1>12. /\ r \in AllTables /\ r.dirs = a /\ r.number = s.number /\ r.dirty = b
       /\ r.leaked = s.leaked
  BY <1>1, <1>7, <1>8, <1>9 DEF AllTables, Tbl, AllSound
<1>13. Whole(r)
  BY <1>7, <1>11, <1>12 DEF Whole
<1>14. Path(a, fav_stack) /\ Below(a, Root) = Below(s.dirs, Root)
  BY <1>1, <1>3, <1>5, <1>6, MovesStay
<1>15. b = FALSE => Seen(a) = Seen(s.dirs)
  BY <1>1, <1>2, <1>3, <1>5, <1>6, <1>8, NoMoveSeen
<1>16. Moves(s, r, c, taken, o)
  BY <1>6, <1>8, <1>10, <1>12, <1>13, <1>14, <1>15 DEF Moves
<1> QED
  BY <1>16 DEF r

\* The tables before fav_free of what was moved, with the counts that they have.
Added(s, c, taken, o) ==
    [s EXCEPT !.dirs = [d \in Dirs |->
                  IF d = c THEN Extended(s.dirs[d], Came(s.dirs, o), {"board", "line"})
                  ELSE Swept(s.dirs, d, taken, TRUE)],
              !.dirty = s.dirty \/ TagsIn(s.dirs, Dirs \ {c})]

\* If the list of the current folder is shown then, nothing has wrapped.
LEMMA AddedIs ==
    ASSUME NEW s, Whole(s), Tidy(s.dirs), AllSmall(s.dirs), Path(s.dirs, fav_stack),
           NEW c, c = Last(fav_stack), NEW taken, taken = Taken(s.dirs, Dirs \ {c}),
           NEW o \in Orders(s.dirs, taken), NEW q, q = Added(s, c, taken, o),
           NEW k, k = Forget(q).dirs[c], Listable(k), Unwrapped(k)
    PROVE  q = AddMoved(s, c, taken, o) /\ AllSmall(q.dirs)
<1> DEFINE r == AddMoved(s, c, taken, o)
           f == s.dirs[c]
           es == Came(s.dirs, o)
           keep == {"board", "line"}
           g == Extended(f, es, keep)
           h == Grown(f, es, keep)
           b == s.dirty \/ TagsIn(s.dirs, Dirs \ {c})
           qd == [d \in Dirs |-> IF d = c THEN g ELSE Swept(s.dirs, d, taken, TRUE)]
           rd == Moved(s.dirs, c, taken, o)
<1>1. s \in AllTables /\ AllSound(s.dirs)
  BY DEF Whole
<1>2. c \in Dirs /\ Sound(f) /\ Small(f)
  BY <1>1, PathBelow DEF AllSound, AllSmall
<1>3. Moves(s, r, c, taken, o)
  BY AddMovedIs
<1>4. Whole(r) /\ Below(r.dirs, Root) = Below(s.dirs, Root)
  BY <1>3 DEF Moves
<1>5. c \in Below(r.dirs, Root)
  BY <1>1, <1>4, PathBelow
<1>6. Flagged(es)
  <2> DEFINE D == Dirs \ {c}
  <2>1. D \subseteq Dirs /\ taken = Taken(s.dirs, D)
    OBVIOUS
  <2> HIDE DEF D
  <2>2. taken \subseteq Pairs(s.dirs, D)
    BY <1>1, <2>1, TakenAre DEF Takes
  <2>3. IsFiniteSet(taken)
    <3>1. IsFiniteSet(Pairs(s.dirs, D))
      BY <1>1, <2>1, PairsFinite
    <3> QED
      BY <2>2, <3>1, FS_Subset
  <2>4. Comes(s.dirs, o, es)
    BY <1>1, <2>1, <2>2, <2>3, OrderIs, CameIs
  <2> QED
    BY <2>4 DEF Comes
<1>7. "board" \in keep /\ "folder" \notin keep
  OBVIOUS
<1>8. /\ q = [s EXCEPT !.dirs = qd, !.dirty = b] /\ r = [s EXCEPT !.dirs = rd, !.dirty = b]
      /\ qd = [d \in Dirs |-> IF d = c THEN g ELSE Swept(s.dirs, d, taken, TRUE)]
      /\ rd = [d \in Dirs |-> IF d = c THEN h ELSE Swept(s.dirs, d, taken, TRUE)]
      /\ b \in BOOLEAN
  <2>1. b \in BOOLEAN
    BY <1>1 DEF AllTables
  <2> QED
    BY <2>1 DEF Added, AddMoved, Moved
<1> HIDE DEF r, f, es, keep, g, h, b, qd, rd
<1>9. q = Tbl(qd, s.number, b, s.leaked) /\ r = Tbl(rd, s.number, b, s.leaked)
  BY <1>1, <1>8, DirsDirty
<1>10. q.dirs = qd /\ r.dirs = rd
  BY <1>9 DEF Tbl
<1>11. /\ g \in Folder /\ ValidAt(g.items) = ValidAt(h.items)
       /\ \A i \in ValidAt(h.items) : g.items[i].sub = h.items[i].sub
  BY <1>2, <1>6, <1>7, ExtendedParts DEF g, h
<1>12. qd[c] = g /\ rd[c] = h /\ \A d \in Dirs \ {c} : qd[d] = rd[d]
  BY <1>2, <1>8
<1>13. Below(qd, Root) = Below(rd, Root)
  <2> DEFINE to(a, x) == {a[x].items[i].sub : i \in ValidAt(a[x].items)}
  <2>1. \A x \in Dirs : to(qd, x) = to(rd, x)
    BY <1>11, <1>12
  <2>2. [x \in Dirs |-> to(qd, x)] = [x \in Dirs |-> to(rd, x)]
    <3> HIDE DEF to
    <3> QED
      BY <2>1
  <2> QED
    BY <2>2 DEF Below
<1>14. q \in AllTables
  <2>1. rd \in [Dirs -> Folder] /\ r \in AllTables
    BY <1>4, <1>10 DEF Whole, AllTables
  <2>2. qd \in [Dirs -> Folder]
    BY <1>8, <1>11, <1>12, <2>1
  <2> QED
    BY <1>1, <1>8, <1>9, <2>2 DEF AllTables, Tbl
<1>15. /\ k.n = g.n /\ ValidAt(k.items) = ValidAt(g.items)
       /\ \A i \in ValidAt(g.items) : k.items[i] = g.items[i]
  <2>1. c \in Below(q.dirs, Root) /\ g = q.dirs[c]
    BY <1>5, <1>10, <1>12, <1>13
  <2> DEFINE x == Forget(q).dirs[c]
  <2>2. c \in Dirs /\ x = Forget(q).dirs[c] /\ k = x
    BY <1>2
  <2> HIDE DEF x
  <2>3. /\ x.n = g.n /\ ValidAt(x.items) = ValidAt(g.items)
        /\ \A i \in ValidAt(g.items) : x.items[i] = g.items[i]
    BY ONLY <1>14, <2>1, <2>2, ForgetLists
  <2> QED
    BY <2>2, <2>3
<1>16. get_data_number(k) = get_data_number(g)
  BY <1>15 DEF get_data_number
<1>17. NumberedAt(k.items) = ValidAt(g.items) /\ (get_data_number(g) = 0 => ValidAt(g.items) = {})
  BY <1>15, <1>16 DEF Unwrapped
<1>18. Cardinality(ValidAt(g.items)) <= get_data_number(g)
  <2>1. get_data_number(g) = 0 \/ Cardinality(ValidAt(g.items)) <= get_data_number(g)
    BY <1>16, <1>17 DEF Listable
  <2>2. Cardinality({}) = 0
    BY FS_EmptySet
  <2> QED
    BY <1>17, <2>1, <2>2
<1>19. \A i \in ValidAt(g.items) : g.items[i].type = "folder" => g.items[i].id >= 1
  BY <1>15, <1>17 DEF NumberedAt
<1>20. Fits(f, es)
  <2>1. f.last["folder"] + OfType(es, "folder", Len(es)) <= CHAR_MAX
    BY <1>2, <1>6, <1>7, <1>19, NumbersFit DEF g
  <2>2. /\ f.n["line"] + OfType(es, "line", Len(es)) <= CHAR_MAX
        /\ f.n["folder"] + OfType(es, "folder", Len(es)) <= CHAR_MAX
    BY <1>2, <1>6, <1>7, <1>18, CountsKeepUp DEF g
  <2> QED
    BY <2>1, <2>2 DEF Fits
<1>21. g = h /\ Small(h)
  BY <1>2, <1>6, <1>7, <1>20, ExtendedIs DEF g, h
<1>22. qd = rd
  BY <1>8, <1>21
<1>23. AllSmall(qd)
  <2>1. \A d \in Dirs \ {c} : Small(qd[d])
    <3> TAKE d \in Dirs \ {c}
    <3>1. qd[d] = Swept(s.dirs, d, taken, TRUE)
      BY <1>8
    <3>2. Small(s.dirs[d])
      BY DEF AllSmall
    <3> QED
      BY <1>1, <3>1, <3>2, SweptSmall
  <2> QED
    BY <1>12, <1>21, <2>1 DEF AllSmall
<1> QED
  BY <1>9, <1>10, <1>22, <1>23 DEF r

LEMMA AddTaggedFollows ==
    ASSUME NEW s, Whole(s), Tidy(s.dirs), Path(s.dirs, fav_stack),
           NEW c, c = Last(fav_stack), NEW taken, taken = Taken(s.dirs, Dirs \ {c}),
           NEW o \in Orders(s.dirs, taken)
    PROVE  Follows(s, Forget(AddMoved(s, c, taken, o)), fav_stack)
<1> DEFINE r == AddMoved(s, c, taken, o)
<1>1. Moves(s, r, c, taken, o)
  BY AddMovedIs
<1> HIDE DEF r
<1>2. /\ Whole(r) /\ Path(r.dirs, fav_stack)
      /\ ~ r.dirty => ~ s.dirty /\ Seen(r.dirs) = Seen(s.dirs)
  BY <1>1 DEF Moves
<1>3. Follows(s, Forget(r), fav_stack)
  BY <1>2, ForgetFollows
<1> QED
  BY <1>3 DEF r

\* What rebuild_fav makes of a folder looks the same.
LEMMA ArrangedSame ==
    ASSUME NEW f, Sound(f), Small(f), NEW g, g = Arranged(f.items)
    PROVE  /\ Sound(g) /\ SameList(f, g) /\ ValidAt(g.items) = DOMAIN g.items
           /\ Valid(g.items) = g.items /\ Small(g)
<1> DEFINE es == f.items
<1>1. es \in Seq(Entry) /\ \A i \in ValidAt(es) : Proper(es[i])
  BY SoundParts
<1>2. g = Arranged(es) /\ InChars(es)
  BY DEF InChars, Sound, Small, Types
<1> HIDE DEF es
<1>3. Arranges(es, g) /\ Small(g)
  BY <1>1, <1>2, ArrangedIs
<1>4. /\ Sound(g) /\ ValidAt(g.items) = 1..Len(g.items) /\ Len(g.items) = Len(Valid(es))
      /\ \A k \in 1..Len(g.items) : Bare(g.items[k]) = Bare(Valid(es)[k])
  BY <1>3 DEF Arranges
<1>5. g.items \in Seq(Entry) /\ DOMAIN g.items = 1..Len(g.items)
  BY <1>4, SoundParts
<1>6. Valid(g.items) = g.items
  BY <1>4, <1>5, AllValid
<1>7. SameList(f, g)
  BY <1>4, <1>6 DEF SameList, es
<1> QED
  BY <1>3, <1>4, <1>5, <1>6, <1>7

\* The n valid entries are numbered in both directions.
Numbers(items, n) ==
    /\ \A i \in ValidAt(items) :
          UpTo(items, i) \in 1..n /\ Positions(items)[UpTo(items, i)] = i
    /\ \A k \in 1..n : /\ Positions(items)[k] \in ValidAt(items)
                       /\ UpTo(items, Positions(items)[k]) = k

LEMMA NumbersAre ==
    ASSUME NEW items \in Seq(Entry), NEW n, n = Cardinality(ValidAt(items))
    PROVE  Numbers(items, n)
<1>1. /\ Positions(items) \in [1..n -> ValidAt(items)] /\ DOMAIN Positions(items) = 1..n
      /\ \A k \in DOMAIN Positions(items) : UpTo(items, Positions(items)[k]) = k
      /\ \A i \in ValidAt(items) : Positions(items)[UpTo(items, i)] = i
  BY PositionsAre
<1>2. \A i \in ValidAt(items) : UpTo(items, i) \in 1..n
  BY UpToGrows
<1> QED
  BY <1>1, <1>2 DEF Numbers

\* Folders whose lists are the same have as many valid entries, and lead to
\* the same folders.
Matches(dirs, after, D, w) ==
    /\ w \in [Pairs(after, D) -> Pairs(dirs, D)]
    /\ \A l, m \in Pairs(after, D) : w[l] = w[m] => l = m
    /\ \A m \in Pairs(dirs, D) : \E l \in Pairs(after, D) : w[l] = m
    /\ \A l \in Pairs(after, D) : At(after, l).sub = At(dirs, w[l]).sub

LEMMA ListsMatch ==
    ASSUME NEW dirs, AllSound(dirs), NEW after, AllSound(after), NEW D, D \subseteq Dirs,
           \A x \in D : SameList(dirs[x], after[x])
    PROVE  \E w : Matches(dirs, after, D, w)
<1> DEFINE It(x) == dirs[x].items
           Af(x) == after[x].items
           from(l) == <<l[1], Positions(It(l[1]))[UpTo(Af(l[1]), l[2])]>>
           w == [l \in Pairs(after, D) |-> from(l)]
<1>1. ASSUME NEW x \in D
      PROVE  /\ Sound(dirs[x]) /\ Sound(after[x]) /\ It(x) \in Seq(Entry) /\ Af(x) \in Seq(Entry)
             /\ Cardinality(ValidAt(Af(x))) = Cardinality(ValidAt(It(x)))
             /\ Len(Valid(It(x))) = Cardinality(ValidAt(It(x)))
             /\ \A k \in 1..Cardinality(ValidAt(It(x))) :
                   Bare(Valid(Af(x))[k]) = Bare(Valid(It(x))[k])
  <2> DEFINE f == dirs[x]
             g == after[x]
  <2>1. Sound(f) /\ Sound(g) /\ SameList(f, g)
    BY DEF AllSound
  <2> HIDE DEF f, g
  <2>2. f.items \in Seq(Entry) /\ g.items \in Seq(Entry)
    BY <2>1, SoundParts
  <2>3. ListsValid(f.items) /\ ListsValid(g.items)
    BY <2>1, ValidEntries
  <2>4. /\ Len(Valid(f.items)) = Cardinality(ValidAt(f.items))
        /\ Len(Valid(g.items)) = Cardinality(ValidAt(g.items))
    BY <2>3 DEF ListsValid
  <2> QED
    BY <2>1, <2>2, <2>4 DEF SameList, f, g
<1> DEFINE n(x) == Cardinality(ValidAt(It(x)))
<1>2. ASSUME NEW x \in D
      PROVE  /\ \A i \in ValidAt(It(x)) : /\ UpTo(It(x), i) \in 1..n(x)
                                          /\ Positions(It(x))[UpTo(It(x), i)] = i
             /\ \A i \in ValidAt(Af(x)) : /\ UpTo(Af(x), i) \in 1..n(x)
                                          /\ Positions(Af(x))[UpTo(Af(x), i)] = i
             /\ \A k \in 1..n(x) : /\ Positions(It(x))[k] \in ValidAt(It(x))
                                   /\ Positions(Af(x))[k] \in ValidAt(Af(x))
                                   /\ UpTo(It(x), Positions(It(x))[k]) = k
                                   /\ UpTo(Af(x), Positions(Af(x))[k]) = k
                                   /\ It(x)[Positions(It(x))[k]].sub = Af(x)[Positions(Af(x))[k]].sub
  <2> DEFINE s == It(x)
             t == Af(x)
  <2>1. s \in Seq(Entry) /\ t \in Seq(Entry) /\ Cardinality(ValidAt(t)) = n(x)
    BY <1>1
  <2>2. Cardinality(ValidAt(s)) = n(x)
    OBVIOUS
  <2>3. \A k \in 1..n(x) : Bare(Valid(t)[k]) = Bare(Valid(s)[k])
    BY <1>1
  <2>4. ListsValid(s) /\ ListsAll(dirs[x]) /\ ListsValid(t) /\ ListsAll(after[x])
    BY <1>1, ValidEntries
  <2>5. /\ Len(Valid(s)) = n(x) /\ Len(Valid(t)) = n(x)
        /\ \A k \in 1..n(x) : /\ Valid(s)[k] \in Entry /\ Valid(s)[k] = s[Positions(s)[k]]
                              /\ Valid(t)[k] \in Entry /\ Valid(t)[k] = t[Positions(t)[k]]
    BY <2>1, <2>2, <2>4 DEF ListsValid, ListsAll
  <2> HIDE DEF s, t, n
  <2>6. \A k \in 1..n(x) : s[Positions(s)[k]].sub = t[Positions(t)[k]].sub
    BY <2>3, <2>5, SameBare
  <2>7. Numbers(s, n(x)) /\ Numbers(t, n(x))
    BY <2>1, <2>2, NumbersAre
  <2> QED
    BY <2>6, <2>7 DEF Numbers, s, t
<1> HIDE DEF It, Af, n
<1>3. \A l \in Pairs(after, D) : l[1] \in D /\ l[2] \in ValidAt(Af(l[1])) /\ l = <<l[1], l[2]>>
  BY PairsAre DEF Af
<1>4. \A m \in Pairs(dirs, D) : m[1] \in D /\ m[2] \in ValidAt(It(m[1])) /\ m = <<m[1], m[2]>>
  BY PairsAre DEF It
<1>5. ASSUME NEW l \in Pairs(after, D)
      PROVE  from(l) \in Pairs(dirs, D) /\ At(after, l).sub = At(dirs, from(l)).sub
  <2> DEFINE x == l[1]
             i == Positions(It(x))[UpTo(Af(x), l[2])]
  <2>1. x \in D /\ l[2] \in ValidAt(Af(x))
    BY <1>3
  <2>2. i \in ValidAt(It(x)) /\ It(x)[i].sub = Af(x)[l[2]].sub
    BY <1>2, <2>1
  <2>3. from(l) = <<x, i>>
    OBVIOUS
  <2> HIDE DEF i, x, from
  <2>4. from(l) \in Pairs(dirs, D)
    BY <2>1, <2>2, <2>3 DEF Pairs, It
  <2>5. At(dirs, from(l)) = It(x)[i]
    BY <2>3 DEF At, It
  <2> QED
    BY <2>2, <2>4, <2>5 DEF At, Af, x
<1>6. ASSUME NEW l \in Pairs(after, D), NEW m \in Pairs(after, D), from(l) = from(m)
      PROVE  l = m
  <2>1. l[1] = m[1] /\ Positions(It(l[1]))[UpTo(Af(l[1]), l[2])] = Positions(It(m[1]))[UpTo(Af(m[1]), m[2])]
    BY <1>6
  <2>2. l[1] \in D /\ l[2] \in ValidAt(Af(l[1])) /\ m[2] \in ValidAt(Af(l[1]))
    BY <1>3, <2>1
  <2>3. UpTo(Af(l[1]), l[2]) = UpTo(Af(l[1]), m[2])
    BY <1>2, <2>1, <2>2
  <2>4. l[2] = m[2]
    BY <1>2, <2>2, <2>3
  <2> QED
    BY <1>3, <2>1, <2>4
<1>7. ASSUME NEW m \in Pairs(dirs, D)
      PROVE  \E l \in Pairs(after, D) : from(l) = m
  <2> DEFINE x == m[1]
             k == UpTo(It(x), m[2])
             i == Positions(Af(x))[k]
  <2>1. x \in D /\ k \in 1..n(x) /\ Positions(It(x))[k] = m[2] /\ m = <<x, m[2]>>
    BY <1>2, <1>4
  <2>2. i \in ValidAt(Af(x)) /\ UpTo(Af(x), i) = k
    BY <1>2, <2>1
  <2> HIDE DEF x, k, i
  <2>3. <<x, i>> \in Pairs(after, D)
    BY <2>1, <2>2 DEF Pairs, Af
  <2>4. from(<<x, i>>) = m
    BY <2>1, <2>2
  <2> QED
    BY <2>3, <2>4
<1> HIDE DEF from
<1>8. Matches(dirs, after, D, w)
  BY <1>5, <1>6, <1>7 DEF Matches
<1> QED
  BY <1>8

LEMMA BelowWithin ==
    ASSUME NEW dirs, AllSound(dirs), NEW d \in Below(dirs, Root)
    PROVE  d \in Dirs /\ Below(dirs, d) \subseteq Below(dirs, Root) /\ d \in Below(dirs, d)
<1>1. /\ Below(dirs, Root) \in SUBSET Dirs /\ Closed(dirs, Below(dirs, Root)) /\ d \in Dirs
  BY BelowIs, FavAssumption DEF Least
<1>2. Least(dirs, d, Below(dirs, d))
  BY <1>1, BelowIs
<1> QED
  BY <1>1, <1>2 DEF Least

\* What rebuild_fav does below d: nothing that the user sees.
Rebuilds(s, t, d, stack) ==
    /\ Follows(s, t, stack) /\ Seen(t.dirs) = Seen(s.dirs)
    /\ AllSmall(t.dirs) /\ Below(t.dirs, Root) = Below(s.dirs, Root)
    /\ \A x \in Below(s.dirs, d) : ValidAt(t.dirs[x].items) = DOMAIN t.dirs[x].items

LEMMA RebuildIs ==
    ASSUME NEW s, Whole(s), Tidy(s.dirs), AllSmall(s.dirs), NEW stack, Path(s.dirs, stack),
           NEW d \in Below(s.dirs, Root)
    PROVE  Rebuilds(s, Rebuild(s, d), d, stack)
<1> DEFINE D == Below(s.dirs, d)
           a == [x \in Dirs |-> IF x \in D THEN Arranged(s.dirs[x].items) ELSE s.dirs[x]]
           n == s.number - Total(s.dirs, D) + Total(a, D)
           b == s.dirty \/ Total(a, D) > 0
           t == Rebuild(s, d)
<1>1. s \in AllTables /\ AllSound(s.dirs) /\ Linked(s.dirs)
  BY DEF Whole
<1>2. d \in Dirs /\ D \subseteq Below(s.dirs, Root) /\ Below(s.dirs, Root) \subseteq Dirs
  BY <1>1, BelowWithin, BelowIs, FavAssumption DEF Least
<1>3. ASSUME NEW x \in Dirs
      PROVE  /\ Sound(a[x]) /\ Small(a[x]) /\ SameList(s.dirs[x], a[x])
             /\ x \in D => ValidAt(a[x].items) = DOMAIN a[x].items
             /\ x \notin D => a[x] = s.dirs[x]
  <2>1. Sound(s.dirs[x]) /\ Small(s.dirs[x])
    BY <1>1 DEF AllSound, AllSmall
  <2>2. CASE x \in D
    <3> DEFINE f == s.dirs[x]
               g == Arranged(f.items)
    <3>1. a[x] = g
      BY <2>2
    <3>2. Sound(f) /\ Small(f)
      BY <2>1
    <3> HIDE DEF f
    <3>3. Sound(g) /\ Small(g) /\ SameList(f, g) /\ ValidAt(g.items) = DOMAIN g.items
      BY <3>2, ArrangedSame
    <3> QED
      BY <2>2, <3>1, <3>3 DEF f
  <2>3. CASE x \notin D
    <3>1. a[x] = s.dirs[x]
      BY <2>3
    <3> HIDE DEF a
    <3> QED
      BY <2>1, <2>3, <3>1 DEF SameList
  <2> QED
    BY <2>2, <2>3
<1>4. a = [x \in Dirs |-> a[x]]
  OBVIOUS
<1>5. t = [s EXCEPT !.dirs = a, !.number = n, !.dirty = b]
  BY DEF Rebuild
<1>6. b \in BOOLEAN /\ (b = FALSE => ~ s.dirty)
  BY <1>1 DEF AllTables
<1> HIDE DEF D, a, b, t
<1>7. AllSound(a)
  BY <1>3, <1>4 DEF AllSound, Sound
<1>8. \A E : E \subseteq Dirs => Cardinality(Pairs(a, E)) = Cardinality(Pairs(s.dirs, E))
  <2> SUFFICES ASSUME NEW E, E \subseteq Dirs
               PROVE  Cardinality(Pairs(a, E)) = Cardinality(Pairs(s.dirs, E))
    OBVIOUS
  <2>1. PICK w : Matches(s.dirs, a, E, w)
    <3>1. \A x \in E : SameList(s.dirs[x], a[x])
      BY <1>3
    <3> QED
      BY <1>1, <1>7, <3>1, ListsMatch
  <2>2. IsFiniteSet(Pairs(a, E))
    BY <1>7, PairsFinite
  <2> QED
    BY <2>1, <2>2, SameSize DEF Matches
<1>9. n = s.number /\ s.number \in Nat
  <2>1. Total(s.dirs, D) = Cardinality(Pairs(s.dirs, D)) /\ Total(a, D) = Cardinality(Pairs(a, D))
    BY <1>1, <1>2, <1>7, TotalIs
  <2>2. Cardinality(Pairs(s.dirs, D)) \in Nat
    BY <1>1, <1>2, PairsFinite
  <2>3. Total(s.dirs, D) \in Nat /\ Total(a, D) = Total(s.dirs, D) /\ s.number \in Nat
    BY <1>1, <1>2, <1>8, <2>1, <2>2 DEF AllTables
  <2> QED
    BY <2>3
<1>10. Linked(a)
  <2>1. \A x \in Dirs : SameList(s.dirs[x], a[x])
    BY <1>3
  <2>2. PICK w : Matches(s.dirs, a, Dirs, w)
    BY <1>1, <1>7, <2>1, ListsMatch
  <2>3. CameFrom(s.dirs, a, w)
    BY <2>2 DEF Matches, CameFrom
  <2> QED
    BY <1>1, <2>3, LinkedStays
<1> HIDE DEF n
<1>11. t = Tbl(a, n, b, s.leaked)
  BY <1>1, <1>5, DirsNumberDirty
<1>12. /\ t \in AllTables /\ t.dirs = a /\ t.number = s.number /\ t.dirty = b
       /\ t.leaked = s.leaked
  BY <1>1, <1>6, <1>7, <1>9, <1>11 DEF AllTables, Tbl, AllSound
<1>13. Whole(t)
  BY <1>7, <1>8, <1>10, <1>12 DEF Whole
<1>14. Below(a, Root) = Below(s.dirs, Root) /\ Seen(a) = Seen(s.dirs)
  BY <1>1, <1>2, <1>3, <1>7, SeenSame
<1>15. Tidy(a) /\ Path(a, stack)
  <2>1. \A x \in Dirs : \A y : Child(a, x, y) <=> Child(s.dirs, x, y)
    BY <1>1, <1>3, <1>7, SameChildren
  <2>2. \A x \in Dirs \ Below(s.dirs, Root) : a[x] = s.dirs[x]
    BY <1>2, <1>3
  <2> QED
    BY <1>1, <1>7, <2>1, <2>2, AlikeStays
<1>16. Follows(s, t, stack)
  BY <1>6, <1>12, <1>13, <1>14, <1>15 DEF Follows
<1>17. \A x \in D : ValidAt(a[x].items) = DOMAIN a[x].items
  BY <1>2, <1>3
<1>18. Rebuilds(s, t, d, stack)
  <2>1. AllSmall(a)
    BY <1>3 DEF AllSmall
  <2> QED
    BY <1>12, <1>14, <1>16, <1>17, <2>1 DEF Rebuilds, D
<1> QED
  BY <1>18 DEF t

-----------------------------------------------------------------------------
(* The file                                                                *)

\* fav_cleanup leaves valid entries alone where the user can come to.
Cleans(s, t, stack) ==
    /\ Follows(s, t, stack) /\ Seen(t.dirs) = Seen(s.dirs) /\ AllSmall(t.dirs)
    /\ \A x \in Below(t.dirs, Root) : ValidAt(t.dirs[x].items) = DOMAIN t.dirs[x].items

LEMMA CleanupIs ==
    ASSUME NEW s, Whole(s), Tidy(s.dirs), AllSmall(s.dirs), NEW stack, Path(s.dirs, stack)
    PROVE  Cleans(s, Cleanup(s), stack)
<1>1. CASE \E d \in Below(s.dirs, Root) : ValidAt(s.dirs[d].items) # DOMAIN s.dirs[d].items
  <2>1. Root \in Below(s.dirs, Root)
    BY BelowIs, FavAssumption DEF Least, Whole
  <2>2. Rebuilds(s, Rebuild(s, Root), Root, stack)
    BY <2>1, RebuildIs
  <2>3. Cleanup(s) = Rebuild(s, Root)
    BY <1>1 DEF Cleanup
  <2> QED
    BY <2>2, <2>3 DEF Rebuilds, Cleans
<1>2. CASE ~ \E d \in Below(s.dirs, Root) : ValidAt(s.dirs[d].items) # DOMAIN s.dirs[d].items
  <2>1. Cleanup(s) = s
    BY <1>2 DEF Cleanup
  <2>2. Follows(s, s, stack)
    BY FollowsItself
  <2> QED
    BY <1>2, <2>1, <2>2 DEF Cleans
<1> QED
  BY <1>1, <1>2

\* What write_favrec writes then is what the user sees.
LEMMA WrittenIs ==
    ASSUME NEW dirs, AllSound(dirs),
           \A x \in Below(dirs, Root) : ValidAt(dirs[x].items) = DOMAIN dirs[x].items
    PROVE  Written(dirs) = Seen(dirs)
<1> DEFINE W(x) == [i \in DOMAIN dirs[x].items \cap 1..get_data_number(dirs[x]) |-> Bare(dirs[x].items[i])]
           S(x) == [i \in DOMAIN Valid(dirs[x].items) |-> Bare(Valid(dirs[x].items)[i])]
<1>1. ASSUME NEW x \in Below(dirs, Root) PROVE W(x) = S(x)
  <2> DEFINE f == dirs[x]
  <2>1. Below(dirs, Root) \subseteq Dirs
    BY BelowIs, FavAssumption DEF Least
  <2>2. Sound(f) /\ ValidAt(f.items) = DOMAIN f.items
    BY <2>1 DEF AllSound
  <2> HIDE DEF f
  <2>3. f.items \in Seq(Entry) /\ DOMAIN f.items = 1..Len(f.items)
    BY <2>2, SoundParts
  <2>4. Valid(f.items) = f.items /\ Cardinality(ValidAt(f.items)) = Len(f.items)
    BY <2>2, <2>3, AllValid
  <2>5. get_data_number(f) = Len(f.items)
    BY <2>2, <2>4, CountsAdd
  <2>6. DOMAIN f.items \cap 1..get_data_number(f) = DOMAIN f.items
    BY <2>3, <2>5
  <2> QED
    BY <2>4, <2>6 DEF f
<1>2. Written(dirs) = [x \in Below(dirs, Root) |-> W(x)]
  BY DEF Written
<1>3. Seen(dirs) = [x \in Below(dirs, Root) |-> S(x)]
  BY DEF Seen
<1> HIDE DEF W, S
<1> QED
  BY <1>1, <1>2, <1>3

\* A file that a session wrote, or none.
FileOK(file) ==
    file = NoFile \/ \E dirs : /\ AllSound(dirs) /\ AllSmall(dirs) /\ Linked(dirs) /\ Tidy(dirs)
                              /\ file = Seen(dirs)

LEMMA SeenIsFile ==
    ASSUME NEW dirs, AllSound(dirs)
    PROVE  Seen(dirs) # NoFile /\ Kept(Seen(dirs)) = Seen(dirs)
<1>1. DOMAIN Seen(dirs) = Below(dirs, Root)
  BY DEF Seen
<1>2. Root \in Below(dirs, Root)
  BY BelowIs, FavAssumption DEF Least
<1>3. Seen(dirs) # NoFile
  <2>1. DOMAIN NoFile = {}
    BY DEF NoFile
  <2> QED
    BY <1>1, <1>2, <2>1
<1> QED
  BY <1>3 DEF Kept

\* fav_save leaves what the user sees in the file, provided that it is there
\* if dirty is not set.
Saves(s, stack, w) ==
    /\ Follows(s, w.tables, stack) /\ FileOK(w.file) /\ Kept(w.file) = Seen(s.dirs)
    /\ Seen(w.tables.dirs) = Seen(s.dirs) /\ AllSmall(w.tables.dirs)

LEMMA SavedIs ==
    ASSUME NEW s, Whole(s), Tidy(s.dirs), AllSmall(s.dirs), NEW stack, Path(s.dirs, stack),
           FileOK(fav_file), s.dirty \/ Kept(fav_file) = Seen(s.dirs)
    PROVE  Saves(s, stack, FavSaved(s))
<1> DEFINE t == Cleanup(s)
           w == FavSaved(s)
<1>1. Cleans(s, t, stack)
  BY CleanupIs
<1>2. w.tables = t /\ w.file = IF t.dirty THEN Written(t.dirs) ELSE fav_file
  BY DEF FavSaved
<1> HIDE DEF t, w
<1>3. Follows(s, t, stack) /\ Seen(t.dirs) = Seen(s.dirs) /\ AllSmall(t.dirs)
  BY <1>1 DEF Cleans
<1>4. CASE t.dirty
  <2>1. AllSound(t.dirs) /\ Linked(t.dirs) /\ Tidy(t.dirs)
    BY <1>3 DEF Follows, Whole
  <2>2. w.file = Seen(t.dirs)
    BY <1>1, <1>2, <1>4, <2>1, WrittenIs DEF Cleans
  <2>3. FileOK(w.file)
    BY <1>3, <2>1, <2>2 DEF FileOK
  <2>4. Kept(w.file) = Seen(s.dirs)
    BY <1>3, <2>1, <2>2, SeenIsFile
  <2>5. Saves(s, stack, w)
    BY <1>2, <1>3, <2>3, <2>4 DEF Saves
  <2> QED
    BY <2>5 DEF w
<1>5. CASE ~ t.dirty
  <2>1. w.file = fav_file /\ ~ s.dirty
    BY <1>2, <1>3, <1>5 DEF Follows
  <2>2. Saves(s, stack, w)
    BY <1>2, <1>3, <2>1 DEF Saves
  <2> QED
    BY <2>2 DEF w
<1> QED
  BY <1>4, <1>5

\* Without a file all is new.
LEMMA NoneIs ==
    ASSUME NEW dirs, dirs = [d \in Dirs |-> NewFolder]
    PROVE  /\ AllSound(dirs) /\ AllSmall(dirs) /\ Linked(dirs) /\ Tidy(dirs)
           /\ Seen(dirs) = Kept(NoFile)
           /\ \A D : D \subseteq Dirs => Cardinality(Pairs(dirs, D)) = 0
<1>1. AllSound(dirs) /\ AllSmall(dirs)
  BY NewIsSound DEF AllSound, AllSmall, Sound
<1>2. \A x \in Dirs : ValidAt(dirs[x].items) = {} /\ dirs[x].items = <<>>
  BY NewIsSound
<1>3. \A D : D \subseteq Dirs => Pairs(dirs, D) = {}
  BY <1>2 DEF Pairs
<1>4. \A D : D \subseteq Dirs => Cardinality(Pairs(dirs, D)) = 0
  BY <1>3, FS_EmptySet
<1>5. Linked(dirs)
  BY <1>3 DEF Linked
<1>6. Tidy(dirs)
  BY BelowIs, <1>1, FavAssumption DEF Tidy, Least
<1>7. Below(dirs, Root) = {Root}
  <2>1. {Root} \in SUBSET Dirs /\ Root \in Dirs
    BY FavAssumption
  <2>2. Closed(dirs, {Root})
    BY <1>2, <2>1 DEF Closed, Child
  <2>3. Least(dirs, Root, Below(dirs, Root))
    BY <1>1, <2>1, BelowIs
  <2> QED
    BY <2>1, <2>2, <2>3 DEF Least
<1>8. Seen(dirs) = [d \in {Root} |-> <<>>]
  <2> DEFINE S(x) == [i \in DOMAIN Valid(dirs[x].items) |-> Bare(Valid(dirs[x].items)[i])]
  <2>1. Seen(dirs) = [x \in {Root} |-> S(x)]
    BY <1>7 DEF Seen
  <2>2. S(Root) = <<>>
    <3>1. dirs[Root].items = <<>> /\ <<>> \in Seq(Entry) /\ ValidAt(<<>>) = DOMAIN <<>>
      BY <1>2, FavAssumption DEF ValidAt
    <3>2. Valid(<<>>) = <<>>
      BY <3>1, AllValid
    <3>3. DOMAIN Valid(dirs[Root].items) = {}
      BY <3>1, <3>2
    <3> QED
      BY <3>3
  <2> HIDE DEF S
  <2> QED
    BY <2>1, <2>2
<1> QED
  BY <1>1, <1>4, <1>5, <1>6, <1>8 DEF Kept

\* An entry of the file is a valid entry again.
LEMMA BareProper ==
    ASSUME NEW e \in Entry, Proper(e), e.fav
    PROVE  Bare(e) \in Entry /\ Proper(Bare(e)) /\ Bare(e).fav /\ Bare(Bare(e)) = Bare(e)
<1> DEFINE id == IF e.type = "board" THEN e.id ELSE 0
           g == Bare(e)
<1>1. g = [type |-> e.type, fav |-> e.fav, tag |-> e.tag, id |-> id, sub |-> e.sub]
  BY BareIs
<1>2. id \in FavBoards \cup Int \cup {Gone}
  BY DEF Proper
<1> HIDE DEF g
<1>3. /\ g.type = e.type /\ g.fav = e.fav /\ g.tag = e.tag /\ g.id = id /\ g.sub = e.sub
      /\ g \in Entry
  <2> HIDE DEF id
  <2> QED
    BY <1>1, <1>2 DEF Entry
<1>4. Bare(g) = Bare(e)
  BY <1>3, SameBare
<1>5. Proper(g) /\ g.fav
  BY <1>3 DEF Proper
<1> QED
  BY <1>3, <1>4, <1>5 DEF g

\* A list that was written, and what fav_load makes of it.
LEMMA LoadedIs ==
    ASSUME NEW f, Sound(f), Small(f),
           NEW es, es = [i \in DOMAIN Valid(f.items) |-> Bare(Valid(f.items)[i])],
           NEW g, g = Arranged(es)
    PROVE  Sound(g) /\ Small(g) /\ SameList(f, g)
<1> DEFINE v == Valid(f.items)
           m == Len(v)
<1>1. /\ m \in Nat /\ DOMAIN v = 1..m
      /\ \A k \in 1..m : v[k] \in Entry /\ Proper(v[k]) /\ v[k].fav
  <2>1. ListsValid(f.items) /\ ListsAll(f)
    BY ValidEntries
  <2> QED
    BY <2>1 DEF ListsValid, ListsAll
<1>2. es = [k \in 1..m |-> Bare(v[k])]
  BY <1>1
<1> HIDE DEF v, m
<1>3. \A k \in 1..m : es[k] \in Entry /\ Proper(es[k]) /\ es[k].fav /\ Bare(es[k]) = Bare(v[k])
  BY <1>1, <1>2, BareProper
<1>4. es \in Seq(Entry)
  <2>1. es \in [1..m -> Entry]
    BY <1>2, <1>3
  <2> QED
    BY <1>1, <2>1
<1>5. Len(es) = m /\ DOMAIN es = 1..m
  BY <1>1, <1>2, <1>4, LenProperties
<1>6. ValidAt(es) = DOMAIN es
  BY <1>3, <1>5 DEF ValidAt
<1>7. Valid(es) = es
  BY <1>4, <1>6, AllValid
<1>12. InChars(es)
  <2>1. ASSUME NEW t \in Types PROVE Count(es, t) = f.n[t]
    <3>1. \A k \in 1..m : es[k].type = t <=> v[k].type = t
      BY <1>1, <1>3, SameBare
    <3>2. {k \in 1..m : es[k].type = t} = {k \in 1..m : v[k].type = t}
      BY <3>1
    <3>3. OfType(es, t, m) = OfType(v, t, m)
      BY <3>2 DEF OfType
    <3>4. Count(es, t) = OfType(es, t, m)
      BY <1>4, <1>5, <1>7, OfValid
    <3>5. OfType(v, t, m) = Count(f.items, t)
      <4>1. f.items \in Seq(Entry)
        BY SoundParts
      <4> QED
        BY <4>1, OfValid DEF v, m
    <3> QED
      BY <3>3, <3>4, <3>5 DEF Sound
  <2> QED
    BY <2>1 DEF InChars, Small, Types
<1>8. Arranges(es, g) /\ Small(g)
  BY <1>3, <1>4, <1>5, <1>6, <1>12, ArrangedIs
<1>9. /\ Sound(g) /\ ValidAt(g.items) = 1..Len(g.items) /\ Len(g.items) = m
      /\ \A k \in 1..m : Bare(g.items[k]) = Bare(es[k])
  BY <1>5, <1>7, <1>8 DEF Arranges
<1>10. Valid(g.items) = g.items
  <2>1. g.items \in Seq(Entry) /\ DOMAIN g.items = 1..Len(g.items)
    BY <1>9, SoundParts
  <2> QED
    BY <1>9, <2>1, AllValid
<1>11. SameList(f, g)
  BY <1>3, <1>9, <1>10 DEF SameList, v, m
<1> QED
  BY <1>8, <1>9, <1>11

LEMMA PathRoot == ASSUME NEW dirs PROVE Path(dirs, <<Root>>)
<1>1. <<Root>> \in Seq(Dirs) /\ Len(<<Root>>) = 1 /\ <<Root>> # <<>> /\ <<Root>>[1] = Root
  BY FavAssumption
<1>2. \A k \in 1..1 : k = 1
  OBVIOUS
<1> QED
  BY <1>1, <1>2 DEF Path

\* fav_load
Loads(file, t) ==
    /\ Whole(t) /\ Tidy(t.dirs) /\ AllSmall(t.dirs) /\ ~ t.dirty /\ Seen(t.dirs) = Kept(file)
    /\ Path(t.dirs, <<Root>>)

LEMMA ReadIs == ASSUME NEW file, FileOK(file) PROVE Loads(file, Read(file))
<1> DEFINE a == [d \in Dirs |-> IF d \in DOMAIN file THEN Arranged(file[d]) ELSE NewFolder]
           n == Total(a, DOMAIN file)
           t == Read(file)
<1>1. t = Tbl(a, n, FALSE, 0)
  <2>1. t = [NoTables EXCEPT !.dirs = a, !.number = n]
    BY DEF Read
  <2>2. NoTables = Tbl([d \in Dirs |-> NewFolder], 0, FALSE, 0)
    BY DEF NoTables, Tbl
  <2> HIDE DEF t, a, n
  <2>3. t = [Tbl([d \in Dirs |-> NewFolder], 0, FALSE, 0) EXCEPT !.dirs = a, !.number = n]
    BY <2>1, <2>2
  <2> QED
    BY <2>3 DEF Tbl
<1>2. /\ AllSound(a) /\ AllSmall(a) /\ Linked(a) /\ Tidy(a) /\ Seen(a) = Kept(file)
      /\ n = Cardinality(Pairs(a, Dirs)) /\ n \in Nat
  <2>1. CASE file = NoFile
    <3>1. DOMAIN file = {}
      BY <2>1 DEF NoFile
    <3>2. a = [d \in Dirs |-> NewFolder]
      BY <3>1
    <3> HIDE DEF a
    <3>3. /\ AllSound(a) /\ AllSmall(a) /\ Linked(a) /\ Tidy(a) /\ Seen(a) = Kept(NoFile)
          /\ \A D : D \subseteq Dirs => Cardinality(Pairs(a, D)) = 0
      BY <3>2, NoneIs
    <3>4. n = Cardinality(Pairs(a, {}))
      BY <3>1, <3>3, TotalIs
    <3> QED
      BY <2>1, <3>3, <3>4
  <2>2. CASE file # NoFile
    <3>1. PICK g : AllSound(g) /\ AllSmall(g) /\ Linked(g) /\ Tidy(g) /\ file = Seen(g)
      BY <2>2 DEF FileOK
    <3> DEFINE B == Below(g, Root)
               L(x) == [i \in DOMAIN Valid(g[x].items) |-> Bare(Valid(g[x].items)[i])]
    <3>2. file = [x \in B |-> L(x)] /\ B \subseteq Dirs
      BY <3>1, BelowIs, FavAssumption DEF Seen, Least
    <3>3. DOMAIN file = B /\ \A x \in B : file[x] = L(x)
      BY <3>2
    <3>4. ASSUME NEW x \in Dirs PROVE Sound(a[x]) /\ Small(a[x]) /\ SameList(g[x], a[x])
      <4>1. CASE x \in B
        <5> DEFINE f == g[x]
                   es == L(x)
                   h == a[x]
        <5>1. h = Arranged(es)
          BY <3>3, <4>1
        <5>2. /\ Sound(f) /\ Small(f)
              /\ es = [i \in DOMAIN Valid(f.items) |-> Bare(Valid(f.items)[i])]
          BY <3>1 DEF AllSound, AllSmall
        <5> HIDE DEF f, es, h
        <5>3. Sound(h) /\ Small(h) /\ SameList(f, h)
          BY <5>1, <5>2, LoadedIs
        <5> QED
          BY <5>3 DEF h, f
      <4>2. CASE x \notin B
        <5>1. a[x] = NewFolder /\ g[x] = NewFolder
          BY <3>1, <3>3, <4>2 DEF Tidy
        <5> QED
          BY <5>1, NewIsSound DEF SameList
      <4> QED
        BY <4>1, <4>2
    <3>5. AllSound(a) /\ AllSmall(a)
      <4>1. a = [x \in Dirs |-> a[x]]
        OBVIOUS
      <4> HIDE DEF a
      <4> QED
        BY <3>4, <4>1 DEF AllSound, AllSmall, Sound
    <3>10. \A x \in Dirs \ B : a[x] = NewFolder
      BY <3>3
    <3> HIDE DEF a, L
    <3>6. Below(a, Root) = B /\ Seen(a) = file
      <4>1. \A x \in Below(g, Root) : SameList(g[x], a[x])
        BY <3>2, <3>4
      <4> QED
        BY <3>1, <3>5, <4>1, SeenSame
    <3>7. Linked(a)
      <4>1. PICK w : Matches(g, a, Dirs, w)
        BY <3>1, <3>4, <3>5, ListsMatch
      <4>2. CameFrom(g, a, w)
        BY <4>1 DEF Matches, CameFrom
      <4> QED
        BY <3>1, <4>2, LinkedStays
    <3>8. Tidy(a)
      BY <3>6, <3>10 DEF Tidy
    <3>9. n = Cardinality(Pairs(a, Dirs)) /\ n \in Nat
      <4>1. Pairs(a, Dirs) = Pairs(a, B)
        <5>1. \A x \in Dirs \ B : ValidAt(a[x].items) = {}
          BY <3>10, NewIsSound
        <5> QED
          BY <3>2, <5>1 DEF Pairs
      <4>2. Total(a, B) = Cardinality(Pairs(a, B)) /\ Cardinality(Pairs(a, B)) \in Nat
        BY <3>2, <3>5, TotalIs, PairsFinite
      <4> QED
        BY <3>3, <4>1, <4>2
    <3>11. Kept(file) = file
      BY <2>2 DEF Kept
    <3> QED
      BY <3>5, <3>6, <3>7, <3>8, <3>9, <3>11
  <2> QED
    BY <2>1, <2>2
<1> HIDE DEF a, n, t
<1>3. /\ t \in AllTables /\ t.dirs = a /\ t.number = n /\ t.dirty = FALSE /\ t.leaked = 0
  BY <1>1, <1>2 DEF Tbl, AllTables, AllSound
<1>4. Whole(t)
  BY <1>2, <1>3 DEF Whole
<1>5. Loads(file, t)
  BY <1>2, <1>3, <1>4, PathRoot DEF Loads
<1> QED
  BY <1>5 DEF t

-----------------------------------------------------------------------------
(* Where the user is, and what the screen shows                            *)

LEMMA PathEnter ==
    ASSUME NEW dirs, AllSound(dirs), Linked(dirs), NEW stack, Path(dirs, stack),
           NEW i \in ValidAt(dirs[Last(stack)].items),
           dirs[Last(stack)].items[i].type = "folder"
    PROVE  /\ Path(dirs, Append(stack, dirs[Last(stack)].items[i].sub))
           /\ Len(Append(stack, dirs[Last(stack)].items[i].sub)) = Len(stack) + 1
<1> DEFINE d == Last(stack)
           y == dirs[d].items[i].sub
           n == Len(stack)
           st == Append(stack, y)
<1>1. d \in Dirs /\ n \in Nat \ {0} /\ d = stack[n] /\ stack \in Seq(Dirs)
  BY PathBelow DEF Path
<1>2. y \in Dirs
  <2>1. Sound(dirs[d])
    BY <1>1 DEF AllSound
  <2>2. Proper(dirs[d].items[i]) /\ dirs[d].items[i].fav
    BY <2>1, SoundParts
  <2> QED
    BY <2>2 DEF Proper
<1>3. <<d, i>> \in Pairs(dirs, Dirs) /\ At(dirs, <<d, i>>).sub = y
  BY <1>1 DEF Pairs, At
<1>4. i \in ValidAt(dirs[d].items)
  OBVIOUS
<1>5. Child(dirs, d, y)
  BY <1>4 DEF Child
<1> HIDE DEF d, y, n, st
<1>6. \A k \in 1..n : stack[k] # y
  <2> SUFFICES ASSUME NEW k \in 1..n, stack[k] = y PROVE FALSE
    OBVIOUS
  <2>1. CASE k = 1
    <3>1. y = Root
      BY <2>1 DEF Path
    <3> QED
      BY <1>3, <3>1 DEF Linked
  <2>2. CASE k # 1
    <3>1. k \in 1..Len(stack) /\ k > 1
      BY <1>1, <2>2 DEF n
    <3>2. stack[k - 1] \in Dirs /\ stack[k - 1] # d /\ Child(dirs, stack[k - 1], y)
      BY <3>1, PathSteps DEF d
    <3>3. PICK j \in ValidAt(dirs[stack[k - 1]].items) : dirs[stack[k - 1]].items[j].sub = y
      BY <3>2 DEF Child
    <3>4. <<stack[k - 1], j>> \in Pairs(dirs, Dirs) /\ At(dirs, <<stack[k - 1], j>>).sub = y
      BY <3>2, <3>3 DEF Pairs, At
    <3>5. <<stack[k - 1], j>> = <<d, i>>
      BY <1>2, <1>3, <3>4 DEF Linked
    <3> QED
      BY <3>2, <3>5
  <2> QED
    BY <2>1, <2>2
<1>7. /\ st \in Seq(Dirs) /\ st # <<>> /\ Len(st) = n + 1
      /\ \A k \in 1..n : st[k] = stack[k]
      /\ st[n + 1] = y
  BY <1>1, <1>2, AppendProperties DEF st, n
<1>8. /\ \A k \in 1..(n + 1) : k \in 1..n \/ k = n + 1
      /\ \A k \in 1..n : k > 1 => k - 1 \in 1..n
      /\ n \in 1..n /\ 1 \in 1..n /\ (n + 1) - 1 = n
  BY <1>1
<1>9. st[1] = Root
  BY <1>7, <1>8 DEF Path
<1>10. \A k \in 1..(n + 1) : k > 1 => Child(dirs, st[k - 1], st[k])
  <2> SUFFICES ASSUME NEW k \in 1..(n + 1), k > 1 PROVE Child(dirs, st[k - 1], st[k])
    OBVIOUS
  <2>1. CASE k \in 1..n
    BY <1>7, <1>8, <2>1 DEF Path, n
  <2>2. CASE k = n + 1
    BY <1>1, <1>5, <1>7, <1>8, <2>2
  <2> QED
    BY <1>8, <2>1, <2>2
<1>11. \A k, l \in 1..(n + 1) : st[k] = st[l] => k = l
  BY <1>6, <1>7, <1>8 DEF Path, n
<1>12. Path(dirs, st)
  BY <1>7, <1>9, <1>10, <1>11 DEF Path
<1> QED
  BY <1>7, <1>12 DEF st, y, d, n

LEMMA PathLeave ==
    ASSUME NEW dirs, NEW stack, Path(dirs, stack), Len(stack) # 1
    PROVE  Path(dirs, Front(stack)) /\ Len(Front(stack)) = Len(stack) - 1
<1> DEFINE n == Len(stack)
           m == n - 1
           st == Front(stack)
<1>1. stack \in Seq(Dirs) /\ n \in Nat /\ n # 0
  <2>1. stack \in Seq(Dirs) /\ stack # <<>>
    BY DEF Path
  <2> QED
    BY <2>1, LenProperties, EmptySeq
<1>2. m \in Nat /\ m # 0 /\ m <= n
  BY <1>1
<1>3. st = SubSeq(stack, 1, m)
  BY DEF Front
<1> HIDE DEF st, n
<1>5. /\ 1 \in 1..m /\ 1..m \subseteq 1..n /\ \A k \in 1..m : k > 1 => k - 1 \in 1..m
      /\ 1 \in Int /\ m \in Int /\ 1 <= m /\ m - 1 + 1 = m
      /\ \A k \in 1..m : 1 + k - 1 = k
  BY <1>1, <1>2
<1> HIDE DEF m
<1>4. st \in Seq(Dirs) /\ Len(st) = m /\ \A k \in 1..m : st[k] = stack[k]
  <2>1. \A k \in 1..n : stack[k] \in Dirs
    BY <1>1, ElementOfSeq DEF n
  <2>2. \A k \in 1..m : stack[k] \in Dirs
    BY <1>5, <2>1
  <2> QED
    BY <1>3, <1>5, <2>2, SubSeqProperties
<1>6. st # <<>> /\ st[1] = Root
  BY <1>2, <1>4, <1>5 DEF Path
<1>7. \A k \in 1..m : k > 1 => Child(dirs, st[k - 1], st[k])
  BY <1>4, <1>5 DEF Path, n
<1>8. \A k, l \in 1..m : st[k] = st[l] => k = l
  <2> SUFFICES ASSUME NEW k \in 1..m, NEW l \in 1..m, st[k] = st[l] PROVE k = l
    OBVIOUS
  <2>1. stack[k] = stack[l] /\ k \in 1..n /\ l \in 1..n
    BY <1>4, <1>5
  <2>2. \A i, j \in 1..n : stack[i] = stack[j] => i = j
    BY DEF Path, n
  <2> QED
    BY <2>1, <2>2
<1>9. Path(dirs, st)
  BY <1>4, <1>6, <1>7, <1>8 DEF Path
<1> QED
  BY <1>4, <1>9 DEF st, m, n

\* What load_boards puts on the screen.
Lists(n) == n \in Seq([type : Types, id : FavBoards \cup (Nat \ {0})])

LEMMA ListedIs == ASSUME NEW f, Sound(f), Unwrapped(f) PROVE Lists(Listed(f))
<1> DEFINE v == Valid(f.items)
           L == [type : Types, id : FavBoards \cup (Nat \ {0})]
           P(k) == [type |-> v[k].type, id |-> v[k].id]
<1>1. ListsValid(f.items) /\ ListsAll(f)
  BY ValidEntries
<1>2. DOMAIN v = 1..Len(v) /\ Len(v) \in Nat
  BY <1>1 DEF ListsValid
<1>3. \A k \in 1..Len(v) : v[k] \in Entry /\ Proper(v[k]) /\ v[k].fav
  BY <1>1 DEF ListsAll
<1>7. \A k \in 1..Len(v) : v[k].type = "board" \/ v[k].id >= 1
  BY <1>1 DEF ListsAll, Unwrapped, NumberedAt
<1> HIDE DEF v
<1>4. \A k \in 1..Len(v) : P(k) \in L
  <2> SUFFICES ASSUME NEW k \in 1..Len(v)
               PROVE  v[k].type \in Types /\ v[k].id \in FavBoards \cup (Nat \ {0})
    OBVIOUS
  <2>1. v[k].type \in Types
    BY <1>3 DEF Entry
  <2>2. IF v[k].type = "board" THEN v[k].id \in FavBoards ELSE v[k].id \in Nat \ {0}
    BY <1>3, <1>7 DEF Proper
  <2> QED
    BY <2>1, <2>2
<1>5. Listed(f) = [k \in 1..Len(v) |-> P(k)]
  BY <1>2 DEF Listed, v
<1> HIDE DEF P, L
<1>6. [k \in 1..Len(v) |-> P(k)] \in Seq(L)
  BY <1>2, <1>4, IsASeq
<1> QED
  BY <1>5, <1>6 DEF Lists, L

-----------------------------------------------------------------------------
(* The counts after each command                                           *)

LEMMA FavRemoveSmall ==
    ASSUME NEW s, Whole(s), AllSmall(s.dirs), NEW stack, Path(s.dirs, stack),
           NEW i \in ValidAt(s.dirs[Last(stack)].items)
    PROVE  AllSmall(Forget(FavRemove(s, Last(stack), i)).dirs)
<1> DEFINE d == Last(stack)
           f == s.dirs[d]
           g == Removed(f, {i}, FALSE)
           n == s.number - 1
           t == FavRemove(s, d, i)
<1>1. s \in AllTables /\ AllSound(s.dirs)
  BY DEF Whole
<1>2. d \in Dirs /\ Sound(f) /\ Small(f) /\ i \in DOMAIN f.items
  BY <1>1, PathBelow DEF AllSound, AllSmall, ValidAt
<1>3. t \in AllTables
  BY FavRemoveIs
<1>4. t = [With(s, d, g) EXCEPT !.number = n]
  BY DEF FavRemove
<1>5. Small(g)
  <2> DEFINE P == {i}
  <2>1. PICK m : m = FALSE
    OBVIOUS
  <2>2. P \subseteq DOMAIN f.items /\ g = Removed(f, P, m)
    BY <1>2, <2>1
  <2> HIDE DEF f, g, P
  <2> QED
    BY <1>2, <2>2, RemovedSmall
<1> HIDE DEF d, f, g, n, t
<1>6. AllSmall(t.dirs)
  BY <1>1, <1>2, <1>4, <1>5, WithSmall
<1>7. AllSmall(Forget(t).dirs)
  BY <1>3, <1>6, ForgetSmall
<1> QED
  BY <1>7 DEF t, d

LEMMA DeleteSweptSmall ==
    ASSUME NEW s, Whole(s), AllSmall(s.dirs), Path(s.dirs, fav_stack)
    PROVE  AllSmall(Forget(DeleteSwept(s)).dirs)
<1> DEFINE taken == Taken(s.dirs, Dirs)
           a == [d \in Dirs |-> Swept(s.dirs, d, taken, FALSE)]
           n == s.number - Cardinality(taken)
           b == s.dirty \/ Tagged(s.dirs)
           t == DeleteSwept(s)
<1>1. s \in AllTables /\ AllSound(s.dirs)
  BY DEF Whole
<1>2. t \in AllTables
  BY DeleteTaggedFollows
<1>3. t = [s EXCEPT !.dirs = a, !.number = n, !.dirty = b]
  BY DEF DeleteSwept
<1>4. AllSmall(a)
  <2> HIDE DEF taken
  <2>1. \A d \in Dirs : Small(Swept(s.dirs, d, taken, FALSE))
    BY <1>1, SweptSmall DEF AllSmall
  <2> QED
    BY <2>1 DEF AllSmall
<1> HIDE DEF a, n, b, t
<1>5. t.dirs = a
  <2>1. t = Tbl(a, n, b, s.leaked)
    BY <1>1, <1>3, DirsNumberDirty
  <2> QED
    BY <2>1 DEF Tbl
<1>6. AllSmall(Forget(t).dirs)
  BY <1>2, <1>4, <1>5, ForgetSmall
<1> QED
  BY <1>6 DEF t

LEMMA UntaggedSmall ==
    ASSUME NEW s, Whole(s), AllSmall(s.dirs), NEW b
    PROVE  AllSmall([s EXCEPT !.dirs = Untagged(s.dirs), !.dirty = b].dirs)
<1> DEFINE a == Untagged(s.dirs)
<1>1. s \in AllTables /\ AllSound(s.dirs)
  BY DEF Whole
<1>2. AllSmall(a)
  <2>1. \A d \in Dirs : Small(TagSet(s.dirs[d], TaggedAt(s.dirs[d]), FALSE))
    BY <1>1, TagSetSmall DEF AllSound, AllSmall
  <2> QED
    BY <2>1 DEF AllSmall, Untagged
<1> HIDE DEF a
<1>3. [s EXCEPT !.dirs = a, !.dirty = b].dirs = a
  <2>1. [s EXCEPT !.dirs = a, !.dirty = b] = Tbl(a, s.number, b, s.leaked)
    BY <1>1, DirsDirty
  <2> QED
    BY <2>1 DEF Tbl
<1> QED
  BY <1>2, <1>3 DEF a

LEMMA PreappendSmall ==
    ASSUME NEW s, Whole(s), AllSmall(s.dirs), NEW d \in Dirs, NEW e \in Entry, Proper(e), e.fav,
           Fits(s.dirs[d], <<e>>)
    PROVE  AllSmall(Preappend(s, d, e).dirs)
<1> DEFINE f == s.dirs[d]
           g == Extended(f, <<e>>, {"board"})
           n == s.number + 1
           t == Preappend(s, d, e)
<1>1. s \in AllTables /\ Sound(f)
  BY DEF Whole, AllSound
<1>2. t = [With(s, d, g) EXCEPT !.number = n]
  BY DEF Preappend
<1>3. Small(g)
  <2> DEFINE es == <<e>>
             keep == {"board"}
  <2>1. Flagged(es) /\ Fits(f, es) /\ "board" \in keep /\ g = Extended(f, es, keep)
    BY DEF Flagged
  <2> HIDE DEF f, g, es, keep
  <2> QED
    BY <1>1, <2>1, ExtendedIs
<1> HIDE DEF g, n, t
<1>4. AllSmall(t.dirs)
  BY <1>1, <1>2, <1>3, WithSmall
<1> QED
  BY <1>4 DEF t

\* Entries are where they were, or have another place.
LEMMA MoveInHas ==
    ASSUME NEW s \in AllTables, NEW d \in Dirs, NEW src, NEW dst,
           NEW f, f = s.dirs[d], NEW g, g = MoveIn(s, d, src, dst).dirs[d], NEW i \in ValidAt(f.items)
    PROVE  \E j \in ValidAt(g.items) : g.items[j] = f.items[i]
<1> DEFINE a == Place(f.items, src)
           b == Place(f.items, dst)
           h == Shifted(f, a, b)
           t == MoveIn(s, d, src, dst)
<1>1. f \in Folder /\ f.items \in Seq(Entry) /\ DOMAIN f.items = 1..Len(f.items)
  <2>1. f \in Folder
    BY DEF AllTables
  <2>2. f.items \in Seq(Entry)
    BY <2>1 DEF Folder
  <2> QED
    BY <2>1, <2>2, LenProperties
<1>2. CASE src = dst \/ a = 0 \/ b = 0
  <2>1. t = s \/ t = [s EXCEPT !.dirty = TRUE]
    BY <1>2 DEF MoveIn
  <2>2. [s EXCEPT !.dirty = TRUE].dirs = s.dirs
    BY DEF AllTables
  <2> QED
    BY <2>1, <2>2
<1>3. CASE ~ (src = dst \/ a = 0 \/ b = 0)
  <2>1. a \in 1..Len(f.items) /\ b \in 1..Len(f.items)
    BY <1>1, <1>3, PlaceIs DEF ValidAt
  <2>2. t = With(s, d, h)
    BY <1>3 DEF MoveIn
  <2> HIDE DEF a, b
  <2>3. PICK p : Reordered(f, h, p)
    BY <1>1, <2>1, ShiftedIs
  <2> HIDE DEF h, t
  <2>4. g = h
    <3> DEFINE dirs == [s.dirs EXCEPT ![d] = h]
    <3>1. t = [s EXCEPT !.dirs = dirs, !.dirty = TRUE]
      BY <2>2 DEF With
    <3>2. dirs[d] = h
      BY DEF AllTables
    <3> HIDE DEF dirs
    <3>3. t = Tbl(dirs, s.number, TRUE, s.leaked)
      BY <3>1, DirsDirty
    <3> QED
      BY <3>2, <3>3 DEF Tbl, t
  <2> DEFINE n == Len(f.items)
             k == [x \in 1..n |-> f.items[p[x]]]
  <2>5. PICK j \in 1..n : p[j] = i
    BY <1>1, <2>3 DEF Reordered, ValidAt
  <2>6. h = [f EXCEPT !.items = k]
    BY <2>3 DEF Reordered
  <2>7. k[j] = f.items[i] /\ j \in DOMAIN k
    BY <2>5
  <2> HIDE DEF k
  <2>8. h.items = k
    BY <1>1, <2>6 DEF Folder
  <2> QED
    BY <2>4, <2>7, <2>8 DEF ValidAt
<1> QED
  BY <1>2, <1>3

-----------------------------------------------------------------------------
(* The state between two commands                                          *)

\* The list is on the screen: the user is on a path from the outermost folder,
\* and what he sees is in the file unless dirty is set.
OnScreen ==
    /\ Path(fav_t, fav_stack) /\ Len(fav_stack) <= FAV_MAXDEPTH
    /\ dirty \/ Kept(fav_file) = Seen(fav_t)

Good ==
    /\ Lists(nbrd) /\ missed \in 0..MaxMissed
    /\ Whole(Tables) /\ Tidy(fav_t) /\ AllSmall(fav_t)
    /\ FileOK(fav_file) /\ FileOK(user_fav_bak)
    /\ IF Listing THEN OnScreen ELSE nbrd = <<>> /\ missed = 0

FavInv == Good /\ saving \in BOOLEAN

LEMMA TablesNext ==
    ASSUME NEW t \in AllTables, SetTables(t)
    PROVE  Tables' = t /\ fav_t' = t.dirs /\ dirty' = t.dirty
<1>1. t = [dirs |-> t.dirs, number |-> t.number, dirty |-> t.dirty, leaked |-> t.leaked]
  BY TablesAre DEF Tbl
<1> QED
  BY <1>1 DEF SetTables, Tables

\* After the process ended.
LEMMA EndKeeps ==
    ASSUME End, FileOK(fav_file'), FileOK(user_fav_bak') PROVE Good'
<1>1. NoTables = [dirs |-> [d \in Dirs |-> NewFolder], number |-> 0, dirty |-> FALSE, leaked |-> 0]
  BY DEF NoTables
<1> DEFINE N == [d \in Dirs |-> NewFolder]
<1>2. AllSound(N) /\ AllSmall(N) /\ Linked(N) /\ Tidy(N) /\ Cardinality(Pairs(N, Dirs)) = 0
  BY NoneIs
<1>3. NoTables.dirs = N /\ NoTables.number = 0 /\ NoTables.dirty = FALSE /\ NoTables.leaked = 0
  BY <1>1
<1>4. N \in [Dirs -> Folder]
  BY <1>2 DEF AllSound
<1> HIDE DEF N
<1>5. NoTables \in AllTables
  BY <1>1, <1>4 DEF AllTables, N
<1>6. Whole(NoTables) /\ Tidy(NoTables.dirs) /\ AllSmall(NoTables.dirs)
  BY <1>2, <1>3, <1>5 DEF Whole
<1>7. Tables' = NoTables /\ fav_t' = NoTables.dirs
  BY <1>5, TablesNext DEF End
<1>8. Lists(<<>>) /\ MaxMissed \in Nat
  BY EmptySeq, FavAssumption DEF Lists
<1>9. fav_stack' = <<>> /\ nbrd' = <<>> /\ missed' = 0
  BY DEF End
<1> QED
  BY <1>6, <1>7, <1>8, <1>9 DEF Good, Listing

\* The list of the folder on top of the stack is shown.
Shows(t, stack) == Listable(t.dirs[Last(stack)]) /\ Unwrapped(t.dirs[Last(stack)])

\* After a command that loads the list again.
LEMMA ShowKeeps ==
    ASSUME NEW t, NEW stack, NEW m, Show(t, stack, m), m \in 0..MaxMissed,
           Len(stack) <= FAV_MAXDEPTH, FileOK(fav_file'), FileOK(user_fav_bak'),
           Shows(t, stack) => /\ Whole(t) /\ Tidy(t.dirs) /\ AllSmall(t.dirs) /\ Path(t.dirs, stack)
                              /\ t.dirty \/ Kept(fav_file') = Seen(t.dirs)
    PROVE  Good'
<1>1. CASE End
  BY <1>1, EndKeeps
<1>2. CASE ~ End
  <2>1. /\ Shows(t, stack) /\ SetTables(t)
        /\ fav_stack' = stack /\ nbrd' = Listed(t.dirs[Last(stack)]) /\ missed' = m
    BY <1>2 DEF Show, Shows
  <2>2. /\ Whole(t) /\ Tidy(t.dirs) /\ AllSmall(t.dirs) /\ Path(t.dirs, stack)
        /\ t.dirty \/ Kept(fav_file') = Seen(t.dirs)
    BY <2>1
  <2>3. t \in AllTables /\ AllSound(t.dirs)
    BY <2>2 DEF Whole
  <2>4. Tables' = t /\ fav_t' = t.dirs /\ dirty' = t.dirty
    BY <2>1, <2>3, TablesNext
  <2>5. Last(stack) \in Dirs
    BY <2>2, <2>3, PathBelow
  <2>6. Lists(nbrd')
    BY <2>1, <2>3, <2>5, ListedIs DEF AllSound, Shows
  <2>7. stack # <<>>
    BY <2>2 DEF Path
  <2>8. OnScreen'
    BY <2>1, <2>2, <2>4 DEF OnScreen
  <2>9. Listing'
    BY <2>1, <2>7 DEF Listing
  <2> QED
    BY <2>1, <2>2, <2>4, <2>6, <2>8, <2>9 DEF Good
<1> QED
  BY <1>1, <1>2

\* After a command that changes the tables alone.
LEMMA ChangeKeeps ==
    ASSUME Good, Listing, NEW t, Change(t),
           Shows(t, fav_stack) => Follows(Tables, t, fav_stack) /\ AllSmall(t.dirs)
    PROVE  Good'
<1>1. /\ FileOK(fav_file) /\ FileOK(user_fav_bak) /\ missed \in 0..MaxMissed
      /\ Len(fav_stack) <= FAV_MAXDEPTH
      /\ dirty \/ Kept(fav_file) = Seen(fav_t)
  BY DEF Good, OnScreen
<1>2. /\ Show(t, fav_stack, missed)
      /\ fav_file' = fav_file /\ user_fav_bak' = user_fav_bak
  BY DEF Change
<1>3. ASSUME Shows(t, fav_stack)
      PROVE  /\ Whole(t) /\ Tidy(t.dirs) /\ AllSmall(t.dirs) /\ Path(t.dirs, fav_stack)
             /\ t.dirty \/ Kept(fav_file') = Seen(t.dirs)
  BY <1>1, <1>2, <1>3 DEF Follows, Tables
<1> QED
  BY <1>1, <1>2, <1>3, ShowKeeps

-----------------------------------------------------------------------------
(* The commands                                                            *)

LEMMA Ready ==
    ASSUME Good, Listing
    PROVE  /\ Whole(Tables) /\ Tidy(Tables.dirs) /\ Path(Tables.dirs, fav_stack)
           /\ Tables.dirs = fav_t /\ Tables.number = fav_number
           /\ Tables.dirty = dirty /\ Tables.leaked = leaked
           /\ AllSound(fav_t) /\ Current \in Dirs /\ Current \in Below(fav_t, Root)
           /\ Sound(fav_t[Current]) /\ Here \in Seq(Entry)
           /\ AllSmall(Tables.dirs) /\ Small(fav_t[Current])
<1>1. Whole(Tables) /\ Tidy(fav_t) /\ AllSmall(fav_t) /\ Path(fav_t, fav_stack)
  BY DEF Good, OnScreen
<1>2. /\ Tables.dirs = fav_t /\ Tables.number = fav_number
      /\ Tables.dirty = dirty /\ Tables.leaked = leaked
  BY DEF Tables
<1>3. AllSound(fav_t)
  BY <1>1, <1>2 DEF Whole
<1>4. Current \in Dirs /\ Current \in Below(fav_t, Root)
  BY <1>1, <1>3, PathBelow DEF Current
<1>5. Sound(fav_t[Current])
  BY <1>3, <1>4 DEF AllSound
<1>6. Here \in Seq(Entry)
  BY <1>5, SoundParts DEF Here
<1>7. Small(fav_t[Current])
  BY <1>1, <1>4 DEF AllSmall
<1> QED
  BY <1>1, <1>2, <1>3, <1>4, <1>5, <1>6, <1>7

\* The entry that get_fav_item finds.
LEMMA FoundIs ==
    ASSUME Good, Listing, NEW type, NEW id, NEW i, i = get_fav_item(Here, type, id), i # 0
    PROVE  i \in ValidAt(Here) /\ Here[i].type = type /\ Here[i].id = id
<1>1. Here \in Seq(Entry)
  BY Ready
<1> QED
  BY <1>1, GetFavItemIs

\* A new entry.
Fresh(e, sub) == e \in Entry /\ Proper(e) /\ e.fav /\ e.sub = sub

LEMMA NewEntryIs ==
    ASSUME NEW type \in Types, NEW id, NEW sub \in Dirs \cup {NoDir},
           type = "folder" <=> sub \in Dirs,
           IF type = "board" THEN id \in FavBoards ELSE id \in Int
    PROVE  Fresh(NewEntry(type, id, sub), sub)
<1> DEFINE e == [type |-> type, fav |-> TRUE, tag |-> FALSE, id |-> id, sub |-> sub]
<1>1. NewEntry(type, id, sub) = e
  BY DEF NewEntry
<1>2. e.type = type /\ e.fav = TRUE /\ e.tag = FALSE /\ e.id = id /\ e.sub = sub
  OBVIOUS
<1>3. id \in FavBoards \cup Int \cup {Gone}
  OBVIOUS
<1>4. e \in Entry
  BY <1>3 DEF Entry
<1> HIDE DEF e
<1>5. Proper(e)
  BY <1>2, <1>4 DEF Proper
<1> QED
  BY <1>1, <1>2, <1>4, <1>5 DEF Fresh

LEMMA NewFollows ==
    ASSUME Good, Listing, NEW e, NEW sub, Fresh(e, sub), sub \in Dirs => sub \notin Below(fav_t, Root),
           Fits(fav_t[Current], <<e>>)
    PROVE  /\ Follows(Tables, Preappend(Tables, Current, e), fav_stack)
           /\ AllSmall(Preappend(Tables, Current, e).dirs)
<1>1. /\ Whole(Tables) /\ Tidy(Tables.dirs) /\ Path(Tables.dirs, fav_stack) /\ Tables.dirs = fav_t
      /\ AllSmall(Tables.dirs) /\ Last(fav_stack) \in Dirs
  BY Ready DEF Current
<1>2. e \in Entry /\ Proper(e) /\ e.fav /\ e.sub = sub
  BY DEF Fresh
<1> DEFINE t == Preappend(Tables, Last(fav_stack), e)
           s == Tables
<1> HIDE DEF s
<1>3. /\ Whole(s) /\ Tidy(s.dirs) /\ Path(s.dirs, fav_stack) /\ AllSmall(s.dirs)
      /\ Fits(s.dirs[Last(fav_stack)], <<e>>)
  BY <1>1 DEF s, Current
<1>4. e.sub \in Dirs => e.sub \notin Below(s.dirs, Root)
  BY <1>1, <1>2 DEF s
<1>5. t = Preappend(s, Last(fav_stack), e)
  BY DEF s
<1> HIDE DEF t
<1>6. Follows(s, t, fav_stack)
  BY <1>2, <1>3, <1>4, <1>5, PreappendIs
<1>7. AllSmall(t.dirs)
  BY <1>1, <1>2, <1>3, <1>5, PreappendSmall
<1> QED
  BY <1>6, <1>7 DEF s, t, Current

LEMMA InsertFollows ==
    ASSUME NEW r, Follows(Tables, r, fav_stack), AllSmall(r.dirs), NEW k
    PROVE  Follows(Tables, Insert_(r, k), fav_stack) /\ AllSmall(Insert_(r, k).dirs)
<1>1. Whole(r) /\ Tidy(r.dirs) /\ Path(r.dirs, fav_stack)
  BY DEF Follows
<1>4. AllSmall(MoveIn(r, Last(fav_stack), Len(nbrd), k - 1).dirs)
  BY <1>1, PathBelow, MoveInSmall DEF Whole
<1>2. Follows(r, MoveIn(r, Last(fav_stack), Len(nbrd), k - 1), fav_stack)
  BY <1>1, MoveInIs
<1>3. Follows(Tables, MoveIn(r, Last(fav_stack), Len(nbrd), k - 1), fav_stack)
  BY <1>2, FollowsNext
<1> QED
  BY <1>3, <1>4 DEF Insert_, Current

\* The removal of the entry i of the current folder.
LEMMA RemoveFollows ==
    ASSUME Good, Listing, NEW i \in ValidAt(Here)
    PROVE  /\ Follows(Tables, Forget(FavRemove(Tables, Current, i)), fav_stack)
           /\ AllSmall(Forget(FavRemove(Tables, Current, i)).dirs)
<1>1. /\ Whole(Tables) /\ Path(Tables.dirs, fav_stack) /\ Tables.dirs = fav_t
      /\ AllSmall(Tables.dirs)
  BY Ready
<1>2. i \in ValidAt(Tables.dirs[Last(fav_stack)].items)
  BY <1>1 DEF Here, Current
<1> QED
  BY <1>1, <1>2, FavRemoveIs, FavRemoveSmall DEF Current

LEMMA ItselfFollows ==
    ASSUME Good, Listing
    PROVE  Follows(Tables, Tables, fav_stack) /\ AllSmall(Tables.dirs)
<1>1. /\ Whole(Tables) /\ Tidy(Tables.dirs) /\ Path(Tables.dirs, fav_stack)
      /\ AllSmall(Tables.dirs)
  BY Ready
<1> QED
  BY <1>1, FollowsItself

LEMMA RefreshKeeps == ASSUME Good, Refresh PROVE Good'
<1>1. Listing /\ Change(Tables)
  BY DEF Refresh
<1> QED
  BY <1>1, ItselfFollows, ChangeKeeps

\* One more of a type.
LEMMA OneFits ==
    ASSUME NEW f, Sound(f), NEW e \in Entry,
           e.type = "line" => f.n["line"] + 1 <= CHAR_MAX,
           e.type = "folder" => f.n["folder"] + 1 <= CHAR_MAX /\ f.last["folder"] + 1 <= CHAR_MAX,
           Small(f)
    PROVE  Fits(f, <<e>>)
<1> DEFINE es == <<e>>
<1>1. Len(es) = 1 /\ es[1] = e
  OBVIOUS
<1> HIDE DEF es
<1>2. ASSUME NEW t PROVE OfType(es, t, 1) = IF e.type = t THEN 1 ELSE 0
  <2> DEFINE J == {j \in 1..1 : es[j].type = t}
  <2>1. CASE e.type = t
    <3>1. J = {1}
      BY <1>1, <2>1
    <3> QED
      BY <2>1, <3>1, FS_Singleton DEF OfType
  <2>2. CASE e.type # t
    <3>1. J = {}
      BY <1>1, <2>2
    <3> QED
      BY <2>2, <3>1, FS_EmptySet DEF OfType
  <2> QED
    BY <2>1, <2>2
<1>3. /\ f.n["line"] \in Int /\ f.n["folder"] \in Int /\ f.last["folder"] \in Int
      /\ CHAR_MAX \in Int
  <2>1. f.n \in [Types -> Int] /\ f.last["folder"] \in Nat
    BY SoundParts
  <2>2. CHAR_MAX \in Nat
    BY FavAssumption
  <2> QED
    BY <2>1, <2>2 DEF Types
<1> QED
  BY <1>1, <1>2, <1>3 DEF Fits, Small, es

LEMMA BoardFits ==
    ASSUME Good, Listing, NEW b \in FavBoards
    PROVE  /\ Fresh(NewEntry("board", b, NoDir), NoDir)
           /\ Fits(fav_t[Current], <<NewEntry("board", b, NoDir)>>)
<1> DEFINE e == NewEntry("board", b, NoDir)
<1>1. Fresh(e, NoDir)
  BY FavAssumption, NewEntryIs DEF Types
<1>2. e.type = "board"
  BY DEF NewEntry
<1> HIDE DEF e
<1>3. Fits(fav_t[Current], <<e>>)
  BY <1>1, <1>2, Ready, OneFits DEF Fresh
<1> QED
  BY <1>1, <1>3 DEF e

LEMMA ToggleKeeps == ASSUME Good, NEW b \in FavBoards, ToggleBoard(b) PROVE Good'
<1> DEFINE i == get_fav_item(Here, "board", b)
           t == Forget(FavRemove(Tables, Current, i))
           e == NewEntry("board", b, NoDir)
           u == Preappend(Tables, Current, e)
<1>1. /\ Listing
      /\ IF i # 0 THEN Change(t) ELSE Room /\ Change(u)
  BY DEF ToggleBoard
<1> HIDE DEF i
<1>2. CASE i # 0
  <2>1. i \in ValidAt(Here)
    BY <1>1, <1>2, FoundIs DEF i
  <2>2. Follows(Tables, t, fav_stack) /\ AllSmall(t.dirs)
    BY <1>1, <2>1, RemoveFollows
  <2>3. Change(t)
    BY <1>1, <1>2
  <2> HIDE DEF t
  <2> QED
    BY <1>1, <2>2, <2>3, ChangeKeeps
<1>3. CASE i = 0
  <2>1. Fresh(e, NoDir) /\ Fits(fav_t[Current], <<e>>)
    BY <1>1, BoardFits
  <2>2. Follows(Tables, u, fav_stack) /\ AllSmall(u.dirs)
    <3> HIDE DEF e
    <3> QED
      BY <1>1, <2>1, FavAssumption, NewFollows
  <2>3. Change(u)
    BY <1>1, <1>3
  <2> HIDE DEF u
  <2> QED
    BY <1>1, <2>2, <2>3, ChangeKeeps
<1> QED
  BY <1>2, <1>3

\* A new entry that goes to where the cursor is.
LEMMA PutKeeps ==
    ASSUME Good, Listing, NEW e, NEW sub, Fresh(e, sub),
           sub \in Dirs => sub \notin Below(fav_t, Root), NEW k,
           NEW t, t = Insert_(Preappend(Tables, Current, e), k), Change(t),
           Shows(t, fav_stack) => Fits(fav_t[Current], <<e>>)
    PROVE  Good'
<1> DEFINE u == Preappend(Tables, Current, e)
<1>1. ASSUME Shows(t, fav_stack) PROVE Follows(Tables, u, fav_stack) /\ AllSmall(u.dirs)
  BY <1>1, NewFollows
<1>2. t = Insert_(u, k)
  OBVIOUS
<1> HIDE DEF u
<1>3. ASSUME Shows(t, fav_stack) PROVE Follows(Tables, t, fav_stack) /\ AllSmall(t.dirs)
  BY <1>1, <1>2, <1>3, InsertFollows
<1> QED
  BY <1>3, ChangeKeeps

LEMMA InsertKeeps == ASSUME Good, NEW b \in FavBoards, NEW k, InsertBoard(b, k) PROVE Good'
<1> DEFINE e == NewEntry("board", b, NoDir)
           t == Insert_(Preappend(Tables, Current, e), k)
<1>1. Listing /\ Change(t)
  BY DEF InsertBoard, Room
<1>2. Fresh(e, NoDir) /\ Fits(fav_t[Current], <<e>>)
  BY <1>1, BoardFits
<1>3. t = Insert_(Preappend(Tables, Current, e), k)
  OBVIOUS
<1> HIDE DEF e, t
<1> QED
  BY <1>1, <1>2, <1>3, FavAssumption, PutKeeps

LEMMA AddLineKeeps == ASSUME Good, NEW k, AddLine(k) PROVE Good'
<1> DEFINE e == NewEntry("line", 0, NoDir)
           t == Insert_(Preappend(Tables, Current, e), k)
<1>1. Listing /\ Change(t) /\ fav_t[Current].n["line"] < MAX_LINE
  BY DEF AddLine, Room
<1>2. Fresh(e, NoDir)
  BY FavAssumption, NewEntryIs DEF Types
<1>3. e.type = "line" /\ t = Insert_(Preappend(Tables, Current, e), k)
  BY DEF NewEntry
<1> HIDE DEF e, t
<1>4. Sound(fav_t[Current]) /\ Small(fav_t[Current])
  BY <1>1, Ready
<1>5. fav_t[Current].n["line"] + 1 <= CHAR_MAX
  <2>1. fav_t[Current].n["line"] \in Int
    BY <1>4, SoundParts DEF Types
  <2> QED
    BY <1>1, <2>1, FavAssumption
<1>6. Fits(fav_t[Current], <<e>>)
  BY <1>2, <1>3, <1>4, <1>5, OneFits DEF Fresh
<1> QED
  BY <1>1, <1>2, <1>3, <1>6, FavAssumption, PutKeeps

\* If the list with the new folder is shown, its number has not wrapped.
LEMMA FolderFits ==
    ASSUME Good, Listing, NEW e, NEW sub, Fresh(e, sub), e.type = "folder", NEW k,
           NEW t, t = Insert_(Preappend(Tables, Current, e), k), Shows(t, fav_stack)
    PROVE  fav_t[Current].last["folder"] + 1 <= CHAR_MAX
<1> DEFINE s == Tables
           d == Current
           f == s.dirs[d]
           es == <<e>>
           keep == {"board"}
           g == Extended(f, es, keep)
           u == Preappend(s, d, e)
           h == t.dirs[d]
<1>1. /\ s \in AllTables /\ f = fav_t[d] /\ Sound(f) /\ Small(f) /\ d \in Dirs
      /\ t = Insert_(u, k) /\ d = Last(fav_stack)
  BY Ready DEF Whole, Current
<1>2. Flagged(es) /\ Len(es) = 1 /\ es[1] = e /\ "board" \in keep /\ "folder" \notin keep
  BY DEF Fresh, Flagged
<1>3. u = [With(s, d, g) EXCEPT !.number = s.number + 1]
  BY DEF Preappend
<1> HIDE DEF s, d, f, es, keep, g, u, h
<1>4. g \in Folder
  BY <1>1, <1>2, ExtendedParts DEF g
<1>5. u \in AllTables /\ u.dirs[d] = g
  <2> DEFINE a == [s.dirs EXCEPT ![d] = g]
             n == s.number + 1
  <2>1. a \in [Dirs -> Folder] /\ a[d] = g /\ n \in Nat
    BY <1>1, <1>4 DEF AllTables
  <2>2. With(s, d, g) = [s EXCEPT !.dirs = a, !.dirty = TRUE]
    BY DEF With
  <2>3. u = [With(s, d, g) EXCEPT !.number = n]
    BY <1>3
  <2> HIDE DEF a, n
  <2>4. With(s, d, g) = Tbl(a, s.number, TRUE, s.leaked)
    BY <1>1, <2>2, DirsDirty
  <2> DEFINE r == With(s, d, g)
  <2>5. r \in AllTables /\ r.dirs = a
    BY <1>1, <2>1, <2>4 DEF AllTables, Tbl
  <2> HIDE DEF r
  <2>6. u = [r EXCEPT !.number = n]
    BY <2>3 DEF r
  <2>7. u \in AllTables /\ u.dirs = r.dirs
    BY <2>1, <2>5, <2>6, NumberIs
  <2> QED
    BY <2>1, <2>5, <2>7
<1>6. \A i \in ValidAt(g.items) : \E j \in ValidAt(h.items) : h.items[j] = g.items[i]
  <2>1. CASE t = u
    BY <1>5, <2>1 DEF h
  <2>2. CASE t # u
    <3> DEFINE src == Len(nbrd)
               dst == k - 1
    <3>1. t = MoveIn(u, d, src, dst)
      BY <1>1, <2>2 DEF Insert_, d
    <3> HIDE DEF src, dst
    <3> QED
      BY <1>1, <1>5, <3>1, MoveInHas DEF h
  <2> QED
    BY <2>1, <2>2
<1>7. \A j \in ValidAt(h.items) : h.items[j].type = "board" \/ h.items[j].id >= 1
  BY <1>1 DEF Shows, Unwrapped, NumberedAt, h
<1>8. \A i \in ValidAt(g.items) : g.items[i].type = "folder" => g.items[i].id >= 1
  BY <1>6, <1>7
<1>9. f.last["folder"] + OfType(es, "folder", Len(es)) <= CHAR_MAX
  BY <1>1, <1>2, <1>8, NumbersFit DEF g
<1>10. OfType(es, "folder", Len(es)) = 1
  <2>1. {j \in 1..1 : es[j].type = "folder"} = {1}
    BY <1>2
  <2> QED
    BY <1>2, <2>1, FS_Singleton DEF OfType
<1> QED
  BY <1>1, <1>9, <1>10 DEF d

LEMMA AddFolderKeeps == ASSUME Good, NEW k, AddFolder(k) PROVE Good'
<1> DEFINE free == Dirs \ Below(fav_t, Root)
           d == CHOOSE d \in free : TRUE
           e == NewEntry("folder", 0, d)
           t == Insert_(Preappend(Tables, Current, e), k)
<1>1. Listing /\ free # {} /\ Change(t) /\ fav_t[Current].n["folder"] < MAX_FOLDER
  BY DEF AddFolder, Room
<1>2. d \in free
  BY <1>1
<1> HIDE DEF d
<1>3. Fresh(e, d)
  BY <1>2, NewEntryIs DEF Types
<1>4. e.type = "folder" /\ t = Insert_(Preappend(Tables, Current, e), k)
  BY DEF NewEntry
<1> HIDE DEF e, t
<1>5. Sound(fav_t[Current]) /\ Small(fav_t[Current])
  BY <1>1, Ready
<1>6. fav_t[Current].n["folder"] + 1 <= CHAR_MAX
  <2>1. fav_t[Current].n["folder"] \in Int
    BY <1>5, SoundParts DEF Types
  <2> QED
    BY <1>1, <2>1, FavAssumption
<1>7. ASSUME Shows(t, fav_stack) PROVE Fits(fav_t[Current], <<e>>)
  <2>1. fav_t[Current].last["folder"] + 1 <= CHAR_MAX
    BY <1>1, <1>3, <1>4, <1>7, FolderFits
  <2> QED
    BY <1>3, <1>4, <1>5, <1>6, <2>1, OneFits DEF Fresh
<1> QED
  BY <1>1, <1>2, <1>3, <1>4, <1>7, PutKeeps

LEMMA DeleteKeeps == ASSUME Good, NEW k \in Cursor, Listing, Delete(k) PROVE Good'
<1> DEFINE i == get_fav_item(Here, nbrd[k].type, nbrd[k].id)
           t == Forget(FavRemove(Tables, Current, i))
<1>1. Change(IF i = 0 THEN Tables ELSE t)
  BY DEF Delete
<1> HIDE DEF i
<1>2. CASE i = 0
  BY <1>1, <1>2, ItselfFollows, ChangeKeeps
<1>3. CASE i # 0
  <2>1. i \in ValidAt(Here)
    BY <1>3, FoundIs DEF i
  <2>2. Follows(Tables, t, fav_stack) /\ AllSmall(t.dirs)
    BY <2>1, RemoveFollows
  <2>3. Change(t)
    BY <1>1, <1>3
  <2> HIDE DEF t
  <2> QED
    BY <2>2, <2>3, ChangeKeeps
<1> QED
  BY <1>2, <1>3

LEMMA MoveEntryKeeps == ASSUME Good, Listing, NEW k, NEW l, MoveEntry(k, l) PROVE Good'
<1> DEFINE t == MoveIn(Tables, Current, k - 1, l - 1)
<1>1. Change(t)
  BY DEF MoveEntry
<1>2. /\ Whole(Tables) /\ Tidy(Tables.dirs) /\ Path(Tables.dirs, fav_stack)
      /\ AllSmall(Tables.dirs) /\ Current \in Dirs
  BY Ready
<1>3. Follows(Tables, t, fav_stack) /\ AllSmall(t.dirs)
  BY <1>2, MoveInIs, MoveInSmall DEF Current
<1> HIDE DEF t
<1> QED
  BY <1>1, <1>3, ChangeKeeps

LEMMA UntagKeeps == ASSUME Good, UntagAll PROVE Good'
<1> DEFINE t == [Tables EXCEPT !.dirs = Untagged(fav_t), !.dirty = dirty \/ Tagged(fav_t)]
<1>1. Listing /\ Change(t)
  BY DEF UntagAll, Untagged
<1>2. /\ Whole(Tables) /\ Tidy(Tables.dirs) /\ Path(Tables.dirs, fav_stack)
      /\ AllSmall(Tables.dirs)
  BY <1>1, Ready
<1>3. Tables.dirs = fav_t /\ Tables.dirty = dirty
  BY <1>1, Ready
<1> DEFINE s == Tables
           u == [s EXCEPT !.dirs = Untagged(s.dirs), !.dirty = s.dirty \/ Tagged(s.dirs)]
<1>4. u = t
  BY <1>3
<1> HIDE DEF s
<1>5. Whole(s) /\ Tidy(s.dirs) /\ Path(s.dirs, fav_stack) /\ AllSmall(s.dirs)
  BY <1>2 DEF s
<1>6. Follows(s, u, fav_stack) /\ AllSmall(u.dirs)
  BY <1>5, UntagFollows, UntaggedSmall
<1>7. Follows(Tables, t, fav_stack) /\ AllSmall(t.dirs)
  BY <1>4, <1>6 DEF s
<1> HIDE DEF t
<1> QED
  BY <1>1, <1>7, ChangeKeeps

LEMMA DeleteTaggedKeeps == ASSUME Good, DeleteTagged PROVE Good'
<1> DEFINE t == Forget(DeleteSwept(Tables))
<1>1. Listing
  BY DEF DeleteTagged
<1>2. Tables.dirs = fav_t /\ Tables.number = fav_number /\ Tables.dirty = dirty
  BY <1>1, Ready
<1>3. Change(t)
  BY <1>2 DEF DeleteTagged, DeleteSwept
<1>4. Whole(Tables) /\ Path(Tables.dirs, fav_stack) /\ AllSmall(Tables.dirs)
  BY <1>1, Ready
<1>5. Follows(Tables, t, fav_stack) /\ AllSmall(t.dirs)
  BY <1>4, DeleteTaggedFollows, DeleteSweptSmall
<1> HIDE DEF t
<1> QED
  BY <1>1, <1>3, <1>5, ChangeKeeps

\* What ^A does, unless there is no room.
MovesIn(o) ==
    LET taken == Taken(fav_t, Dirs \ {Current}) IN
    /\ o \in Orders(fav_t, taken)
    /\ Change(Forget(Added(Tables, Current, taken, o)))

LEMMA AddTaggedIs == ASSUME Good, AddTagged PROVE Listing /\ (Die \/ \E o : MovesIn(o))
<1> DEFINE taken == Taken(fav_t, Dirs \ {Current})
           dirs(o) == [d \in Dirs |->
                          IF d = Current THEN Extended(fav_t[d], Came(fav_t, o), {"board", "line"})
                          ELSE Swept(fav_t, d, taken, TRUE)]
           m(o) == [Tables EXCEPT !.dirs = dirs(o),
                                  !.dirty = dirty \/ TagsIn(fav_t, Dirs \ {Current})]
<1>1. Listing
  BY DEF AddTagged
<1>2. Tables.dirs = fav_t /\ Tables.dirty = dirty
  BY SMTT(40), <1>1, Ready
<1>3. ASSUME ~ Die PROVE \E o \in Orders(fav_t, taken) : Change(Forget(m(o)))
  BY <1>3 DEF AddTagged, Came, TagsIn
<1>4. \A o : m(o) = Added(Tables, Current, taken, o)
  BY <1>2 DEF Added
<1> QED
  BY ZenonT(60), <1>1, <1>3, <1>4 DEF MovesIn

\* If the list is shown then, no count has wrapped.
LEMMA MovesInFollows ==
    ASSUME Good, Listing, NEW o, MovesIn(o), NEW taken, taken = Taken(fav_t, Dirs \ {Current}),
           NEW t, t = Forget(Added(Tables, Current, taken, o)), Shows(t, fav_stack)
    PROVE  /\ t = Forget(AddMoved(Tables, Current, taken, o))
           /\ Follows(Tables, t, fav_stack) /\ AllSmall(t.dirs)
<1> DEFINE s == Tables
           c == Current
           q == Added(s, c, taken, o)
           r == AddMoved(s, c, taken, o)
<1>1. /\ Whole(s) /\ Tidy(s.dirs) /\ Path(s.dirs, fav_stack) /\ s.dirs = fav_t
      /\ AllSmall(s.dirs) /\ taken = Taken(s.dirs, Dirs \ {c})
  BY Ready
<1>2. o \in Orders(s.dirs, taken)
  BY <1>1 DEF MovesIn
<1>3. /\ c = Last(fav_stack) /\ t = Forget(q) /\ q = Added(s, c, taken, o)
      /\ r = AddMoved(s, c, taken, o)
  BY DEF Current
<1> HIDE DEF s, c, q, r
<1> DEFINE k == t.dirs[c]
<1>5. Listable(k) /\ Unwrapped(k) /\ k = Forget(q).dirs[c]
  BY <1>3 DEF Shows
<1> HIDE DEF k
<1>6. q = r /\ AllSmall(q.dirs)
  BY <1>1, <1>2, <1>3, <1>5, AddedIs
<1>4. Follows(s, Forget(r), fav_stack)
  BY <1>1, <1>2, <1>3, AddTaggedFollows
<1>7. r \in AllTables
  <2>1. Moves(s, r, c, taken, o)
    BY <1>1, <1>2, <1>3, AddMovedIs
  <2> QED
    BY <2>1 DEF Moves, Whole
<1>8. AllSmall(t.dirs)
  BY <1>3, <1>6, <1>7, ForgetSmall
<1> QED
  BY <1>3, <1>4, <1>6, <1>8 DEF s, c, r

LEMMA DieKeeps == ASSUME Good, Die PROVE Good'
<1>1. FileOK(fav_file) /\ FileOK(user_fav_bak)
  BY DEF Good
<1>2. End /\ fav_file' = fav_file /\ user_fav_bak' = user_fav_bak
  BY DEF Die
<1> QED
  BY <1>1, <1>2, EndKeeps

LEMMA AddTaggedKeeps == ASSUME Good, AddTagged PROVE Good'
<1>1. ASSUME NEW o, MovesIn(o), Listing PROVE Good'
  <2> DEFINE t == Forget(Added(Tables, Current, Taken(fav_t, Dirs \ {Current}), o))
  <2>1. Shows(t, fav_stack) => Follows(Tables, t, fav_stack) /\ AllSmall(t.dirs)
    BY <1>1, MovesInFollows
  <2>2. Change(t)
    BY <1>1 DEF MovesIn
  <2> HIDE DEF t
  <2> QED
    BY <1>1, <2>1, <2>2, ChangeKeeps
<1> QED
  BY <1>1, AddTaggedIs, DieKeeps

LEMMA SortKeeps == ASSUME Good, Sort PROVE Good'
<1> DEFINE s == Rebuild(Tables, Current)
           f == s.dirs[Current]
           n == Len(f.items)
           g(p) == [f EXCEPT !.items = [i \in 1..n |-> f.items[p[i]]]]
<1>1. /\ Listing
      /\ \E p \in Bijection(1..n, 1..n) : Change(With(s, Current, g(p)))
  BY DEF Sort
<1>2. PICK p \in Bijection(1..n, 1..n) : Change(With(s, Current, g(p)))
  BY <1>1
<1>3. Rebuilds(Tables, s, Current, fav_stack)
  <2> DEFINE u == Tables
  <2>1. /\ Whole(u) /\ Tidy(u.dirs) /\ Path(u.dirs, fav_stack) /\ Current \in Below(u.dirs, Root)
        /\ AllSmall(u.dirs)
    BY <1>1, Ready
  <2> HIDE DEF u
  <2>2. Rebuilds(u, Rebuild(u, Current), Current, fav_stack)
    BY <2>1, RebuildIs
  <2> QED
    BY <2>2 DEF u
<1> HIDE DEF s
<1>4. Follows(Tables, s, fav_stack) /\ AllSmall(s.dirs)
  BY <1>3 DEF Rebuilds
<1>5. Whole(s) /\ Tidy(s.dirs) /\ Path(s.dirs, fav_stack)
  BY <1>4 DEF Follows
<1>11. s \in AllTables /\ Current \in Dirs /\ f \in Folder /\ Small(f)
  <2>1. s \in AllTables /\ AllSound(s.dirs)
    BY <1>5 DEF Whole
  <2>2. Current \in Dirs
    BY <1>5, <2>1, PathBelow DEF Current
  <2> QED
    BY <1>4, <2>1, <2>2 DEF AllSound, AllSmall, Sound
<1>12. Small(g(p))
  <2> DEFINE items == [i \in 1..n |-> f.items[p[i]]]
  <2> HIDE DEF items, f
  <2>1. Small([f EXCEPT !.items = items])
    BY <1>11, ItemsSmall
  <2> QED
    BY <2>1 DEF items
<1>6. Reordered(f, g(p), p)
  <2>1. /\ p \in [1..n -> 1..n]
        /\ \A i, j \in 1..n : p[i] = p[j] => i = j
        /\ \A j \in 1..n : \E i \in 1..n : p[i] = j
    BY DEF Bijection, Injection, Surjection, IsInjective
  <2> QED
    BY <2>1 DEF Reordered
<1> DEFINE t == With(s, Last(fav_stack), g(p))
           h == g(p)
<1>7. Reordered(s.dirs[Last(fav_stack)], h, p)
  BY <1>6 DEF Current
<1>13. Small(h)
  BY <1>12
<1> HIDE DEF h
<1>8. Follows(s, With(s, Last(fav_stack), h), fav_stack)
  BY <1>5, <1>7, ReorderFollows
<1>14. AllSmall(With(s, Last(fav_stack), h).dirs)
  <2>1. Last(fav_stack) \in Dirs
    BY <1>11 DEF Current
  <2> QED
    BY <1>4, <1>11, <1>13, <2>1, WithSmall
<1>9. Follows(Tables, t, fav_stack) /\ AllSmall(t.dirs)
  BY <1>4, <1>8, <1>14, FollowsNext DEF h
<1>10. Change(t)
  BY <1>2 DEF Current
<1> HIDE DEF t
<1> QED
  BY <1>1, <1>9, <1>10, ChangeKeeps

\* After a command that does not load the list again.
LEMMA TablesKeep ==
    ASSUME Good, Listing, NEW t, Follows(Tables, t, fav_stack), AllSmall(t.dirs),
           SetTables(t), UNCHANGED screen,
           FileOK(fav_file'), FileOK(user_fav_bak'), t.dirty \/ Kept(fav_file') = Seen(t.dirs)
    PROVE  Good'
<1>1. Whole(t) /\ Tidy(t.dirs) /\ Path(t.dirs, fav_stack)
  BY DEF Follows
<1>2. t \in AllTables
  BY <1>1 DEF Whole
<1>3. Tables' = t /\ fav_t' = t.dirs /\ dirty' = t.dirty
  BY <1>2, TablesNext
<1>4. fav_stack' = fav_stack /\ nbrd' = nbrd /\ missed' = missed
  BY DEF screen
<1>5. Len(fav_stack) <= FAV_MAXDEPTH /\ Lists(nbrd) /\ missed \in 0..MaxMissed
  BY DEF Good, OnScreen
<1>6. OnScreen'
  BY <1>1, <1>3, <1>4, <1>5 DEF OnScreen
<1>7. Listing'
  BY <1>4 DEF Listing
<1> QED
  BY <1>1, <1>3, <1>4, <1>5, <1>6, <1>7 DEF Good

LEMMA TagKeeps == ASSUME Good, Listing, NEW k, Tag(k) PROVE Good'
<1> DEFINE i == get_fav_item(Here, nbrd[k].type, nbrd[k].id)
           bit == ~ Here[i].tag
           f == fav_t[Current]
           t == With(Tables, Current, TagSet(f, {i}, bit))
<1>1. /\ i # 0 /\ SetTables(t) /\ UNCHANGED screen
      /\ fav_file' = fav_file /\ user_fav_bak' = user_fav_bak
  BY DEF Tag
<1> HIDE DEF i
<1>2. i \in ValidAt(Here)
  BY <1>1, FoundIs DEF i
<1>3. bit \in BOOLEAN
  OBVIOUS
<1> HIDE DEF bit
<1> DEFINE s == Tables
           u == With(s, Last(fav_stack), TagSet(s.dirs[Last(fav_stack)], {i}, bit))
<1>4. /\ Whole(s) /\ Tidy(s.dirs) /\ Path(s.dirs, fav_stack) /\ s.dirs = fav_t
      /\ AllSmall(s.dirs) /\ Current \in Dirs /\ Sound(f) /\ Small(f)
  BY Ready
<1>5. u = t
  BY <1>4 DEF Current
<1> HIDE DEF s
<1>6. i \in ValidAt(s.dirs[Last(fav_stack)].items)
  BY <1>2, <1>4 DEF Here, Current
<1>7. Follows(s, u, fav_stack)
  BY <1>3, <1>4, <1>6, TagFollows
<1>8. Follows(Tables, t, fav_stack)
  BY <1>5, <1>7 DEF s
<1>11. AllSmall(t.dirs)
  <2> DEFINE P == {i}
             g == TagSet(f, P, bit)
  <2>1. t = With(s, Current, g)
    BY DEF s
  <2> HIDE DEF P
  <2>2. Small(g)
    <3> HIDE DEF f
    <3> QED
      BY <1>4, TagSetSmall
  <2> HIDE DEF g, t
  <2>3. s \in AllTables
    BY <1>4 DEF Whole
  <2> QED
    BY <1>4, <2>1, <2>2, <2>3, WithSmall
<1>9. t.dirty
  <2>1. f \in Folder /\ Tables \in AllTables
    BY Ready DEF Sound, Whole
  <2>2. With(Tables, Current, TagSet(f, {i}, bit)).dirty = TRUE
    BY <2>1, DirsDirty DEF With, Tbl
  <2> QED
    BY <2>2
<1> HIDE DEF t
<1>10. FileOK(fav_file) /\ FileOK(user_fav_bak)
  BY DEF Good
<1> QED
  BY <1>1, <1>8, <1>9, <1>10, <1>11, TablesKeep

LEMMA EnterKeeps == ASSUME Good, Listing, NEW k, Enter(k) PROVE Good'
<1> DEFINE i == get_fav_item(Here, "folder", nbrd[k].id)
           stack == Append(fav_stack, Here[i].sub)
<1>1. CASE i = 0
  BY <1>1, DieKeeps DEF Enter
<1>2. CASE i # 0
  <2>1. /\ fav_file' = fav_file /\ user_fav_bak' = user_fav_bak
        /\ IF fav_stack_full
           THEN missed < MaxMissed /\ Show(Tables, fav_stack, missed + 1)
           ELSE Show(Tables, stack, missed)
    BY <1>2 DEF Enter
  <2>2. /\ FileOK(fav_file) /\ FileOK(user_fav_bak) /\ missed \in 0..MaxMissed
        /\ Len(fav_stack) <= FAV_MAXDEPTH
        /\ dirty \/ Kept(fav_file) = Seen(fav_t)
    BY DEF Good, OnScreen
  <2>3. /\ Whole(Tables) /\ Tidy(Tables.dirs) /\ Path(Tables.dirs, fav_stack)
        /\ Tables.dirs = fav_t /\ Tables.dirty = dirty /\ AllSound(fav_t)
        /\ AllSmall(Tables.dirs)
    BY Ready
  <2>4. CASE fav_stack_full
    <3>1. missed + 1 \in 0..MaxMissed
      BY <2>1, <2>2, <2>4, FavAssumption
    <3> QED
      BY <2>1, <2>2, <2>3, <2>4, <3>1, ShowKeeps
  <2>5. CASE ~ fav_stack_full
    <3> HIDE DEF i
    <3>1. i \in ValidAt(Here) /\ Here[i].type = "folder"
      BY <1>2, FoundIs DEF i
    <3>2. i \in ValidAt(fav_t[Last(fav_stack)].items) /\ fav_t[Last(fav_stack)].items[i].type = "folder"
      BY <3>1 DEF Here, Current
    <3>3. stack = Append(fav_stack, fav_t[Last(fav_stack)].items[i].sub)
      BY DEF Here, Current
    <3>4. Linked(fav_t)
      BY <2>3 DEF Whole
    <3>5. Path(fav_t, stack) /\ Len(stack) = Len(fav_stack) + 1
      BY <2>3, <3>2, <3>3, <3>4, PathEnter
    <3> HIDE DEF stack
    <3>6. Len(stack) <= FAV_MAXDEPTH
      <4>1. Len(fav_stack) \in Nat
        BY <2>3, PathBelow
      <4>2. ~ (Len(fav_stack) >= FAV_MAXDEPTH) /\ FAV_MAXDEPTH \in Nat
        BY <2>5, FavAssumption DEF fav_stack_full
      <4> QED
        BY <3>5, <4>1, <4>2
    <3> QED
      BY <2>1, <2>2, <2>3, <2>5, <3>5, <3>6, ShowKeeps
  <2> QED
    BY <2>4, <2>5
<1> QED
  BY <1>1, <1>2

LEMMA LeaveKeeps == ASSUME Good, Leave PROVE Good'
<1>1. Listing
  <2>1. Good /\ ~ Listing => Len(fav_stack) = 0 /\ missed = 0
    BY DEF Good, Listing
  <2>2. Len(fav_stack) + missed > 1
    BY DEF Leave
  <2> QED
    BY <2>1, <2>2
<1>2. CASE Len(fav_stack) = 1
  BY <1>2, DieKeeps DEF Leave
<1>3. CASE Len(fav_stack) # 1
  <2> DEFINE stack == Front(fav_stack)
  <2>1. /\ Show(Tables, stack, missed)
        /\ fav_file' = fav_file /\ user_fav_bak' = user_fav_bak
    BY <1>3 DEF Leave
  <2>2. /\ FileOK(fav_file) /\ FileOK(user_fav_bak) /\ missed \in 0..MaxMissed
        /\ Len(fav_stack) <= FAV_MAXDEPTH
        /\ dirty \/ Kept(fav_file) = Seen(fav_t)
    BY <1>1 DEF Good, OnScreen
  <2>3. /\ Whole(Tables) /\ Tidy(Tables.dirs) /\ Path(Tables.dirs, fav_stack)
        /\ Tables.dirs = fav_t /\ Tables.dirty = dirty /\ AllSound(fav_t)
        /\ AllSmall(Tables.dirs)
    BY <1>1, Ready
  <2>4. Path(Tables.dirs, stack) /\ Len(stack) = Len(fav_stack) - 1
    BY <1>3, <2>3, PathLeave
  <2>5. Len(fav_stack) \in Nat
    BY <2>3, PathBelow
  <2>6. Len(stack) <= FAV_MAXDEPTH
    BY <2>2, <2>4, <2>5, FavAssumption
  <2> HIDE DEF stack
  <2> QED
    BY <2>1, <2>2, <2>3, <2>4, <2>6, ShowKeeps
<1> QED
  BY <1>2, <1>3

\* The list is shown from the outermost folder of what fav_load has read.
LEMMA LoadKeeps ==
    ASSUME NEW file, FileOK(file), NEW m, Show(Read(file), <<Root>>, m), m \in 0..MaxMissed,
           fav_file' = file, FileOK(user_fav_bak')
    PROVE  Good' /\ (Listing' => Seen(fav_t') = Kept(file))
<1> DEFINE t == Read(file)
           stack == <<Root>>
<1>1. Show(t, stack, m) /\ Len(stack) = 1
  OBVIOUS
<1>2. Loads(file, t)
  BY ReadIs
<1> HIDE DEF t
<1>3. /\ Whole(t) /\ Tidy(t.dirs) /\ Seen(t.dirs) = Kept(file) /\ AllSmall(t.dirs)
      /\ Path(t.dirs, stack)
  BY <1>2 DEF Loads
<1> HIDE DEF stack
<1>4. ASSUME Listing' PROVE fav_t' = t.dirs
  <2>1. SetTables(t)
    BY <1>1, <1>4 DEF Show, End, Listing
  <2> QED
    BY <1>3, <2>1, TablesNext DEF Whole
<1>6. Len(stack) <= FAV_MAXDEPTH
  BY <1>1, FavAssumption
<1>7. Good'
  BY <1>1, <1>3, <1>6, ShowKeeps
<1> QED
  BY <1>3, <1>4, <1>7

LEMMA OpenKeeps ==
    ASSUME Good, Open PROVE Good' /\ (Listing' => Seen(fav_t') = Kept(fav_file))
<1>1. /\ Show(Read(fav_file), <<Root>>, 0)
      /\ fav_file' = fav_file /\ user_fav_bak' = user_fav_bak
  BY DEF Open
<1>2. FileOK(fav_file) /\ FileOK(user_fav_bak)
  BY DEF Good
<1>3. 0 \in 0..MaxMissed
  BY FavAssumption
<1> QED
  BY <1>1, <1>2, <1>3, LoadKeeps

LEMMA RestoreKeeps == ASSUME Good, Restore PROVE Good'
<1>1. /\ Listing /\ fav_file' = user_fav_bak /\ user_fav_bak' = user_fav_bak
      /\ IF Torn(fav_t, Root) THEN End
         ELSE Show(Read(user_fav_bak), <<Root>>, missed)
  BY DEF Restore
<1>2. FileOK(user_fav_bak) /\ missed \in 0..MaxMissed
  BY DEF Good
<1>3. CASE Torn(fav_t, Root)
  BY <1>1, <1>2, <1>3, EndKeeps
<1>4. CASE ~ Torn(fav_t, Root)
  BY <1>1, <1>2, <1>4, LoadKeeps
<1> QED
  BY <1>3, <1>4

LEMMA SavedNow == ASSUME Good, Listing PROVE Saves(Tables, fav_stack, FavSaved(Tables))
<1> DEFINE s == Tables
<1>1. /\ Whole(s) /\ Tidy(s.dirs) /\ Path(s.dirs, fav_stack) /\ s.dirs = fav_t /\ s.dirty = dirty
      /\ AllSmall(s.dirs)
  BY Ready
<1>2. FileOK(fav_file) /\ (dirty \/ Kept(fav_file) = Seen(fav_t))
  BY DEF Good, OnScreen
<1> HIDE DEF s
<1>3. Saves(s, fav_stack, FavSaved(s))
  BY <1>1, <1>2, SavedIs
<1> QED
  BY <1>3 DEF s

LEMMA SaveKeeps == ASSUME Good, Save PROVE Good' /\ Kept(fav_file') = Seen(fav_t)
<1> DEFINE w == FavSaved(Tables)
<1>1. /\ Listing /\ UNCHANGED screen /\ user_fav_bak' = user_fav_bak
      /\ SetTables(w.tables) /\ fav_file' = w.file
  BY DEF Save
<1>2. Saves(Tables, fav_stack, w)
  BY <1>1, SavedNow
<1> HIDE DEF w
<1>3. /\ Follows(Tables, w.tables, fav_stack) /\ FileOK(w.file) /\ Kept(w.file) = Seen(fav_t)
      /\ Seen(w.tables.dirs) = Seen(fav_t) /\ AllSmall(w.tables.dirs)
  BY <1>2 DEF Saves, Tables
<1>4. FileOK(user_fav_bak)
  BY DEF Good
<1> QED
  BY <1>1, <1>3, <1>4, TablesKeep

LEMMA ExitKeeps == ASSUME Good, Exit PROVE Good' /\ Kept(fav_file') = Seen(fav_t)
<1> DEFINE w == FavSaved(Tables)
<1>1. Listing /\ End /\ user_fav_bak' = user_fav_bak /\ fav_file' = w.file
  BY DEF Exit
<1>2. Saves(Tables, fav_stack, w)
  BY <1>1, SavedNow
<1> HIDE DEF w
<1>3. FileOK(w.file) /\ Kept(w.file) = Seen(fav_t)
  BY <1>2 DEF Saves, Tables
<1>4. FileOK(user_fav_bak)
  BY DEF Good
<1> QED
  BY <1>1, <1>3, <1>4, EndKeeps

LEMMA BackupKeeps == ASSUME Good, Backup PROVE Good' /\ Kept(fav_file') = Seen(fav_t)
<1> DEFINE w == FavSaved(Tables)
<1>1. /\ Listing /\ Show(w.tables, fav_stack, missed) /\ fav_file' = w.file
      /\ user_fav_bak' = IF w.file = NoFile THEN user_fav_bak ELSE w.file
  BY DEF Backup
<1>2. Saves(Tables, fav_stack, w)
  BY <1>1, SavedNow
<1> HIDE DEF w
<1> DEFINE t == w.tables
<1>3. /\ Follows(Tables, t, fav_stack) /\ FileOK(w.file) /\ Kept(w.file) = Seen(fav_t)
      /\ Seen(t.dirs) = Seen(fav_t) /\ AllSmall(t.dirs)
  BY <1>2 DEF Saves, Tables
<1>4. FileOK(user_fav_bak) /\ missed \in 0..MaxMissed /\ Len(fav_stack) <= FAV_MAXDEPTH
  BY <1>1 DEF Good, OnScreen
<1>5. Whole(t) /\ Tidy(t.dirs) /\ Path(t.dirs, fav_stack)
  BY <1>3 DEF Follows
<1>6. FileOK(user_fav_bak')
  BY <1>1, <1>3, <1>4
<1> HIDE DEF t
<1>7. Show(t, fav_stack, missed)
  BY <1>1 DEF t
<1> QED
  BY <1>1, <1>3, <1>4, <1>5, <1>6, <1>7, ShowKeeps

-----------------------------------------------------------------------------
(* The invariant                                                           *)

\* One step of the list: all that does not save.
LEMMA ListKeeps ==
    ASSUME Good, \/ Open \/ Refresh \/ Leave \/ \E k \in Cursor : Enter(k)
                 \/ EditList \/ Restore \/ (Listing /\ Die)
    PROVE  Good'
<1>1. Cursor # {} => Listing
  <2>1. ~ Listing => nbrd = <<>>
    BY DEF Good
  <2>2. DOMAIN <<>> = {}
    BY EmptySeq
  <2> QED
    BY <2>1, <2>2 DEF Cursor
<1>2. CASE Open
  BY <1>2, OpenKeeps
<1>3. CASE Refresh
  BY <1>3, RefreshKeeps
<1>4. CASE Leave
  BY <1>4, LeaveKeeps
<1>5. ASSUME NEW k \in Cursor, Enter(k) PROVE Good'
  BY <1>1, <1>5, EnterKeeps
<1>6. CASE EditList
  <2>1. ASSUME NEW b \in FavBoards, ToggleBoard(b) PROVE Good'
    BY <2>1, ToggleKeeps
  <2>2. ASSUME NEW b \in FavBoards, NEW k \in Cursor, InsertBoard(b, k) PROVE Good'
    BY <2>2, InsertKeeps
  <2>3. ASSUME NEW k \in Cursor \cup {1}, AddLine(k) PROVE Good'
    BY <2>3, AddLineKeeps
  <2>4. ASSUME NEW k \in Cursor \cup {1}, AddFolder(k) PROVE Good'
    BY <2>4, AddFolderKeeps
  <2>5. ASSUME NEW k \in Cursor, Delete(k) PROVE Good'
    BY <1>1, <2>5, DeleteKeeps
  <2>6. ASSUME NEW k \in Cursor, Tag(k) PROVE Good'
    BY <1>1, <2>6, TagKeeps
  <2>7. ASSUME NEW k \in Cursor, NEW l \in Cursor, MoveEntry(k, l) PROVE Good'
    BY <1>1, <2>7, MoveEntryKeeps
  <2>8. UntagAll => Good'
    BY UntagKeeps
  <2>9. DeleteTagged => Good'
    BY DeleteTaggedKeeps
  <2>10. AddTagged => Good'
    BY AddTaggedKeeps
  <2>11. Sort => Good'
    BY SortKeeps
  <2> QED
    BY <1>6, <2>1, <2>2, <2>3, <2>4, <2>5, <2>6, <2>7, <2>8, <2>9, <2>10, <2>11 DEF EditList
<1>7. CASE Restore
  BY <1>7, RestoreKeeps
<1>8. CASE Listing /\ Die
  BY <1>8, DieKeeps
<1> QED
  BY <1>2, <1>3, <1>4, <1>5, <1>6, <1>7, <1>8

\* A step that saves.
LEMMA SavingKeeps ==
    ASSUME Good, Save \/ Exit \/ Backup PROVE Good' /\ Kept(fav_file') = Seen(fav_t)
BY SaveKeeps, ExitKeeps, BackupKeeps

LEMMA GoodStays == ASSUME Good, UNCHANGED favVars PROVE Good'
<1>1. /\ fav_t' = fav_t /\ fav_number' = fav_number /\ dirty' = dirty /\ leaked' = leaked
      /\ fav_stack' = fav_stack /\ nbrd' = nbrd /\ missed' = missed
      /\ fav_file' = fav_file /\ user_fav_bak' = user_fav_bak
  BY DEF favVars, tables, screen
<1>2. Tables' = Tables
  BY <1>1 DEF Tables
<1>3. Listing' <=> Listing
  BY <1>1 DEF Listing
<1>4. OnScreen' <=> OnScreen
  BY <1>1 DEF OnScreen
<1> QED
  BY <1>1, <1>2, <1>3, <1>4 DEF Good

LEMMA FavInvNext == FavInv /\ [FavNext]_favVars => FavInv'
<1> SUFFICES ASSUME FavInv, [FavNext]_favVars PROVE FavInv'
  OBVIOUS
<1>1. Good /\ saving \in BOOLEAN
  BY DEF FavInv
<1>2. CASE UNCHANGED favVars
  BY <1>1, <1>2, GoodStays DEF FavInv, favVars
<1>3. CASE FavNext
  BY <1>1, <1>3, ListKeeps, SavingKeeps DEF FavNext, FavInv
<1> QED
  BY <1>2, <1>3

LEMMA FavInvInit == FavInit => FavInv
<1> SUFFICES ASSUME FavInit PROVE FavInv
  OBVIOUS
<1> DEFINE N == [d \in Dirs |-> NewFolder]
<1>1. /\ fav_t = N /\ fav_number = 0 /\ dirty = FALSE /\ leaked = 0
      /\ fav_stack = <<>> /\ nbrd = <<>> /\ missed = 0
      /\ fav_file = NoFile /\ user_fav_bak = NoFile /\ saving = FALSE
  BY DEF FavInit, NoTables
<1>2. AllSound(N) /\ AllSmall(N) /\ Linked(N) /\ Tidy(N) /\ Cardinality(Pairs(N, Dirs)) = 0
  BY NoneIs
<1>3. N \in [Dirs -> Folder]
  BY <1>2 DEF AllSound
<1> HIDE DEF N
<1>4. Tables = [dirs |-> N, number |-> 0, dirty |-> FALSE, leaked |-> 0]
  BY <1>1 DEF Tables
<1>5. Tables \in AllTables
  BY <1>3, <1>4 DEF AllTables
<1>6. Whole(Tables) /\ Tidy(fav_t) /\ AllSmall(fav_t)
  BY <1>1, <1>2, <1>4, <1>5 DEF Whole
<1>7. Lists(<<>>) /\ missed \in 0..MaxMissed
  BY <1>1, EmptySeq, FavAssumption DEF Lists
<1> QED
  BY <1>1, <1>6, <1>7 DEF FavInv, Good, Listing, FileOK

\* Between two commands the tables, the way that the user took into the folders,
\* the screen and the files fit together.
THEOREM FavInvariant == FavSpec => []FavInv
BY FavInvInit, FavInvNext, PTL DEF FavSpec

\* Every variable keeps to its type.
THEOREM FavTypesHold == FavSpec => []FavTypeOK
<1>1. ASSUME FavInv PROVE FavTypeOK
  <2>1. Whole(Tables) /\ Lists(nbrd) /\ missed \in 0..MaxMissed /\ saving \in BOOLEAN
    BY <1>1 DEF FavInv, Good
  <2>2. Tables \in AllTables
    BY <2>1 DEF Whole
  <2>3. fav_t \in [Dirs -> Folder] /\ fav_number \in Nat /\ leaked \in Nat /\ dirty \in BOOLEAN
    BY <2>2 DEF AllTables, Tables
  <2>4. fav_stack \in Seq(Dirs) /\ Len(fav_stack) <= FAV_MAXDEPTH
    <3>1. CASE Listing
      BY <1>1, <3>1 DEF FavInv, Good, OnScreen, Path
    <3>2. CASE ~ Listing
      <4>1. fav_stack = <<>>
        BY <3>2 DEF Listing
      <4>2. <<>> \in Seq(Dirs) /\ Len(<<>>) = 0
        BY EmptySeq
      <4> QED
        BY <4>1, <4>2, FavAssumption
    <3> QED
      BY <3>1, <3>2
  <2> QED
    BY <2>1, <2>3, <2>4 DEF FavTypeOK, Lists
<1> QED
  BY <1>1, FavInvariant, PTL

\* The counts of a folder are those of its list.
LEMMA CountsFit ==
    ASSUME NEW f, Sound(f), NEW t \in Types
    PROVE  f.n[t] = OfType(Valid(f.items), t, Len(Valid(f.items)))
<1>1. f.items \in Seq(Entry) /\ f.n[t] = Count(f.items, t)
  BY DEF Sound, Folder
<1> QED
  BY <1>1, OfValid

\* Folders that cannot be come to have no valid entries.
NoneHidden(dirs) == \A d \in Dirs \ Below(dirs, Root) : ValidAt(dirs[d].items) = {}

LEMMA TidyHidesNone == ASSUME NEW dirs, Tidy(dirs) PROVE NoneHidden(dirs)
BY NewIsSound DEF Tidy, NoneHidden

\* What the user can come to has all valid entries.
LEMMA ShownIs ==
    ASSUME NEW dirs, AllSound(dirs), NoneHidden(dirs)
    PROVE  /\ Below(dirs, Root) \subseteq Dirs
           /\ Pairs(dirs, Below(dirs, Root)) = Pairs(dirs, Dirs)
           /\ Shown(dirs) = Pairs(dirs, Dirs)
<1>1. Below(dirs, Root) \subseteq Dirs
  BY FavAssumption, BelowIs DEF Least
<1>2. \A d \in Dirs \ Below(dirs, Root) : ValidAt(dirs[d].items) = {}
  BY DEF NoneHidden
<1>3. Pairs(dirs, Below(dirs, Root)) = Pairs(dirs, Dirs)
  BY <1>1, <1>2 DEF Pairs
<1> QED
  BY <1>1, <1>3 DEF Shown, Pairs

\* The counts of each folder are those of its list, and fav_number is the number
\* of all entries that the user can come to and of those that leaked.
THEOREM CountersHold == FavSpec => []CountersFit
<1>1. ASSUME FavInv PROVE CountersFit
  <2> SUFFICES ASSUME Listing
               PROVE  /\ \A d \in Below(fav_t, Root), t \in Types :
                            fav_t[d].n[t] = OfType(Valid(fav_t[d].items), t, Len(Valid(fav_t[d].items)))
                      /\ fav_number = leaked + Total(fav_t, Below(fav_t, Root))
    BY DEF CountersFit
  <2>1. Good
    BY <1>1 DEF FavInv
  <2>2. Whole(Tables) /\ Tidy(fav_t) /\ AllSound(fav_t)
    BY <2>1, Ready DEF Good
  <2>3. /\ Below(fav_t, Root) \subseteq Dirs
        /\ Pairs(fav_t, Below(fav_t, Root)) = Pairs(fav_t, Dirs)
    BY <2>2, TidyHidesNone, ShownIs
  <2>4. \A d \in Below(fav_t, Root) : Sound(fav_t[d])
    BY <2>2, <2>3 DEF AllSound
  <2>5. Total(fav_t, Below(fav_t, Root)) = Cardinality(Pairs(fav_t, Dirs))
    BY <2>2, <2>3, TotalIs
  <2>6. fav_number = leaked + Cardinality(Pairs(fav_t, Dirs))
    BY <2>2 DEF Whole, Tables
  <2> QED
    BY <2>4, <2>5, <2>6, CountsFit
<1> QED
  BY <1>1, FavInvariant, PTL

\* One entry that the user can see leads to each folder, but for the outermost.
LEMMA OneLeadsTo ==
    ASSUME NEW dirs, AllSound(dirs), Tidy(dirs), Linked(dirs), NEW d \in Below(dirs, Root),
           NEW L, L = {l \in Shown(dirs) : dirs[l[1]].items[l[2]].sub = d}
    PROVE  Cardinality(L) = IF d = Root THEN 0 ELSE 1
<1>1. Below(dirs, Root) \subseteq Dirs /\ Shown(dirs) = Pairs(dirs, Dirs)
  BY TidyHidesNone, ShownIs
<1>2. L = {l \in Pairs(dirs, Dirs) : At(dirs, l).sub = d}
  BY <1>1 DEF At
<1>3. CASE d = Root
  <2>1. L = {}
    BY <1>2, <1>3 DEF Linked
  <2> QED
    BY <1>3, <2>1, FS_EmptySet
<1>4. CASE d # Root
  <2>1. PICK y \in Below(dirs, Root) : Child(dirs, y, d)
    BY <1>4, ParentIs, FavAssumption
  <2>2. PICK i \in ValidAt(dirs[y].items) : dirs[y].items[i].sub = d
    BY <2>1 DEF Child
  <2>3. <<y, i>> \in Pairs(dirs, Dirs) /\ At(dirs, <<y, i>>) = dirs[y].items[i]
    BY <1>1, <2>2, PairsAre
  <2>4. <<y, i>> \in L
    BY <1>2, <2>2, <2>3
  <2>5. \A l, m \in L : l = m
    BY <1>1, <1>2 DEF Linked
  <2>6. L = {<<y, i>>}
    BY <2>4, <2>5
  <2> QED
    BY <1>4, <2>6, FS_Singleton
<1> QED
  BY <1>3, <1>4

\* The folders are a tree, the user is on a path in it, and the numbers of the
\* folders in a list differ.
THEOREM TreeHolds == FavSpec => []FoldersFormTree
<1>1. ASSUME FavInv PROVE FoldersFormTree
  <2> DEFINE live == Below(fav_t, Root)
             LeadsTo(d) == {l \in Shown(fav_t) : fav_t[l[1]].items[l[2]].sub = d}
  <2>1. CASE ~ Listing
    BY <2>1 DEF FoldersFormTree
  <2>2. CASE Listing
    <3>1. Good
      BY <1>1 DEF FavInv
    <3>2. AllSound(fav_t) /\ Tidy(fav_t) /\ Linked(fav_t) /\ Path(fav_t, fav_stack)
      BY <2>2, <3>1, Ready DEF Good, Whole
    <3>3. live \subseteq Dirs /\ Shown(fav_t) = Pairs(fav_t, Dirs)
      BY <3>2, TidyHidesNone, ShownIs
    <3>4. \A d \in live : Cardinality(LeadsTo(d)) = IF d = Root THEN 0 ELSE 1
      BY <3>2, OneLeadsTo
    <3>5. ASSUME NEW k \in DOMAIN fav_stack, k # 1
          PROVE  \E l \in LeadsTo(fav_stack[k]) : l[1] = fav_stack[k - 1]
      <4>1. DOMAIN fav_stack = 1..Len(fav_stack) /\ Len(fav_stack) \in Nat
        BY <3>2, PathBelow
      <4>2. k \in 1..Len(fav_stack) /\ k > 1
        BY <3>5, <4>1
      <4>3. fav_stack[k - 1] \in Dirs /\ Child(fav_t, fav_stack[k - 1], fav_stack[k])
        BY <3>2, <4>2, PathSteps
      <4>4. PICK i \in ValidAt(fav_t[fav_stack[k - 1]].items) :
                fav_t[fav_stack[k - 1]].items[i].sub = fav_stack[k]
        BY <4>3 DEF Child
      <4> DEFINE l == <<fav_stack[k - 1], i>>
      <4>5. l \in Pairs(fav_t, Dirs)
        BY <4>3, <4>4, PairsAre
      <4>6. l \in LeadsTo(fav_stack[k]) /\ l[1] = fav_stack[k - 1]
        BY <3>3, <4>4, <4>5
      <4> QED
        BY <4>6
    <3>6. fav_stack[1] = Root
      BY <3>2 DEF Path
    <3>7. ASSUME NEW d \in live,
                 NEW i \in ValidAt(fav_t[d].items), NEW j \in ValidAt(fav_t[d].items),
                 i # j, fav_t[d].items[i].type = "folder", fav_t[d].items[j].type = "folder"
          PROVE  fav_t[d].items[i].id # fav_t[d].items[j].id
      <4>1. Sound(fav_t[d])
        BY <3>2, <3>3 DEF AllSound
      <4>2. i \in FoldersAt(fav_t[d].items) /\ j \in FoldersAt(fav_t[d].items)
        BY <3>7 DEF FoldersAt
      <4> QED
        BY <3>7, <4>1, <4>2 DEF Sound
    <3> HIDE DEF LeadsTo, live
    <3>8. \A k \in DOMAIN fav_stack :
             IF k = 1 THEN fav_stack[k] = Root
             ELSE \E l \in LeadsTo(fav_stack[k]) : l[1] = fav_stack[k - 1]
      BY <3>5, <3>6
    <3>9. \A d \in live : \A i, j \in ValidAt(fav_t[d].items) :
             i # j /\ fav_t[d].items[i].type = "folder" /\ fav_t[d].items[j].type = "folder"
                 => fav_t[d].items[i].id # fav_t[d].items[j].id
      BY <3>7
    <3> QED
      BY <3>4, <3>8, <3>9 DEF FoldersFormTree, LeadsTo, live
  <2> QED
    BY <2>1, <2>2
<1> QED
  BY <1>1, FavInvariant, PTL

\* A session that saves leaves in the file what its user saw last, and the next
\* one shows that again.
THEOREM SavedSeen == FavSpec => SavedAsSeen
<1> DEFINE A == /\ saving' => Kept(fav_file') = Seen(fav_t)
                /\ fav_stack = <<>> /\ fav_stack' # <<>> => Seen(fav_t') = Kept(fav_file)
<1>1. ASSUME FavInv, [FavNext]_favVars PROVE [A]_favVars
  <2> SUFFICES ASSUME FavNext PROVE A
    BY <1>1
  <2>1. Good
    BY <1>1 DEF FavInv
  <2>2. CASE (Save \/ Exit \/ Backup) /\ saving' = TRUE
    <3>1. Kept(fav_file') = Seen(fav_t)
      BY <2>1, <2>2, SavingKeeps
    <3>2. Listing
      BY <2>2 DEF Save, Exit, Backup
    <3> QED
      BY <3>1, <3>2 DEF Listing
  <2>3. CASE /\ \/ Open \/ Refresh \/ Leave \/ \E k \in Cursor : Enter(k)
                \/ EditList \/ Restore \/ (Listing /\ Die)
             /\ saving' = FALSE
    <3>1. CASE Open
      BY <2>1, <2>3, <3>1, OpenKeeps DEF Listing
    <3>2. CASE ~ Open
      <4> SUFFICES ASSUME ~ Listing PROVE FALSE
        BY <2>3 DEF Listing
      <4>1. nbrd = <<>> /\ missed = 0 /\ fav_stack = <<>>
        BY <2>1 DEF Good, Listing
      <4>2. Cursor = {} /\ Len(fav_stack) = 0
        BY <4>1, EmptySeq DEF Cursor
      <4>3. ~ Leave
        BY <4>1, <4>2 DEF Leave
      <4>4. ~ EditList
        <5>1. \A b \in FavBoards : ~ ToggleBoard(b)
          BY DEF ToggleBoard
        <5>2. \A k : ~ AddLine(k) /\ ~ AddFolder(k)
          BY DEF AddLine, AddFolder, Room
        <5>3. ~ UntagAll
          BY DEF UntagAll
        <5>4. ~ DeleteTagged
          BY DEF DeleteTagged
        <5>5. ~ AddTagged
          BY <2>1, AddTaggedIs
        <5>6. ~ Sort
          BY DEF Sort
        <5> QED
          BY <4>2, <5>1, <5>2, <5>3, <5>4, <5>5, <5>6 DEF EditList
      <4>5. ~ Refresh /\ ~ Restore
        BY DEF Refresh, Restore
      <4> QED
        BY <2>3, <3>2, <4>2, <4>3, <4>4, <4>5
    <3> QED
      BY <3>1, <3>2
  <2> QED
    BY <2>2, <2>3 DEF FavNext
<1> QED
  BY <1>1, FavInvariant, PTL DEF FavSpec, SavedAsSeen

\* As many entries pass a test that goes by what stays of an entry.
LEMMA CountsKeep ==
    ASSUME NEW dirs, AllSound(dirs), NEW after, AllSound(after),
           NEW w, SameEntries(dirs, after, w),
           NEW S, S \subseteq Pairs(after, Dirs), NEW T, T \subseteq Pairs(dirs, Dirs),
           \A l \in Pairs(after, Dirs) : l \in S <=> w[l] \in T
    PROVE  Cardinality(S) = Cardinality(T)
<1> DEFINE P == Pairs(after, Dirs)
           Q == Pairs(dirs, Dirs)
           v == [l \in S |-> w[l]]
<1>1. /\ w \in [P -> Q] /\ \A l, m \in P : w[l] = w[m] => l = m
      /\ \A m \in Q : \E l \in P : w[l] = m
  BY DEF SameEntries, CameFrom
<1>2. IsFiniteSet(P)
  BY PairsFinite
<1> HIDE DEF P, Q
<1>3. S \subseteq P /\ T \subseteq Q /\ \A l \in P : l \in S <=> w[l] \in T
  BY DEF P, Q
<1>4. IsFiniteSet(S)
  BY <1>2, <1>3, LessSize
<1>5. v \in [S -> T]
  BY <1>3
<1>6. \A x, y \in S : v[x] = v[y] => x = y
  BY <1>1, <1>3
<1>7. \A t \in T : \E x \in S : v[x] = t
  <2> TAKE t \in T
  <2>1. PICK l \in P : w[l] = t
    BY <1>1, <1>3
  <2>2. l \in S
    BY <1>3, <2>1
  <2> QED
    BY <2>1, <2>2
<1> HIDE DEF v
<1> QED
  BY <1>4, <1>5, <1>6, <1>7, SameSize

\* A board is the entry that has its number.
LEMMA BoardIs ==
    ASSUME NEW e, Proper(e), e.fav, NEW b \in FavBoards
    PROVE  e.id = b <=> e.type = "board" /\ e.id = b
<1>1. e.type # "board" => e.id \in Int
  BY DEF Proper
<1> QED
  BY <1>1, FavAssumption

\* The entry behind a pair is one with its flag.
LEMMA PairProper ==
    ASSUME NEW dirs, AllSound(dirs), NEW l \in Pairs(dirs, Dirs)
    PROVE  Proper(At(dirs, l)) /\ At(dirs, l).fav
<1>1. l[1] \in Dirs /\ l[2] \in ValidAt(dirs[l[1]].items)
  BY PairsAre
<1>2. Sound(dirs[l[1]])
  BY <1>1 DEF AllSound
<1> QED
  BY <1>1, <1>2, SoundParts DEF At

\* Nothing is lost on the way.
NoLoss(dirs, after) ==
    /\ \A b \in FavBoards :
          Cardinality({l \in Pairs(after, Dirs) : At(after, l).id = b})
            = Cardinality({l \in Pairs(dirs, Dirs) : At(dirs, l).id = b})
    /\ \A t \in Types :
          Cardinality({l \in Pairs(after, Dirs) : At(after, l).type = t})
            = Cardinality({l \in Pairs(dirs, Dirs) : At(dirs, l).type = t})

LEMMA SameNoLoss ==
    ASSUME NEW dirs, AllSound(dirs), NEW after, AllSound(after),
           NEW w, SameEntries(dirs, after, w)
    PROVE  NoLoss(dirs, after)
<1>1. \A l \in Pairs(after, Dirs) :
         /\ w[l] \in Pairs(dirs, Dirs)
         /\ At(after, l).type = At(dirs, w[l]).type
         /\ At(dirs, w[l]).type = "board" => At(after, l).id = At(dirs, w[l]).id
  BY DEF SameEntries, CameFrom
<1>2. ASSUME NEW b \in FavBoards
      PROVE  Cardinality({l \in Pairs(after, Dirs) : At(after, l).id = b})
               = Cardinality({l \in Pairs(dirs, Dirs) : At(dirs, l).id = b})
  <2> DEFINE S == {l \in Pairs(after, Dirs) : At(after, l).id = b}
             T == {l \in Pairs(dirs, Dirs) : At(dirs, l).id = b}
  <2>1. ASSUME NEW l \in Pairs(after, Dirs) PROVE l \in S <=> w[l] \in T
    <3>1. At(after, l).id = b <=> At(after, l).type = "board" /\ At(after, l).id = b
      BY PairProper, BoardIs
    <3>2. At(dirs, w[l]).id = b <=> At(dirs, w[l]).type = "board" /\ At(dirs, w[l]).id = b
      BY <1>1, PairProper, BoardIs
    <3> QED
      BY <1>1, <3>1, <3>2
  <2>2. S \subseteq Pairs(after, Dirs) /\ T \subseteq Pairs(dirs, Dirs)
    OBVIOUS
  <2> HIDE DEF S, T
  <2> QED
    BY <2>1, <2>2, CountsKeep DEF S, T
<1>3. ASSUME NEW t \in Types
      PROVE  Cardinality({l \in Pairs(after, Dirs) : At(after, l).type = t})
               = Cardinality({l \in Pairs(dirs, Dirs) : At(dirs, l).type = t})
  <2> DEFINE S == {l \in Pairs(after, Dirs) : At(after, l).type = t}
             T == {l \in Pairs(dirs, Dirs) : At(dirs, l).type = t}
  <2>1. \A l \in Pairs(after, Dirs) : l \in S <=> w[l] \in T
    BY <1>1
  <2>2. S \subseteq Pairs(after, Dirs) /\ T \subseteq Pairs(dirs, Dirs)
    OBVIOUS
  <2> HIDE DEF S, T
  <2> QED
    BY <2>1, <2>2, CountsKeep DEF S, T
<1> QED
  BY <1>2, <1>3 DEF NoLoss

\* What is forgotten was no valid entry that the user could come to.
LEMMA ForgetNoLoss ==
    ASSUME NEW r, Whole(r), NoneHidden(r.dirs), NEW t, Forgets(r, t)
    PROVE  /\ Pairs(t.dirs, Dirs) = Pairs(r.dirs, Dirs)
           /\ \A l \in Pairs(t.dirs, Dirs) : At(t.dirs, l) = At(r.dirs, l)
<1> DEFINE live == Below(r.dirs, Root)
<1>1. AllSound(r.dirs) /\ AllSound(t.dirs) /\ Tidy(t.dirs) /\ Below(t.dirs, Root) = live
  BY DEF Forgets, Whole
<1>2. Pairs(t.dirs, live) = Pairs(t.dirs, Dirs) /\ Pairs(r.dirs, live) = Pairs(r.dirs, Dirs)
  BY <1>1, TidyHidesNone, ShownIs
<1>3. \A d \in live : /\ ValidAt(t.dirs[d].items) = ValidAt(r.dirs[d].items)
                      /\ \A i \in ValidAt(r.dirs[d].items) : t.dirs[d].items[i] = r.dirs[d].items[i]
  BY DEF Forgets
<1> HIDE DEF live
<1>4. Pairs(t.dirs, live) = Pairs(r.dirs, live)
  BY <1>3 DEF Pairs
<1>5. \A l \in Pairs(r.dirs, live) : l[1] \in live /\ l[2] \in ValidAt(r.dirs[l[1]].items)
  BY PairsAre
<1> QED
  BY <1>2, <1>3, <1>4, <1>5 DEF At

\* What has moved hides nothing, and has no tag that the user can come to
\* elsewhere.
LEMMA MovedShown ==
    ASSUME NEW s, Whole(s), Tidy(s.dirs), Path(s.dirs, fav_stack),
           NEW c, c = Last(fav_stack), NEW taken, NEW o, NEW r, Moves(s, r, c, taken, o),
           NEW t, Forgets(r, t)
    PROVE  /\ NoneHidden(r.dirs)
           /\ \A d \in Below(t.dirs, Root) \ {c} : \A i \in DOMAIN t.dirs[d].items :
                  ~ t.dirs[d].items[i].tag
<1>1. /\ Below(r.dirs, Root) = Below(s.dirs, Root) /\ AllSound(r.dirs)
      /\ \A x \in Dirs \ {c} : Sweeps(s.dirs[x], r.dirs[x], From(s.dirs, x, taken))
  BY DEF Moves, MovesTo
<1>2. AllSound(s.dirs) /\ AllSound(t.dirs) /\ Below(t.dirs, Root) = Below(r.dirs, Root)
  BY DEF Whole, Forgets
<1>3. c \in Below(s.dirs, Root)
  BY <1>2, PathBelow
<1>4. NoneHidden(r.dirs)
  <2> SUFFICES ASSUME NEW d \in Dirs \ Below(r.dirs, Root) PROVE ValidAt(r.dirs[d].items) = {}
    BY DEF NoneHidden
  <2>1. d \in Dirs \ {c} /\ ValidAt(s.dirs[d].items) = {}
    BY <1>1, <1>3, TidyHidesNone DEF NoneHidden
  <2>2. Sweeps(s.dirs[d], r.dirs[d], From(s.dirs, d, taken))
    BY <1>1, <2>1
  <2> QED
    BY <2>1, <2>2 DEF Sweeps
<1>5. ASSUME NEW d \in Below(t.dirs, Root) \ {c}, NEW i \in DOMAIN t.dirs[d].items,
             t.dirs[d].items[i].tag
      PROVE  FALSE
  <2>1. d \in Dirs /\ d \in Below(r.dirs, Root)
    BY <1>2, FavAssumption, BelowIs DEF Least
  <2>2. Sound(t.dirs[d]) /\ Sound(s.dirs[d])
    BY <1>2, <2>1 DEF AllSound
  <2>3. t.dirs[d].items[i].fav
    BY <1>5, <2>2 DEF Sound, Proper
  <2>4. i \in ValidAt(t.dirs[d].items)
    BY <1>5, <2>3 DEF ValidAt
  <2>5. i \in ValidAt(r.dirs[d].items) /\ t.dirs[d].items[i] = r.dirs[d].items[i]
    BY <2>1, <2>4 DEF Forgets
  <2>6. Sweeps(s.dirs[d], r.dirs[d], From(s.dirs, d, taken))
    BY <1>1, <1>5, <2>1
  <2>7. i \in ValidAt(s.dirs[d].items)
    BY <2>5, <2>6 DEF Sweeps
  <2>8. i \in 1..Len(s.dirs[d].items)
    BY <2>2, <2>7, SoundParts
  <2>9. ~ r.dirs[d].items[i].tag
    BY <2>6, <2>8 DEF Sweeps
  <2> QED
    BY <1>5, <2>5, <2>9
<1> QED
  BY SMTT(40), <1>4, <1>5

LEMMA MovesInIs ==
    ASSUME Good, Listing, NEW o, MovesIn(o), Listing'
    PROVE  /\ Below(fav_t', Root) = Below(fav_t, Root) /\ NoLoss(fav_t, fav_t')
           /\ Shown(fav_t') = Pairs(fav_t', Dirs) /\ Shown(fav_t) = Pairs(fav_t, Dirs)
           /\ ~ TagsElsewhere(fav_t')
<1> DEFINE s == Tables
           c == Current
           taken == Taken(s.dirs, Dirs \ {c})
           r == AddMoved(s, c, taken, o)
           t == Forget(r)
<1>1. Whole(s) /\ Tidy(s.dirs) /\ Path(s.dirs, fav_stack) /\ s.dirs = fav_t
  BY Ready
<1>2. o \in Orders(s.dirs, taken) /\ SetTables(t)
  <2> DEFINE D == Dirs \ {Current}
             k == Taken(fav_t, D)
             u == Forget(Added(Tables, Current, k, o))
             v == Forget(AddMoved(Tables, Current, k, o))
  <2>1. o \in Orders(fav_t, k) /\ Change(u)
    BY DEF MovesIn
  <2>2. k = taken /\ v = t
    BY <1>1
  <2>3. Shows(u, fav_stack) /\ SetTables(u)
    <3> HIDE DEF u
    <3> QED
      BY <2>1 DEF Change, Show, Shows, End, Listing
  <2>4. k = Taken(fav_t, Dirs \ {Current}) /\ u = Forget(Added(Tables, Current, k, o))
    OBVIOUS
  <2>5. v = Forget(AddMoved(Tables, Current, k, o))
    OBVIOUS
  <2> HIDE DEF s, c, taken, r, t, k, u, v
  <2>6. u = v
    BY <2>3, <2>4, <2>5, MovesInFollows
  <2> QED
    BY <1>1, <2>1, <2>2, <2>3, <2>6
<1>3. c = Last(fav_stack)
  BY DEF Current
<1> HIDE DEF s
<1>4. Moves(s, r, c, taken, o)
  <2> HIDE DEF c
  <2> DEFINE k == taken
  <2>1. k = Taken(s.dirs, Dirs \ {c}) /\ o \in Orders(s.dirs, k)
    BY <1>2
  <2> HIDE DEF k
  <2>2. Moves(s, AddMoved(s, c, k, o), c, k, o)
    BY <1>1, <1>3, <2>1, AddMovedIs
  <2> QED
    BY <2>2 DEF k
<1> HIDE DEF c, r
<1>5. Forgets(r, t)
  BY <1>4, ForgetIs DEF Moves
<1>6. SetTables(t)
  BY <1>2
<1> HIDE DEF t, taken
<1>7. Whole(t) /\ Tidy(t.dirs) /\ AllSound(t.dirs)
  BY <1>5 DEF Forgets, Whole
<1>8. fav_t' = t.dirs
  BY <1>6, <1>7, TablesNext DEF Whole
<1>9. /\ NoneHidden(r.dirs)
      /\ \A d \in Below(t.dirs, Root) \ {c} : \A i \in DOMAIN t.dirs[d].items :
             ~ t.dirs[d].items[i].tag
  BY <1>1, <1>3, <1>4, <1>5, MovedShown
<1>10. Whole(r) /\ AllSound(r.dirs) /\ Below(r.dirs, Root) = Below(s.dirs, Root)
       /\ AllSound(s.dirs)
  BY <1>1, <1>4 DEF Moves, Whole
<1>11. /\ Pairs(t.dirs, Dirs) = Pairs(r.dirs, Dirs)
       /\ \A l \in Pairs(t.dirs, Dirs) : At(t.dirs, l) = At(r.dirs, l)
  BY <1>5, <1>9, <1>10, ForgetNoLoss
<1>12. NoLoss(s.dirs, r.dirs)
  <2>1. PICK w : SameEntries(s.dirs, r.dirs, w)
    BY <1>4 DEF Moves
  <2> QED
    BY <1>10, <2>1, SameNoLoss
<1>13. NoLoss(s.dirs, t.dirs)
  <2>1. \A b : {l \in Pairs(t.dirs, Dirs) : At(t.dirs, l).id = b}
                 = {l \in Pairs(r.dirs, Dirs) : At(r.dirs, l).id = b}
    BY <1>11
  <2>2. \A k : {l \in Pairs(t.dirs, Dirs) : At(t.dirs, l).type = k}
                 = {l \in Pairs(r.dirs, Dirs) : At(r.dirs, l).type = k}
    BY <1>11
  <2> QED
    BY <1>12, <2>1, <2>2 DEF NoLoss
<1>14. Below(t.dirs, Root) = Below(s.dirs, Root)
  BY <1>5, <1>10 DEF Forgets
<1>15. Shown(t.dirs) = Pairs(t.dirs, Dirs) /\ Shown(s.dirs) = Pairs(s.dirs, Dirs)
  BY <1>1, <1>7, <1>10, TidyHidesNone, ShownIs
<1>16. ~ TagsElsewhere(t.dirs)
  BY <1>9 DEF TagsElsewhere, Range, c
<1> QED
  BY <1>1, <1>8, <1>13, <1>14, <1>15, <1>16

\* ^A leaves no tag outside the current folder and loses no entry.
THEOREM MovesKeepAll == FavSpec => MovesLoseNothing
<1> DEFINE Cnt(dirs, Test(_)) == Cardinality({l \in Shown(dirs) : Test(dirs[l[1]].items[l[2]])})
           A == fav_stack # <<>> /\ fav_stack' # <<>> /\ TagsElsewhere(fav_t) /\ AddTagged =>
                    /\ Below(fav_t', Root) = Below(fav_t, Root)
                    /\ \A b \in FavBoards : Cnt(fav_t', LAMBDA e : e.id = b)
                                              = Cnt(fav_t, LAMBDA e : e.id = b)
                    /\ \A t \in Types : Cnt(fav_t', LAMBDA e : e.type = t)
                                          = Cnt(fav_t, LAMBDA e : e.type = t)
                    /\ ~ TagsElsewhere(fav_t')
<1>1. ASSUME FavInv PROVE A
  <2> SUFFICES ASSUME fav_stack' # <<>>, AddTagged
               PROVE  /\ Below(fav_t', Root) = Below(fav_t, Root)
                      /\ \A b \in FavBoards : Cnt(fav_t', LAMBDA e : e.id = b)
                                                = Cnt(fav_t, LAMBDA e : e.id = b)
                      /\ \A t \in Types : Cnt(fav_t', LAMBDA e : e.type = t)
                                            = Cnt(fav_t, LAMBDA e : e.type = t)
                      /\ ~ TagsElsewhere(fav_t')
    OBVIOUS
  <2>1. Good
    BY <1>1 DEF FavInv
  <2>2. Listing /\ \E o : MovesIn(o)
    BY <2>1, AddTaggedIs DEF Die, End
  <2>3. PICK o : MovesIn(o)
    BY <2>2
  <2>4. /\ Below(fav_t', Root) = Below(fav_t, Root) /\ NoLoss(fav_t, fav_t')
        /\ Shown(fav_t') = Pairs(fav_t', Dirs) /\ Shown(fav_t) = Pairs(fav_t, Dirs)
        /\ ~ TagsElsewhere(fav_t')
    BY <2>1, <2>2, <2>3, MovesInIs DEF Listing
  <2> QED
    BY <2>4 DEF NoLoss, At
<1> QED
  BY <1>1, FavInvariant, PTL DEF FavSpec, MovesLoseNothing
=============================================================================
