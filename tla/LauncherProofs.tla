--------------------------- MODULE LauncherProofs ---------------------------
(***************************************************************************)
(* Proofs about Launcher and the Catalog below it: that the catalog is      *)
(* fresh whatever changes on disk while it is read, that what is selected   *)
(* is listed and what is listed is in the catalog, and that a failed launch *)
(* leaves no process.                                                       *)
(***************************************************************************)
EXTENDS Launcher, FiniteSetTheorems, TLAPS

-----------------------------------------------------------------------------
(* Sorting.                                                                 *)

\* A finite set in a strict total order makes a sequence of all its elements.
LEMMA SortedIs ==
  ASSUME NEW S, IsFiniteSet(S), NEW R,
         \A x \in S : <<x, x>> \notin R,
         \A x, y, z \in S : <<x, y>> \in R /\ <<y, z>> \in R => <<x, z>> \in R,
         \A x, y \in S : x = y \/ <<x, y>> \in R \/ <<y, x>> \in R
  PROVE  /\ Sorted(S, R) \in Seq(S) /\ Len(Sorted(S, R)) = Cardinality(S)
         /\ \A x \in S : \E i \in 1 .. Cardinality(S) : Sorted(S, R)[i] = x
         /\ \A i, j \in 1 .. Cardinality(S) : i < j => <<Sorted(S, R)[i], Sorted(S, R)[j]>> \in R
<1> DEFINE n == Cardinality(S)
           Below(x) == {y \in S : <<y, x>> \in R}
           Place == [x \in S |-> Cardinality(Below(x)) + 1]
           s == Sorted(S, R)
<1>1. n \in Nat
  BY FS_CardinalityType
<1>2. \A x \in S : IsFiniteSet(Below(x)) /\ Cardinality(Below(x)) \in Nat
  <2>1. ASSUME NEW x \in S PROVE IsFiniteSet(Below(x))
    BY FS_Subset
  <2>2. QED
    BY <2>1, FS_CardinalityType
<1>3. ASSUME NEW x \in S
      PROVE  Cardinality(Below(x)) <= n - 1
  <2>1. IsFiniteSet(S \ {x}) /\ Cardinality(S \ {x}) = n - 1
    BY FS_RemoveElement
  <2>2. Below(x) \in SUBSET (S \ {x})
    OBVIOUS
  <2> HIDE DEF Below, n
  <2>3. QED
    BY <2>1, <2>2, FS_Subset
<1>4. ASSUME NEW x \in S, NEW y \in S, <<x, y>> \in R
      PROVE  Cardinality(Below(x)) < Cardinality(Below(y))
  <2>1. /\ IsFiniteSet(Below(y) \ {x})
        /\ Cardinality(Below(y) \ {x}) = Cardinality(Below(y)) - 1
    <3>1. x \in Below(y)
      BY <1>4
    <3> HIDE DEF Below
    <3>2. QED
      BY <1>2, <3>1, FS_RemoveElement
  <2>2. Below(x) \in SUBSET (Below(y) \ {x})
    BY <1>4
  <2> HIDE DEF Below
  <2>3. Cardinality(Below(x)) <= Cardinality(Below(y)) - 1
    BY <2>1, <2>2, FS_Subset
  <2>4. QED
    BY <1>2, <2>3
<1> HIDE DEF Below, n
<1>5. ASSUME NEW x \in S, NEW y \in S, Cardinality(Below(x)) = Cardinality(Below(y))
       PROVE  x = y
  <2>1. <<x, y>> \notin R
    BY <1>2, <1>4, <1>5
  <2>2. <<y, x>> \notin R
    BY <1>2, <1>4, <1>5
  <2>3. QED
    BY <2>1, <2>2
<1>6. Place \in Injection(S, 1 .. n)
  <2>1. Place \in [S -> 1 .. n]
    BY <1>1, <1>2, <1>3
  <2>2. ASSUME NEW x \in S, NEW y \in S, Place[x] = Place[y]
        PROVE  x = y
    BY <1>2, <1>5, <2>2
  <2> HIDE DEF Place
  <2>3. QED
    BY <2>1, <2>2 DEF Injection, IsInjective
<1> HIDE DEF Place
<1>7. IsFiniteSet(1 .. n) /\ Cardinality(1 .. n) = n
  BY <1>1, FS_Interval
<1>8. Place \in Surjection(S, 1 .. n)
  <2>1. Cardinality(S) = Cardinality(1 .. n) <=> Place \in Surjection(S, 1 .. n)
    BY <1>6, <1>7, FS_Injection
  <2>2. QED
    BY <1>7, <2>1 DEF n
<1>9. \A i \in 1 .. n : \E x \in S : Place[x] = i
  BY <1>8 DEF Surjection
<1>10. \A x \in S : Place[x] = Cardinality(Below(x)) + 1 /\ Place[x] \in 1 .. n
  BY <1>6 DEF Place, Injection
<1>11. \A i \in 1 .. n : s[i] \in S /\ Cardinality(Below(s[i])) = i - 1
  <2>1. ASSUME NEW i \in 1 .. n
        PROVE  s[i] \in S /\ Cardinality(Below(s[i])) = i - 1
    <3>1. \E x \in S : Cardinality(Below(x)) = i - 1
      BY <1>2, <1>9, <1>10
    <3>2. s[i] = CHOOSE x \in S : Cardinality(Below(x)) = i - 1
      BY DEF Sorted, Below, n
    <3>3. QED
      BY <3>1, <3>2
  <2>2. QED
    BY <2>1
<1>12. s \in [1 .. n -> S]
  BY <1>11 DEF Sorted, n
<1>13. s \in Seq(S) /\ Len(s) = n
  BY <1>1, <1>12
<1>14. ASSUME NEW x \in S
       PROVE  \E i \in 1 .. n : s[i] = x
  BY <1>1, <1>2, <1>10, <1>11, <1>5
<1>15. ASSUME NEW i \in 1 .. n, NEW j \in 1 .. n, i < j
       PROVE  <<s[i], s[j]>> \in R
  <2>1. s[i] # s[j] /\ <<s[j], s[i]>> \notin R
    BY <1>1, <1>4, <1>11, <1>15
  <2>2. QED
    BY <1>11, <2>1
<1>16. QED
  BY <1>13, <1>14, <1>15 DEF n

\* Of a few points there is a best one: it comes last.
LEMMA BestExists ==
  ASSUME NEW A \in SUBSET Nat, A # {}, NEW b \in Nat, \A x \in A : x <= b
  PROVE  \E x \in A : \A y \in A : y <= x
<1> DEFINE R == {p \in A \X A : p[1] < p[2]}
           s == Sorted(A, R)
           n == Cardinality(A)
<1>1. IsFiniteSet(A)
  BY FS_BoundedSetOfNaturals
<1>2. n \in Nat /\ n # 0
  BY <1>1, FS_CardinalityType, FS_EmptySet
<1>3. \A x \in A : x \in Int
  OBVIOUS
<1>4. \A x, y \in A : <<x, y>> \in R <=> x < y
  OBVIOUS
<1> HIDE DEF R
<1>5. /\ \A x \in A : <<x, x>> \notin R
      /\ \A x, y, z \in A : <<x, y>> \in R /\ <<y, z>> \in R => <<x, z>> \in R
      /\ \A x, y \in A : x = y \/ <<x, y>> \in R \/ <<y, x>> \in R
  BY <1>3, <1>4
<1>6. /\ s \in Seq(A) /\ Len(s) = n
      /\ \A x \in A : \E i \in 1 .. n : s[i] = x
      /\ \A i, j \in 1 .. n : i < j => <<s[i], s[j]>> \in R
  BY <1>1, <1>5, SortedIs
<1> HIDE DEF s, n
<1>7. \A i \in 1 .. n : s[i] \in A
  BY <1>6
<1>8. ASSUME NEW i \in 1 .. n
      PROVE  s[i] <= s[n]
  <2>1. n \in 1 .. n
    BY <1>2
  <2>2. CASE i = n
    <3>1. s[n] \in A
      BY <1>7, <2>1
    <3>2. s[n] \in Int
      BY <1>3, <3>1
    <3>3. QED
      BY <2>2, <3>2
  <2>3. CASE i < n
    <3>1. <<s[i], s[n]>> \in R /\ s[i] \in A /\ s[n] \in A
      BY <1>6, <1>7, <2>1, <2>3
    <3>2. s[i] < s[n] /\ s[i] \in Int /\ s[n] \in Int
      BY <1>3, <1>4, <3>1
    <3>3. QED
      BY <3>2
  <2>4. QED
    BY <1>2, <2>2, <2>3
<1>9. s[n] \in A
  BY <1>2, <1>7
<1>10. \A y \in A : y <= s[n]
  BY <1>6, <1>8
<1>11. QED
  BY <1>9, <1>10

\* The best of the points of a match is a number.
LEMMA ScoreIsInt == \A m, n : ScoreMatch(m, n) \in Int
<1> DEFINE Few == {x \in Nat : x <= 1000}
<1>1. \A kind : /\ Points(1000, 800, 700, 600, kind) \in Few /\ Points(550, 500, 400, 400, kind) \in Few
                /\ Points(100, 100, 100, 100, kind) \in Few /\ Points(350, 300, 250, 250, kind) \in Few
                /\ Points(200, 200, 200, 200, kind) \in Few
  BY DEF Points
<1>2. ASSUME NEW m, NEW n
      PROVE  ScoreMatch(m, n) \in Int
  <2> DEFINE A == {Points(1000, 800, 700, 600, MatchOf[<<m.name, n>>]),
                   Points(550, 500, 400, 400, MatchOf[<<m.generic, n>>]),
                   Points(100, 100, 100, 100, MatchOf[<<m.comment, n>>])}
             Keyword(k) == Points(350, 300, 250, 250, MatchOf[<<<<k>>, n>>])
             Raw(k) == Points(200, 200, 200, 200, MatchOf[<<<<k>>, n>>])
             B == {Keyword(k) : k \in Range(m.keywords)}
             C == {Raw(k) : k \in Range(m.categories)}
             scores == (A \cup B) \cup C
  <2>1. scores \in SUBSET Few /\ scores # {}
    <3> HIDE DEF Few
    <3>1. A \subseteq Few /\ A # {}
      BY <1>1
    <3>2. \A k : Keyword(k) \in Few /\ Raw(k) \in Few
      BY <1>1
    <3> HIDE DEF Keyword, Raw
    <3>3. B \subseteq Few /\ C \subseteq Few
      BY <3>2
    <3> HIDE DEF A, B, C
    <3>4. QED
      BY <3>1, <3>3
  <2>2. ScoreMatch(m, n) = CHOOSE x \in scores : \A y \in scores : y <= x
    BY DEF ScoreMatch
  <2> HIDE DEF scores
  <2>3. \E x \in scores : \A y \in scores : y <= x
    <3> DEFINE b == 1000
    <3>1. scores \in SUBSET Nat /\ scores # {} /\ b \in Nat /\ \A x \in scores : x <= b
      BY <2>1
    <3> HIDE DEF b
    <3>2. QED
      BY <3>1, BestExists, Zenon
  <2>4. ScoreMatch(m, n) \in scores
    BY <2>2, <2>3
  <2>5. ScoreMatch(m, n) \in Nat
    BY <2>1, <2>4
  <2>6. QED
    BY <2>5
<1>3. QED
  BY <1>2

LEMMA IdsFinite == IsFiniteSet(Ids)
<1> DEFINE I == {IdOf[p] : p \in Places}
           f == [p \in Places |-> IdOf[p]]
<1>1. f \in Surjection(Places, I)
  BY DEF Surjection
<1>2. IsFiniteSet(Places)
  BY CatalogAssumption
<1> HIDE DEF f, I
<1>3. IsFiniteSet(I)
  BY <1>1, <1>2, FS_Surjection
<1>4. IsFiniteSet({Builtin})
  BY FS_Singleton
<1>5. IsFiniteSet(I \cup {Builtin})
  BY <1>3, <1>4, FS_Union
<1>6. QED
  BY <1>5 DEF Ids, I

\* What a search lists are ids of applications that are in the catalog.
LEMMA SearchIs ==
  ASSUME NEW cat, NEW k, NEW n \in 0 .. MaxQuery
  PROVE  LET s == Search(cat, Shelf, k, n) IN
         s \in Seq(Ids) /\ \A i \in DOMAIN s : cat[s[i]] \in Applications
<1> DEFINE Listed == {id \in Ids : /\ cat[id] \in DOMAIN Shelf
                                   /\ k \in Shelf[cat[id]].in
                                   /\ n = 0 \/ Shelf[cat[id]].score[n] > 0}
           Score(id) == Shelf[cat[id]].score[n]
           R == {p \in Listed \X Listed : \/ Score(p[1]) > Score(p[2])
                                          \/ Score(p[1]) = Score(p[2]) /\ Rank[p[1]] < Rank[p[2]]}
           s == Search(cat, Shelf, k, n)
<1>1. s = Sorted(Listed, R)
  BY DEF Search
<1>2. ASSUME NEW c \in DOMAIN Shelf
      PROVE  c \in Applications /\ Shelf[c].score[n] \in Int
  <2>1. c \in Applications
    BY DEF Shelf
  <2>2. Shelf[c].score = [x \in 0 .. MaxQuery |-> IF x = 0 THEN 0 ELSE ScoreMatch(Meta[c], x)]
    BY DEF Shelf
  <2>3. QED
    BY <2>1, <2>2, ScoreIsInt
<1>3. \A id \in Listed : Score(id) \in Int /\ Rank[id] \in Nat /\ id \in Ids /\ cat[id] \in Applications
  BY <1>2, LauncherAssumption
<1>4. \A a, b \in Listed : Rank[a] = Rank[b] => a = b
  BY LauncherAssumption
<1>5. IsFiniteSet(Listed)
  BY IdsFinite, FS_Subset
<1>6. \A a, b \in Listed : <<a, b>> \in R <=> \/ Score(a) > Score(b)
                                              \/ Score(a) = Score(b) /\ Rank[a] < Rank[b]
  OBVIOUS
<1> HIDE DEF Listed, R, Score
<1>7. /\ \A x \in Listed : <<x, x>> \notin R
      /\ \A x, y, z \in Listed : <<x, y>> \in R /\ <<y, z>> \in R => <<x, z>> \in R
      /\ \A x, y \in Listed : x = y \/ <<x, y>> \in R \/ <<y, x>> \in R
  <2>1. \A x \in Listed : <<x, x>> \notin R
    BY <1>3, <1>6
  <2>2. \A x, y, z \in Listed : <<x, y>> \in R /\ <<y, z>> \in R => <<x, z>> \in R
    BY <1>3, <1>6
  <2>3. ASSUME NEW x \in Listed, NEW y \in Listed, x # y
        PROVE  <<x, y>> \in R \/ <<y, x>> \in R
    <3>1. Rank[x] # Rank[y]
      BY <1>4, <2>3
    <3>2. \/ Score(x) > Score(y) \/ Score(y) > Score(x)
          \/ Score(x) = Score(y) /\ (Rank[x] < Rank[y] \/ Rank[y] < Rank[x])
      BY <1>3, <3>1
    <3>3. QED
      BY <1>6, <3>2
  <2>4. QED
    BY <2>1, <2>2, <2>3
<1>8. Sorted(Listed, R) \in Seq(Listed)
  BY <1>5, <1>7, SortedIs
<1>9. s \in Seq(Listed)
  BY <1>1, <1>8
<1> HIDE DEF s
<1>10. \A i \in DOMAIN s : s[i] \in Listed
  BY <1>9
<1>11. s \in Seq(Ids)
  BY <1>3, <1>9, <1>10
<1>12. QED
  BY <1>3, <1>10, <1>11 DEF s

-----------------------------------------------------------------------------
(* The catalog.                                                             *)

\* What the places P of the disk as it is would give for id.
BestOf(id, P) ==
  LET V == {p \in P : IdOf[p] = id /\ IsApplication(disk[p])}
  IN  IF V = {} THEN {Absent}
      ELSE {disk[p] : p \in {q \in V : \A r \in V : DirOf[q] <= DirOf[r]}}

\* While the places are read in the order of their directories, and nothing has
\* changed of an id, what was found for it is the best of what was read.
ScanFresh ==
  Scanning => /\ \A p \in Places \ todo, q \in todo : DirOf[p] <= DirOf[q]
              /\ ~events => \A id \in Ids \ unseen : found[id] \in BestOf(id, Places \ todo)

CatalogInv == CatalogTypeOK /\ ScanFresh /\ CatalogFresh

LEMMA BestIsOf == \A id : Best(id) = BestOf(id, Places)
BY DEF Best, BestOf

LEMMA PlacesHaveIds == \A p \in Places : IdOf[p] \in Ids /\ DirOf[p] \in Dirs /\ DirOf[p] \in Nat
BY CatalogAssumption DEF Ids, Dirs

\* Where the disk is the same, the best is.
LEMMA BestDepends ==
  ASSUME NEW id, NEW P, \A p \in P : IdOf[p] = id => disk'[p] = disk[p]
  PROVE  BestOf(id, P)' = BestOf(id, P)
<1> DEFINE V == {p \in P : IdOf[p] = id /\ IsApplication(disk[p])}
           W == {p \in P : IdOf[p] = id /\ IsApplication(disk'[p])}
           B == {q \in V : \A r \in V : DirOf[q] <= DirOf[r]}
<1>1. V = W
  OBVIOUS
<1>2. {disk'[p] : p \in B} = {disk[p] : p \in B}
  OBVIOUS
<1>3. BestOf(id, P) = IF V = {} THEN {Absent} ELSE {disk[p] : p \in B}
  BY DEF BestOf
<1>4. BestOf(id, P)' = IF W = {} THEN {Absent}
                       ELSE {disk'[p] : p \in {q \in W : \A r \in W : DirOf[q] <= DirOf[r]}}
  BY DEF BestOf, IsApplication
<1>5. QED
  BY <1>1, <1>2, <1>3, <1>4

LEMMA CatalogInit == CInit => CatalogInv
<1> SUFFICES ASSUME CInit PROVE CatalogInv
  OBVIOUS
<1>1. Absent \in OnDisk /\ OnDisk \subseteq Contents /\ Installed \subseteq OnDisk
  BY CatalogAssumption DEF OnDisk
<1>2. Empty \in [Ids -> OnDisk] /\ Empty \in [Ids -> Contents]
  BY <1>1 DEF Empty
<1>3. changes \in 0 .. MaxChanges
  BY CatalogAssumption DEF CInit
<1>4. CatalogTypeOK
  BY <1>1, <1>2, <1>3 DEF CInit, CatalogTypeOK
<1>5. ScanFresh
  <2>1. Places \ todo = {}
    BY DEF CInit
  <2>2. \A id \in Ids : found[id] = Absent
    BY DEF CInit, Empty
  <2>3. \A id : BestOf(id, {}) = {Absent}
    BY DEF BestOf
  <2>4. QED
    BY <2>1, <2>2, <2>3 DEF ScanFresh
<1>6. CatalogFresh
  BY DEF CInit, CatalogFresh, Idle
<1>7. QED
  BY <1>4, <1>5, <1>6 DEF CatalogInv

\* Other programs: either the change is noticed, or its ids are.
LEMMA ChangePreserves ==
  ASSUME CatalogInv, NEW P \in SUBSET Places, NEW seen \in BOOLEAN, Noticed(P, seen),
         disk' \in [Places -> OnDisk], \A p \in Places \ P : disk'[p] = disk[p],
         exists' \in SUBSET Dirs, watched' \in SUBSET exists', subs' \in SUBSET Nested,
         UNCHANGED <<phase, todo, listed, found, catalog>>
  PROVE  CatalogInv'
<1>1. CatalogTypeOK /\ ScanFresh /\ CatalogFresh
  BY DEF CatalogInv
<1>2. changes' \in 0 .. MaxChanges
  BY <1>1, CatalogAssumption DEF Noticed, CatalogTypeOK
<1>3. events' \in BOOLEAN
  BY <1>1 DEF Noticed, CatalogTypeOK
<1>4. unseen' \in SUBSET Ids
  BY <1>1, PlacesHaveIds DEF Noticed, CatalogTypeOK
<1>5. CatalogTypeOK'
  BY <1>1, <1>2, <1>3, <1>4 DEF CatalogTypeOK
<1>6. ASSUME ~events', NEW id \in Ids \ unseen'
      PROVE  ~events /\ id \in Ids \ unseen /\ \A Q \in SUBSET Places : BestOf(id, Q)' = BestOf(id, Q)
  <2>1. ~events /\ ~seen
    BY <1>6 DEF Noticed
  <2>2. id \notin unseen /\ \A p \in P : IdOf[p] # id
    BY <1>6, <2>1 DEF Noticed
  <2>3. \A p \in Places : IdOf[p] = id => disk'[p] = disk[p]
    BY <2>2
  <2>4. QED
    BY <1>6, <2>1, <2>2, <2>3, BestDepends
<1>7. ScanFresh'
  <2>1. Places \ todo \in SUBSET Places
    OBVIOUS
  <2>2. ASSUME Scanning, ~events', NEW id \in Ids \ unseen'
        PROVE  found[id] \in BestOf(id, Places \ todo)'
    BY <1>1, <1>6, <2>1, <2>2 DEF ScanFresh
  <2>3. UNCHANGED <<todo, found, Scanning>>
    BY DEF Scanning
  <2>4. QED
    BY <1>1, <2>2, <2>3 DEF ScanFresh, BestOf
<1>8. CatalogFresh'
  <2>1. ASSUME Idle, ~events', NEW id \in Ids \ unseen'
        PROVE  catalog[id] \in Best(id)'
    <3>1. Best(id)' = BestOf(id, Places)' /\ Best(id) = BestOf(id, Places)
      BY DEF Best, BestOf
    <3>2. BestOf(id, Places)' = BestOf(id, Places) /\ ~events /\ id \in Ids \ unseen
      BY <1>6, <2>1
    <3>3. catalog[id] \in Best(id)
      BY <1>1, <2>1, <3>2 DEF CatalogFresh
    <3>4. QED
      BY <3>1, <3>2, <3>3
  <2>2. UNCHANGED <<catalog, Idle>>
    BY DEF Idle
  <2>3. QED
    BY <2>1, <2>2 DEF CatalogFresh
<1>9. QED
  BY <1>5, <1>7, <1>8 DEF CatalogInv

LEMMA DiskPreserves ==
  ASSUME CatalogInv, Disk
  PROVE  CatalogInv'
<1>1. CatalogTypeOK
  BY DEF CatalogInv
<1>2. ASSUME NEW p \in Places, NEW c \in OnDisk, Write(p, c)
      PROVE  CatalogInv'
  <2>1. /\ disk' = [disk EXCEPT ![p] = c] /\ exists' = exists \cup {DirOf[p]}
        /\ Noticed({p}, DirOf[p] \in watched /\ p \notin Nested)
        /\ subs' = IF c = Absent THEN subs ELSE subs \cup ({p} \cap Nested)
        /\ UNCHANGED <<watched, phase, todo, listed, found, catalog>>
    BY <1>2 DEF Write
  <2>2. disk' \in [Places -> OnDisk] /\ \A q \in Places \ {p} : disk'[q] = disk[q]
    BY <1>1, <2>1 DEF CatalogTypeOK
  <2>3. exists' \in SUBSET Dirs /\ watched' \in SUBSET exists' /\ subs' \in SUBSET Nested
    BY <1>1, <2>1, PlacesHaveIds DEF CatalogTypeOK
  <2>4. (DirOf[p] \in watched /\ p \notin Nested) \in BOOLEAN
    OBVIOUS
  <2>5. QED
    BY <2>1, <2>2, <2>3, <2>4, ChangePreserves
<1>3. ASSUME NEW p \in Places, NEW c \in OnDisk, Chmod(p, c)
      PROVE  CatalogInv'
  <2>1. /\ disk' = [disk EXCEPT ![p] = c] /\ Noticed({p}, FALSE)
        /\ UNCHANGED <<exists, subs, watched, phase, todo, listed, found, catalog>>
    BY <1>3 DEF Chmod
  <2>2. disk' \in [Places -> OnDisk] /\ \A q \in Places \ {p} : disk'[q] = disk[q]
    BY <1>1, <2>1 DEF CatalogTypeOK
  <2>3. exists' \in SUBSET Dirs /\ watched' \in SUBSET exists' /\ subs' \in SUBSET Nested
    BY <1>1, <2>1 DEF CatalogTypeOK
  <2>4. QED
    BY <2>1, <2>2, <2>3, ChangePreserves
<1>4. ASSUME NEW d \in Dirs, RemoveDir(d)
      PROVE  CatalogInv'
  <2> DEFINE P == {p \in Places : DirOf[p] = d}
  <2>1. /\ disk' = [p \in Places |-> IF DirOf[p] = d THEN Absent ELSE disk[p]]
        /\ exists' = exists \ {d} /\ watched' = watched \ {d}
        /\ Noticed(P, d \in watched) /\ subs' = {p \in subs : DirOf[p] # d}
        /\ UNCHANGED <<phase, todo, listed, found, catalog>>
    BY <1>4 DEF RemoveDir
  <2>2. Absent \in OnDisk
    BY CatalogAssumption DEF OnDisk
  <2>3. disk' \in [Places -> OnDisk] /\ \A q \in Places \ P : disk'[q] = disk[q]
    BY <1>1, <2>1, <2>2 DEF CatalogTypeOK
  <2>4. exists' \in SUBSET Dirs /\ watched' \in SUBSET exists' /\ subs' \in SUBSET Nested
    BY <1>1, <2>1 DEF CatalogTypeOK
  <2>5. P \in SUBSET Places /\ (d \in watched) \in BOOLEAN
    OBVIOUS
  <2> HIDE DEF P
  <2>6. QED
    BY <2>1, <2>3, <2>4, <2>5, ChangePreserves
<1>5. ASSUME NEW p \in Nested, RemoveSub(p)
      PROVE  CatalogInv'
  <2>1. /\ disk' = [disk EXCEPT ![p] = Absent] /\ Noticed({p}, FALSE) /\ subs' = subs \ {p}
        /\ UNCHANGED <<exists, watched, phase, todo, listed, found, catalog>>
    BY <1>5 DEF RemoveSub
  <2>2. Absent \in OnDisk /\ p \in Places
    BY CatalogAssumption DEF OnDisk
  <2>3. disk' \in [Places -> OnDisk] /\ \A q \in Places \ {p} : disk'[q] = disk[q]
    BY <1>1, <2>1, <2>2 DEF CatalogTypeOK
  <2>4. exists' \in SUBSET Dirs /\ watched' \in SUBSET exists' /\ subs' \in SUBSET Nested
    BY <1>1, <2>1 DEF CatalogTypeOK
  <2>5. QED
    BY <2>1, <2>2, <2>3, <2>4, ChangePreserves
<1>6. QED
  BY <1>2, <1>3, <1>4, <1>5 DEF Disk

\* The next file read is the best if none was found for its id before.
LEMMA ReadFinds ==
  ASSUME CatalogInv, NEW p \in Places, Read(p), NEW id \in Ids,
         found[id] \in BestOf(id, Places \ todo)
  PROVE  found'[id] \in BestOf(id, Places \ todo)'
<1> DEFINE P == Places \ todo
           Of(S) == {q \in S : IdOf[q] = id /\ IsApplication(disk[q])}
           First(S) == {q \in Of(S) : \A r \in Of(S) : DirOf[q] <= DirOf[r]}
<1>1. CatalogTypeOK /\ ScanFresh /\ Scanning
  BY DEF CatalogInv, Read, Turn
<1>2. /\ p \in todo /\ \A q \in todo : DirOf[p] <= DirOf[q]
      /\ todo' = todo \ {p} /\ found' = Found(p) /\ disk' = disk
  BY DEF Read, Turn
<1>3. Places \ todo' = P \cup {p} /\ p \notin P
  BY <1>1, <1>2 DEF CatalogTypeOK
<1>4. /\ BestOf(id, Places \ todo)' = IF Of(P \cup {p}) = {} THEN {Absent} ELSE {disk[q] : q \in First(P \cup {p})}
      /\ BestOf(id, P) = IF Of(P) = {} THEN {Absent} ELSE {disk[q] : q \in First(P)}
  BY <1>2, <1>3 DEF BestOf, IsApplication
<1>5. \A q \in P : DirOf[q] <= DirOf[p]
  BY <1>1, <1>2 DEF ScanFresh
<1>6. \A q \in Places : DirOf[q] \in Nat
  BY PlacesHaveIds
<1>7. \A q \in Places : IsApplication(disk[q]) => disk[q] # Absent
  BY DEF IsApplication, Applications
<1> HIDE DEF P
<1>8. CASE ~(IdOf[p] = id /\ IsApplication(disk[p]))
  <2>1. Of(P \cup {p}) = Of(P)
    BY <1>8
  <2>2. found'[id] = found[id]
    BY <1>1, <1>2, <1>8, PlacesHaveIds DEF Found, CatalogTypeOK
  <2>3. QED
    BY <1>4, <2>1, <2>2 DEF P
<1>9. CASE IdOf[p] = id /\ IsApplication(disk[p]) /\ Of(P) = {}
  <2>1. Of(P \cup {p}) = {p}
    BY <1>9
  <2>2. First(P \cup {p}) = {p}
    BY <1>6, <2>1
  <2>3. found[id] = Absent
    BY <1>4, <1>9 DEF P
  <2>4. found'[id] = disk[p]
    BY <1>1, <1>2, <1>9, <2>3 DEF Found, CatalogTypeOK
  <2>5. QED
    BY <1>4, <2>1, <2>2, <2>4
<1>10. CASE IdOf[p] = id /\ IsApplication(disk[p]) /\ Of(P) # {}
  <2>1. PICK q \in First(P) : found[id] = disk[q]
    BY <1>4, <1>10 DEF P
  <2>2. q \in P /\ q \in Places /\ q \in Of(P) /\ \A r \in Of(P) : DirOf[q] <= DirOf[r]
    BY <2>1 DEF P
  <2>3. q \in First(P \cup {p})
    BY <1>5, <2>2
  <2>4. found[id] # Absent
    BY <1>7, <2>1, <2>2
  <2>5. found'[id] = disk[q]
    BY <1>1, <1>2, <1>10, <2>1, <2>4 DEF Found
  <2>6. QED
    BY <1>4, <2>3, <2>5
<1>11. QED
  BY <1>8, <1>9, <1>10

LEMMA MainPreserves ==
  ASSUME CatalogInv, Main
  PROVE  CatalogInv'
<1>1. CatalogTypeOK /\ ScanFresh /\ CatalogFresh
  BY DEF CatalogInv
<1>2. Absent \in OnDisk /\ OnDisk \subseteq Contents /\ Settings \in Contents
  BY CatalogAssumption DEF OnDisk
<1>3. Empty \in [Ids -> OnDisk] /\ Empty \in [Ids -> Contents]
  BY <1>2 DEF Empty
<1>4. ASSUME NEW p \in Places, Read(p)
      PROVE  CatalogInv'
  <2>1. /\ Scanning /\ p \in todo /\ todo' = todo \ {p} /\ found' = Found(p)
        /\ \A q \in todo : DirOf[p] <= DirOf[q]
        /\ listed' = listed \ {p}
        /\ UNCHANGED <<disk, exists, subs, watched, events, phase, catalog, unseen, changes>>
    BY <1>4 DEF Read, Turn
  <2>2. found' \in [Ids -> OnDisk]
    BY <1>1, <2>1 DEF Found, CatalogTypeOK
  <2>3. CatalogTypeOK'
    BY <1>1, <2>1, <2>2 DEF CatalogTypeOK
  <2>4. ScanFresh'
    <3>1. \A a \in Places \ todo', b \in todo' : DirOf[a] <= DirOf[b]
      BY <1>1, <2>1 DEF ScanFresh
    <3>2. ASSUME ~events, NEW id \in Ids \ unseen
          PROVE  found'[id] \in BestOf(id, Places \ todo)'
      <4>1. found[id] \in BestOf(id, Places \ todo)
        BY <1>1, <2>1, <3>2 DEF ScanFresh
      <4>2. QED
        BY <1>4, <4>1, ReadFinds
    <3>3. QED
      BY <2>1, <3>1, <3>2 DEF ScanFresh
  <2>5. CatalogFresh'
    BY <2>1 DEF CatalogFresh, Idle, Scanning
  <2>6. QED
    BY <2>3, <2>4, <2>5 DEF CatalogInv
<1>5. CASE Update
  <2>1. /\ Scanning /\ todo = {} /\ catalog' = found /\ found' = Empty
        /\ phase' = IF phase = "Scan" THEN "Scanned" ELSE "Idle"
        /\ UNCHANGED <<disk, exists, subs, watched, events, todo, listed, unseen, changes>>
    BY <1>5 DEF Update
  <2>2. catalog' \in [Ids -> Contents]
    BY <1>1, <1>2, <2>1 DEF CatalogTypeOK
  <2>3. CatalogTypeOK'
    BY <1>1, <1>3, <2>1, <2>2 DEF CatalogTypeOK
  <2>4. ScanFresh'
    BY <2>1 DEF ScanFresh, Scanning
  <2>5. ASSUME ~events, NEW id \in Ids \ unseen
        PROVE  catalog'[id] \in Best(id)'
    <3>1. found[id] \in BestOf(id, Places \ todo) /\ Places \ todo = Places
      BY <1>1, <2>1, <2>5 DEF ScanFresh
    <3>2. BestOf(id, Places) = Best(id)'
      BY <2>1 DEF Best, BestOf, IsApplication
    <3>3. QED
      BY <2>1, <3>1, <3>2
  <2>6. CatalogFresh'
    BY <2>1, <2>5 DEF CatalogFresh
  <2>7. QED
    BY <2>3, <2>4, <2>6 DEF CatalogInv
<1>6. CASE StartMonitor
  <2>1. /\ phase' = "Watching" /\ watched' \in SUBSET exists
        /\ UNCHANGED <<disk, exists, subs, events, todo, listed, found, catalog, unseen, changes>>
    BY <1>6 DEF StartMonitor
  <2>2. CatalogTypeOK'
    BY <1>1, <2>1 DEF CatalogTypeOK
  <2>3. QED
    BY <2>1, <2>2 DEF CatalogInv, ScanFresh, Scanning, CatalogFresh, Idle
<1>7. CASE Register
  <2>1. /\ phase' = "Idle" /\ unseen' = Ids /\ catalog' = [Empty EXCEPT ![Builtin] = Settings]
        /\ UNCHANGED <<disk, exists, subs, watched, events, todo, listed, found, changes>>
    BY <1>7 DEF Register
  <2>2. catalog' \in [Ids -> Contents]
    BY <1>2, <1>3, <2>1
  <2>3. CatalogTypeOK'
    BY <1>1, <2>1, <2>2 DEF CatalogTypeOK
  <2>4. QED
    BY <2>1, <2>3 DEF CatalogInv, ScanFresh, Scanning, CatalogFresh
<1>8. CASE HandleInotify
  <2>1. /\ phase' = "Rescan" /\ events' = FALSE /\ todo' = Places /\ found' = Empty /\ unseen' = {} /\ listed' = {}
        /\ UNCHANGED <<disk, exists, subs, watched, catalog, changes>>
    BY <1>8 DEF HandleInotify, BeginScan
  <2>2. CatalogTypeOK'
    BY <1>1, <1>3, <2>1 DEF CatalogTypeOK
  <2>3. ScanFresh'
    <3>1. Places \ todo' = {}
      BY <2>1
    <3>2. \A id : BestOf(id, Places \ todo)' = {Absent}
      BY <3>1 DEF BestOf
    <3>3. \A id \in Ids : found'[id] = Absent
      BY <2>1 DEF Empty
    <3>4. QED
      BY <3>1, <3>2, <3>3 DEF ScanFresh
  <2>4. QED
    BY <2>1, <2>2, <2>3 DEF CatalogInv, CatalogFresh, Idle
<1>9. ASSUME NEW p \in Places, List(p)
      PROVE  CatalogInv'
  <2>1. /\ p \in subs /\ listed' = listed \cup {p}
        /\ UNCHANGED <<disk, exists, subs, watched, events, phase, todo, found, catalog, unseen, changes>>
    BY <1>9 DEF List
  <2>2. CatalogTypeOK'
    BY <1>1, <2>1 DEF CatalogTypeOK
  <2>3. QED
    BY <1>1, <2>1, <2>2
    DEF CatalogInv, ScanFresh, BestOf, IsApplication, Scanning, CatalogFresh, Best, Idle
<1>10. ASSUME NEW p \in Places, Throw(p)
       PROVE  CatalogInv'
  <2>1. /\ phase' = "Ended"
        /\ UNCHANGED <<disk, exists, subs, watched, events, todo, listed, found, catalog, unseen, changes>>
    BY <1>10 DEF Throw
  <2>2. CatalogTypeOK'
    BY <1>1, <2>1 DEF CatalogTypeOK
  <2>3. QED
    BY <2>1, <2>2 DEF CatalogInv, ScanFresh, Scanning, CatalogFresh, Idle
\* What is passed over is not claimed, and the best of the rest is as it was.
<1>11. ASSUME NEW d \in Dirs, PassOver(d)
       PROVE  CatalogInv'
  <2> DEFINE P == {p \in Places : DirOf[p] = d}
             I == {IdOf[p] : p \in P}
  <2>1. /\ todo' = todo \ P /\ unseen' = unseen \cup I
        /\ changes < MaxChanges /\ changes' = changes + 1 /\ P \subseteq todo /\ \A p \in P : Turn(p)
        /\ UNCHANGED <<disk, exists, subs, watched, events, phase, listed, found, catalog>>
    BY <1>11 DEF PassOver
  <2>2. \E p \in Places : p \in P
    BY DEF Dirs
  <2>3. Scanning /\ \A q \in todo : d <= DirOf[q]
    BY <2>1, <2>2 DEF Turn
  <2>4. P \subseteq Places /\ I \subseteq Ids /\ \A p \in P : DirOf[p] = d /\ IdOf[p] \in I
    BY PlacesHaveIds
  <2> HIDE DEF P, I
  <2>5. changes' \in 0 .. MaxChanges
    BY <1>1, <2>1, CatalogAssumption DEF CatalogTypeOK
  <2>6. todo' \in SUBSET Places /\ unseen' \in SUBSET Ids
    BY <1>1, <2>1, <2>4 DEF CatalogTypeOK
  <2>7. CatalogTypeOK'
    BY <1>1, <2>1, <2>5, <2>6 DEF CatalogTypeOK
  <2>8. ASSUME NEW a \in Places \ todo', NEW b \in todo' PROVE DirOf[a] <= DirOf[b]
    BY <1>1, <2>1, <2>3, <2>4, <2>8 DEF ScanFresh
  <2>9. ASSUME ~events, NEW id \in Ids \ unseen'
        PROVE  found'[id] \in BestOf(id, Places \ todo)'
    <3>1. {p \in Places \ todo' : IdOf[p] = id /\ IsApplication(disk[p])}
            = {p \in Places \ todo : IdOf[p] = id /\ IsApplication(disk[p])}
      BY <2>1, <2>4, <2>9
    <3>2. BestOf(id, Places \ todo)' = BestOf(id, Places \ todo)
      BY <2>1, <3>1 DEF BestOf, IsApplication
    <3>3. found[id] \in BestOf(id, Places \ todo)
      BY <1>1, <2>1, <2>3, <2>9 DEF ScanFresh
    <3> QED BY <2>1, <3>2, <3>3
  <2>10. ScanFresh'
    BY <2>1, <2>8, <2>9 DEF ScanFresh
  <2>11. CatalogFresh'
    BY <2>1, <2>3 DEF CatalogFresh, Idle, Scanning
  <2>12. QED
    BY <2>7, <2>10, <2>11 DEF CatalogInv
<1>12. QED
  BY <1>4, <1>5, <1>6, <1>7, <1>8, <1>9, <1>10, <1>11 DEF Main, Scan

-----------------------------------------------------------------------------
(* The launcher.                                                            *)

States == {"Closed", "Open", "Searching", "Launching", "LaunchFailed"}

\* A launcher, of whatever category and with whatever chips.
Launchers(cat, chips) ==
  [st : States, query : 0 .. MaxQuery, cat : {cat}, items : Seq(Ids), sel : Nat, press : Nat,
   touch : {"None", "Down", "Scroll"}, chips : {chips}]

\* Its selection is one of its items or none, and its items are in the catalog c.
Fits(u, c) ==
  /\ u \in Launchers(u.cat, u.chips) /\ u.sel <= Len(u.items)
  /\ \A i \in DOMAIN u.items : c[u.items[i]] \in Applications

\* What the handlers make of a launcher in state st that does not launch.
Good(u, st) == Fits(u, catalog) /\ u.st \in {st, "Open", "Closed", "Searching"}

LEMMA FitsIs ==
  ASSUME NEW u, NEW c, Fits(u, c)
  PROVE  /\ u \in Launchers(u.cat, u.chips) /\ u.st \in States /\ u.query \in 0 .. MaxQuery
         /\ u.items \in Seq(Ids) /\ Len(u.items) \in Nat /\ DOMAIN u.items = 1 .. Len(u.items)
         /\ u.sel \in Nat /\ u.press \in Nat /\ u.sel <= Len(u.items)
         /\ \A i \in DOMAIN u.items : c[u.items[i]] \in Applications
BY DEF Fits, Launchers

\* The list is built anew, from any catalog.
LEMMA RefilterIs ==
  ASSUME NEW u, u \in Launchers(u.cat, u.chips), NEW c
  PROVE  Fits(Refilter(c, u), c) /\ Refilter(c, u).st = u.st
<1> DEFINE items == Search(c, Shelf, u.cat, u.query)
           n == Len(items)
           sel == IF u.sel > n THEN n ELSE u.sel
           v == [u EXCEPT !.items = items, !.sel = sel]
<1>1. items \in Seq(Ids) /\ \A i \in DOMAIN items : c[items[i]] \in Applications
  <2>1. u.query \in 0 .. MaxQuery
    BY DEF Launchers
  <2>2. QED
    BY <2>1, SearchIs
<1>2. Refilter(c, u) = v
  BY DEF Refilter, Listing, Launchers
<1> HIDE DEF items
<1>3. n \in Nat
  BY <1>1
<1>4. sel \in Nat /\ sel <= n
  BY <1>3 DEF Launchers
<1> HIDE DEF sel
<1>5. v \in Launchers(v.cat, v.chips) /\ v.items = items /\ v.sel = sel /\ v.st = u.st
  BY <1>1, <1>4 DEF Launchers
<1>6. QED
  BY <1>1, <1>2, <1>4, <1>5 DEF Fits

LEMMA QueryGood ==
  ASSUME NEW u, NEW st, Good(u, st), NEW n \in 0 .. MaxQuery
  PROVE  Good(Query(u, n), st)
<1> DEFINE v == [u EXCEPT !.query = n]
<1>1. v \in Launchers(v.cat, v.chips) /\ v.st = u.st
  BY DEF Good, Fits, Launchers
<1> HIDE DEF v
<1>2. QED
  BY <1>1, RefilterIs DEF Good, Query, v

LEMMA CategoryGood ==
  ASSUME NEW u, NEW st, Good(u, st), NEW k
  PROVE  Good(Category(u, k), st)
<1> DEFINE v == [u EXCEPT !.cat = k]
<1>1. v \in Launchers(v.cat, v.chips) /\ v.st = u.st
  BY DEF Good, Fits, Launchers
<1> HIDE DEF v
<1>2. QED
  BY <1>1, RefilterIs DEF Good, Category, v

LEMMA SelectGood ==
  ASSUME NEW u, NEW st, Good(u, st), NEW i
  PROVE  Good(SelectIndex(u, i), st)
<1> DEFINE j == IF i \in DOMAIN u.items THEN i ELSE NoItem
           v == SelectIndex(u, i)
<1>1. j \in Nat /\ j <= Len(u.items)
  BY FitsIs DEF Good, NoItem
<1>2. v = [u EXCEPT !.sel = j]
  BY DEF SelectIndex
<1> HIDE DEF j
<1>3. /\ v \in Launchers(v.cat, v.chips) /\ v.st = u.st /\ v.items = u.items /\ v.sel = j
  BY <1>1, <1>2 DEF Good, Fits, Launchers
<1> HIDE DEF v
<1>4. QED
  BY <1>1, <1>3 DEF Good, Fits, v

\* Changes of the state, the finger and the chips leave the list alone.
LEMMA AlikeGood ==
  ASSUME NEW u, NEW st, Good(u, st), NEW v, v \in Launchers(v.cat, v.chips),
         v.items = u.items, v.sel = u.sel, v.st \in {u.st, "Open", "Closed", "Searching"}
  PROVE  Good(v, st)
BY DEF Good, Fits

LEMMA StatesGood ==
  ASSUME NEW u, NEW st, Good(u, st)
  PROVE  /\ Good(StartSearching(u), st) /\ Good(StopSearching(u), st) /\ Good(Closed(u), st)
         /\ Good([u EXCEPT !.st = "Open"], st)
<1>1. u \in Launchers(u.cat, u.chips)
  BY DEF Good, Fits
<1>2. Good(StartSearching(u), st)
  <2> DEFINE v == StartSearching(u)
  <2>1. /\ v \in Launchers(v.cat, v.chips) /\ v.items = u.items /\ v.sel = u.sel
        /\ v.st \in {u.st, "Searching"}
    BY <1>1 DEF StartSearching, Launchers, States
  <2> HIDE DEF v
  <2>2. QED
    BY <2>1, AlikeGood DEF v
<1>3. Good(StopSearching(u), st)
  <2> DEFINE v == StopSearching(u)
  <2>1. /\ v \in Launchers(v.cat, v.chips) /\ v.items = u.items /\ v.sel = u.sel
        /\ v.st \in {u.st, "Open"}
    BY <1>1 DEF StopSearching, Launchers, States
  <2> HIDE DEF v
  <2>2. QED
    BY <2>1, AlikeGood DEF v
<1>4. Good(Closed(u), st)
  <2> DEFINE v == Closed(u)
  <2>1. v \in Launchers(v.cat, v.chips) /\ v.items = u.items /\ v.sel = u.sel /\ v.st = "Closed"
    BY <1>1 DEF Closed, Launchers, States, NoItem
  <2> HIDE DEF v
  <2>2. QED
    BY <2>1, AlikeGood DEF v
<1>5. Good([u EXCEPT !.st = "Open"], st)
  <2> DEFINE v == [u EXCEPT !.st = "Open"]
  <2>1. v \in Launchers(v.cat, v.chips) /\ v.items = u.items /\ v.sel = u.sel /\ v.st = "Open"
    BY <1>1 DEF Launchers, States
  <2> HIDE DEF v
  <2>2. QED
    BY <2>1, AlikeGood DEF v
<1>6. QED
  BY <1>2, <1>3, <1>4, <1>5

LEMMA OpenedGood ==
  ASSUME NEW u, NEW st, Good(u, st)
  PROVE  Good(Opened(u), st)
BY StatesGood, SelectGood DEF Opened

LEMMA FingerGood ==
  ASSUME NEW u, NEW st, Good(u, st), NEW i \in Nat, NEW touch \in {"None", "Down", "Scroll"}
  PROVE  Good([u EXCEPT !.touch = touch, !.press = i], st) /\ Good([u EXCEPT !.touch = touch], st)
<1>1. u \in Launchers(u.cat, u.chips)
  BY DEF Good, Fits
<1>2. Good([u EXCEPT !.touch = touch, !.press = i], st)
  <2> DEFINE v == [u EXCEPT !.touch = touch, !.press = i]
  <2>1. v \in Launchers(v.cat, v.chips) /\ v.items = u.items /\ v.sel = u.sel /\ v.st = u.st
    BY <1>1 DEF Launchers
  <2> HIDE DEF v
  <2>2. QED
    BY <2>1, AlikeGood DEF v
<1>3. Good([u EXCEPT !.touch = touch], st)
  <2> DEFINE v == [u EXCEPT !.touch = touch]
  <2>1. v \in Launchers(v.cat, v.chips) /\ v.items = u.items /\ v.sel = u.sel /\ v.st = u.st
    BY <1>1 DEF Launchers
  <2> HIDE DEF v
  <2>2. QED
    BY <2>1, AlikeGood DEF v
<1>4. QED
  BY <1>2, <1>3

-----------------------------------------------------------------------------
(* The invariant.                                                           *)

Pipes == [at : {"None", "Close", "Read", "Wait"}, writers : SUBSET {"parent", "child"}, err : BOOLEAN]

\* The launcher waits exactly while there is a launch, and a child that has yet to
\* answer holds the pipe.
LauncherInv ==
  /\ l \in Launchers(l.cat, l.chips) /\ SelectionListed
  /\ pipe \in Pipes
  /\ child \in {"Forked", "Failing"} => "child" \in pipe.writers
  /\ child \in {"None", "Forked", "Running", "Failing", "Zombie", "Reaped"}
  /\ l.st = "Launching" <=> pipe # NoLaunch
  /\ pipe # NoLaunch => pipe.at # "None"
  /\ FailureLeavesNothing

IInv == CatalogInv /\ LauncherInv

\* What input comes to: the launcher is another one, or starts a program.
Outcome(st) ==
  \/ Good(l', st) /\ UNCHANGED <<pipe, child>>
  \/ \E u \in {u \in {l, Lifted(SelectIndex(l, l.press))} : Good(u, st)} : Start(u)

LEMMA FitsNow ==
  ASSUME IInv, Takes
  PROVE  Good(l, l.st) /\ l.st # "Launching"
BY DEF IInv, LauncherInv, Takes, SelectionListed, Count, Good, Fits

LEMMA OutcomePreserves ==
  ASSUME IInv, Takes, UNCHANGED cvars, Outcome(l.st)
  PROVE  IInv'
<1>1. CatalogInv'
  <2>1. CatalogInv /\ UNCHANGED <<disk, exists, subs, watched, events, phase, todo, listed, found, catalog, unseen, changes>>
    BY DEF IInv, cvars
  <2>2. QED
    BY <2>1 DEF CatalogInv, CatalogTypeOK, ScanFresh, BestOf, IsApplication, Scanning, CatalogFresh, Best, Idle
<1>2. catalog' = catalog /\ l.st # "Launching" /\ pipe = NoLaunch /\ LauncherInv
  BY FitsNow DEF cvars, Takes, IInv
<1>3. CASE Good(l', l.st) /\ UNCHANGED <<pipe, child>>
  BY <1>1, <1>2, <1>3 DEF Good, Fits, IInv, LauncherInv, SelectionListed, Count, FailureLeavesNothing
<1>4. ASSUME NEW u, Good(u, l.st), Start(u)
      PROVE  IInv'
  <2>1. u \in Launchers(u.cat, u.chips) /\ Fits(u, catalog)
    BY <1>4 DEF Good, Fits
  <2>2. CASE l' = [u EXCEPT !.st = "LaunchFailed"] /\ child' = "None" /\ UNCHANGED pipe
    <3>1. l' \in Launchers(l.cat, l.chips)' /\ l'.items = u.items /\ l'.sel = u.sel /\ l'.st = "LaunchFailed"
      BY <2>1, <2>2 DEF Launchers, States
    <3>2. QED
      BY <1>1, <1>2, <2>1, <2>2, <3>1 DEF Fits, IInv, LauncherInv, SelectionListed, Count, FailureLeavesNothing
  <2>3. CASE /\ l' = [u EXCEPT !.st = "Launching"] /\ child' = "Forked"
             /\ pipe' = [at |-> "Close", writers |-> {"parent", "child"}, err |-> FALSE]
    <3>1. l' \in Launchers(l.cat, l.chips)' /\ l'.items = u.items /\ l'.sel = u.sel /\ l'.st = "Launching"
      BY <2>1, <2>3 DEF Launchers, States
    <3>2. pipe' # NoLaunch /\ pipe' \in Pipes /\ "child" \in pipe'.writers /\ pipe'.at # "None"
      BY <2>3 DEF NoLaunch, Pipes
    <3>3. QED
      BY <1>1, <1>2, <2>1, <2>3, <3>1, <3>2 DEF Fits, IInv, LauncherInv, SelectionListed, Count, FailureLeavesNothing
  <2>4. QED
    BY <1>4, <2>2, <2>3 DEF Start
<1>5. QED
  BY <1>3, <1>4 DEF Outcome

LEMMA LaunchItemOutcome ==
  ASSUME NEW u \in {l, Lifted(SelectIndex(l, l.press))}, NEW st, Good(u, st), NEW i, LaunchItem(u, i)
  PROVE  Outcome(st)
BY StatesGood DEF LaunchItem, Outcome

LEMMA KeyOutcome ==
  ASSUME Good(l, l.st), Key
  PROVE  Outcome(l.st)
<1>1. l.query \in 0 .. MaxQuery /\ MaxQuery \in Nat
  BY FitsIs, LauncherAssumption DEF Good
<1>2. CASE Escape
  <2>1. Good(StopSearching(Query(l, 0)), l.st)
    <3>1. 0 \in 0 .. MaxQuery
      BY <1>1
    <3>2. Good(Query(l, 0), l.st)
      BY <3>1, QueryGood
    <3>3. QED
      BY <3>2, StatesGood
  <2>2. QED
    BY <1>2, <2>1, StatesGood DEF Escape, Quiet, Outcome
<1>3. CASE Enter
  BY <1>3, LaunchItemOutcome DEF Enter
<1>4. CASE Tab
  BY <1>4, SelectGood DEF Tab, Quiet, Outcome
<1>5. CASE Backspace
  <2>1. l.query - 1 \in 0 .. MaxQuery
    BY <1>1, <1>5 DEF Backspace
  <2>2. Good(Query(l, l.query - 1), l.st)
    BY <2>1, QueryGood
  <2>3. QED
    BY <1>5, <2>2, StatesGood DEF Backspace, Quiet, Outcome
<1>6. CASE Type
  <2>1. l.query + 1 \in 0 .. MaxQuery
    BY <1>1, <1>6 DEF Type
  <2>2. Good(Query(l, l.query + 1), l.st)
    BY <2>1, QueryGood
  <2>3. QED
    BY <1>6, <2>2, StatesGood DEF Type, Quiet, Outcome
<1>7. CASE Jump
  BY <1>7, SelectGood DEF Jump, Quiet, Outcome
<1>8. ASSUME NEW step \in {1, -1}, ArrowChip(step)
      PROVE  Outcome(l.st)
  <2>1. \E k : l' = Category(l, k)
    BY <1>8 DEF ArrowChip
  <2>2. Quiet
    BY <1>8 DEF ArrowChip
  <2>3. QED
    BY <2>1, <2>2, CategoryGood DEF Quiet, Outcome
<1>9. ASSUME NEW step \in {1, -1}, ArrowItem(step)
      PROVE  Outcome(l.st)
  BY <1>9, SelectGood DEF ArrowItem, Quiet, Outcome
<1>10. QED
  BY <1>2, <1>3, <1>4, <1>5, <1>6, <1>7, <1>8, <1>9 DEF Key

LEMMA TouchOutcome ==
  ASSUME Good(l, l.st), Touch
  PROVE  Outcome(l.st)
<1>1. l.query \in 0 .. MaxQuery /\ MaxQuery \in Nat /\ l.items \in Seq(Ids)
  BY FitsIs, LauncherAssumption DEF Good
<1>2. Good(Down(l), l.st)
  <2>1. 0 \in Nat
    OBVIOUS
  <2>2. QED
    BY <2>1, FingerGood DEF Down
<1>3. CASE TouchDown
  <2>1. Good(StopSearching(Query(Down(l), 0)), l.st)
    <3>1. 0 \in 0 .. MaxQuery
      BY <1>1
    <3>2. Good(Query(Down(l), 0), l.st)
      BY <1>2, <3>1, QueryGood
    <3>3. QED
      BY <3>2, StatesGood
  <2>2. Good(Closed(l), l.st) /\ Good(StartSearching(Down(l)), l.st)
    BY <1>2, StatesGood
  <2>3. \A k : Good(Category(Down(l), k), l.st)
    BY <1>2, CategoryGood
  <2>4. ASSUME NEW i \in 1 .. Count
        PROVE  Good([Down(l) EXCEPT !.press = i], l.st)
    <3>1. i \in Nat
      BY <1>1 DEF Count
    <3>2. [Down(l) EXCEPT !.press = i] = [l EXCEPT !.touch = "Down", !.press = i]
      BY DEF Down
    <3>3. QED
      BY <3>1, <3>2, FingerGood
  <2>5. UNCHANGED <<pipe, child>>
    BY <1>3 DEF TouchDown, Quiet
  <2>6. \/ l' \in {Closed(l), StopSearching(Query(Down(l), 0)), StartSearching(Down(l)), Down(l)}
        \/ \E k : l' = Category(Down(l), k)
        \/ \E i \in 1 .. Count : l' = [Down(l) EXCEPT !.press = i]
    BY <1>3 DEF TouchDown
  <2>7. QED
    BY <1>2, <2>1, <2>2, <2>3, <2>4, <2>5, <2>6 DEF Outcome
<1>4. CASE TouchMotion
  BY <1>4, FingerGood DEF TouchMotion, Quiet, Outcome, NoItem
<1>5. ASSUME NEW u, Good(u, l.st)
      PROVE  Good(Lifted(u), l.st)
  BY <1>5, FingerGood DEF Lifted, NoItem
<1>6. CASE TouchUp
  <2>1. Good(Lifted(SelectIndex(l, l.press)), l.st)
    BY <1>5, SelectGood
  <2>2. CASE LaunchItem(Lifted(SelectIndex(l, l.press)), l.press)
    BY <2>1, <2>2, LaunchItemOutcome
  <2>3. CASE l' = Lifted(l) /\ Quiet
    BY <1>5, <2>3 DEF Quiet, Outcome
  <2>4. QED
    BY <1>6, <2>2, <2>3 DEF TouchUp
<1>7. CASE TouchCancel
  BY <1>5, <1>7 DEF TouchCancel, Quiet, Outcome
<1>8. QED
  BY <1>3, <1>4, <1>6, <1>7 DEF Touch

LEMMA InputPreserves ==
  ASSUME IInv, Input
  PROVE  IInv'
<1>1. Takes /\ UNCHANGED cvars /\ Good(l, l.st)
  BY FitsNow DEF Input
<1>2. Outcome(l.st)
  <2>1. CASE Open
    BY <1>1, <2>1, OpenedGood DEF Open, Quiet, Outcome
  <2>2. CASE Close
    BY <1>1, <2>2, StatesGood DEF Close, Quiet, Outcome
  <2>3. CASE Layout
    <3> DEFINE n == Len(Chips(catalog))
               v == [l EXCEPT !.chips = n]
    <3>1. l' = v /\ UNCHANGED <<pipe, child>>
      BY <2>3 DEF Layout, Quiet
    <3> HIDE DEF n
    <3>2. v \in Launchers(v.cat, v.chips) /\ v.items = l.items /\ v.sel = l.sel /\ v.st = l.st
      BY <1>1 DEF Good, Fits, Launchers
    <3> HIDE DEF v
    <3>3. QED
      BY <1>1, <3>1, <3>2, AlikeGood DEF Outcome
  <2>4. QED
    BY <1>1, <2>1, <2>2, <2>3, KeyOutcome, TouchOutcome DEF Input
<1>3. QED
  BY <1>1, <1>2, OutcomePreserves

\* A launch: the main thread and the child.
LEMMA LaunchPreserves ==
  ASSUME IInv, Launches
  PROVE  IInv'
<1>1. CatalogInv' /\ catalog' = catalog /\ phase' = phase /\ LauncherInv
  <2>1. /\ CatalogInv /\ LauncherInv
        /\ UNCHANGED <<disk, exists, subs, watched, events, phase, todo, listed, found, catalog, unseen, changes>>
    BY DEF IInv, cvars, Launches
  <2>2. QED
    BY <2>1 DEF CatalogInv, CatalogTypeOK, ScanFresh, BestOf, IsApplication, Scanning, CatalogFresh, Best, Idle
\* The launcher stays as it is, or is left: its list is the same.
<1>2. ASSUME l' \in Launchers(l.cat, l.chips)', l'.items = l.items, l'.sel = l.sel
      PROVE  SelectionListed'
  BY <1>1, <1>2 DEF LauncherInv, SelectionListed, Count, Idle
<1>3. UNCHANGED l => l' \in Launchers(l.cat, l.chips)' /\ SelectionListed'
  BY <1>1, <1>2 DEF LauncherInv
<1>4. pipe \in Pipes /\ \A q : q.at # "None" => q # NoLaunch
  BY <1>1 DEF LauncherInv, NoLaunch
<1>5. CASE ParentCloses
  <2>1. /\ UNCHANGED <<l, child>> /\ pipe.at = "Close"
        /\ pipe' = [pipe EXCEPT !.at = "Read", !.writers = @ \ {"parent"}]
    BY <1>5 DEF ParentCloses
  <2>2. pipe' \in Pipes /\ pipe'.at = "Read" /\ ("child" \in pipe.writers => "child" \in pipe'.writers)
    BY <1>4, <2>1 DEF Pipes
  <2>3. pipe # NoLaunch /\ pipe' # NoLaunch
    BY <1>4, <2>1, <2>2
  <2>4. QED
    BY <1>1, <1>3, <2>1, <2>2, <2>3 DEF IInv, LauncherInv, FailureLeavesNothing
<1>6. CASE ParentReads
  <2>1. pipe.at = "Read" /\ UNCHANGED child /\ pipe # NoLaunch
    BY <1>4, <1>6 DEF ParentReads
  <2>2. CASE pipe.err
    <3>1. UNCHANGED l /\ pipe' = [pipe EXCEPT !.at = "Wait"]
      BY <1>6, <2>2 DEF ParentReads
    <3>2. pipe' \in Pipes /\ pipe'.at = "Wait" /\ pipe'.writers = pipe.writers
      BY <1>4, <3>1 DEF Pipes
    <3>3. pipe' # NoLaunch
      BY <1>4, <3>2
    <3>4. QED
      BY <1>1, <1>3, <2>1, <3>1, <3>2, <3>3 DEF IInv, LauncherInv, FailureLeavesNothing
  <2>3. CASE ~pipe.err
    <3>1. pipe.writers = {} /\ pipe' = NoLaunch /\ l' = Closed(l)
      BY <1>6, <2>3 DEF ParentReads
    <3>2. l' \in Launchers(l.cat, l.chips)' /\ l'.items = l.items /\ l'.sel = l.sel /\ l'.st = "Closed"
      BY <1>1, <3>1 DEF LauncherInv, Launchers, Closed, States, NoItem
    <3>3. SelectionListed'
      BY <1>2, <3>2
    <3>4. pipe' \in Pipes
      BY <3>1 DEF NoLaunch, Pipes
    <3>5. child \notin {"Forked", "Failing"}
      BY <1>1, <3>1 DEF LauncherInv
    <3>6. QED
      BY <1>1, <2>1, <3>1, <3>2, <3>3, <3>4, <3>5 DEF IInv, LauncherInv, FailureLeavesNothing
  <2>4. QED
    BY <2>2, <2>3
<1>7. CASE ParentReaps
  <2>1. pipe' = NoLaunch /\ l' = [l EXCEPT !.st = "LaunchFailed"] /\ child' = "Reaped"
    BY <1>7 DEF ParentReaps
  <2>2. l' \in Launchers(l.cat, l.chips)' /\ l'.items = l.items /\ l'.sel = l.sel /\ l'.st = "LaunchFailed"
    BY <1>1, <2>1 DEF LauncherInv, Launchers, States
  <2>3. SelectionListed'
    BY <1>2, <2>2
  <2>4. pipe' \in Pipes
    BY <2>1 DEF NoLaunch, Pipes
  <2>5. QED
    BY <1>1, <2>1, <2>2, <2>3, <2>4 DEF IInv, LauncherInv, FailureLeavesNothing
<1>8. CASE Child
  <2>1. UNCHANGED l /\ child \in {"Forked", "Failing"}
    BY <1>8 DEF Child, ChildExecs, ChildReports, ChildExits
  <2>2. "child" \in pipe.writers /\ pipe # NoLaunch
    BY <1>1, <2>1 DEF LauncherInv, NoLaunch
  <2>3. l.st = "Launching"
    BY <1>1, <2>2 DEF LauncherInv
  <2>4. pipe.at # "None"
    BY <1>1, <2>2 DEF LauncherInv
  <2>5. \/ pipe' = [pipe EXCEPT !.writers = @ \ {"child"}] /\ child' \in {"Running", "Zombie"}
        \/ pipe' = [pipe EXCEPT !.err = TRUE] /\ child' = "Failing"
    BY <1>8 DEF Child, ChildExecs, ChildReports, ChildExits
  <2>6. pipe' \in Pipes /\ pipe'.at = pipe.at /\ (child' = "Failing" => "child" \in pipe'.writers)
    BY <1>4, <2>2, <2>5 DEF Pipes
  <2>7. pipe' # NoLaunch
    BY <1>4, <2>4, <2>6
  <2>8. QED
    BY <1>1, <1>3, <2>1, <2>3, <2>5, <2>6, <2>7 DEF IInv, LauncherInv, FailureLeavesNothing
<1>9. QED
  BY <1>5, <1>6, <1>7, <1>8 DEF Launches, Parent

\* Another program changes the disk: the launcher does not see it.
LEMMA ChangesPreserve ==
  ASSUME IInv, Disk, UNCHANGED <<l, pipe, child>>
  PROVE  IInv'
<1>1. CatalogInv' /\ LauncherInv
  BY DiskPreserves DEF IInv
<1>2. phase' = phase /\ catalog' = catalog
  BY DEF Disk, Write, Chmod, RemoveSub, RemoveDir
<1>3. QED
  BY <1>1, <1>2 DEF IInv, LauncherInv, SelectionListed, Count, Idle, FailureLeavesNothing

\* A step of discovery: the list is built anew whenever the catalog may be another.
LEMMA DiscoversPreserves ==
  ASSUME IInv, Discovers
  PROVE  IInv'
<1>1. CatalogInv' /\ LauncherInv /\ UNCHANGED <<pipe, child>> /\ l.st # "Launching"
  BY MainPreserves DEF IInv, Discovers, Quiet, LauncherInv
<1>2. /\ phase = "Scan" => phase' \in {"Scan", "Scanned", "Ended"}
      /\ phase = "Scanned" => phase' = "Watching"
      /\ phase = "Idle" => phase' = "Rescan"
      /\ phase # "Ended"
  BY DEF Discovers, Main, Scan, Turn, List, Read, Throw, PassOver, Update, StartMonitor, Register,
         HandleInotify, Scanning, Idle, Dirs
<1>3. phase \in {"Scan", "Scanned", "Watching", "Idle", "Rescan", "Ended"} /\ l \in Launchers(l.cat, l.chips)
      /\ l.sel <= Len(l.items)
  BY DEF IInv, CatalogInv, CatalogTypeOK, LauncherInv, SelectionListed, Count
<1>4. CASE phase = "Scanned"
  <2> DEFINE n == Len(Chips(catalog))
  <2>1. l' = [l EXCEPT !.chips = n] /\ ~Idle'
    BY <1>2, <1>4 DEF Discovers, Idle
  <2> HIDE DEF n
  <2>2. l' \in Launchers(l.cat, l.chips)' /\ l'.items = l.items /\ l'.sel = l.sel /\ l'.st = l.st
    BY <1>3, <2>1 DEF Launchers
  <2>3. QED
    BY <1>1, <1>3, <2>1, <2>2 DEF IInv, LauncherInv, SelectionListed, Count, FailureLeavesNothing
<1>5. CASE phase \in {"Watching", "Rescan"}
  <2>1. l' = Refilter(catalog', l)
    BY <1>5 DEF Discovers
  <2>2. Fits(l', catalog') /\ l'.st = l.st
    BY <1>3, <2>1, RefilterIs
  <2>3. l' \in Launchers(l.cat, l.chips)' /\ SelectionListed'
    BY <2>2 DEF Fits, SelectionListed, Count
  <2>4. QED
    BY <1>1, <2>2, <2>3 DEF IInv, LauncherInv, FailureLeavesNothing
<1>6. CASE phase \in {"Scan", "Idle"}
  <2>1. l' = l /\ ~Idle'
    BY <1>2, <1>6 DEF Discovers, Idle
  <2>2. QED
    BY <1>1, <1>3, <2>1 DEF IInv, LauncherInv, SelectionListed, Count, FailureLeavesNothing
<1>7. QED
  BY <1>2, <1>3, <1>4, <1>5, <1>6

LEMMA InitInv == Init => IInv
<1> SUFFICES ASSUME Init PROVE IInv
  OBVIOUS
<1>1. CatalogInv /\ phase = "Scan"
  BY CatalogInit DEF Init, CInit
<1>2. <<>> \in Seq(Ids) /\ 0 \in 0 .. MaxQuery /\ Len(<<>>) = 0
  BY LauncherAssumption
<1>3. l \in Launchers(l.cat, l.chips) /\ l.st = "Closed" /\ l.sel = 0 /\ Len(l.items) = 0
  BY <1>2 DEF Init, Launchers, States, NoItem
<1>4. pipe = NoLaunch /\ pipe \in Pipes /\ child = "None"
  BY DEF Init, NoLaunch, Pipes
<1>5. QED
  BY <1>1, <1>3, <1>4 DEF IInv, LauncherInv, SelectionListed, Count, Idle, FailureLeavesNothing

-----------------------------------------------------------------------------
(* The theorems.                                                            *)

\* The list fits the catalog, the launch has the pipe it needs, and the scan has
\* found what was on the disk, in every reachable state.
THEOREM Invariance == Spec => []IInv
<1>1. Init => IInv
  BY InitInv
<1>2. IInv /\ [Next]_vars => IInv'
  <2> SUFFICES ASSUME IInv, [Next]_vars PROVE IInv'
    OBVIOUS
  <2>1. CASE Discovers
    BY <2>1, DiscoversPreserves
  <2>2. CASE Disk /\ UNCHANGED <<l, pipe, child>>
    BY <2>2, ChangesPreserve
  <2>3. CASE Input
    BY <2>3, InputPreserves
  <2>4. CASE Launches
    BY <2>4, LaunchPreserves
  <2>5. CASE UNCHANGED vars
    <3>1. /\ CatalogInv /\ LauncherInv /\ UNCHANGED <<l, pipe, child>>
          /\ UNCHANGED <<disk, exists, subs, watched, events, phase, todo, listed, found, catalog, unseen, changes>>
      BY <2>5 DEF vars, cvars, IInv
    <3>2. CatalogInv'
      BY <3>1 DEF CatalogInv, CatalogTypeOK, ScanFresh, BestOf, IsApplication, Scanning, CatalogFresh, Best, Idle
    <3>3. QED
      BY <3>1, <3>2 DEF IInv, LauncherInv, SelectionListed, Count, Idle, FailureLeavesNothing
  <2>6. QED
    BY <2>1, <2>2, <2>3, <2>4, <2>5 DEF Next
<1>3. QED
  BY <1>1, <1>2, PTL DEF Spec

\* While the program runs and no event is pending, the catalog has for every id what
\* a scan of the disk as it is now would give, whatever changed while the last one was
\* reading - but for ids with a change that raised no event (in a subdirectory, in a
\* directory without a watch, of permissions) or a directory that could not be opened.
THEOREM FreshCatalog == Spec => []CatalogFresh
<1>1. IInv => CatalogFresh
  BY DEF IInv, CatalogInv
<1>2. QED
  BY <1>1, Invariance, PTL

\* Each item of the list is an application of the catalog and the selection is an
\* item or none, however the catalog changes between the keys and the touches.
THEOREM SelectedIsListed == Spec => []SelectionListed
<1>1. IInv => SelectionListed
  BY DEF IInv, LauncherInv
<1>2. QED
  BY <1>1, Invariance, PTL

\* A launch that the controller reports as failed has left no process.
THEOREM FailureClean == Spec => []FailureLeavesNothing
<1>1. IInv => FailureLeavesNothing
  BY DEF IInv, LauncherInv
<1>2. QED
  BY <1>1, Invariance, PTL

=============================================================================
