--------------------------- MODULE NvmeScanProofs ---------------------------
(***************************************************************************)
(* The namespaces of a controller for any number of namespaces, any size   *)
(* of an Identify list, and any number of changes and failures.            *)
(*                                                                         *)
(* ListInv and HeldIsCounted are the books: every entry of the list is an  *)
(* object that was allocated and is not being removed, nobody is on it     *)
(* twice, and references are counted.  WalkInv keeps the pointers of the   *)
(* walks on the list, CountInv the counters of nvme_scan_ns_list within    *)
(* what the device may have.                                               *)
(*                                                                         *)
(* OrderInv says why nvme_find_get_ns, which stops at the first larger     *)
(* number, finds what is there although new entries go to the end of the   *)
(* list: an entry behind a larger one has a number that the scan has       *)
(* passed.  Right says how far an undisturbed scan has come: Settled       *)
(* numbers are on the list if and only if the device has them, and a page  *)
(* of the Identify list holds the next numbers and nothing else.           *)
(*                                                                         *)
(* A removal by the reset work may run beside the scan and take from under *)
(* it what it walks to; an undisturbed scan has no such company (WalkInv). *)
(* GoneInv follows the walk of nvme_uninit_ctrl, which is alone.           *)
(***************************************************************************)
EXTENDS NvmeScan, FiniteSetTheorems, SequenceTheorems, WellFoundedInduction, TLAPS

(* Objects and the list: nobody is on it twice, it holds exactly the       *)
(* namespaces that were allocated and are not being removed.               *)
ListInv ==
  /\ \A k, l \in DOMAIN list : list[k] = list[l] => k = l
  /\ \A o \in Objects :
       /\ o \in Listed <=> obj[o].nsid # 0 /\ ~obj[o].removing
       /\ obj[o].nsid = 0 => obj[o] = Unused

(* The pointers of the walks: to namespaces that were allocated, but on    *)
(* the list for certain only in a scan that nothing disturbed.             *)
WalkInv ==
  /\ scan.pc = "check" <=> scan.ns # None
  /\ scan.ns # None => obj[scan.ns].nsid = scan.nsid
  /\ scan.next # None => scan.pc = "prune" /\ obj[scan.next].nsid # 0
  /\ steady => /\ Live
               /\ scan.ns # None => scan.ns \in Listed
               /\ scan.next # None => scan.next \in Listed
  /\ remover.on => /\ work = "emptying" \/ rem = "gone"
                   /\ remover.cur # None /\ obj[remover.cur].nsid # 0
  /\ remover.next # None => remover.on /\ obj[remover.next].nsid # 0

(* The walk of nvme_uninit_ctrl takes the head of the list each time.      *)
GoneInv ==
  rem = "gone" =>
    /\ work \in {"rest", "dead"} /\ ~pending /\ scan.pc = "idle"
    /\ ~remover.on => list = <<>>
    /\ remover.on => /\ list # <<>> /\ remover.cur = list[1]
                     /\ remover.next = IF Len(list) = 1 THEN None ELSE list[2]

(* The last number of the list the scan has come to. *)
Listing == scan.mode = "list" /\ scan.pc \in {"list", "entry", "validate", "check", "alloc", "gap"}
Came == IF scan.pc \in {"list", "entry"} THEN scan.prev ELSE scan.nsid

(* The numbers the scan counts with. *)
CountInv ==
  /\ scan.pc # "sort"
  /\ scan.pc = "idle" => scan = Resting
  /\ scan.pc \in {"list", "entry", "gap"} => scan.mode = "list"
  /\ scan.pc \in {"validate", "check", "alloc"} =>
       /\ scan.prev < scan.nsid
       /\ scan.nsid <= MaxNs \/ (scan.pc = "validate" /\ scan.mode = "sequential")
  /\ scan.pc = "gap" => scan.prev <= scan.nsid /\ scan.nsid <= MaxNs
  /\ Listing =>
       /\ 1 <= scan.lists /\ scan.nn <= scan.lists * PageSize
       /\ scan.pc = "list" => MaxNs <= Came + scan.nn
       /\ scan.pc # "list" =>
            /\ scan.j <= scan.nn /\ scan.j <= PageSize /\ MaxNs + scan.j <= Came + scan.nn
            /\ \A n \in scan.page : Came < n

(* Numbers below Bound may be at the end of the list, where the scan put   *)
(* them; all others are where the last sort put them.                      *)
Bound ==
  IF scan.pc = "idle" THEN 0
  ELSE IF scan.pc = "prune" THEN MaxNs + 1
  ELSE IF scan.pc \in {"validate", "check", "alloc"} THEN scan.nsid
  ELSE Came + 1

Good == ~spoilt \/ steady
OrderInv ==
  /\ scan.pc = "idle" =>
       \A k, l \in DOMAIN list : k < l => obj[list[k]].nsid <= obj[list[l]].nsid
  /\ Good =>
       /\ \A k, l \in DOMAIN list : k < l =>
            \/ obj[list[k]].nsid < obj[list[l]].nsid
            \/ /\ obj[list[l]].nsid < obj[list[k]].nsid /\ obj[list[l]].nsid < Bound
               /\ steady => obj[list[l]].nsid \in active
       /\ scan.pc = "alloc" => \A o \in Listed : obj[o].nsid # scan.nsid

(* The numbers an undisturbed scan has dealt with. *)
Settled(n) ==
  IF scan.pc \in {"idle", "prune", "sort"} THEN n <= scan.prev \/ scan.pc = "idle"
  ELSE IF scan.mode = "sequential" THEN n < scan.nsid
  ELSE IF scan.pc = "gap" THEN n < scan.prev \/ n = scan.nsid
  ELSE n <= scan.prev

(* Numbers an Identify list may still bring. *)
ToCome(j, p) ==
  {n \in active : n > p /\ Cardinality({k \in active : p < k /\ k < n}) < PageSize - j}

(* Of an undisturbed scan: no namespace is dead; for the numbers it dealt  *)
(* with, the list is right; no active number is between the last number of *)
(* the list and the present one, nor in what is left of the gap; the page  *)
(* holds what is to come; and past the last number only entries that the   *)
(* removal has not reached are left.                                       *)
Alive == \A o \in Listed : ~obj[o].dead
SettledRight == \A n \in Ids : Settled(n) => (n \in ListedIds <=> n \in active)
NoneBetween ==
  scan.mode = "list" /\ scan.pc \in {"validate", "check", "alloc"} =>
    scan.nsid \in active /\ \A m \in active : m <= scan.prev \/ scan.nsid <= m
NoneInGap ==
  scan.pc = "gap" => scan.nsid \in active /\ \A m \in active : m < scan.prev \/ scan.nsid <= m
PageRight == Listing /\ scan.pc # "list" => scan.page = ToCome(scan.j, Came)
PruneRight ==
  scan.pc = "prune" =>
    /\ \A m \in active : m <= scan.prev
    /\ scan.next = None => \A o \in Listed : obj[o].nsid <= scan.prev
    /\ \A k, l \in DOMAIN list : list[l] = scan.next /\ k < l => obj[list[k]].nsid <= scan.prev

Right == Alive /\ SettledRight /\ NoneBetween /\ NoneInGap /\ PageRight /\ PruneRight
SteadyInv == steady => Right

ScanInv ==
  TypeOK /\ HeldIsCounted /\ ListInv /\ WalkInv /\ GoneInv /\ CountInv /\ OrderInv /\ SteadyInv

(* A set of natural numbers has a smallest one. *)
LEMMA Smallest ==
  ASSUME NEW T \in SUBSET Nat, T # {}
  PROVE  \E x \in T : \A y \in T : x <= y
<1> DEFINE R == OpToRel(<, Nat)
<1>1. IsWellFoundedOn(R, Nat)
  BY NatLessThanWellFounded
<1>2. R = {p \in Nat \X Nat : p[1] < p[2]}
  BY DEF OpToRel
<1> HIDE DEF R
<1>3. PICK x \in T : \A y \in T : ~(<<y, x>> \in R)
  BY <1>1, WFMin
<1>4. \A y \in T : ~(y < x)
  BY <1>2, <1>3
<1> QED BY <1>3, <1>4

(* list_del leaves the others in their order. *)
LEMMA RemoveAtFacts ==
  ASSUME NEW S, NEW s \in Seq(S), NEW i \in 1 .. Len(s)
  PROVE  /\ RemoveAt(s, i) \in Seq(S)
         /\ Len(RemoveAt(s, i)) = Len(s) - 1
         /\ DOMAIN RemoveAt(s, i) = 1 .. Len(s) - 1
         /\ \A j \in 1 .. Len(s) - 1 : j < i => RemoveAt(s, i)[j] = s[j]
         /\ \A j \in 1 .. Len(s) - 1 : j >= i => RemoveAt(s, i)[j] = s[j + 1]
<1> DEFINE a == SubSeq(s, 1, i - 1)
           b == SubSeq(s, i + 1, Len(s))
           n == Len(s)
<1>0. n \in Nat /\ \A j \in 1 .. n : s[j] \in S
  BY LenProperties, ElementOfSeq
<1>1. /\ a \in Seq(S) /\ Len(a) = i - 1 /\ \A j \in 1 .. i - 1 : a[j] = s[j]
  <2>1. \A j \in 1 .. i - 1 : s[j] \in S
    BY <1>0
  <2>2. /\ a \in Seq(S) /\ Len(a) = IF 1 <= i - 1 THEN i - 1 - 1 + 1 ELSE 0
        /\ \A j \in 1 .. i - 1 - 1 + 1 : a[j] = s[1 + j - 1]
    BY <1>0, <2>1, SubSeqProperties
  <2> HIDE DEF a
  <2> QED BY <2>2, <1>0
<1>2. /\ b \in Seq(S) /\ Len(b) = n - i /\ \A j \in 1 .. n - i : b[j] = s[j + i]
  <2>1. \A j \in i + 1 .. n : s[j] \in S
    BY <1>0
  <2>2. /\ b \in Seq(S) /\ Len(b) = IF i + 1 <= n THEN n - (i + 1) + 1 ELSE 0
        /\ \A j \in 1 .. n - (i + 1) + 1 : b[j] = s[i + 1 + j - 1]
    BY <1>0, <2>1, SubSeqProperties
  <2> HIDE DEF b
  <2> QED BY <2>2, <1>0
<1>3. RemoveAt(s, i) = a \o b
  BY DEF RemoveAt
<1> HIDE DEF a, b
<1>4. /\ a \o b \in Seq(S) /\ Len(a \o b) = Len(a) + Len(b)
      /\ \A j \in 1 .. Len(a) + Len(b) : (a \o b)[j] = IF j <= Len(a) THEN a[j] ELSE b[j - Len(a)]
  BY <1>1, <1>2, ConcatProperties
<1>5. DOMAIN (a \o b) = 1 .. Len(a \o b)
  BY <1>4, LenProperties
<1> DEFINE c == a \o b
<1>6. /\ c \in Seq(S) /\ Len(c) = n - 1 /\ DOMAIN c = 1 .. n - 1
      /\ \A j \in 1 .. n - 1 : c[j] = IF j <= i - 1 THEN a[j] ELSE b[j - (i - 1)]
  BY <1>0, <1>1, <1>2, <1>4, <1>5
<1> HIDE DEF c
<1>7. \A j \in 1 .. n - 1 : j < i => c[j] = s[j]
  BY <1>0, <1>1, <1>6
<1>8. \A j \in 1 .. n - 1 : j >= i => c[j] = s[j + 1]
  <2> SUFFICES ASSUME NEW j \in 1 .. n - 1, j >= i PROVE c[j] = s[j + 1]
    OBVIOUS
  <2>1. c[j] = b[j - (i - 1)] /\ j - (i - 1) \in 1 .. n - i
    BY <1>0, <1>6
  <2>2. b[j - (i - 1)] = s[j - (i - 1) + i]
    BY <1>2, <2>1
  <2> QED BY <2>1, <2>2, <1>0
<1> QED BY <1>3, <1>6, <1>7, <1>8 DEF c

(* Its consequences for a list without repetitions. *)
LEMMA UnlinkFacts ==
  ASSUME NEW S, NEW s \in Seq(S), NEW i \in 1 .. Len(s),
         \A k, l \in DOMAIN s : s[k] = s[l] => k = l,
         NEW t, t = RemoveAt(s, i)
  PROVE  /\ t \in Seq(S)
         /\ \A k, l \in DOMAIN t : t[k] = t[l] => k = l
         /\ Range(t) = Range(s) \ {s[i]}
         /\ \A k, l \in DOMAIN t : k < l =>
              \E k1, l1 \in DOMAIN s : k1 < l1 /\ s[k1] = t[k] /\ s[l1] = t[l]
<1> DEFINE n == Len(s)
<1>1. /\ t \in Seq(S) /\ Len(t) = n - 1 /\ DOMAIN t = 1 .. n - 1 /\ n \in Nat /\ DOMAIN s = 1 .. n
      /\ \A j \in 1 .. n - 1 : j < i => t[j] = s[j]
      /\ \A j \in 1 .. n - 1 : j >= i => t[j] = s[j + 1]
  <2>1. n \in Nat /\ DOMAIN s = 1 .. n
    BY LenProperties
  <2> DEFINE r == RemoveAt(s, i)
  <2>2. /\ r \in Seq(S) /\ Len(r) = n - 1 /\ DOMAIN r = 1 .. n - 1
        /\ \A j \in 1 .. n - 1 : j < i => r[j] = s[j]
        /\ \A j \in 1 .. n - 1 : j >= i => r[j] = s[j + 1]
    BY RemoveAtFacts
  <2>3. t = r
    OBVIOUS
  <2> HIDE DEF r, n
  <2> QED BY <2>1, <2>2, <2>3
<1> HIDE DEF n
<1> DEFINE at(j) == IF j < i THEN j ELSE j + 1
<1>2. \A j \in 1 .. n - 1 : at(j) \in 1 .. n /\ at(j) # i /\ t[j] = s[at(j)]
  BY <1>1
<1>3. \A k, l \in 1 .. n - 1 : k < l => at(k) < at(l)
  BY <1>1
<1>4. \A k \in 1 .. n : k # i => \E j \in 1 .. n - 1 : at(j) = k
  <2> SUFFICES ASSUME NEW k \in 1 .. n, k # i PROVE \E j \in 1 .. n - 1 : at(j) = k
    OBVIOUS
  <2>1. CASE k < i
    <3>1. k \in 1 .. n - 1 /\ at(k) = k
      BY <2>1, <1>1
    <3> QED BY <3>1
  <2>2. CASE k > i
    <3>1. k - 1 \in 1 .. n - 1 /\ at(k - 1) = k
      BY <2>2, <1>1
    <3> QED BY <3>1
  <2> QED BY <2>1, <2>2, <1>1
<1> HIDE DEF at
<1>5. \A k, l \in DOMAIN t : k < l =>
        \E k1, l1 \in DOMAIN s : k1 < l1 /\ s[k1] = t[k] /\ s[l1] = t[l]
  BY <1>1, <1>2, <1>3
<1>6. \A k, l \in DOMAIN t : t[k] = t[l] => k = l
  <2> SUFFICES ASSUME NEW k \in 1 .. n - 1, NEW l \in 1 .. n - 1, t[k] = t[l], k # l PROVE FALSE
    BY <1>1
  <2>1. at(k) = at(l)
    BY <1>1, <1>2
  <2>2. k < l \/ l < k
    BY <1>1
  <2>3. at(k) \in Int /\ at(l) \in Int
    BY <1>1, <1>2
  <2> QED BY <2>1, <2>2, <2>3, <1>3
<1>7. Range(t) = Range(s) \ {s[i]}
  <2>1. \A k \in DOMAIN t : t[k] \in Range(s) /\ t[k] # s[i]
    <3> SUFFICES ASSUME NEW k \in 1 .. n - 1 PROVE t[k] \in Range(s) /\ t[k] # s[i]
      BY <1>1
    <3>1. at(k) \in DOMAIN s /\ at(k) # i /\ t[k] = s[at(k)] /\ i \in DOMAIN s
      BY <1>1, <1>2
    <3> QED BY <3>1 DEF Range
  <2>2. \A k \in DOMAIN s : s[k] # s[i] => s[k] \in Range(t)
    <3> SUFFICES ASSUME NEW k \in 1 .. n, s[k] # s[i] PROVE s[k] \in Range(t)
      BY <1>1
    <3>1. PICK j \in 1 .. n - 1 : at(j) = k
      BY <1>4
    <3> QED BY <3>1, <1>1, <1>2 DEF Range
  <2> QED BY <2>1, <2>2 DEF Range
<1> QED BY <1>1, <1>5, <1>6, <1>7

(* list_sort keeps the entries and orders them. *)
LEMMA SortFacts ==
  ASSUME list \in Seq(Objects), \A o \in Objects : obj[o].nsid \in Int,
         \A k, l \in DOMAIN list : list[k] = list[l] => k = l
  PROVE  /\ ListSort \in Seq(Objects)
         /\ \A k, l \in DOMAIN ListSort : ListSort[k] = ListSort[l] => k = l
         /\ Range(ListSort) = Listed
         /\ \A k, l \in DOMAIN ListSort : k < l => obj[ListSort[k]].nsid <= obj[ListSort[l]].nsid
<1> DEFINE n == Len(list)
           D == 1 .. n
           Pred(k) == {i \in D : Before(i, k)}
<1>1. n \in Nat /\ DOMAIN list = D /\ \A k \in D : list[k] \in Objects /\ obj[list[k]].nsid \in Int
  BY LenProperties, ElementOfSeq
<1>2. IsFiniteSet(D) /\ Cardinality(D) = n
  BY <1>1, FS_Interval
<1>3. \A k \in D : Place(k) = Cardinality(Pred(k)) + 1
  BY <1>1 DEF Place
<1>4. \A i, k \in D : Before(i, k) \/ Before(k, i) \/ i = k
  BY <1>1 DEF Before
<1>5. \A i, j, k \in D : Before(i, j) /\ Before(j, k) => Before(i, k)
  BY <1>1 DEF Before
<1>6. \A k \in D : ~Before(k, k)
  BY <1>1 DEF Before
<1>7. \A i, k \in D : obj[list[i]].nsid < obj[list[k]].nsid => Before(i, k)
  BY DEF Before
<1> HIDE DEF n, D
<1>8. \A k \in D : IsFiniteSet(Pred(k)) /\ Cardinality(Pred(k)) \in 0 .. n - 1
  <2> SUFFICES ASSUME NEW k \in D PROVE IsFiniteSet(Pred(k)) /\ Cardinality(Pred(k)) \in 0 .. n - 1
    OBVIOUS
  <2>1. Pred(k) \in SUBSET D /\ k \notin Pred(k)
    BY <1>6
  <2>2. IsFiniteSet(Pred(k)) /\ Cardinality(Pred(k)) <= n /\ (Cardinality(Pred(k)) = n => D = Pred(k))
    BY <2>1, <1>2, FS_Subset
  <2>3. Cardinality(Pred(k)) \in Nat
    BY <2>2, FS_CardinalityType
  <2> QED BY <2>1, <2>2, <2>3, <1>1
<1>9. \A i, k \in D : Before(i, k) => Cardinality(Pred(i)) < Cardinality(Pred(k))
  <2> SUFFICES ASSUME NEW i \in D, NEW k \in D, Before(i, k)
               PROVE Cardinality(Pred(i)) < Cardinality(Pred(k))
    OBVIOUS
  <2>1. Pred(i) \in SUBSET Pred(k) /\ i \in Pred(k) /\ i \notin Pred(i)
    BY <1>5, <1>6
  <2> HIDE DEF Pred
  <2>2. IsFiniteSet(Pred(k)) /\ Cardinality(Pred(k)) \in Int /\ Cardinality(Pred(i)) \in Int
    BY <1>8, <1>1
  <2>3. Cardinality(Pred(i)) <= Cardinality(Pred(k))
        /\ (Cardinality(Pred(k)) = Cardinality(Pred(i)) => Pred(k) = Pred(i))
    BY <2>1, <2>2, FS_Subset
  <2> QED BY <2>1, <2>2, <2>3
<1> HIDE DEF Pred
<1>10. /\ \A k \in D : Place(k) \in D
       /\ \A i, k \in D : Before(i, k) => Place(i) < Place(k)
  <2> DEFINE c(k) == Cardinality(Pred(k))
  <2>1. \A k \in D : c(k) \in 0 .. n - 1 /\ Place(k) = c(k) + 1
    BY <1>3, <1>8
  <2>2. \A i, k \in D : Before(i, k) => c(i) < c(k)
    BY <1>9
  <2> HIDE DEF c
  <2>3. \A k \in D : Place(k) \in D
    BY <1>1, <2>1 DEF D
  <2> QED BY <1>1, <2>1, <2>2, <2>3
<1> DEFINE f == [k \in D |-> Place(k)]
<1>11. f \in Injection(D, D)
  <2>1. f \in [D -> D]
    BY <1>10
  <2>2. ASSUME NEW i \in D, NEW k \in D, f[i] = f[k] PROVE i = k
    <3>1. Place(i) = Place(k) /\ Place(i) \in Int
      BY <2>2, <1>10, <1>1 DEF D
    <3> QED BY <3>1, <1>4, <1>10
  <2> HIDE DEF f
  <2> QED BY <2>1, <2>2 DEF Injection, IsInjective
<1>12. f \in Surjection(D, D)
  <2> HIDE DEF f
  <2> QED BY <1>11, <1>2, FS_Injection
<1>13. \A p \in D : \E k \in D : Place(k) = p
  BY <1>12 DEF Surjection
<1> DEFINE at(p) == CHOOSE k \in D : Place(k) = p
<1>14. \A p \in D : at(p) \in D /\ Place(at(p)) = p
  BY <1>13
<1>15. ListSort = [p \in D |-> list[at(p)]]
  BY <1>1 DEF ListSort
<1> HIDE DEF at, f
<1>16. \A p \in D : list[at(p)] \in Objects
  BY <1>1, <1>14
<1>17. ListSort \in [D -> Objects] /\ DOMAIN ListSort = D /\ \A p \in D : ListSort[p] = list[at(p)]
  BY <1>15, <1>16
<1>18. ListSort \in Seq(Objects)
  BY <1>15, <1>16, <1>1 DEF D
<1> HIDE DEF ListSort
<1>19. \A k, l \in D : ListSort[k] = ListSort[l] => k = l
  BY <1>14, <1>17, <1>1
<1>20. Range(ListSort) = Listed
  <2>1. \A p \in D : ListSort[p] \in Range(list)
    BY <1>14, <1>17, <1>1 DEF Range
  <2>2. \A k \in D : list[k] \in Range(ListSort)
    <3> SUFFICES ASSUME NEW k \in D PROVE list[k] \in Range(ListSort)
      OBVIOUS
    <3>1. Place(k) \in D /\ Place(at(Place(k))) = Place(k) /\ at(Place(k)) \in D
      BY <1>10, <1>14
    <3>2. at(Place(k)) = k
      <4> DEFINE m == at(Place(k))
      <4>1. m \in D /\ Place(m) = Place(k) /\ Place(k) \in Int
        BY <3>1, <1>1 DEF D
      <4> HIDE DEF m
      <4>2. ~Before(m, k) /\ ~Before(k, m)
        BY <4>1, <1>10
      <4>3. m = k
        BY <4>1, <4>2, <1>4
      <4> QED BY <4>3 DEF m
    <3> QED BY <3>1, <3>2, <1>17 DEF Range
  <2> QED BY <2>1, <2>2, <1>1, <1>17 DEF Range, Listed
<1>21. \A k, l \in D : k < l => obj[ListSort[k]].nsid <= obj[ListSort[l]].nsid
  <2> SUFFICES ASSUME NEW k \in D, NEW l \in D, k < l,
                      ~(obj[ListSort[k]].nsid <= obj[ListSort[l]].nsid)
               PROVE FALSE
    OBVIOUS
  <2>0. /\ ListSort[k] = list[at(k)] /\ ListSort[l] = list[at(l)]
        /\ obj[list[at(k)]].nsid \in Int /\ obj[list[at(l)]].nsid \in Int
    BY <1>1, <1>14, <1>17
  <2>1. obj[list[at(l)]].nsid < obj[list[at(k)]].nsid
    BY <2>0
  <2>2. Before(at(l), at(k))
    BY <2>1, <1>7, <1>14
  <2>3. l < k
    BY <2>2, <1>10, <1>14
  <2> QED BY <2>3, <1>1 DEF D
<1> QED BY <1>17, <1>18, <1>19, <1>20, <1>21

(* What TypeOK says of the list and its objects. *)
LEMMA ListTypes ==
  ASSUME TypeOK
  PROVE  /\ Len(list) \in Nat /\ DOMAIN list = 1 .. Len(list)
         /\ \A k \in DOMAIN list : list[k] \in Objects
         /\ Listed \subseteq Objects /\ None \notin Objects
         /\ \A o \in Objects : obj[o] \in Object /\ obj[o].nsid \in 0 .. MaxNs /\ obj[o].nsid \in Int
         /\ MaxNs \in Nat \ {0} /\ PageSize \in Nat \ {0} /\ MaxObjects \in Nat \ {0}
<1>1. list \in Seq(Objects) /\ obj \in [Objects -> Object]
  BY DEF TypeOK
<1>2. Len(list) \in Nat /\ DOMAIN list = 1 .. Len(list) /\ \A k \in DOMAIN list : list[k] \in Objects
  BY <1>1, LenProperties, ElementOfSeq
<1>3. \A o \in Objects : obj[o] \in Object
  BY <1>1
<1>4. MaxNs \in Nat \ {0} /\ PageSize \in Nat \ {0} /\ MaxObjects \in Nat \ {0}
  BY ScanAssumption
<1>5. \A o \in Objects : obj[o].nsid \in 0 .. MaxNs /\ obj[o].nsid \in Int
  BY <1>3, <1>4 DEF Object
<1>6. Listed \subseteq Objects
  BY <1>2 DEF Listed, Range
<1>7. None \notin Objects
  BY DEF None, Objects
<1> QED BY <1>2, <1>3, <1>4, <1>5, <1>6, <1>7

(* Objects whose references are still to be counted. *)
Loose == [nsid: 0 .. MaxNs, refs: Int, removing: BOOLEAN, dead: BOOLEAN, opens: 0 .. 1]
LEMMA LooseTypes ==
  ASSUME TypeOK
  PROVE  obj \in [Objects -> Loose]
<1>1. obj \in [Objects -> Object]
  BY DEF TypeOK
<1>2. \A o \in Objects : obj[o] \in Loose
  <2> SUFFICES ASSUME NEW o \in Objects PROVE obj[o] \in Loose
    OBVIOUS
  <2>1. obj[o] \in Object
    BY <1>1
  <2> QED BY <2>1 DEF Object, Loose
<1> QED BY <1>1, <1>2

(* nvme_find_get_ns finds a namespace of that number; it misses one only   *)
(* behind a larger number.                                                 *)
LEMMA FindFacts ==
  ASSUME TypeOK, NEW n \in Int
  PROVE  /\ FindNs(n) # None => FindNs(n) \in Listed /\ obj[FindNs(n)].nsid = n
         /\ FindNs(n) = None =>
              \A l \in DOMAIN list : obj[list[l]].nsid = n =>
                \E k \in DOMAIN list : k < l /\ n < obj[list[k]].nsid
<1> DEFINE K == {k \in DOMAIN list : obj[list[k]].nsid >= n}
           first == CHOOSE k \in K : \A l \in K : k <= l
<1>1. /\ DOMAIN list = 1 .. Len(list) /\ Len(list) \in Nat
      /\ \A k \in DOMAIN list : list[k] \in Objects /\ obj[list[k]].nsid \in Int
  BY ListTypes
<1>2. K \subseteq Nat /\ K \subseteq DOMAIN list
  BY <1>1
<1>3. FindNs(n) = IF K # {} /\ obj[list[first]].nsid = n THEN list[first] ELSE None
  BY DEF FindNs
<1>4. ASSUME K # {} PROVE first \in K /\ \A l \in K : first <= l
  <2> HIDE DEF K
  <2> QED BY <1>2, <1>4, Smallest
<1>5. ASSUME FindNs(n) # None PROVE FindNs(n) \in Listed /\ obj[FindNs(n)].nsid = n
  <2> HIDE DEF K, first
  <2>1. K # {} /\ obj[list[first]].nsid = n /\ FindNs(n) = list[first]
    BY <1>3, <1>5
  <2>2. first \in DOMAIN list
    BY <1>2, <1>4, <2>1
  <2> QED BY <2>1, <2>2 DEF Listed, Range
<1>6. ASSUME FindNs(n) = None, NEW l \in DOMAIN list, obj[list[l]].nsid = n
      PROVE  \E k \in DOMAIN list : k < l /\ n < obj[list[k]].nsid
  <2>1. l \in K
    BY <1>1, <1>6
  <2>2. first \in K /\ first <= l
    BY <1>4, <2>1
  <2>3. first \in DOMAIN list /\ obj[list[first]].nsid >= n
    BY <2>2
  <2> HIDE DEF K, first
  <2>4. obj[list[first]].nsid # n
    <3> SUFFICES ASSUME obj[list[first]].nsid = n PROVE FALSE
      OBVIOUS
    <3>1. list[first] = None
      BY <1>3, <1>6, <2>1
    <3> QED BY <3>1, <2>3, <1>1 DEF None, Objects
  <2>5. first # l
    BY <1>6, <2>4
  <2> QED BY <1>1, <2>2, <2>3, <2>4, <2>5
<1> QED BY <1>5, <1>6

(* nvme_ns_remove of a namespace on the list. *)
LEMMA RemoveFacts ==
  ASSUME TypeOK, ListInv, NEW o \in Listed, NEW held \in {0, 1}, NsRemove(o, held)
  PROVE  /\ o \in Objects
         /\ list' = RemoveAt(list, IndexOf(o)) /\ IndexOf(o) \in 1 .. Len(list) /\ list[IndexOf(o)] = o
         /\ list' \in Seq(Objects) /\ Listed' = Listed \ {o}
         /\ \A k, l \in DOMAIN list' : list'[k] = list'[l] => k = l
         /\ \A k, l \in DOMAIN list' : k < l =>
              \E k1, l1 \in DOMAIN list : k1 < l1 /\ list[k1] = list'[k] /\ list[l1] = list'[l]
         /\ obj' \in [Objects -> Loose]
         /\ \A p \in Objects : p # o => obj'[p] = obj[p]
         /\ obj'[o].nsid = obj[o].nsid /\ obj'[o].refs = obj[o].refs - 1 - held /\ obj'[o].removing
         /\ obj'[o].dead = obj[o].dead /\ obj'[o].opens = obj[o].opens
<1>1. o \in Objects /\ ~obj[o].removing
  BY ListTypes DEF ListInv
<1>2. PICK i \in DOMAIN list : list[i] = o
  BY DEF Listed, Range
<1>3. IndexOf(o) \in 1 .. Len(list) /\ list[IndexOf(o)] = o
  BY <1>2, ListTypes DEF IndexOf
<1>4. list' = RemoveAt(list, IndexOf(o))
  BY <1>1 DEF NsRemove
<1>5. list \in Seq(Objects) /\ \A k, l \in DOMAIN list : list[k] = list[l] => k = l
  BY DEF TypeOK, ListInv
<1>6. /\ list' \in Seq(Objects) /\ Range(list') = Range(list) \ {o}
      /\ \A k, l \in DOMAIN list' : list'[k] = list'[l] => k = l
      /\ \A k, l \in DOMAIN list' : k < l =>
              \E k1, l1 \in DOMAIN list : k1 < l1 /\ list[k1] = list'[k] /\ list[l1] = list'[l]
  BY <1>3, <1>4, <1>5, UnlinkFacts
<1>7. obj \in [Objects -> Object]
  BY DEF TypeOK
<1> DEFINE r == [obj[o] EXCEPT !.refs = @ - 1 - held, !.removing = TRUE]
<1>8. obj' = [obj EXCEPT ![o] = r]
  BY <1>1, <1>7 DEF NsRemove
<1>9. /\ r \in Loose /\ r.nsid = obj[o].nsid /\ r.refs = obj[o].refs - 1 - held /\ r.removing
      /\ r.dead = obj[o].dead /\ r.opens = obj[o].opens
  <2>1. obj[o] \in Object
    BY <1>1, <1>7
  <2> DEFINE m == obj[o].refs - 1 - held
  <2>2. m \in Int
    BY <2>1 DEF Object
  <2>3. r = [obj[o] EXCEPT !.refs = m, !.removing = TRUE]
    OBVIOUS
  <2> HIDE DEF r
  <2>4. r.refs = m /\ r.removing /\ r.nsid = obj[o].nsid /\ r.dead = obj[o].dead /\ r.opens = obj[o].opens
    BY <2>1, <2>3 DEF Object, m
  <2> HIDE DEF m
  <2>5. r \in Loose
    BY <2>1, <2>2, <2>3 DEF Object, Loose
  <2> QED BY <2>4, <2>5 DEF m
<1> HIDE DEF r
<1>10. /\ obj' \in [Objects -> Loose] /\ obj'[o] = r
       /\ \A p \in Objects : p # o => obj'[p] = obj[p]
  BY <1>1, <1>7, <1>8, <1>9, LooseTypes
<1> QED BY <1>1, <1>3, <1>4, <1>6, <1>9, <1>10 DEF Listed

(* nvme_ns_remove of one that another has taken off the list.              *)
LEMMA RemovedFacts ==
  ASSUME TypeOK, ListInv, NEW o \in Objects \ Listed, obj[o].nsid # 0,
         NEW held \in {0, 1}, NsRemove(o, held)
  PROVE  /\ list' = list /\ obj' \in [Objects -> Loose]
         /\ \A p \in Objects : p # o => obj'[p] = obj[p]
         /\ obj'[o].nsid = obj[o].nsid /\ obj'[o].refs = obj[o].refs - held
         /\ obj'[o].removing = obj[o].removing
         /\ obj'[o].dead = obj[o].dead /\ obj'[o].opens = obj[o].opens
<1>1. obj[o].removing
  BY DEF ListInv
<1>2. obj' = [obj EXCEPT ![o].refs = @ - held] /\ list' = list
  BY <1>1 DEF NsRemove
<1>3. obj \in [Objects -> Loose] /\ obj[o] \in Loose
  BY LooseTypes
<1> DEFINE r == [obj[o] EXCEPT !.refs = @ - held]
<1>4. /\ r \in Loose /\ r.nsid = obj[o].nsid /\ r.refs = obj[o].refs - held
      /\ r.removing = obj[o].removing /\ r.dead = obj[o].dead /\ r.opens = obj[o].opens
  BY <1>3 DEF Loose
<1>5. obj' = [obj EXCEPT ![o] = r]
  BY <1>2, <1>3
<1> HIDE DEF r
<1>6. obj' \in [Objects -> Loose] /\ obj'[o] = r /\ \A p \in Objects : p # o => obj'[p] = obj[p]
  BY <1>3, <1>4, <1>5
<1> QED BY <1>2, <1>4, <1>6

(* Where nvme_scan_work can be. *)
Places == {"idle", "list", "entry", "validate", "check", "alloc", "gap", "prune", "sort"}

(* The types of the scan's locals. *)
LEMMA CountTypes ==
  ASSUME TypeOK
  PROVE  /\ scan \in ScanRec
         /\ scan.pc \in Places /\ scan.mode \in {"list", "sequential"}
         /\ scan.nn \in 0 .. MaxNs /\ scan.lists \in 0 .. MaxNs /\ scan.page \subseteq Ids
         /\ scan.j \in 0 .. MaxNs /\ scan.nsid \in 0 .. MaxNs + 1 /\ scan.prev \in 0 .. MaxNs
         /\ scan.ns \in Objects \union {None} /\ scan.next \in Objects \union {None}
         /\ MaxNs \in Nat /\ MaxNs >= 1 /\ PageSize \in Nat /\ PageSize >= 1
<1>1. scan \in ScanRec
  BY DEF TypeOK
<1>2. MaxNs \in Nat \ {0} /\ PageSize \in Nat \ {0}
  BY ScanAssumption
<1> QED BY <1>1, <1>2 DEF ScanRec, Places

-----------------------------------------------------------------------------
(* The books of the objects: ListInv and HeldIsCounted. *)
Books ==
  list \in Seq(Objects) /\ obj \in [Objects -> Loose] /\ ListInv /\ HeldIsCounted

(* With the books kept, no object has more than four references. *)
LEMMA BooksTypes ==
  ASSUME Books'
  PROVE  obj' \in [Objects -> Object]
<1>1. obj' \in [Objects -> Loose]
  BY DEF Books
<1>2. \A o \in Objects : obj'[o] \in Object
  <2> SUFFICES ASSUME NEW o \in Objects PROVE obj'[o] \in Object
    OBVIOUS
  <2>1. obj'[o] \in Loose /\ obj'[o].refs = Holders(o)'
    BY <1>1 DEF Books, HeldIsCounted
  <2>2. obj'[o].opens \in 0 .. 1
    BY <2>1 DEF Loose
  <2>3. obj'[o].refs \in 0 .. 4
    BY <2>1, <2>2 DEF Holders
  <2> QED BY <2>1, <2>3 DEF Loose, Object
<1> QED BY <1>1, <1>2

(* Steps that touch neither the list nor an object. *)
LEMMA QuietBooks ==
  ASSUME ScanInv, UNCHANGED <<obj, list>>, scan'.ns = scan.ns
  PROVE  Books'
<1>1. Books
  BY LooseTypes DEF ScanInv, TypeOK, Books
<1> QED BY <1>1 DEF Books, ListInv, HeldIsCounted, Holders, Listed

(* Steps that touch one object but not the list. *)
LEMMA TouchBooks ==
  ASSUME ScanInv, UNCHANGED list, NEW o \in Objects,
         obj' \in [Objects -> Loose], \A p \in Objects : p # o => obj'[p] = obj[p],
         obj'[o].nsid = obj[o].nsid, obj'[o].removing = obj[o].removing, obj[o].nsid # 0,
         obj'[o].refs - obj'[o].opens - (IF scan'.ns = o THEN 1 ELSE 0)
           = obj[o].refs - obj[o].opens - (IF scan.ns = o THEN 1 ELSE 0),
         \A p \in Objects : p # o => (scan'.ns = p <=> scan.ns = p)
  PROVE  Books'
<1>1. Books
  BY LooseTypes DEF ScanInv, TypeOK, Books
<1>2. Listed' = Listed
  BY DEF Listed
<1>3. ListInv'
  BY <1>1, <1>2 DEF Books, ListInv
<1>4. \A p \in Objects : p # o => obj'[p].refs = Holders(p)'
  BY <1>1, <1>2 DEF Books, HeldIsCounted, Holders
<1>5. obj'[o].refs = Holders(o)'
  <2>1. obj[o].refs = Holders(o) /\ obj[o] \in Loose /\ obj'[o] \in Loose
    BY <1>1 DEF Books, HeldIsCounted
  <2> QED BY <1>2, <2>1 DEF Holders, Loose
<1> QED BY <1>1, <1>3, <1>4, <1>5 DEF Books, HeldIsCounted

(* nvme_ns_remove; what is held is the scan's reference. *)
LEMMA RemoveBooks ==
  ASSUME ScanInv, NEW o \in Objects, obj[o].nsid # 0, NEW held \in {0, 1}, NsRemove(o, held),
         held = 1 => scan.ns = o /\ scan'.ns = None, held = 0 => scan'.ns = scan.ns
  PROVE  Books'
<1>0. TypeOK /\ ListInv /\ HeldIsCounted
  BY DEF ScanInv
<1>a. ASSUME o \notin Listed PROVE Books'
  <2>1. /\ list' = list /\ obj' \in [Objects -> Loose]
        /\ \A p \in Objects : p # o => obj'[p] = obj[p]
        /\ obj'[o].nsid = obj[o].nsid /\ obj'[o].refs = obj[o].refs - held
        /\ obj'[o].removing = obj[o].removing /\ obj'[o].opens = obj[o].opens
    BY <1>0, <1>a, RemovedFacts
  <2>2. obj[o].refs \in Int /\ obj[o].opens \in Int /\ None \notin Objects
    BY <1>0, LooseTypes, ListTypes DEF Loose
  <2>3. obj'[o].refs - obj'[o].opens - (IF scan'.ns = o THEN 1 ELSE 0)
           = obj[o].refs - obj[o].opens - (IF scan.ns = o THEN 1 ELSE 0)
    BY <2>1, <2>2
  <2>4. \A p \in Objects : p # o => (scan'.ns = p <=> scan.ns = p)
    BY <2>2
  <2> QED BY <2>1, <2>3, <2>4, TouchBooks
<1> SUFFICES ASSUME o \in Listed PROVE Books'
  BY <1>a
<1>1. /\ o \in Objects /\ list' \in Seq(Objects) /\ Listed' = Listed \ {o}
      /\ \A k, l \in DOMAIN list' : list'[k] = list'[l] => k = l
      /\ obj' \in [Objects -> Loose]
      /\ \A p \in Objects : p # o => obj'[p] = obj[p]
      /\ obj'[o].nsid = obj[o].nsid /\ obj'[o].refs = obj[o].refs - 1 - held /\ obj'[o].removing
      /\ obj'[o].dead = obj[o].dead /\ obj'[o].opens = obj[o].opens
  BY <1>0, RemoveFacts
<1>2. ListInv'
  <2>1. obj[o].nsid # 0
    BY <1>0, <1>1 DEF ListInv
  <2> QED BY <1>0, <1>1, <2>1 DEF ListInv
<1>3. \A p \in Objects : p # o => obj'[p].refs = Holders(p)'
  <2> SUFFICES ASSUME NEW p \in Objects, p # o PROVE obj'[p].refs = Holders(p)'
    OBVIOUS
  <2>1. obj[p].refs = Holders(p) /\ obj'[p] = obj[p] /\ (p \in Listed' <=> p \in Listed)
    BY <1>0, <1>1 DEF HeldIsCounted
  <2>2. scan'.ns = p <=> scan.ns = p
    BY <1>1, ListTypes, <1>0
  <2> QED BY <2>1, <2>2 DEF Holders
<1>4. obj'[o].refs = Holders(o)'
  <2>1. obj[o].refs = Holders(o) /\ o \notin Listed' /\ obj[o].opens \in Int
    BY <1>0, <1>1, LooseTypes DEF HeldIsCounted, Loose
  <2>2. CASE held = 1
    <3>1. scan.ns = o /\ scan'.ns # o
      BY <1>0, <1>1, <2>2, ListTypes
    <3> QED BY <1>1, <2>1, <2>2, <3>1 DEF Holders
  <2>3. CASE held = 0
    BY <1>1, <2>1, <2>3 DEF Holders
  <2> QED BY <2>2, <2>3
<1> QED BY <1>1, <1>2, <1>3, <1>4 DEF Books, HeldIsCounted

(* What the walks hold was allocated. *)
LEMMA WalksKnown ==
  ASSUME TypeOK, WalkInv, CountInv
  PROVE  /\ scan.ns # None => scan.ns \in Objects /\ obj[scan.ns].nsid # 0
         /\ scan.next # None => scan.next \in Objects /\ obj[scan.next].nsid # 0
         /\ remover.on => remover.cur \in Objects /\ obj[remover.cur].nsid # 0
         /\ remover.next # None => remover.next \in Objects /\ obj[remover.next].nsid # 0
<1>1. /\ scan.ns \in Objects \union {None} /\ scan.next \in Objects \union {None}
      /\ remover.cur \in Objects \union {None} /\ remover.next \in Objects \union {None}
      /\ scan.prev \in Nat /\ scan.nsid \in Nat
  BY ListTypes DEF TypeOK, ScanRec
<1>2. scan.ns # None => scan.nsid # 0
  BY <1>1 DEF WalkInv, CountInv
<1> QED BY <1>1, <1>2 DEF WalkInv

(* Every step keeps the books. *)
LEMMA BooksStep == ScanInv /\ Next => Books'
<1> SUFFICES ASSUME ScanInv, Next PROVE Books'
  OBVIOUS
<1>a. TypeOK /\ ListInv /\ HeldIsCounted /\ WalkInv /\ CountInv
  BY DEF ScanInv
<1>b. scan.ns # None => scan.pc = "check"
  BY <1>a DEF WalkInv
<1>c. scan \in ScanRec
  BY <1>a DEF TypeOK
<1>d. scan.ns # None => scan.ns \in Objects /\ obj[scan.ns].nsid # 0
  BY <1>a, WalksKnown
<1>1. ASSUME ScanStart PROVE Books'
  <2>1. scan.ns = None /\ scan'.ns = None
    BY <1>1, <1>b DEF ScanStart, Resting
  <2> QED BY <1>1, <2>1, QuietBooks DEF ScanStart
<1>2. ASSUME IdentifyNsList PROVE Books'
  <2>1. scan.ns = None /\ scan'.ns = None
    BY <1>2, <1>b, <1>c DEF IdentifyNsList, Resting, ScanRec
  <2> QED BY <1>2, <2>1, QuietBooks DEF IdentifyNsList
<1>3. ASSUME NextListEntry PROVE Books'
  <2>1. scan'.ns = scan.ns
    BY <1>3, <1>c DEF NextListEntry, ScanRec
  <2> QED BY <1>3, <2>1, QuietBooks DEF NextListEntry
<1>4. ASSUME ValidateNs PROVE Books'
  <2> DEFINE o == FindNs(scan.nsid)
  <2>1. scan.ns = None /\ scan'.ns = o
    BY <1>4, <1>b, <1>c DEF ValidateNs, ScanRec
  <2>2. CASE o = None
    BY <1>4, <2>1, <2>2, QuietBooks DEF ValidateNs
  <2>3. CASE o # None
    <3>1. o \in Listed
      BY <1>a, <1>c, <2>3, FindFacts DEF ScanRec
    <3>2. o \in Objects /\ obj[o].nsid # 0 /\ obj[o] \in Loose
      BY <1>a, <3>1, ListTypes, LooseTypes DEF ListInv
    <3>3. obj' = [obj EXCEPT ![o].refs = @ + 1] /\ list' = list
      BY <1>4, <2>3 DEF ValidateNs
    <3> DEFINE r == [obj[o] EXCEPT !.refs = @ + 1]
    <3>4. r \in Loose /\ r.nsid = obj[o].nsid /\ r.removing = obj[o].removing
          /\ r.refs = obj[o].refs + 1 /\ r.opens = obj[o].opens /\ r.refs \in Int /\ r.opens \in Int
      BY <3>2 DEF Loose
    <3>5. obj' = [obj EXCEPT ![o] = r] /\ obj \in [Objects -> Loose]
      BY <1>a, <3>3, LooseTypes
    <3> HIDE DEF r, o
    <3>6. PICK p \in Objects : p = o
      BY <3>2
    <3>7. /\ obj' \in [Objects -> Loose] /\ obj'[p] = r
          /\ \A q \in Objects : q # p => obj'[q] = obj[q]
      BY <3>4, <3>5, <3>6
    <3>8. scan.ns # p /\ scan'.ns = p /\ \A q \in Objects : scan.ns # q
      BY <2>1, <3>6, <1>a, ListTypes
    <3>9. obj[p].refs \in Int /\ obj[p].opens \in Int
      BY <3>2, <3>6 DEF Loose
    <3>10. obj'[p].refs - obj'[p].opens - (IF scan'.ns = p THEN 1 ELSE 0)
             = obj[p].refs - obj[p].opens - (IF scan.ns = p THEN 1 ELSE 0)
      BY <3>4, <3>6, <3>7, <3>8, <3>9
    <3>11. /\ obj'[p].nsid = obj[p].nsid /\ obj'[p].removing = obj[p].removing /\ obj[p].nsid # 0
           /\ \A q \in Objects : q # p => (scan'.ns = q <=> scan.ns = q)
      BY <3>2, <3>4, <3>6, <3>7, <3>8
    <3> QED BY <3>3, <3>7, <3>10, <3>11, TouchBooks
  <2> QED BY <2>2, <2>3
<1>5. ASSUME Revalidate PROVE Books'
  <2>0. scan.ns \in Objects /\ obj[scan.ns].nsid # 0 /\ scan'.ns = None
    BY <1>5, <1>a, <1>c, <1>d DEF WalkInv, Revalidate, Validated, ScanRec
  <2>1. ASSUME NsRemove(scan.ns, 1) PROVE Books'
    <3>1. PICK o \in Objects : o = scan.ns
      BY <2>0
    <3> QED BY <2>0, <2>1, <3>1, RemoveBooks
  <2>2. ASSUME obj' = [obj EXCEPT ![scan.ns].refs = @ - 1], list' = list PROVE Books'
    <3>1. PICK p \in Objects : p = scan.ns /\ obj[p].nsid # 0 /\ obj[p] \in Loose /\ p # None
      BY <1>a, <2>0, ListTypes, LooseTypes
    <3> DEFINE r == [obj[p] EXCEPT !.refs = @ - 1]
    <3>2. r \in Loose /\ r.nsid = obj[p].nsid /\ r.removing = obj[p].removing
          /\ r.refs = obj[p].refs - 1 /\ r.opens = obj[p].opens /\ r.refs \in Int /\ r.opens \in Int
      BY <3>1 DEF Loose
    <3>3. obj' = [obj EXCEPT ![p] = r] /\ obj \in [Objects -> Loose]
      BY <1>a, <2>2, <3>1, LooseTypes
    <3>4. obj[p].refs \in Int /\ obj[p].opens \in Int
      BY <3>1 DEF Loose
    <3> HIDE DEF r
    <3>5. /\ obj' \in [Objects -> Loose] /\ obj'[p] = r
          /\ \A q \in Objects : q # p => obj'[q] = obj[q]
      BY <3>2, <3>3
    <3>6. obj'[p].refs - obj'[p].opens - (IF scan'.ns = p THEN 1 ELSE 0)
             = obj[p].refs - obj[p].opens - (IF scan.ns = p THEN 1 ELSE 0)
      BY <2>0, <3>1, <3>2, <3>4, <3>5
    <3>7. /\ obj'[p].nsid = obj[p].nsid /\ obj'[p].removing = obj[p].removing
          /\ \A q \in Objects : q # p => (scan'.ns = q <=> scan.ns = q)
      BY <1>a, <2>0, <3>1, <3>2, <3>5, ListTypes
    <3> QED BY <2>2, <3>1, <3>5, <3>6, <3>7, TouchBooks
  <2> QED BY <1>5, <2>1, <2>2 DEF Revalidate
<1>6. ASSUME AllocNs PROVE Books'
  <2>1. scan.ns = None /\ scan'.ns = None
    BY <1>6, <1>b, <1>c DEF AllocNs, Validated, ScanRec
  <2>2. CASE UNCHANGED <<obj, list>>
    BY <2>1, <2>2, QuietBooks
  <2>3. CASE ~UNCHANGED <<obj, list>>
    <3>1. PICK o \in Objects :
            /\ scan.nsid \in active /\ obj[o] = Unused
            /\ obj' = [obj EXCEPT ![o].nsid = scan.nsid, ![o].refs = 1]
            /\ list' = Append(list, o)
      BY <1>6, <2>3 DEF AllocNs
    <3> DEFINE r == [obj[o] EXCEPT !.nsid = scan.nsid, !.refs = 1]
               n == Len(list)
    <3>2. scan.nsid \in 1 .. MaxNs
      BY <1>a, <3>1 DEF TypeOK, Ids
    <3>3. /\ r.nsid = scan.nsid /\ r.refs = 1 /\ ~r.removing /\ ~r.dead /\ r.opens = 0
          /\ r \in Loose
      <4>1. Unused \in Loose
        BY <1>a, ListTypes DEF Unused, Loose
      <4>2. r = [Unused EXCEPT !.nsid = scan.nsid, !.refs = 1]
        BY <3>1
      <4> HIDE DEF r
      <4>3. [Unused EXCEPT !.nsid = scan.nsid, !.refs = 1] \in Loose
        <5> DEFINE m == scan.nsid
        <5>1. m \in 0 .. MaxNs
          BY <3>2, <1>a, ListTypes
        <5> HIDE DEF m
        <5>2. ASSUME NEW u \in Loose PROVE [u EXCEPT !.nsid = m, !.refs = 1] \in Loose
          <6> DEFINE w == [u EXCEPT !.nsid = m]
          <6>1. w \in Loose /\ [u EXCEPT !.nsid = m, !.refs = 1] = [w EXCEPT !.refs = 1]
            BY <5>1 DEF Loose
          <6> HIDE DEF w
          <6>2. [w EXCEPT !.refs = 1] \in Loose
            BY <6>1 DEF Loose
          <6> QED BY <6>1, <6>2
        <5> QED BY <4>1, <5>2 DEF m
      <4> QED BY <4>2, <4>3 DEF Unused
    <3>4. obj' = [obj EXCEPT ![o] = r] /\ obj \in [Objects -> Loose]
      BY <1>a, <3>1, LooseTypes
    <3> HIDE DEF r
    <3>6. /\ obj' \in [Objects -> Loose] /\ obj'[o] = r
          /\ \A q \in Objects : q # o => obj'[q] = obj[q]
      BY <3>3, <3>4
    <3>7. /\ n \in Nat /\ DOMAIN list = 1 .. n /\ list \in Seq(Objects)
      BY <1>a, ListTypes DEF TypeOK
    <3>8. /\ list' \in Seq(Objects) /\ Len(list') = n + 1
          /\ \A k \in 1 .. n : list'[k] = list[k]
          /\ list'[n + 1] = o
      BY <3>1, <3>7, AppendProperties
    <3>9. DOMAIN list' = 1 .. n + 1
      BY <3>8, LenProperties
    <3>10. o \notin Listed /\ \A k \in 1 .. n : list[k] # o
      BY <1>a, <3>1, <3>7 DEF ListInv, Unused, Listed, Range
    <3> HIDE DEF n
    <3>11. Listed' = Listed \union {o}
      <4>1. \A k \in DOMAIN list' : list'[k] \in Listed \union {o}
        <5> SUFFICES ASSUME NEW k \in 1 .. n + 1 PROVE list'[k] \in Listed \union {o}
          BY <3>9
        <5>1. CASE k = n + 1
          BY <5>1, <3>8
        <5>2. CASE k # n + 1
          <6>1. k \in 1 .. n
            BY <5>2, <3>7
          <6> QED BY <6>1, <3>7, <3>8 DEF Listed, Range
        <5> QED BY <5>1, <5>2
      <4>2. \A k \in 1 .. n : list[k] \in Listed'
        <5> SUFFICES ASSUME NEW k \in 1 .. n PROVE list'[k] \in Listed'
          BY <3>8
        <5>1. k \in 1 .. n + 1
          BY <3>7
        <5> QED BY <5>1, <3>9 DEF Listed, Range
      <4>3. o \in Listed'
        <5>1. n + 1 \in DOMAIN list'
          BY <3>7, <3>9
        <5> QED BY <5>1, <3>8 DEF Listed, Range
      <4> QED BY <4>1, <4>2, <4>3, <3>7 DEF Listed, Range
    <3>12. \A k, l \in DOMAIN list' : list'[k] = list'[l] => k = l
      <4> SUFFICES ASSUME NEW k \in 1 .. n + 1, NEW l \in 1 .. n + 1, list'[k] = list'[l] PROVE k = l
        BY <3>9
      <4>1. \A i \in 1 .. n + 1 : i \in 1 .. n \/ i = n + 1
        BY <3>7
      <4>2. CASE k \in 1 .. n /\ l \in 1 .. n
        BY <4>2, <3>7, <3>8, <1>a DEF ListInv
      <4>3. CASE k \in 1 .. n /\ l = n + 1
        BY <4>3, <3>8, <3>10
      <4>4. CASE k = n + 1 /\ l \in 1 .. n
        BY <4>4, <3>8, <3>10
      <4> QED BY <4>1, <4>2, <4>3, <4>4
    <3>13. ListInv'
      <4>1. \A q \in Objects : /\ q \in Listed' <=> obj'[q].nsid # 0 /\ ~obj'[q].removing
                               /\ obj'[q].nsid = 0 => obj'[q] = Unused
        BY <1>a, <3>2, <3>3, <3>6, <3>10, <3>11 DEF ListInv
      <4> QED BY <3>12, <4>1 DEF ListInv
    <3>14. HeldIsCounted'
      <4>1. \A q \in Objects : scan.ns # q /\ scan'.ns # q
        BY <2>1, <1>a, ListTypes
      <4>2. \A q \in Objects : q # o => obj'[q].refs = Holders(q)'
        BY <1>a, <3>6, <3>11, <4>1 DEF HeldIsCounted, Holders
      <4>3. obj'[o].refs = Holders(o)'
        BY <3>3, <3>6, <3>11, <4>1 DEF Holders
      <4> QED BY <4>2, <4>3 DEF HeldIsCounted
    <3> QED BY <3>6, <3>8, <3>13, <3>14 DEF Books
  <2> QED BY <2>2, <2>3
<1>7. ASSUME FillGap PROVE Books'
  <2>1. scan'.ns = scan.ns
    BY <1>7, <1>c DEF FillGap, ScanRec
  <2>2. CASE UNCHANGED <<obj, list>>
    BY <2>1, <2>2, QuietBooks
  <2>3. CASE ~UNCHANGED <<obj, list>>
    <3>1. FindNs(scan.prev) # None /\ NsRemove(FindNs(scan.prev), 0)
      BY <1>7, <2>3 DEF FillGap
    <3>2. PICK o \in Listed : o = FindNs(scan.prev)
      BY <1>a, <1>c, <3>1, FindFacts DEF ScanRec
    <3>3. o \in Objects /\ obj[o].nsid # 0
      BY <1>a, <3>2, ListTypes DEF ListInv
    <3> QED BY <2>1, <3>1, <3>2, <3>3, RemoveBooks
  <2> QED BY <2>2, <2>3
<1>8. ASSUME SequentialEnd PROVE Books'
  <2>1. scan'.ns = scan.ns
    BY <1>8, <1>c DEF SequentialEnd, ScanRec
  <2> QED BY <1>8, <2>1, QuietBooks DEF SequentialEnd
<1>9. ASSUME RemoveInvalid PROVE Books'
  <2>1. scan'.ns = scan.ns /\ scan.next \in Objects /\ obj[scan.next].nsid # 0
    BY <1>9, <1>a, <1>c, WalksKnown DEF RemoveInvalid, ScanRec
  <2>2. CASE UNCHANGED <<obj, list>>
    BY <2>1, <2>2, QuietBooks
  <2>3. CASE ~UNCHANGED <<obj, list>>
    <3>1. NsRemove(scan.next, 0)
      BY <1>9, <2>3 DEF RemoveInvalid
    <3>2. PICK o \in Objects : o = scan.next
      BY <2>1
    <3> QED BY <2>1, <3>1, <3>2, RemoveBooks
  <2> QED BY <2>2, <2>3
<1>10. ASSUME ScanEnd PROVE Books'
  <2>1. scan.ns = None /\ scan'.ns = None /\ obj' = obj /\ list' = ListSort
    BY <1>10, <1>b DEF ScanEnd, Resting
  <2>2. list \in Seq(Objects) /\ (\A o \in Objects : obj[o].nsid \in Int)
        /\ \A k, l \in DOMAIN list : list[k] = list[l] => k = l
    BY <1>a, ListTypes DEF TypeOK, ListInv
  <2>3. /\ list' \in Seq(Objects) /\ Listed' = Listed
        /\ \A k, l \in DOMAIN list' : list'[k] = list'[l] => k = l
    BY <2>1, <2>2, SortFacts DEF Listed
  <2> QED BY <1>a, <2>1, <2>3, LooseTypes DEF Books, ListInv, HeldIsCounted, Holders
<1>11. ASSUME \/ DeviceChange \/ Notice \/ Rescan \/ Reset \/ Unbind
              \/ ResetEnd \/ ResetFails \/ EmptyEnd \/ RemoveStart
       PROVE  Books'
  <2>1. UNCHANGED <<obj, list, scan>>
    BY <1>11 DEF DeviceChange, Notice, Rescan, Reset, Unbind, ResetEnd, ResetFails, EmptyEnd, RemoveStart
  <2> QED BY <2>1, QuietBooks
<1>12. ASSUME KillQueues \/ RemoveDeadWork PROVE Books'
  <2>1. /\ obj' = [o \in Objects |-> IF o \in Listed THEN [obj[o] EXCEPT !.dead = TRUE] ELSE obj[o]]
        /\ UNCHANGED <<list, scan>>
    BY <1>12 DEF KillQueues, RemoveDeadWork, Killed
  <2>2. \A o \in Objects :
          /\ obj'[o] \in Loose /\ obj'[o].nsid = obj[o].nsid /\ obj'[o].refs = obj[o].refs
          /\ obj'[o].removing = obj[o].removing /\ obj'[o].opens = obj[o].opens
          /\ o \notin Listed => obj'[o] = obj[o]
    <3> SUFFICES ASSUME NEW o \in Objects
                 PROVE /\ obj'[o] \in Loose /\ obj'[o].nsid = obj[o].nsid /\ obj'[o].refs = obj[o].refs
                       /\ obj'[o].removing = obj[o].removing /\ obj'[o].opens = obj[o].opens
                       /\ o \notin Listed => obj'[o] = obj[o]
      OBVIOUS
    <3>1. obj[o] \in Loose
      BY <1>a, LooseTypes
    <3>2. CASE o \in Listed
      <4>1. obj'[o] = [obj[o] EXCEPT !.dead = TRUE]
        BY <2>1, <3>2
      <4> QED BY <3>1, <3>2, <4>1 DEF Loose
    <3>3. CASE o \notin Listed
      BY <2>1, <3>1, <3>3
    <3> QED BY <3>2, <3>3
  <2>3. obj' \in [Objects -> Loose]
    BY <2>1, <2>2
  <2>4. list' = list /\ scan' = scan /\ Listed' = Listed /\ list \in Seq(Objects)
    BY <1>a, <2>1 DEF Listed, TypeOK
  <2>5. ListInv'
    BY <1>a, <2>2, <2>4 DEF ListInv
  <2>6. HeldIsCounted'
    BY <1>a, <2>2, <2>4 DEF HeldIsCounted, Holders
  <2> QED BY <2>3, <2>4, <2>5, <2>6 DEF Books
<1>13. ASSUME RemoveNext PROVE Books'
  <2>1. PICK o \in Objects : o = remover.cur /\ obj[o].nsid # 0
    BY <1>13, <1>a, WalksKnown DEF RemoveNext
  <2>2. NsRemove(o, 0) /\ scan' = scan
    BY <1>13, <2>1 DEF RemoveNext
  <2> QED BY <2>1, <2>2, RemoveBooks
<1>14. ASSUME NEW o \in Objects, OpenNs(o) PROVE Books'
  <2>1. obj[o] \in Loose /\ obj \in [Objects -> Loose] /\ obj[o].refs > 0
    BY <1>14, <1>a, LooseTypes DEF OpenNs
  <2> DEFINE r == [obj[o] EXCEPT !.refs = @ + 1, !.opens = 1]
  <2>2. r \in Loose /\ r.nsid = obj[o].nsid /\ r.removing = obj[o].removing
        /\ r.refs = obj[o].refs + 1 /\ r.opens = 1 /\ obj[o].opens = 0 /\ obj[o].refs \in Int
    BY <1>14, <2>1 DEF Loose, OpenNs
  <2>3. obj' = [obj EXCEPT ![o] = r] /\ list' = list /\ scan' = scan
    BY <1>14, <2>1 DEF OpenNs
  <2> HIDE DEF r
  <2>4. obj' \in [Objects -> Loose] /\ obj'[o] = r /\ \A p \in Objects : p # o => obj'[p] = obj[p]
    BY <2>1, <2>2, <2>3
  <2>5. obj[o].nsid # 0
    BY <1>a, <2>1 DEF ListInv, Unused
  <2>6. obj'[o].refs - obj'[o].opens - (IF scan'.ns = o THEN 1 ELSE 0)
             = obj[o].refs - obj[o].opens - (IF scan.ns = o THEN 1 ELSE 0)
    BY <2>2, <2>3, <2>4
  <2> QED BY <2>2, <2>3, <2>4, <2>5, <2>6, TouchBooks
<1>15. ASSUME NEW o \in Objects, ReleaseNs(o) PROVE Books'
  <2>1. obj[o] \in Loose /\ obj \in [Objects -> Loose] /\ obj[o].opens = 1
    BY <1>15, <1>a, LooseTypes DEF ReleaseNs
  <2> DEFINE r == [obj[o] EXCEPT !.refs = @ - 1, !.opens = 0]
  <2>2. r \in Loose /\ r.nsid = obj[o].nsid /\ r.removing = obj[o].removing
        /\ r.refs = obj[o].refs - 1 /\ r.opens = 0 /\ obj[o].refs \in Int
    <3> DEFINE m == obj[o].refs - 1
    <3>1. m \in Int /\ obj[o].refs \in Int
      BY <2>1 DEF Loose
    <3>2. r = [obj[o] EXCEPT !.refs = m, !.opens = 0]
      OBVIOUS
    <3> HIDE DEF m, r
    <3>3. r.nsid = obj[o].nsid /\ r.removing = obj[o].removing /\ r.refs = m /\ r.opens = 0
      BY <2>1, <3>2 DEF Loose
    <3>4. ASSUME NEW u \in Loose PROVE [u EXCEPT !.refs = m, !.opens = 0] \in Loose
      <4> DEFINE w == [u EXCEPT !.refs = m]
      <4>1. w \in Loose /\ [u EXCEPT !.refs = m, !.opens = 0] = [w EXCEPT !.opens = 0]
        BY <3>1 DEF Loose
      <4> HIDE DEF w
      <4>2. [w EXCEPT !.opens = 0] \in Loose
        BY <4>1 DEF Loose
      <4> QED BY <4>1, <4>2
    <3> QED BY <2>1, <3>1, <3>2, <3>3, <3>4 DEF m
  <2>3. obj' = [obj EXCEPT ![o] = r] /\ list' = list /\ scan' = scan
    BY <1>15, <2>1 DEF ReleaseNs
  <2> HIDE DEF r
  <2>4. obj' \in [Objects -> Loose] /\ obj'[o] = r /\ \A p \in Objects : p # o => obj'[p] = obj[p]
    BY <2>1, <2>2, <2>3
  <2>5. obj[o].nsid # 0
    BY <1>a, <2>1 DEF ListInv, Unused
  <2>6. obj'[o].refs - obj'[o].opens - (IF scan'.ns = o THEN 1 ELSE 0)
             = obj[o].refs - obj[o].opens - (IF scan.ns = o THEN 1 ELSE 0)
    BY <2>1, <2>2, <2>3, <2>4
  <2> QED BY <2>2, <2>3, <2>4, <2>5, <2>6, TouchBooks
<1> QED BY <1>1, <1>2, <1>3, <1>4, <1>5, <1>6, <1>7, <1>8, <1>9, <1>10, <1>11, <1>12, <1>13, <1>14, <1>15
       DEF Next, Scanning, ResetWork, Removing

-----------------------------------------------------------------------------
(* The place of an entry in a list without repetitions. *)
LEMMA IndexFacts ==
  ASSUME ListInv, NEW k \in DOMAIN list
  PROVE  IndexOf(list[k]) = k /\ list[k] \in Listed
<1>1. list[k] \in Listed
  BY DEF Listed, Range
<1> QED BY <1>1 DEF IndexOf, ListInv

(* list_next_entry of an entry. *)
LEMMA NextFacts ==
  ASSUME TypeOK, ListInv, NEW k \in DOMAIN list
  PROVE  NextEntry(list[k]) = IF k = Len(list) THEN None ELSE list[k + 1]
BY IndexFacts DEF NextEntry

(* Steps that leave the entries in their order, and add none. *)
Thinner ==
  /\ \A k, l \in DOMAIN list' : k < l =>
       \E k1, l1 \in DOMAIN list : k1 < l1 /\ list[k1] = list'[k] /\ list[l1] = list'[l]
  /\ Listed' \subseteq Listed
  /\ \A o \in Objects : obj'[o].nsid = obj[o].nsid

(* Steps that leave the list alone. *)
LEMMA SameIsThinner ==
  ASSUME list' = list, \A o \in Objects : obj'[o].nsid = obj[o].nsid
  PROVE  Thinner
<1>1. \A k, l \in DOMAIN list' : k < l =>
         \E k1, l1 \in DOMAIN list : k1 < l1 /\ list[k1] = list'[k] /\ list[l1] = list'[l]
  <2> SUFFICES ASSUME NEW k \in DOMAIN list', NEW l \in DOMAIN list', k < l
               PROVE  \E k1, l1 \in DOMAIN list : k1 < l1 /\ list[k1] = list'[k] /\ list[l1] = list'[l]
    OBVIOUS
  <2>1. k \in DOMAIN list /\ l \in DOMAIN list /\ list[k] = list'[k] /\ list[l] = list'[l]
    OBVIOUS
  <2> QED BY <2>1
<1> QED BY <1>1 DEF Thinner, Listed

(* nvme_ns_remove. *)
LEMMA RemovalIsThinner ==
  ASSUME TypeOK, ListInv, NEW o \in Objects, obj[o].nsid # 0, NEW held \in {0, 1}, NsRemove(o, held)
  PROVE  Thinner
<1>a. ASSUME o \notin Listed PROVE Thinner
  <2>1. /\ list' = list /\ \A p \in Objects : p # o => obj'[p] = obj[p]
        /\ obj'[o].nsid = obj[o].nsid
    BY <1>a, RemovedFacts
  <2>2. \A p \in Objects : obj'[p].nsid = obj[p].nsid
    BY <2>1
  <2> QED BY <2>1, <2>2, SameIsThinner
<1> SUFFICES ASSUME o \in Listed PROVE Thinner
  BY <1>a
<1>1. /\ \A p \in Objects : p # o => obj'[p] = obj[p]
      /\ obj'[o].nsid = obj[o].nsid /\ Listed' = Listed \ {o}
      /\ \A k, l \in DOMAIN list' : k < l =>
           \E k1, l1 \in DOMAIN list : k1 < l1 /\ list[k1] = list'[k] /\ list[l1] = list'[l]
  BY RemoveFacts
<1> QED BY <1>1 DEF Thinner

(* Which steps those are. *)
LEMMA ThinnerSteps ==
  ASSUME ScanInv, Next, ~AllocNs, ~ScanEnd
  PROVE  Thinner
<1>a. TypeOK /\ ListInv /\ WalkInv /\ CountInv /\ scan \in ScanRec /\ obj \in [Objects -> Object]
  BY DEF ScanInv, TypeOK
<1>1. CASE UNCHANGED <<obj, list>>
  BY <1>1, SameIsThinner
<1>2. ASSUME ValidateNs, ~UNCHANGED <<obj, list>> PROVE Thinner
  <2>1. PICK o \in Objects : obj' = [obj EXCEPT ![o].refs = @ + 1] /\ list' = list
    <3>1. FindNs(scan.nsid) # None => FindNs(scan.nsid) \in Objects
      BY <1>a, FindFacts, ListTypes, CountTypes
    <3> QED BY <1>2, <3>1 DEF ValidateNs
  <2>2. \A p \in Objects : obj'[p].nsid = obj[p].nsid
    <3>1. \A p \in Objects : p # o => obj'[p] = obj[p]
      BY <1>a, <2>1
    <3>2. obj'[o].nsid = obj[o].nsid
      BY <1>a, <2>1 DEF Object
    <3> QED BY <3>1, <3>2
  <2> QED BY <2>1, <2>2, SameIsThinner
<1>3. ASSUME Revalidate PROVE Thinner
  <2>1. PICK o \in Objects : o = scan.ns /\ obj[o].nsid # 0
    BY <1>3, <1>a, WalksKnown DEF Revalidate, WalkInv
  <2>2. CASE NsRemove(scan.ns, 1)
    BY <1>a, <2>1, <2>2, RemovalIsThinner
  <2>3. CASE obj' = [obj EXCEPT ![scan.ns].refs = @ - 1] /\ list' = list
    <3>2. \A p \in Objects : p # o => obj'[p] = obj[p]
      BY <1>a, <2>1, <2>3
    <3>3. obj'[o].nsid = obj[o].nsid
      BY <1>a, <2>1, <2>3 DEF Object
    <3>4. \A p \in Objects : obj'[p].nsid = obj[p].nsid
      BY <3>2, <3>3
    <3> QED BY <2>3, <3>4, SameIsThinner
  <2> QED BY <1>3, <2>2, <2>3 DEF Revalidate
<1>4. ASSUME FillGap, ~UNCHANGED <<obj, list>> PROVE Thinner
  <2>1. FindNs(scan.prev) # None /\ NsRemove(FindNs(scan.prev), 0)
    BY <1>4 DEF FillGap
  <2>2. PICK o \in Objects : o = FindNs(scan.prev) /\ obj[o].nsid # 0
    BY <1>a, <2>1, FindFacts, CountTypes, ListTypes DEF ListInv
  <2> QED BY <1>a, <2>1, <2>2, RemovalIsThinner
<1>5. ASSUME RemoveInvalid, ~UNCHANGED <<obj, list>> PROVE Thinner
  <2>1. PICK o \in Objects : o = scan.next /\ obj[o].nsid # 0
    BY <1>5, <1>a, WalksKnown DEF RemoveInvalid
  <2>2. NsRemove(o, 0)
    BY <1>5, <2>1 DEF RemoveInvalid
  <2> QED BY <1>a, <2>1, <2>2, RemovalIsThinner
<1>6. ASSUME KillQueues \/ RemoveDeadWork PROVE Thinner
  <2>1. /\ list' = list
        /\ obj' = [o \in Objects |-> IF o \in Listed THEN [obj[o] EXCEPT !.dead = TRUE] ELSE obj[o]]
    BY <1>6 DEF KillQueues, RemoveDeadWork, Killed
  <2>2. \A p \in Objects : obj'[p].nsid = obj[p].nsid
    <3> SUFFICES ASSUME NEW p \in Objects PROVE obj'[p].nsid = obj[p].nsid
      OBVIOUS
    <3>1. obj[p] \in Object
      BY <1>a
    <3>2. obj'[p] = IF p \in Listed THEN [obj[p] EXCEPT !.dead = TRUE] ELSE obj[p]
      BY <2>1
    <3>3. [obj[p] EXCEPT !.dead = TRUE].nsid = obj[p].nsid
      BY <3>1 DEF Object
    <3> QED BY <3>2, <3>3
  <2> QED BY <2>1, <2>2, SameIsThinner
<1>7. ASSUME RemoveNext PROVE Thinner
  <2>1. PICK o \in Objects : o = remover.cur /\ obj[o].nsid # 0
    BY <1>7, <1>a, WalksKnown DEF RemoveNext
  <2>2. NsRemove(o, 0)
    BY <1>7, <2>1 DEF RemoveNext
  <2> QED BY <1>a, <2>1, <2>2, RemovalIsThinner
<1>8. ASSUME NEW o \in Objects, OpenNs(o) \/ ReleaseNs(o) PROVE Thinner
  <2>1. /\ list' = list
        /\ \/ obj' = [obj EXCEPT ![o].refs = @ + 1, ![o].opens = 1]
           \/ obj' = [obj EXCEPT ![o].refs = @ - 1, ![o].opens = 0]
    BY <1>8 DEF OpenNs, ReleaseNs
  <2>2. \A p \in Objects : p # o => obj'[p] = obj[p]
    BY <1>a, <2>1
  <2>3. obj'[o].nsid = obj[o].nsid
    BY <1>a, <2>1 DEF Object
  <2>4. \A p \in Objects : obj'[p].nsid = obj[p].nsid
    BY <2>2, <2>3
  <2> QED BY <2>1, <2>4, SameIsThinner
<1>9. ASSUME ScanStart \/ IdentifyNsList \/ NextListEntry \/ SequentialEnd
             \/ DeviceChange \/ Notice \/ Rescan \/ Reset \/ Unbind
             \/ ResetEnd \/ ResetFails \/ EmptyEnd \/ RemoveStart
      PROVE  UNCHANGED <<obj, list>>
  BY <1>9 DEF ScanStart, IdentifyNsList, NextListEntry, SequentialEnd, DeviceChange, Notice, Rescan,
              Reset, Unbind, ResetEnd, ResetFails, EmptyEnd, RemoveStart
<1> QED BY <1>1, <1>2, <1>3, <1>4, <1>5, <1>6, <1>7, <1>8, <1>9
        DEF Next, Scanning, ResetWork, Removing

(* A namespace keeps its number. *)
LEMMA NumbersKept ==
  ASSUME ScanInv, Next, NEW o \in Objects, obj[o].nsid # 0
  PROVE  obj'[o].nsid = obj[o].nsid
<1>1. CASE AllocNs
  <2>1. obj \in [Objects -> Object]
    BY DEF ScanInv, TypeOK
  <2>2. CASE obj' = obj
    BY <2>2
  <2>3. CASE \E p \in Objects :
               obj[p] = Unused /\ obj' = [obj EXCEPT ![p].nsid = scan.nsid, ![p].refs = 1]
    BY <2>1, <2>3 DEF Unused
  <2> QED BY <1>1, <2>2, <2>3 DEF AllocNs
<1>2. CASE ScanEnd
  BY <1>2 DEF ScanEnd
<1> QED BY <1>1, <1>2, ThinnerSteps DEF Thinner

-----------------------------------------------------------------------------
(* The head of the list is on it. *)
LEMMA FirstFacts ==
  ASSUME TypeOK
  PROVE  FirstEntry # None => FirstEntry \in Listed
<1> SUFFICES ASSUME list # <<>> PROVE list[1] \in Listed
  BY DEF FirstEntry
<1>1. list \in Seq(Objects)
  BY DEF TypeOK
<1>2. 1 \in DOMAIN list
  BY <1>1, EmptySeq, LenProperties
<1> QED BY <1>2 DEF Listed, Range

(* An entry of the list or where an entry taken off it leads. *)
LEMMA NextTypes ==
  ASSUME TypeOK, ListInv, NEW o \in Objects, obj[o].nsid # 0
  PROVE  /\ NextEntry(o) \in Objects \union {None}
         /\ NextEntry(o) # None => obj[NextEntry(o)].nsid # 0
         /\ o \in Listed /\ NextEntry(o) # None => NextEntry(o) \in Listed \ {o}
<1>1. CASE o \notin Listed
  BY <1>1 DEF NextEntry
<1>2. CASE o \in Listed
  <2>1. PICK k \in DOMAIN list : list[k] = o
    BY <1>2 DEF Listed, Range
  <2>2. NextEntry(o) = IF k = Len(list) THEN None ELSE list[k + 1]
    BY <2>1, NextFacts
  <2>3. k # Len(list) => /\ k + 1 \in DOMAIN list /\ k + 1 # k
                         /\ list[k + 1] \in Objects
    BY ListTypes
  <2>4. k # Len(list) => list[k + 1] \in Listed \ {o}
    BY <2>1, <2>3 DEF ListInv, Listed, Range
  <2> QED BY <2>2, <2>3, <2>4 DEF ListInv
<1> QED BY <1>1, <1>2

(* WalkInv, but for what a removal holds. *)
ScanWalk ==
  /\ scan.pc = "check" <=> scan.ns # None
  /\ scan.ns # None => obj[scan.ns].nsid = scan.nsid
  /\ scan.next # None => scan.pc = "prune" /\ obj[scan.next].nsid # 0
  /\ steady => /\ scan.ns # None => scan.ns \in Listed
               /\ scan.next # None => scan.next \in Listed

(* Every step of the scan keeps its pointers. *)
LEMMA ScanWalkStep == ScanInv /\ Scanning => ScanWalk'
<1> SUFFICES ASSUME ScanInv, Scanning PROVE ScanWalk'
  OBVIOUS
<1>a. TypeOK /\ ListInv /\ WalkInv /\ CountInv /\ scan \in ScanRec
  BY DEF ScanInv, TypeOK
<1>b. Listed \subseteq Objects /\ None \notin Objects /\ \A o \in Listed : obj[o].nsid # 0
  BY <1>a, ListTypes DEF ListInv
<1>1. ASSUME ScanStart PROVE ScanWalk'
  <2>1. CASE scan' = scan
    <3>1. UNCHANGED <<obj, list>> /\ ~steady'
      BY <1>1, <1>a, <2>1 DEF ScanStart, Resting
    <3> QED BY <1>a, <2>1, <3>1 DEF WalkInv, ScanWalk
  <2>2. CASE scan' # scan
    <3>1. scan'.ns = None /\ scan'.next = None /\ scan'.pc \in {"list", "validate"}
      BY <1>1, <2>2 DEF ScanStart, Resting
    <3> QED BY <3>1 DEF ScanWalk
  <2> QED BY <2>1, <2>2
<1>2. ASSUME IdentifyNsList PROVE ScanWalk'
  <2>1. scan'.ns = None /\ scan'.next = None /\ scan'.pc \in {"entry", "validate"}
    BY <1>2, <1>a DEF IdentifyNsList, Resting, ScanRec, WalkInv
  <2> QED BY <2>1 DEF ScanWalk
<1>3. ASSUME NextListEntry PROVE ScanWalk'
  <2>1. /\ scan'.ns = None /\ scan'.pc \in {"list", "validate", "prune"}
        /\ scan'.pc = "prune" => scan'.next = FirstEntry
        /\ scan'.pc # "prune" => scan'.next = None
        /\ UNCHANGED <<list, obj>>
    BY <1>3, <1>a DEF NextListEntry, ScanRec, WalkInv
  <2> QED BY <1>a, <1>b, <2>1, FirstFacts DEF ScanWalk, Listed
<1>4. ASSUME ValidateNs PROVE ScanWalk'
  <2> DEFINE o == FindNs(scan.nsid)
  <2>1. /\ scan'.ns = o /\ scan'.next = None /\ scan'.nsid = scan.nsid /\ list' = list
        /\ scan'.pc = IF o = None THEN "alloc" ELSE "check"
        /\ o # None => obj' = [obj EXCEPT ![o].refs = @ + 1]
    BY <1>4, <1>a DEF ValidateNs, ScanRec, WalkInv
  <2>2. o # None => o \in Listed /\ obj[o].nsid = scan.nsid /\ obj[o] \in Loose
    BY <1>a, <1>b, FindFacts, LooseTypes DEF ScanRec
  <2> HIDE DEF o
  <2>3. o # None => obj'[o].nsid = obj[o].nsid
    BY <1>a, <1>b, <2>1, <2>2, LooseTypes DEF Loose
  <2> QED BY <2>1, <2>2, <2>3 DEF ScanWalk, Listed
<1>5. ASSUME Revalidate \/ AllocNs PROVE ScanWalk'
  <2>1. scan'.ns = None /\ scan'.next = None /\ scan'.pc \in {"gap", "validate"}
    BY <1>5, <1>a DEF Revalidate, AllocNs, Validated, ScanRec, WalkInv
  <2> QED BY <2>1 DEF ScanWalk
<1>7. ASSUME FillGap PROVE ScanWalk'
  <2>1. scan'.ns = None /\ scan'.next = None /\ scan'.pc \in {"gap", "entry"}
    BY <1>7, <1>a DEF FillGap, ScanRec, WalkInv
  <2> QED BY <2>1 DEF ScanWalk
<1>8. ASSUME SequentialEnd PROVE ScanWalk'
  <2>1. scan'.ns = None /\ scan'.next = FirstEntry /\ scan'.pc = "prune"
        /\ UNCHANGED <<list, obj>>
    BY <1>8, <1>a DEF SequentialEnd, ScanRec, WalkInv
  <2> QED BY <1>a, <1>b, <2>1, FirstFacts DEF ScanWalk, Listed
<1>9. ASSUME RemoveInvalid PROVE ScanWalk'
  <2>1. /\ scan.next \in Objects /\ obj[scan.next].nsid # 0 /\ scan.ns = None
        /\ scan'.ns = None /\ scan'.pc = "prune" /\ scan'.next = NextEntry(scan.next)
        /\ (steady' <=> steady) /\ (steady => scan.next \in Listed)
    BY <1>9, <1>a, WalksKnown DEF RemoveInvalid, WalkInv, ScanRec
  <2>2. scan'.next # None => obj'[scan'.next].nsid # 0
    <3> SUFFICES ASSUME scan'.next # None PROVE obj'[scan'.next].nsid # 0
      OBVIOUS
    <3>1. PICK o \in Objects : o = scan'.next /\ obj[o].nsid # 0
      BY <1>a, <2>1, NextTypes
    <3> QED BY <1>9, <3>1, NumbersKept DEF Next
  <2>3. scan.next \in Listed => Listed' = Listed \/ Listed' = Listed \ {scan.next}
    <3>1. CASE list' = list
      BY <3>1 DEF Listed
    <3>2. CASE NsRemove(scan.next, 0)
      BY <1>a, <3>2, RemoveFacts
    <3> QED BY <1>9, <3>1, <3>2 DEF RemoveInvalid
  <2>4. scan.next \in Listed /\ scan'.next # None => scan'.next \in Listed \ {scan.next}
    BY <1>a, <2>1, NextTypes
  <2> QED BY <2>1, <2>2, <2>3, <2>4 DEF ScanWalk
<1>10. ASSUME ScanEnd PROVE ScanWalk'
  <2>1. scan'.ns = None /\ scan'.next = None /\ scan'.pc = "idle"
    BY <1>10 DEF ScanEnd, Resting
  <2> QED BY <2>1 DEF ScanWalk
<1> QED BY <1>1, <1>2, <1>3, <1>4, <1>5, <1>7, <1>8, <1>9, <1>10 DEF Scanning

(* Every step keeps the walks. *)
LEMMA WalkStep == ScanInv /\ Next => WalkInv'
<1> SUFFICES ASSUME ScanInv, Next PROVE WalkInv'
  OBVIOUS
<1>a. TypeOK /\ ListInv /\ WalkInv /\ GoneInv /\ CountInv
  BY DEF ScanInv
<1>b. /\ scan.ns # None => obj'[scan.ns].nsid = obj[scan.ns].nsid
      /\ scan.next # None => obj'[scan.next].nsid = obj[scan.next].nsid
      /\ remover.on => obj'[remover.cur].nsid = obj[remover.cur].nsid
      /\ remover.next # None => obj'[remover.next].nsid = obj[remover.next].nsid
  BY <1>a, WalksKnown, NumbersKept
<1>1. ASSUME Scanning PROVE WalkInv'
  <2>1. UNCHANGED <<remover, work, rem>>
    BY <1>1 DEF Scanning, ScanStart, IdentifyNsList, NextListEntry, ValidateNs,
          Revalidate, AllocNs, FillGap, SequentialEnd, RemoveInvalid, ScanEnd
  <2>2. steady' => Live
    BY <1>1, <1>a DEF Scanning, ScanStart, IdentifyNsList, NextListEntry, ValidateNs,
          Revalidate, AllocNs, FillGap, SequentialEnd, RemoveInvalid, ScanEnd, WalkInv
  <2>3. ScanWalk'
    BY <1>1, ScanWalkStep
  <2> QED BY <1>a, <1>b, <2>1, <2>2, <2>3 DEF WalkInv, ScanWalk, Live
<1>2. ASSUME DeviceChange \/ Notice \/ Rescan \/ Reset \/ Unbind PROVE WalkInv'
  <2>1. UNCHANGED <<obj, list, scan, remover>>
    BY <1>2 DEF DeviceChange, Notice, Rescan, Reset, Unbind
  <2>2. steady' => steady /\ UNCHANGED <<work, rem>>
    BY <1>2 DEF DeviceChange, Notice, Rescan, Reset, Unbind
  <2>3. (work = "emptying" => work' = work) /\ (rem = "gone" => rem' = rem)
    BY <1>2 DEF DeviceChange, Notice, Rescan, Reset, Unbind
  <2> QED BY <1>a, <2>1, <2>2, <2>3 DEF WalkInv, Live, Listed
<1>3. ASSUME ResetWork PROVE WalkInv'
  <2>1. UNCHANGED <<list, scan, remover, steady>>
    BY <1>3 DEF ResetWork, ResetEnd, ResetFails, KillQueues, EmptyEnd, RemoveDeadWork
  <2>2. ~Live
    BY <1>3 DEF ResetWork, ResetEnd, ResetFails, KillQueues, EmptyEnd, RemoveDeadWork, Live
  <2>3. remover.on => (work' = "emptying" \/ rem' = "gone")
    BY <1>3, <1>a DEF ResetWork, ResetEnd, ResetFails, KillQueues, EmptyEnd, RemoveDeadWork, WalkInv, GoneInv
  <2> QED BY <1>a, <1>b, <2>1, <2>2, <2>3 DEF WalkInv
<1>4. ASSUME NEW o \in Objects, OpenNs(o) \/ ReleaseNs(o) PROVE WalkInv'
  <2>1. UNCHANGED <<list, scan, remover, steady, work, rem>>
    BY <1>4 DEF OpenNs, ReleaseNs
  <2> QED BY <1>a, <1>b, <2>1 DEF WalkInv, Live, Listed
<1>5. ASSUME RemoveStart PROVE WalkInv'
  <2>1. /\ UNCHANGED <<obj, list, scan, steady>> /\ ~remover.on /\ ~Live /\ ~Live'
        /\ work' = "emptying" \/ rem' = "gone"
    BY <1>5 DEF RemoveStart, Live
  <2>2. CASE list = <<>>
    <3>1. remover' = remover
      BY <1>5, <2>2 DEF RemoveStart
    <3> QED BY <1>a, <2>1, <3>1 DEF WalkInv
  <2>3. CASE list # <<>>
    <3>1. remover' = [on |-> TRUE, cur |-> list[1], next |-> NextEntry(list[1])]
      BY <1>5, <2>3 DEF RemoveStart
    <3>2. FirstEntry = list[1] /\ list[1] \in Objects /\ None \notin Objects
      BY <1>a, <2>3, ListTypes, EmptySeq DEF FirstEntry, TypeOK
    <3>3. list[1] \in Listed
      BY <1>a, <3>2, FirstFacts
    <3>4. obj[list[1]].nsid # 0
      BY <1>a, <3>2, <3>3 DEF ListInv
    <3>5. NextEntry(list[1]) # None => obj[NextEntry(list[1])].nsid # 0
      BY <1>a, <3>2, <3>4, NextTypes
    <3> QED BY <1>a, <2>1, <3>1, <3>2, <3>4, <3>5 DEF WalkInv
  <2> QED BY <2>2, <2>3
<1>6. ASSUME RemoveNext PROVE WalkInv'
  <2>1. /\ remover.on /\ UNCHANGED <<work, rem, scan, steady>> /\ ~Live /\ ~steady
        /\ remover' = IF remover.next = None THEN [on |-> FALSE, cur |-> None, next |-> None]
                ELSE [on |-> TRUE, cur |-> remover.next, next |-> NextEntry(remover.next)]
    BY <1>6, <1>a DEF RemoveNext, WalkInv, Live
  <2>2. CASE remover.next = None
    <3>1. remover' = [on |-> FALSE, cur |-> None, next |-> None]
      BY <2>1, <2>2
    <3> QED BY <1>a, <1>b, <2>1, <3>1 DEF WalkInv
  <2>3. CASE remover.next # None
    <3>1. remover.next \in Objects /\ obj[remover.next].nsid # 0
      BY <1>a, <2>3, WalksKnown
    <3> DEFINE n == NextEntry(remover.next)
    <3>2. n \in Objects \union {None} /\ (n # None => obj[n].nsid # 0)
      BY <1>a, <3>1, NextTypes
    <3>3. n # None => obj'[n].nsid = obj[n].nsid
      BY <3>2, NumbersKept
    <3>4. remover' = [on |-> TRUE, cur |-> remover.next, next |-> n]
      BY <2>1, <2>3
    <3> HIDE DEF n
    <3> QED BY <1>a, <1>b, <2>1, <2>3, <3>1, <3>2, <3>3, <3>4 DEF WalkInv
  <2> QED BY <2>2, <2>3
<1> QED BY <1>1, <1>2, <1>3, <1>4, <1>5, <1>6 DEF Next, Removing

(* Every step keeps the walk of nvme_uninit_ctrl alone on the list. *)
LEMMA GoneStep == ScanInv /\ Next => GoneInv'
<1> SUFFICES ASSUME ScanInv, Next, rem' = "gone" PROVE GoneInv'
  BY DEF GoneInv
<1>a. TypeOK /\ ListInv /\ WalkInv /\ GoneInv /\ CountInv /\ list \in Seq(Objects)
  BY DEF ScanInv, TypeOK
<1>1. CASE rem # "gone"
  <2>1. /\ RemoveStart /\ ~remover.on /\ work \in {"rest", "dead"} /\ UNCHANGED <<work, list, pending, scan>>
        /\ scan.pc = "idle" /\ ~pending
    BY <1>1 DEF Next, Scanning, ScanStart, IdentifyNsList, NextListEntry, ValidateNs, Revalidate, AllocNs,
         FillGap, SequentialEnd, RemoveInvalid, ScanEnd, DeviceChange, Notice, Rescan, Reset, Unbind, ResetWork,
         ResetEnd, ResetFails, KillQueues, EmptyEnd, RemoveDeadWork, Removing, RemoveStart, RemoveNext, OpenNs, ReleaseNs
  <2>2. CASE list = <<>>
    <3>1. remover' = remover
      BY <2>1, <2>2 DEF RemoveStart
    <3> QED BY <2>1, <2>2, <3>1 DEF GoneInv
  <2>3. CASE list # <<>>
    <3>1. remover' = [on |-> TRUE, cur |-> list[1], next |-> NextEntry(list[1])]
      BY <2>1, <2>3 DEF RemoveStart
    <3>2. 1 \in DOMAIN list
      BY <1>a, <2>3, EmptySeq, LenProperties
    <3>3. NextEntry(list[1]) = IF Len(list) = 1 THEN None ELSE list[2]
      <4>1. NextEntry(list[1]) = IF 1 = Len(list) THEN None ELSE list[1 + 1]
        BY <1>a, <3>2, NextFacts
      <4>2. 1 + 1 = 2
        OBVIOUS
      <4> QED BY <4>1, <4>2
    <3> QED BY <2>1, <2>3, <3>1, <3>3 DEF GoneInv
  <2> QED BY <2>2, <2>3
<1>2. CASE rem = "gone"
  <2>a. /\ work \in {"rest", "dead"} /\ ~pending /\ scan.pc = "idle" /\ ~Live
        /\ ~remover.on => list = <<>>
        /\ remover.on => /\ list # <<>> /\ remover.cur = list[1]
                         /\ remover.next = IF Len(list) = 1 THEN None ELSE list[2]
    BY <1>2, <1>a DEF GoneInv, Live
  <2>b. ~Scanning /\ ~RemoveStart
    BY <1>2, <2>a DEF Scanning, ScanStart, IdentifyNsList, NextListEntry, ValidateNs, Revalidate, AllocNs,
         FillGap, SequentialEnd, RemoveInvalid, ScanEnd, RemoveStart
  <2>c. CASE ~RemoveNext
    <3>1. UNCHANGED <<list, scan, remover>>
      BY <2>a, <2>b, <2>c DEF Next, DeviceChange, Notice, Rescan, Reset, Unbind, ResetWork,
         ResetEnd, ResetFails, KillQueues, EmptyEnd, RemoveDeadWork, Removing, OpenNs, ReleaseNs
    <3>2. ~pending'
      BY <2>a, <2>b, <2>c DEF Next, DeviceChange, Notice, Rescan, QueueScan, Reset, Unbind, ResetWork,
         ResetEnd, ResetFails, KillQueues, EmptyEnd, RemoveDeadWork, Removing, OpenNs, ReleaseNs
    <3>3. work' \in {"rest", "dead"}
      BY <2>a, <2>b, <2>c DEF Next, DeviceChange, Notice, Rescan, Reset, Unbind, ResetWork,
         ResetEnd, ResetFails, KillQueues, EmptyEnd, RemoveDeadWork, Removing, OpenNs, ReleaseNs
    <3> QED BY <2>a, <3>1, <3>2, <3>3 DEF GoneInv
  <2>d. CASE RemoveNext
    <3>1. /\ remover.on /\ list # <<>> /\ remover.cur = list[1]
          /\ remover.next = IF Len(list) = 1 THEN None ELSE list[2]
          /\ NsRemove(list[1], 0) /\ UNCHANGED <<scan, pending, work>>
          /\ remover' = IF remover.next = None THEN [on |-> FALSE, cur |-> None, next |-> None]
                  ELSE [on |-> TRUE, cur |-> remover.next, next |-> NextEntry(remover.next)]
      BY <2>d, <2>a DEF RemoveNext
    <3>2. 1 \in DOMAIN list /\ Len(list) \in Nat /\ DOMAIN list = 1 .. Len(list)
      BY <1>a, <3>1, EmptySeq, LenProperties
    <3>3. PICK o \in Listed : o = list[1]
      BY <3>2 DEF Listed, Range
    <3>4. list' = RemoveAt(list, 1) /\ list' \in Seq(Objects)
      <4>1. IndexOf(o) = 1
        BY <1>a, <3>2, <3>3, IndexFacts
      <4> QED BY <1>a, <3>1, <3>3, <4>1, RemoveFacts
    <3>5. scan'.pc = "idle" /\ ~pending' /\ work' \in {"rest", "dead"}
      BY <2>a, <3>1
    <3>6. CASE Len(list) = 1
      <4>1. Len(list') = 0
        <5>1. 1 \in 1 .. Len(list)
          BY <3>2
        <5>2. Len(RemoveAt(list, 1)) = Len(list) - 1
          BY <1>a, <5>1, RemoveAtFacts
        <5> QED BY <3>4, <3>6, <5>2
      <4>2. list' = <<>>
        BY <3>4, <4>1, EmptySeq
      <4>3. remover' = [on |-> FALSE, cur |-> None, next |-> None]
        BY <3>1, <3>6
      <4> QED BY <3>5, <4>2, <4>3 DEF GoneInv
    <3>7. CASE Len(list) # 1
      <4> DEFINE n == Len(list)
      <4>1. /\ Len(list') = n - 1 /\ \A j \in 1 .. n - 1 : j >= 1 => list'[j] = list[j + 1]
        <5>1. 1 \in 1 .. Len(list)
          BY <3>2
        <5>2. /\ Len(RemoveAt(list, 1)) = Len(list) - 1
              /\ \A j \in 1 .. Len(list) - 1 : j >= 1 => RemoveAt(list, 1)[j] = list[j + 1]
          BY <1>a, <5>1, RemoveAtFacts
        <5> QED BY <3>4, <5>2
      <4>2. list[2] \in Objects /\ list[2] # None /\ 2 \in DOMAIN list /\ n >= 2
        BY <1>a, <3>2, <3>7, ListTypes
      <4>3. remover' = [on |-> TRUE, cur |-> list[2], next |-> NextEntry(list[2])]
        BY <3>1, <3>7, <4>2
      <4>4. NextEntry(list[2]) = IF n = 2 THEN None ELSE list[3]
        <5>1. NextEntry(list[2]) = IF 2 = n THEN None ELSE list[2 + 1]
          BY <1>a, <4>2, NextFacts
        <5>2. 2 + 1 = 3
          OBVIOUS
        <5> QED BY <5>1, <5>2
      <4> HIDE DEF n
      <4>5. list'[1] = list[2] /\ n \in Nat
        BY <3>2, <4>1, <4>2 DEF n
      <4>6. n # 2 => list'[2] = list[3]
        BY <4>1, <4>2, <4>5
      <4>7. list' # <<>>
        BY <4>1, <4>2, <4>5, EmptySeq
      <4>8. remover'.next = IF Len(list') = 1 THEN None ELSE list'[2]
        BY <4>1, <4>2, <4>3, <4>4, <4>5, <4>6
      <4> QED BY <3>1, <3>5, <4>3, <4>5, <4>7, <4>8 DEF GoneInv
    <3> QED BY <3>6, <3>7
  <2> QED BY <2>c, <2>d
<1> QED BY <1>1, <1>2

-----------------------------------------------------------------------------
(* The scan's locals keep their types when they are set, one or several at *)
(* a time.                                                                 *)
LEMMA SetField ==
  ASSUME NEW u \in ScanRec
  PROVE  /\ \A x \in Places : [u EXCEPT !.pc = x] \in ScanRec
         /\ \A x \in {"list", "sequential"} : [u EXCEPT !.mode = x] \in ScanRec
         /\ \A x \in 0 .. MaxNs : [u EXCEPT !.nn = x] \in ScanRec
         /\ \A x \in 0 .. MaxNs : [u EXCEPT !.lists = x] \in ScanRec
         /\ \A x \in SUBSET Ids : [u EXCEPT !.page = x] \in ScanRec
         /\ \A x \in 0 .. MaxNs : [u EXCEPT !.j = x] \in ScanRec
         /\ \A x \in 0 .. MaxNs + 1 : [u EXCEPT !.nsid = x] \in ScanRec
         /\ \A x \in 0 .. MaxNs : [u EXCEPT !.prev = x] \in ScanRec
         /\ \A x \in Objects \union {None} : [u EXCEPT !.ns = x] \in ScanRec
         /\ \A x \in Objects \union {None} : [u EXCEPT !.next = x] \in ScanRec
BY DEF ScanRec, Places

LEMMA SetPcNext ==
  ASSUME NEW u \in ScanRec, NEW pc0 \in Places,
         NEW next0 \in Objects \union {None}
  PROVE  [u EXCEPT !.pc = pc0, !.next = next0] \in ScanRec
<1> DEFINE w1 == [u EXCEPT !.pc = pc0]
<1>0. [u EXCEPT !.pc = pc0, !.next = next0] = [w1 EXCEPT !.next = next0]
  OBVIOUS
<1>1. w1 \in ScanRec
  BY SetField
<1> HIDE DEF w1
<1> QED BY <1>0, <1>1, SetField

LEMMA SetPcNnLists ==
  ASSUME NEW u \in ScanRec, NEW pc0 \in Places,
         NEW nn0 \in 0 .. MaxNs,
         NEW lists0 \in 0 .. MaxNs
  PROVE  [u EXCEPT !.pc = pc0, !.nn = nn0, !.lists = lists0] \in ScanRec
<1> DEFINE w1 == [u EXCEPT !.pc = pc0]
           w2 == [w1 EXCEPT !.nn = nn0]
<1>0. [u EXCEPT !.pc = pc0, !.nn = nn0, !.lists = lists0] = [w2 EXCEPT !.lists = lists0]
  OBVIOUS
<1>1. w1 \in ScanRec
  BY SetField
<1> HIDE DEF w1
<1>2. w2 \in ScanRec
  BY <1>1, SetField
<1> HIDE DEF w2
<1> QED BY <1>0, <1>2, SetField

LEMMA SetPcModeNnNsid ==
  ASSUME NEW u \in ScanRec, NEW pc0 \in Places,
         NEW mode0 \in {"list", "sequential"},
         NEW nn0 \in 0 .. MaxNs,
         NEW nsid0 \in 0 .. MaxNs + 1
  PROVE  [u EXCEPT !.pc = pc0, !.mode = mode0, !.nn = nn0, !.nsid = nsid0] \in ScanRec
<1> DEFINE w1 == [u EXCEPT !.pc = pc0]
           w2 == [w1 EXCEPT !.mode = mode0]
           w3 == [w2 EXCEPT !.nn = nn0]
<1>0. [u EXCEPT !.pc = pc0, !.mode = mode0, !.nn = nn0, !.nsid = nsid0] = [w3 EXCEPT !.nsid = nsid0]
  OBVIOUS
<1>1. w1 \in ScanRec
  BY SetField
<1> HIDE DEF w1
<1>2. w2 \in ScanRec
  BY <1>1, SetField
<1> HIDE DEF w2
<1>3. w3 \in ScanRec
  BY <1>2, SetField
<1> HIDE DEF w3
<1> QED BY <1>0, <1>3, SetField

LEMMA SetPcJPage ==
  ASSUME NEW u \in ScanRec, NEW pc0 \in Places,
         NEW j0 \in 0 .. MaxNs,
         NEW page0 \in SUBSET Ids
  PROVE  [u EXCEPT !.pc = pc0, !.j = j0, !.page = page0] \in ScanRec
<1> DEFINE w1 == [u EXCEPT !.pc = pc0]
           w2 == [w1 EXCEPT !.j = j0]
<1>0. [u EXCEPT !.pc = pc0, !.j = j0, !.page = page0] = [w2 EXCEPT !.page = page0]
  OBVIOUS
<1>1. w1 \in ScanRec
  BY SetField
<1> HIDE DEF w1
<1>2. w2 \in ScanRec
  BY <1>1, SetField
<1> HIDE DEF w2
<1> QED BY <1>0, <1>2, SetField

LEMMA SetPcNsidPageJ ==
  ASSUME NEW u \in ScanRec, NEW pc0 \in Places,
         NEW nsid0 \in 0 .. MaxNs + 1,
         NEW page0 \in SUBSET Ids,
         NEW j0 \in 0 .. MaxNs
  PROVE  [u EXCEPT !.pc = pc0, !.nsid = nsid0, !.page = page0, !.j = j0] \in ScanRec
<1> DEFINE w1 == [u EXCEPT !.pc = pc0]
           w2 == [w1 EXCEPT !.nsid = nsid0]
           w3 == [w2 EXCEPT !.page = page0]
<1>0. [u EXCEPT !.pc = pc0, !.nsid = nsid0, !.page = page0, !.j = j0] = [w3 EXCEPT !.j = j0]
  OBVIOUS
<1>1. w1 \in ScanRec
  BY SetField
<1> HIDE DEF w1
<1>2. w2 \in ScanRec
  BY <1>1, SetField
<1> HIDE DEF w2
<1>3. w3 \in ScanRec
  BY <1>2, SetField
<1> HIDE DEF w3
<1> QED BY <1>0, <1>3, SetField

LEMMA SetPcNs ==
  ASSUME NEW u \in ScanRec, NEW pc0 \in Places,
         NEW ns0 \in Objects \union {None}
  PROVE  [u EXCEPT !.pc = pc0, !.ns = ns0] \in ScanRec
<1> DEFINE w1 == [u EXCEPT !.pc = pc0]
<1>0. [u EXCEPT !.pc = pc0, !.ns = ns0] = [w1 EXCEPT !.ns = ns0]
  OBVIOUS
<1>1. w1 \in ScanRec
  BY SetField
<1> HIDE DEF w1
<1> QED BY <1>0, <1>1, SetField

LEMMA SetPcPrevNs ==
  ASSUME NEW u \in ScanRec, NEW pc0 \in Places,
         NEW prev0 \in 0 .. MaxNs,
         NEW ns0 \in Objects \union {None}
  PROVE  [u EXCEPT !.pc = pc0, !.prev = prev0, !.ns = ns0] \in ScanRec
<1> DEFINE w1 == [u EXCEPT !.pc = pc0]
           w2 == [w1 EXCEPT !.prev = prev0]
<1>0. [u EXCEPT !.pc = pc0, !.prev = prev0, !.ns = ns0] = [w2 EXCEPT !.ns = ns0]
  OBVIOUS
<1>1. w1 \in ScanRec
  BY SetField
<1> HIDE DEF w1
<1>2. w2 \in ScanRec
  BY <1>1, SetField
<1> HIDE DEF w2
<1> QED BY <1>0, <1>2, SetField

LEMMA SetPcNsidNs ==
  ASSUME NEW u \in ScanRec, NEW pc0 \in Places,
         NEW nsid0 \in 0 .. MaxNs + 1,
         NEW ns0 \in Objects \union {None}
  PROVE  [u EXCEPT !.pc = pc0, !.nsid = nsid0, !.ns = ns0] \in ScanRec
<1> DEFINE w1 == [u EXCEPT !.pc = pc0]
           w2 == [w1 EXCEPT !.nsid = nsid0]
<1>0. [u EXCEPT !.pc = pc0, !.nsid = nsid0, !.ns = ns0] = [w2 EXCEPT !.ns = ns0]
  OBVIOUS
<1>1. w1 \in ScanRec
  BY SetField
<1> HIDE DEF w1
<1>2. w2 \in ScanRec
  BY <1>1, SetField
<1> HIDE DEF w2
<1> QED BY <1>0, <1>2, SetField

LEMMA SetPcPrevNext ==
  ASSUME NEW u \in ScanRec, NEW pc0 \in Places,
         NEW prev0 \in 0 .. MaxNs,
         NEW next0 \in Objects \union {None}
  PROVE  [u EXCEPT !.pc = pc0, !.prev = prev0, !.next = next0] \in ScanRec
<1> DEFINE w1 == [u EXCEPT !.pc = pc0]
           w2 == [w1 EXCEPT !.prev = prev0]
<1>0. [u EXCEPT !.pc = pc0, !.prev = prev0, !.next = next0] = [w2 EXCEPT !.next = next0]
  OBVIOUS
<1>1. w1 \in ScanRec
  BY SetField
<1> HIDE DEF w1
<1>2. w2 \in ScanRec
  BY <1>1, SetField
<1> HIDE DEF w2
<1> QED BY <1>0, <1>2, SetField

-----------------------------------------------------------------------------
(* The number of Identify lists, DIV_ROUND_UP(nn, 1024). *)
LEMMA ListsFacts ==
  ASSUME NEW m \in Nat \ {0}, NEW p \in Nat \ {0}, NEW l, l = (m + p - 1) \div p
  PROVE  l \in 1 .. m /\ m <= l * p
<1>1. l \in Int /\ l * p <= m + p - 1 /\ m + p - 1 < (l + 1) * p
  OBVIOUS
<1>2. (l + 1) * p = l * p + p
  BY <1>1
<1>3. m <= l * p
  BY <1>1, <1>2
<1>4. l >= 1
  <2> SUFFICES ASSUME l <= 0 PROVE FALSE
    BY <1>1
  <2>1. l * p <= 0
    BY <1>1
  <2> QED BY <1>3, <2>1
<1>5. l <= m
  <2> SUFFICES ASSUME l >= m + 1 PROVE FALSE
    BY <1>1
  <2>1. l * p >= (m + 1) * p
    BY <1>1
  <2>2. (m + 1) * p = m * p + p
    OBVIOUS
  <2>3. m * p >= m
    OBVIOUS
  <2> QED BY <1>1, <2>1, <2>2, <2>3
<1> QED BY <1>1, <1>3, <1>4, <1>5

(* One list less, one page less. *)
LEMMA OneListLess ==
  ASSUME NEW l \in Nat, NEW p \in Nat, l >= 2
  PROVE  (l - 1) * p = l * p - p /\ (l - 1) * p >= 0
<1>1. (l - 1) * p = l * p - p
  OBVIOUS
<1>2. \A a, b \in Nat : a * b \in Nat
  OBVIOUS
<1> QED BY <1>1, <1>2

-----------------------------------------------------------------------------
(* They have them when the scan rests. *)
LEMMA RestingTypes == Resting \in ScanRec
<1>1. MaxNs \in Nat
  BY ScanAssumption
<1> QED BY <1>1 DEF Resting, ScanRec, Ids

(* The place after the validation of a number. *)
LEMMA ValidatedCount ==
  ASSUME TypeOK, CountInv, scan.pc \in {"check", "alloc"}, scan' = Validated
  PROVE  /\ scan' \in ScanRec /\ CountInv'
         /\ scan'.mode = scan.mode /\ scan'.next = scan.next /\ scan'.ns = None
         /\ scan.mode = "list" =>
              /\ scan'.pc = "gap" /\ scan'.prev = scan.prev + 1 /\ scan'.nsid = scan.nsid
              /\ scan'.j = scan.j /\ scan'.page = scan.page
         /\ scan.mode = "sequential" =>
              /\ scan'.pc = "validate" /\ scan'.prev = scan.prev /\ scan'.nsid = scan.nsid + 1
<1>a. /\ scan.prev < scan.nsid /\ scan.nsid <= MaxNs /\ scan \in ScanRec
      /\ scan.prev \in 0 .. MaxNs /\ scan.nsid \in 0 .. MaxNs + 1 /\ MaxNs \in Nat
      /\ scan.mode \in {"list", "sequential"}
  BY CountTypes DEF CountInv
<1>1. CASE scan.mode = "list"
  <2>1. scan' = [scan EXCEPT !.pc = "gap", !.prev = @ + 1, !.ns = None]
    BY <1>1 DEF Validated
  <2>2. scan' \in ScanRec
    <3> DEFINE m == scan.prev + 1
    <3>1. m \in 0 .. MaxNs /\ "gap" \in Places /\ None \in Objects \union {None}
      BY <1>a DEF Places
    <3>2. scan' = [scan EXCEPT !.pc = "gap", !.prev = m, !.ns = None]
      BY <2>1
    <3> HIDE DEF m
    <3>3. [scan EXCEPT !.pc = "gap", !.prev = m, !.ns = None] \in ScanRec
      BY <1>a, <3>1, SetPcPrevNs
    <3> QED BY <3>2, <3>3
  <2>3. /\ scan'.pc = "gap" /\ scan'.prev = scan.prev + 1 /\ scan'.nsid = scan.nsid
        /\ scan'.j = scan.j /\ scan'.page = scan.page /\ scan'.lists = scan.lists /\ scan'.nn = scan.nn
        /\ scan'.mode = scan.mode /\ scan'.next = scan.next /\ scan'.ns = None
    BY <1>a, <2>1 DEF ScanRec
  <2>4. CountInv'
    BY <1>a, <1>1, <2>3 DEF CountInv, Listing, Came
  <2> QED BY <1>1, <2>2, <2>3, <2>4
<1>2. CASE scan.mode = "sequential"
  <2>1. scan' = [scan EXCEPT !.pc = "validate", !.nsid = @ + 1, !.ns = None]
    BY <1>2 DEF Validated
  <2>2. scan' \in ScanRec
    <3> DEFINE m == scan.nsid + 1
    <3>1. m \in 0 .. MaxNs + 1 /\ "validate" \in Places /\ None \in Objects \union {None}
      BY <1>a DEF Places
    <3>2. scan' = [scan EXCEPT !.pc = "validate", !.nsid = m, !.ns = None]
      BY <2>1
    <3> HIDE DEF m
    <3>3. [scan EXCEPT !.pc = "validate", !.nsid = m, !.ns = None] \in ScanRec
      BY <1>a, <3>1, SetPcNsidNs
    <3> QED BY <3>2, <3>3
  <2>3. /\ scan'.pc = "validate" /\ scan'.prev = scan.prev /\ scan'.nsid = scan.nsid + 1
        /\ scan'.mode = scan.mode /\ scan'.next = scan.next /\ scan'.ns = None
    BY <1>a, <2>1 DEF ScanRec
  <2>4. CountInv'
    BY <1>a, <1>2, <2>3 DEF CountInv, Listing, Came
  <2> QED BY <1>2, <2>2, <2>3, <2>4
<1> QED BY <1>a, <1>1, <1>2

(* The start of a sequential scan. *)
LEMMA SequentialCount ==
  ASSUME scan' = [Resting EXCEPT !.pc = "validate", !.mode = "sequential", !.nn = MaxNs, !.nsid = 1]
  PROVE  /\ scan' \in ScanRec /\ CountInv'
         /\ scan'.pc = "validate" /\ scan'.mode = "sequential" /\ scan'.nsid = 1 /\ scan'.prev = 0
         /\ scan'.ns = None /\ scan'.next = None
<1>1. MaxNs \in Nat /\ MaxNs >= 1
  BY ScanAssumption
<1>2. MaxNs \in 0 .. MaxNs /\ 1 \in 0 .. MaxNs + 1
  BY <1>1
<1>3. scan' \in ScanRec
  BY <1>2, RestingTypes, SetPcModeNnNsid DEF Places
<1>4. /\ scan'.pc = "validate" /\ scan'.mode = "sequential" /\ scan'.nsid = 1 /\ scan'.prev = 0
      /\ scan'.ns = None /\ scan'.next = None
  BY DEF Resting
<1>5. CountInv'
  BY <1>1, <1>4 DEF CountInv, Listing, Came
<1> QED BY <1>3, <1>4, <1>5

(* The next entry of a list is the smallest that is to come. *)
LEMMA EntryFacts ==
  ASSUME TypeOK, scan.page # {},
         NEW n, n = CHOOSE k \in scan.page : \A l \in scan.page : k <= l
  PROVE  n \in scan.page /\ n \in 1 .. MaxNs /\ \A l \in scan.page : n <= l
<1>1. scan.page \subseteq 1 .. MaxNs /\ MaxNs \in Nat
  BY CountTypes DEF Ids
<1>2. scan.page \in SUBSET Nat
  BY <1>1
<1>3. \E k \in scan.page : \A l \in scan.page : k <= l
  BY <1>2, Smallest
<1> QED BY <1>1, <1>3

(* Every step keeps the numbers the scan counts with. *)
LEMMA CountStep == ScanInv /\ Next => scan' \in ScanRec /\ CountInv'
<1> SUFFICES ASSUME ScanInv, Next PROVE scan' \in ScanRec /\ CountInv'
  OBVIOUS
<1>a. TypeOK /\ ListInv /\ WalkInv /\ CountInv /\ scan \in ScanRec
  BY DEF ScanInv, TypeOK
<1>b. /\ scan.pc \in Places /\ scan.mode \in {"list", "sequential"}
      /\ scan.nn \in 0 .. MaxNs /\ scan.lists \in 0 .. MaxNs /\ scan.page \subseteq Ids
      /\ scan.j \in 0 .. MaxNs /\ scan.nsid \in 0 .. MaxNs + 1 /\ scan.prev \in 0 .. MaxNs
      /\ MaxNs \in Nat /\ MaxNs >= 1 /\ PageSize \in Nat /\ PageSize >= 1
  BY <1>a, CountTypes
<1>c. FirstEntry \in Objects \union {None} /\ (\A o \in Listed : NextEntry(o) \in Objects \union {None})
  <2>1. FirstEntry \in Objects \union {None}
    BY <1>a, FirstFacts, ListTypes
  <2>2. ASSUME NEW o \in Listed PROVE NextEntry(o) \in Objects \union {None}
    <3>1. PICK k \in DOMAIN list : list[k] = o
      BY DEF Listed, Range
    <3>2. NextEntry(o) = IF k = Len(list) THEN None ELSE list[k + 1]
      BY <1>a, <3>1, NextFacts
    <3>3. k # Len(list) => k + 1 \in DOMAIN list
      BY <1>a, ListTypes
    <3> QED BY <1>a, <3>2, <3>3, ListTypes
  <2> QED BY <2>1, <2>2
<1>d. scan' = scan => scan' \in ScanRec /\ CountInv'
  BY <1>a DEF CountInv, Listing, Came
<1>1. ASSUME ScanStart PROVE scan' \in ScanRec /\ CountInv'
  <2> DEFINE l == (MaxNs + PageSize - 1) \div PageSize
  <2>1. l \in 1 .. MaxNs /\ MaxNs <= l * PageSize
    <3>1. MaxNs \in Nat \ {0} /\ PageSize \in Nat \ {0}
      BY ScanAssumption
    <3> QED BY <3>1, ListsFacts
  <2> HIDE DEF l
  <2>2. CASE scan' = [Resting EXCEPT !.pc = "list", !.nn = MaxNs, !.lists = l]
    <3>1. scan' \in ScanRec
      <4>1. MaxNs \in 0 .. MaxNs /\ l \in 0 .. MaxNs
        BY <1>b, <2>1
      <4> QED BY <2>2, <4>1, RestingTypes, SetPcNnLists DEF Places
    <3>2. /\ scan'.pc = "list" /\ scan'.mode = "list" /\ scan'.nn = MaxNs /\ scan'.lists = l
          /\ scan'.prev = 0
      BY <2>2 DEF Resting
    <3> QED BY <1>b, <2>1, <3>1, <3>2 DEF CountInv, Listing, Came
  <2>3. CASE scan' = [Resting EXCEPT !.pc = "validate", !.mode = "sequential", !.nn = MaxNs, !.nsid = 1]
    BY <2>3, SequentialCount
  <2> QED BY <1>1, <1>d, <2>2, <2>3 DEF ScanStart, l
<1>2. ASSUME IdentifyNsList PROVE scan' \in ScanRec /\ CountInv'
  <2> DEFINE page == {n \in active : n > scan.prev /\
                       Cardinality({k \in active : scan.prev < k /\ k < n}) < PageSize}
  <2>0. page \subseteq Ids /\ \A n \in page : scan.prev < n
    BY <1>a, <1>b DEF TypeOK, Ids
  <2>1. CASE scan' = [scan EXCEPT !.pc = "entry", !.j = 0, !.page = page]
    <3> HIDE DEF page
    <3>1. 0 \in 0 .. MaxNs
      BY <1>b
    <3>2. scan' \in ScanRec
      BY <1>a, <2>0, <2>1, <3>1, SetPcJPage DEF Places
    <3>3. /\ scan'.pc = "entry" /\ scan'.j = 0 /\ scan'.page = page /\ scan'.prev = scan.prev
          /\ scan'.nn = scan.nn /\ scan'.lists = scan.lists /\ scan'.mode = scan.mode
      BY <1>a, <2>1 DEF ScanRec
    <3>4. scan.pc = "list" /\ scan.mode = "list"
      BY <1>2, <1>a DEF IdentifyNsList, CountInv
    <3> QED BY <1>a, <1>b, <2>0, <3>2, <3>3, <3>4 DEF CountInv, Listing, Came
  <2>2. CASE scan' = [Resting EXCEPT !.pc = "validate", !.mode = "sequential", !.nn = MaxNs, !.nsid = 1]
    BY <2>2, SequentialCount
  <2> QED BY <1>2, <2>1, <2>2 DEF IdentifyNsList
<1>3. ASSUME NextListEntry PROVE scan' \in ScanRec /\ CountInv'
  <2> DEFINE limit == IF scan.nn < PageSize THEN scan.nn ELSE PageSize
  <2>0. /\ scan.pc = "entry" /\ scan.mode = "list" /\ limit \in Nat
        /\ limit <= scan.nn /\ limit <= PageSize /\ (limit = scan.nn \/ limit = PageSize)
        /\ 1 <= scan.lists /\ scan.nn <= scan.lists * PageSize
        /\ scan.j <= scan.nn /\ scan.j <= PageSize /\ MaxNs + scan.j <= scan.prev + scan.nn
        /\ \A n \in scan.page : scan.prev < n
    BY <1>3, <1>a, <1>b DEF NextListEntry, CountInv, Listing, Came
  <2>1. CASE scan' = [scan EXCEPT !.pc = "prune", !.next = FirstEntry]
    <3>1. scan' \in ScanRec
      BY <1>a, <1>c, <2>1, SetPcNext DEF Places
    <3>2. scan'.pc = "prune"
      BY <1>a, <2>1 DEF ScanRec
    <3> QED BY <3>1, <3>2 DEF CountInv, Listing
  <2>2. CASE scan.j < limit /\ scan.page # {}
    <3> DEFINE n == CHOOSE k \in scan.page : \A l \in scan.page : k <= l
    <3>1. n \in scan.page /\ n \in 1 .. MaxNs /\ \A l \in scan.page : n <= l
      BY <1>a, <2>2, EntryFacts
    <3>2. scan' = [scan EXCEPT !.pc = "validate", !.nsid = n, !.page = @ \ {n}, !.j = @ + 1]
      BY <1>3, <2>2 DEF NextListEntry
    <3> HIDE DEF n, limit
    <3> DEFINE page == scan.page \ {n}
               j == scan.j + 1
    <3>3. scan' = [scan EXCEPT !.pc = "validate", !.nsid = n, !.page = page, !.j = j]
      BY <3>2
    <3>4. page \in SUBSET Ids /\ j \in 0 .. MaxNs /\ n \in 0 .. MaxNs + 1
      BY <1>b, <2>0, <2>2, <3>1
    <3>5. scan.j \in Nat /\ j = scan.j + 1 /\ \A l \in page : n < l
      BY <1>b, <3>1 DEF Ids
    <3> HIDE DEF page, j
    <3>6. scan' \in ScanRec
      BY <1>a, <3>3, <3>4, SetPcNsidPageJ DEF Places
    <3>7. /\ scan'.pc = "validate" /\ scan'.nsid = n /\ scan'.page = page /\ scan'.j = j
          /\ scan'.prev = scan.prev /\ scan'.nn = scan.nn /\ scan'.lists = scan.lists
          /\ scan'.mode = "list"
      BY <1>a, <2>0, <3>3 DEF ScanRec
    <3>8. /\ scan.prev < n /\ n <= MaxNs /\ j <= scan.nn /\ j <= PageSize
          /\ MaxNs + j <= n + scan.nn
      BY <1>b, <2>0, <2>2, <3>1, <3>5
    <3> QED BY <1>b, <2>0, <3>5, <3>6, <3>7, <3>8 DEF CountInv, Listing, Came
  <2>3. CASE ~(scan.j < limit) /\ scan.lists # 1
    <3> DEFINE nn == scan.nn - scan.j
               lists == scan.lists - 1
    <3>1. scan' = [scan EXCEPT !.pc = "list", !.nn = nn, !.lists = lists]
      BY <1>3, <2>3 DEF NextListEntry
    <3>2. scan.j = limit /\ scan.lists >= 2
      BY <1>b, <2>0, <2>3
    <3>3. nn \in 0 .. MaxNs /\ lists \in 1 .. MaxNs /\ MaxNs <= scan.prev + nn
      BY <1>b, <2>0, <3>2
    <3>4. nn <= lists * PageSize
      <4>1. /\ (scan.lists - 1) * PageSize = scan.lists * PageSize - PageSize
            /\ (scan.lists - 1) * PageSize >= 0
        BY <1>b, <3>2, OneListLess
      <4>2. scan.lists * PageSize \in Int
        BY <1>b
      <4> QED BY <1>b, <2>0, <3>2, <4>1, <4>2
    <3> HIDE DEF nn, lists
    <3>5. scan' \in ScanRec
      <4>1. lists \in 0 .. MaxNs
        BY <3>3
      <4> QED BY <1>a, <3>1, <3>3, <4>1, SetPcNnLists DEF Places
    <3>6. scan'.pc = "list" /\ scan'.nn = nn /\ scan'.lists = lists /\ scan'.prev = scan.prev
          /\ scan'.mode = "list"
      BY <1>a, <2>0, <3>1 DEF ScanRec
    <3> QED BY <1>b, <3>3, <3>4, <3>5, <3>6 DEF CountInv, Listing, Came
  <2> QED BY <1>3, <2>1, <2>2, <2>3 DEF NextListEntry
<1>4. ASSUME ValidateNs PROVE scan' \in ScanRec /\ CountInv'
  <2> DEFINE o == FindNs(scan.nsid)
             place == IF o = None THEN "alloc" ELSE "check"
  <2>1. scan' = [scan EXCEPT !.pc = place, !.ns = o] /\ scan.pc = "validate" /\ scan.nsid <= MaxNs
    BY <1>4 DEF ValidateNs
  <2>2. o \in Objects \union {None} /\ place \in {"alloc", "check"}
    BY <1>a, <1>b, FindFacts, ListTypes
  <2> HIDE DEF o, place
  <2>3. scan' \in ScanRec
    BY <1>a, <2>1, <2>2, SetPcNs DEF Places
  <2>4. /\ scan'.pc = place /\ scan'.mode = scan.mode /\ scan'.nn = scan.nn
        /\ scan'.lists = scan.lists /\ scan'.page = scan.page /\ scan'.j = scan.j
        /\ scan'.nsid = scan.nsid /\ scan'.prev = scan.prev
    BY <1>a, <2>1 DEF ScanRec
  <2> QED BY <1>a, <1>b, <2>1, <2>2, <2>3, <2>4 DEF CountInv, Listing, Came
<1>5. ASSUME Revalidate \/ AllocNs PROVE scan' \in ScanRec /\ CountInv'
  <2>1. scan.pc \in {"check", "alloc"} /\ scan' = Validated
    BY <1>5 DEF Revalidate, AllocNs
  <2> QED BY <1>a, <2>1, ValidatedCount
<1>6. ASSUME FillGap PROVE scan' \in ScanRec /\ CountInv'
  <2>0. scan.pc = "gap" /\ scan.mode = "list" /\ scan.prev <= scan.nsid /\ scan.nsid <= MaxNs
    BY <1>6, <1>a DEF FillGap, CountInv
  <2>1. CASE scan.prev < scan.nsid
    <3> DEFINE prev == scan.prev + 1
    <3>1. prev \in 0 .. MaxNs /\ scan' = [scan EXCEPT !.prev = prev] /\ prev <= scan.nsid
      BY <1>6, <1>b, <2>0, <2>1 DEF FillGap
    <3> HIDE DEF prev
    <3>2. scan' \in ScanRec
      BY <1>a, <3>1, SetField
    <3>3. /\ scan'.pc = "gap" /\ scan'.mode = "list" /\ scan'.nn = scan.nn
          /\ scan'.lists = scan.lists /\ scan'.page = scan.page /\ scan'.j = scan.j
          /\ scan'.nsid = scan.nsid /\ scan'.prev = prev
      BY <1>a, <2>0, <3>1 DEF ScanRec
    <3> QED BY <1>a, <1>b, <2>0, <3>1, <3>2, <3>3 DEF CountInv, Listing, Came
  <2>2. CASE ~(scan.prev < scan.nsid)
    <3>1. scan' = [scan EXCEPT !.pc = "entry"] /\ scan.prev = scan.nsid
      BY <1>6, <1>b, <2>0, <2>2 DEF FillGap
    <3>2. scan' \in ScanRec
      BY <1>a, <3>1, SetField DEF Places
    <3>3. /\ scan'.pc = "entry" /\ scan'.mode = "list" /\ scan'.nn = scan.nn
          /\ scan'.lists = scan.lists /\ scan'.page = scan.page /\ scan'.j = scan.j
          /\ scan'.prev = scan.prev
      BY <1>a, <2>0, <3>1 DEF ScanRec
    <3> QED BY <1>a, <1>b, <2>0, <3>1, <3>2, <3>3 DEF CountInv, Listing, Came
  <2> QED BY <2>1, <2>2
<1>7. ASSUME SequentialEnd PROVE scan' \in ScanRec /\ CountInv'
  <2>1. scan' = [scan EXCEPT !.pc = "prune", !.prev = MaxNs, !.next = FirstEntry]
    BY <1>7 DEF SequentialEnd
  <2>2. scan' \in ScanRec
    <3>1. MaxNs \in 0 .. MaxNs /\ "prune" \in Places
      BY <1>b DEF Places
    <3> QED BY <1>a, <1>c, <2>1, <3>1, SetPcPrevNext
  <2>3. scan'.pc = "prune"
    BY <1>a, <2>1 DEF ScanRec
  <2> QED BY <2>2, <2>3 DEF CountInv, Listing
<1>8. ASSUME RemoveInvalid PROVE scan' \in ScanRec /\ CountInv'
  <2> DEFINE next == NextEntry(scan.next)
  <2>0. scan.next \in Objects /\ obj[scan.next].nsid # 0
    BY <1>8, <1>a, WalksKnown DEF RemoveInvalid
  <2>1. scan' = [scan EXCEPT !.next = next] /\ next \in Objects \union {None} /\ scan.pc = "prune"
    BY <1>8, <1>a, <2>0, NextTypes DEF RemoveInvalid
  <2> HIDE DEF next
  <2>2. scan' \in ScanRec /\ scan'.pc = "prune"
    BY <1>a, <2>1, SetField DEF ScanRec
  <2> QED BY <2>2 DEF CountInv, Listing
<1>9. ASSUME ScanEnd PROVE scan' \in ScanRec /\ CountInv'
  <2>1. scan' = Resting
    BY <1>9 DEF ScanEnd
  <2>2. scan'.pc = "idle"
    BY <2>1 DEF Resting
  <2> QED BY <2>1, <2>2, RestingTypes DEF CountInv, Listing
<1>10. ASSUME ~Scanning PROVE scan' = scan
  BY <1>10 DEF Next, DeviceChange, Notice, Rescan, Reset, Unbind, ResetWork,
        ResetEnd, ResetFails, KillQueues, EmptyEnd, RemoveDeadWork, Removing, RemoveStart, RemoveNext,
               OpenNs, ReleaseNs
<1> QED BY <1>d, <1>1, <1>2, <1>3, <1>4, <1>5, <1>6, <1>7, <1>8, <1>9, <1>10 DEF Scanning

(* Every step keeps the types. *)
LEMMA TypeStep == ScanInv /\ Next => TypeOK'
<1> SUFFICES ASSUME ScanInv, Next PROVE TypeOK'
  OBVIOUS
<1>a. TypeOK /\ WalkInv /\ ListInv /\ CountInv
  BY DEF ScanInv
<1>1. scan' \in ScanRec /\ list' \in Seq(Objects) /\ obj' \in [Objects -> Object]
  BY CountStep, BooksStep, BooksTypes DEF Books
<1>2. active' \subseteq Ids
  BY <1>a DEF TypeOK, Next, Scanning, ScanStart, IdentifyNsList, NextListEntry, ValidateNs, Revalidate,
        AllocNs, FillGap, SequentialEnd, RemoveInvalid, ScanEnd, DeviceChange, Notice, Rescan, Reset, Unbind, ResetWork,
        ResetEnd, ResetFails, KillQueues, EmptyEnd, RemoveDeadWork, Removing, RemoveStart, RemoveNext, OpenNs, ReleaseNs
<1>3. notice' \in BOOLEAN /\ queues' \in BOOLEAN
  BY <1>a DEF TypeOK, Next, Scanning, ScanStart, IdentifyNsList, NextListEntry, ValidateNs, Revalidate,
        AllocNs, FillGap, SequentialEnd, RemoveInvalid, ScanEnd, DeviceChange, Notice, Rescan, Reset, Unbind, ResetWork,
        ResetEnd, ResetFails, KillQueues, EmptyEnd, RemoveDeadWork, Removing, RemoveStart, RemoveNext, OpenNs, ReleaseNs
<1>8. work' \in {"rest", "reset", "killed", "emptying", "dead"} /\ rem' \in {"no", "flush", "gone"}
  BY <1>a DEF TypeOK, Next, Scanning, ScanStart, IdentifyNsList, NextListEntry, ValidateNs, Revalidate,
        AllocNs, FillGap, SequentialEnd, RemoveInvalid, ScanEnd, DeviceChange, Notice, Rescan, Reset, Unbind, ResetWork,
        ResetEnd, ResetFails, KillQueues, EmptyEnd, RemoveDeadWork, Removing, RemoveStart, RemoveNext, OpenNs, ReleaseNs, BackToLive
<1>4. pending' \in BOOLEAN
  BY <1>a DEF TypeOK, Next, Scanning, ScanStart, IdentifyNsList, NextListEntry, ValidateNs, Revalidate,
        AllocNs, FillGap, SequentialEnd, RemoveInvalid, ScanEnd, DeviceChange, Notice, Rescan, Reset, Unbind, ResetWork,
        ResetEnd, ResetFails, KillQueues, EmptyEnd, RemoveDeadWork, Removing, RemoveStart, RemoveNext, OpenNs, ReleaseNs, QueueScan
<1>5. steady' \in BOOLEAN /\ spoilt' \in BOOLEAN
  BY <1>a DEF TypeOK, Next, Scanning, ScanStart, IdentifyNsList, NextListEntry, ValidateNs, Revalidate,
        AllocNs, FillGap, SequentialEnd, RemoveInvalid, ScanEnd, DeviceChange, Notice, Rescan, Reset, Unbind, ResetWork,
        ResetEnd, ResetFails, KillQueues, EmptyEnd, RemoveDeadWork, Removing, RemoveStart, RemoveNext, OpenNs, ReleaseNs
<1>6. changes' \in 0 .. MaxChanges /\ failures' \in 0 .. MaxFailures
  <2>1. /\ changes \in 0 .. MaxChanges /\ failures \in 0 .. MaxFailures
        /\ MaxChanges \in Nat /\ MaxFailures \in Nat
    BY <1>a, ScanAssumption DEF TypeOK
  <2>2. changes' = changes \/ (changes < MaxChanges /\ changes' = changes + 1)
    BY DEF Next, Scanning, ScanStart, IdentifyNsList, NextListEntry, ValidateNs, Revalidate,
        AllocNs, FillGap, SequentialEnd, RemoveInvalid, ScanEnd, DeviceChange, Notice, Rescan, Reset, Unbind, ResetWork,
        ResetEnd, ResetFails, KillQueues, EmptyEnd, RemoveDeadWork, Removing, RemoveStart, RemoveNext, OpenNs, ReleaseNs
  <2>3. failures' = failures \/ (failures < MaxFailures /\ failures' = failures + 1)
    BY DEF Next, Scanning, ScanStart, IdentifyNsList, NextListEntry, ValidateNs, Revalidate,
        AllocNs, FillGap, SequentialEnd, RemoveInvalid, ScanEnd, DeviceChange, Notice, Rescan, Reset, Unbind, ResetWork,
        ResetEnd, ResetFails, KillQueues, EmptyEnd, RemoveDeadWork, Removing, RemoveStart, RemoveNext, OpenNs, ReleaseNs, Fail
  <2> QED BY <2>1, <2>2, <2>3
<1>7. remover' \in [on: BOOLEAN, cur: Objects \union {None}, next: Objects \union {None}]
  <2> DEFINE R == [on: BOOLEAN, cur: Objects \union {None}, next: Objects \union {None}]
  <2>1. \A x, y \in Objects \union {None}, b \in BOOLEAN : [on |-> b, cur |-> x, next |-> y] \in R
    OBVIOUS
  <2>3. remover \in R
    BY <1>a DEF TypeOK
  <2> HIDE DEF R
  <2>4. CASE RemoveStart /\ list # <<>>
    <3>1. remover' = [on |-> TRUE, cur |-> list[1], next |-> NextEntry(list[1])]
      BY <2>4 DEF RemoveStart
    <3>2. list[1] \in Listed
      BY <1>a, <2>4, ListTypes, EmptySeq DEF Listed, Range, TypeOK
    <3>3. list[1] \in Objects /\ obj[list[1]].nsid # 0
      BY <1>a, <3>2, ListTypes DEF ListInv
    <3>4. NextEntry(list[1]) \in Objects \union {None}
      BY <1>a, <3>3, NextTypes
    <3> QED BY <2>1, <3>1, <3>3, <3>4
  <2>5. CASE RemoveNext
    <3>1. remover' = IF remover.next = None THEN [on |-> FALSE, cur |-> None, next |-> None]
                ELSE [on |-> TRUE, cur |-> remover.next, next |-> NextEntry(remover.next)]
      BY <2>5 DEF RemoveNext
    <3>2. ASSUME remover.next # None PROVE remover' \in R
      <4>1. remover.next \in Objects /\ obj[remover.next].nsid # 0
        BY <1>a, <3>2, WalksKnown
      <4>2. NextEntry(remover.next) \in Objects \union {None}
        BY <1>a, <4>1, NextTypes
      <4> QED BY <2>1, <3>1, <3>2, <4>1, <4>2
    <3>3. ASSUME remover.next = None PROVE remover' \in R
      BY <2>1, <3>1, <3>3
    <3> QED BY <3>2, <3>3 DEF R
  <2>6. CASE remover' = remover
    BY <2>3, <2>6 DEF R
  <2>7. (RemoveStart /\ list # <<>>) \/ RemoveNext \/ remover' = remover
    BY DEF Next, Scanning, ScanStart, IdentifyNsList, NextListEntry, ValidateNs, Revalidate,
        AllocNs, FillGap, SequentialEnd, RemoveInvalid, ScanEnd, DeviceChange, Notice, Rescan, Reset, Unbind, ResetWork,
        ResetEnd, ResetFails, KillQueues, EmptyEnd, RemoveDeadWork, Removing, RemoveStart, OpenNs, ReleaseNs
  <2> QED BY <2>4, <2>5, <2>6, <2>7
<1> QED BY <1>1, <1>2, <1>3, <1>4, <1>5, <1>6, <1>7, <1>8 DEF TypeOK

-----------------------------------------------------------------------------
(* Entries k and l, of which k comes first, are in the order that is kept. *)
InOrder(k, l) ==
  \/ obj[list[k]].nsid < obj[list[l]].nsid
  \/ /\ obj[list[l]].nsid < obj[list[k]].nsid /\ obj[list[l]].nsid < Bound
     /\ steady => obj[list[l]].nsid \in active

(* The bound is a number. *)
LEMMA BoundTypes ==
  ASSUME TypeOK
  PROVE  Bound \in Int
BY CountTypes DEF Bound, Came

(* A step that only thins the list keeps the order, if the scan does not   *)
(* go back.                                                                *)
LEMMA OrderKeeps ==
  ASSUME ScanInv, TypeOK', Thinner, Good' => Good, Bound <= Bound', steady' => steady /\ active' = active,
         scan'.pc = "idle" => scan.pc = "idle",
         Good' /\ scan'.pc = "alloc" => \A o \in Listed : obj[o].nsid # scan'.nsid
  PROVE  OrderInv'
<1>a. /\ TypeOK /\ OrderInv /\ Bound \in Int
      /\ \A o \in Listed : o \in Objects /\ obj[o].nsid \in Int
      /\ \A k \in DOMAIN list : list[k] \in Objects /\ obj[list[k]].nsid \in Int
      /\ \A o \in Objects : obj'[o].nsid = obj[o].nsid
  BY ListTypes, BoundTypes DEF ScanInv, Thinner
<1>b. Bound' \in Int
  <2>1. scan' \in ScanRec /\ MaxNs \in Nat
    BY ScanAssumption DEF TypeOK
  <2>2. scan'.prev \in Int /\ scan'.nsid \in Int
    BY <2>1 DEF ScanRec
  <2> QED BY <2>1, <2>2 DEF Bound, Came
<1>1. ASSUME scan'.pc = "idle", NEW k \in DOMAIN list', NEW l \in DOMAIN list', k < l
      PROVE  obj'[list'[k]].nsid <= obj'[list'[l]].nsid
  <2>1. PICK k1, l1 \in DOMAIN list : k1 < l1 /\ list[k1] = list'[k] /\ list[l1] = list'[l]
    BY <1>1 DEF Thinner
  <2>2. obj[list[k1]].nsid <= obj[list[l1]].nsid
    BY <1>1, <1>a, <2>1 DEF OrderInv
  <2> QED BY <1>a, <2>1, <2>2
<1>2. ASSUME Good', NEW k \in DOMAIN list', NEW l \in DOMAIN list', k < l
      PROVE  InOrder(k, l)'
  <2>1. PICK k1, l1 \in DOMAIN list : k1 < l1 /\ list[k1] = list'[k] /\ list[l1] = list'[l]
    BY <1>2 DEF Thinner
  <2>2. InOrder(k1, l1)
    BY <1>2, <1>a, <2>1 DEF OrderInv, InOrder
  <2>3. obj'[list'[k]].nsid = obj[list[k1]].nsid /\ obj'[list'[l]].nsid = obj[list[l1]].nsid
    BY <1>a, <2>1
  <2>4. CASE obj[list[k1]].nsid < obj[list[l1]].nsid
    BY <2>3, <2>4 DEF InOrder
  <2>5. CASE ~(obj[list[k1]].nsid < obj[list[l1]].nsid)
    <3>1. /\ obj[list[l1]].nsid < obj[list[k1]].nsid /\ obj[list[l1]].nsid < Bound
          /\ steady => obj[list[l1]].nsid \in active
      BY <2>2, <2>5 DEF InOrder
    <3>2. obj[list[l1]].nsid < Bound'
      BY <1>a, <1>b, <3>1
    <3> QED BY <2>3, <3>1, <3>2 DEF InOrder
  <2> QED BY <2>4, <2>5
<1>3. ASSUME Good', scan'.pc = "alloc", NEW o \in Listed' PROVE obj'[o].nsid # scan'.nsid
  <2>1. o \in Listed /\ o \in Objects
    BY <1>a DEF Thinner
  <2>2. obj[o].nsid # scan'.nsid
    BY <1>3, <2>1
  <2> QED BY <1>3, <1>a, <2>1, <2>2
<1> QED BY <1>1, <1>2, <1>3 DEF OrderInv, InOrder

(* What an entry ordered by InOrder may be, and what the list is then. *)
LEMMA GoodOrder ==
  ASSUME ScanInv, Good
  PROVE  \A k, l \in DOMAIN list : k < l => InOrder(k, l)
BY DEF ScanInv, OrderInv, InOrder

(* The end of the scan sorts the list; no number is on it twice. *)
LEMMA OrderScanEnd == ScanInv /\ ScanEnd => OrderInv'
<1> SUFFICES ASSUME ScanInv, ScanEnd PROVE OrderInv'
  OBVIOUS
<1>a. /\ TypeOK /\ ListInv /\ list \in Seq(Objects)
      /\ \A o \in Objects : obj[o].nsid \in Int
      /\ \A k \in DOMAIN list : list[k] \in Objects /\ k \in Int
  BY ListTypes DEF ScanInv, TypeOK
<1>b. list' = ListSort /\ UNCHANGED <<obj, steady, spoilt, active>> /\ scan'.pc = "idle"
  BY DEF ScanEnd, Resting
<1>1. /\ list' \in Seq(Objects)
      /\ \A k, l \in DOMAIN list' : list'[k] = list'[l] => k = l
      /\ Range(list') = Range(list)
      /\ \A k, l \in DOMAIN list' : k < l => obj[list'[k]].nsid <= obj[list'[l]].nsid
  BY <1>a, <1>b, SortFacts DEF ListInv, Listed
<1>2. Good' => Good
  BY <1>b DEF Good
<1>3. ASSUME Good', NEW k \in DOMAIN list', NEW l \in DOMAIN list', k < l
      PROVE  obj[list'[k]].nsid < obj[list'[l]].nsid
  <2>1. PICK k1, l1 \in DOMAIN list : list[k1] = list'[k] /\ list[l1] = list'[l]
    <3>1. list'[k] \in Range(list) /\ list'[l] \in Range(list)
      BY <1>1 DEF Range
    <3> QED BY <3>1 DEF Range
  <2>2. DOMAIN list' = 1 .. Len(list') /\ Len(list') \in Nat
    BY <1>1, LenProperties
  <2>3. k1 # l1
    BY <1>1, <1>3, <2>1, <2>2
  <2>4. k1 < l1 \/ l1 < k1
    BY <1>a, <2>3
  <2>5. InOrder(k1, l1) \/ InOrder(l1, k1)
    BY <1>2, <1>3, <2>4, GoodOrder
  <2>6. obj[list[k1]].nsid # obj[list[l1]].nsid
    BY <1>a, <2>5 DEF InOrder
  <2> QED BY <1>1, <1>3, <1>a, <2>1, <2>6
<1>4. ASSUME NEW k \in DOMAIN list', NEW l \in DOMAIN list', k < l
      PROVE  obj'[list'[k]].nsid <= obj'[list'[l]].nsid
  BY <1>1, <1>4, <1>b
<1>5. ASSUME Good', NEW k \in DOMAIN list', NEW l \in DOMAIN list', k < l
      PROVE  obj'[list'[k]].nsid < obj'[list'[l]].nsid
  BY <1>3, <1>5, <1>b
<1> QED BY <1>b, <1>4, <1>5 DEF OrderInv

(* A scan that begins finds the list sorted. *)
LEMMA OrderScanStart == ScanInv /\ ScanStart => OrderInv'
<1> SUFFICES ASSUME ScanInv, ScanStart PROVE OrderInv'
  OBVIOUS
<1>a. /\ TypeOK /\ ListInv /\ OrderInv
      /\ \A o \in Objects : obj[o].nsid \in Int
      /\ \A k \in DOMAIN list : list[k] \in Objects /\ k \in Int
  BY ListTypes DEF ScanInv
<1>b. UNCHANGED <<obj, list, active, spoilt>> /\ scan.pc = "idle" /\ scan'.pc \in {"idle", "list", "validate"}
  BY DEF ScanStart, Resting
<1>c. steady' => ~Twins
  BY DEF ScanStart
<1>1. ASSUME NEW k \in DOMAIN list, NEW l \in DOMAIN list, k < l
      PROVE  obj[list[k]].nsid <= obj[list[l]].nsid
  BY <1>a, <1>b, <1>1 DEF OrderInv
<1>2. ASSUME Good', NEW k \in DOMAIN list, NEW l \in DOMAIN list, k < l
      PROVE  obj[list[k]].nsid < obj[list[l]].nsid
  <2>1. obj[list[k]].nsid # obj[list[l]].nsid
    <3>1. CASE steady'
      <4>1. list[k] # list[l] /\ list[k] \in Listed /\ list[l] \in Listed
        BY <1>a, <1>2 DEF ListInv, Listed, Range
      <4> QED BY <1>c, <3>1, <4>1 DEF Twins
    <3>2. CASE ~steady'
      <4>1. InOrder(k, l)
        BY <1>2, <1>b, <3>2, GoodOrder DEF Good
      <4> QED BY <1>a, <4>1 DEF InOrder
    <3> QED BY <3>1, <3>2
  <2> QED BY <1>1, <1>2, <1>a, <2>1
<1>3. ASSUME NEW k \in DOMAIN list', NEW l \in DOMAIN list', k < l
      PROVE  obj'[list'[k]].nsid <= obj'[list'[l]].nsid
  BY <1>1, <1>3, <1>b
<1>4. ASSUME Good', NEW k \in DOMAIN list', NEW l \in DOMAIN list', k < l
      PROVE  obj'[list'[k]].nsid < obj'[list'[l]].nsid
  BY <1>2, <1>4, <1>b
<1> QED BY <1>b, <1>3, <1>4 DEF OrderInv

(* A new namespace goes to the end of the list; nobody had its number. *)
LEMMA OrderAllocNs == ScanInv /\ AllocNs => OrderInv'
<1> SUFFICES ASSUME ScanInv, AllocNs PROVE OrderInv'
  OBVIOUS
<1>a. /\ TypeOK /\ ListInv /\ OrderInv /\ CountInv /\ list \in Seq(Objects)
      /\ obj \in [Objects -> Object]
      /\ \A o \in Objects : obj[o].nsid \in Int
      /\ DOMAIN list = 1 .. Len(list) /\ Len(list) \in Nat
      /\ \A k \in DOMAIN list : list[k] \in Objects /\ k \in Int
      /\ scan.nsid \in Int /\ scan.mode \in {"list", "sequential"} /\ MaxNs \in Nat
  BY ListTypes, CountTypes DEF ScanInv, TypeOK
<1>b. /\ scan.pc = "alloc" /\ scan' = Validated /\ UNCHANGED <<active, spoilt>>
      /\ steady' => steady
  BY DEF AllocNs
<1>c. /\ scan'.pc \in {"gap", "validate"} /\ Bound' = scan.nsid + 1 /\ Bound = scan.nsid
  <2>1. /\ scan.mode = "list" => scan'.pc = "gap" /\ scan'.nsid = scan.nsid
        /\ scan.mode = "sequential" => scan'.pc = "validate" /\ scan'.nsid = scan.nsid + 1
    BY <1>a, <1>b, ValidatedCount
  <2> QED BY <1>a, <1>b, <2>1 DEF Bound, Came
<1>d. Good' => Good
  BY <1>b DEF Good
<1>1. ASSUME Good, NEW k \in DOMAIN list, NEW l \in DOMAIN list, k < l
      PROVE  /\ \/ obj[list[k]].nsid < obj[list[l]].nsid
                \/ /\ obj[list[l]].nsid < obj[list[k]].nsid /\ obj[list[l]].nsid < scan.nsid + 1
                   /\ steady => obj[list[l]].nsid \in active
  BY <1>1, <1>a, <1>c, GoodOrder DEF InOrder
<1>2. CASE UNCHANGED <<obj, list>>
  <2>1. ASSUME Good', NEW k \in DOMAIN list', NEW l \in DOMAIN list', k < l PROVE InOrder(k, l)'
    <3>1. /\ \/ obj[list[k]].nsid < obj[list[l]].nsid
             \/ /\ obj[list[l]].nsid < obj[list[k]].nsid /\ obj[list[l]].nsid < scan.nsid + 1
                /\ steady => obj[list[l]].nsid \in active
      BY <1>1, <1>2, <1>d, <2>1
    <3>2. /\ \/ obj'[list'[k]].nsid < obj'[list'[l]].nsid
             \/ /\ obj'[list'[l]].nsid < obj'[list'[k]].nsid /\ obj'[list'[l]].nsid < Bound'
                /\ steady' => obj'[list'[l]].nsid \in active'
      BY <1>2, <1>b, <1>c, <3>1
    <3> QED BY <3>2 DEF InOrder
  <2> QED BY <1>c, <2>1 DEF OrderInv, InOrder
<1>3. CASE ~UNCHANGED <<obj, list>>
  <2>1. PICK o \in Objects :
          /\ scan.nsid \in active
          /\ obj' = [obj EXCEPT ![o].nsid = scan.nsid, ![o].refs = 1]
          /\ obj[o] = Unused /\ list' = Append(list, o)
    BY <1>3 DEF AllocNs
  <2> DEFINE n == Len(list)
  <2>2. /\ Len(list') = n + 1 /\ DOMAIN list' = 1 .. n + 1 /\ n \in Nat
        /\ \A k \in 1 .. n : list'[k] = list[k]
        /\ list'[n + 1] = o
    <3>1. list' \in Seq(Objects) /\ Len(list') = n + 1
      BY <1>a, <2>1, AppendProperties
    <3> QED BY <1>a, <2>1, <3>1, AppendProperties, LenProperties
  <2>3. \A k \in 1 .. n : list[k] \in Objects /\ list[k] \in Listed /\ list[k] # o
    <3>1. obj[o].nsid = 0
      BY <2>1 DEF Unused
    <3>2. \A k \in 1 .. n : list[k] \in Listed
      BY <1>a DEF Listed, Range
    <3> QED BY <1>a, <3>1, <3>2 DEF ListInv
  <2>4. obj'[o].nsid = scan.nsid /\ \A p \in Objects : p # o => obj'[p] = obj[p]
    BY <1>a, <2>1 DEF Object
  <2> HIDE DEF n
  <2>5. ASSUME Good', NEW k \in 1 .. n + 1, NEW l \in 1 .. n + 1, k < l PROVE InOrder(k, l)'
    <3>1. k \in 1 .. n
      BY <2>2, <2>5
    <3>2. CASE l \in 1 .. n
      <4>1. obj'[list'[k]].nsid = obj[list[k]].nsid /\ obj'[list'[l]].nsid = obj[list[l]].nsid
        BY <2>2, <2>3, <2>4, <3>1, <3>2
      <4>2. k \in DOMAIN list /\ l \in DOMAIN list
        BY <1>a, <3>1, <3>2 DEF n
      <4> QED BY <1>1, <1>b, <1>c, <1>d, <2>5, <4>1, <4>2 DEF InOrder
    <3>3. CASE l = n + 1
      <4>1. obj'[list'[k]].nsid = obj[list[k]].nsid /\ obj'[list'[l]].nsid = scan.nsid
        BY <2>2, <2>3, <2>4, <3>1, <3>3
      <4>2. obj[list[k]].nsid # scan.nsid /\ obj[list[k]].nsid \in Int
        BY <1>a, <1>b, <1>d, <2>3, <2>5, <3>1 DEF OrderInv
      <4>3. /\ scan.nsid < scan.nsid + 1 /\ scan.nsid \in active'
            /\ obj[list[k]].nsid < scan.nsid \/ scan.nsid < obj[list[k]].nsid
        BY <1>a, <1>b, <2>1, <4>2
      <4> QED BY <1>c, <4>1, <4>3 DEF InOrder
    <3> QED BY <2>2, <3>2, <3>3
  <2> QED BY <1>c, <2>2, <2>5 DEF OrderInv, InOrder
<1> QED BY <1>2, <1>3

(* Every step keeps the order. *)
LEMMA OrderStep == ScanInv /\ Next => OrderInv'
<1> SUFFICES ASSUME ScanInv, Next PROVE OrderInv'
  OBVIOUS
<1>a. /\ TypeOK /\ ListInv /\ WalkInv /\ CountInv /\ OrderInv /\ scan \in ScanRec /\ Bound \in Int
      /\ TypeOK'
  BY TypeStep, BoundTypes DEF ScanInv, TypeOK
<1>b. /\ scan.pc \in Places /\ scan.mode \in {"list", "sequential"} /\ scan.page \subseteq Ids
      /\ scan.nsid \in 0 .. MaxNs + 1 /\ scan.prev \in 0 .. MaxNs /\ MaxNs \in Nat
  BY <1>a, CountTypes
<1>1. CASE ScanStart
  BY <1>1, OrderScanStart
<1>2. CASE AllocNs
  BY <1>2, OrderAllocNs
<1>3. CASE ScanEnd
  BY <1>3, OrderScanEnd
<1>4. ASSUME IdentifyNsList PROVE OrderInv'
  <2>1. CASE Good' /\ ~UNCHANGED steady
    <3>1. /\ ~steady' /\ spoilt' = (spoilt \/ scan.prev > 0) /\ scan.pc = "list"
          /\ UNCHANGED <<active, obj, list>> /\ scan'.pc = "validate" /\ scan'.nsid = 1
      BY <1>4, <2>1 DEF IdentifyNsList, Resting
    <3>2. scan.prev = 0 /\ Good
      <4>1. ~spoilt /\ ~(scan.prev > 0)
        BY <2>1, <3>1, Zenon DEF Good
      <4> QED BY <1>b, <4>1 DEF Good
    <3>3. Bound = 1 /\ Bound' = 1
      BY <3>1, <3>2 DEF Bound, Came
    <3>4. Thinner
      BY <3>1, SameIsThinner
    <3> QED BY <1>a, <3>1, <3>2, <3>3, <3>4, OrderKeeps
  <2>2. CASE UNCHANGED <<steady, spoilt>> /\ scan'.pc = "entry" /\ scan'.prev = scan.prev
    <3>1. scan.pc = "list" /\ UNCHANGED <<active, obj, list>>
      BY <1>4 DEF IdentifyNsList
    <3>2. Bound' = Bound
      BY <2>2, <3>1 DEF Bound, Came
    <3>3. Thinner
      BY <3>1, SameIsThinner
    <3> QED BY <1>a, <2>2, <3>1, <3>2, <3>3, OrderKeeps DEF Good
  <2>3. CASE ~Good' /\ scan'.pc = "validate"
    BY <2>3 DEF OrderInv
  <2>4. CASE scan'.pc = "validate" /\ Good' /\ UNCHANGED steady /\ ~steady' /\ scan'.nsid = 1
             /\ spoilt' = (spoilt \/ scan.prev > 0)
    <3>1. scan.pc = "list" /\ UNCHANGED <<active, obj, list>>
      BY <1>4 DEF IdentifyNsList
    <3>2. scan.prev = 0 /\ Good
      <4>1. ~spoilt /\ ~(scan.prev > 0)
        BY <2>4, Zenon DEF Good
      <4> QED BY <1>b, <4>1 DEF Good
    <3>3. Bound = 1 /\ Bound' = 1
      BY <2>4, <3>1, <3>2 DEF Bound, Came
    <3>4. Thinner
      BY <3>1, SameIsThinner
    <3> QED BY <1>a, <2>4, <3>1, <3>2, <3>3, <3>4, OrderKeeps
  <2>5. \/ /\ ~steady' /\ spoilt' = (spoilt \/ scan.prev > 0) /\ scan'.pc = "validate" /\ scan'.nsid = 1
        \/ UNCHANGED <<steady, spoilt>> /\ scan'.pc = "entry" /\ scan'.prev = scan.prev
    BY <1>4, <1>a DEF IdentifyNsList, Resting, ScanRec
  <2> QED BY <2>1, <2>2, <2>3, <2>4, <2>5
<1>5. ASSUME NextListEntry PROVE OrderInv'
  <2>1. /\ scan.pc = "entry" /\ UNCHANGED <<active, obj, list, steady, spoilt>>
        /\ \A n \in scan.page : scan.prev < n
    BY <1>5, <1>a DEF NextListEntry, CountInv, Listing, Came
  <2>2. Bound = scan.prev + 1
    BY <2>1 DEF Bound, Came
  <2>3. \/ scan'.pc = "prune"
        \/ scan'.pc = "list" /\ scan'.prev = scan.prev
        \/ scan'.pc = "validate" /\ scan.page # {}
           /\ scan'.nsid = CHOOSE k \in scan.page : \A l \in scan.page : k <= l
    BY <1>5, <1>a DEF NextListEntry, ScanRec
  <2>4. Bound <= Bound' /\ scan'.pc \notin {"idle", "alloc"}
    <3>1. CASE scan'.pc = "prune"
      BY <1>b, <2>2, <3>1 DEF Bound
    <3>2. CASE scan'.pc = "list" /\ scan'.prev = scan.prev
      BY <1>b, <2>2, <3>2 DEF Bound, Came
    <3>3. CASE scan'.pc = "validate" /\ scan.page # {}
               /\ scan'.nsid = CHOOSE k \in scan.page : \A l \in scan.page : k <= l
      <4>1. scan'.nsid \in scan.page /\ scan'.nsid \in 1 .. MaxNs
        BY <1>a, <3>3, EntryFacts
      <4> QED BY <1>b, <2>1, <2>2, <3>3, <4>1 DEF Bound
    <3> QED BY <2>3, <3>1, <3>2, <3>3
  <2>5. Thinner
    BY <2>1, SameIsThinner
  <2> QED BY <1>a, <2>1, <2>4, <2>5, OrderKeeps DEF Good
<1>6. ASSUME ValidateNs PROVE OrderInv'
  <2>1. /\ scan.pc = "validate" /\ scan'.pc \in {"alloc", "check"} /\ scan'.nsid = scan.nsid
        /\ UNCHANGED <<active, list, steady, spoilt>>
        /\ scan'.pc = "alloc" => FindNs(scan.nsid) = None
    BY <1>6, <1>a DEF ValidateNs, ScanRec
  <2>2. Bound = scan.nsid /\ Bound' = scan.nsid
    BY <2>1 DEF Bound
  <2>3. ASSUME Good, scan'.pc = "alloc", NEW o \in Listed PROVE obj[o].nsid # scan'.nsid
    <3> SUFFICES ASSUME obj[o].nsid = scan.nsid PROVE FALSE
      BY <2>1
    <3>1. PICK l \in DOMAIN list : list[l] = o
      BY DEF Listed, Range
    <3>2. PICK k \in DOMAIN list : k < l /\ scan.nsid < obj[list[k]].nsid
      BY <1>a, <1>b, <2>1, <2>3, <3>1, FindFacts
    <3>3. InOrder(k, l)
      BY <2>3, <3>2, GoodOrder
    <3>4. obj[list[k]].nsid \in Int /\ obj[list[l]].nsid = scan.nsid /\ scan.nsid \in Int
      BY <1>a, <1>b, <3>1, ListTypes
    <3> QED BY <2>2, <3>2, <3>3, <3>4 DEF InOrder
  <2>4. Thinner
    BY <1>6, <2>1, ThinnerSteps DEF AllocNs, ScanEnd
  <2>5. (Good' => Good) /\ Bound <= Bound' /\ (steady' => steady /\ active' = active)
    BY <1>a, <2>1, <2>2 DEF Good
  <2> QED BY <1>a, <2>1, <2>3, <2>4, <2>5, OrderKeeps
<1>7. ASSUME Revalidate PROVE OrderInv'
  <2>1. scan.pc = "check" /\ scan' = Validated /\ UNCHANGED <<active, spoilt>> /\ (steady' => steady)
    BY <1>7 DEF Revalidate
  <2>2. /\ scan.mode = "list" => scan'.pc = "gap" /\ scan'.nsid = scan.nsid
        /\ scan.mode = "sequential" => scan'.pc = "validate" /\ scan'.nsid = scan.nsid + 1
    BY <1>a, <2>1, ValidatedCount
  <2>3. Bound = scan.nsid /\ Bound' = scan.nsid + 1 /\ scan'.pc \in {"gap", "validate"}
    BY <1>b, <2>1, <2>2 DEF Bound, Came
  <2>4. Thinner
    BY <2>1, ThinnerSteps, <1>7 DEF AllocNs, ScanEnd
  <2>5. (Good' => Good) /\ Bound <= Bound'
    BY <1>a, <1>b, <2>1, <2>3 DEF Good
  <2> QED BY <1>a, <2>1, <2>3, <2>4, <2>5, OrderKeeps
<1>8. ASSUME FillGap PROVE OrderInv'
  <2>1. scan.pc = "gap" /\ UNCHANGED <<active, spoilt, steady>> /\ scan.prev <= scan.nsid
    BY <1>8, <1>a DEF FillGap, CountInv
  <2>2. \/ scan'.pc = "gap" /\ scan'.nsid = scan.nsid
        \/ scan'.pc = "entry" /\ scan'.prev = scan.prev /\ ~(scan.prev < scan.nsid)
    BY <1>8, <1>a DEF FillGap, ScanRec
  <2>3. Bound' = Bound /\ scan'.pc \in {"gap", "entry"}
    BY <1>b, <2>1, <2>2 DEF Bound, Came
  <2>4. Thinner
    BY <2>1, ThinnerSteps, <1>8 DEF AllocNs, ScanEnd
  <2>5. (Good' => Good) /\ Bound <= Bound'
    BY <1>a, <2>1, <2>3 DEF Good
  <2> QED BY <1>a, <2>1, <2>3, <2>4, <2>5, OrderKeeps
<1>9. ASSUME SequentialEnd PROVE OrderInv'
  <2>1. /\ scan.pc = "validate" /\ scan'.pc = "prune" /\ UNCHANGED <<active, obj, list, spoilt, steady>>
        /\ scan.nsid <= MaxNs + 1
    BY <1>9, <1>a, <1>b DEF SequentialEnd, ScanRec
  <2>2. Bound = scan.nsid /\ Bound' = MaxNs + 1
    BY <2>1 DEF Bound
  <2>3. Thinner
    BY <2>1, SameIsThinner
  <2> QED BY <1>a, <2>1, <2>2, <2>3, OrderKeeps DEF Good
<1>10. ASSUME RemoveInvalid PROVE OrderInv'
  <2>1. scan.pc = "prune" /\ scan'.pc = "prune" /\ UNCHANGED <<active, spoilt, steady>>
    BY <1>10, <1>a DEF RemoveInvalid, ScanRec
  <2>2. Bound' = Bound
    BY <2>1 DEF Bound
  <2>4. Thinner
    BY <2>1, ThinnerSteps, <1>10 DEF AllocNs, ScanEnd, RemoveInvalid
  <2>5. (Good' => Good) /\ Bound <= Bound'
    BY <1>a, <2>1, <2>2 DEF Good
  <2> QED BY <1>a, <2>1, <2>4, <2>5, OrderKeeps
<1>11. ASSUME ~Scanning PROVE OrderInv'
  <2>1. scan' = scan /\ UNCHANGED spoilt /\ (steady' => steady /\ active' = active)
    <3>1. scan' = scan /\ UNCHANGED spoilt
      BY <1>11 DEF Next, DeviceChange, Notice, Rescan, Reset, Unbind, ResetWork,
        ResetEnd, ResetFails, KillQueues, EmptyEnd, RemoveDeadWork, Removing, RemoveStart, RemoveNext,
                   OpenNs, ReleaseNs
    <3>2. ~steady' \/ (steady' = steady /\ active' = active)
      BY <1>11 DEF Next, DeviceChange, Notice, Rescan, Reset, Unbind, ResetWork,
        ResetEnd, ResetFails, KillQueues, EmptyEnd, RemoveDeadWork, Removing, RemoveStart, RemoveNext,
                   OpenNs, ReleaseNs
    <3> QED BY <3>1, <3>2
  <2>2. Bound' = Bound
    BY <2>1 DEF Bound, Came
  <2>3. Thinner
    BY <1>11, ThinnerSteps DEF Scanning
  <2>4. (Good' => Good) /\ Bound <= Bound'
    BY <1>a, <2>1, <2>2 DEF Good
  <2>5. Good' /\ scan'.pc = "alloc" => \A o \in Listed : obj[o].nsid # scan'.nsid
    BY <1>a, <2>1, <2>4 DEF OrderInv
  <2> QED BY <1>a, <2>1, <2>3, <2>4, <2>5, OrderKeeps
<1> QED BY <1>1, <1>2, <1>3, <1>4, <1>5, <1>6, <1>7, <1>8, <1>9, <1>10, <1>11 DEF Scanning

-----------------------------------------------------------------------------
(* The numbers on the list. *)
LEMMA IdFacts ==
  ASSUME TypeOK, ListInv
  PROVE  /\ \A x : x \in ListedIds <=> \E o \in Listed : obj[o].nsid = x
         /\ ListedIds \subseteq Ids
<1>1. \A o \in Listed : obj[o].nsid \in Ids
  <2> SUFFICES ASSUME NEW o \in Listed PROVE obj[o].nsid \in Ids
    OBVIOUS
  <2>1. o \in Objects /\ obj[o].nsid \in 0 .. MaxNs /\ obj[o].nsid # 0 /\ MaxNs \in Nat
    BY ListTypes DEF ListInv
  <2> QED BY <2>1 DEF Ids
<1> QED BY <1>1 DEF ListedIds

(* No two entries have the same number while the order holds. *)
LEMMA Distinct ==
  ASSUME ScanInv, Good, NEW o \in Listed, NEW p \in Listed, obj[o].nsid = obj[p].nsid
  PROVE  o = p
<1>a. TypeOK /\ \A k \in DOMAIN list : k \in Int /\ obj[list[k]].nsid \in Int
  BY ListTypes DEF ScanInv
<1>1. PICK k, l \in DOMAIN list : list[k] = o /\ list[l] = p
  BY DEF Listed, Range
<1>2. ASSUME k < l \/ l < k PROVE FALSE
  <2>1. InOrder(k, l) \/ InOrder(l, k)
    BY <1>2, GoodOrder
  <2> QED BY <1>a, <1>1, <2>1 DEF InOrder
<1> QED BY <1>a, <1>1, <1>2

(* What a removal does to the numbers on the list. *)
LEMMA RemoveIds ==
  ASSUME ScanInv, Good, NEW o \in Listed, NEW held \in {0, 1}, NsRemove(o, held)
  PROVE  /\ \A x \in Ids : x \in ListedIds' <=> x \in ListedIds /\ x # obj[o].nsid
         /\ Alive => Alive'
         /\ \A p \in Objects : obj'[p].nsid = obj[p].nsid
<1>1. /\ TypeOK /\ ListInv /\ o \in Objects /\ Listed' = Listed \ {o} /\ Listed \subseteq Objects
      /\ \A p \in Objects : p # o => obj'[p] = obj[p]
      /\ obj'[o].nsid = obj[o].nsid
  BY RemoveFacts, ListTypes DEF ScanInv
<1>2. \A x : x \in ListedIds' <=> \E p \in Listed \ {o} : obj[p].nsid = x
  BY <1>1 DEF ListedIds
<1>3. \A p \in Listed : p # o => obj[p].nsid # obj[o].nsid
  BY Distinct
<1>4. \A x : x \in ListedIds <=> \E p \in Listed : obj[p].nsid = x
  BY DEF ListedIds
<1> QED BY <1>1, <1>2, <1>3, <1>4 DEF Alive

(* Steps that leave the list as it is. *)
SameList ==
  /\ list' = list /\ active' = active
  /\ \A o \in Objects : obj'[o].nsid = obj[o].nsid /\ obj'[o].dead = obj[o].dead

(* They leave the numbers on the list, and the living alive. *)
LEMMA SameListFacts ==
  ASSUME TypeOK, SameList
  PROVE  Listed' = Listed /\ ListedIds' = ListedIds /\ (Alive => Alive')
<1>1. Listed' = Listed /\ Listed \subseteq Objects
  BY ListTypes DEF SameList, Listed
<1> QED BY <1>1 DEF SameList, ListedIds, Alive

(* Which steps those are. *)
LEMMA SameListSteps ==
  ASSUME ScanInv,
         \/ UNCHANGED <<obj, list, active>>
         \/ ValidateNs
         \/ \E o \in Objects : OpenNs(o) \/ ReleaseNs(o)
         \/ Revalidate /\ obj' = [obj EXCEPT ![scan.ns].refs = @ - 1] /\ UNCHANGED list
  PROVE  SameList
<1>a. TypeOK /\ ListInv /\ WalkInv /\ obj \in [Objects -> Object] /\ scan \in ScanRec
  BY DEF ScanInv, TypeOK
<1>1. CASE UNCHANGED <<obj, list, active>>
  BY <1>1 DEF SameList
<1>2. CASE ~UNCHANGED <<obj, list, active>>
  <2>1. PICK o \in Objects :
          \/ obj' = [obj EXCEPT ![o].refs = @ + 1]
          \/ obj' = [obj EXCEPT ![o].refs = @ - 1]
          \/ obj' = [obj EXCEPT ![o].refs = @ + 1, ![o].opens = 1]
          \/ obj' = [obj EXCEPT ![o].refs = @ - 1, ![o].opens = 0]
    <3>1. ASSUME ValidateNs PROVE \E o \in Objects : obj' = [obj EXCEPT ![o].refs = @ + 1]
      <4>1. FindNs(scan.nsid) # None => FindNs(scan.nsid) \in Objects
        BY <1>a, FindFacts, ListTypes, CountTypes
      <4> QED BY <1>2, <3>1, <4>1 DEF ValidateNs
    <3>2. ASSUME Revalidate PROVE scan.ns \in Objects
      BY <1>a, <3>2, CountTypes DEF Revalidate, WalkInv
    <3> QED BY <1>2, <3>1, <3>2 DEF OpenNs, ReleaseNs
  <2>2. list' = list /\ active' = active
    BY <1>2 DEF ValidateNs, OpenNs, ReleaseNs, Revalidate
  <2>3. \A p \in Objects : p # o => obj'[p] = obj[p]
    BY <1>a, <2>1
  <2>4. obj'[o].nsid = obj[o].nsid /\ obj'[o].dead = obj[o].dead
    BY <1>a, <2>1 DEF Object
  <2> QED BY <2>2, <2>3, <2>4 DEF SameList
<1> QED BY <1>1, <1>2

-----------------------------------------------------------------------------
(* A page is not empty while there are numbers to come, and its smallest   *)
(* is the next active number.                                              *)
LEMMA ToComeFirst ==
  ASSUME active \subseteq Ids, MaxNs \in Nat, NEW p \in Nat, NEW j \in Nat, j < PageSize, PageSize \in Nat,
         NEW m \in active, p < m
  PROVE  \E s \in ToCome(j, p) : p < s /\ s <= m
<1> DEFINE A == {n \in active : p < n}
<1>0. \A k \in active : k \in Nat
  BY DEF Ids
<1>1. A \in SUBSET Nat /\ m \in A
  BY <1>0
<1>2. PICK s \in A : \A y \in A : s <= y
  BY <1>1, Smallest
<1>3. {k \in active : p < k /\ k < s} = {}
  BY <1>1, <1>2 DEF Ids
<1>4. Cardinality({k \in active : p < k /\ k < s}) = 0
  BY <1>3, FS_EmptySet
<1>5. s > p /\ s \in active /\ s <= m
  BY <1>1, <1>2
<1>6. 0 < PageSize - j
  OBVIOUS
<1>7. s \in ToCome(j, p)
  BY <1>4, <1>5, <1>6 DEF ToCome
<1> QED BY <1>5, <1>7

(* When the next number was taken from a page, one less is to come. *)
LEMMA ToComeNext ==
  ASSUME active \subseteq Ids, MaxNs \in Nat, NEW p \in Nat, NEW j \in Nat, PageSize \in Nat,
         NEW n \in active, p < n, \A m \in active : m <= p \/ n <= m
  PROVE  ToCome(j, p) \ {n} = ToCome(j + 1, n)
<1> DEFINE B(m) == {k \in active : n < k /\ k < m}
           C(m) == {k \in active : p < k /\ k < m}
<1>1. active \subseteq Nat /\ IsFiniteSet(active)
  <2>1. IsFiniteSet(1 .. MaxNs)
    BY FS_Interval
  <2>2. \A k \in 1 .. MaxNs : k \in Nat
    OBVIOUS
  <2>3. IsFiniteSet(active)
    BY <2>1, FS_Subset DEF Ids
  <2> QED BY <2>2, <2>3 DEF Ids
<1>2. \A m \in active : n < m => Cardinality(C(m)) = Cardinality(B(m)) + 1 /\ Cardinality(B(m)) \in Nat
  <2> SUFFICES ASSUME NEW m \in active, n < m
               PROVE  Cardinality(C(m)) = Cardinality(B(m)) + 1 /\ Cardinality(B(m)) \in Nat
    OBVIOUS
  <2>1. C(m) = B(m) \union {n} /\ n \notin B(m) /\ B(m) \subseteq active
    <3>1. \A k \in active : k \in Nat /\ (k <= p \/ n <= k)
      BY <1>1
    <3>2. \A k \in active : p < k /\ k < m <=> (n < k /\ k < m) \/ k = n
      BY <3>1
    <3>3. ~(n < n)
      BY <3>1
    <3> QED BY <3>2, <3>3
  <2>2. IsFiniteSet(B(m))
    BY <1>1, <2>1, FS_Subset
  <2> HIDE DEF B, C
  <2> QED BY <2>1, <2>2, FS_AddElement, FS_CardinalityType
<1>3. ToCome(j, p) = {m \in active : m > p /\ Cardinality(C(m)) < PageSize - j}
  BY DEF ToCome
<1>4. ToCome(j + 1, n) = {m \in active : m > n /\ Cardinality(B(m)) < PageSize - (j + 1)}
  BY DEF ToCome
<1> HIDE DEF B, C
<1>5. \A m \in active : m \in ToCome(j, p) /\ m # n <=> m \in ToCome(j + 1, n)
  <2> SUFFICES ASSUME NEW m \in active
               PROVE  m \in ToCome(j, p) /\ m # n <=> m \in ToCome(j + 1, n)
    OBVIOUS
  <2>1. m \in Nat /\ n \in Nat
    BY <1>1
  <2>2. CASE n < m
    <3>1. Cardinality(C(m)) = Cardinality(B(m)) + 1 /\ Cardinality(B(m)) \in Nat
      BY <1>2, <2>2
    <3>2. Cardinality(C(m)) < PageSize - j <=> Cardinality(B(m)) < PageSize - (j + 1)
      BY <3>1
    <3>3. m > p /\ m # n /\ m > n
      BY <2>1, <2>2
    <3> QED BY <1>3, <1>4, <3>2, <3>3
  <2>3. CASE ~(n < m)
    <3>1. m <= p \/ m = n
      BY <2>1, <2>3
    <3>2. ~(m > n) /\ (m # n => ~(m > p))
      BY <2>1, <2>3, <3>1
    <3> QED BY <1>3, <1>4, <3>2
  <2> QED BY <2>2, <2>3
<1> QED BY <1>3, <1>4, <1>5

-----------------------------------------------------------------------------
(* What is known in an undisturbed scan. *)
LEMMA SteadyFacts ==
  ASSUME ScanInv, steady
  PROVE  /\ Good /\ Right /\ TypeOK /\ ListInv /\ WalkInv /\ CountInv /\ scan \in ScanRec
         /\ scan.mode \in {"list", "sequential"} /\ scan.pc \in Places
         /\ scan.nn \in 0 .. MaxNs /\ scan.lists \in 0 .. MaxNs /\ scan.page \subseteq Ids
         /\ scan.j \in 0 .. MaxNs /\ scan.nsid \in 0 .. MaxNs + 1 /\ scan.prev \in 0 .. MaxNs
         /\ MaxNs \in Nat /\ MaxNs >= 1 /\ PageSize \in Nat /\ PageSize >= 1
         /\ active \subseteq Ids /\ \A n \in Ids : n \in 1 .. MaxNs
BY CountTypes DEF ScanInv, SteadyInv, Good, TypeOK, Ids

(* A step that leaves the list as it is. *)
LEMMA SameRight ==
  ASSUME ScanInv, steady, SameList, \A n \in Ids : Settled(n)' => Settled(n),
         NoneBetween', NoneInGap', PageRight', PruneRight'
  PROVE  Right'
<1>1. Right /\ TypeOK
  BY SteadyFacts
<1>2. ListedIds' = ListedIds /\ Alive' /\ active' = active
  BY <1>1, SameListFacts DEF Right, SameList
<1>3. SettledRight'
  BY <1>1, <1>2 DEF Right, SettledRight
<1> QED BY <1>2, <1>3 DEF Right

(* The scan begins. *)
LEMMA RightScanStart == ScanInv /\ ScanStart /\ steady' => Right'
<1> SUFFICES ASSUME ScanInv, ScanStart, steady' PROVE Right'
  OBVIOUS
<1>a. TypeOK /\ MaxNs \in Nat
  BY CountTypes DEF ScanInv
<1>1. /\ \A o \in Listed : ~obj[o].dead
      /\ UNCHANGED <<obj, list, active>>
      /\ \/ scan'.pc = "list" /\ scan'.mode = "list" /\ scan'.prev = 0
         \/ scan'.pc = "validate" /\ scan'.mode = "sequential" /\ scan'.nsid = 1
  BY DEF ScanStart, Resting
<1>2. Alive'
  BY <1>1 DEF Alive, Listed
<1>3. \A n \in Ids : ~Settled(n)'
  BY <1>1, <1>a DEF Settled, Ids
<1>4. SettledRight'
  BY <1>3 DEF SettledRight
<1>5. NoneBetween' /\ NoneInGap' /\ PageRight' /\ PruneRight'
  BY <1>1 DEF NoneBetween, NoneInGap, PageRight, PruneRight, Listing
<1> QED BY <1>2, <1>4, <1>5 DEF Right

(* A list comes from the device. *)
LEMMA RightIdentify == ScanInv /\ IdentifyNsList /\ steady /\ steady' => Right'
<1> SUFFICES ASSUME ScanInv, IdentifyNsList, steady, steady' PROVE Right'
  OBVIOUS
<1>a. Right /\ TypeOK /\ CountInv /\ scan \in ScanRec /\ PageSize \in Nat
  BY SteadyFacts
<1> DEFINE page == {n \in active : n > scan.prev /\
                       Cardinality({k \in active : scan.prev < k /\ k < n}) < PageSize}
<1>1. /\ scan' = [scan EXCEPT !.pc = "entry", !.j = 0, !.page = page]
      /\ scan.pc = "list" /\ scan.mode = "list" /\ UNCHANGED <<obj, list, active>>
  BY <1>a DEF IdentifyNsList, CountInv
<1> HIDE DEF page
<1>2. /\ scan'.pc = "entry" /\ scan'.mode = "list" /\ scan'.prev = scan.prev /\ scan'.j = 0
      /\ scan'.page = page
  BY <1>1, <1>a DEF ScanRec
<1>3. page = ToCome(0, scan.prev)
  <2>1. PageSize - 0 = PageSize
    BY <1>a
  <2> QED BY <2>1 DEF page, ToCome
<1>4. PageRight'
  <2>1. Came' = scan.prev /\ ToCome(0, scan.prev)' = ToCome(0, scan.prev)
    <3>1. active' = active /\ scan'.prev = scan.prev
      BY <1>1, <1>2
    <3>2. Came' = scan.prev
      BY <1>2 DEF Came
    <3>3. {n \in active' : n > scan'.prev /\ Cardinality({k \in active' : scan'.prev < k /\ k < n}) < PageSize - 0}
          = {n \in active : n > scan.prev /\ Cardinality({k \in active : scan.prev < k /\ k < n}) < PageSize - 0}
      BY <3>1
    <3> QED BY <3>2, <3>3 DEF ToCome
  <2> QED BY <1>2, <1>3, <2>1 DEF PageRight, Listing, ToCome
<1>5. \A n \in Ids : Settled(n)' => Settled(n)
  BY <1>1, <1>2 DEF Settled
<1>6. NoneBetween' /\ NoneInGap' /\ PruneRight'
  BY <1>2 DEF NoneBetween, NoneInGap, PruneRight
<1>7. SameList
  BY <1>1, SameListSteps
<1> QED BY <1>4, <1>5, <1>6, <1>7, SameRight

(* The removal begins at the head of the list. *)
LEMMA FirstRight ==
  ASSUME TypeOK, ListInv, list' = list, scan'.next = FirstEntry, scan'.prev \in 0 .. MaxNs,
         \A o \in Objects : obj'[o].nsid = obj[o].nsid,
         active' = active, \A m \in active : m <= scan'.prev
  PROVE  PruneRight'
<1>a. /\ DOMAIN list = 1 .. Len(list) /\ Len(list) \in Nat /\ list \in Seq(Objects)
      /\ \A k \in DOMAIN list : list[k] # None
  BY ListTypes DEF TypeOK
<1>1. scan'.next = None => Listed' = {}
  <2> SUFFICES ASSUME scan'.next = None PROVE DOMAIN list = {}
    BY DEF Listed, Range
  <2>1. CASE list = <<>>
    <3>1. Len(list) = 0
      BY <2>1
    <3> QED BY <1>a, <3>1
  <2>2. CASE list # <<>>
    <3>1. list[1] = None
      BY <2>2 DEF FirstEntry
    <3>2. Len(list) # 0
      BY <1>a, <2>2, EmptySeq
    <3> QED BY <1>a, <3>1, <3>2
  <2> QED BY <2>1, <2>2
<1>2. ASSUME NEW k \in DOMAIN list, NEW l \in DOMAIN list, list[l] = scan'.next, k < l PROVE FALSE
  <2>1. list # <<>> => list[l] = list[1]
    BY <1>2 DEF FirstEntry
  <2>2. Len(list) # 0 /\ 1 \in DOMAIN list
    BY <1>a
  <2>3. list # <<>>
    BY <2>2
  <2>4. l = 1
    BY <2>1, <2>2, <2>3 DEF ListInv
  <2> QED BY <1>a, <1>2, <2>4
<1> QED BY <1>1, <1>2 DEF PruneRight

(* The page is right if it holds what is to come. *)
LEMMA PageKept ==
  ASSUME NEW j, NEW c, active' = active, scan'.j = j, Came' = c, scan'.page = ToCome(j, c)
  PROVE  PageRight'
BY DEF PageRight, ToCome

(* The next entry of a list, the next list, or the end of the last list. *)
LEMMA RightNextEntry == ScanInv /\ NextListEntry /\ steady /\ steady' => Right'
<1> SUFFICES ASSUME ScanInv, NextListEntry, steady, steady' PROVE Right'
  OBVIOUS
<1>a. /\ Right /\ TypeOK /\ ListInv /\ CountInv /\ scan \in ScanRec
      /\ scan.nn \in 0 .. MaxNs /\ scan.lists \in 0 .. MaxNs /\ scan.page \subseteq Ids
      /\ scan.j \in 0 .. MaxNs /\ scan.prev \in 0 .. MaxNs
      /\ MaxNs \in Nat /\ PageSize \in Nat /\ PageSize >= 1 /\ active \subseteq Ids
  BY SteadyFacts
<1> DEFINE limit == IF scan.nn < PageSize THEN scan.nn ELSE PageSize
<1>b. /\ scan.pc = "entry" /\ scan.mode = "list" /\ limit \in Nat
      /\ limit <= scan.nn /\ limit <= PageSize /\ (limit = scan.nn \/ limit = PageSize)
      /\ scan.nn <= scan.lists * PageSize
      /\ scan.j <= scan.nn /\ scan.j <= PageSize /\ MaxNs + scan.j <= scan.prev + scan.nn
      /\ UNCHANGED <<obj, list, active>>
  BY <1>a DEF NextListEntry, CountInv, Listing, Came
<1>c. scan.page = ToCome(scan.j, scan.prev)
  BY <1>a, <1>b DEF Right, PageRight, Listing, Came
<1>d. SameList
  BY <1>b, SameListSteps
<1>e. \A m \in active : m \in Nat /\ m <= MaxNs
  BY <1>a DEF Ids
<1>1. ASSUME scan' = [scan EXCEPT !.pc = "prune", !.next = FirstEntry], \A m \in active : m <= scan.prev
      PROVE  Right'
  <2>1. scan'.pc = "prune" /\ scan'.next = FirstEntry /\ scan'.prev = scan.prev /\ scan'.mode = "list"
    BY <1>1, <1>a, <1>b DEF ScanRec
  <2>2. PruneRight'
    BY <1>1, <1>a, <1>b, <2>1, FirstRight
  <2>3. \A n \in Ids : Settled(n)' => Settled(n)
    BY <1>b, <2>1 DEF Settled
  <2>4. NoneBetween' /\ NoneInGap' /\ PageRight'
    BY <2>1 DEF NoneBetween, NoneInGap, PageRight, Listing
  <2> QED BY <1>d, <2>2, <2>3, <2>4, SameRight
<1>2. CASE scan.j < limit /\ scan.page = {}
  <2>1. scan' = [scan EXCEPT !.pc = "prune", !.next = FirstEntry]
    BY <1>2 DEF NextListEntry
  <2>2. ASSUME NEW m \in active, ~(m <= scan.prev) PROVE FALSE
    <3>1. scan.prev \in Nat /\ scan.j \in Nat /\ scan.prev < m /\ scan.j < PageSize
      BY <1>2, <1>a, <1>b, <1>e, <2>2
    <3>2. ToCome(scan.j, scan.prev) # {}
      BY <1>a, <3>1, ToComeFirst
    <3> QED BY <1>2, <1>c, <3>2
  <2> QED BY <1>1, <2>1, <2>2
<1>3. CASE scan.j < limit /\ scan.page # {}
  <2> DEFINE n == CHOOSE k \in scan.page : \A l \in scan.page : k <= l
  <2>1. n \in scan.page /\ n \in 1 .. MaxNs /\ \A l \in scan.page : n <= l
    BY <1>3, <1>a, EntryFacts
  <2>2. scan' = [scan EXCEPT !.pc = "validate", !.nsid = n, !.page = @ \ {n}, !.j = @ + 1]
    BY <1>3 DEF NextListEntry
  <2> HIDE DEF n, limit
  <2>3. /\ scan'.pc = "validate" /\ scan'.nsid = n /\ scan'.page = scan.page \ {n}
        /\ scan'.j = scan.j + 1 /\ scan'.prev = scan.prev /\ scan'.mode = "list"
    BY <1>a, <1>b, <2>2 DEF ScanRec
  <2>4. n \in active /\ scan.prev < n
    BY <1>a, <1>c, <2>1 DEF ToCome
  <2>5. ASSUME NEW m \in active PROVE m <= scan.prev \/ n <= m
    <3> SUFFICES ASSUME scan.prev < m PROVE n <= m
      BY <1>a, <1>e
    <3>1. scan.prev \in Nat /\ scan.j \in Nat /\ scan.j < PageSize
      BY <1>3, <1>a, <1>b
    <3>2. PICK s \in ToCome(scan.j, scan.prev) : s <= m
      BY <1>a, <3>1, ToComeFirst
    <3>3. n <= s /\ s \in Nat /\ n \in Nat
      BY <1>c, <1>e, <2>1, <3>2 DEF ToCome
    <3> QED BY <1>e, <3>2, <3>3
  <2>6. scan.page \ {n} = ToCome(scan.j + 1, n)
    <3>1. scan.prev \in Nat /\ scan.j \in Nat
      BY <1>a
    <3>2. ToCome(scan.j, scan.prev) \ {n} = ToCome(scan.j + 1, n)
      BY <1>a, <2>4, <2>5, <3>1, ToComeNext
    <3> QED BY <1>c, <3>2
  <2>7. PageRight'
    <3>1. Came' = n
      BY <2>3 DEF Came
    <3> QED BY <1>b, <2>3, <2>6, <3>1, PageKept
  <2>8. NoneBetween' /\ NoneInGap' /\ PruneRight'
    BY <1>b, <2>3, <2>4, <2>5 DEF NoneBetween, NoneInGap, PruneRight
  <2>9. \A x \in Ids : Settled(x)' => Settled(x)
    BY <1>b, <2>3 DEF Settled
  <2> QED BY <1>d, <2>7, <2>8, <2>9, SameRight
<1>4. CASE ~(scan.j < limit) /\ scan.lists = 1
  <2>1. scan' = [scan EXCEPT !.pc = "prune", !.next = FirstEntry]
    BY <1>4 DEF NextListEntry
  <2>2. scan.lists * PageSize = PageSize
    BY <1>4, <1>a
  <2>3. MaxNs <= scan.prev
    BY <1>4, <1>a, <1>b, <2>2
  <2>4. \A m \in active : m <= scan.prev
    BY <1>a, <1>e, <2>3
  <2> QED BY <1>1, <2>1, <2>4
<1>5. CASE ~(scan.j < limit) /\ scan.lists # 1
  <2>1. scan'.pc = "list" /\ scan'.prev = scan.prev /\ scan'.mode = "list"
    BY <1>5, <1>a, <1>b DEF NextListEntry, ScanRec
  <2>2. NoneBetween' /\ NoneInGap' /\ PageRight' /\ PruneRight'
    BY <2>1 DEF NoneBetween, NoneInGap, PageRight, PruneRight
  <2>3. \A n \in Ids : Settled(n)' => Settled(n)
    BY <1>b, <2>1 DEF Settled
  <2> QED BY <1>d, <2>2, <2>3, SameRight
<1> QED BY <1>2, <1>3, <1>4, <1>5

(* A number is searched for. *)
LEMMA RightValidate == ScanInv /\ ValidateNs /\ steady /\ steady' => Right'
<1> SUFFICES ASSUME ScanInv, ValidateNs, steady, steady' PROVE Right'
  OBVIOUS
<1>a. Right /\ TypeOK /\ scan \in ScanRec
  BY SteadyFacts
<1>1. /\ scan.pc = "validate" /\ scan'.pc \in {"alloc", "check"} /\ scan'.mode = scan.mode
      /\ scan'.page = scan.page /\ scan'.j = scan.j /\ scan'.nsid = scan.nsid
      /\ scan'.prev = scan.prev /\ active' = active
  BY <1>a DEF ValidateNs, ScanRec
<1>2. SameList
  BY SameListSteps
<1>3. \A n \in Ids : Settled(n)' => Settled(n)
  BY <1>1 DEF Settled
<1>4. NoneBetween' /\ NoneInGap' /\ PruneRight'
  BY <1>1, <1>a DEF Right, NoneBetween, NoneInGap, PruneRight
<1>5. PageRight'
  <2>1. Came' = Came /\ Came = scan.nsid /\ (Listing' => Listing)
    BY <1>1 DEF Came, Listing
  <2>2. CASE Listing
    <3>1. scan.page = ToCome(scan.j, Came)
      BY <1>1, <1>a, <2>2 DEF Right, PageRight
    <3> QED BY <1>1, <2>1, <3>1, PageKept
  <2>3. CASE ~Listing
    BY <2>1, <2>3 DEF PageRight
  <2> QED BY <2>2, <2>3
<1> QED BY <1>2, <1>3, <1>4, <1>5, SameRight

(* After a number was dealt with, if the list is right about it. *)
LEMMA RightValidated ==
  ASSUME ScanInv, steady, scan.pc \in {"check", "alloc"}, scan' = Validated, active' = active, Alive',
         \A n \in Ids : n # scan.nsid => (n \in ListedIds' <=> n \in ListedIds),
         scan.nsid \in ListedIds' <=> scan.nsid \in active
  PROVE  Right'
<1>a. /\ Right /\ TypeOK /\ CountInv /\ scan \in ScanRec /\ scan.mode \in {"list", "sequential"}
      /\ scan.nsid \in 0 .. MaxNs + 1 /\ scan.prev \in 0 .. MaxNs /\ MaxNs \in Nat
      /\ active \subseteq Ids /\ \A n \in Ids : n \in 1 .. MaxNs
  BY SteadyFacts
<1>b. \A n \in Ids : Settled(n) => (n \in ListedIds <=> n \in active)
  BY <1>a DEF Right, SettledRight
<1>c. \A n \in Ids : Settled(n) \/ n = scan.nsid => (n \in ListedIds' <=> n \in active')
  BY <1>b
<1>1. CASE scan.mode = "list"
  <2>1. /\ scan'.pc = "gap" /\ scan'.prev = scan.prev + 1 /\ scan'.nsid = scan.nsid
        /\ scan'.j = scan.j /\ scan'.page = scan.page /\ scan'.mode = "list"
    BY <1>1, <1>a, ValidatedCount
  <2>2. scan.nsid \in active /\ \A m \in active : m <= scan.prev \/ scan.nsid <= m
    BY <1>1, <1>a DEF Right, NoneBetween
  <2>3. \A n \in Ids : Settled(n)' => Settled(n) \/ n = scan.nsid
    BY <1>1, <1>a, <2>1 DEF Settled
  <2>4. SettledRight'
    BY <1>c, <2>3 DEF SettledRight
  <2>5. \A m \in active : m < scan.prev + 1 \/ scan.nsid <= m
    BY <1>a, <2>2 DEF Ids
  <2>6. NoneBetween' /\ NoneInGap' /\ PruneRight'
    BY <2>1, <2>2, <2>5 DEF NoneBetween, NoneInGap, PruneRight
  <2>7. PageRight'
    <3>1. Came' = Came /\ Came = scan.nsid /\ Listing
      BY <1>1, <2>1 DEF Came, Listing
    <3>2. scan.page = ToCome(scan.j, Came)
      BY <1>1, <1>a, <3>1 DEF Right, PageRight
    <3> QED BY <2>1, <3>1, <3>2, PageKept
  <2> QED BY <2>4, <2>6, <2>7 DEF Right
<1>2. CASE scan.mode = "sequential"
  <2>1. scan'.pc = "validate" /\ scan'.nsid = scan.nsid + 1 /\ scan'.mode = "sequential"
    BY <1>2, <1>a, ValidatedCount
  <2>2. \A n \in Ids : Settled(n)' => Settled(n) \/ n = scan.nsid
    BY <1>2, <1>a, <2>1 DEF Settled
  <2>3. SettledRight'
    BY <1>c, <2>2 DEF SettledRight
  <2>4. NoneBetween' /\ NoneInGap' /\ PruneRight' /\ PageRight'
    BY <2>1 DEF NoneBetween, NoneInGap, PruneRight, PageRight, Listing
  <2> QED BY <2>3, <2>4 DEF Right
<1> QED BY <1>1, <1>2, <1>a

(* A namespace that was found is kept if the device has it. *)
LEMMA RightRevalidate == ScanInv /\ Revalidate /\ steady /\ steady' => Right'
<1> SUFFICES ASSUME ScanInv, Revalidate, steady, steady' PROVE Right'
  OBVIOUS
<1>a. /\ Good /\ Right /\ TypeOK /\ ListInv /\ WalkInv
      /\ scan.nsid \in 0 .. MaxNs + 1 /\ MaxNs \in Nat
  BY SteadyFacts
<1>1. scan.pc = "check" /\ scan' = Validated /\ active' = active
  BY DEF Revalidate
<1>2. PICK o \in Listed : o = scan.ns /\ obj[o].nsid = scan.nsid
  BY <1>1, <1>a DEF WalkInv
<1>3. ~obj[o].dead /\ o \in Objects
  BY <1>a, ListTypes DEF Right, Alive
<1>4. scan.nsid \in ListedIds /\ scan.nsid \in Ids
  BY <1>2, <1>a, IdFacts
<1>5. CASE scan.nsid \in active /\ obj' = [obj EXCEPT ![scan.ns].refs = @ - 1] /\ UNCHANGED list
  <2>1. SameList
    BY <1>5, SameListSteps
  <2>2. ListedIds' = ListedIds /\ Alive'
    BY <1>a, <2>1, SameListFacts DEF Right
  <2> QED BY <1>1, <1>4, <1>5, <2>2, RightValidated
<1>6. CASE scan.nsid \notin active /\ NsRemove(o, 1)
  <2>1. /\ \A x \in Ids : x \in ListedIds' <=> x \in ListedIds /\ x # scan.nsid
        /\ Alive'
    BY <1>a, <1>2, <1>6, RemoveIds DEF Right
  <2>2. scan.nsid \notin ListedIds' /\ \A n \in Ids : n # scan.nsid => (n \in ListedIds' <=> n \in ListedIds)
    BY <1>4, <2>1
  <2> QED BY <1>1, <1>6, <2>1, <2>2, RightValidated
<1> QED BY <1>2, <1>3, <1>5, <1>6 DEF Revalidate

(* A number that was not found is added if the device has it. *)
LEMMA RightAlloc == ScanInv /\ AllocNs /\ steady /\ steady' => Right'
<1> SUFFICES ASSUME ScanInv, AllocNs, steady, steady' PROVE Right'
  OBVIOUS
<1>a. /\ Good /\ Right /\ TypeOK /\ ListInv /\ WalkInv /\ obj \in [Objects -> Object]
      /\ scan.nsid \in 0 .. MaxNs + 1 /\ MaxNs \in Nat /\ list \in Seq(Objects)
  BY SteadyFacts DEF TypeOK
<1>1. scan.pc = "alloc" /\ scan' = Validated /\ active' = active
  BY DEF AllocNs
<1>2. scan.nsid \notin ListedIds
  <2>1. \A o \in Listed : obj[o].nsid # scan.nsid
    BY <1>1, <1>a DEF ScanInv, OrderInv
  <2> QED BY <1>a, <2>1, IdFacts
<1>3. CASE scan.nsid \notin active /\ UNCHANGED <<obj, list>>
  <2>1. SameList
    BY <1>1, <1>3, SameListSteps
  <2>2. ListedIds' = ListedIds /\ Alive'
    BY <1>a, <2>1, SameListFacts DEF Right
  <2> QED BY <1>1, <1>2, <1>3, <2>2, RightValidated
<1>4. ASSUME NEW o \in Objects, scan.nsid \in active,
             obj' = [obj EXCEPT ![o].nsid = scan.nsid, ![o].refs = 1],
             obj[o] = Unused, list' = Append(list, o)
      PROVE  Right'
  <2>2. /\ obj'[o].nsid = scan.nsid /\ ~obj'[o].dead
        /\ \A p \in Objects : p # o => obj'[p] = obj[p]
    BY <1>a, <1>4 DEF Object, Unused
  <2>3. o \notin Listed /\ Listed \subseteq Objects
    BY <1>a, <1>4, ListTypes DEF ListInv, Unused
  <2>4. Listed' = Listed \union {o}
    <3> DEFINE n == Len(list)
    <3>1. /\ n \in Nat /\ DOMAIN list = 1 .. n /\ DOMAIN list' = 1 .. n + 1
          /\ \A k \in 1 .. n : list'[k] = list[k]
          /\ list'[n + 1] = o
      <4>1. list' \in Seq(Objects) /\ Len(list') = n + 1
        BY <1>a, <1>4, AppendProperties
      <4> QED BY <1>a, <1>4, <4>1, AppendProperties, LenProperties, ListTypes
    <3> HIDE DEF n
    <3>2. \A k \in 1 .. n + 1 : list'[k] \in Listed \union {o}
      <4>1. \A k \in 1 .. n + 1 : k \in 1 .. n \/ k = n + 1
        BY <3>1
      <4> QED BY <3>1, <4>1 DEF Listed, Range
    <3>3. \A k \in 1 .. n : k \in 1 .. n + 1
      BY <3>1
    <3>4. n + 1 \in 1 .. n + 1
      BY <3>1
    <3> QED BY <3>1, <3>2, <3>3, <3>4 DEF Listed, Range
  <2>5. \A x : x \in ListedIds' <=> x \in ListedIds \/ x = scan.nsid
    <3>1. \A x : x \in ListedIds <=> \E p \in Listed : obj[p].nsid = x
      BY DEF ListedIds
    <3>2. \A x : x \in ListedIds' <=> \E p \in Listed \union {o} : obj'[p].nsid = x
      BY <2>4 DEF ListedIds
    <3>3. \A p \in Listed : obj'[p].nsid = obj[p].nsid
      BY <2>2, <2>3
    <3> QED BY <2>2, <3>1, <3>2, <3>3
  <2>6. Alive'
    BY <1>a, <2>2, <2>3, <2>4 DEF Right, Alive
  <2>7. /\ scan.nsid \in ListedIds' /\ scan.nsid \in active
        /\ \A n \in Ids : n # scan.nsid => (n \in ListedIds' <=> n \in ListedIds)
    BY <1>4, <2>5
  <2> QED BY <1>1, <2>6, <2>7, RightValidated
<1> QED BY <1>3, <1>4 DEF AllocNs

(* A number between two entries of the list of the device is taken off. *)
LEMMA RightFillGap == ScanInv /\ FillGap /\ steady /\ steady' => Right'
<1> SUFFICES ASSUME ScanInv, FillGap, steady, steady' PROVE Right'
  OBVIOUS
<1>a. /\ Good /\ Right /\ TypeOK /\ ListInv /\ CountInv /\ scan \in ScanRec
      /\ scan.nsid \in 0 .. MaxNs + 1 /\ scan.prev \in 0 .. MaxNs /\ MaxNs \in Nat
      /\ active \subseteq Ids /\ \A n \in Ids : n \in 1 .. MaxNs
  BY SteadyFacts
<1>b. /\ scan.pc = "gap" /\ scan.mode = "list" /\ active' = active /\ scan.prev <= scan.nsid
      /\ scan.nsid \in active /\ \A m \in active : m < scan.prev \/ scan.nsid <= m
      /\ \A n \in Ids : n < scan.prev \/ n = scan.nsid => (n \in ListedIds <=> n \in active)
      /\ scan.page = ToCome(scan.j, scan.nsid)
  <2>1. scan.pc = "gap" /\ active' = active
    BY DEF FillGap
  <2>2. scan.mode = "list" /\ scan.prev <= scan.nsid
    BY <1>a, <2>1 DEF CountInv
  <2>3. Listing /\ Came = scan.nsid
    BY <2>1, <2>2 DEF Listing, Came
  <2> QED BY <1>a, <2>1, <2>2, <2>3 DEF Right, NoneInGap, SettledRight, Settled, PageRight
<1>1. CASE scan.prev < scan.nsid
  <2> DEFINE o == FindNs(scan.prev)
  <2>1. /\ scan'.pc = "gap" /\ scan'.mode = "list" /\ scan'.prev = scan.prev + 1
        /\ scan'.nsid = scan.nsid /\ scan'.page = scan.page /\ scan'.j = scan.j
        /\ IF o = None THEN UNCHANGED <<obj, list>> ELSE NsRemove(o, 0)
    BY <1>1, <1>a, <1>b DEF FillGap, ScanRec
  <2>2. scan.prev \notin active
    BY <1>1, <1>a, <1>b
  <2>3. ASSUME o = None
        PROVE  /\ \A x \in Ids : x # scan.prev => (x \in ListedIds' <=> x \in ListedIds)
               /\ scan.prev \in Ids => scan.prev \notin ListedIds'
               /\ Alive'
    <3>1. SameList
      BY <1>b, <2>1, <2>3, SameListSteps
    <3>2. ListedIds' = ListedIds /\ Alive'
      BY <1>a, <3>1, SameListFacts DEF Right
    <3>3. scan.prev \notin ListedIds
      <4> SUFFICES ASSUME NEW p \in Listed, obj[p].nsid = scan.prev PROVE FALSE
        BY <1>a, IdFacts
      <4>1. PICK l \in DOMAIN list : list[l] = p
        BY DEF Listed, Range
      <4>2. PICK k \in DOMAIN list : k < l /\ scan.prev < obj[list[k]].nsid
        BY <1>a, <2>3, <4>1, FindFacts
      <4>3. InOrder(k, l)
        BY <1>a, <4>2, GoodOrder
      <4>4. obj[list[k]].nsid \in Int /\ obj[list[l]].nsid = scan.prev /\ scan.prev \in Int
        BY <1>a, <4>1, ListTypes
      <4> QED BY <2>2, <4>2, <4>3, <4>4 DEF InOrder
    <3> QED BY <3>2, <3>3
  <2>4. ASSUME o # None
        PROVE  /\ \A x \in Ids : x # scan.prev => (x \in ListedIds' <=> x \in ListedIds)
               /\ scan.prev \in Ids => scan.prev \notin ListedIds'
               /\ Alive'
    <3>1. PICK p \in Listed : p = o /\ obj[p].nsid = scan.prev
      BY <1>a, <2>4, FindFacts
    <3>2. NsRemove(p, 0)
      BY <2>1, <2>4, <3>1
    <3>3. /\ \A x \in Ids : x \in ListedIds' <=> x \in ListedIds /\ x # scan.prev
          /\ Alive'
      BY <1>a, <3>1, <3>2, RemoveIds DEF Right
    <3> QED BY <3>3
  <2> HIDE DEF o
  <2>5. /\ \A x \in Ids : x # scan.prev => (x \in ListedIds' <=> x \in ListedIds)
        /\ scan.prev \in Ids => scan.prev \notin ListedIds'
        /\ Alive'
    <3> QED BY <2>3, <2>4
  <2>6. \A n \in Ids : Settled(n)' => n < scan.prev \/ n = scan.prev \/ n = scan.nsid
    BY <1>a, <2>1 DEF Settled
  <2>7. ASSUME NEW n \in Ids, Settled(n)' PROVE n \in ListedIds' <=> n \in active'
    <3>1. CASE n = scan.prev
      BY <1>b, <2>2, <2>5, <3>1
    <3>2. CASE n # scan.prev
      BY <1>b, <2>5, <2>6, <2>7, <3>2
    <3> QED BY <3>1, <3>2
  <2>8. \A m \in active : m < scan.prev + 1 \/ scan.nsid <= m
    BY <1>a, <1>b DEF Ids
  <2>9. NoneBetween' /\ NoneInGap' /\ PruneRight'
    BY <1>b, <2>1, <2>8 DEF NoneBetween, NoneInGap, PruneRight
  <2>10. PageRight'
    <3>1. Came' = scan.nsid
      BY <2>1 DEF Came
    <3> QED BY <1>b, <2>1, <3>1, PageKept
  <2> QED BY <2>5, <2>7, <2>9, <2>10 DEF Right, SettledRight
<1>2. CASE ~(scan.prev < scan.nsid)
  <2>1. /\ scan'.pc = "entry" /\ scan'.mode = "list" /\ scan'.prev = scan.prev
        /\ scan'.page = scan.page /\ scan'.j = scan.j /\ UNCHANGED <<obj, list>>
    BY <1>2, <1>a, <1>b DEF FillGap, ScanRec
  <2>2. scan.prev = scan.nsid
    BY <1>2, <1>a, <1>b
  <2>3. \A n \in Ids : Settled(n)' => Settled(n)
    BY <1>a, <1>b, <2>1, <2>2 DEF Settled
  <2>4. NoneBetween' /\ NoneInGap' /\ PruneRight'
    BY <2>1 DEF NoneBetween, NoneInGap, PruneRight
  <2>5. PageRight'
    <3>1. Came' = scan.nsid
      BY <2>1, <2>2 DEF Came
    <3> QED BY <1>b, <2>1, <3>1, PageKept
  <2>6. SameList
    BY <1>b, <2>1, SameListSteps
  <2> QED BY <2>3, <2>4, <2>5, <2>6, SameRight
<1> QED BY <1>1, <1>2

(* Every number was tried. *)
LEMMA RightSequentialEnd == ScanInv /\ SequentialEnd /\ steady /\ steady' => Right'
<1> SUFFICES ASSUME ScanInv, SequentialEnd, steady, steady' PROVE Right'
  OBVIOUS
<1>a. /\ Right /\ TypeOK /\ ListInv /\ CountInv /\ scan \in ScanRec
      /\ scan.nsid \in 0 .. MaxNs + 1 /\ MaxNs \in Nat
      /\ active \subseteq Ids /\ \A n \in Ids : n \in 1 .. MaxNs
  BY SteadyFacts
<1>1. /\ scan.pc = "validate" /\ scan.nsid > MaxNs /\ UNCHANGED <<obj, list, active>>
      /\ scan'.pc = "prune" /\ scan'.prev = MaxNs /\ scan'.next = FirstEntry /\ scan'.mode = scan.mode
  BY <1>a DEF SequentialEnd, ScanRec
<1>2. scan.mode = "sequential"
  BY <1>a, <1>1 DEF CountInv
<1>3. SameList
  BY <1>1, SameListSteps
<1>4. \A n \in Ids : Settled(n)' => Settled(n)
  BY <1>a, <1>1, <1>2 DEF Settled
<1>5. PruneRight'
  <2>1. \A m \in active : m <= MaxNs
    BY <1>a
  <2>2. MaxNs \in 0 .. MaxNs
    BY <1>a
  <2> QED BY <1>a, <1>1, <2>1, <2>2, FirstRight
<1>6. NoneBetween' /\ NoneInGap' /\ PageRight'
  BY <1>1 DEF NoneBetween, NoneInGap, PageRight, Listing
<1> QED BY <1>3, <1>4, <1>5, <1>6, SameRight

(* Larger numbers are taken off. *)
LEMMA RightRemoveInvalid == ScanInv /\ RemoveInvalid /\ steady /\ steady' => Right'
<1> SUFFICES ASSUME ScanInv, RemoveInvalid, steady, steady' PROVE Right'
  OBVIOUS
<1>a. /\ Good /\ Right /\ TypeOK /\ ListInv /\ WalkInv /\ scan \in ScanRec
      /\ scan.prev \in 0 .. MaxNs /\ MaxNs \in Nat /\ \A n \in Ids : n \in 1 .. MaxNs
  BY SteadyFacts
<1>b. /\ scan.pc = "prune" /\ scan'.pc = "prune" /\ scan'.prev = scan.prev /\ active' = active
      /\ scan'.next = NextEntry(scan.next) /\ scan.next # None
  BY <1>a DEF RemoveInvalid, ScanRec
<1>c. PICK k \in DOMAIN list : list[k] = scan.next
  BY <1>a, <1>b DEF WalkInv, Listed, Range
<1>d. /\ scan'.next = IF k = Len(list) THEN None ELSE list[k + 1]
      /\ \A i \in DOMAIN list : i < k => obj[list[i]].nsid <= scan.prev
      /\ \A m \in active : m <= scan.prev
      /\ \A n \in Ids : n <= scan.prev => (n \in ListedIds <=> n \in active)
  <2>1. scan'.next = IF k = Len(list) THEN None ELSE list[k + 1]
    BY <1>a, <1>b, <1>c, NextFacts
  <2> QED BY <1>a, <1>b, <1>c, <2>1 DEF Right, PruneRight, SettledRight, Settled
<1>e. /\ DOMAIN list = 1 .. Len(list) /\ Len(list) \in Nat
      /\ \A i \in DOMAIN list : list[i] \in Objects /\ list[i] # None /\ obj[list[i]].nsid \in Int
  BY <1>a, ListTypes
<1>1. NoneBetween' /\ NoneInGap' /\ PageRight'
  BY <1>b DEF NoneBetween, NoneInGap, PageRight, Listing
<1>2. CASE obj[scan.next].nsid > scan.prev
  <2>1. PICK o \in Listed : o = list[k] /\ o = scan.next
    BY <1>c DEF Listed, Range
  <2>2. NsRemove(o, 0)
    BY <1>2, <2>1 DEF RemoveInvalid
  <2>3. /\ \A x \in Ids : x \in ListedIds' <=> x \in ListedIds /\ x # obj[o].nsid
        /\ Alive' /\ \A p \in Objects : obj'[p].nsid = obj[p].nsid
    BY <1>a, <2>2, RemoveIds DEF Right
  <2>4. /\ Listed' = Listed \ {o}
        /\ \A i, l \in DOMAIN list' : i < l =>
              \E k1, l1 \in DOMAIN list : k1 < l1 /\ list[k1] = list'[i] /\ list[l1] = list'[l]
    BY <1>a, <2>2, RemoveFacts
  <2>5. SettledRight'
    <3>1. \A x \in Ids : Settled(x)' => x <= scan.prev
      BY <1>b DEF Settled
    <3>2. obj[o].nsid > scan.prev
      BY <1>2, <2>1
    <3>3. \A x \in Ids : x <= scan.prev => x # obj[o].nsid
      BY <1>a, <1>e, <2>1, <3>2
    <3> QED BY <1>b, <1>d, <2>3, <3>1, <3>3 DEF SettledRight
  <2>6. scan'.next = None => \A p \in Listed' : obj'[p].nsid <= scan.prev
    <3> SUFFICES ASSUME scan'.next = None, NEW p \in Listed \ {o} PROVE obj'[p].nsid <= scan.prev
      BY <2>4
    <3>1. k = Len(list)
      BY <1>d, <1>e
    <3>2. PICK i \in DOMAIN list : list[i] = p
      BY DEF Listed, Range
    <3>3. i < k
      <4>1. p # o
        OBVIOUS
      <4>2. i # k
        BY <2>1, <3>2, <4>1
      <4> QED BY <1>e, <3>1, <4>2
    <3> QED BY <1>d, <1>e, <2>3, <3>2, <3>3
  <2>7. ASSUME NEW i \in DOMAIN list', NEW l \in DOMAIN list', list'[l] = scan'.next, i < l
        PROVE  obj'[list'[i]].nsid <= scan.prev
    <3>1. PICK k1, l1 \in DOMAIN list : k1 < l1 /\ list[k1] = list'[i] /\ list[l1] = list'[l]
      BY <2>4, <2>7
    <3>2. k # Len(list) /\ k + 1 \in DOMAIN list /\ list[l1] = list[k + 1]
      BY <1>d, <1>e, <2>7, <3>1
    <3>3. l1 = k + 1
      BY <1>a, <3>2 DEF ListInv
    <3>4. list'[i] \in Listed'
      BY <2>7 DEF Listed, Range
    <3>5. k1 # k
      BY <2>1, <2>4, <3>1, <3>4
    <3>6. k1 < k
      BY <1>e, <3>1, <3>3, <3>5
    <3> QED BY <1>d, <1>e, <2>3, <3>1, <3>6
  <2>8. PruneRight'
    BY <1>b, <1>d, <2>6, <2>7 DEF PruneRight
  <2> QED BY <1>1, <2>3, <2>5, <2>8 DEF Right
<1>3. CASE ~(obj[scan.next].nsid > scan.prev)
  <2>1. UNCHANGED <<obj, list>>
    BY <1>3 DEF RemoveInvalid
  <2>2. SameList
    BY <1>b, <2>1, SameListSteps
  <2>3. \A n \in Ids : Settled(n)' => Settled(n)
    BY <1>b DEF Settled
  <2>4. \A i \in DOMAIN list : i <= k => obj[list[i]].nsid <= scan.prev
    <3>1. obj[list[k]].nsid <= scan.prev
      BY <1>3, <1>a, <1>c, <1>e
    <3> QED BY <1>d, <1>e, <3>1
  <2>5. scan'.next = None => \A p \in Listed' : obj'[p].nsid <= scan.prev
    <3> SUFFICES ASSUME scan'.next = None, NEW p \in Listed PROVE obj[p].nsid <= scan.prev
      BY <2>1 DEF Listed
    <3>1. k = Len(list)
      BY <1>d, <1>e
    <3>2. PICK i \in DOMAIN list : list[i] = p
      BY DEF Listed, Range
    <3> QED BY <1>e, <2>4, <3>1, <3>2
  <2>6. ASSUME NEW i \in DOMAIN list, NEW l \in DOMAIN list, list[l] = scan'.next, i < l
        PROVE  obj[list[i]].nsid <= scan.prev
    <3>1. k # Len(list) /\ k + 1 \in DOMAIN list /\ list[l] = list[k + 1]
      BY <1>d, <1>e, <2>6
    <3>2. l = k + 1
      BY <1>a, <3>1 DEF ListInv
    <3> QED BY <1>e, <2>4, <2>6, <3>2
  <2>7. PruneRight'
    <3>1. \A i, l \in DOMAIN list' : list'[l] = scan'.next /\ i < l => obj'[list'[i]].nsid <= scan'.prev
      BY <1>b, <2>1, <2>6
    <3> QED BY <1>b, <1>d, <2>5, <3>1 DEF PruneRight
  <2> QED BY <1>1, <2>2, <2>3, <2>7, SameRight
<1> QED BY <1>2, <1>3

(* The end of the scan. *)
LEMMA RightScanEnd == ScanInv /\ ScanEnd /\ steady /\ steady' => Right'
<1> SUFFICES ASSUME ScanInv, ScanEnd, steady, steady' PROVE Right'
  OBVIOUS
<1>a. /\ Right /\ TypeOK /\ ListInv /\ list \in Seq(Objects)
      /\ scan.prev \in 0 .. MaxNs /\ MaxNs \in Nat /\ \A n \in Ids : n \in 1 .. MaxNs
      /\ active \subseteq Ids /\ \A o \in Objects : obj[o].nsid \in Int
  BY SteadyFacts, ListTypes DEF TypeOK
<1>1. /\ scan.pc = "prune" /\ scan.next = None /\ scan'.pc = "idle" /\ list' = ListSort
      /\ UNCHANGED <<obj, active>>
  BY DEF ScanEnd, Resting
<1>2. Listed' = Listed
  BY <1>a, <1>1, SortFacts DEF ListInv, Listed
<1>3. ListedIds' = ListedIds /\ Alive'
  BY <1>a, <1>1, <1>2 DEF ListedIds, Right, Alive
<1>4. ASSUME NEW n \in Ids PROVE n \in ListedIds <=> n \in active
  <2>1. CASE n <= scan.prev
    BY <1>a, <1>1, <2>1 DEF Right, SettledRight, Settled
  <2>2. CASE ~(n <= scan.prev)
    <3>1. n \notin active
      BY <1>a, <1>1, <2>2 DEF Right, PruneRight
    <3>2. \A o \in Listed : obj[o].nsid # n
      BY <1>a, <1>1, <2>2 DEF Right, PruneRight
    <3> QED BY <1>a, <3>1, <3>2, IdFacts
  <2> QED BY <2>1, <2>2
<1>5. SettledRight'
  BY <1>1, <1>3, <1>4 DEF SettledRight
<1>6. NoneBetween' /\ NoneInGap' /\ PageRight' /\ PruneRight'
  BY <1>1 DEF NoneBetween, NoneInGap, PageRight, PruneRight, Listing
<1> QED BY <1>3, <1>5, <1>6 DEF Right

(* Every step keeps an undisturbed scan right. *)
LEMMA SteadyStep == ScanInv /\ Next => SteadyInv'
<1> SUFFICES ASSUME ScanInv, Next, steady' PROVE Right'
  BY DEF SteadyInv
<1>1. CASE ScanStart
  BY <1>1, RightScanStart
<1>2. CASE ~ScanStart
  <2>1. steady
    BY <1>2 DEF Next, Scanning, IdentifyNsList, NextListEntry, ValidateNs, Revalidate, AllocNs, FillGap,
                SequentialEnd, RemoveInvalid, ScanEnd, DeviceChange, Notice, Rescan, Reset, Unbind, ResetWork,
        ResetEnd, ResetFails, KillQueues, EmptyEnd, RemoveDeadWork, Removing, RemoveStart, RemoveNext, OpenNs, ReleaseNs
  <2>2. CASE Scanning
    BY <1>2, <2>1, <2>2, RightIdentify, RightNextEntry, RightValidate, RightRevalidate, RightAlloc,
       RightFillGap, RightSequentialEnd, RightRemoveInvalid, RightScanEnd DEF Scanning
  <2>3. CASE ~Scanning
    <3>1. Right /\ TypeOK /\ WalkInv
      BY <2>1, SteadyFacts
    <3>2. Live /\ ~remover.on
      BY <2>1, <3>1 DEF WalkInv, Live
    <3>3. \/ Notice \/ Rescan
          \/ \E o \in Objects : OpenNs(o) \/ ReleaseNs(o)
      BY <2>3, <3>2 DEF Next, DeviceChange, Reset, Unbind, ResetWork, ResetEnd, ResetFails, KillQueues,
                EmptyEnd, RemoveDeadWork, Removing, RemoveStart, RemoveNext, Live
    <3>4. scan' = scan /\ active' = active /\ list' = list
      BY <3>3 DEF Notice, Rescan, OpenNs, ReleaseNs
    <3>5. SameList
      <4>1. CASE Notice \/ Rescan
        <5>1. UNCHANGED <<obj, list, active>>
          BY <4>1 DEF Notice, Rescan
        <5> QED BY <5>1, SameListSteps
      <4>2. CASE \E o \in Objects : OpenNs(o) \/ ReleaseNs(o)
        BY <4>2, SameListSteps
      <4> QED BY <3>3, <4>1, <4>2
    <3>6. \A n \in Ids : Settled(n)' => Settled(n)
      BY <3>4 DEF Settled
    <3>7. NoneBetween' /\ NoneInGap'
      BY <3>1, <3>4 DEF Right, NoneBetween, NoneInGap
    <3>8. PageRight'
      BY <3>1, <3>4 DEF Right, PageRight, Listing, Came, ToCome
    <3>9. PruneRight'
      <4>1. \A o \in Listed : o \in Objects
        BY <3>1, ListTypes
      <4>2. \A k \in DOMAIN list : list[k] \in Objects
        BY <3>1, ListTypes
      <4> QED BY <3>1, <3>4, <3>5, <4>1, <4>2 DEF Right, PruneRight, Listed, SameList
    <3> QED BY <2>1, <3>5, <3>6, <3>7, <3>8, <3>9, SameRight
  <2> QED BY <2>2, <2>3
<1> QED BY <1>1, <1>2

-----------------------------------------------------------------------------
(* A controller that was just set up. *)
LEMMA ScanInit == Init => ScanInv
<1> SUFFICES ASSUME Init PROVE ScanInv
  OBVIOUS
<1>a. MaxNs \in Nat /\ MaxNs >= 1 /\ MaxChanges \in Nat /\ MaxFailures \in Nat
  BY ScanAssumption
<1>1. Unused \in Object /\ Resting \in ScanRec
  BY <1>a, RestingTypes DEF Unused, Object
<1>2. TypeOK
  <2>1. obj \in [Objects -> Object] /\ list \in Seq(Objects) /\ scan \in ScanRec
    BY <1>1, EmptySeq DEF Init
  <2>2. remover \in [on: BOOLEAN, cur: Objects \union {None}, next: Objects \union {None}]
    BY DEF Init
  <2>3. active \subseteq Ids /\ changes \in 0 .. MaxChanges /\ failures \in 0 .. MaxFailures
    BY <1>a DEF Init
  <2> QED BY <2>1, <2>2, <2>3 DEF Init, TypeOK
<1>3. Listed = {} /\ DOMAIN list = {}
  BY DEF Init, Listed, Range
<1>4. ListInv
  BY <1>3 DEF Init, ListInv, Unused
<1>5. HeldIsCounted
  <2>1. \A o \in Objects : o # None
    BY DEF Objects, None
  <2> QED BY <1>3, <2>1 DEF Init, HeldIsCounted, Holders, Unused, Resting
<1>6. WalkInv /\ GoneInv /\ CountInv
  BY DEF Init, WalkInv, GoneInv, CountInv, Listing, Resting
<1>7. OrderInv /\ SteadyInv
  BY <1>3 DEF Init, OrderInv, SteadyInv, Resting
<1> QED BY <1>2, <1>4, <1>5, <1>6, <1>7 DEF ScanInv

(* Every step keeps the invariant. *)
LEMMA ScanStep == ScanInv /\ [Next]_vars => ScanInv'
<1> SUFFICES ASSUME ScanInv, [Next]_vars PROVE ScanInv'
  OBVIOUS
<1>1. CASE Next
  BY <1>1, TypeStep, BooksStep, WalkStep, GoneStep, CountStep, OrderStep, SteadyStep DEF ScanInv, Books
<1>2. CASE UNCHANGED vars
  <2>1. TypeOK' /\ HeldIsCounted' /\ ListInv' /\ WalkInv' /\ GoneInv'
    BY <1>2 DEF vars, ScanInv, TypeOK, HeldIsCounted, Holders, ListInv, WalkInv, GoneInv, Live, Listed
  <2>2. CountInv'
    BY <1>2 DEF vars, ScanInv, CountInv, Listing, Came
  <2>3. OrderInv'
    BY <1>2 DEF vars, ScanInv, OrderInv, Good, Bound, Came, Listed
  <2>4. SteadyInv'
    BY <1>2 DEF vars, ScanInv, SteadyInv, Right, Alive, SettledRight, Settled, NoneBetween, NoneInGap,
                PageRight, PruneRight, Listing, Came, ToCome, ListedIds, Listed
  <2> QED BY <2>1, <2>2, <2>3, <2>4 DEF ScanInv
<1> QED BY <1>1, <1>2

(* The invariant holds. *)
LEMMA ScanInvariant == Spec => []ScanInv
<1>1. Init => ScanInv
  BY ScanInit
<1>2. ScanInv /\ [Next]_vars => ScanInv'
  BY ScanStep
<1> QED BY <1>1, <1>2, PTL DEF Spec

-----------------------------------------------------------------------------
(* Everything keeps its type; in particular a namespace has at most four   *)
(* references.                                                             *)
THEOREM ScanTypes == Spec => []TypeOK
<1>1. ScanInv => TypeOK
  BY DEF ScanInv
<1> QED BY <1>1, ScanInvariant, PTL

(* A namespace has as many references as there are that hold it: the list, *)
(* an open file, and the scan while it validates.  So it is freed neither  *)
(* while somebody holds it nor twice.                                      *)
THEOREM References == Spec => []HeldIsCounted
<1>1. ScanInv => HeldIsCounted
  BY DEF ScanInv
<1> QED BY <1>1, ScanInvariant, PTL

(* When nvme_uninit_ctrl removes the namespaces no scan runs or is queued, *)
(* and in the end there is none, whatever the resets, rescans, changes and *)
(* removals by the reset work before it.                                   *)
THEOREM Gone == Spec => []GoneForGood
<1>1. ScanInv => GoneForGood
  BY DEF ScanInv, GoneInv, GoneForGood
<1> QED BY <1>1, ScanInvariant, PTL

(* After an undisturbed scan the list is what the device has, in order and *)
(* each number once, for any number of namespaces and any size of a list;  *)
(* and a number is on it twice only after a list other than the first      *)
(* could not be had.                                                       *)
THEOREM ScanRight == Spec => []ScanIsRight
<1>1. ScanInv => ScanIsRight
  <2> SUFFICES ASSUME ScanInv PROVE ScanIsRight
    OBVIOUS
  <2>a. TypeOK /\ ListInv
    BY DEF ScanInv
  <2>1. Twins => spoilt
    <3> SUFFICES ASSUME ~spoilt, Twins PROVE FALSE
      OBVIOUS
    <3>1. Good
      BY DEF Good
    <3> QED BY <3>1, Distinct DEF Twins
  <2>2. ASSUME steady, scan.pc = "idle"
        PROVE  ListedIds = active /\ \A k \in 1 .. Len(list) - 1 : obj[list[k]].nsid < obj[list[k + 1]].nsid
    <3>1. Right /\ Good /\ active \subseteq Ids
      BY <2>2, SteadyFacts
    <3>2. \A n \in Ids : n \in ListedIds <=> n \in active
      BY <2>2, <3>1 DEF Right, SettledRight, Settled
    <3>3. ListedIds \subseteq Ids
      BY <2>a, IdFacts
    <3>4. ASSUME NEW k \in 1 .. Len(list) - 1 PROVE obj[list[k]].nsid < obj[list[k + 1]].nsid
      <4>1. /\ k \in DOMAIN list /\ k + 1 \in DOMAIN list /\ k < k + 1
        BY <2>a, ListTypes
      <4>2. InOrder(k, k + 1)
        BY <3>1, <4>1, GoodOrder
      <4>3. Bound = 0 /\ obj[list[k + 1]].nsid \in 0 .. MaxNs /\ MaxNs \in Nat
        BY <2>2, <2>a, <4>1, ListTypes DEF Bound
      <4> QED BY <4>2, <4>3 DEF InOrder
    <3> QED BY <3>1, <3>2, <3>3, <3>4
  <2> QED BY <2>1, <2>2 DEF ScanIsRight
<1> QED BY <1>1, ScanInvariant, PTL
=============================================================================
