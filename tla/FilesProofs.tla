----------------------------- MODULE FilesProofs ----------------------------
(***************************************************************************)
(* The tree of ramfs, the descriptors on it and what a rename carries, for *)
(* any number of slots, any sizes and any paths.                           *)
(***************************************************************************)
EXTENDS Files, ProofLemmas, SequenceTheorems, FiniteSetTheorems, TLAPS

(* -------------------------------------------------------------- invariants *)

\* The provers do not know of a literal that it is a string.
Word == STRING \cup {".", "none"}
Name == Seq(Word)
Content == Seq(Bytes \cup {0})
Child == [name : Name, slot : Slots]
Slot == [name : Name, data : Content, in_use : BOOLEAN, is_dir : BOOLEAN,
         symlink_target : Name, children : Seq(Child), id : Nat]
Tables == [Slots -> Slot]

IsDir(t, i) == t[i].in_use /\ t[i].is_dir
ListedIn(t, i) == \E d \in Slots : \E k \in DOMAIN t[d].children : t[d].children[k].slot = i

\* What a directory lists is in use under that name.
EntriesSound(t) ==
    \A d \in Slots : \A k \in DOMAIN t[d].children :
        LET c == t[d].children[k].slot
        IN  t[c].in_use /\ t[c].name = t[d].children[k].name

\* A slot is listed once, and a name once in a directory.
EntriesDistinct(t) ==
    \A d, e \in Slots : \A k \in DOMAIN t[d].children, l \in DOMAIN t[e].children :
        d # e \/ k # l => /\ t[d].children[k].slot # t[e].children[l].slot
                          /\ d = e => t[d].children[k].name # t[e].children[l].name

\* Only directories list, and a free slot is none and has no id.
SlotsSound(t) ==
    /\ \A i \in Slots : ~IsDir(t, i) => t[i].children = <<>>
    /\ \A i \in Slots : t[i].is_dir => t[i].in_use
    /\ \A i \in Slots : t[i].in_use <=> t[i].id # 0
    /\ \A i, j \in Slots : t[i].in_use /\ t[j].in_use /\ t[i].id = t[j].id => i = j

\* The root: slots before it are in use, and neither they nor it are listed.
IsRoot(t, r) ==
    /\ r \in Slots /\ IsDir(t, r) /\ t[r].name = RootName
    /\ \A i \in 1 .. r : t[i].in_use /\ ~ListedIn(t, i)
    /\ \A i \in 1 .. r - 1 : ~(IsDir(t, i) /\ t[i].name = RootName)
NoDirs(t) == \A i \in Slots : ~IsDir(t, i)
RootFirst(t) == NoDirs(t) \/ \E r \in Slots : IsRoot(t, r)

TableOK(t) == /\ t \in Tables /\ EntriesSound(t) /\ EntriesDistinct(t) /\ SlotsSound(t)
              /\ RootFirst(t)

(* ------------------------------------------------------------------ lookups *)

(* Lowest is the least member, and 0 when there is none. *)
LEMMA LowestIs ==
    ASSUME NEW S \in SUBSET Slots
    PROVE  /\ S = {} => Lowest(S) = 0
           /\ S # {} => Lowest(S) \in S /\ \A j \in S : Lowest(S) <= j
           /\ Lowest(S) # 0 => S # {} /\ Lowest(S) \in S
<1>1. Slots \subseteq Nat /\ 0 \notin Slots
  BY RamfsAssumption DEF Slots
<1>2. CASE S # {}
  <2>1. PICK n \in S : \A m \in S : n <= m
    BY <1>1, <1>2, LeastMember
  <2>2. Lowest(S) = CHOOSE i \in S : \A j \in S : i <= j
    BY <1>2 DEF Lowest
  <2>3. QED BY <1>1, <1>2, <2>1, <2>2
<1>3. CASE S = {}
  BY <1>3 DEF Lowest
<1>4. QED BY <1>2, <1>3

(* The slot numbers are naturals above 0. *)
LEMMA SlotNumber == ASSUME NEW i \in Slots PROVE i \in Nat /\ i >= 1 /\ i <= MAX_FILES /\ i # 0
  BY RamfsAssumption DEF Slots

LEMMA SlotsBelow ==
    ASSUME NEW r \in Slots, NEW i \in 1 .. r
    PROVE  i \in Slots /\ (i = r \/ i < r) /\ (i < r <=> i \in 1 .. r - 1)
  BY RamfsAssumption DEF Slots

LEMMA RootIndex ==
    ASSUME NEW t
    PROVE  /\ NoDirs(t) => get_root_dir_idx(t) = 0
           /\ \A r \in Slots : IsRoot(t, r) => get_root_dir_idx(t) = r
<1> DEFINE S == {i \in Slots : t[i].in_use /\ t[i].is_dir /\ t[i].name = RootName}
<1>1. S \in SUBSET Slots /\ get_root_dir_idx(t) = Lowest(S)
  BY DEF get_root_dir_idx
<1>2. ASSUME NoDirs(t) PROVE get_root_dir_idx(t) = 0
  <2>1. S = {}
    BY <1>2 DEF NoDirs, IsDir
  <2>2. QED BY <1>1, <2>1 DEF Lowest
<1>3. ASSUME NEW r \in Slots, IsRoot(t, r) PROVE get_root_dir_idx(t) = r
  <2>1. r \in S
    BY <1>3 DEF IsRoot, IsDir
  <2> DEFINE l == Lowest(S)
  <2>2. l \in S /\ l <= r
    BY <1>1, <2>1, LowestIs
  <2>3. l \in Slots /\ IsDir(t, l) /\ t[l].name = RootName
    BY <2>2 DEF IsDir
  <2>4. ~(l \in 1 .. r - 1)
    BY <1>3, <2>3 DEF IsRoot
  <2> HIDE DEF S, l
  <2>5. l = r
    BY <2>2, <2>3, <2>4, SlotNumber
  <2>6. QED BY <1>1, <2>5 DEF l
<1>4. QED BY <1>2, <1>3 DEF NoDirs

(* There is a root or there is no directory at all. *)
LEMMA RootOrNone ==
    ASSUME NEW t, RootFirst(t)
    PROVE  /\ get_root_dir_idx(t) # 0 => get_root_dir_idx(t) \in Slots /\ IsRoot(t, get_root_dir_idx(t))
           /\ get_root_dir_idx(t) = 0 => NoDirs(t)
  BY RootIndex, SlotNumber DEF RootFirst

LEMMA FreeSlot ==
    ASSUME NEW t, NEW f, f = find_free_slot(t), f # 0
    PROVE  f \in Slots /\ ~t[f].in_use /\ \A i \in Slots : i < f => t[i].in_use
<1> DEFINE S == {i \in Slots : ~t[i].in_use}
<1>1. S \in SUBSET Slots /\ f = Lowest(S)
  BY DEF find_free_slot
<1>2. f \in S /\ \A j \in S : f <= j
  <2> HIDE DEF S
  <2>1. QED BY <1>1, LowestIs
<1>3. QED BY <1>2, SlotNumber

LEMMA FoundFile ==
    ASSUME NEW t, NEW n
    PROVE  /\ find_file(t, n) # 0 => /\ find_file(t, n) \in Slots /\ t[find_file(t, n)].in_use
                                     /\ t[find_file(t, n)].name = n
           /\ find_file(t, n) = 0 => \A i \in Slots : ~(t[i].in_use /\ t[i].name = n)
<1> DEFINE S == {i \in Slots : t[i].in_use /\ t[i].name = n}
<1>1. S \in SUBSET Slots /\ find_file(t, n) = Lowest(S)
  BY DEF find_file
<1>2. find_file(t, n) # 0 => find_file(t, n) \in S
  <2> HIDE DEF S
  <2>1. QED BY <1>1, LowestIs
<1>3. find_file(t, n) = 0 => S = {}
  <2>1. 0 \notin S
    BY SlotNumber
  <2> HIDE DEF S
  <2>2. ASSUME S # {} PROVE Lowest(S) # 0
    <3>1. Lowest(S) \in S
      BY <1>1, <2>2, LowestIs
    <3>2. QED BY <2>1, <3>1
  <2>3. QED BY <1>1, <2>2
<1>4. QED BY <1>2, <1>3

LEMMA FoundChild ==
    ASSUME NEW t \in Tables, NEW d \in Slots, NEW n
    PROVE  /\ find_child(t, d, n) # 0 =>
                 \E k \in DOMAIN t[d].children : t[d].children[k].slot = find_child(t, d, n) /\ t[d].children[k].name = n
           /\ find_child(t, d, n) = 0 /\ t[d].is_dir => \A k \in DOMAIN t[d].children : t[d].children[k].name # n
<1> DEFINE S == {k \in DOMAIN t[d].children : t[d].children[k].name = n}
<1>1. t[d].children \in Seq(Child)
  BY DEF Tables, Slot
<1>2. S \in SUBSET Nat
  BY <1>1
<1>3. find_child(t, d, n) = IF ~t[d].is_dir THEN 0 ELSE IF S = {} THEN 0 ELSE t[d].children[Lowest(S)].slot
  BY DEF find_child
<1>4. ASSUME S # {} PROVE Lowest(S) \in S
  <2> HIDE DEF S
  <2>1. PICK m \in S : \A j \in S : m <= j
    BY <1>2, <1>4, LeastMember
  <2>2. QED BY <1>4, <2>1 DEF Lowest
<1>5. ASSUME S # {} PROVE t[d].children[Lowest(S)].slot # 0 /\ Lowest(S) \in DOMAIN t[d].children
                             /\ t[d].children[Lowest(S)].name = n
  <2>1. PICK l : l = Lowest(S) /\ l \in S
    BY <1>4, <1>5
  <2>2. t[d].children[l] \in Child
    <3>1. PICK c \in Seq(Child) : c = t[d].children
      BY <1>1
    <3>2. l \in DOMAIN c
      BY <2>1, <3>1
    <3>3. c[l] \in Child
      BY <3>2
    <3>4. QED BY <3>1, <3>3
  <2>3. t[d].children[l].slot \in Slots
    BY <2>2 DEF Child
  <2>4. QED BY <2>1, <2>3, SlotNumber
<1>6. CASE S = {}
  BY <1>3, <1>6
<1>7. CASE S # {}
  BY <1>3, <1>5, <1>7
<1>8. QED BY <1>6, <1>7

(* ---------------------------------------------------------------- retain *)

(* What retain keeps: the other entries, each once. *)
Survives(list, i, r) ==
    /\ r \in Seq(Child)
    /\ \E g \in [DOMAIN r -> DOMAIN list] :
          /\ \A k \in DOMAIN r : r[k] = list[g[k]] /\ list[g[k]].slot # i
          /\ \A k, l \in DOMAIN r : g[k] = g[l] => k = l
    /\ \A k \in DOMAIN list : list[k].slot # i => \E l \in DOMAIN r : r[l] = list[k]

\* The same of the first n entries.
SurvivesTo(list, i, n, r) ==
    /\ r \in Seq(Child)
    /\ \E g \in [DOMAIN r -> 1 .. n] :
          /\ \A k \in DOMAIN r : r[k] = list[g[k]] /\ list[g[k]].slot # i
          /\ \A k, l \in DOMAIN r : g[k] = g[l] => k = l
    /\ \A k \in 1 .. n : list[k].slot # i => \E l \in DOMAIN r : r[l] = list[k]

LEMMA SurvivesNext ==
    ASSUME NEW list \in Seq(Child), NEW i, NEW n \in 1 .. Len(list), NEW r, SurvivesTo(list, i, n - 1, r),
           NEW s, s = IF list[n].slot # i THEN Append(r, list[n]) ELSE r
    PROVE  SurvivesTo(list, i, n, s)
<1>1. PICK g \in [DOMAIN r -> 1 .. n - 1] :
          /\ \A k \in DOMAIN r : r[k] = list[g[k]] /\ list[g[k]].slot # i
          /\ \A k, l \in DOMAIN r : g[k] = g[l] => k = l
  BY DEF SurvivesTo
<1>2. r \in Seq(Child) /\ (\A k \in 1 .. n - 1 : list[k].slot # i => \E l \in DOMAIN r : r[l] = list[k])
  BY DEF SurvivesTo
<1>3. n \in Nat /\ list[n] \in Child /\ 1 .. n - 1 \subseteq 1 .. n /\ \A k \in 1 .. n : k # n => k \in 1 .. n - 1
  OBVIOUS
<1>4. CASE list[n].slot = i
  <2>1. s = r /\ g \in [DOMAIN r -> 1 .. n]
    BY <1>1, <1>3, <1>4
  <2>2. \A k \in 1 .. n : list[k].slot # i => \E l \in DOMAIN r : r[l] = list[k]
    BY <1>2, <1>3, <1>4
  <2>3. \E h \in [DOMAIN r -> 1 .. n] :
          /\ \A k \in DOMAIN r : r[k] = list[h[k]] /\ list[h[k]].slot # i
          /\ \A k, l \in DOMAIN r : h[k] = h[l] => k = l
    BY <1>1, <2>1
  <2>4. SurvivesTo(list, i, n, r)
    BY <1>2, <2>2, <2>3 DEF SurvivesTo
  <2>5. QED BY <2>1, <2>4
<1>5. CASE list[n].slot # i
  <2>1. PICK L \in Nat : L = Len(r) /\ DOMAIN r = 1 .. L
    BY <1>2
  <2>2. s = Append(r, list[n]) /\ s \in Seq(Child) /\ DOMAIN s = 1 .. L + 1
        /\ (\A k \in 1 .. L : s[k] = r[k]) /\ s[L + 1] = list[n]
    BY <1>2, <1>3, <1>5, <2>1, AppendProperties
  <2> DEFINE h == [k \in 1 .. L + 1 |-> IF k = L + 1 THEN n ELSE g[k]]
  <2>3. \A k \in 1 .. L + 1 : k # L + 1 => k \in 1 .. L
    BY <2>1
  <2>4. h \in [DOMAIN s -> 1 .. n]
    BY <1>1, <1>3, <2>1, <2>2, <2>3
  <2>5. \A k \in DOMAIN s : s[k] = list[h[k]] /\ list[h[k]].slot # i
    BY <1>1, <1>5, <2>1, <2>2, <2>3
  <2>6. ASSUME NEW k \in DOMAIN s, NEW l \in DOMAIN s, h[k] = h[l] PROVE k = l
    <3>1. \A m \in 1 .. L : g[m] # n
      BY <1>1, <1>3, <2>1
    <3>2. QED BY <1>1, <2>1, <2>2, <2>3, <2>6, <3>1
  <2> HIDE DEF h
  <2>7. ASSUME NEW k \in 1 .. n, list[k].slot # i PROVE \E l \in DOMAIN s : s[l] = list[k]
    <3>1. CASE k = n
      <4>1. L + 1 \in DOMAIN s
        BY <2>1, <2>2
      <4>2. QED BY <2>2, <3>1, <4>1
    <3>2. CASE k # n
      <4>1. PICK l \in DOMAIN r : r[l] = list[k]
        BY <1>2, <1>3, <2>7, <3>2
      <4>2. l \in DOMAIN s /\ s[l] = r[l]
        BY <2>1, <2>2
      <4>3. QED BY <4>1, <4>2
    <3>3. QED BY <3>1, <3>2
  <2>8. QED BY <2>2, <2>4, <2>5, <2>6, <2>7 DEF SurvivesTo
<1>6. QED BY <1>4, <1>5

LEMMA RetainedKeeps ==
    ASSUME NEW list \in Seq(Child), NEW i
    PROVE  Survives(list, i, Retained(list, i))
<1> DEFINE N == Len(list)
           B(n, x) == IF list[n].slot # i THEN Append(x, list[n]) ELSE x
           F == [x \in Nat \X Seq(Child) |-> IF x[1] \in 1 .. N THEN B(x[1], x[2]) ELSE x[2]]
           Is(f) == f = [n \in 0 .. N |-> IF n = 0 THEN <<>> ELSE B(n, f[n - 1])]
<1>1. N \in Nat /\ <<>> \in Seq(Child) /\ \A n \in 1 .. N : \A x \in Seq(Child) : B(n, x) \in Seq(Child)
  OBVIOUS
<1>2. Retained(list, i) = (CHOOSE g : Is(g))[N]
  BY DEF Retained
<1>3. DOMAIN list = 1 .. N
  OBVIOUS
<1>4. ASSUME NEW n, NEW x PROVE B(n, x) = IF list[n].slot # i THEN Append(x, list[n]) ELSE x
  OBVIOUS
<1> HIDE DEF B, N
<1>5. F \in Steps(Seq(Child))
  BY <1>1 DEF Steps
<1>6. PICK f \in [0 .. N -> Seq(Child)] : f[0] = <<>> /\ \A k \in 1 .. N : f[k] = F[<<k, f[k - 1]>>]
  <2> HIDE DEF F
  <2>1. Runs(Seq(Child), <<>>, F, N) # {}
    BY <1>1, <1>5, Recursion
  <2>2. QED BY <2>1 DEF Runs
<1>7. ASSUME NEW k \in 1 .. N PROVE f[k] = B(k, f[k - 1])
  <2>1. f[k - 1] \in Seq(Child) /\ k \in Nat
    BY <1>1
  <2>2. F[<<k, f[k - 1]>>] = B(k, f[k - 1])
    BY <2>1
  <2>3. QED BY <1>6, <2>2
<1> HIDE DEF F
<1>8. Is(f)
  <2>1. \A n \in 0 .. N : f[n] = IF n = 0 THEN <<>> ELSE B(n, f[n - 1])
    BY <1>1, <1>6, <1>7
  <2>2. QED BY <1>6, <2>1
<1>9. PICK g : Is(g) /\ Retained(list, i) = g[N]
  <2> HIDE DEF Is
  <2>1. QED BY <1>2, <1>8
<1>10. g[0] = <<>> /\ \A n \in 1 .. N : g[n] = B(n, g[n - 1])
  BY <1>1, <1>9
<1> DEFINE S == {n \in 0 .. N : SurvivesTo(list, i, n, g[n])}
<1>11. 0 \in S
  <2>1. DOMAIN <<>> = {} /\ 1 .. 0 = {}
    OBVIOUS
  <2>2. PICK h \in [{} -> 1 .. 0] : TRUE
    <3>1. [k \in {} |-> k] \in [{} -> 1 .. 0]
      OBVIOUS
    <3>2. QED BY <3>1
  <2>3. SurvivesTo(list, i, 0, <<>>)
    BY <1>1, <2>1, <2>2 DEF SurvivesTo
  <2>4. QED BY <1>1, <1>10, <2>3
<1>12. ASSUME NEW k \in 0 .. N - 1, k \in S PROVE k + 1 \in S
  <2>1. k + 1 \in 1 .. N /\ (k + 1) - 1 = k /\ k + 1 \in 0 .. N
    BY <1>1
  <2>2. g[k + 1] = IF list[k + 1].slot # i THEN Append(g[k], list[k + 1]) ELSE g[k]
    BY <1>4, <1>10, <2>1
  <2>3. PICK m, r, x : m \in 1 .. Len(list) /\ m = k + 1 /\ m - 1 = k /\ r = g[k] /\ x = g[k + 1]
    BY <2>1 DEF N
  <2>4. SurvivesTo(list, i, m - 1, r) /\ x = IF list[m].slot # i THEN Append(r, list[m]) ELSE r
    BY <1>12, <2>2, <2>3
  <2>5. SurvivesTo(list, i, m, x)
    BY <2>3, <2>4, SurvivesNext
  <2>6. QED BY <2>1, <2>3, <2>5
<1> HIDE DEF S
<1>13. \A k \in 0 .. N : k \in S
  <2>1. \A k \in 0 .. N - 1 : k \in S => k + 1 \in S
    BY <1>12
  <2>2. QED BY <1>1, <1>11, <2>1, Induct
<1>14. SurvivesTo(list, i, N, Retained(list, i))
  <2>1. N \in S
    BY <1>1, <1>13
  <2>2. QED BY <1>9, <2>1 DEF S
<1>15. QED BY <1>3, <1>14 DEF SurvivesTo, Survives

(* ---------------------------------------------------- updates of a table *)

LEMMA UnusedType ==
    Unused \in Slot /\ Unused.children = <<>> /\ Unused.in_use = FALSE /\ Unused.is_dir = FALSE /\ Unused.id = 0
<1>1. <<>> \in Name /\ <<>> \in Content /\ <<>> \in Seq(Child)
  BY DEF Name, Content
<1>2. NoLink \in Name
  <2>1. PICK x \in Word : x = "none"
    BY DEF Word
  <2>2. <<x>> \in Seq(Word)
    OBVIOUS
  <2>3. QED BY <2>1, <2>2 DEF NoLink, Name
<1> HIDE DEF Name
<1>3. QED BY <1>1, <1>2 DEF Unused, Slot

(* A free slot is filled with a childless one. *)
Puts(t, u, f, s) ==
    /\ f \in Slots /\ ~t[f].in_use /\ s \in Slot /\ s.in_use /\ s.children = <<>>
    /\ s.id # 0 /\ \A i \in Slots : t[i].id # s.id
    /\ u = [t EXCEPT ![f] = s]

LEMMA PutsIs ==
    ASSUME NEW t, TableOK(t), NEW u, NEW f, NEW s, Puts(t, u, f, s)
    PROVE  /\ u \in Tables /\ u[f] = s /\ f \in Slots
           /\ \A i \in Slots : i # f => u[i] = t[i]
           /\ \A i \in Slots : u[i].children = t[i].children
           /\ \A i \in Slots : ListedIn(u, i) <=> ListedIn(t, i)
           /\ ~ListedIn(t, f)
<1>1. t \in Tables /\ f \in Slots /\ s \in Slot
  BY DEF TableOK, Puts
<1>2. u \in Tables /\ u[f] = s /\ \A i \in Slots : i # f => u[i] = t[i]
  BY <1>1 DEF Puts, Tables
<1>3. t[f].children = <<>> /\ s.children = <<>>
  BY <1>1 DEF TableOK, SlotsSound, IsDir, Puts
<1>4. ASSUME NEW i \in Slots PROVE u[i].children = t[i].children
  BY <1>2, <1>3
<1>5. ~ListedIn(t, f)
  BY DEF TableOK, EntriesSound, ListedIn, Puts
<1>6. QED BY <1>1, <1>2, <1>4, <1>5 DEF ListedIn

LEMMA PutsOK ==
    ASSUME NEW t, TableOK(t), NEW u, NEW f, NEW s, Puts(t, u, f, s), ~s.is_dir \/ ~NoDirs(t)
    PROVE  /\ TableOK(u) /\ NoDirs(u) = NoDirs(t)
           /\ \A r \in Slots : IsRoot(t, r) => IsRoot(u, r) /\ r < f
<1>1. /\ u \in Tables /\ u[f] = s /\ f \in Slots /\ \A i \in Slots : i # f => u[i] = t[i]
      /\ \A i \in Slots : u[i].children = t[i].children
      /\ \A i \in Slots : ListedIn(u, i) <=> ListedIn(t, i)
      /\ ~ListedIn(t, f)
  BY PutsIs
<1>2. /\ t \in Tables /\ EntriesSound(t) /\ EntriesDistinct(t) /\ SlotsSound(t) /\ RootFirst(t)
      /\ ~t[f].in_use /\ s.in_use /\ s.children = <<>> /\ s.id # 0 /\ \A i \in Slots : t[i].id # s.id
  BY DEF TableOK, Puts
<1>3. EntriesSound(u)
  <2> SUFFICES ASSUME NEW d \in Slots, NEW k \in DOMAIN u[d].children
               PROVE  u[u[d].children[k].slot].in_use /\ u[u[d].children[k].slot].name = u[d].children[k].name
    BY DEF EntriesSound
  <2>1. PICK c : c = t[d].children[k].slot /\ c = u[d].children[k].slot /\ k \in DOMAIN t[d].children
    BY <1>1
  <2>2. t[c].in_use /\ t[c].name = t[d].children[k].name
    <3>1. EntriesSound(t) /\ k \in DOMAIN t[d].children
      BY <1>2, <2>1
    <3>2. t[t[d].children[k].slot].in_use /\ t[t[d].children[k].slot].name = t[d].children[k].name
      BY <3>1 DEF EntriesSound
    <3>3. QED BY <2>1, <3>2
  <2>3. c \in Slots
    <3>1. PICK l \in Seq(Child) : l = t[d].children
      BY <1>2 DEF Tables, Slot
    <3>2. l[k] \in Child
      BY <2>1, <3>1
    <3>3. QED BY <2>1, <3>1, <3>2 DEF Child
  <2>4. u[c] = t[c]
    BY <1>1, <1>2, <2>2, <2>3
  <2>5. QED BY <1>1, <2>1, <2>2, <2>4
<1>4. EntriesDistinct(u)
  BY <1>1, <1>2 DEF EntriesDistinct
<1>5. SlotsSound(u)
  <2>1. ASSUME NEW i \in Slots, ~IsDir(u, i) PROVE u[i].children = <<>>
    <3>1. CASE i = f
      BY <1>1, <1>2, <3>1
    <3>2. CASE i # f
      <4>1. ~IsDir(t, i)
        BY <1>1, <2>1, <3>2 DEF IsDir
      <4>2. QED BY <1>1, <1>2, <4>1 DEF SlotsSound
    <3>3. QED BY <3>1, <3>2
  <2>2. ASSUME NEW i \in Slots PROVE u[i].in_use <=> u[i].id # 0
    BY <1>1, <1>2 DEF SlotsSound
  <2>3. ASSUME NEW i \in Slots, NEW j \in Slots, u[i].in_use, u[j].in_use, u[i].id = u[j].id PROVE i = j
    BY <1>1, <1>2, <2>3 DEF SlotsSound
  <2>4. \A i \in Slots : u[i].is_dir => u[i].in_use
    BY <1>1, <1>2 DEF SlotsSound
  <2>5. QED BY <2>1, <2>2, <2>3, <2>4 DEF SlotsSound
<1>6. ASSUME NEW r \in Slots, IsRoot(t, r) PROVE IsRoot(u, r) /\ r < f
  <2>1. r < f
    <3>1. ~(f \in 1 .. r)
      BY <1>2, <1>6 DEF IsRoot
    <3>2. QED BY <1>1, <3>1, SlotNumber
  <2>2. ASSUME NEW i \in 1 .. r PROVE i \in Slots /\ u[i] = t[i]
    <3>1. i \in Slots /\ i # f
      BY <1>1, <2>1, SlotsBelow, SlotNumber
    <3>2. QED BY <1>1, <3>1
  <2>3. r \in 1 .. r /\ 1 .. r - 1 \subseteq 1 .. r
    BY SlotNumber
  <2>4. IsDir(u, r) /\ u[r].name = RootName
    BY <1>6, <2>2, <2>3 DEF IsRoot, IsDir
  <2>5. \A i \in 1 .. r : u[i].in_use /\ ~ListedIn(u, i)
    BY <1>1, <1>6, <2>2 DEF IsRoot
  <2>6. \A i \in 1 .. r - 1 : ~(IsDir(u, i) /\ u[i].name = RootName)
    BY <1>6, <2>2, <2>3 DEF IsRoot, IsDir
  <2>7. QED BY <2>1, <2>4, <2>5, <2>6 DEF IsRoot
<1>7. NoDirs(u) = NoDirs(t)
  <2>1. CASE NoDirs(t)
    <3>1. NoDirs(u)
      BY <1>1, <2>1 DEF NoDirs, IsDir
    <3>2. QED BY <2>1, <3>1 DEF NoDirs
  <2>2. CASE ~NoDirs(t)
    <3>1. PICK d \in Slots : IsDir(t, d)
      BY <2>2 DEF NoDirs
    <3>2. IsDir(u, d)
      BY <1>1, <1>2, <3>1 DEF IsDir
    <3>3. ~NoDirs(u)
      BY <3>2 DEF NoDirs
    <3>4. QED BY <2>2, <3>3 DEF NoDirs
  <2>3. QED BY <2>1, <2>2
<1>8. RootFirst(u)
  BY <1>2, <1>6, <1>7 DEF RootFirst
<1>9. QED BY <1>1, <1>3, <1>4, <1>5, <1>6, <1>7, <1>8 DEF TableOK

(* The first directory is the root. *)
LEMMA RootOK ==
    ASSUME NEW t, TableOK(t), NoDirs(t), NEW u, NEW f, NEW s, Puts(t, u, f, s), s.is_dir, s.name = RootName,
           \A i \in Slots : i < f => t[i].in_use
    PROVE  TableOK(u) /\ IsRoot(u, f) /\ f \in Slots
<1>1. /\ u \in Tables /\ u[f] = s /\ f \in Slots /\ \A i \in Slots : i # f => u[i] = t[i]
      /\ \A i \in Slots : u[i].children = t[i].children
      /\ \A i \in Slots : ListedIn(u, i) <=> ListedIn(t, i)
  BY PutsIs
<1>2. /\ t \in Tables /\ SlotsSound(t)
      /\ ~t[f].in_use /\ s.in_use /\ s.children = <<>> /\ s.id # 0 /\ \A i \in Slots : t[i].id # s.id
  BY DEF TableOK, Puts
<1>3. \A i \in Slots : u[i].children = <<>>
  BY <1>1, <1>2 DEF SlotsSound, NoDirs
<1>4. \A i \in Slots : DOMAIN u[i].children = {} /\ ~ListedIn(u, i)
  BY <1>3 DEF ListedIn
<1>5. EntriesSound(u) /\ EntriesDistinct(u)
  BY <1>4 DEF EntriesSound, EntriesDistinct
<1>6. SlotsSound(u)
  <2>1. ASSUME NEW i \in Slots PROVE u[i].in_use <=> u[i].id # 0
    BY <1>1, <1>2 DEF SlotsSound
  <2>2. ASSUME NEW i \in Slots, NEW j \in Slots, u[i].in_use, u[j].in_use, u[i].id = u[j].id PROVE i = j
    BY <1>1, <1>2, <2>2 DEF SlotsSound
  <2>3. \A i \in Slots : u[i].is_dir => u[i].in_use
    BY <1>1, <1>2 DEF SlotsSound
  <2>4. QED BY <1>3, <2>1, <2>2, <2>3 DEF SlotsSound
<1>7. IsRoot(u, f)
  <2>1. \A i \in 1 .. f : i \in Slots /\ u[i].in_use
    <3>1. ASSUME NEW i \in 1 .. f PROVE i \in Slots /\ (i = f \/ i < f)
      BY <1>1, SlotsBelow
    <3>2. QED BY <1>1, <1>2, <3>1
  <2>2. ASSUME NEW i \in 1 .. f - 1 PROVE i \in Slots /\ i # f
    <3>1. i \in 1 .. f /\ i # f
      BY <1>1, SlotNumber
    <3>2. QED BY <1>1, <3>1, SlotsBelow
  <2>3. \A i \in 1 .. f - 1 : ~IsDir(u, i)
    BY <1>1, <2>2 DEF NoDirs, IsDir
  <2>4. QED BY <1>1, <1>2, <1>4, <2>1, <2>3 DEF IsRoot, IsDir
<1>8. QED BY <1>1, <1>5, <1>6, <1>7 DEF TableOK, RootFirst

(* Two fields that are changed by themselves. *)
SetsChildren(t, u, d, m) == u = [t EXCEPT ![d].children = m]
SetsData(t, u, d, m) == u = [t EXCEPT ![d].data = m]

LEMMA ChildrenSet ==
    ASSUME NEW t \in Tables, NEW d \in Slots, NEW m \in Seq(Child), NEW u, SetsChildren(t, u, d, m)
    PROVE  /\ u \in Tables /\ u[d].children = m
           /\ \A i \in Slots : i # d => u[i] = t[i]
           /\ \A i \in Slots : /\ u[i].name = t[i].name /\ u[i].in_use = t[i].in_use
                               /\ u[i].is_dir = t[i].is_dir /\ u[i].id = t[i].id
<1>1. PICK s \in Slot : s = t[d]
  BY DEF Tables
<1>2. PICK x : x = [s EXCEPT !.children = m]
  OBVIOUS
<1>3. x \in Slot /\ x.children = m /\ x.name = s.name /\ x.in_use = s.in_use /\ x.is_dir = s.is_dir /\ x.id = s.id
  BY <1>2 DEF Slot
<1>4. u = [t EXCEPT ![d] = x]
  BY <1>1, <1>2 DEF SetsChildren
<1>5. u \in Tables /\ u[d] = x /\ \A i \in Slots : i # d => u[i] = t[i]
  BY <1>3, <1>4 DEF Tables
<1>6. QED BY <1>1, <1>3, <1>5

LEMMA DataSet ==
    ASSUME NEW t \in Tables, NEW d \in Slots, NEW m \in Content, NEW u, SetsData(t, u, d, m)
    PROVE  /\ u \in Tables
           /\ \A i \in Slots : /\ u[i].name = t[i].name /\ u[i].in_use = t[i].in_use
                               /\ u[i].is_dir = t[i].is_dir /\ u[i].id = t[i].id /\ u[i].children = t[i].children
<1>1. PICK s \in Slot : s = t[d]
  BY DEF Tables
<1>2. PICK x : x = [s EXCEPT !.data = m]
  OBVIOUS
<1>3. x \in Slot /\ x.children = s.children /\ x.name = s.name /\ x.in_use = s.in_use /\ x.is_dir = s.is_dir /\ x.id = s.id
  BY <1>2 DEF Slot
<1>4. u = [t EXCEPT ![d] = x]
  BY <1>1, <1>2 DEF SetsData
<1>5. u \in Tables /\ u[d] = x /\ \A i \in Slots : i # d => u[i] = t[i]
  BY <1>3, <1>4 DEF Tables
<1>6. QED BY <1>1, <1>3, <1>5

(* A directory lists one more slot. *)
Links(t, u, d, c) ==
    /\ d \in Slots /\ IsDir(t, d) /\ c \in Slots /\ t[c].in_use /\ ~ListedIn(t, c)
    /\ \A k \in DOMAIN t[d].children : t[d].children[k].name # t[c].name
    /\ \A r \in Slots : IsRoot(t, r) => r < c
    /\ u = AddChild(t, d, c)

LEMMA LinksIs ==
    ASSUME NEW t, TableOK(t), NEW u, NEW d, NEW c, Links(t, u, d, c)
    PROVE  /\ u \in Tables /\ d \in Slots /\ c \in Slots
           /\ \A i \in Slots : i # d => u[i] = t[i]
           /\ \A i \in Slots : /\ u[i].name = t[i].name /\ u[i].in_use = t[i].in_use
                               /\ u[i].is_dir = t[i].is_dir /\ u[i].id = t[i].id
           /\ \E L \in Nat : /\ DOMAIN t[d].children = 1 .. L /\ DOMAIN u[d].children = 1 .. L + 1
                             /\ \A k \in 1 .. L : u[d].children[k] = t[d].children[k]
                             /\ u[d].children[L + 1].slot = c /\ u[d].children[L + 1].name = t[c].name
           /\ \A i \in Slots : ListedIn(u, i) <=> ListedIn(t, i) \/ i = c
<1>1. t \in Tables /\ d \in Slots /\ c \in Slots /\ u = AddChild(t, d, c)
  BY DEF TableOK, Links
<1>2. PICK x \in Child, l \in Seq(Child) : x = [name |-> t[c].name, slot |-> c] /\ l = t[d].children
  BY <1>1 DEF Tables, Slot, Child
<1>3. PICK m \in Seq(Child) : /\ m = Append(l, x) /\ DOMAIN l = 1 .. Len(l) /\ DOMAIN m = 1 .. Len(l) + 1
                              /\ (\A k \in 1 .. Len(l) : m[k] = l[k]) /\ m[Len(l) + 1] = x
  <2>1. PICK m : m = Append(l, x)
    OBVIOUS
  <2>2. /\ m \in Seq(Child) /\ Len(m) = Len(l) + 1 /\ m[Len(l) + 1] = x
        /\ \A k \in 1 .. Len(l) : m[k] = l[k]
    BY <2>1, AppendProperties
  <2>3. DOMAIN m = 1 .. Len(m) /\ DOMAIN l = 1 .. Len(l)
    BY <2>2
  <2>4. QED BY <2>1, <2>2, <2>3
<1>4. SetsChildren(t, u, d, m)
  BY <1>1, <1>2, <1>3 DEF AddChild, SetsChildren
<1>5. /\ u \in Tables /\ u[d].children = m
      /\ \A i \in Slots : i # d => u[i] = t[i]
      /\ \A i \in Slots : /\ u[i].name = t[i].name /\ u[i].in_use = t[i].in_use
                          /\ u[i].is_dir = t[i].is_dir /\ u[i].id = t[i].id
  BY <1>1, <1>4, ChildrenSet
<1>6. PICK L \in Nat : L = Len(l)
  OBVIOUS
<1>7. /\ DOMAIN t[d].children = 1 .. L /\ DOMAIN u[d].children = 1 .. L + 1
      /\ \A k \in 1 .. L : u[d].children[k] = t[d].children[k]
      /\ u[d].children[L + 1].slot = c /\ u[d].children[L + 1].name = t[c].name
  BY <1>2, <1>3, <1>5, <1>6
<1>8. ASSUME NEW i \in Slots PROVE ListedIn(u, i) <=> ListedIn(t, i) \/ i = c
  <2>1. ASSUME ListedIn(u, i) PROVE ListedIn(t, i) \/ i = c
    <3>1. PICK e, k : e \in Slots /\ k \in DOMAIN u[e].children /\ u[e].children[k].slot = i
      BY <2>1 DEF ListedIn
    <3>2. CASE e # d
      BY <1>5, <3>1, <3>2 DEF ListedIn
    <3>3. CASE e = d /\ k \in 1 .. L
      BY <1>7, <3>1, <3>3 DEF ListedIn
    <3>4. CASE e = d /\ k \notin 1 .. L
      <4>1. k = L + 1
        BY <1>7, <3>1, <3>4
      <4>2. QED BY <1>7, <3>1, <3>4, <4>1
    <3>5. QED BY <3>2, <3>3, <3>4
  <2>2. ASSUME ListedIn(t, i) PROVE ListedIn(u, i)
    <3>1. PICK e, k : e \in Slots /\ k \in DOMAIN t[e].children /\ t[e].children[k].slot = i
      BY <2>2 DEF ListedIn
    <3>2. CASE e # d
      BY <1>5, <3>1, <3>2 DEF ListedIn
    <3>3. CASE e = d
      <4>1. k \in 1 .. L + 1
        BY <1>7, <3>1, <3>3
      <4>2. QED BY <1>1, <1>7, <3>1, <3>3, <4>1 DEF ListedIn
    <3>4. QED BY <3>2, <3>3
  <2>3. ASSUME i = c PROVE ListedIn(u, i)
    <3>1. L + 1 \in DOMAIN u[d].children /\ u[d].children[L + 1].slot = i
      BY <1>7, <2>3
    <3>2. QED BY <1>1, <3>1 DEF ListedIn
  <2>4. QED BY <2>1, <2>2, <2>3
<1>9. QED BY <1>1, <1>5, <1>7, <1>8

LEMMA LinksOK ==
    ASSUME NEW t, TableOK(t), NEW u, NEW d, NEW c, Links(t, u, d, c)
    PROVE  TableOK(u) /\ \A r \in Slots : IsRoot(t, r) => IsRoot(u, r)
<1>1. /\ u \in Tables /\ d \in Slots /\ c \in Slots
      /\ \A i \in Slots : i # d => u[i] = t[i]
      /\ \A i \in Slots : /\ u[i].name = t[i].name /\ u[i].in_use = t[i].in_use
                          /\ u[i].is_dir = t[i].is_dir /\ u[i].id = t[i].id
      /\ \A i \in Slots : ListedIn(u, i) <=> ListedIn(t, i) \/ i = c
  BY LinksIs
<1>2. PICK L \in Nat : /\ DOMAIN t[d].children = 1 .. L /\ DOMAIN u[d].children = 1 .. L + 1
                       /\ \A k \in 1 .. L : u[d].children[k] = t[d].children[k]
                       /\ u[d].children[L + 1].slot = c /\ u[d].children[L + 1].name = t[c].name
  BY LinksIs
<1>3. /\ t \in Tables /\ EntriesSound(t) /\ EntriesDistinct(t) /\ SlotsSound(t) /\ RootFirst(t)
      /\ IsDir(t, d) /\ t[c].in_use /\ ~ListedIn(t, c)
      /\ \A k \in DOMAIN t[d].children : t[d].children[k].name # t[c].name
      /\ \A r \in Slots : IsRoot(t, r) => r < c
  BY DEF TableOK, Links
<1>4. ASSUME NEW e \in Slots, NEW k \in DOMAIN u[e].children
      PROVE  \/ k \in DOMAIN t[e].children /\ u[e].children[k] = t[e].children[k]
             \/ e = d /\ k = L + 1 /\ u[e].children[k].slot = c /\ u[e].children[k].name = t[c].name
  <2>1. CASE e # d
    BY <1>1, <2>1
  <2>2. CASE e = d /\ k \in 1 .. L
    BY <1>2, <2>2
  <2>3. CASE e = d /\ k \notin 1 .. L
    <3>1. k = L + 1
      BY <1>2, <2>3
    <3>2. QED BY <1>2, <2>3, <3>1
  <2>4. QED BY <2>1, <2>2, <2>3
<1>5. EntriesSound(u)
  <2> SUFFICES ASSUME NEW e \in Slots, NEW k \in DOMAIN u[e].children
               PROVE  u[u[e].children[k].slot].in_use /\ u[u[e].children[k].slot].name = u[e].children[k].name
    BY DEF EntriesSound
  <2>1. PICK x : x = u[e].children[k].slot
    OBVIOUS
  <2>2. x \in Slots /\ t[x].in_use /\ t[x].name = u[e].children[k].name
    <3>1. CASE k \in DOMAIN t[e].children /\ u[e].children[k] = t[e].children[k]
      <4>1. t[x].in_use /\ t[x].name = t[e].children[k].name
        BY <1>3, <2>1, <3>1 DEF EntriesSound
      <4>2. x \in Slots
        <5>1. PICK l \in Seq(Child) : l = t[e].children
          BY <1>3 DEF Tables, Slot
        <5>2. l[k] \in Child
          BY <3>1, <5>1
        <5>3. QED BY <2>1, <3>1, <5>1, <5>2 DEF Child
      <4>3. QED BY <3>1, <4>1, <4>2
    <3>2. QED BY <1>1, <1>3, <1>4, <2>1, <3>1
  <2>3. QED BY <1>1, <2>1, <2>2
<1>6. EntriesDistinct(u)
  <2> SUFFICES ASSUME NEW a \in Slots, NEW b \in Slots, NEW k \in DOMAIN u[a].children, NEW l \in DOMAIN u[b].children,
                      a # b \/ k # l
               PROVE  /\ u[a].children[k].slot # u[b].children[l].slot
                      /\ a = b => u[a].children[k].name # u[b].children[l].name
    BY DEF EntriesDistinct
  <2>1. ASSUME NEW x \in Slots, NEW m \in DOMAIN t[x].children PROVE t[x].children[m].slot # c
    BY <1>3 DEF ListedIn
  <2>2. CASE k \in DOMAIN t[a].children /\ u[a].children[k] = t[a].children[k]
    <3>1. CASE l \in DOMAIN t[b].children /\ u[b].children[l] = t[b].children[l]
      BY <1>3, <2>2, <3>1 DEF EntriesDistinct
    <3>2. CASE b = d /\ l = L + 1 /\ u[b].children[l].slot = c /\ u[b].children[l].name = t[c].name
      BY <1>3, <2>1, <2>2, <3>2
    <3>3. QED BY <1>4, <3>1, <3>2
  <2>3. CASE a = d /\ k = L + 1 /\ u[a].children[k].slot = c /\ u[a].children[k].name = t[c].name
    <3>1. CASE l \in DOMAIN t[b].children /\ u[b].children[l] = t[b].children[l]
      BY <1>3, <2>1, <2>3, <3>1
    <3>2. CASE b = d /\ l = L + 1 /\ u[b].children[l].slot = c /\ u[b].children[l].name = t[c].name
      BY <2>3, <3>2
    <3>3. QED BY <1>4, <3>1, <3>2
  <2>4. QED BY <1>4, <2>2, <2>3
<1>7. SlotsSound(u)
  <2>1. ASSUME NEW i \in Slots, ~IsDir(u, i) PROVE u[i].children = <<>>
    <3>1. ~IsDir(t, i)
      BY <1>1, <2>1 DEF IsDir
    <3>2. i # d /\ t[i].children = <<>>
      BY <1>3, <3>1 DEF SlotsSound
    <3>3. QED BY <1>1, <3>2
  <2>2. QED BY <1>1, <1>3, <2>1 DEF SlotsSound
<1>8. ASSUME NEW r \in Slots, IsRoot(t, r) PROVE IsRoot(u, r)
  <2>1. ASSUME NEW i \in 1 .. r PROVE i \in Slots /\ i # c
    BY <1>3, <1>8, SlotsBelow, SlotNumber
  <2>2. 1 .. r - 1 \subseteq 1 .. r
    BY SlotNumber
  <2>3. QED BY <1>1, <1>8, <2>1, <2>2 DEF IsRoot, IsDir
<1>9. RootFirst(u)
  <2>1. ~NoDirs(t)
    BY <1>1, <1>3 DEF NoDirs
  <2>2. QED BY <1>3, <1>8, <2>1 DEF RootFirst
<1>10. QED BY <1>1, <1>5, <1>6, <1>7, <1>8, <1>9 DEF TableOK

(* A table with the same tree is as sound. *)
SameTree(t, u) ==
    \A i \in Slots : /\ u[i].name = t[i].name /\ u[i].in_use = t[i].in_use /\ u[i].is_dir = t[i].is_dir
                     /\ u[i].id = t[i].id /\ u[i].children = t[i].children

LEMMA SameTreeOK ==
    ASSUME NEW t, TableOK(t), NEW u \in Tables, SameTree(t, u)
    PROVE  TableOK(u) /\ (\A r \in Slots : IsRoot(t, r) => IsRoot(u, r)) /\ \A i \in Slots : ListedIn(u, i) <=> ListedIn(t, i)
<1>1. /\ t \in Tables /\ EntriesSound(t) /\ EntriesDistinct(t) /\ SlotsSound(t) /\ RootFirst(t)
  BY DEF TableOK
<1>2. \A i \in Slots : (ListedIn(u, i) <=> ListedIn(t, i)) /\ (IsDir(u, i) <=> IsDir(t, i))
  BY DEF ListedIn, IsDir, SameTree
<1>3. EntriesSound(u)
  <2> SUFFICES ASSUME NEW d \in Slots, NEW k \in DOMAIN u[d].children
               PROVE  u[u[d].children[k].slot].in_use /\ u[u[d].children[k].slot].name = u[d].children[k].name
    BY DEF EntriesSound
  <2>1. PICK c : c = t[d].children[k].slot /\ c = u[d].children[k].slot /\ k \in DOMAIN t[d].children
    BY DEF SameTree
  <2>2. t[c].in_use /\ t[c].name = t[d].children[k].name
    BY <1>1, <2>1 DEF EntriesSound
  <2>3. c \in Slots
    <3>1. PICK l \in Seq(Child) : l = t[d].children
      BY <1>1 DEF Tables, Slot
    <3>2. l[k] \in Child
      BY <2>1, <3>1
    <3>3. QED BY <2>1, <3>1, <3>2 DEF Child
  <2>4. QED BY <2>1, <2>2, <2>3 DEF SameTree
<1>4. EntriesDistinct(u)
  BY <1>1 DEF EntriesDistinct, SameTree
<1>5. SlotsSound(u)
  BY <1>1, <1>2 DEF SlotsSound, SameTree
<1>6. ASSUME NEW r \in Slots, IsRoot(t, r) PROVE IsRoot(u, r)
  <2>1. ASSUME NEW i \in 1 .. r PROVE i \in Slots
    BY SlotsBelow
  <2>2. 1 .. r - 1 \subseteq 1 .. r
    BY SlotNumber
  <2>3. QED BY <1>2, <1>6, <2>1, <2>2 DEF IsRoot, SameTree
<1>7. RootFirst(u)
  BY <1>1, <1>2, <1>6 DEF RootFirst, NoDirs
<1>8. QED BY <1>2, <1>3, <1>4, <1>5, <1>6, <1>7 DEF TableOK

(* A listed slot is cleared and its entry taken out. *)
Clears(t, u, d, c) ==
    /\ d \in Slots /\ c \in Slots /\ IsDir(t, d)
    /\ \E k \in DOMAIN t[d].children : t[d].children[k].slot = c
    /\ u = clear_slot(DropChild(t, d, c), c)

LEMMA ClearsIs ==
    ASSUME NEW t, TableOK(t), NEW u, NEW d, NEW c, Clears(t, u, d, c)
    PROVE  /\ u \in Tables /\ c \in Slots /\ d \in Slots /\ u[c] = Unused
           /\ \A i \in Slots : i # c /\ i # d => u[i] = t[i]
           /\ \A i \in Slots : i # c => /\ u[i].name = t[i].name /\ u[i].in_use = t[i].in_use
                                        /\ u[i].is_dir = t[i].is_dir /\ u[i].id = t[i].id
           /\ d # c => Survives(t[d].children, c, u[d].children)
           /\ t[c].in_use /\ ListedIn(t, c)
<1>1. t \in Tables /\ d \in Slots /\ c \in Slots /\ u = clear_slot(DropChild(t, d, c), c)
  BY DEF TableOK, Clears
<1>2. PICK l \in Seq(Child) : l = t[d].children
  BY <1>1 DEF Tables, Slot
<1>3. PICK m \in Seq(Child) : m = Retained(l, c) /\ Survives(l, c, m)
  <2>1. PICK m : m = Retained(l, c)
    OBVIOUS
  <2>2. Survives(l, c, m)
    BY <2>1, RetainedKeeps
  <2>3. QED BY <2>1, <2>2 DEF Survives
<1>4. PICK v : v = DropChild(t, d, c) /\ SetsChildren(t, v, d, m)
  BY <1>2, <1>3 DEF DropChild, SetsChildren
<1>5. /\ v \in Tables /\ v[d].children = m
      /\ \A i \in Slots : i # d => v[i] = t[i]
      /\ \A i \in Slots : /\ v[i].name = t[i].name /\ v[i].in_use = t[i].in_use
                          /\ v[i].is_dir = t[i].is_dir /\ v[i].id = t[i].id
  BY <1>1, <1>4, ChildrenSet
<1>6. Unused \in Slot
  BY UnusedType
<1>7. u = [v EXCEPT ![c] = Unused]
  BY <1>1, <1>4 DEF clear_slot
<1>8. u \in Tables /\ u[c] = Unused /\ \A i \in Slots : i # c => u[i] = v[i]
  BY <1>1, <1>5, <1>6, <1>7 DEF Tables
<1>9. t[c].in_use /\ ListedIn(t, c)
  BY <1>1 DEF TableOK, EntriesSound, Clears, ListedIn
<1>10. QED BY <1>1, <1>2, <1>3, <1>5, <1>8, <1>9

(* The entries after a clear are entries before it. *)
LEMMA ClearsEntries ==
    ASSUME NEW t, TableOK(t), NEW u, NEW d, NEW c, Clears(t, u, d, c)
    PROVE  \A e \in Slots : \E g \in [DOMAIN u[e].children -> DOMAIN t[e].children] :
              /\ \A k \in DOMAIN u[e].children : u[e].children[k] = t[e].children[g[k]] /\ u[e].children[k].slot # c
              /\ \A k, l \in DOMAIN u[e].children : g[k] = g[l] => k = l
<1>1. /\ u \in Tables /\ c \in Slots /\ d \in Slots /\ u[c] = Unused
      /\ \A i \in Slots : i # c /\ i # d => u[i] = t[i]
      /\ d # c => Survives(t[d].children, c, u[d].children)
  BY ClearsIs
<1>2. EntriesDistinct(t)
  BY DEF TableOK
<1> SUFFICES ASSUME NEW e \in Slots
             PROVE  \E g \in [DOMAIN u[e].children -> DOMAIN t[e].children] :
                      /\ \A k \in DOMAIN u[e].children : u[e].children[k] = t[e].children[g[k]] /\ u[e].children[k].slot # c
                      /\ \A k, l \in DOMAIN u[e].children : g[k] = g[l] => k = l
  OBVIOUS
<1>3. CASE e = c
  <2>1. PICK l : l = u[e].children /\ l = <<>> /\ DOMAIN l = {}
    BY <1>1, <1>3, UnusedType
  <2>2. PICK g : g = [k \in {} |-> k]
    OBVIOUS
  <2>3. g \in [DOMAIN u[e].children -> DOMAIN t[e].children]
    BY <2>1, <2>2
  <2>4. QED BY <2>1, <2>3
<1>4. CASE e # c /\ e # d
  <2>1. PICK l : l = t[e].children /\ l = u[e].children
    BY <1>1, <1>4
  <2>2. PICK g : g = [k \in DOMAIN l |-> k]
    OBVIOUS
  <2>3. \A k \in DOMAIN l : l[k].slot # c
    <3>1. PICK m \in DOMAIN t[d].children : t[d].children[m].slot = c
      BY DEF Clears
    <3>2. QED BY <1>1, <1>2, <1>4, <2>1, <3>1 DEF EntriesDistinct
  <2>4. g \in [DOMAIN l -> DOMAIN l]
    BY <2>2
  <2>5. QED BY <2>1, <2>2, <2>3, <2>4
<1>5. CASE e # c /\ e = d
  BY <1>1, <1>5 DEF Survives
<1>6. QED BY <1>3, <1>4, <1>5

LEMMA ClearsOK ==
    ASSUME NEW t, TableOK(t), NEW u, NEW d, NEW c, Clears(t, u, d, c)
    PROVE  TableOK(u) /\ (\A r \in Slots : IsRoot(t, r) => IsRoot(u, r) /\ r < c)
           /\ \A i \in Slots : ListedIn(u, i) => ListedIn(t, i)
<1>1. /\ u \in Tables /\ c \in Slots /\ d \in Slots /\ u[c] = Unused
      /\ \A i \in Slots : i # c /\ i # d => u[i] = t[i]
      /\ \A i \in Slots : i # c => /\ u[i].name = t[i].name /\ u[i].in_use = t[i].in_use
                                   /\ u[i].is_dir = t[i].is_dir /\ u[i].id = t[i].id
      /\ t[c].in_use /\ ListedIn(t, c)
  BY ClearsIs
<1>2. /\ t \in Tables /\ EntriesSound(t) /\ EntriesDistinct(t) /\ SlotsSound(t) /\ RootFirst(t) /\ IsDir(t, d)
  BY DEF TableOK, Clears
<1>3. ASSUME NEW e \in Slots
      PROVE \E g \in [DOMAIN u[e].children -> DOMAIN t[e].children] :
              /\ \A k \in DOMAIN u[e].children : u[e].children[k] = t[e].children[g[k]] /\ u[e].children[k].slot # c
              /\ \A k, l \in DOMAIN u[e].children : g[k] = g[l] => k = l
  BY ClearsEntries
<1>4. EntriesSound(u)
  <2> SUFFICES ASSUME NEW e \in Slots, NEW k \in DOMAIN u[e].children
               PROVE  u[u[e].children[k].slot].in_use /\ u[u[e].children[k].slot].name = u[e].children[k].name
    BY DEF EntriesSound
  <2>1. PICK m \in DOMAIN t[e].children : u[e].children[k] = t[e].children[m] /\ u[e].children[k].slot # c
    BY <1>3
  <2>2. PICK x : x = t[e].children[m].slot /\ x = u[e].children[k].slot /\ x # c
    BY <2>1
  <2>3. t[x].in_use /\ t[x].name = u[e].children[k].name
    BY <1>2, <2>1, <2>2 DEF EntriesSound
  <2>4. x \in Slots
    <3>1. PICK l \in Seq(Child) : l = t[e].children
      BY <1>2 DEF Tables, Slot
    <3>2. l[m] \in Child
      BY <2>1, <3>1
    <3>3. QED BY <2>1, <2>2, <3>1, <3>2 DEF Child
  <2>5. QED BY <1>1, <2>2, <2>3, <2>4
<1>5. EntriesDistinct(u)
  <2> SUFFICES ASSUME NEW a \in Slots, NEW b \in Slots, NEW k \in DOMAIN u[a].children, NEW l \in DOMAIN u[b].children,
                      a # b \/ k # l
               PROVE  /\ u[a].children[k].slot # u[b].children[l].slot
                      /\ a = b => u[a].children[k].name # u[b].children[l].name
    BY DEF EntriesDistinct
  <2>1. PICK m \in DOMAIN t[a].children, n \in DOMAIN t[b].children :
            u[a].children[k] = t[a].children[m] /\ u[b].children[l] = t[b].children[n] /\ (a # b \/ m # n)
    <3>1. CASE a # b
      <4>1. PICK m \in DOMAIN t[a].children : u[a].children[k] = t[a].children[m]
        BY <1>3
      <4>2. PICK n \in DOMAIN t[b].children : u[b].children[l] = t[b].children[n]
        BY <1>3
      <4>3. QED BY <3>1, <4>1, <4>2
    <3>2. CASE a = b
      <4>1. PICK g \in [DOMAIN u[a].children -> DOMAIN t[a].children] :
              /\ \A x \in DOMAIN u[a].children : u[a].children[x] = t[a].children[g[x]]
              /\ \A x, y \in DOMAIN u[a].children : g[x] = g[y] => x = y
        BY <1>3
      <4>2. l \in DOMAIN u[a].children /\ g[k] # g[l]
        BY <3>2, <4>1
      <4>3. QED BY <3>2, <4>1, <4>2
    <3>3. QED BY <3>1, <3>2
  <2>2. QED BY <1>2, <2>1 DEF EntriesDistinct
<1>6. SlotsSound(u)
  <2>1. ASSUME NEW i \in Slots, ~IsDir(u, i) PROVE u[i].children = <<>>
    <3>1. CASE i = c
      BY <1>1, <3>1, UnusedType
    <3>2. CASE i # c
      <4>1. ~IsDir(t, i)
        BY <1>1, <2>1, <3>2 DEF IsDir
      <4>2. i # d
        BY <1>2, <4>1
      <4>3. QED BY <1>1, <1>2, <3>2, <4>1, <4>2 DEF SlotsSound
    <3>3. QED BY <3>1, <3>2
  <2>2. u[c].in_use = FALSE /\ u[c].id = 0 /\ u[c].is_dir = FALSE
    BY <1>1, UnusedType
  <2>3. QED BY <1>1, <1>2, <2>1, <2>2 DEF SlotsSound
<1>7. ASSUME NEW i \in Slots, ListedIn(u, i) PROVE ListedIn(t, i)
  <2>1. PICK e, k : e \in Slots /\ k \in DOMAIN u[e].children /\ u[e].children[k].slot = i
    BY <1>7 DEF ListedIn
  <2>2. PICK m \in DOMAIN t[e].children : u[e].children[k] = t[e].children[m]
    BY <1>3, <2>1
  <2>3. QED BY <2>1, <2>2 DEF ListedIn
<1>8. ASSUME NEW r \in Slots, IsRoot(t, r) PROVE IsRoot(u, r) /\ r < c
  <2>1. ~(c \in 1 .. r)
    BY <1>1, <1>8 DEF IsRoot
  <2>2. r < c
    BY <1>1, <2>1, SlotNumber
  <2>3. ASSUME NEW i \in 1 .. r PROVE i \in Slots /\ i # c
    BY <2>1, SlotsBelow
  <2>4. r \in 1 .. r /\ 1 .. r - 1 \subseteq 1 .. r
    BY SlotNumber
  <2>5. QED BY <1>1, <1>7, <1>8, <2>2, <2>3, <2>4 DEF IsRoot, IsDir
<1>9. RootFirst(u)
  <2>1. ~NoDirs(t)
    BY <1>1, <1>2 DEF NoDirs
  <2>2. QED BY <1>2, <1>8, <2>1 DEF RootFirst
<1>10. QED BY <1>1, <1>4, <1>5, <1>6, <1>7, <1>8, <1>9 DEF TableOK

(* -------------------------------------------- a table in the middle of a call *)

Explains(t, E) == \A i \in Slots : t[i].in_use /\ t[i].name # RootName => ListedIn(t, i) \/ t[i].id \in E

\* What holds of the table between calls.
Settled == /\ TableOK(table) /\ born \in Nat /\ Explains(table, early \cup orphans)
           /\ \A i \in Slots : table[i].id <= born

\* The slot was filled in this call, before the root had one.
NewEarly(t, i) ==
    /\ t[i].id \notin Ids(table) /\ get_root_dir_idx(table) = 0
    /\ \A j \in Slots : t[j].is_dir /\ t[j].name = RootName => t[j].id > t[i].id

\* The directory that listed the slot was cleared in this call.
NewOrphan(t, i) ==
    \E j \in Slots : /\ table[j].id \in Ids(table) \ Ids(t)
                     /\ \E c \in Listed(table, j) : table[c.slot].id = t[i].id

\* A table that this call has only added to, n slots so far.
Grow(t, n) ==
    /\ n \in Nat /\ TableOK(t)
    /\ Ids(t) = Ids(table) \cup (Id .. Id + n - 1)
    /\ \A i \in Slots : table[i].in_use => t[i].id = table[i].id
    /\ \A i \in Slots : i # get_root_dir_idx(t) /\ t[i].children # <<>> => t[i].children = table[i].children
    /\ get_root_dir_idx(t) = 0 => get_root_dir_idx(table) = 0
    /\ \A i \in Slots : t[i].in_use /\ t[i].name # RootName =>
          ListedIn(t, i) \/ t[i].id \in early \cup orphans \/ NewEarly(t, i)

\* A table that a call may end with.
Done(t) ==
    /\ TableOK(t)
    /\ \E n \in Nat : Ids(t) \ Ids(table) = Id .. Id + n - 1
    /\ \A i \in Slots : table[i].in_use => t[i].id = table[i].id \/ table[i].id \notin Ids(t)
    /\ \A i \in Slots : t[i].in_use /\ t[i].name # RootName =>
          ListedIn(t, i) \/ t[i].id \in early \cup orphans \/ NewEarly(t, i) \/ NewOrphan(t, i)

LEMMA IdsAre ==
    ASSUME NEW t
    PROVE  /\ \A i \in Slots : t[i].in_use => t[i].id \in Ids(t)
           /\ \A x \in Ids(t) : \E i \in Slots : t[i].in_use /\ t[i].id = x
  BY DEF Ids

(* The ids between calls are 1 .. born, and a growing table's are below the next. *)
LEMMA IdBounds ==
    ASSUME Settled
    PROVE  /\ Ids(table) \subseteq 1 .. born /\ Id \in Nat /\ Id = born + 1
           /\ \A t, n : Grow(t, n) => \A i \in Slots : t[i].id \in Nat /\ t[i].id < Id + n
<1>1. born \in Nat /\ Id = born + 1 /\ table \in Tables /\ SlotsSound(table) /\ \A i \in Slots : table[i].id <= born
  BY DEF Settled, Id, TableOK
<1>2. ASSUME NEW x \in Ids(table) PROVE x \in 1 .. born
  <2>1. PICK i \in Slots : table[i].in_use /\ table[i].id = x
    BY IdsAre
  <2>2. table[i].id \in Nat /\ table[i].id # 0
    BY <1>1, <2>1 DEF Tables, Slot, SlotsSound
  <2>3. QED BY <1>1, <2>1, <2>2
<1>3. ASSUME NEW t, NEW n, Grow(t, n), NEW i \in Slots PROVE t[i].id \in Nat /\ t[i].id < Id + n
  <2>1. n \in Nat /\ t \in Tables /\ SlotsSound(t) /\ Ids(t) = Ids(table) \cup (Id .. Id + n - 1)
    BY <1>3 DEF Grow, TableOK
  <2>2. t[i].id \in Nat
    BY <2>1 DEF Tables, Slot
  <2>3. CASE t[i].in_use
    <3>1. t[i].id \in Ids(table) \cup (Id .. Id + n - 1)
      BY <2>1, <2>3, IdsAre
    <3>2. QED BY <1>1, <1>2, <2>1, <2>2, <3>1
  <2>4. CASE ~t[i].in_use
    <3>1. t[i].id = 0
      BY <2>1, <2>4 DEF SlotsSound
    <3>2. QED BY <1>1, <2>1, <3>1
  <2>5. QED BY <2>3, <2>4
<1>4. QED BY <1>1, <1>2, <1>3

LEMMA GrowStart == ASSUME Settled PROVE Grow(table, 0)
<1>1. Id .. Id + 0 - 1 = {}
  BY IdBounds
<1>2. QED BY <1>1 DEF Settled, Grow, Explains

LEMMA GrowDone == ASSUME Settled, NEW t, NEW n, Grow(t, n) PROVE Done(t)
<1>1. /\ n \in Nat /\ TableOK(t) /\ Ids(t) = Ids(table) \cup (Id .. Id + n - 1)
      /\ \A i \in Slots : table[i].in_use => t[i].id = table[i].id
      /\ \A i \in Slots : t[i].in_use /\ t[i].name # RootName =>
            ListedIn(t, i) \/ t[i].id \in early \cup orphans \/ NewEarly(t, i)
  BY DEF Grow
<1>2. Ids(t) \ Ids(table) = Id .. Id + n - 1
  <2>1. \A x \in Id .. Id + n - 1 : x \notin Ids(table)
    BY <1>1, IdBounds DEF Settled
  <2>2. QED BY <1>1, <2>1
<1>3. QED BY <1>1, <1>2 DEF Done

(* The next id is the one after those made in this call. *)
LEMMA NextIdIs == ASSUME Settled, NEW t, NEW n \in {0, 1}, Grow(t, n) PROVE NextId(t) = Id + n
<1>1. Ids(t) = Ids(table) \cup (Id .. Id + n - 1)
  BY DEF Grow
<1>2. CASE n = 0
  <2>1. Id .. Id + n - 1 = {} /\ Id + n = Id
    BY <1>2, IdBounds
  <2>2. QED BY <1>1, <2>1 DEF NextId
<1>3. CASE n = 1
  <2>1. Id \in Id .. Id + n - 1 /\ Id \notin Ids(table)
    BY <1>3, IdBounds DEF Settled
  <2>2. QED BY <1>1, <1>3, <2>1 DEF NextId
<1>4. QED BY <1>2, <1>3

\* Slots that differ in what they hold or list.
SameSlots(t, u) ==
    \A i \in Slots : /\ u[i].name = t[i].name /\ u[i].in_use = t[i].in_use
                     /\ u[i].is_dir = t[i].is_dir /\ u[i].id = t[i].id

LEMMA SameSlotsKeep ==
    ASSUME NEW t, NEW u, SameSlots(t, u)
    PROVE  /\ Ids(u) = Ids(t) /\ get_root_dir_idx(u) = get_root_dir_idx(t)
           /\ \A i \in Slots : NewEarly(t, i) => NewEarly(u, i)
<1>1. Ids(u) = Ids(t)
  <2>1. \A i \in Slots : u[i].in_use = t[i].in_use /\ u[i].id = t[i].id
    BY DEF SameSlots
  <2>2. QED BY <2>1 DEF Ids
<1>2. get_root_dir_idx(u) = get_root_dir_idx(t)
  <2> DEFINE A == {i \in Slots : t[i].in_use /\ t[i].is_dir /\ t[i].name = RootName}
             B == {i \in Slots : u[i].in_use /\ u[i].is_dir /\ u[i].name = RootName}
  <2>1. A = B
    BY DEF SameSlots
  <2>2. QED BY <2>1 DEF get_root_dir_idx
<1>3. ASSUME NEW i \in Slots, NewEarly(t, i) PROVE NewEarly(u, i)
  BY <1>3 DEF SameSlots, NewEarly
<1>4. QED BY <1>1, <1>2, <1>3

LEMMA PutGrows ==
    ASSUME Settled, NEW t, NEW n, Grow(t, n), NEW u, NEW f, NEW s, Puts(t, u, f, s), s.id = Id + n
    PROVE  /\ Ids(u) = Ids(table) \cup (Id .. Id + (n + 1) - 1)
           /\ \A i \in Slots : table[i].in_use => u[i].id = table[i].id
           /\ \A i \in Slots : i # f /\ NewEarly(t, i) => NewEarly(u, i)
           /\ s.id \notin Ids(table) /\ n \in Nat
<1>1. /\ n \in Nat /\ TableOK(t) /\ Ids(t) = Ids(table) \cup (Id .. Id + n - 1)
      /\ \A i \in Slots : table[i].in_use => t[i].id = table[i].id
  BY DEF Grow
<1>2. u[f] = s /\ f \in Slots /\ \A i \in Slots : i # f => u[i] = t[i]
  BY <1>1, PutsIs
<1>3. ~t[f].in_use /\ s.in_use
  BY DEF Puts
<1>4. SlotsSound(t) /\ SlotsSound(table)
  BY <1>1 DEF TableOK, Settled
<1>5. Ids(u) = Ids(t) \cup {s.id}
  <2>1. ASSUME NEW x \in Ids(u) PROVE x \in Ids(t) \cup {s.id}
    <3>1. PICK i \in Slots : u[i].in_use /\ u[i].id = x
      BY IdsAre
    <3>2. CASE i = f
      BY <1>2, <3>1, <3>2
    <3>3. CASE i # f
      BY <1>2, <3>1, <3>3, IdsAre
    <3>4. QED BY <3>2, <3>3
  <2>2. ASSUME NEW x \in Ids(t) PROVE x \in Ids(u)
    <3>1. PICK i \in Slots : t[i].in_use /\ t[i].id = x
      BY IdsAre
    <3>2. u[i] = t[i]
      BY <1>2, <1>3, <3>1
    <3>3. QED BY <3>1, <3>2, IdsAre
  <2>3. s.id \in Ids(u)
    BY <1>2, <1>3, IdsAre
  <2>4. QED BY <2>1, <2>2, <2>3
<1>6. Id \in Nat /\ Id = born + 1 /\ born \in Nat /\ Ids(table) \subseteq 1 .. born
  BY IdBounds DEF Settled
<1>7. (Id .. Id + n - 1) \cup {Id + n} = Id .. Id + (n + 1) - 1
  BY <1>1, <1>6
<1>8. Ids(u) = Ids(table) \cup (Id .. Id + (n + 1) - 1)
  BY <1>1, <1>5, <1>7
<1>9. ASSUME NEW i \in Slots, table[i].in_use PROVE u[i].id = table[i].id
  <2>1. t[i].id = table[i].id /\ table[i].id # 0
    BY <1>1, <1>4, <1>9 DEF SlotsSound
  <2>2. t[i].in_use
    BY <1>4, <2>1 DEF SlotsSound
  <2>3. QED BY <1>2, <1>3, <2>1, <2>2
<1>10. ASSUME NEW i \in Slots, i # f, NewEarly(t, i) PROVE NewEarly(u, i)
  <2>1. u[i] = t[i] /\ t[i].id \in Nat /\ t[i].id < Id + n
    BY <1>2, <1>10, IdBounds
  <2>2. ASSUME NEW j \in Slots, u[j].is_dir, u[j].name = RootName PROVE u[j].id > u[i].id
    <3>1. CASE j = f
      BY <1>1, <1>2, <1>6, <2>1, <3>1
    <3>2. CASE j # f
      BY <1>2, <1>10, <2>1, <2>2, <3>2 DEF NewEarly
    <3>3. QED BY <3>1, <3>2
  <2>3. QED BY <1>10, <2>1, <2>2 DEF NewEarly
<1>11. s.id \notin Ids(table)
  BY <1>1, <1>6
<1>12. QED BY <1>1, <1>8, <1>9, <1>10, <1>11

\* No directory lists anything.
Barren(t) == \A i \in Slots : t[i].children = <<>>

(* The root takes a slot. *)
LEMMA GrowRoot ==
    ASSUME Settled, NEW t, NEW n, Grow(t, n), NEW u, NEW f, NEW s, Puts(t, u, f, s), s.id = Id + n,
           NoDirs(t), s.is_dir, s.name = RootName, \A i \in Slots : i < f => t[i].in_use
    PROVE  Grow(u, n + 1) /\ Barren(u) /\ get_root_dir_idx(u) = f /\ f \in Slots
<1>1. /\ TableOK(t) /\ get_root_dir_idx(t) = 0
      /\ \A i \in Slots : t[i].in_use /\ t[i].name # RootName =>
            ListedIn(t, i) \/ t[i].id \in early \cup orphans \/ NewEarly(t, i)
  BY RootIndex DEF Grow
<1>2. /\ Ids(u) = Ids(table) \cup (Id .. Id + (n + 1) - 1) /\ n \in Nat
      /\ \A i \in Slots : table[i].in_use => u[i].id = table[i].id
      /\ \A i \in Slots : i # f /\ NewEarly(t, i) => NewEarly(u, i)
  BY PutGrows
<1>3. TableOK(u) /\ IsRoot(u, f) /\ f \in Slots
  BY <1>1, RootOK
<1>4. get_root_dir_idx(u) = f /\ f # 0
  BY <1>3, RootIndex, SlotNumber
<1>5. /\ u[f] = s /\ \A i \in Slots : i # f => u[i] = t[i]
      /\ \A i \in Slots : u[i].children = t[i].children
      /\ \A i \in Slots : ListedIn(u, i) <=> ListedIn(t, i)
  BY <1>1, PutsIs
<1>6. Barren(u)
  BY <1>1, <1>5 DEF TableOK, SlotsSound, NoDirs, Barren
<1>7. ASSUME NEW i \in Slots, u[i].in_use, u[i].name # RootName
      PROVE  ListedIn(u, i) \/ u[i].id \in early \cup orphans \/ NewEarly(u, i)
  <2>1. i # f
    BY <1>5, <1>7
  <2>2. QED BY <1>1, <1>2, <1>5, <1>7, <2>1
<1>8. Grow(u, n + 1)
  BY <1>2, <1>3, <1>4, <1>6, <1>7 DEF Grow, Barren
<1>9. QED BY <1>3, <1>4, <1>6, <1>8

(* A file takes a slot while there is no root. *)
LEMMA GrowEarly ==
    ASSUME Settled, NEW t, NEW n, Grow(t, n), NEW u, NEW f, NEW s, Puts(t, u, f, s), s.id = Id + n,
           NoDirs(t), ~s.is_dir
    PROVE  Grow(u, n + 1)
<1>1. /\ TableOK(t) /\ get_root_dir_idx(t) = 0 /\ get_root_dir_idx(table) = 0
      /\ \A i \in Slots : t[i].in_use /\ t[i].name # RootName =>
            ListedIn(t, i) \/ t[i].id \in early \cup orphans \/ NewEarly(t, i)
  BY RootIndex DEF Grow
<1>2. /\ Ids(u) = Ids(table) \cup (Id .. Id + (n + 1) - 1) /\ n \in Nat /\ s.id \notin Ids(table)
      /\ \A i \in Slots : table[i].in_use => u[i].id = table[i].id
      /\ \A i \in Slots : i # f /\ NewEarly(t, i) => NewEarly(u, i)
  BY PutGrows
<1>3. TableOK(u) /\ NoDirs(u)
  BY <1>1, PutsOK
<1>4. get_root_dir_idx(u) = 0
  BY <1>3, RootIndex
<1>5. /\ u[f] = s /\ \A i \in Slots : i # f => u[i] = t[i]
      /\ \A i \in Slots : u[i].children = t[i].children
      /\ \A i \in Slots : ListedIn(u, i) <=> ListedIn(t, i)
  BY <1>1, PutsIs
<1>6. Barren(u)
  BY <1>1, <1>5 DEF TableOK, SlotsSound, NoDirs, Barren
<1>7. ASSUME NEW i \in Slots, u[i].in_use, u[i].name # RootName
      PROVE  ListedIn(u, i) \/ u[i].id \in early \cup orphans \/ NewEarly(u, i)
  <2>1. CASE i = f
    <3>1. \A j \in Slots : ~u[j].is_dir
      BY <1>3 DEF NoDirs, IsDir, TableOK, SlotsSound
    <3>2. NewEarly(u, i)
      BY <1>1, <1>2, <1>5, <2>1, <3>1 DEF NewEarly
    <3>3. QED BY <3>2
  <2>2. CASE i # f
    BY <1>1, <1>2, <1>5, <1>7, <2>2
  <2>3. QED BY <2>1, <2>2
<1>8. QED BY <1>1, <1>2, <1>3, <1>4, <1>6, <1>7 DEF Grow, Barren

(* A slot is filled and a directory lists it. *)
LEMMA PutLink ==
    ASSUME Settled, NEW t, NEW n, Grow(t, n), NEW v, NEW f, NEW s, Puts(t, v, f, s), s.id = Id + n,
           NEW u, NEW d, Links(v, u, d, f), ~NoDirs(t)
    PROVE  /\ TableOK(u) /\ n \in Nat
           /\ Ids(u) = Ids(table) \cup (Id .. Id + (n + 1) - 1)
           /\ \A i \in Slots : table[i].in_use => u[i].id = table[i].id
           /\ \A i \in Slots : u[i].in_use /\ u[i].name # RootName =>
                 ListedIn(u, i) \/ u[i].id \in early \cup orphans \/ NewEarly(u, i)
           /\ \A i \in Slots : i # d => u[i].children = t[i].children
           /\ \A r \in Slots : IsRoot(t, r) => IsRoot(u, r)
<1>1. /\ TableOK(t)
      /\ \A i \in Slots : t[i].in_use /\ t[i].name # RootName =>
            ListedIn(t, i) \/ t[i].id \in early \cup orphans \/ NewEarly(t, i)
  BY DEF Grow
<1>2. /\ Ids(v) = Ids(table) \cup (Id .. Id + (n + 1) - 1) /\ n \in Nat
      /\ \A i \in Slots : table[i].in_use => v[i].id = table[i].id
      /\ \A i \in Slots : i # f /\ NewEarly(t, i) => NewEarly(v, i)
  BY PutGrows
<1>3. TableOK(v) /\ \A r \in Slots : IsRoot(t, r) => IsRoot(v, r)
  BY <1>1, PutsOK
<1>4. /\ v[f] = s /\ \A i \in Slots : i # f => v[i] = t[i]
      /\ \A i \in Slots : v[i].children = t[i].children
      /\ \A i \in Slots : ListedIn(v, i) <=> ListedIn(t, i)
  BY <1>1, PutsIs
<1>5. TableOK(u) /\ \A r \in Slots : IsRoot(v, r) => IsRoot(u, r)
  BY <1>3, LinksOK
<1>6. /\ \A i \in Slots : i # d => u[i] = v[i]
      /\ \A i \in Slots : /\ u[i].name = v[i].name /\ u[i].in_use = v[i].in_use
                          /\ u[i].is_dir = v[i].is_dir /\ u[i].id = v[i].id
      /\ \A i \in Slots : ListedIn(u, i) <=> ListedIn(v, i) \/ i = f
  BY <1>3, LinksIs
<1>7. SameSlots(v, u)
  BY <1>6 DEF SameSlots
<1>8. Ids(u) = Ids(v) /\ \A i \in Slots : NewEarly(v, i) => NewEarly(u, i)
  BY <1>7, SameSlotsKeep
<1>9. ASSUME NEW i \in Slots, u[i].in_use, u[i].name # RootName
      PROVE  ListedIn(u, i) \/ u[i].id \in early \cup orphans \/ NewEarly(u, i)
  <2>1. CASE i = f
    BY <1>6, <2>1
  <2>2. CASE i # f
    <3>1. t[i].in_use /\ t[i].name # RootName /\ u[i].id = t[i].id
      BY <1>4, <1>6, <1>9, <2>2
    <3>2. QED BY <1>1, <1>2, <1>4, <1>6, <1>8, <2>2, <3>1
  <2>3. QED BY <2>1, <2>2
<1>10. QED BY <1>2, <1>3, <1>4, <1>5, <1>6, <1>8, <1>9

(* A file takes a slot and the root lists it. *)
LEMMA GrowListed ==
    ASSUME Settled, NEW t, NEW n, Grow(t, n), NEW v, NEW f, NEW s, Puts(t, v, f, s), s.id = Id + n,
           NEW u, NEW d, Links(v, u, d, f), d = get_root_dir_idx(t), d # 0
    PROVE  Grow(u, n + 1)
<1>1. /\ TableOK(t) /\ RootFirst(t)
      /\ \A i \in Slots : i # get_root_dir_idx(t) /\ t[i].children # <<>> => t[i].children = table[i].children
  BY DEF Grow, TableOK
<1>2. d \in Slots /\ IsRoot(t, d)
  BY <1>1, RootOrNone
<1>3. ~NoDirs(t)
  BY <1>2 DEF NoDirs, IsRoot
<1>4. /\ TableOK(u) /\ n \in Nat
      /\ Ids(u) = Ids(table) \cup (Id .. Id + (n + 1) - 1)
      /\ \A i \in Slots : table[i].in_use => u[i].id = table[i].id
      /\ \A i \in Slots : u[i].in_use /\ u[i].name # RootName =>
            ListedIn(u, i) \/ u[i].id \in early \cup orphans \/ NewEarly(u, i)
      /\ \A i \in Slots : i # d => u[i].children = t[i].children
      /\ IsRoot(u, d)
  BY <1>2, <1>3, PutLink
<1>5. get_root_dir_idx(u) = d
  BY <1>2, <1>4, RootIndex
<1>6. QED BY <1>1, <1>4, <1>5 DEF Grow

(* A directory, a link or a file is made in a directory. *)
LEMMA AddDone ==
    ASSUME Settled, NEW t, NEW n, Grow(t, n), NEW v, NEW f, NEW s, Puts(t, v, f, s), s.id = Id + n,
           NEW u, NEW d, Links(v, u, d, f), ~NoDirs(t)
    PROVE  Done(u)
<1>1. /\ TableOK(u) /\ n \in Nat
      /\ Ids(u) = Ids(table) \cup (Id .. Id + (n + 1) - 1)
      /\ \A i \in Slots : table[i].in_use => u[i].id = table[i].id
      /\ \A i \in Slots : u[i].in_use /\ u[i].name # RootName =>
            ListedIn(u, i) \/ u[i].id \in early \cup orphans \/ NewEarly(u, i)
  BY PutLink
<1>2. Ids(u) \ Ids(table) = Id .. Id + (n + 1) - 1
  <2>1. \A x \in Id .. Id + (n + 1) - 1 : x \notin Ids(table)
    BY <1>1, IdBounds DEF Settled
  <2>2. QED BY <1>1, <2>1
<1>3. n + 1 \in Nat
  BY <1>1
<1>4. QED BY <1>1, <1>2, <1>3 DEF Done

(* A file's content changes. *)
LEMMA GrowSame ==
    ASSUME Settled, NEW t, NEW n, Grow(t, n), NEW u \in Tables, SameTree(t, u)
    PROVE  Grow(u, n)
<1>1. /\ n \in Nat /\ TableOK(t) /\ Ids(t) = Ids(table) \cup (Id .. Id + n - 1)
      /\ \A i \in Slots : table[i].in_use => t[i].id = table[i].id
      /\ \A i \in Slots : i # get_root_dir_idx(t) /\ t[i].children # <<>> => t[i].children = table[i].children
      /\ get_root_dir_idx(t) = 0 => get_root_dir_idx(table) = 0
      /\ \A i \in Slots : t[i].in_use /\ t[i].name # RootName =>
            ListedIn(t, i) \/ t[i].id \in early \cup orphans \/ NewEarly(t, i)
  BY DEF Grow
<1>2. TableOK(u) /\ \A i \in Slots : ListedIn(u, i) <=> ListedIn(t, i)
  BY <1>1, SameTreeOK
<1>3. SameSlots(t, u)
  BY DEF SameTree, SameSlots
<1>4. /\ Ids(u) = Ids(t) /\ get_root_dir_idx(u) = get_root_dir_idx(t)
      /\ \A i \in Slots : NewEarly(t, i) => NewEarly(u, i)
  BY <1>3, SameSlotsKeep
<1>5. QED BY <1>1, <1>2, <1>4 DEF Grow, SameTree

(* A slot is cleared, at the end of a call. *)
LEMMA ClearDone ==
    ASSUME Settled, NEW t, NEW n \in {0, 1}, Grow(t, n), NEW u, NEW d, NEW c, Clears(t, u, d, c)
    PROVE  Done(u)
<1>1. /\ TableOK(t) /\ Ids(t) = Ids(table) \cup (Id .. Id + n - 1)
      /\ \A i \in Slots : table[i].in_use => t[i].id = table[i].id
      /\ \A i \in Slots : i # get_root_dir_idx(t) /\ t[i].children # <<>> => t[i].children = table[i].children
      /\ \A i \in Slots : t[i].in_use /\ t[i].name # RootName =>
            ListedIn(t, i) \/ t[i].id \in early \cup orphans \/ NewEarly(t, i)
  BY DEF Grow
<1>2. /\ u \in Tables /\ c \in Slots /\ d \in Slots /\ u[c] = Unused
      /\ \A i \in Slots : i # c /\ i # d => u[i] = t[i]
      /\ \A i \in Slots : i # c => /\ u[i].name = t[i].name /\ u[i].in_use = t[i].in_use
                                   /\ u[i].is_dir = t[i].is_dir /\ u[i].id = t[i].id
      /\ d # c => Survives(t[d].children, c, u[d].children)
      /\ t[c].in_use
  BY <1>1, ClearsIs
<1>3. TableOK(u) /\ \A r \in Slots : IsRoot(t, r) => r < c
  BY <1>1, ClearsOK
<1>4. SlotsSound(t) /\ SlotsSound(table) /\ EntriesSound(table) /\ IsDir(t, d) /\ table \in Tables /\ RootFirst(t)
      /\ t \in Tables
  BY <1>1 DEF Settled, TableOK, Clears
<1>5. u[c].in_use = FALSE /\ u[c].id = 0 /\ u[c].is_dir = FALSE
  BY <1>2, UnusedType
<1>6. Ids(u) = Ids(t) \ {t[c].id}
  <2>1. ASSUME NEW x \in Ids(u) PROVE x \in Ids(t) /\ x # t[c].id
    <3>1. PICK i \in Slots : u[i].in_use /\ u[i].id = x
      BY IdsAre
    <3>2. i # c /\ t[i].in_use /\ t[i].id = x
      BY <1>2, <1>5, <3>1
    <3>3. QED BY <1>2, <1>4, <3>2, IdsAre DEF SlotsSound
  <2>2. ASSUME NEW x \in Ids(t), x # t[c].id PROVE x \in Ids(u)
    <3>1. PICK i \in Slots : t[i].in_use /\ t[i].id = x
      BY IdsAre
    <3>2. u[i].in_use /\ u[i].id = x
      BY <1>2, <2>2, <3>1
    <3>3. QED BY <3>2, IdsAre
  <2>3. QED BY <2>1, <2>2
<1>7. \E m \in Nat : Ids(u) \ Ids(table) = Id .. Id + m - 1
  <2>1. PICK b \in Nat : b = Id /\ Ids(table) \subseteq 1 .. b - 1
    BY IdBounds DEF Settled
  <2>2. b .. b + 0 - 1 = {} /\ b .. b + 1 - 1 = {b} /\ b \notin Ids(table)
    BY <2>1
  <2>3. CASE n = 0
    BY <1>1, <1>6, <2>1, <2>2, <2>3
  <2>4. CASE n = 1 /\ t[c].id = b
    BY <1>1, <1>6, <2>1, <2>2, <2>4
  <2>5. CASE n = 1 /\ t[c].id # b
    <3>1. Ids(t) = Ids(table) \cup {b}
      BY <1>1, <2>1, <2>2, <2>5
    <3>2. Ids(u) \ Ids(table) = {b}
      BY <1>6, <2>2, <2>5, <3>1
    <3>3. QED BY <2>1, <2>2, <3>2
  <2>6. QED BY <2>3, <2>4, <2>5
<1>8. ASSUME NEW i \in Slots, table[i].in_use PROVE u[i].id = table[i].id \/ table[i].id \notin Ids(u)
  <2>1. t[i].id = table[i].id
    BY <1>1, <1>8
  <2>2. CASE i = c
    BY <1>6, <2>1, <2>2
  <2>3. CASE i # c
    BY <1>2, <2>1, <2>3
  <2>4. QED BY <2>2, <2>3
<1>9. ASSUME NEW i \in Slots, u[i].in_use, u[i].name # RootName
      PROVE  ListedIn(u, i) \/ u[i].id \in early \cup orphans \/ NewEarly(u, i) \/ NewOrphan(u, i)
  <2>1. i # c /\ t[i].in_use /\ t[i].name # RootName /\ u[i].id = t[i].id
    BY <1>2, <1>5, <1>9
  <2>2. CASE t[i].id \in early \cup orphans
    BY <2>1, <2>2
  <2>3. CASE NewEarly(t, i)
    <3>1. ASSUME NEW j \in Slots, u[j].is_dir, u[j].name = RootName PROVE u[j].id > u[i].id
      BY <1>2, <1>5, <2>1, <2>3, <3>1 DEF NewEarly
    <3>2. NewEarly(u, i)
      BY <2>1, <2>3, <3>1 DEF NewEarly
    <3>3. QED BY <3>2
  <2>4. CASE ListedIn(t, i)
    <3>1. PICK e, k : e \in Slots /\ k \in DOMAIN t[e].children /\ t[e].children[k].slot = i
      BY <2>4 DEF ListedIn
    <3>2. CASE e # c /\ e # d
      BY <1>2, <3>1, <3>2 DEF ListedIn
    <3>3. CASE e # c /\ e = d
      <4>1. PICK l \in DOMAIN u[d].children : u[d].children[l] = t[d].children[k]
        BY <1>2, <2>1, <3>1, <3>3 DEF Survives
      <4>2. QED BY <1>2, <3>1, <3>3, <4>1 DEF ListedIn
    <3>4. CASE e = c
      <4>1. c # get_root_dir_idx(t)
        BY <1>2, <1>3, <1>4, RootOrNone, SlotNumber
      <4>2. t[c].children # <<>>
        BY <3>1, <3>4
      <4>3. t[c].children = table[c].children
        BY <1>1, <1>2, <4>1, <4>2
      <4>4. IsDir(table, c)
        BY <1>2, <1>4, <4>2, <4>3 DEF SlotsSound
      <4>5. t[c].id = table[c].id
        BY <1>1, <1>2, <4>4 DEF IsDir
      <4>6. PICK x : x = table[c].children[k] /\ x.slot = i /\ x \in Listed(table, c)
        BY <3>1, <3>4, <4>3 DEF Listed
      <4>7. table[i].in_use
        BY <1>2, <1>4, <3>1, <3>4, <4>3, <4>6 DEF EntriesSound
      <4>8. table[i].id = u[i].id
        BY <1>1, <2>1, <4>7
      <4>9. table[c].id \in Ids(table) /\ table[c].id \notin Ids(u)
        BY <1>2, <1>6, <4>4, <4>5, IdsAre DEF IsDir
      <4>10. NewOrphan(u, i)
        BY <1>2, <4>6, <4>8, <4>9 DEF NewOrphan
      <4>11. QED BY <4>10
    <3>5. QED BY <3>2, <3>3, <3>4
  <2>5. QED BY <1>1, <2>1, <2>2, <2>3, <2>4
<1>10. QED BY <1>3, <1>7, <1>8, <1>9 DEF Done

(* --------------------------------------------------------- the end of a call *)

LEMMA DoneStep ==
    ASSUME Settled, NEW t, Done(t), NewTable(t)
    PROVE  /\ Settled' /\ table' = t /\ removed \subseteq removed'
           /\ \A i \in Slots : table[i].id # 0 => t[i].id = table[i].id \/ table[i].id \in removed'
<1>1. /\ TableOK(t)
      /\ \A i \in Slots : table[i].in_use => t[i].id = table[i].id \/ table[i].id \notin Ids(t)
      /\ \A i \in Slots : t[i].in_use /\ t[i].name # RootName =>
            ListedIn(t, i) \/ t[i].id \in early \cup orphans \/ NewEarly(t, i) \/ NewOrphan(t, i)
  BY DEF Done
<1>2. PICK n \in Nat : Ids(t) \ Ids(table) = Id .. Id + n - 1
  BY DEF Done
<1>3. PICK made, gone : made = Ids(t) \ Ids(table) /\ gone = Ids(table) \ Ids(t)
  OBVIOUS
<1>4. /\ table' = t /\ born' = born + Cardinality(made) /\ removed' = removed \cup gone
      /\ early' = early \cup {k \in made : /\ get_root_dir_idx(table) = 0
                                           /\ RootName \notin {t[i].name : i \in {j \in Slots : t[j].id <= k /\ t[j].is_dir}}}
      /\ orphans' = orphans \cup
            {table[c.slot].id : c \in UNION {Listed(table, i) : i \in {j \in Slots : table[j].id \in gone}}}
  BY <1>3 DEF NewTable
<1>5. born \in Nat /\ Id = born + 1 /\ Id \in Nat /\ Ids(table) \subseteq 1 .. born
  BY IdBounds DEF Settled
<1>6. Cardinality(made) = n
  <2>1. Cardinality(Id .. Id + n - 1) = IF Id > Id + n - 1 THEN 0 ELSE (Id + n - 1) - Id + 1
    <3>1. Id \in Int /\ Id + n - 1 \in Int
      BY <1>5
    <3>2. QED BY <3>1, FS_Interval
  <2>2. (IF Id > Id + n - 1 THEN 0 ELSE (Id + n - 1) - Id + 1) = n
    BY <1>5
  <2>3. QED BY <1>2, <1>3, <2>1, <2>2
<1>7. born' \in Nat /\ born' = born + n
  BY <1>4, <1>5, <1>6
<1>8. t \in Tables /\ SlotsSound(t) /\ SlotsSound(table)
  BY <1>1 DEF TableOK, Settled
<1>9. ASSUME NEW i \in Slots PROVE t[i].id <= born'
  <2>1. t[i].id \in Nat
    BY <1>8 DEF Tables, Slot
  <2>2. CASE ~t[i].in_use
    BY <1>7, <1>8, <2>2 DEF SlotsSound
  <2>3. CASE t[i].in_use
    <3>1. t[i].id \in Ids(table) \/ t[i].id \in Id .. Id + n - 1
      BY <1>2, <2>3, IdsAre
    <3>2. QED BY <1>5, <1>7, <2>1, <3>1
  <2>4. QED BY <2>2, <2>3
<1>10. ASSUME NEW i \in Slots, t[i].in_use, t[i].name # RootName
       PROVE  ListedIn(t, i) \/ t[i].id \in early' \cup orphans'
  <2>1. CASE NewEarly(t, i)
    <3>1. t[i].id \in made
      BY <1>3, <1>10, <2>1, IdsAre DEF NewEarly
    <3>2. RootName \notin {t[j].name : j \in {l \in Slots : t[l].id <= t[i].id /\ t[l].is_dir}}
      <4>1. ASSUME NEW j \in Slots, t[j].id <= t[i].id, t[j].is_dir PROVE t[j].name # RootName
        <5>1. t[j].id \in Nat /\ t[i].id \in Nat
          BY <1>8 DEF Tables, Slot
        <5>2. QED BY <2>1, <4>1, <5>1 DEF NewEarly
      <4>2. QED BY <4>1
    <3>3. t[i].id \in early'
      BY <1>4, <2>1, <3>1, <3>2 DEF NewEarly
    <3>4. QED BY <3>3
  <2>2. CASE NewOrphan(t, i)
    <3>1. PICK j, c : j \in Slots /\ table[j].id \in gone /\ c \in Listed(table, j) /\ table[c.slot].id = t[i].id
      BY <1>3, <2>2 DEF NewOrphan
    <3>2. c \in UNION {Listed(table, k) : k \in {l \in Slots : table[l].id \in gone}}
      BY <3>1
    <3>3. t[i].id \in orphans'
      BY <1>4, <3>1, <3>2
    <3>4. QED BY <3>3
  <2>3. CASE t[i].id \in early \cup orphans
    BY <1>4, <2>3
  <2>4. QED BY <1>1, <1>10, <2>1, <2>2, <2>3
<1>11. Settled'
  <2>1. Explains(t, early' \cup orphans')
    BY <1>10 DEF Explains
  <2>2. TableOK(table') /\ Explains(table', early' \cup orphans') /\ \A i \in Slots : table'[i].id <= born'
    BY <1>1, <1>4, <1>9, <2>1
  <2>3. QED BY <1>7, <2>2 DEF Settled
<1>12. ASSUME NEW i \in Slots, table[i].id # 0 PROVE t[i].id = table[i].id \/ table[i].id \in removed'
  <2>1. table[i].in_use
    BY <1>8, <1>12 DEF SlotsSound
  <2>2. table[i].id \in Ids(table)
    BY <2>1, IdsAre
  <2>3. QED BY <1>1, <1>3, <1>4, <2>1, <2>2
<1>13. QED BY <1>4, <1>11, <1>12

(* A call that leaves the table alone. *)
LEMMA SettledStays == Settled /\ UNCHANGED <<table, born, early, orphans>> => Settled'
  BY DEF Settled

LEMMA WordName == ASSUME NEW x \in Word PROVE <<x>> \in Name
  BY DEF Name

(* A slot that has just been filled: with a file, a directory or a link, or the root. *)
FileSlot(s, n, id) == s = [Unused EXCEPT !.name = n, !.in_use = TRUE, !.id = id]
EntrySlot(s, n, id, dir, link) == \E x : FileSlot(x, n, id) /\ s = [x EXCEPT !.is_dir = dir, !.symlink_target = link]
RootSlot(s, id) == s = [Unused EXCEPT !.name = RootName, !.in_use = TRUE, !.is_dir = TRUE, !.id = id]

LEMMA FileSlotIs ==
    ASSUME NEW n \in Name, NEW id \in Nat, NEW s, FileSlot(s, n, id)
    PROVE  s \in Slot /\ s.name = n /\ s.in_use /\ ~s.is_dir /\ s.id = id /\ s.children = <<>>
<1>1. PICK u \in Slot : u = Unused /\ u.children = <<>> /\ u.is_dir = FALSE
  BY UnusedType
<1>2. s = [u EXCEPT !.name = n, !.in_use = TRUE, !.id = id]
  BY <1>1 DEF FileSlot
<1>3. QED BY <1>1, <1>2 DEF Slot

LEMMA EntrySlotIs ==
    ASSUME NEW n \in Name, NEW id \in Nat, NEW dir \in BOOLEAN, NEW link \in Name, NEW s, EntrySlot(s, n, id, dir, link)
    PROVE  s \in Slot /\ s.name = n /\ s.in_use /\ s.id = id /\ s.children = <<>>
<1>1. PICK u : FileSlot(u, n, id) /\ s = [u EXCEPT !.is_dir = dir, !.symlink_target = link]
  BY DEF EntrySlot
<1>2. u \in Slot /\ u.name = n /\ u.in_use /\ u.id = id /\ u.children = <<>>
  BY <1>1, FileSlotIs
<1>3. QED BY <1>1, <1>2 DEF Slot

LEMMA RootSlotIs ==
    ASSUME NEW id \in Nat, NEW s, RootSlot(s, id)
    PROVE  s \in Slot /\ s.name = RootName /\ s.in_use /\ s.is_dir /\ s.id = id /\ s.children = <<>>
<1>1. PICK u \in Slot : u = Unused /\ u.children = <<>>
  BY UnusedType
<1>2. RootName \in Name
  BY WordName DEF RootName, Word
<1>3. s = [u EXCEPT !.name = RootName, !.in_use = TRUE, !.is_dir = TRUE, !.id = id]
  BY <1>1 DEF RootSlot
<1>4. QED BY <1>1, <1>2, <1>3 DEF Slot

(* ------------------------------------------------------------ ramfs methods *)

\* What opening a path leaves behind, and what its inode names.
Opens(t, n, create, r) ==
    /\ \E m \in {n, n + 1} : Grow(r.table, m)
    /\ create \/ r.table = t \/ Barren(r.table)
FoundIn(t, ino) ==
    \/ ino = ROOT_INO /\ get_root_dir_idx(t) # 0
    \/ ino \in Slots /\ t[ino].in_use
Finds(r) == FoundIn(r.table, r.val)

LEMMA EnsureRoot ==
    ASSUME Settled, NEW t, NEW n, Grow(t, n), NEW create, NEW r, r = ensure_root_dir(t, Id + n)
    PROVE  /\ Opens(t, n, create, r) /\ r.panic \in BOOLEAN /\ r.ok \in BOOLEAN /\ r.panic = ~r.ok
           /\ r.ok => r.val = get_root_dir_idx(r.table) /\ get_root_dir_idx(r.table) # 0
           /\ get_root_dir_idx(t) # 0 => r = Ok(t, get_root_dir_idx(t))
<1>1. TableOK(t) /\ RootFirst(t) /\ n \in Nat /\ t \in Tables
  BY DEF Grow, TableOK
<1>2. PICK free : free = find_free_slot(t)
  OBVIOUS
<1>3. CASE get_root_dir_idx(t) # 0
  <2>1. r = Ok(t, get_root_dir_idx(t))
    BY <1>3 DEF ensure_root_dir
  <2>2. r.table = t /\ r.ok = TRUE /\ r.panic = FALSE /\ r.val = get_root_dir_idx(t)
    BY <2>1 DEF Ok
  <2>3. QED BY <1>3, <2>1, <2>2 DEF Opens
<1>4. CASE get_root_dir_idx(t) = 0 /\ free = 0
  <2>1. r = Panic(t)
    BY <1>2, <1>4 DEF ensure_root_dir
  <2>2. r.table = t /\ r.ok = FALSE /\ r.panic = TRUE
    BY <2>1 DEF Panic
  <2>3. QED BY <1>4, <2>2 DEF Opens
<1>5. CASE get_root_dir_idx(t) = 0 /\ free # 0
  <2>1. PICK s, u : RootSlot(s, Id + n) /\ u = [t EXCEPT ![free] = s]
    BY DEF RootSlot
  <2>2. r = Ok(u, free)
    BY <1>2, <1>5, <2>1 DEF ensure_root_dir, RootSlot
  <2>3. r.table = u /\ r.ok = TRUE /\ r.panic = FALSE /\ r.val = free
    BY <2>2 DEF Ok
  <2>4. NoDirs(t)
    BY <1>1, <1>5, RootOrNone
  <2>5. free \in Slots /\ ~t[free].in_use /\ \A i \in Slots : i < free => t[i].in_use
    BY <1>2, <1>5, FreeSlot
  <2>6. Id + n \in Nat /\ Id + n # 0 /\ \A i \in Slots : t[i].id # Id + n
    BY <1>1, IdBounds DEF Settled
  <2>7. /\ s \in Slot /\ s.name = RootName /\ s.in_use /\ s.is_dir /\ s.id = Id + n /\ s.children = <<>>
    BY <2>1, <2>6, RootSlotIs
  <2>8. Puts(t, u, free, s)
    BY <2>1, <2>5, <2>6, <2>7 DEF Puts
  <2>9. Grow(u, n + 1) /\ Barren(u) /\ get_root_dir_idx(u) = free /\ free \in Slots
    BY <2>4, <2>5, <2>7, <2>8, GrowRoot
  <2>10. QED BY <1>5, <2>3, <2>9 DEF Opens
<1>6. QED BY <1>3, <1>4, <1>5

(* A filled slot can be listed by a directory that has no such name. *)
LEMMA Linkable ==
    ASSUME NEW t, TableOK(t), NEW v, NEW f, NEW s, Puts(t, v, f, s), NEW d \in Slots, IsDir(t, d),
           \A k \in DOMAIN t[d].children : t[d].children[k].name # s.name
    PROVE  Links(v, AddChild(v, d, f), d, f)
<1>1. /\ v \in Tables /\ v[f] = s /\ f \in Slots /\ \A i \in Slots : i # f => v[i] = t[i]
      /\ \A i \in Slots : v[i].children = t[i].children
      /\ \A i \in Slots : ListedIn(v, i) <=> ListedIn(t, i)
      /\ ~ListedIn(t, f)
  BY PutsIs
<1>2. ~t[f].in_use /\ s.in_use /\ RootFirst(t)
  BY DEF Puts, TableOK
<1>3. IsDir(v, d)
  BY <1>1, <1>2 DEF IsDir
<1>4. PICK r \in Slots : IsRoot(t, r)
  BY <1>2 DEF RootFirst, NoDirs
<1>5. IsRoot(v, r) /\ r < f
  <2>1. ~NoDirs(t)
    BY DEF NoDirs
  <2>2. QED BY <1>4, <2>1, PutsOK
<1>6. ASSUME NEW q \in Slots, IsRoot(v, q) PROVE q < f
  BY <1>4, <1>5, <1>6, RootIndex
<1>7. QED BY <1>1, <1>2, <1>3, <1>6 DEF Links

LEMMA RamOpen ==
    ASSUME Settled, NEW t, NEW n, Grow(t, n), NEW name \in Name, NEW create \in BOOLEAN,
           NEW r, r = ram_open(t, name, create, Id + n)
    PROVE  /\ Opens(t, n, create, r) /\ (r.ok => Finds(r)) /\ r.val \in Nat
           /\ ~create /\ name # <<>> => r.table = t
<1>1. TableOK(t) /\ RootFirst(t) /\ n \in Nat /\ t \in Tables /\ SlotsSound(t) /\ EntriesSound(t)
  BY DEF Grow, TableOK
<1>2. PICK free, made, file : free = find_free_slot(t) /\ made = init_slot(t, free, name, Id + n) /\ file = find_file(t, name)
  OBVIOUS
<1>3. ASSUME NEW e, r = Err(t, e) PROVE Opens(t, n, create, r) /\ (r.ok => Finds(r)) /\ r.val \in Nat /\ r.table = t
  <2>1. r.table = t /\ r.ok = FALSE /\ r.val = 0
    BY <1>3 DEF Err
  <2>2. QED BY <2>1 DEF Opens
<1>4. CASE name = <<>>
  <2>1. PICK q : q = ensure_root_dir(t, Id + n)
    OBVIOUS
  <2>2. r = IF q.panic THEN q ELSE Ok(q.table, ROOT_INO)
    BY <1>4, <2>1, Zenon DEF ram_open
  <2>3. /\ Opens(t, n, create, q) /\ q.panic \in BOOLEAN /\ q.ok \in BOOLEAN /\ q.panic = ~q.ok
        /\ q.ok => get_root_dir_idx(q.table) # 0
    BY <2>1, EnsureRoot
  <2>4. CASE q.panic
    <3>1. q = Panic(t)
      BY <2>1, <2>4 DEF ensure_root_dir, Ok, Panic
    <3>2. r = q
      BY <2>2, <2>4
    <3>3. r.val \in Nat /\ r.ok = FALSE
      BY <3>1, <3>2 DEF Panic
    <3>4. QED BY <1>4, <2>3, <3>2, <3>3
  <2>5. CASE ~q.panic
    <3>1. r.table = q.table /\ r.ok = TRUE /\ r.val = ROOT_INO
      BY <2>2, <2>5 DEF Ok
    <3>2. ROOT_INO \in Nat
      BY DEF ROOT_INO
    <3>3. Finds(r)
      <4>1. get_root_dir_idx(q.table) # 0
        BY <2>3, <2>5
      <4>2. FoundIn(r.table, r.val)
        BY <3>1, <4>1 DEF FoundIn
      <4>3. QED BY <4>2 DEF Finds
    <3>4. Opens(t, n, create, r)
      BY <2>3, <3>1 DEF Opens
    <3>5. QED BY <1>4, <3>1, <3>2, <3>3, <3>4
  <2>6. QED BY <2>3, <2>4, <2>5
<1>5. CASE name # <<>> /\ file # 0
  <2>1. r = Ok(t, file)
    BY <1>2, <1>5, Zenon DEF ram_open
  <2>2. r.table = t /\ r.ok = TRUE /\ r.val = file
    BY <2>1 DEF Ok
  <2>3. file \in Slots /\ t[file].in_use
    BY <1>2, <1>5, FoundFile
  <2>4. QED BY <2>2, <2>3, SlotNumber DEF Opens, Finds, FoundIn
<1>6. CASE name # <<>> /\ file = 0 /\ ~create
  <2>1. r = Err(t, "NotFound")
    BY <1>2, <1>6, Zenon DEF ram_open
  <2>2. QED BY <1>3, <2>1
<1>7. CASE name # <<>> /\ file = 0 /\ create /\ free = 0
  <2>1. r = Err(t, "NoSpace")
    BY <1>2, <1>7, Zenon DEF ram_open
  <2>2. QED BY <1>3, <2>1
<1>8. CASE name # <<>> /\ file = 0 /\ create /\ free # 0
  <2>1. PICK u, root : root = get_root_dir_idx(made) /\ u = IF root = 0 THEN made ELSE AddChild(made, root, free)
    OBVIOUS
  <2>2. r = Ok(u, free)
    <3>1. r = Ok(IF get_root_dir_idx(made) = 0 THEN made
                 ELSE AddChild(made, get_root_dir_idx(made), free), free)
      BY <1>2, <1>8, Zenon DEF ram_open
    <3>2. QED BY <2>1, <3>1
  <2>3. r.table = u /\ r.ok = TRUE /\ r.val = free
    BY <2>2 DEF Ok
  <2>4. free \in Slots /\ ~t[free].in_use
    BY <1>2, <1>8, FreeSlot
  <2>5. Id + n \in Nat /\ Id + n # 0 /\ \A i \in Slots : t[i].id # Id + n
    BY <1>1, IdBounds DEF Settled
  <2>6. PICK s : FileSlot(s, name, Id + n)
    BY DEF FileSlot
  <2>7. s \in Slot /\ s.name = name /\ s.in_use /\ ~s.is_dir /\ s.id = Id + n /\ s.children = <<>>
    BY <2>5, <2>6, FileSlotIs
  <2>8. made = [t EXCEPT ![free] = s]
    BY <1>2, <2>6 DEF init_slot, FileSlot
  <2>9. Puts(t, made, free, s)
    BY <2>4, <2>5, <2>7, <2>8 DEF Puts
  <2>10. TableOK(made) /\ NoDirs(made) = NoDirs(t) /\ \A q \in Slots : IsRoot(t, q) => IsRoot(made, q)
    BY <1>1, <2>7, <2>9, PutsOK
  <2>11. made[free] = s
    BY <1>1, <2>9, PutsIs
  <2>12. Grow(u, n + 1) /\ u[free].in_use
    <3>1. CASE root = 0
      <4>1. NoDirs(t)
        <5>1. RootFirst(made) /\ get_root_dir_idx(made) = 0
          BY <2>1, <2>10, <3>1 DEF TableOK
        <5>2. NoDirs(made)
          BY <5>1, RootOrNone
        <5>3. QED BY <2>10, <5>2
      <4>2. u = made
        BY <2>1, <3>1
      <4>3. Grow(made, n + 1)
        BY <2>7, <2>9, <4>1, GrowEarly
      <4>4. QED BY <2>7, <2>11, <4>2, <4>3
    <3>2. CASE root # 0
      <4>1. ~NoDirs(t)
        <5>1. ~NoDirs(made)
          BY <2>1, <3>2, RootIndex
        <5>2. QED BY <2>10, <5>1
      <4>2. PICK q \in Slots : IsRoot(t, q)
        BY <1>1, <4>1 DEF RootFirst
      <4>3. q = get_root_dir_idx(t) /\ q = root
        BY <2>1, <2>10, <4>2, RootIndex
      <4>4. u = AddChild(made, q, free)
        BY <2>1, <3>2, <4>3
      <4>5. ASSUME NEW k \in DOMAIN t[q].children PROVE t[q].children[k].name # s.name
        <5>1. PICK c : c = t[q].children[k].slot
          OBVIOUS
        <5>2. t[c].in_use /\ t[c].name = t[q].children[k].name
          BY <1>1, <4>2, <5>1 DEF EntriesSound
        <5>3. c \in Slots
          <6>1. PICK l \in Seq(Child) : l = t[q].children
            BY <1>1, <4>2 DEF Tables, Slot
          <6>2. l[k] \in Child
            BY <6>1
          <6>3. QED BY <5>1, <6>1, <6>2 DEF Child
        <5>4. ~(t[c].in_use /\ t[c].name = name)
          <6>1. find_file(t, name) = 0 => \A i \in Slots : ~(t[i].in_use /\ t[i].name = name)
            BY FoundFile
          <6>2. QED BY <1>2, <1>8, <5>3, <6>1
        <5>5. QED BY <2>7, <5>2, <5>4
      <4>6. IsDir(t, q)
        BY <4>2 DEF IsRoot
      <4>7. Links(made, u, q, free)
        BY <1>1, <2>9, <4>2, <4>4, <4>5, <4>6, Linkable
      <4>8. Grow(u, n + 1)
        BY <2>7, <2>9, <3>2, <4>3, <4>7, GrowListed
      <4>9. u[free].in_use
        BY <2>4, <2>7, <2>10, <2>11, <4>7, LinksIs
      <4>10. QED BY <4>8, <4>9
    <3>3. QED BY <3>1, <3>2
  <2>13. QED BY <1>8, <2>3, <2>4, <2>12, SlotNumber DEF Opens, Finds, FoundIn
<1>9. QED BY <1>4, <1>5, <1>6, <1>7, <1>8

(* -------------------------------------------------------------------- paths *)

LEMMA FsIs ==
    ASSUME NEW full \in Name
    PROVE  /\ resolve_fs(full).fs \in {"ramfs", "proc", "dev"}
           /\ resolve_fs(full).fs = "ramfs" => resolve_fs(full).rel = full
           /\ resolve_fs(full).fs = "ramfs" <=>
                 full = <<>> \/ (full[1] \notin {"proc", "dev"} /\ full[1] \notin DOMAIN Glued)
<1>1. CASE full = <<>>
  BY <1>1 DEF resolve_fs
<1>2. CASE full # <<>> /\ full[1] \in {"proc", "dev"}
  BY <1>2 DEF resolve_fs
<1>3. CASE full # <<>> /\ full[1] \notin {"proc", "dev"} /\ full[1] \in DOMAIN Glued
  <2>1. Glued[full[1]].mount \in {"proc", "dev"}
    BY <1>3, FilesAssumption
  <2>2. resolve_fs(full).fs = Glued[full[1]].mount
    BY <1>3 DEF resolve_fs
  <2>3. QED BY <1>3, <2>1, <2>2
<1>4. CASE full # <<>> /\ full[1] \notin {"proc", "dev"} /\ full[1] \notin DOMAIN Glued
  BY <1>4 DEF resolve_fs
<1>5. QED BY <1>1, <1>2, <1>3, <1>4

LEMMA ParentIs ==
    ASSUME NEW full \in Name, full # <<>>
    PROVE  /\ ParentOf(full) \in Name /\ NameOf(full) \in Word /\ <<NameOf(full)>> \in Name
           /\ resolve_fs(full).fs = "ramfs" => resolve_fs(ParentOf(full)).fs = "ramfs"
<1>1. full \in Seq(Word) /\ Len(full) \in Nat /\ Len(full) >= 1
  BY DEF Name
<1>2. PICK up : up = ParentOf(full)
  OBVIOUS
<1>3. up \in Seq(Word) /\ Len(up) = Len(full) - 1 /\ (up # <<>> => up[1] = full[1])
  <2>1. PICK m \in 0 .. Len(full) : m = Len(full) - 1
    <3>1. Len(full) - 1 \in 0 .. Len(full)
      BY <1>1
    <3>2. QED BY <3>1
  <2>2. up = SubSeq(full, 1, m)
    BY <1>2, <2>1 DEF ParentOf
  <2>3. up \in Seq(Word) /\ Len(up) = m /\ \A i \in 1 .. m : up[i] = full[i]
    BY <1>1, <2>2, CutJoin
  <2>4. up # <<>> => 1 \in 1 .. m
    BY <2>3
  <2>5. QED BY <2>1, <2>3, <2>4
<1>4. NameOf(full) \in Word
  BY <1>1 DEF NameOf
<1>5. up \in Name
  BY <1>3 DEF Name
<1>6. ASSUME resolve_fs(full).fs = "ramfs" PROVE resolve_fs(up).fs = "ramfs"
  BY <1>3, <1>5, <1>6, FsIs
<1>7. QED BY <1>2, <1>4, <1>5, <1>6, WordName

LEMMA DevNumbers == \A x \in DOMAIN DEVICES : DEVICES[x] \in 2 .. 7
  BY DEF DEVICES

LEMMA DevOpen ==
    ASSUME NEW rel
    PROVE  /\ dev_resolve_path(rel).ok => dev_resolve_path(rel).val \in 1 .. 7
           /\ dev_resolve_path(rel).val \in Nat
<1>1. CASE rel \in {<<>>, <<".">>}
  BY <1>1 DEF dev_resolve_path, VOk, DEV_ROOT_INO
<1>2. CASE rel \notin {<<>>, <<".">>} /\ Len(rel) = 1 /\ rel[1] \in DOMAIN DEVICES
  <2>1. DEVICES[rel[1]] \in 2 .. 7
    BY <1>2, DevNumbers
  <2>2. dev_resolve_path(rel) = VOk(DEVICES[rel[1]])
    BY <1>2 DEF dev_resolve_path
  <2>3. dev_resolve_path(rel).val = DEVICES[rel[1]]
    BY <2>2 DEF VOk
  <2>4. QED BY <2>1, <2>3
<1>3. CASE rel \notin {<<>>, <<".">>} /\ ~(Len(rel) = 1 /\ rel[1] \in DOMAIN DEVICES)
  <2>1. dev_resolve_path(rel) = VErr("NotFound")
    BY <1>3 DEF dev_resolve_path
  <2>2. QED BY <2>1 DEF VErr
<1>4. QED BY <1>1, <1>2, <1>3

LEMMA ProcNumbers ==
    /\ \A x \in DOMAIN Fixed : Fixed[x] \in 2 .. 11
    /\ \A x \in DOMAIN NetFiles : NetFiles[x] \in 2 .. 11
    /\ \A x \in DOMAIN PidFiles : PidFiles[x] \in Nat
<1>1. \A x \in DOMAIN Fixed : Fixed[x] \in 2 .. 11
  BY DEF Fixed, NET_DIR_INO
<1>2. \A x \in DOMAIN NetFiles : NetFiles[x] \in 2 .. 11
  BY DEF NetFiles
<1>3. \A x \in DOMAIN PidFiles : PidFiles[x] \in Nat
  BY VirtualFsAssumption DEF PidFiles, PID_CMDLINE_OFFSET, PID_STATUS_OFFSET, PID_MAPS_OFFSET, PID_FD_OFFSET,
     PID_ENVIRON_OFFSET
<1>4. QED BY <1>1, <1>2, <1>3

LEMMA ProcOpen == ASSUME NEW rel PROVE proc_resolve_path(rel).val \in Nat
<1>1. VErr("NotFound").val = 0 /\ \A v : VOk(v).val = v
  BY DEF VErr, VOk
<1>2. ASSUME NEW pid \in Nat, NEW sub PROVE resolve_fd_entry_path(pid, sub).val \in Nat
  <2>1. CASE Len(sub) = 2 /\ sub[1] = "fd" /\ sub[2] \in DOMAIN PidOf
    <3>1. PICK a \in Nat, b \in Nat, c \in Nat : a = PidOf[sub[2]] /\ b = FdShift /\ c = PidSpan
      BY <2>1, VirtualFsAssumption
    <3>2. a * b \in Nat
      OBVIOUS
    <3>3. PID_FD_OFFSET + pid + PidOf[sub[2]] * FdShift \in Nat
      BY <3>1, <3>2 DEF PID_FD_OFFSET
    <3>4. QED BY <1>1, <2>1, <3>3 DEF resolve_fd_entry_path
  <2>2. CASE ~(Len(sub) = 2 /\ sub[1] = "fd" /\ sub[2] \in DOMAIN PidOf)
    BY <1>1, <2>2 DEF resolve_fd_entry_path
  <2>3. QED BY <2>1, <2>2
<1>3. resolve_pid_path(rel).val \in Nat
  <2>1. PICK pid, sub : pid = PidOf[rel[1]] /\ sub = Tail(rel)
    OBVIOUS
  <2>2. CASE rel[1] \notin DOMAIN PidOf
    BY <1>1, <2>2 DEF resolve_pid_path
  <2>3. CASE rel[1] \in DOMAIN PidOf
    <3>1. pid \in Nat
      BY <2>1, <2>3, VirtualFsAssumption
    <3>2. resolve_pid_path(rel) = IF sub \in {<<>>, <<".">>} THEN VOk(PID_DIR_OFFSET + pid)
             ELSE IF Len(sub) = 1 /\ sub[1] \in DOMAIN PidFiles THEN VOk(PidFiles[sub[1]] + pid)
             ELSE resolve_fd_entry_path(pid, sub)
      BY <2>1, <2>3 DEF resolve_pid_path
    <3>3. PID_DIR_OFFSET + pid \in Nat
      BY <3>1, VirtualFsAssumption DEF PID_DIR_OFFSET
    <3>4. ASSUME NEW x \in DOMAIN PidFiles PROVE PidFiles[x] + pid \in Nat
      BY <3>1, ProcNumbers
    <3>5. QED BY <1>1, <1>2, <3>1, <3>2, <3>3, <3>4
  <2>4. QED BY <2>2, <2>3
<1>4. CASE rel \in {<<>>, <<".">>}
  BY <1>1, <1>4 DEF proc_resolve_path, PROC_ROOT_INO
<1>5. CASE rel \notin {<<>>, <<".">>}
  <2>1. proc_resolve_path(rel) = IF Len(rel) = 1 /\ rel[1] \in DOMAIN Fixed THEN VOk(Fixed[rel[1]])
           ELSE IF Len(rel) = 2 /\ rel[1] = "net" /\ rel[2] \in DOMAIN NetFiles THEN VOk(NetFiles[rel[2]])
           ELSE resolve_pid_path(rel)
    BY <1>5 DEF proc_resolve_path
  <2>2. (\A x \in DOMAIN Fixed : Fixed[x] \in Nat) /\ (\A x \in DOMAIN NetFiles : NetFiles[x] \in Nat)
    BY ProcNumbers
  <2>3. QED BY <1>1, <1>3, <2>1, <2>2
<1>6. QED BY <1>4, <1>5

IsOpen(t, full, create, id, r) == r = open(t, full, create, id)

LEMMA OpenGrows ==
    ASSUME Settled, NEW t, NEW n, Grow(t, n), NEW full \in Name, NEW create \in BOOLEAN,
           NEW r, IsOpen(t, full, create, Id + n, r)
    PROVE  /\ Opens(t, n, create, r) /\ r.val \in Nat
           /\ ~create /\ full # <<>> => r.table = t
           /\ resolve_fs(full).fs = "ramfs" /\ r.ok => Finds(r)
           /\ resolve_fs(full).fs = "dev" /\ r.ok => r.val \in 1 .. 7
           /\ resolve_fs(full).fs = "proc" => r = Lift(t, proc_resolve_path(resolve_fs(full).rel))
<1>1. PICK fs, rel : fs = resolve_fs(full).fs /\ rel = resolve_fs(full).rel
  OBVIOUS
<1>2. fs \in {"ramfs", "proc", "dev"} /\ (fs = "ramfs" => rel = full)
  BY <1>1, FsIs
<1>3. ASSUME NEW q, r = Lift(t, q), q.val \in Nat PROVE Opens(t, n, create, r) /\ r.val = q.val /\ r.ok = q.ok /\ r.table = t
  <2>1. r.table = t /\ r.val = q.val /\ r.ok = q.ok
    BY <1>3 DEF Lift
  <2>2. QED BY <2>1 DEF Opens
<1>4. CASE fs = "ramfs"
  <2>1. r = ram_open(t, full, create, Id + n)
    BY <1>1, <1>2, <1>4, Zenon DEF open, IsOpen
  <2>2. QED BY <1>1, <1>4, <2>1, RamOpen
<1>5. CASE fs = "proc"
  <2>1. PICK q : q = proc_resolve_path(rel)
    OBVIOUS
  <2>2. fs # "ramfs" /\ fs # "dev"
    BY <1>5
  <2>3. r = Lift(t, q)
    BY <1>1, <1>5, <2>1, <2>2, Zenon DEF open, IsOpen
  <2>4. q.val \in Nat
    BY <2>1, ProcOpen
  <2>5. QED BY <1>1, <1>3, <2>1, <2>2, <2>3, <2>4
<1>6. CASE fs = "dev"
  <2>1. PICK q : q = dev_resolve_path(rel)
    OBVIOUS
  <2>2. fs # "ramfs" /\ fs # "proc"
    BY <1>6
  <2>3. r = Lift(t, q)
    BY <1>1, <1>6, <2>1, <2>2, Zenon DEF open, IsOpen
  <2>4. q.val \in Nat /\ (q.ok => q.val \in 1 .. 7)
    BY <2>1, DevOpen
  <2>5. QED BY <1>1, <1>3, <2>2, <2>3, <2>4
<1>7. QED BY <1>2, <1>4, <1>5, <1>6

(* The same of a path that is only looked up. *)
\* What looking a path up may have done.
Looked(t, n, full, r) ==
    /\ \E m \in {n, n + 1} : Grow(r.table, m)
    /\ r.table = t \/ Barren(r.table)
    /\ full # <<>> => r.table = t
    /\ resolve_fs(full).fs = "ramfs" /\ r.ok => Finds(r)

LEMMA LookGrows ==
    ASSUME Settled, NEW t, NEW n, Grow(t, n), NEW full \in Name, NEW r, IsOpen(t, full, FALSE, Id + n, r)
    PROVE  Looked(t, n, full, r)
<1>1. PICK no \in BOOLEAN : no = FALSE
  OBVIOUS
<1>2. IsOpen(t, full, no, Id + n, r)
  BY <1>1
<1>3. /\ Opens(t, n, no, r) /\ (~no /\ full # <<>> => r.table = t)
      /\ resolve_fs(full).fs = "ramfs" /\ r.ok => Finds(r)
  BY <1>2, OpenGrows
<1>4. QED BY <1>1, <1>3 DEF Opens, Looked

(* ------------------------------------------------ write, add and take away *)

LEMMA WrittenType ==
    ASSUME NEW S, 0 \in S, NEW old \in Seq(S), NEW offset \in Nat, NEW bytes \in Seq(S)
    PROVE  Written(old, offset, bytes) \in Seq(S)
<1>1. PICK end \in Nat : end = offset + Len(bytes)
  OBVIOUS
<1>2. PICK m \in Nat : m = IF end > Len(old) THEN end ELSE Len(old)
  <2>1. (IF end > Len(old) THEN end ELSE Len(old)) \in Nat
    OBVIOUS
  <2>2. QED BY <2>1
<1>3. ASSUME NEW k \in 1 .. m
      PROVE (IF k > offset /\ k <= end THEN bytes[k - offset] ELSE IF k <= Len(old) THEN old[k] ELSE 0) \in S
  <2>1. CASE k > offset /\ k <= end
    <3>1. k - offset \in 1 .. Len(bytes)
      BY <1>1, <2>1
    <3>2. QED BY <2>1, <3>1
  <2>2. CASE ~(k > offset /\ k <= end) /\ k <= Len(old)
    BY <2>2
  <2>3. CASE ~(k > offset /\ k <= end) /\ ~(k <= Len(old))
    BY <2>3
  <2>4. QED BY <2>1, <2>2, <2>3
<1>4. [k \in 1 .. m |-> IF k > offset /\ k <= end THEN bytes[k - offset] ELSE IF k <= Len(old) THEN old[k] ELSE 0] \in [1 .. m -> S]
  BY <1>3
<1>5. Written(old, offset, bytes) =
        [k \in 1 .. m |-> IF k > offset /\ k <= end THEN bytes[k - offset] ELSE IF k <= Len(old) THEN old[k] ELSE 0]
  BY <1>1, <1>2 DEF Written
<1>6. PICK w : w = Written(old, offset, bytes) /\ w \in [1 .. m -> S]
  BY <1>4, <1>5
<1>7. w \in Seq(S)
  BY <1>6
<1>8. QED BY <1>6, <1>7

LEMMA RamWrite ==
    ASSUME NEW t \in Tables, NEW ino, NEW offset \in Nat, NEW bytes \in Content,
           NEW r, r = ram_write(t, ino, offset, bytes)
    PROVE  r.table \in Tables /\ SameTree(t, r.table) /\ r.val \in Nat
<1>1. PICK D : D = Bytes \cup {0}
  OBVIOUS
<1>2. ASSUME NEW e, r = Err(t, e) PROVE r.table \in Tables /\ SameTree(t, r.table) /\ r.val \in Nat
  BY <1>2 DEF Err, SameTree
<1>3. CASE ino = ROOT_INO \/ ~Live(t, ino) \/ offset + Len(bytes) > MAX_FILE_SIZE
  BY <1>2, <1>3 DEF ram_write
<1>4. CASE ~(ino = ROOT_INO \/ ~Live(t, ino) \/ offset + Len(bytes) > MAX_FILE_SIZE)
  <2>1. ino \in Slots
    BY <1>4 DEF Live
  <2>2. t[ino].data \in Seq(D)
    BY <1>1, <2>1 DEF Tables, Slot, Content
  <2>3. PICK m : m = Written(t[ino].data, offset, bytes)
    OBVIOUS
  <2>4. m \in Seq(D)
    BY <1>1, <2>2, <2>3, WrittenType DEF Content
  <2>5. PICK u : u = r.table /\ SetsData(t, u, ino, m) /\ r.val = Len(bytes)
    BY <1>4, <2>3 DEF ram_write, Ok, SetsData
  <2>6. u \in Tables /\ SameTree(t, u)
    <3>1. m \in Content
      BY <1>1, <2>4 DEF Content
    <3>2. /\ u \in Tables
          /\ \A i \in Slots : /\ u[i].name = t[i].name /\ u[i].in_use = t[i].in_use /\ u[i].is_dir = t[i].is_dir
                              /\ u[i].id = t[i].id /\ u[i].children = t[i].children
      BY <2>1, <2>5, <3>1, DataSet
    <3>3. QED BY <3>2 DEF SameTree
  <2>7. Len(bytes) \in Nat
    BY DEF Content
  <2>8. QED BY <2>5, <2>6, <2>7
<1>5. QED BY <1>3, <1>4

(* A directory's new entry. *)
LEMMA AddUnderDone ==
    ASSUME Settled, NEW t, NEW n, Grow(t, n), NEW d \in Slots, IsDir(t, d), NEW name \in Name,
           \A k \in DOMAIN t[d].children : t[d].children[k].name # name,
           NEW dir \in BOOLEAN, NEW link \in Name,
           NEW r, r = AddUnder(t, d, name, Id + n, [is_dir |-> dir, target |-> link])
    PROVE  Done(r.table)
<1>1. TableOK(t) /\ n \in Nat /\ t \in Tables
  BY DEF Grow, TableOK
<1>2. PICK free, made : free = find_free_slot(t) /\ made = init_slot(t, free, name, Id + n)
  OBVIOUS
<1>3. CASE free = 0
  <2>1. r.table = t
    BY <1>2, <1>3 DEF AddUnder, Err
  <2>2. QED BY <2>1, GrowDone
<1>4. CASE free # 0
  <2>1. free \in Slots /\ ~t[free].in_use
    BY <1>2, <1>4, FreeSlot
  <2>2. Id + n \in Nat /\ Id + n # 0 /\ \A i \in Slots : t[i].id # Id + n
    BY <1>1, IdBounds DEF Settled
  <2>3. PICK x : FileSlot(x, name, Id + n)
    BY DEF FileSlot
  <2>4. PICK s : s = [x EXCEPT !.is_dir = dir, !.symlink_target = link]
    OBVIOUS
  <2>5. EntrySlot(s, name, Id + n, dir, link)
    BY <2>3, <2>4 DEF EntrySlot
  <2>6. s \in Slot /\ s.name = name /\ s.in_use /\ s.id = Id + n /\ s.children = <<>>
    BY <2>2, <2>5, EntrySlotIs
  <2>7. made = [t EXCEPT ![free] = x]
    BY <1>2, <2>3 DEF init_slot, FileSlot
  <2>8. PICK v : v = [made EXCEPT ![free].is_dir = dir, ![free].symlink_target = link]
    OBVIOUS
  <2>9. v = [t EXCEPT ![free] = s]
    BY <1>1, <2>1, <2>4, <2>7, <2>8 DEF Tables
  <2>10. r.table = AddChild(v, d, free)
    BY <1>2, <1>4, <2>8 DEF AddUnder, Ok
  <2>11. Puts(t, v, free, s)
    BY <2>1, <2>2, <2>6, <2>9 DEF Puts
  <2>12. Links(v, r.table, d, free)
    <3>1. \A k \in DOMAIN t[d].children : t[d].children[k].name # s.name
      BY <2>6
    <3>2. Links(v, AddChild(v, d, free), d, free)
      BY <1>1, <2>11, <3>1, Linkable
    <3>3. QED BY <2>10, <3>2
  <2>13. ~NoDirs(t)
    BY DEF NoDirs
  <2>14. QED BY <2>6, <2>11, <2>12, <2>13, AddDone
<1>5. QED BY <1>3, <1>4

\* The slot that an inode means.
DirOf(t, ino) == IF ino = ROOT_INO THEN get_root_dir_idx(t) ELSE ino

LEMMA DirIs ==
    ASSUME NEW t, TableOK(t), NEW ino, FoundIn(t, ino)
    PROVE  /\ DirOf(t, ino) \in Slots /\ (ino = ROOT_INO => IsDir(t, DirOf(t, ino)))
           /\ ino # ROOT_INO => ino \in Slots /\ DirOf(t, ino) = ino
           /\ LiveDir(t, ino) => IsDir(t, DirOf(t, ino)) /\ ino # ROOT_INO
<1>1. RootFirst(t)
  BY DEF TableOK
<1>2. ROOT_INO \notin Slots
  BY SlotNumber DEF ROOT_INO
<1>3. CASE ino = ROOT_INO
  <2>1. get_root_dir_idx(t) \in Slots /\ IsRoot(t, get_root_dir_idx(t))
    BY <1>1, <1>2, <1>3, RootOrNone DEF FoundIn
  <2>2. QED BY <1>2, <1>3, <2>1 DEF IsRoot, DirOf, LiveDir, Live
<1>4. CASE ino # ROOT_INO
  BY <1>2, <1>4 DEF FoundIn, DirOf, LiveDir, Live, IsDir
<1>5. QED BY <1>3, <1>4

LEMMA RamMkdir ==
    ASSUME Settled, NEW t, NEW n, Grow(t, n), NEW ino, FoundIn(t, ino), NEW name \in Name,
           NEW r, r = ram_mkdir(t, ino, name, Id + n)
    PROVE  Done(r.table)
<1>1. TableOK(t) /\ t \in Tables
  BY DEF Grow, TableOK
<1>2. PICK d, p : d = DirOf(t, ino) /\ p = Parent(t, ino, Id + n, "NotADirectory")
  OBVIOUS
<1>3. /\ d \in Slots /\ (ino = ROOT_INO => IsDir(t, d)) /\ (ino # ROOT_INO => d = ino)
      /\ LiveDir(t, ino) => IsDir(t, d)
  BY <1>1, <1>2, DirIs
<1>4. CASE ino # ROOT_INO /\ ~LiveDir(t, ino)
  <2>1. p = Err(t, "NotADirectory")
    BY <1>2, <1>4 DEF Parent
  <2>2. r.table = t
    BY <1>2, <2>1 DEF ram_mkdir, Err
  <2>3. QED BY <2>2, GrowDone
<1>5. CASE ino = ROOT_INO \/ LiveDir(t, ino)
  <2>1. p = Ok(t, d) /\ IsDir(t, d)
    <3>1. CASE ino = ROOT_INO
      <4>1. get_root_dir_idx(t) # 0
        BY <3>1, SlotNumber DEF FoundIn, ROOT_INO
      <4>2. ensure_root_dir(t, Id + n) = Ok(t, get_root_dir_idx(t))
        BY <4>1 DEF ensure_root_dir
      <4>3. QED BY <1>2, <1>3, <3>1, <4>2 DEF Parent, DirOf
    <3>2. CASE ino # ROOT_INO
      BY <1>2, <1>3, <1>5, <3>2 DEF Parent
    <3>3. QED BY <3>1, <3>2
  <2>2. p.ok = TRUE /\ p.table = t /\ p.val = d
    BY <2>1 DEF Ok
  <2>3. CASE find_child(t, d, name) # 0
    <3>1. r.table = t
      BY <1>2, <2>2, <2>3 DEF ram_mkdir, Err
    <3>2. QED BY <3>1, GrowDone
  <2>4. CASE find_child(t, d, name) = 0
    <3>1. r = AddUnder(t, d, name, Id + n, [is_dir |-> TRUE, target |-> NoLink])
      BY <1>2, <2>2, <2>4 DEF ram_mkdir
    <3>2. \A k \in DOMAIN t[d].children : t[d].children[k].name # name
      BY <1>1, <1>3, <2>1, <2>4, FoundChild DEF IsDir
    <3>3. NoLink \in Name /\ TRUE \in BOOLEAN
      BY WordName DEF NoLink, Word
    <3>4. QED BY <1>3, <2>1, <3>1, <3>2, <3>3, AddUnderDone
  <2>5. QED BY <2>3, <2>4
<1>6. QED BY <1>4, <1>5

LEMMA RamSymlink ==
    ASSUME Settled, NEW t, NEW n, Grow(t, n), NEW ino, FoundIn(t, ino), NEW name \in Name, NEW target \in Name,
           NEW r, r = ram_symlink(t, ino, name, target, Id + n)
    PROVE  Done(r.table)
<1>1. TableOK(t) /\ t \in Tables /\ EntriesSound(t)
  BY DEF Grow, TableOK
<1>2. PICK d, p : d = DirOf(t, ino) /\ p = Parent(t, ino, Id + n, "NotFound")
  OBVIOUS
<1>3. /\ d \in Slots /\ (ino = ROOT_INO => IsDir(t, d)) /\ (ino # ROOT_INO => d = ino)
      /\ LiveDir(t, ino) => IsDir(t, d)
  BY <1>1, <1>2, DirIs
<1>4. ASSUME r.table = t PROVE Done(r.table)
  BY <1>4, GrowDone
<1>5. CASE ino = ROOT_INO /\ find_file(t, name) # 0
  <2>1. r.table = t
    BY <1>5 DEF ram_symlink, Err
  <2>2. QED BY <1>4, <2>1
<1>6. CASE ino # ROOT_INO /\ ~LiveDir(t, ino)
  <2>1. p = Err(t, "NotFound")
    BY <1>2, <1>6 DEF Parent
  <2>2. r.table = t
    BY <1>2, <1>6, <2>1 DEF ram_symlink, Err
  <2>3. QED BY <1>4, <2>2
<1>7. CASE (ino = ROOT_INO /\ find_file(t, name) = 0) \/ (ino # ROOT_INO /\ LiveDir(t, ino))
  <2>1. p = Ok(t, d) /\ IsDir(t, d)
    <3>1. CASE ino = ROOT_INO
      <4>1. get_root_dir_idx(t) # 0
        BY <3>1, SlotNumber DEF FoundIn, ROOT_INO
      <4>2. ensure_root_dir(t, Id + n) = Ok(t, get_root_dir_idx(t))
        BY <4>1 DEF ensure_root_dir
      <4>3. QED BY <1>2, <1>3, <3>1, <4>2 DEF Parent, DirOf
    <3>2. CASE ino # ROOT_INO
      BY <1>2, <1>3, <1>7, <3>2 DEF Parent
    <3>3. QED BY <3>1, <3>2
  <2>2. p.ok = TRUE /\ p.table = t /\ p.val = d
    BY <2>1 DEF Ok
  <2>3. CASE ino # ROOT_INO /\ find_child(t, ino, name) # 0
    <3>1. r.table = t
      BY <1>2, <2>2, <2>3 DEF ram_symlink, Err
    <3>2. QED BY <1>4, <3>1
  <2>4. CASE ino = ROOT_INO \/ find_child(t, ino, name) = 0
    <3>1. r = AddUnder(t, d, name, Id + n, [is_dir |-> FALSE, target |-> target])
      BY <1>2, <1>7, <2>2, <2>4 DEF ram_symlink
    <3>2. ASSUME NEW k \in DOMAIN t[d].children PROVE t[d].children[k].name # name
      <4>1. CASE ino # ROOT_INO
        BY <1>1, <1>3, <2>1, <2>4, <4>1, FoundChild DEF IsDir
      <4>2. CASE ino = ROOT_INO
        <5>1. PICK c : c = t[d].children[k].slot
          OBVIOUS
        <5>2. t[c].in_use /\ t[c].name = t[d].children[k].name
          BY <1>1, <1>3, <5>1 DEF EntriesSound
        <5>3. c \in Slots
          <6>1. PICK l \in Seq(Child) : l = t[d].children
            BY <1>1, <1>3 DEF Tables, Slot
          <6>2. l[k] \in Child
            BY <6>1
          <6>3. QED BY <5>1, <6>1, <6>2 DEF Child
        <5>4. ~(t[c].in_use /\ t[c].name = name)
          BY <1>7, <4>2, <5>3, FoundFile
        <5>5. QED BY <5>2, <5>4
      <4>3. QED BY <4>1, <4>2
    <3>3. FALSE \in BOOLEAN
      OBVIOUS
    <3>4. QED BY <1>3, <2>1, <3>1, <3>2, <3>3, AddUnderDone
  <2>5. QED BY <2>3, <2>4
<1>8. QED BY <1>5, <1>6, <1>7

(* Unlink and rmdir take the entry and its slot away, or nothing. *)
Takes(t, ino, name, r) ==
    \/ r.table = t
    \/ /\ ino = ROOT_INO \/ LiveDir(t, ino)
       /\ find_child(t, DirOf(t, ino), name) # 0
       /\ r.table = clear_slot(DropChild(t, DirOf(t, ino), find_child(t, DirOf(t, ino), name)),
                               find_child(t, DirOf(t, ino), name))

LEMMA RamTakes ==
    ASSUME NEW t, NEW ino, NEW name
    PROVE  /\ Takes(t, ino, name, ram_unlink(t, ino, name))
           /\ Takes(t, ino, name, ram_rmdir(t, ino, name))
<1>1. Takes(t, ino, name, ram_unlink(t, ino, name))
  BY DEF Takes, ram_unlink, DirOf, Ok, Err
<1>2. Takes(t, ino, name, ram_rmdir(t, ino, name))
  BY DEF Takes, ram_rmdir, DirOf, Ok, Err
<1>3. QED BY <1>1, <1>2

LEMMA TakesDone ==
    ASSUME Settled, NEW t, NEW n, Grow(t, n), n \in {0, 1} \/ Barren(t), NEW ino, FoundIn(t, ino), NEW name,
           NEW r, Takes(t, ino, name, r)
    PROVE  Done(r.table)
<1>1. TableOK(t) /\ t \in Tables
  BY DEF Grow, TableOK
<1>2. CASE r.table = t
  BY <1>2, GrowDone
<1>3. CASE r.table # t
  <2>1. PICK d, c : /\ d = DirOf(t, ino) /\ c = find_child(t, d, name) /\ c # 0 /\ (ino = ROOT_INO \/ LiveDir(t, ino))
                    /\ r.table = clear_slot(DropChild(t, d, c), c)
    BY <1>3 DEF Takes
  <2>2. d \in Slots /\ IsDir(t, d)
    BY <1>1, <2>1, DirIs
  <2>3. PICK k \in DOMAIN t[d].children : t[d].children[k].slot = c
    BY <1>1, <2>1, <2>2, FoundChild
  <2>4. c \in Slots
    <3>1. PICK l \in Seq(Child) : l = t[d].children
      BY <1>1, <2>2 DEF Tables, Slot
    <3>2. l[k] \in Child
      BY <3>1
    <3>3. QED BY <2>3, <3>1, <3>2 DEF Child
  <2>5. Clears(t, r.table, d, c)
    BY <2>1, <2>2, <2>3, <2>4 DEF Clears
  <2>6. ~Barren(t)
    <3>1. ASSUME Barren(t) PROVE FALSE
      <4>1. t[d].children = <<>>
        BY <2>2, <3>1 DEF Barren
      <4>2. QED BY <2>3, <4>1
    <3>2. QED BY <3>1
  <2>7. n \in {0, 1}
    BY <2>6
  <2>8. QED BY <2>5, <2>7, ClearDone
<1>4. QED BY <1>2, <1>3

(* ------------------------------------------------------------ read and rename *)

LEMMA RamRead ==
    ASSUME NEW t \in Tables, NEW ino, NEW offset \in Nat, NEW len \in Nat, NEW r, r = ram_read(t, ino, offset, len)
    PROVE  /\ r.val \in Nat
           /\ r.ok => ino \in Slots /\ (r.val = 0 \/ offset + r.val <= Len(t[ino].data))
<1>1. CASE ino = ROOT_INO \/ ~Live(t, ino)
  BY <1>1 DEF ram_read, Err
<1>2. CASE ~(ino = ROOT_INO \/ ~Live(t, ino))
  <2>1. ino \in Slots
    BY <1>2 DEF Live
  <2>2. PICK L \in Nat : L = Len(t[ino].data)
    <3>1. t[ino].data \in Seq(Bytes \cup {0})
      BY <2>1 DEF Tables, Slot, Content
    <3>2. Len(t[ino].data) \in Nat
      BY <3>1
    <3>3. QED BY <3>2
  <2>3. CASE offset >= L
    BY <1>2, <2>1, <2>2, <2>3 DEF ram_read, Ok
  <2>4. CASE ~(offset >= L)
    <3>1. r.val = Smaller(len, L - offset)
      BY <1>2, <2>2, <2>4 DEF ram_read, Ok
    <3>2. r.val \in Nat /\ offset + r.val <= L
      BY <2>4, <3>1 DEF Smaller
    <3>3. QED BY <2>1, <2>2, <3>2
  <2>5. QED BY <2>3, <2>4
<1>3. QED BY <1>1, <1>2

LEMMA BytesReadType ==
    ASSUME NEW t \in Tables, NEW ino, NEW len \in Nat
    PROVE  BytesRead(t, ino, 0, len) \in Content
<1>1. PICK r : r = ram_read(t, ino, 0, len)
  OBVIOUS
<1>2. CASE ~r.ok
  BY <1>1, <1>2 DEF BytesRead, Content
<1>3. CASE r.ok
  <2>1. r.val \in Nat /\ ino \in Slots /\ (r.val = 0 \/ 0 + r.val <= Len(t[ino].data))
    BY <1>1, <1>3, RamRead
  <2>2. PICK l \in Seq(Bytes \cup {0}) : l = t[ino].data
    BY <2>1 DEF Tables, Slot, Content
  <2>3. PICK m \in 0 .. Len(l) : m = r.val
    BY <2>1, <2>2
  <2>4. BytesRead(t, ino, 0, len) = SubSeq(l, 1, m)
    BY <1>1, <1>3, <2>1, <2>2, <2>3 DEF BytesRead
  <2>5. SubSeq(l, 1, m) \in Seq(Bytes \cup {0})
    BY CutJoin
  <2>6. QED BY <2>4, <2>5 DEF Content
<1>4. QED BY <1>2, <1>3

(* ------------------------------------------------------ rename, step by step *)

RenameSteps(old, new, from, bytes, to, w, up, un) ==
    /\ from = open(table, old, FALSE, Id)
    /\ bytes = BytesRead(from.table, from.val, 0, MAX_FILE_SIZE)
    /\ to = open(from.table, new, TRUE, NextId(from.table))
    /\ w = IF bytes # <<>> THEN ram_write(to.table, to.val, 0, bytes) ELSE to
    /\ up = open(w.table, ParentOf(old), FALSE, NextId(w.table))
    /\ un = IF up.ok THEN ram_unlink(up.table, up.val, <<NameOf(old)>>) ELSE up
    /\ Renamed(old, new) =
         IF ~from.ok THEN from
         ELSE IF to.panic THEN to
         ELSE IF ~to.ok THEN Err(to.table, "Busy")
         ELSE IF ~HasName(old) THEN Ok(w.table, 0)
         ELSE IF up.panic THEN up ELSE Ok(un.table, 0)

LEMMA RenameHasSteps ==
    ASSUME NEW old, NEW new
    PROVE  \E from, bytes, to, w, up, un : RenameSteps(old, new, from, bytes, to, w, up, un)
<1> DEFINE from == open(table, old, FALSE, Id)
           bytes == BytesRead(from.table, from.val, 0, MAX_FILE_SIZE)
           to == open(from.table, new, TRUE, NextId(from.table))
           w == IF bytes # <<>> THEN ram_write(to.table, to.val, 0, bytes) ELSE to
           up == open(w.table, ParentOf(old), FALSE, NextId(w.table))
           un == IF up.ok THEN ram_unlink(up.table, up.val, <<NameOf(old)>>) ELSE up
<1>1. /\ from = open(table, old, FALSE, Id)
      /\ bytes = BytesRead(from.table, from.val, 0, MAX_FILE_SIZE)
      /\ to = open(from.table, new, TRUE, NextId(from.table))
      /\ w = IF bytes # <<>> THEN ram_write(to.table, to.val, 0, bytes) ELSE to
      /\ up = open(w.table, ParentOf(old), FALSE, NextId(w.table))
      /\ un = IF up.ok THEN ram_unlink(up.table, up.val, <<NameOf(old)>>) ELSE up
  OBVIOUS
<1>2. Renamed(old, new) =
        IF ~from.ok THEN from
        ELSE IF to.panic THEN to
        ELSE IF ~to.ok THEN Err(to.table, "Busy")
        ELSE IF ~HasName(old) THEN Ok(w.table, 0)
        ELSE IF up.panic THEN up ELSE Ok(un.table, 0)
  BY DEF Renamed
<1> HIDE DEF from, bytes, to, w, up, un
<1>3. RenameSteps(old, new, from, bytes, to, w, up, un)
  BY <1>1, <1>2 DEF RenameSteps
<1>4. QED BY <1>3

(* Every table on the way is sound, and the parent's inode is a directory's *)
(* or a file's that is there.                                               *)
RenameGrown(old, from, bytes, to, w, up) ==
    /\ bytes \in Content
    /\ \E a \in {0, 1} :
          /\ Grow(from.table, a) /\ (old # <<>> => from.table = table /\ a = 0)
          /\ \E b \in {a, a + 1} : Grow(to.table, b) /\ Grow(w.table, b)
    /\ old # <<>> => /\ \E c : Grow(up.table, c) /\ (c \in {0, 1} \/ Barren(up.table))
                     /\ up.ok => FoundIn(up.table, up.val)

LEMMA RenameGrows ==
    ASSUME Settled, MAX_FILE_SIZE \in Nat, NEW old \in Name, NEW new \in Name,
           resolve_fs(old).fs = "ramfs", resolve_fs(new).fs = "ramfs",
           NEW from, NEW bytes, NEW to, NEW w, NEW up, NEW un,
           RenameSteps(old, new, from, bytes, to, w, up, un)
    PROVE  RenameGrown(old, from, bytes, to, w, up)
<1>1. /\ from = open(table, old, FALSE, Id)
      /\ bytes = BytesRead(from.table, from.val, 0, MAX_FILE_SIZE)
      /\ to = open(from.table, new, TRUE, NextId(from.table))
      /\ w = IF bytes # <<>> THEN ram_write(to.table, to.val, 0, bytes) ELSE to
      /\ up = open(w.table, ParentOf(old), FALSE, NextId(w.table))
  BY DEF RenameSteps
<1>3. Grow(table, 0) /\ Id + 0 = Id /\ TRUE \in BOOLEAN /\ FALSE \in BOOLEAN
  BY GrowStart, IdBounds
<1>4. PICK a \in {0, 1} : Grow(from.table, a) /\ (old # <<>> => from.table = table)
  <2>1. PICK z : z = 0 /\ Grow(table, z) /\ IsOpen(table, old, FALSE, Id + z, from)
    BY <1>1, <1>3 DEF IsOpen
  <2>2. Grow(table, z) /\ IsOpen(table, old, FALSE, Id + z, from)
    BY <2>1
  <2>3. Looked(table, z, old, from)
    BY <2>2, LookGrows
  <2>4. QED BY <2>1, <2>3 DEF Looked
<1>5. PICK b : b \in {a, a + 1} /\ Grow(to.table, b)
  <2>1. IsOpen(from.table, new, TRUE, Id + a, to)
    BY <1>1, <1>4, NextIdIs DEF IsOpen
  <2>2. Opens(from.table, a, TRUE, to)
    BY <1>3, <1>4, <2>1, OpenGrows
  <2>3. QED BY <2>2 DEF Opens
<1>6. bytes \in Content
  BY <1>1, <1>4, BytesReadType DEF Grow, TableOK
<1>7. Grow(w.table, b)
  <2>2. CASE bytes # <<>>
    <3>1. to.table \in Tables /\ w = ram_write(to.table, to.val, 0, bytes) /\ 0 \in Nat
      BY <1>1, <1>5, <2>2 DEF Grow, TableOK
    <3>2. w.table \in Tables /\ SameTree(to.table, w.table)
      BY <1>6, <3>1, RamWrite
    <3>3. QED BY <1>5, <3>2, GrowSame
  <2>3. CASE bytes = <<>>
    BY <1>1, <1>5, <2>3
  <2>4. QED BY <2>2, <2>3
<1>8. old # <<>> => a = 0
  <2>1. ASSUME old # <<>> PROVE a = 0
    <3>1. Grow(table, a)
      BY <1>4, <2>1
    <3>2. Ids(table) = Ids(table) \cup (Id .. Id + a - 1) /\ Id \notin Ids(table) /\ Id \in Nat
      BY <3>1, IdBounds DEF Grow, Settled
    <3>3. QED BY <3>2
  <2>2. QED BY <2>1
<1>9. ASSUME old # <<>>
      PROVE  /\ \E c : Grow(up.table, c) /\ (c \in {0, 1} \/ Barren(up.table))
             /\ up.ok => FoundIn(up.table, up.val)
  <2>1. ParentOf(old) \in Name /\ resolve_fs(ParentOf(old)).fs = "ramfs"
    BY <1>9, ParentIs
  <2>4. b \in {0, 1}
    BY <1>5, <1>8, <1>9
  <2>5. IsOpen(w.table, ParentOf(old), FALSE, Id + b, up)
    BY <1>1, <1>7, <2>4, NextIdIs DEF IsOpen
  <2>6. /\ \E m \in {b, b + 1} : Grow(up.table, m)
        /\ (up.table = w.table \/ Barren(up.table)) /\ (up.ok => Finds(up))
    <3>1. PICK dir, v : dir \in Name /\ dir = ParentOf(old) /\ v = w.table /\ resolve_fs(dir).fs = "ramfs"
      BY <2>1
    <3>2. Grow(v, b) /\ IsOpen(v, dir, FALSE, Id + b, up)
      BY <1>7, <2>5, <3>1
    <3>3. /\ \E m \in {b, b + 1} : Grow(up.table, m)
          /\ up.table = v \/ Barren(up.table)
          /\ resolve_fs(dir).fs = "ramfs" /\ up.ok => Finds(up)
      BY <3>1, <3>2, LookGrows DEF Looked
    <3>4. QED BY <3>1, <3>3
  <2>7. PICK c : Grow(up.table, c) /\ (c \in {0, 1} \/ Barren(up.table))
    <3>1. CASE up.table = w.table
      BY <1>7, <2>4, <3>1
    <3>2. CASE Barren(up.table)
      BY <2>6, <3>2
    <3>3. QED BY <2>6, <3>1, <3>2
  <2>8. QED BY <2>6, <2>7 DEF Finds
<1>10. \E d \in {a, a + 1} : Grow(to.table, d) /\ Grow(w.table, d)
  BY <1>5, <1>7
<1>11. QED BY <1>4, <1>6, <1>8, <1>9, <1>10 DEF RenameGrown

LEMMA RenamedDone ==
    ASSUME Settled, MAX_FILE_SIZE \in Nat, NEW old \in Name, NEW new \in Name,
           resolve_fs(old).fs = "ramfs", resolve_fs(new).fs = "ramfs"
    PROVE  Done(Renamed(old, new).table)
<1>1. PICK from, bytes, to, w, up, un : RenameSteps(old, new, from, bytes, to, w, up, un)
  BY RenameHasSteps
<1>2. RenameGrown(old, from, bytes, to, w, up)
  BY <1>1, RenameGrows
<1>3. Renamed(old, new) =
         IF ~from.ok THEN from
         ELSE IF to.panic THEN to
         ELSE IF ~to.ok THEN Err(to.table, "Busy")
         ELSE IF ~HasName(old) THEN Ok(w.table, 0)
         ELSE IF up.panic THEN up ELSE Ok(un.table, 0)
  BY <1>1 DEF RenameSteps
<1>8. un = IF up.ok THEN ram_unlink(up.table, up.val, <<NameOf(old)>>) ELSE up
  BY <1>1 DEF RenameSteps
<1>4. Done(from.table) /\ Done(to.table) /\ Done(w.table)
  BY <1>2, GrowDone DEF RenameGrown
<1>5. CASE ~from.ok \/ to.panic \/ ~to.ok \/ ~HasName(old)
  <2>1. Renamed(old, new).table \in {from.table, to.table, w.table}
    BY <1>3, <1>5 DEF Ok, Err
  <2>2. QED BY <1>4, <2>1
<1>6. CASE from.ok /\ ~to.panic /\ to.ok /\ HasName(old)
  <2>1. PICK c : Grow(up.table, c) /\ (c \in {0, 1} \/ Barren(up.table)) /\ (up.ok => FoundIn(up.table, up.val))
    BY <1>2, <1>6 DEF RenameGrown, HasName
  <2>2. CASE up.panic \/ ~up.ok
    <3>1. Renamed(old, new) = up \/ (Renamed(old, new) = Ok(un.table, 0) /\ un = up)
      BY <1>3, <1>6, <1>8, <2>2
    <3>2. Renamed(old, new).table = up.table
      BY <3>1 DEF Ok
    <3>3. QED BY <2>1, <3>2, GrowDone
  <2>3. CASE ~up.panic /\ up.ok
    <3>1. Renamed(old, new) = Ok(un.table, 0) /\ un = ram_unlink(up.table, up.val, <<NameOf(old)>>)
      BY <1>3, <1>6, <1>8, <2>3
    <3>2. Takes(up.table, up.val, <<NameOf(old)>>, un)
      BY <3>1, RamTakes
    <3>3. Done(un.table)
      BY <2>1, <2>3, <3>2, TakesDone
    <3>4. Renamed(old, new).table = un.table
      BY <3>1 DEF Ok
    <3>5. QED BY <3>3, <3>4
  <2>4. QED BY <2>2, <2>3
<1>7. QED BY <1>5, <1>6

(* ---------------------------------------------------------------- the calls *)

Entry == [path : Name, ino : Int, offset : Nat, id : Nat]

\* A descriptor's file is in the slot that its inode names, or was removed.
Follows(e) == e.id # 0 => e.ino \in Slots /\ (e.id \in removed \/ table[e.ino].id = e.id)

\* A descriptor of devfs names a device, one of procfs what its path says.
PidFile(m, ino) ==
    (/\ m.fs = "proc" /\ Len(m.rel) = 2 /\ m.rel[1] \in DOMAIN PidOf /\ PidOf[m.rel[1]] < PidSpan
     /\ m.rel[2] \in DOMAIN PidFiles) =>
        Decoded(ino) = [what |-> m.rel[2], pid |-> PidOf[m.rel[1]]]
Virtual(e) == e # NoFd => /\ resolve_fs(e.path).fs = "dev" => e.ino \in 1 .. 7
                          /\ PidFile(resolve_fs(e.path), e.ino)

FilesInv == /\ use \in Uses /\ cwd \in Name /\ Settled
            /\ fd_table \in [Fds -> Entry]
            /\ \A fd \in Fds : Follows(fd_table[fd]) /\ Virtual(fd_table[fd])

LEMMA SeqSubset == ASSUME NEW A, NEW B, A \subseteq B, NEW s \in Seq(A) PROVE s \in Seq(B)
<1>1. PICK n \in Nat : n = Len(s) /\ s \in [1 .. n -> A]
  OBVIOUS
<1>2. s \in [1 .. n -> B]
  BY <1>1
<1>3. QED BY <1>2

LEMMA ResolvedPath == ASSUME FilesInv, NEW p \in UserPaths PROVE resolve_path(p) \in Name
<1>1. p.path \in Seq(STRING) /\ cwd \in Seq(Word)
  BY FilesAssumption DEF FilesInv, UserPaths, Name
<1>2. p.path \in Seq(Word)
  <2>1. STRING \subseteq Word
    BY DEF Word
  <2>2. PICK s \in Seq(STRING) : s = p.path
    BY <1>1
  <2>3. s \in Seq(Word)
    BY <2>1, SeqSubset
  <2>4. QED BY <2>2, <2>3
<1>3. cwd \o p.path \in Seq(Word)
  BY <1>1, <1>2
<1>4. QED BY <1>2, <1>3 DEF resolve_path, Name

(* A call that only changes the table. *)
Changed(t) == NewTable(t) /\ UNCHANGED <<fd_table, cwd, use>>

LEMMA FollowsOn ==
    ASSUME Settled, NEW t, Done(t), NewTable(t), NEW e, Follows(e)
    PROVE  Follows(e)'
<1>1. /\ table' = t /\ removed \subseteq removed'
      /\ \A i \in Slots : table[i].id # 0 => t[i].id = table[i].id \/ table[i].id \in removed'
  BY DoneStep
<1>2. QED BY <1>1 DEF Follows

LEMMA ChangedInv == ASSUME FilesInv, NEW t, Done(t), Changed(t) PROVE FilesInv'
<1>1. Settled /\ NewTable(t) /\ fd_table' = fd_table /\ cwd' = cwd /\ use' = use
  BY DEF FilesInv, Changed
<1>2. Settled'
  BY <1>1, DoneStep
<1>3. Fds' = Fds
  BY <1>1 DEF Fds
<1>4. ASSUME NEW fd \in Fds PROVE Follows(fd_table[fd])' /\ Virtual(fd_table[fd])'
  <2>1. PICK e : e = fd_table[fd] /\ e = fd_table'[fd]
    BY <1>1
  <2>2. Follows(e) /\ Virtual(e)
    BY <2>1 DEF FilesInv
  <2>3. Follows(e)'
    BY <1>1, <2>2, FollowsOn
  <2>4. Virtual(fd_table'[fd])
    BY <2>1, <2>2
  <2>5. Follows(fd_table[fd])'
    BY <2>1, <2>3 DEF Follows
  <2>6. QED BY <2>4, <2>5
<1>5. QED BY <1>1, <1>2, <1>3, <1>4 DEF FilesInv

(* A call that looks a path up. *)
LEMMA LookDone ==
    ASSUME FilesInv, NEW p \in UserPaths, NEW r, IsOpen(table, resolve_path(p), FALSE, Id, r)
    PROVE  Done(r.table)
<1>1. Settled /\ Grow(table, 0)
  BY GrowStart DEF FilesInv
<1>2. PICK full, z : full = resolve_path(p) /\ z = 0 /\ Grow(table, z) /\ Id + z = Id
  BY <1>1, IdBounds
<1>3. full \in Name /\ IsOpen(table, full, FALSE, Id + z, r)
  BY <1>2, ResolvedPath
<1>4. PICK m : Grow(r.table, m)
  <2>1. Looked(table, z, full, r)
    BY <1>1, <1>2, <1>3, LookGrows
  <2>2. QED BY <2>1 DEF Looked
<1>5. QED BY <1>1, <1>4, GrowDone

LEMMA LooksInv ==
    ASSUME FilesInv, UNCHANGED use, NEW p \in UserPaths,
           \/ sys_fs_stat(p) \/ sys_fs_readdir(p) \/ sys_readlink(p) \/ sys_chmod(p)
           \/ \E x_ok \in BOOLEAN : sys_access(p, x_ok)
    PROVE  FilesInv'
<1>1. PICK r : IsOpen(table, resolve_path(p), FALSE, Id, r)
  BY DEF IsOpen
<1>2. Changed(r.table)
  <2>1. r = open(table, resolve_path(p), FALSE, Id)
    BY <1>1 DEF IsOpen
  <2>2. CASE sys_fs_stat(p)
    BY <2>1, <2>2 DEF sys_fs_stat, Looks, Changed
  <2>3. CASE sys_fs_readdir(p)
    BY <2>1, <2>3 DEF sys_fs_readdir, Looks, Changed
  <2>4. CASE sys_readlink(p)
    BY <2>1, <2>4 DEF sys_readlink, Looks, Changed
  <2>5. CASE sys_chmod(p)
    BY <2>1, <2>5 DEF sys_chmod, Looks, Changed
  <2>6. ASSUME NEW x_ok \in BOOLEAN, sys_access(p, x_ok) PROVE Changed(r.table)
    BY <2>1, <2>6 DEF sys_access, Looks, Changed
  <2>7. QED BY <2>2, <2>3, <2>4, <2>5, <2>6
<1>3. Done(r.table)
  BY <1>1, LookDone
<1>4. QED BY <1>2, <1>3, ChangedInv

(* The parent of a path is opened before an entry is changed. *)
LEMMA ParentOpened ==
    ASSUME FilesInv, NEW full \in Name, full # <<>>, NEW up, IsOpen(table, ParentOf(full), FALSE, Id, up)
    PROVE  /\ \E n \in {0, 1} : Grow(up.table, n) /\ NextId(up.table) = Id + n
           /\ resolve_fs(ParentOf(full)).fs = "ramfs" /\ up.ok => FoundIn(up.table, up.val)
           /\ <<NameOf(full)>> \in Name
<1>1. Settled /\ Grow(table, 0)
  BY GrowStart DEF FilesInv
<1>2. PICK dir, z : dir = ParentOf(full) /\ z = 0 /\ Grow(table, z) /\ Id + z = Id
  BY <1>1, IdBounds
<1>3. dir \in Name /\ IsOpen(table, dir, FALSE, Id + z, up) /\ <<NameOf(full)>> \in Name /\ Grow(table, z)
  BY <1>2, ParentIs
<1>4. /\ \E m \in {z, z + 1} : Grow(up.table, m)
      /\ resolve_fs(dir).fs = "ramfs" /\ up.ok => Finds(up)
  <2>1. Looked(table, z, dir, up)
    BY <1>1, <1>3, LookGrows
  <2>2. QED BY <2>1 DEF Looked
<1>5. PICK n \in {0, 1} : Grow(up.table, n)
  BY <1>2, <1>4
<1>6. NextId(up.table) = Id + n
  BY <1>1, <1>5, NextIdIs
<1>7. QED BY <1>2, <1>3, <1>4, <1>5, <1>6 DEF Finds

(* The step of a call that changes an entry, with the method's result. *)
EntryStep(p, up, r) ==
    LET full == resolve_path(p)
    IN  /\ UNCHANGED <<fd_table, cwd, use>>
        /\ IF HasName(full) THEN NewTable(r.table) ELSE UNCHANGED <<table, born, history>>

LEMMA EntryInv ==
    ASSUME FilesInv, NEW p, NEW up, NEW r, EntryStep(p, up, r), HasName(resolve_path(p)) => Done(r.table)
    PROVE  FilesInv'
<1>1. CASE HasName(resolve_path(p))
  <2>1. Changed(r.table) /\ Done(r.table)
    BY <1>1 DEF EntryStep, Changed
  <2>2. QED BY <2>1, ChangedInv
<1>2. CASE ~HasName(resolve_path(p))
  <2>1. UNCHANGED <<table, born, history, fd_table, cwd, use>>
    BY <1>2 DEF EntryStep
  <2>2. UNCHANGED <<table, born, removed, early, orphans, fd_table, cwd, use>>
    BY <2>1 DEF history
  <2>3. QED BY <2>2 DEF FilesInv, Settled, Fds, Follows, Virtual
<1>3. QED BY <1>1, <1>2

LEMMA EntriesInv ==
    ASSUME FilesInv, UNCHANGED use, NEW p \in UserPaths,
           \/ sys_fs_unlink(p) \/ sys_fs_mkdir(p) \/ sys_fs_rmdir(p)
           \/ \E target \in use.targets : sys_symlink(p, target)
    PROVE  FilesInv'
<1>1. PICK full, up, fs, n : full = resolve_path(p) /\ up = open(table, ParentOf(full), FALSE, Id)
                             /\ fs = resolve_fs(ParentOf(full)).fs /\ n = <<NameOf(full)>>
  OBVIOUS
<1>2. full \in Name /\ Settled
  BY <1>1, ResolvedPath DEF FilesInv
<1>3. ASSUME HasName(full)
      PROVE  /\ \E m \in {0, 1} : Grow(up.table, m) /\ NextId(up.table) = Id + m
             /\ fs = "ramfs" /\ up.ok => FoundIn(up.table, up.val)
             /\ n \in Name
  <2>1. full # <<>> /\ IsOpen(table, ParentOf(full), FALSE, Id, up)
    BY <1>1, <1>3 DEF HasName, IsOpen
  <2>2. QED BY <1>1, <1>2, <2>1, ParentOpened
<1>4. ASSUME HasName(full), NEW e PROVE Done(Err(up.table, e).table) /\ Done(up.table)
  <2>1. Err(up.table, e).table = up.table
    BY DEF Err
  <2>2. QED BY <1>2, <1>3, <1>4, <2>1, GrowDone
<1>5. CASE sys_fs_unlink(p)
  <2>1. PICK r : r = IF up.ok /\ fs = "ramfs" THEN ram_unlink(up.table, up.val, n)
                     ELSE IF up.ok THEN Err(up.table, "PermissionDenied") ELSE up
    OBVIOUS
  <2>2. EntryStep(p, up, r)
    BY <1>1, <1>5, <2>1 DEF sys_fs_unlink, Changes, EntryStep
  <2>3. ASSUME HasName(full) PROVE Done(r.table)
    <3>1. CASE up.ok /\ fs = "ramfs"
      <4>1. PICK m \in {0, 1} : Grow(up.table, m)
        BY <1>3, <2>3
      <4>2. Takes(up.table, up.val, n, r) /\ FoundIn(up.table, up.val)
        BY <1>3, <2>1, <2>3, <3>1, RamTakes
      <4>3. QED BY <1>2, <4>1, <4>2, TakesDone
    <3>2. CASE ~(up.ok /\ fs = "ramfs")
      BY <1>4, <2>1, <2>3, <3>2
    <3>3. QED BY <3>1, <3>2
  <2>4. QED BY <1>1, <2>2, <2>3, EntryInv
<1>6. CASE sys_fs_rmdir(p)
  <2>1. PICK r : r = IF up.ok /\ fs = "ramfs" THEN ram_rmdir(up.table, up.val, n)
                     ELSE IF up.ok THEN Err(up.table, "NotSupported") ELSE up
    OBVIOUS
  <2>2. EntryStep(p, up, r)
    BY <1>1, <1>6, <2>1 DEF sys_fs_rmdir, Changes, EntryStep
  <2>3. ASSUME HasName(full) PROVE Done(r.table)
    <3>1. CASE up.ok /\ fs = "ramfs"
      <4>1. PICK m \in {0, 1} : Grow(up.table, m)
        BY <1>3, <2>3
      <4>2. Takes(up.table, up.val, n, r) /\ FoundIn(up.table, up.val)
        BY <1>3, <2>1, <2>3, <3>1, RamTakes
      <4>3. QED BY <1>2, <4>1, <4>2, TakesDone
    <3>2. CASE ~(up.ok /\ fs = "ramfs")
      BY <1>4, <2>1, <2>3, <3>2
    <3>3. QED BY <3>1, <3>2
  <2>4. QED BY <1>1, <2>2, <2>3, EntryInv
<1>7. CASE sys_fs_mkdir(p)
  <2>1. PICK r : r = IF up.ok /\ fs = "ramfs" THEN ram_mkdir(up.table, up.val, n, NextId(up.table))
                     ELSE IF up.ok THEN Err(up.table, "NotSupported") ELSE up
    OBVIOUS
  <2>2. EntryStep(p, up, r)
    BY <1>1, <1>7, <2>1 DEF sys_fs_mkdir, Changes, EntryStep
  <2>3. ASSUME HasName(full) PROVE Done(r.table)
    <3>1. CASE up.ok /\ fs = "ramfs"
      <4>1. PICK m, t, ino : m \in {0, 1} /\ t = up.table /\ ino = up.val /\ Grow(t, m) /\ NextId(t) = Id + m
        BY <1>3, <2>3
      <4>2. r = ram_mkdir(t, ino, n, Id + m) /\ FoundIn(t, ino) /\ n \in Name
        BY <1>3, <2>1, <2>3, <3>1, <4>1
      <4>3. QED BY <1>2, <4>1, <4>2, RamMkdir
    <3>2. CASE ~(up.ok /\ fs = "ramfs")
      BY <1>4, <2>1, <2>3, <3>2
    <3>3. QED BY <3>1, <3>2
  <2>4. QED BY <1>1, <2>2, <2>3, EntryInv
<1>8. ASSUME NEW target \in use.targets, sys_symlink(p, target) PROVE FilesInv'
  <2>1. PICK r : r = IF up.ok /\ fs = "ramfs" THEN ram_symlink(up.table, up.val, n, target, NextId(up.table))
                     ELSE IF up.ok THEN Err(up.table, "NotSupported") ELSE up
    OBVIOUS
  <2>2. EntryStep(p, up, r)
    BY <1>1, <1>8, <2>1 DEF sys_symlink, Changes, EntryStep
  <2>3. target \in Name
    <3>1. target \in Seq(STRING) /\ STRING \subseteq Word
      BY <1>8, FilesAssumption DEF FilesInv, Word
    <3>2. QED BY <3>1, SeqSubset DEF Name
  <2>4. ASSUME HasName(full) PROVE Done(r.table)
    <3>1. CASE up.ok /\ fs = "ramfs"
      <4>1. PICK m, t, ino : m \in {0, 1} /\ t = up.table /\ ino = up.val /\ Grow(t, m) /\ NextId(t) = Id + m
        BY <1>3, <2>4
      <4>2. r = ram_symlink(t, ino, n, target, Id + m) /\ FoundIn(t, ino) /\ n \in Name
        BY <1>3, <2>1, <2>4, <3>1, <4>1
      <4>3. QED BY <1>2, <2>3, <4>1, <4>2, RamSymlink
    <3>2. CASE ~(up.ok /\ fs = "ramfs")
      BY <1>4, <2>1, <2>4, <3>2
    <3>3. QED BY <3>1, <3>2
  <2>5. QED BY <1>1, <2>2, <2>4, EntryInv
<1>9. QED BY <1>5, <1>6, <1>7, <1>8

LEMMA RenameInv ==
    ASSUME FilesInv, UNCHANGED use, NEW p \in UserPaths, NEW q \in UserPaths, sys_fs_rename(p, q)
    PROVE  FilesInv'
<1>1. PICK old, new : old = resolve_path(p) /\ new = resolve_path(q)
  OBVIOUS
<1>2. old \in Name /\ new \in Name /\ Settled /\ MAX_FILE_SIZE \in Nat
  BY <1>1, ResolvedPath, RamfsAssumption DEF FilesInv
<1>3. /\ resolve_fs(old).fs = "ramfs" /\ resolve_fs(new).fs = "ramfs"
      /\ Changed(Renamed(old, new).table)
  BY <1>1 DEF sys_fs_rename, Changed
<1>4. Done(Renamed(old, new).table)
  BY <1>2, <1>3, RenamedDone
<1>5. QED BY <1>3, <1>4, ChangedInv

(* ----------------------------------------------------- calls on descriptors *)

FollowKept == \A e \in Entry : Follows(e) => Follows(e)'
SetsFd(f, e) == fd_table' = [fd_table EXCEPT ![f] = e]

LEMMA FdWritten ==
    ASSUME FilesInv, FollowKept, Settled', cwd' \in Name, UNCHANGED use,
           NEW f, NEW e \in Entry, Virtual(e), Follows(e)', SetsFd(f, e)
    PROVE  FilesInv'
<1>1. fd_table \in [Fds -> Entry] /\ Fds' = Fds /\ use' \in Uses
  BY DEF FilesInv, Fds
<1>2. fd_table' \in [Fds -> Entry] /\ \A x \in Fds : fd_table'[x] = IF x = f THEN e ELSE fd_table[x]
  BY <1>1 DEF SetsFd
<1>3. ASSUME NEW x \in Fds PROVE Follows(fd_table[x])' /\ Virtual(fd_table[x])'
  <2>1. PICK y \in Entry : y = fd_table'[x]
    BY <1>2
  <2>2. Virtual(y) /\ Follows(y)'
    <3>1. CASE x = f
      <4>1. y = e
        BY <1>2, <2>1, <3>1
      <4>2. QED BY <4>1 DEF Follows
    <3>2. CASE x # f
      <4>1. y = fd_table[x]
        BY <1>2, <2>1, <3>2
      <4>2. Follows(y) /\ Virtual(y)
        BY <4>1 DEF FilesInv
      <4>3. QED BY <4>2 DEF FollowKept
    <3>3. QED BY <3>1, <3>2
  <2>3. Virtual(fd_table'[x])
    BY <2>1, <2>2
  <2>4. Follows(fd_table[x])'
    BY <2>1, <2>2 DEF Follows
  <2>5. QED BY <2>3, <2>4
<1>4. QED BY <1>1, <1>2, <1>3 DEF FilesInv

(* A descriptor's offset moves. *)
SetsOffset(f, o) == fd_table' = [fd_table EXCEPT ![f].offset = o]

LEMMA OffsetInv ==
    ASSUME FilesInv, FollowKept, Settled', cwd' = cwd, UNCHANGED use,
           NEW f \in Fds, fd_table[f] # NoFd, NEW o \in Nat, SetsOffset(f, o)
    PROVE  FilesInv'
<1>1. PICK e \in Entry : e = fd_table[f] /\ e # NoFd /\ Follows(e) /\ Virtual(e)
  BY DEF FilesInv
<1>2. PICK x : x = [e EXCEPT !.offset = o]
  OBVIOUS
<1>3. x \in Entry /\ x.path = e.path /\ x.ino = e.ino /\ x.id = e.id
  BY <1>2 DEF Entry
<1>4. Virtual(x)
  BY <1>1, <1>3 DEF Virtual
<1>5. Follows(e)'
  BY <1>1 DEF FollowKept
<1>6. Follows(x)'
  BY <1>3, <1>5 DEF Follows
<1>7. SetsFd(f, x)
  BY <1>1, <1>2 DEF SetsOffset, SetsFd
<1>8. cwd' \in Name
  BY DEF FilesInv
<1>9. QED BY <1>3, <1>4, <1>6, <1>7, <1>8, FdWritten

LEMMA TableStays ==
    ASSUME FilesInv, UNCHANGED <<table, born, history>>
    PROVE  FollowKept /\ Settled'
<1>1. UNCHANGED <<table, born, removed, early, orphans>>
  BY DEF history
<1>2. QED BY <1>1 DEF FilesInv, Settled, FollowKept, Follows

LEMMA ContentStays ==
    ASSUME FilesInv, UNCHANGED <<born, history>>, table' \in Tables, SameTree(table, table')
    PROVE  FollowKept /\ Settled'
<1>1. /\ TableOK(table) /\ born \in Nat /\ Explains(table, early \cup orphans)
      /\ \A i \in Slots : table[i].id <= born
  BY DEF FilesInv, Settled
<1>2. UNCHANGED <<born, removed, early, orphans>>
  BY DEF history
<1>3. PICK t : t = table' /\ t \in Tables /\ SameTree(table, t)
  OBVIOUS
<1>4. TableOK(t) /\ \A i \in Slots : ListedIn(t, i) <=> ListedIn(table, i)
  BY <1>1, <1>3, SameTreeOK
<1>5. \A i \in Slots : t[i].id = table[i].id /\ t[i].in_use = table[i].in_use /\ t[i].name = table[i].name
  BY <1>3 DEF SameTree
<1>6. Explains(t, early \cup orphans) /\ \A i \in Slots : t[i].id <= born
  BY <1>1, <1>4, <1>5 DEF Explains
<1>7. Settled'
  <2>1. TableOK(table') /\ Explains(table', early' \cup orphans') /\ (\A i \in Slots : table'[i].id <= born') /\ born' \in Nat
    BY <1>1, <1>2, <1>3, <1>4, <1>6
  <2>2. QED BY <2>1 DEF Settled
<1>8. FollowKept
  <2>1. ASSUME NEW e \in Entry, Follows(e) PROVE Follows(e)'
    <3>1. e.id # 0 => e.ino \in Slots /\ (e.id \in removed' \/ t[e.ino].id = e.id)
      BY <1>2, <1>5, <2>1 DEF Follows
    <3>2. e.id # 0 => e.ino \in Slots /\ (e.id \in removed' \/ table'[e.ino].id = e.id)
      BY <1>3, <3>1
    <3>3. QED BY <3>2 DEF Follows
  <2>2. QED BY <2>1 DEF FollowKept
<1>9. QED BY <1>7, <1>8

(* What a read or a write answers is a number of bytes. *)
LEMMA DevRead ==
    ASSUME NEW ino \in 1 .. 7, NEW len \in Nat, NEW waiting \in Nat
    PROVE  dev_read(ino, len, waiting).val \in Nat
<1>1. /\ DEV_ROOT_INO = 1 /\ NULL_INO = 2 /\ DEVICES.serial = 4 /\ DEVICES.console = 5
      /\ DEVICES.zero = 3 /\ DEVICES.random = 6 /\ DEVICES.urandom = 7
  BY DEF DEV_ROOT_INO, NULL_INO, DEVICES
<1>2. VErr("NotSupported").val = 0 /\ \A v : VOk(v).val = v
  BY DEF VErr, VOk
<1>3. CASE ino = 1
  <2>1. ino = DEV_ROOT_INO /\ ino # NULL_INO /\ ino \notin {DEVICES.serial, DEVICES.console}
        /\ ino \notin {DEVICES.zero, DEVICES.random, DEVICES.urandom}
    BY <1>1, <1>3
  <2>2. dev_read(ino, len, waiting) = VErr("NotSupported")
    BY <2>1, Zenon DEF dev_read
  <2>3. QED BY <1>2, <2>2
<1>4. CASE ino = 2
  <2>1. ino # DEV_ROOT_INO /\ ino = NULL_INO /\ ino \notin {DEVICES.serial, DEVICES.console}
        /\ ino \notin {DEVICES.zero, DEVICES.random, DEVICES.urandom}
    BY <1>1, <1>4
  <2>2. dev_read(ino, len, waiting) = VOk(0)
    BY <2>1, Zenon DEF dev_read
  <2>3. QED BY <1>2, <2>2
<1>5. CASE ino \in {4, 5}
  <2>1. ino # DEV_ROOT_INO /\ ino # NULL_INO /\ ino \in {DEVICES.serial, DEVICES.console}
        /\ ino \notin {DEVICES.zero, DEVICES.random, DEVICES.urandom}
    BY <1>1, <1>5
  <2>2. dev_read(ino, len, waiting) = VOk(IF len <= waiting THEN len ELSE waiting)
    BY <2>1, Zenon DEF dev_read
  <2>3. QED BY <1>2, <2>2
<1>6. CASE ino \in {3, 6, 7}
  <2>1. ino # DEV_ROOT_INO /\ ino # NULL_INO /\ ino \notin {DEVICES.serial, DEVICES.console}
        /\ ino \in {DEVICES.zero, DEVICES.random, DEVICES.urandom}
    BY <1>1, <1>6
  <2>2. dev_read(ino, len, waiting) = VOk(len)
    BY <2>1, Zenon DEF dev_read
  <2>3. QED BY <1>2, <2>2
<1>7. QED BY <1>3, <1>4, <1>5, <1>6

LEMMA ProcRead ==
    ASSUME NEW ino, NEW offset \in Nat, NEW len \in Nat, NEW tasks, NEW size \in Nat
    PROVE  proc_read(ino, offset, len, tasks, size).val \in Nat
<1>1. (\A e : VErr(e).val = 0) /\ (\A v : VOk(v).val = v)
  BY DEF VErr, VOk
<1>2. PICK d : d = Decoded(ino)
  OBVIOUS
<1>3. proc_read(ino, offset, len, tasks, size) =
        IF d.what \in {"dir", "fd"} THEN VErr("NotSupported")
        ELSE IF d.what # "system" /\ d.pid \notin tasks THEN VErr("NotFound")
        ELSE IF offset >= size THEN VOk(0)
        ELSE VOk(IF len <= size - offset THEN len ELSE size - offset)
  BY <1>2 DEF proc_read
<1>4. ASSUME ~(offset >= size) PROVE (IF len <= size - offset THEN len ELSE size - offset) \in Nat
  BY <1>4
<1>5. QED BY <1>1, <1>3, <1>4

LEMMA ReadInv ==
    ASSUME FilesInv, UNCHANGED use, NEW fd \in Fds, NEW len \in Nat, NEW n \in Nat, sys_fs_read(fd, len, n, n)
    PROVE  FilesInv'
<1>1. PICK e \in Entry : e = fd_table[fd] /\ e # NoFd /\ Virtual(e)
  BY DEF FilesInv, sys_fs_read
<1>2. e.offset \in Nat /\ e.path \in Name /\ table \in Tables
  BY DEF Entry, FilesInv, Settled, TableOK
<1>3. PICK fs : fs = resolve_fs(e.path).fs
  OBVIOUS
<1>4. PICK r : r = CASE fs = "ramfs" -> ram_read(table, e.ino, e.offset, len)
                     [] fs = "proc" -> Lift(table, proc_read(e.ino, e.offset, len, Pids, n))
                     [] fs = "dev" -> Lift(table, dev_read(e.ino, len, n))
  OBVIOUS
<1>5. fd_table' = [fd_table EXCEPT ![fd].offset = @ + r.val] /\ UNCHANGED <<table, cwd, born, history>>
  BY <1>1, <1>3, <1>4, Zenon DEF sys_fs_read
<1>6. \A q : Lift(table, q).val = q.val
  BY DEF Lift
<1>7. r.val \in Nat
  <2>1. CASE fs = "ramfs"
    <3>1. fs # "proc" /\ fs # "dev"
      BY <2>1
    <3>2. r = ram_read(table, e.ino, e.offset, len)
      BY <1>4, <2>1, <3>1, Zenon
    <3>3. QED BY <1>2, <3>2, RamRead
  <2>2. CASE fs = "proc"
    <3>1. fs # "ramfs" /\ fs # "dev"
      BY <2>2
    <3>2. r = Lift(table, proc_read(e.ino, e.offset, len, Pids, n))
      BY <1>4, <2>2, <3>1, Zenon
    <3>3. QED BY <1>2, <1>6, <3>2, ProcRead
  <2>3. CASE fs = "dev"
    <3>1. fs # "ramfs" /\ fs # "proc"
      BY <2>3
    <3>2. r = Lift(table, dev_read(e.ino, len, n))
      BY <1>4, <2>3, <3>1, Zenon
    <3>3. e.ino \in 1 .. 7
      BY <1>1, <1>3, <2>3 DEF Virtual
    <3>4. QED BY <1>6, <3>2, <3>3, DevRead
  <2>4. QED BY <1>2, <1>3, <2>1, <2>2, <2>3, FsIs
<1>8. PICK o \in Nat : o = e.offset + r.val
  BY <1>2, <1>7
<1>9. SetsOffset(fd, o)
  BY <1>1, <1>5, <1>8 DEF SetsOffset
<1>10. FollowKept /\ Settled' /\ cwd' = cwd
  BY <1>5, TableStays
<1>11. QED BY <1>1, <1>9, <1>10, OffsetInv

LEMMA WriteInv ==
    ASSUME FilesInv, UNCHANGED use, NEW fd \in Fds, NEW bytes \in Writes, sys_fs_write(fd, bytes)
    PROVE  FilesInv'
<1>1. PICK e \in Entry : e = fd_table[fd] /\ e # NoFd /\ Virtual(e)
  BY DEF FilesInv, sys_fs_write
<1>2. e.offset \in Nat /\ e.path \in Name /\ table \in Tables
  BY DEF Entry, FilesInv, Settled, TableOK
<1>3. PICK fs : fs = resolve_fs(e.path).fs
  OBVIOUS
<1>4. PICK r : r = CASE fs = "ramfs" -> ram_write(table, e.ino, e.offset, bytes)
                     [] fs = "proc" -> Err(table, "PermissionDenied")
                     [] fs = "dev" -> Lift(table, dev_write(e.ino, Len(bytes)))
  OBVIOUS
<1>5. /\ fd_table' = [fd_table EXCEPT ![fd].offset = @ + r.val] /\ table' = r.table
      /\ UNCHANGED <<cwd, born, history>>
  BY <1>1, <1>3, <1>4, Zenon DEF sys_fs_write
<1>6. bytes \in Content /\ Len(bytes) \in Nat
  <2>1. PICK n \in 1 .. use.io : bytes \in [1 .. n -> Bytes]
    BY DEF Writes
  <2>2. use.io \in Nat
    BY FilesAssumption DEF FilesInv
  <2>3. n \in Nat /\ bytes \in [1 .. n -> Bytes \cup {0}]
    BY <2>1, <2>2
  <2>4. QED BY <2>3 DEF Content
<1>7. SameTree(table, table)
  BY DEF SameTree
<1>8. r.val \in Nat /\ r.table \in Tables /\ SameTree(table, r.table)
  <2>1. CASE fs = "ramfs"
    <3>1. fs # "proc" /\ fs # "dev"
      BY <2>1
    <3>2. r = ram_write(table, e.ino, e.offset, bytes)
      BY <1>4, <2>1, <3>1, Zenon
    <3>3. QED BY <1>2, <1>6, <3>2, RamWrite
  <2>2. CASE fs = "proc"
    <3>1. fs # "ramfs" /\ fs # "dev"
      BY <2>2
    <3>2. r = Err(table, "PermissionDenied")
      BY <1>4, <2>2, <3>1, Zenon
    <3>3. r.val = 0 /\ r.table = table
      BY <3>2 DEF Err
    <3>4. QED BY <1>2, <1>7, <3>3
  <2>3. CASE fs = "dev"
    <3>1. fs # "ramfs" /\ fs # "proc"
      BY <2>3
    <3>2. r = Lift(table, dev_write(e.ino, Len(bytes)))
      BY <1>4, <2>3, <3>1, Zenon
    <3>3. r.table = table /\ r.val = dev_write(e.ino, Len(bytes)).val
      BY <3>2 DEF Lift
    <3>4. dev_write(e.ino, Len(bytes)).val \in Nat
      BY <1>6 DEF dev_write, VErr, VOk
    <3>5. QED BY <1>2, <1>7, <3>3, <3>4
  <2>4. QED BY <1>2, <1>3, <2>1, <2>2, <2>3, FsIs
<1>9. PICK o \in Nat : o = e.offset + r.val
  BY <1>2, <1>8
<1>10. SetsOffset(fd, o)
  BY <1>1, <1>5, <1>9 DEF SetsOffset
<1>11. FollowKept /\ Settled' /\ cwd' = cwd
  <2>1. table' \in Tables /\ SameTree(table, table') /\ UNCHANGED <<born, history>>
    BY <1>5, <1>8
  <2>2. QED BY <1>5, <2>1, ContentStays
<1>12. QED BY <1>1, <1>10, <1>11, OffsetInv

LEMMA StatSize ==
    ASSUME FilesInv, NEW path \in Name, NEW ino, NEW size \in Nat, NEW m, m = fstat(table, path, ino, size), m.ok
    PROVE  m.val.size \in Nat
<1>1. PICK fs : fs = resolve_fs(path).fs
  OBVIOUS
<1>2. table \in Tables /\ RootFirst(table)
  BY DEF FilesInv, Settled, TableOK
<1>3. CASE fs = "ramfs"
  <2>1. fs # "proc" /\ fs # "dev"
    BY <1>3
  <2>2. m = ram_stat(table, ino)
    BY <1>1, <1>3, <2>1, Zenon DEF fstat
  <2>3. PICK i : i = IF ino = ROOT_INO THEN get_root_dir_idx(table) ELSE ino
    OBVIOUS
  <2>4. ~(ino # ROOT_INO /\ ~Live(table, ino))
    <3>1. ASSUME ino # ROOT_INO /\ ~Live(table, ino) PROVE FALSE
      <4>1. m = Err(table, "NotFound")
        BY <2>2, <3>1 DEF ram_stat
      <4>2. QED BY <4>1 DEF Err
    <3>2. QED BY <3>1
  <2>5. i = 0 \/ i \in Slots
    BY <1>2, <2>3, <2>4, RootOrNone DEF Live
  <2>6. ASSUME i \in Slots PROVE Len(table[i].children) \in Nat /\ Len(table[i].data) \in Nat
    <3>1. PICK a \in Seq(Child), b \in Content : a = table[i].children /\ b = table[i].data
      BY <1>2, <2>6 DEF Tables, Slot
    <3>2. Len(a) \in Nat /\ Len(b) \in Nat
      BY DEF Content
    <3>3. QED BY <3>1, <3>2
  <2>7. PICK z, dir : /\ z = IF i = 0 THEN 0 ELSE IF dir THEN Len(table[i].children) ELSE Len(table[i].data)
                      /\ m = Ok(table, [is_dir |-> dir, size |-> z])
    BY <2>2, <2>3, <2>4 DEF ram_stat
  <2>8. m.val.size = z
    BY <2>7 DEF Ok
  <2>9. QED BY <2>5, <2>6, <2>7, <2>8
<1>4. CASE fs = "proc"
  <2>1. fs # "ramfs" /\ fs # "dev"
    BY <1>4
  <2>2. m = Lift(table, proc_stat(ino, size))
    BY <1>1, <1>4, <2>1, Zenon DEF fstat
  <2>3. m.val = proc_stat(ino, size).val
    BY <2>2 DEF Lift
  <2>4. proc_stat(ino, size).val.size \in Nat
    BY DEF proc_stat, VOk
  <2>5. QED BY <2>3, <2>4
<1>5. CASE fs = "dev"
  <2>1. fs # "ramfs" /\ fs # "proc"
    BY <1>5
  <2>2. m = Lift(table, dev_stat(ino))
    BY <1>1, <1>5, <2>1, Zenon DEF fstat
  <2>3. m.val = dev_stat(ino).val
    BY <2>2 DEF Lift
  <2>4. dev_stat(ino).val.size \in Nat
    BY DEF dev_stat, VOk
  <2>5. QED BY <2>3, <2>4
<1>6. QED BY <1>1, <1>3, <1>4, <1>5, FsIs

LEMMA SeekInv ==
    ASSUME FilesInv, UNCHANGED use, NEW fd \in Fds, NEW delta \in -1 .. 1, NEW whence, NEW n \in Nat,
           sys_fs_seek(fd, delta, whence, n)
    PROVE  FilesInv'
<1>1. PICK e \in Entry : e = fd_table[fd] /\ e # NoFd
  BY DEF FilesInv, sys_fs_seek
<1>2. e.offset \in Nat /\ e.path \in Name
  BY DEF Entry
<1>3. PICK m, to : m = fstat(table, e.path, e.ino, n) /\ to = Sought(whence, e.offset, m.val.size, delta)
  OBVIOUS
<1>4. /\ UNCHANGED <<table, cwd, born, history>>
      /\ UNCHANGED fd_table \/ (m.ok /\ fd_table' = [fd_table EXCEPT ![fd].offset = to])
  BY <1>1, <1>3 DEF sys_fs_seek
<1>5. FollowKept /\ Settled' /\ cwd' = cwd
  BY <1>4, TableStays
<1>6. CASE UNCHANGED fd_table
  <2>1. UNCHANGED <<table, born, removed, early, orphans, fd_table, cwd, use>>
    BY <1>4, <1>6 DEF history
  <2>2. QED BY <2>1 DEF FilesInv, Settled, Fds, Follows, Virtual
<1>7. CASE m.ok /\ fd_table' = [fd_table EXCEPT ![fd].offset = to]
  <2>1. PICK size \in Nat : size = m.val.size
    BY <1>2, <1>3, <1>7, StatSize
  <2>2. to \in Nat
    <3>1. to = Sought(whence, e.offset, size, delta)
      BY <1>3, <2>1
    <3>2. QED BY <1>2, <3>1 DEF Sought
  <2>3. SetsOffset(fd, to)
    BY <1>7 DEF SetsOffset
  <2>4. QED BY <1>1, <1>5, <2>2, <2>3, OffsetInv
<1>8. QED BY <1>4, <1>6, <1>7

LEMMA NoFdOK == NoFd \in Entry /\ Virtual(NoFd) /\ NoFd.id = 0
<1>1. <<>> \in Name
  BY DEF Name
<1>2. NoFd \in Entry /\ NoFd.id = 0
  BY <1>1 DEF NoFd, Entry
<1>3. QED BY <1>2 DEF Virtual

LEMMA CopiesInv ==
    ASSUME FilesInv, UNCHANGED use, NEW fd \in Fds,
           sys_fs_close_path(fd) \/ sys_fstat(fd) \/ sys_getdents64(fd) \/ \E new \in Fds : sys_dup2(fd, new)
    PROVE  FilesInv'
<1>1. UNCHANGED <<table, cwd, born, history>>
  BY DEF sys_fs_close_path, sys_fstat, sys_getdents64, sys_dup2
<1>2. FollowKept /\ Settled' /\ cwd' \in Name
  BY <1>1, TableStays DEF FilesInv
<1>3. CASE sys_fs_close_path(fd)
  <2>1. SetsFd(fd, NoFd)
    BY <1>3 DEF sys_fs_close_path, SetsFd
  <2>2. PICK e \in Entry : e = NoFd /\ Virtual(e) /\ e.id = 0
    BY NoFdOK
  <2>3. Follows(e)'
    BY <2>2 DEF Follows
  <2>4. SetsFd(fd, e)
    BY <2>1, <2>2
  <2>5. QED BY <1>2, <2>2, <2>3, <2>4, FdWritten
<1>4. CASE sys_fstat(fd) \/ sys_getdents64(fd)
  <2>1. UNCHANGED fd_table
    BY <1>4 DEF sys_fstat, sys_getdents64
  <2>2. UNCHANGED <<table, born, removed, early, orphans, fd_table, cwd, use>>
    BY <1>1, <2>1 DEF history
  <2>3. QED BY <2>2 DEF FilesInv, Settled, Fds, Follows, Virtual
<1>5. ASSUME NEW new \in Fds, sys_dup2(fd, new) PROVE FilesInv'
  <2>1. PICK e \in Entry : e = fd_table[fd] /\ Follows(e) /\ Virtual(e)
    BY DEF FilesInv
  <2>2. SetsFd(new, e)
    BY <1>5, <2>1 DEF sys_dup2, SetsFd
  <2>3. Follows(e)'
    BY <1>2, <2>1 DEF FollowKept
  <2>4. QED BY <1>2, <2>1, <2>2, <2>3, FdWritten
<1>6. QED BY <1>3, <1>4, <1>5

(* ------------------------------------------------ what a procfs path decodes to *)

LEMMA RelIs == ASSUME NEW full \in Name PROVE resolve_fs(full).rel \in Seq(Word)
<1>1. full \in Seq(Word)
  BY DEF Name
<1>2. CASE full = <<>>
  BY <1>2 DEF resolve_fs
<1>3. CASE full # <<>>
  <2>1. Tail(full) \in Seq(Word)
    BY <1>1, <1>3
  <2>2. ASSUME full[1] \in DOMAIN Glued PROVE <<Glued[full[1]].rest>> \o Tail(full) \in Seq(Word)
    <3>1. PICK x \in Word : x = Glued[full[1]].rest
      BY <2>2, FilesAssumption DEF Word
    <3>2. <<x>> \in Seq(Word)
      OBVIOUS
    <3>3. <<x>> \o Tail(full) \in Seq(Word)
      BY <2>1, <3>2
    <3>4. QED BY <3>1, <3>3
  <2>3. QED BY <1>1, <1>3, <2>1, <2>2 DEF resolve_fs
<1>4. QED BY <1>2, <1>3

LEMMA PidFileNames ==
    /\ \A x \in DOMAIN PidFiles : x # "." /\ x \notin DOMAIN NetFiles
    /\ \A x \in DOMAIN PidFiles : \/ x = "cmdline" /\ PidFiles[x] = 2 * PidSpan
                                  \/ x = "status" /\ PidFiles[x] = 3 * PidSpan
                                  \/ x = "maps" /\ PidFiles[x] = 4 * PidSpan
                                  \/ x = "fd" /\ PidFiles[x] = 5 * PidSpan
                                  \/ x = "environ" /\ PidFiles[x] = 6 * PidSpan
<1>1. DOMAIN PidFiles = {"cmdline", "status", "maps", "fd", "environ"}
  BY DEF PidFiles
<1>2. DOMAIN NetFiles = {"ifconfig", "tcp", "udp", "arp", "dev"}
  BY DEF NetFiles
<1>3. /\ PidFiles["cmdline"] = 2 * PidSpan /\ PidFiles["status"] = 3 * PidSpan /\ PidFiles["maps"] = 4 * PidSpan
      /\ PidFiles["fd"] = 5 * PidSpan /\ PidFiles["environ"] = 6 * PidSpan
  BY DEF PidFiles, PID_CMDLINE_OFFSET, PID_STATUS_OFFSET, PID_MAPS_OFFSET, PID_FD_OFFSET, PID_ENVIRON_OFFSET
<1>4. QED BY <1>1, <1>2, <1>3

\* The ranges that a number above the fixed inodes may be in.
Ranges(ino) ==
    /\ ino \notin {PROC_ROOT_INO, NET_DIR_INO} /\ ino \notin SystemFiles
    /\ ino \in PID_CMDLINE_OFFSET .. PID_STATUS_OFFSET - 1 <=> ino \in 2 * PidSpan .. 3 * PidSpan - 1
    /\ ino \in PID_STATUS_OFFSET .. PID_MAPS_OFFSET - 1 <=> ino \in 3 * PidSpan .. 4 * PidSpan - 1
    /\ ino \in PID_MAPS_OFFSET .. PID_FD_OFFSET - 1 <=> ino \in 4 * PidSpan .. 5 * PidSpan - 1
    /\ ino \in PID_FD_OFFSET .. PID_ENVIRON_OFFSET - 1 <=> ino \in 5 * PidSpan .. 6 * PidSpan - 1
    /\ ino >= PID_ENVIRON_OFFSET <=> ino >= 6 * PidSpan

LEMMA RangesAre == ASSUME NEW ino \in Nat, ino > 11 PROVE Ranges(ino)
<1>1. ino \notin {PROC_ROOT_INO, NET_DIR_INO}
  BY DEF PROC_ROOT_INO, NET_DIR_INO
<1>2. \A x \in SystemFiles : x \in 2 .. 11
  BY ProcNumbers DEF SystemFiles
<1>3. ino \notin SystemFiles
  BY <1>2
<1>4. /\ PID_CMDLINE_OFFSET = 2 * PidSpan /\ PID_STATUS_OFFSET = 3 * PidSpan /\ PID_MAPS_OFFSET = 4 * PidSpan
      /\ PID_FD_OFFSET = 5 * PidSpan /\ PID_ENVIRON_OFFSET = 6 * PidSpan
  BY DEF PID_CMDLINE_OFFSET, PID_STATUS_OFFSET, PID_MAPS_OFFSET, PID_FD_OFFSET, PID_ENVIRON_OFFSET
<1>5. QED BY <1>1, <1>3, <1>4 DEF Ranges

LEMMA DecodedPidFile ==
    ASSUME NEW x \in DOMAIN PidFiles, NEW pid \in 0 .. PidSpan - 1
    PROVE  Decoded(PidFiles[x] + pid) = [what |-> x, pid |-> pid]
<1>1. PidSpan \in Nat /\ PidSpan > 11 /\ FdShift \in Nat /\ FdShift > 6 * PidSpan /\ pid \in Nat /\ pid < PidSpan
  BY VirtualFsAssumption
<1>2. PICK ino : ino = PidFiles[x] + pid
  OBVIOUS
<1>4. CASE x = "cmdline" /\ PidFiles[x] = 2 * PidSpan
  <2>1. ino \in Nat /\ ino > 11 /\ ino \in 2 * PidSpan .. 3 * PidSpan - 1 /\ ino < 3 * PidSpan
    BY <1>1, <1>2, <1>4
  <2>2. Ranges(ino)
    BY <2>1, RangesAre
  <2>3. /\ ino \notin {PROC_ROOT_INO, NET_DIR_INO} /\ ino \notin SystemFiles
        /\ ino \in PID_CMDLINE_OFFSET .. PID_STATUS_OFFSET - 1
        /\ ino \notin PID_STATUS_OFFSET .. PID_MAPS_OFFSET - 1
        /\ ino \notin PID_MAPS_OFFSET .. PID_FD_OFFSET - 1
        /\ ino \notin PID_FD_OFFSET .. PID_ENVIRON_OFFSET - 1
        /\ ~(ino >= PID_ENVIRON_OFFSET)
    BY <1>1, <2>1, <2>2 DEF Ranges
  <2>4. Decoded(ino) = [what |-> "cmdline", pid |-> ino - PID_CMDLINE_OFFSET]
    BY <2>3, Zenon DEF Decoded
  <2>5. ino - PID_CMDLINE_OFFSET = pid
    BY <1>1, <1>2, <1>4 DEF PID_CMDLINE_OFFSET
  <2>6. QED BY <1>2, <1>4, <2>4, <2>5
<1>5. CASE x = "status" /\ PidFiles[x] = 3 * PidSpan
  <2>1. ino \in Nat /\ ino > 11 /\ ino \in 3 * PidSpan .. 4 * PidSpan - 1 /\ ino < 4 * PidSpan
    BY <1>1, <1>2, <1>5
  <2>2. Ranges(ino)
    BY <2>1, RangesAre
  <2>3. /\ ino \notin {PROC_ROOT_INO, NET_DIR_INO} /\ ino \notin SystemFiles
        /\ ino \notin PID_CMDLINE_OFFSET .. PID_STATUS_OFFSET - 1
        /\ ino \in PID_STATUS_OFFSET .. PID_MAPS_OFFSET - 1
        /\ ino \notin PID_MAPS_OFFSET .. PID_FD_OFFSET - 1
        /\ ino \notin PID_FD_OFFSET .. PID_ENVIRON_OFFSET - 1
        /\ ~(ino >= PID_ENVIRON_OFFSET)
    BY <1>1, <2>1, <2>2 DEF Ranges
  <2>4. Decoded(ino) = [what |-> "status", pid |-> ino - PID_STATUS_OFFSET]
    BY <2>3, Zenon DEF Decoded
  <2>5. ino - PID_STATUS_OFFSET = pid
    BY <1>1, <1>2, <1>5 DEF PID_STATUS_OFFSET
  <2>6. QED BY <1>2, <1>5, <2>4, <2>5
<1>6. CASE x = "maps" /\ PidFiles[x] = 4 * PidSpan
  <2>1. ino \in Nat /\ ino > 11 /\ ino \in 4 * PidSpan .. 5 * PidSpan - 1 /\ ino < 5 * PidSpan
    BY <1>1, <1>2, <1>6
  <2>2. Ranges(ino)
    BY <2>1, RangesAre
  <2>3. /\ ino \notin {PROC_ROOT_INO, NET_DIR_INO} /\ ino \notin SystemFiles
        /\ ino \notin PID_CMDLINE_OFFSET .. PID_STATUS_OFFSET - 1
        /\ ino \notin PID_STATUS_OFFSET .. PID_MAPS_OFFSET - 1
        /\ ino \in PID_MAPS_OFFSET .. PID_FD_OFFSET - 1
        /\ ino \notin PID_FD_OFFSET .. PID_ENVIRON_OFFSET - 1
        /\ ~(ino >= PID_ENVIRON_OFFSET)
    BY <1>1, <2>1, <2>2 DEF Ranges
  <2>4. Decoded(ino) = [what |-> "maps", pid |-> ino - PID_MAPS_OFFSET]
    BY <2>3, Zenon DEF Decoded
  <2>5. ino - PID_MAPS_OFFSET = pid
    BY <1>1, <1>2, <1>6 DEF PID_MAPS_OFFSET
  <2>6. QED BY <1>2, <1>6, <2>4, <2>5
<1>7. CASE x = "fd" /\ PidFiles[x] = 5 * PidSpan
  <2>1. ino \in Nat /\ ino > 11 /\ ino \in 5 * PidSpan .. 6 * PidSpan - 1 /\ ino < 6 * PidSpan
    BY <1>1, <1>2, <1>7
  <2>2. Ranges(ino)
    BY <2>1, RangesAre
  <2>3. /\ ino \notin {PROC_ROOT_INO, NET_DIR_INO} /\ ino \notin SystemFiles
        /\ ino \notin PID_CMDLINE_OFFSET .. PID_STATUS_OFFSET - 1
        /\ ino \notin PID_STATUS_OFFSET .. PID_MAPS_OFFSET - 1
        /\ ino \notin PID_MAPS_OFFSET .. PID_FD_OFFSET - 1
        /\ ino \in PID_FD_OFFSET .. PID_ENVIRON_OFFSET - 1
        /\ ~(ino >= PID_ENVIRON_OFFSET)
    BY <1>1, <2>1, <2>2 DEF Ranges
  <2>4. Decoded(ino) = [what |-> "fd", pid |-> (ino - PID_FD_OFFSET) % FdShift]
    BY <2>3, Zenon DEF Decoded
  <2>5. ino - PID_FD_OFFSET = pid
    BY <1>1, <1>2, <1>7 DEF PID_FD_OFFSET
  <2>6. pid % FdShift = pid
    BY <1>1
  <2>7. QED BY <1>2, <1>7, <2>4, <2>5, <2>6
<1>8. CASE x = "environ" /\ PidFiles[x] = 6 * PidSpan
  <2>1. ino \in Nat /\ ino > 11 /\ ino >= 6 * PidSpan
    BY <1>1, <1>2, <1>8
  <2>2. Ranges(ino)
    BY <2>1, RangesAre
  <2>3. /\ ino \notin {PROC_ROOT_INO, NET_DIR_INO} /\ ino \notin SystemFiles
        /\ ino \notin PID_CMDLINE_OFFSET .. PID_STATUS_OFFSET - 1
        /\ ino \notin PID_STATUS_OFFSET .. PID_MAPS_OFFSET - 1
        /\ ino \notin PID_MAPS_OFFSET .. PID_FD_OFFSET - 1
        /\ ino \notin PID_FD_OFFSET .. PID_ENVIRON_OFFSET - 1
        /\ ino >= PID_ENVIRON_OFFSET
    BY <1>1, <2>1, <2>2 DEF Ranges
  <2>4. Decoded(ino) = [what |-> "environ", pid |-> ino - PID_ENVIRON_OFFSET]
    BY <2>3, Zenon DEF Decoded
  <2>5. ino - PID_ENVIRON_OFFSET = pid
    BY <1>1, <1>2, <1>8 DEF PID_ENVIRON_OFFSET
  <2>6. QED BY <1>2, <1>8, <2>4, <2>5
<1>9. QED BY <1>4, <1>5, <1>6, <1>7, <1>8, PidFileNames

LEMMA ProcNames ==
    ASSUME NEW full \in Name, NEW m, m = resolve_fs(full), NEW ino, ino = proc_resolve_path(m.rel).val
    PROVE  PidFile(m, ino)
<1>1. PICK rel \in Seq(Word) : rel = m.rel
  BY RelIs
<1>2. SUFFICES ASSUME m.fs = "proc", Len(rel) = 2, rel[1] \in DOMAIN PidOf, PidOf[rel[1]] < PidSpan,
                      rel[2] \in DOMAIN PidFiles
               PROVE  Decoded(ino) = [what |-> rel[2], pid |-> PidOf[rel[1]]]
  BY <1>1 DEF PidFile
<1>3. PICK sub : sub = Tail(rel)
  OBVIOUS
<1>30. sub \in Seq(Word) /\ Len(sub) = 1 /\ sub[1] = rel[2]
  <2>1. rel # <<>>
    BY <1>2
  <2>2. Len(sub) = Len(rel) - 1 /\ \A k \in 1 .. Len(sub) : sub[k] = rel[k + 1]
    BY <1>1, <1>3, <2>1, HeadTailProperties
  <2>3. sub \in Seq(Word)
    BY <1>1, <1>3, <2>1, HeadTailProperties
  <2>4. QED BY <1>2, <2>2, <2>3
<1>4. rel[2] # "." /\ rel[2] \notin DOMAIN NetFiles
  BY <1>2, PidFileNames
<1>5. PICK w : w = <<".">>
  OBVIOUS
<1>50. Len(w) = 1 /\ w[1] = "."
  BY <1>5
<1>6. sub # <<>> /\ sub # w
  BY <1>30, <1>4, <1>50
<1>7. rel # <<>> /\ rel # w
  <2>1. rel # w
    <3>1. Len(rel) = 2 /\ Len(w) = 1
      BY <1>2, <1>50
    <3>2. ASSUME rel = w PROVE Len(rel) = Len(w)
      BY <3>2
    <3>3. QED BY <3>1, <3>2
  <2>2. rel # <<>>
    BY <1>2
  <2>3. QED BY <2>1, <2>2
<1>8. proc_resolve_path(rel) = resolve_pid_path(rel)
  BY <1>2, <1>4, <1>5, <1>7 DEF proc_resolve_path
<1>9. resolve_pid_path(rel) = VOk(PidFiles[rel[2]] + PidOf[rel[1]])
  BY <1>2, <1>3, <1>30, <1>5, <1>6 DEF resolve_pid_path
<1>10. ino = PidFiles[rel[2]] + PidOf[rel[1]]
  BY <1>1, <1>8, <1>9 DEF VOk
<1>11. PICK pid \in 0 .. PidSpan - 1 : pid = PidOf[rel[1]]
  BY <1>2, VirtualFsAssumption
<1>12. QED BY <1>2, <1>10, <1>11, DecodedPidFile

(* --------------------------------------------------- opening and changing directory *)

\* The entry that an open leaves.
Opened(full, r, e) ==
    e = [path |-> full, ino |-> r.val, offset |-> 0, id |-> HistoryId(r.table, full, r.val)]

LEMMA OpenedIs ==
    ASSUME Settled, NEW full \in Name, NEW create \in BOOLEAN, NEW n, Grow(table, n),
           NEW r, IsOpen(table, full, create, Id + n, r)
    PROVE  /\ Done(r.table)
           /\ r.ok => \E e \in Entry : /\ Opened(full, r, e) /\ Virtual(e)
                                       /\ e.id # 0 => e.ino \in Slots /\ r.table[e.ino].id = e.id
<1>1. /\ Opens(table, n, create, r) /\ r.val \in Nat
      /\ resolve_fs(full).fs = "ramfs" /\ r.ok => Finds(r)
      /\ resolve_fs(full).fs = "dev" /\ r.ok => r.val \in 1 .. 7
      /\ resolve_fs(full).fs = "proc" => r = Lift(table, proc_resolve_path(resolve_fs(full).rel))
  BY OpenGrows
<1>2. PICK k : Grow(r.table, k)
  BY <1>1 DEF Opens
<1>3. Done(r.table)
  BY <1>2, GrowDone
<1>4. r.table \in Tables
  BY <1>2 DEF Grow, TableOK
<1>5. ASSUME r.ok
      PROVE  \E e \in Entry : /\ Opened(full, r, e) /\ Virtual(e)
                              /\ e.id # 0 => e.ino \in Slots /\ r.table[e.ino].id = e.id
  <2>1. PICK id : id = HistoryId(r.table, full, r.val)
    OBVIOUS
  <2>2. id \in Nat /\ (id # 0 => r.val \in Slots /\ r.table[r.val].id = id)
    <3>1. CASE resolve_fs(full).fs = "ramfs" /\ r.val # ROOT_INO
      <4>1. r.val \in Slots
        BY <1>1, <1>5, <3>1 DEF Finds, FoundIn
      <4>2. PICK s \in Slot : s = r.table[r.val]
        BY <1>4, <4>1 DEF Tables
      <4>3. id = s.id
        BY <2>1, <3>1, <4>2 DEF HistoryId
      <4>4. s.id \in Nat
        BY DEF Slot
      <4>5. QED BY <4>1, <4>2, <4>3, <4>4
    <3>2. CASE ~(resolve_fs(full).fs = "ramfs" /\ r.val # ROOT_INO)
      BY <2>1, <3>2 DEF HistoryId
    <3>3. QED BY <3>1, <3>2
  <2>3. PICK e : e = [path |-> full, ino |-> r.val, offset |-> 0, id |-> id]
    OBVIOUS
  <2>4. e \in Entry /\ e.path = full /\ e.ino = r.val /\ e.id = id
    BY <1>1, <2>2, <2>3 DEF Entry
  <2>5. Opened(full, r, e)
    BY <2>1, <2>3 DEF Opened
  <2>6. PICK m : m = resolve_fs(full)
    OBVIOUS
  <2>7. PidFile(m, e.ino)
    <3>1. CASE m.fs = "proc"
      <4>1. e.ino = proc_resolve_path(m.rel).val
        BY <1>1, <2>4, <2>6, <3>1 DEF Lift
      <4>2. QED BY <2>6, <4>1, ProcNames
    <3>2. CASE m.fs # "proc"
      BY <3>2 DEF PidFile
    <3>3. QED BY <3>1, <3>2
  <2>8. Virtual(e)
    BY <1>1, <1>5, <2>4, <2>6, <2>7 DEF Virtual
  <2>9. QED BY <2>2, <2>4, <2>5, <2>8
<1>6. QED BY <1>3, <1>5

LEMMA OpenInv ==
    ASSUME FilesInv, UNCHANGED use, NEW p \in UserPaths, NEW create \in BOOLEAN, sys_fs_open_path(p, create)
    PROVE  FilesInv'
<1>1. PICK full : full = resolve_path(p)
  OBVIOUS
<1>2. PICK r : IsOpen(table, full, create, Id, r)
  BY DEF IsOpen
<1>3. Settled /\ full \in Name
  BY <1>1, ResolvedPath DEF FilesInv
<1>4. PICK z : z = 0 /\ Grow(table, z) /\ Id + z = Id
  BY <1>3, GrowStart, IdBounds
<1>5. IsOpen(table, full, create, Id + z, r) /\ Grow(table, z)
  BY <1>2, <1>4
<1>6. /\ Done(r.table)
      /\ r.ok => \E e \in Entry : /\ Opened(full, r, e) /\ Virtual(e)
                                  /\ e.id # 0 => e.ino \in Slots /\ r.table[e.ino].id = e.id
  BY <1>3, <1>5, OpenedIs
<1>7. r = open(table, full, create, Id)
  BY <1>2 DEF IsOpen
<1>8. NewTable(r.table) /\ UNCHANGED cwd
  BY <1>1, <1>7 DEF sys_fs_open_path
<1>9. Settled' /\ table' = r.table /\ cwd' \in Name
  BY <1>3, <1>6, <1>8, DoneStep DEF FilesInv
<1>10. FollowKept
  BY <1>3, <1>6, <1>8, FollowsOn DEF FollowKept
<1>11. CASE r.ok /\ FreeFds # {}
  <2>1. PICK e \in Entry : /\ Opened(full, r, e) /\ Virtual(e)
                           /\ e.id # 0 => e.ino \in Slots /\ r.table[e.ino].id = e.id
    BY <1>6, <1>11
  <2>2. PICK f : f = Lowest(FreeFds)
    OBVIOUS
  <2>3. SetsFd(f, e)
    BY <1>1, <1>7, <1>11, <2>1, <2>2 DEF sys_fs_open_path, SetsFd, Opened
  <2>4. Follows(e)'
    BY <1>9, <2>1 DEF Follows
  <2>5. QED BY <1>9, <1>10, <2>1, <2>3, <2>4, FdWritten
<1>12. CASE ~(r.ok /\ FreeFds # {})
  <2>1. UNCHANGED fd_table
    BY <1>1, <1>7, <1>12 DEF sys_fs_open_path
  <2>2. Changed(r.table)
    BY <1>8, <2>1 DEF Changed
  <2>3. QED BY <1>6, <2>2, ChangedInv
<1>13. QED BY <1>11, <1>12

LEMMA ChdirInv ==
    ASSUME FilesInv, UNCHANGED use, NEW p \in UserPaths, sys_chdir(p)
    PROVE  FilesInv'
<1>1. PICK r : IsOpen(table, resolve_path(p), FALSE, Id, r)
  BY DEF IsOpen
<1>2. Done(r.table)
  BY <1>1, LookDone
<1>3. NewTable(r.table) /\ UNCHANGED fd_table /\ cwd' \in {cwd, resolve_path(p)}
  BY <1>1 DEF sys_chdir, IsOpen
<1>4. Settled /\ cwd' \in Name
  BY <1>3, ResolvedPath DEF FilesInv
<1>5. Settled' /\ FollowKept
  BY <1>2, <1>3, <1>4, DoneStep, FollowsOn DEF FollowKept
<1>6. fd_table \in [Fds -> Entry] /\ Fds' = Fds /\ use' \in Uses
  BY DEF FilesInv, Fds
<1>7. ASSUME NEW fd \in Fds PROVE Follows(fd_table[fd])' /\ Virtual(fd_table[fd])'
  <2>1. PICK e \in Entry : e = fd_table[fd] /\ e = fd_table'[fd]
    BY <1>3, <1>6
  <2>2. Follows(e) /\ Virtual(e)
    BY <2>1 DEF FilesInv
  <2>3. Follows(e)'
    BY <1>5, <2>2 DEF FollowKept
  <2>4. Virtual(fd_table'[fd])
    BY <2>1, <2>2
  <2>5. Follows(fd_table[fd])'
    BY <2>1, <2>3 DEF Follows
  <2>6. QED BY <2>4, <2>5
<1>8. QED BY <1>3, <1>4, <1>5, <1>6, <1>7 DEF FilesInv

(* -------------------------------------------------------------- the theorems *)

LEMMA StartInv == ASSUME FilesInit PROVE FilesInv
<1>1. /\ use \in Uses /\ table = [i \in Slots |-> Unused] /\ fd_table = [fd \in Fds |-> NoFd]
      /\ cwd = <<>> /\ born = 0 /\ removed = {} /\ early = {} /\ orphans = {}
  BY DEF FilesInit
<1>2. cwd \in Name
  BY <1>1 DEF Name
<1>3. PICK u \in Slot : u = Unused /\ u.children = <<>> /\ ~u.in_use /\ ~u.is_dir /\ u.id = 0
  BY UnusedType
<1>4. table \in Tables /\ \A i \in Slots : table[i] = u
  BY <1>1, <1>3 DEF Tables
<1>5. \A i \in Slots : DOMAIN table[i].children = {}
  BY <1>3, <1>4
<1>6. EntriesSound(table) /\ EntriesDistinct(table)
  BY <1>5 DEF EntriesSound, EntriesDistinct
<1>7. SlotsSound(table) /\ NoDirs(table)
  BY <1>3, <1>4 DEF SlotsSound, NoDirs, IsDir
<1>8. Explains(table, early \cup orphans) /\ \A i \in Slots : table[i].id <= born
  BY <1>1, <1>3, <1>4 DEF Explains
<1>9. Settled
  BY <1>1, <1>4, <1>6, <1>7, <1>8 DEF Settled, TableOK, RootFirst
<1>10. PICK e \in Entry : e = NoFd /\ Virtual(e) /\ e.id = 0
  BY NoFdOK
<1>11. fd_table \in [Fds -> Entry] /\ \A fd \in Fds : fd_table[fd] = e
  BY <1>1, <1>10
<1>12. Follows(e)
  BY <1>10 DEF Follows
<1>13. QED BY <1>1, <1>2, <1>9, <1>10, <1>11, <1>12 DEF FilesInv

LEMMA StepInv == ASSUME FilesInv, [FilesNext]_files_vars PROVE FilesInv'
<1>1. CASE UNCHANGED files_vars
  <2>1. UNCHANGED <<use, table, fd_table, cwd, born, removed, early, orphans>>
    BY <1>1 DEF files_vars
  <2>2. QED BY <2>1 DEF FilesInv, Settled, Fds, Follows, Virtual
<1>2. CASE FilesNext
  <2>1. UNCHANGED use /\ Call
    BY <1>2 DEF FilesNext
  <2>2. ASSUME NEW p \in UserPaths, NEW create \in BOOLEAN, sys_fs_open_path(p, create) PROVE FilesInv'
    BY <2>1, <2>2, OpenInv
  <2>3. ASSUME NEW p \in UserPaths,
               \/ sys_fs_stat(p) \/ sys_fs_readdir(p) \/ sys_readlink(p) \/ sys_chmod(p)
               \/ \E x_ok \in BOOLEAN : sys_access(p, x_ok)
        PROVE  FilesInv'
    BY <2>1, <2>3, LooksInv
  <2>4. ASSUME NEW p \in UserPaths, sys_chdir(p) PROVE FilesInv'
    BY <2>1, <2>4, ChdirInv
  <2>5. ASSUME NEW p \in UserPaths,
               \/ sys_fs_unlink(p) \/ sys_fs_mkdir(p) \/ sys_fs_rmdir(p)
               \/ \E target \in use.targets : sys_symlink(p, target)
        PROVE  FilesInv'
    BY <2>1, <2>5, EntriesInv
  <2>6. ASSUME NEW p \in UserPaths, NEW q \in UserPaths, sys_fs_rename(p, q) PROVE FilesInv'
    BY <2>1, <2>6, RenameInv
  <2>7. use.io \in Nat /\ MaxContent \in Nat
    BY FilesAssumption DEF FilesInv
  <2>8. ASSUME NEW fd \in Fds, NEW len \in 1 .. use.io, NEW n \in 0 .. MaxContent, sys_fs_read(fd, len, n, n)
        PROVE  FilesInv'
    <3>1. len \in Nat /\ n \in Nat
      BY <2>7
    <3>2. QED BY <2>1, <2>8, <3>1, ReadInv
  <2>9. ASSUME NEW fd \in Fds, NEW bytes \in Writes, sys_fs_write(fd, bytes) PROVE FilesInv'
    BY <2>1, <2>9, WriteInv
  <2>10. ASSUME NEW fd \in Fds, NEW delta \in -1 .. 1, NEW whence, NEW n \in 0 .. MaxContent,
                sys_fs_seek(fd, delta, whence, n)
         PROVE  FilesInv'
    <3>1. n \in Nat
      BY <2>7
    <3>2. QED BY <2>1, <2>10, <3>1, SeekInv
  <2>11. ASSUME NEW fd \in Fds,
                sys_fs_close_path(fd) \/ sys_fstat(fd) \/ sys_getdents64(fd) \/ \E new \in Fds : sys_dup2(fd, new)
         PROVE  FilesInv'
    BY <2>1, <2>11, CopiesInv
  <2>12. QED BY <2>1, <2>2, <2>3, <2>4, <2>5, <2>6, <2>8, <2>9, <2>10, <2>11 DEF Call
<1>3. QED BY <1>1, <1>2

LEMMA TreeFromInv == ASSUME FilesInv PROVE TreeSound
<1>1. /\ table \in Tables /\ EntriesSound(table) /\ EntriesDistinct(table) /\ SlotsSound(table)
      /\ Explains(table, early \cup orphans)
  BY DEF FilesInv, Settled, TableOK
<1> DEFINE dirs == {i \in Slots : table[i].in_use /\ table[i].is_dir}
           entries == UNION {{<<d, k>> : k \in DOMAIN table[d].children} : d \in dirs}
           Of(x) == table[x[1]].children[x[2]]
<1>2. \A x \in entries : /\ x[1] \in Slots /\ x[2] \in DOMAIN table[x[1]].children
                         /\ x = <<x[1], x[2]>>
  OBVIOUS
<1>3. ASSUME NEW d \in Slots, NEW k \in DOMAIN table[d].children
      PROVE  \E x \in entries : x[1] = d /\ x[2] = k
  <2>1. IsDir(table, d)
    BY <1>1 DEF SlotsSound
  <2>2. d \in dirs
    BY <2>1 DEF IsDir
  <2>3. PICK x : x = <<d, k>>
    OBVIOUS
  <2>30. x[1] = d /\ x[2] = k
    BY <2>3
  <2>4. x \in entries
    BY <2>2, <2>3
  <2>5. QED BY <2>30, <2>4
<1>4. \A x, y \in entries : x # y => x[1] # y[1] \/ x[2] # y[2]
  BY <1>2
<1> HIDE DEF entries
<1>5. \A x \in entries : table[Of(x).slot].in_use /\ table[Of(x).slot].name = Of(x).name
  BY <1>1, <1>2 DEF EntriesSound
<1>6. \A x, y \in entries : x # y => Of(x).slot # Of(y).slot /\ (x[1] = y[1] => Of(x).name # Of(y).name)
  BY <1>1, <1>2, <1>4 DEF EntriesDistinct
<1>7. ASSUME NEW i \in Slots, table[i].in_use, table[i].name # RootName
      PROVE  (\E x \in entries : Of(x).slot = i) \/ table[i].id \in early \cup orphans
  <2>1. ListedIn(table, i) \/ table[i].id \in early \cup orphans
    BY <1>1, <1>7 DEF Explains
  <2>2. ASSUME ListedIn(table, i) PROVE \E x \in entries : Of(x).slot = i
    <3>1. PICK d \in Slots : \E k \in DOMAIN table[d].children : table[d].children[k].slot = i
      BY <2>2 DEF ListedIn
    <3>2. PICK k \in DOMAIN table[d].children : table[d].children[k].slot = i
      BY <3>1
    <3>3. PICK x \in entries : x[1] = d /\ x[2] = k
      BY <1>3
    <3>4. QED BY <3>2, <3>3
  <2>3. QED BY <2>1, <2>2
<1>8. QED BY <1>5, <1>6, <1>7 DEF TreeSound, entries

LEMMA FollowsFromInv == ASSUME FilesInv PROVE DescriptorsFollowTheirFile
<1>1. ASSUME NEW fd \in Fds, fd_table[fd] # NoFd, NEW e, e = fd_table[fd], NEW m, m = resolve_fs(e.path)
      PROVE  /\ e.id # 0 /\ e.id \notin removed => table[e.ino].id = e.id
             /\ PidFile(m, e.ino)
  BY <1>1 DEF FilesInv, Follows, Virtual
<1>2. QED BY <1>1 DEF DescriptorsFollowTheirFile, PidFile

(* Through every sequence of the calls that open, make, link, rename and    *)
(* remove names in ramfs, every directory's children are slots in use under  *)
(* the names it lists, listed once, and every slot that nothing lists was    *)
(* made before the root had a slot or lost its directory to unlink.          *)
THEOREM TreeStaysSound == FilesSpec => []TreeSound
<1>1. FilesInit => FilesInv
  BY StartInv
<1>2. FilesInv /\ [FilesNext]_files_vars => FilesInv'
  BY StepInv
<1>3. FilesInv => TreeSound
  BY TreeFromInv
<1>4. QED BY <1>1, <1>2, <1>3, PTL DEF FilesSpec

(* A descriptor of fd_table reaches the file it was opened on, or a slot     *)
(* whose file was unlinked, and one of procfs decodes to the process and the *)
(* file that its path names.                                                 *)
THEOREM DescriptorsSafe == FilesSpec => []DescriptorsFollowTheirFile
<1>1. FilesInit => FilesInv
  BY StartInv
<1>2. FilesInv /\ [FilesNext]_files_vars => FilesInv'
  BY StepInv
<1>3. FilesInv => DescriptorsFollowTheirFile
  BY FollowsFromInv
<1>4. QED BY <1>1, <1>2, <1>3, PTL DEF FilesSpec

(* ------------------------------------------------------- what a file stores *)

\* No file outgrows its limit, and until there is a directory no slot was freed.
Fits(t) == \A i \in Slots : Len(t[i].data) <= MAX_FILE_SIZE
Packed(t) == NoDirs(t) => \A i, j \in Slots : i < j /\ t[j].in_use => t[i].in_use
Stored(t) == Fits(t) /\ Packed(t)

\* Names, kinds and data are the same, the lists of directories may differ.
SameStore(t, u) ==
    \A i \in Slots : /\ u[i].data = t[i].data /\ u[i].in_use = t[i].in_use
                     /\ u[i].is_dir = t[i].is_dir /\ u[i].name = t[i].name

LEMMA StoredSame == ASSUME NEW t, NEW u, Stored(t), SameStore(t, u) PROVE Stored(u)
<1>1. Fits(u)
  BY DEF Stored, Fits, SameStore
<1>2. Packed(u)
  BY DEF Stored, Packed, SameStore, NoDirs, IsDir
<1>3. QED BY <1>1, <1>2 DEF Stored

\* An empty file or directory goes into the first free slot.
Fills(t, u, f, s) ==
    /\ f = find_free_slot(t) /\ f # 0 /\ s \in Slot /\ s.in_use /\ s.data = <<>>
    /\ u = [t EXCEPT ![f] = s]

LEMMA StoredPut ==
    ASSUME NEW t \in Tables, NEW u, NEW f, NEW s, Stored(t), Fills(t, u, f, s)
    PROVE  Stored(u) /\ u[f] = s /\ f \in Slots /\ \A i \in Slots : i # f => u[i] = t[i]
<1>1. f \in Slots /\ ~t[f].in_use /\ \A i \in Slots : i < f => t[i].in_use
  BY FreeSlot DEF Fills
<1>2. u[f] = s /\ \A i \in Slots : i # f => u[i] = t[i]
  BY <1>1 DEF Tables, Fills
<1>3. Fits(u)
  <2>1. Len(s.data) <= MAX_FILE_SIZE
    BY RamfsAssumption DEF Fills
  <2>2. QED BY <1>2, <2>1 DEF Fits, Stored
<1>4. ASSUME NoDirs(u), NEW i \in Slots, NEW j \in Slots, i < j, u[j].in_use PROVE u[i].in_use
  <2>1. NoDirs(t)
    BY <1>1, <1>2, <1>4 DEF NoDirs, IsDir
  <2>2. CASE i = f
    BY <1>2, <2>2 DEF Fills
  <2>3. CASE i # f /\ j = f
    BY <1>1, <1>2, <1>4, <2>3
  <2>4. CASE i # f /\ j # f
    BY <1>2, <1>4, <2>1, <2>4 DEF Stored, Packed
  <2>5. QED BY <2>2, <2>3, <2>4
<1>5. QED BY <1>1, <1>2, <1>3, <1>4 DEF Stored, Packed

LEMMA AddChildStore ==
    ASSUME NEW t \in Tables, NEW d \in Slots, NEW i \in Slots
    PROVE  SameStore(t, AddChild(t, d, i))
<1>1. PICK l : l = Append(t[d].children, [name |-> t[i].name, slot |-> i])
  OBVIOUS
<1>2. PICK s \in Slot : s = t[d]
  BY DEF Tables
<1>3. PICK x : x = [s EXCEPT !.children = l]
  OBVIOUS
<1>4. x.name = s.name /\ x.in_use = s.in_use /\ x.is_dir = s.is_dir /\ x.data = s.data
  BY <1>3 DEF Slot
<1>5. AddChild(t, d, i) = [t EXCEPT ![d] = x]
  BY <1>1, <1>2, <1>3 DEF AddChild
<1>6. QED BY <1>2, <1>4, <1>5 DEF SameStore, Tables

LEMMA RootStored ==
    ASSUME NEW t, TableOK(t), Stored(t), NEW id \in Nat, NEW r, r = ensure_root_dir(t, id)
    PROVE  Stored(r.table)
<1>1. t \in Tables
  BY DEF TableOK
<1>2. PICK free : free = find_free_slot(t)
  OBVIOUS
<1>3. CASE get_root_dir_idx(t) # 0
  BY <1>3 DEF ensure_root_dir, Ok
<1>4. CASE get_root_dir_idx(t) = 0 /\ free = 0
  BY <1>2, <1>4 DEF ensure_root_dir, Panic
<1>5. CASE get_root_dir_idx(t) = 0 /\ free # 0
  <2>1. PICK s : RootSlot(s, id)
    BY DEF RootSlot
  <2>2. r = Ok([t EXCEPT ![free] = s], free)
    BY <1>2, <1>5, <2>1 DEF ensure_root_dir, RootSlot
  <2>3. PICK u : u = [t EXCEPT ![free] = s] /\ r.table = u
    BY <2>2 DEF Ok
  <2>4. s \in Slot /\ s.in_use /\ s.data = <<>>
    BY <2>1, RootSlotIs DEF RootSlot, Unused
  <2>5. Fills(t, u, free, s)
    BY <1>2, <1>5, <2>3, <2>4 DEF Fills
  <2>7. Stored(u)
    BY <1>1, <2>5, StoredPut
  <2>8. QED BY <2>3, <2>7
<1>6. QED BY <1>3, <1>4, <1>5

(* Opening a name leaves the rest alone, and with CREATE the lowest slot    *)
(* of that name is the answer.                                              *)
IsLowest(t, n, g) ==
    /\ g \in Slots /\ t[g].in_use /\ t[g].name = n
    /\ \A i \in Slots : t[i].in_use /\ t[i].name = n => g <= i

LEMMA LowestFile ==
    ASSUME NEW t, NEW n
    PROVE  /\ find_file(t, n) # 0 => IsLowest(t, n, find_file(t, n))
           /\ \A g : IsLowest(t, n, g) => find_file(t, n) = g
<1> DEFINE S == {i \in Slots : t[i].in_use /\ t[i].name = n}
<1>1. S \in SUBSET Slots /\ find_file(t, n) = Lowest(S)
  BY DEF find_file
<1>2. \A g : g \in S /\ (\A i \in S : g <= i) <=> IsLowest(t, n, g)
  BY DEF IsLowest
<1> HIDE DEF S
<1>3. find_file(t, n) # 0 => IsLowest(t, n, find_file(t, n))
  BY <1>1, <1>2, LowestIs
<1>4. ASSUME NEW g, IsLowest(t, n, g) PROVE find_file(t, n) = g
  <2>1. g \in S /\ \A i \in S : g <= i
    BY <1>2, <1>4
  <2>2. PICK l : l = Lowest(S) /\ l \in S /\ \A j \in S : l <= j
    BY <1>1, <2>1, LowestIs
  <2>3. l \in Nat /\ g \in Nat /\ l <= g /\ g <= l
    BY <1>1, <2>1, <2>2, SlotNumber
  <2>4. QED BY <1>1, <2>2, <2>3
<1>5. QED BY <1>3, <1>4

LEMMA RamOpenStored ==
    ASSUME NEW t, TableOK(t), Stored(t), NEW name \in Name, NEW create \in BOOLEAN, NEW id \in Nat,
           NEW r, r = ram_open(t, name, create, id)
    PROVE  /\ Stored(r.table)
           /\ create /\ name # <<>> /\ r.ok => IsLowest(r.table, name, r.val)
<1>1. t \in Tables
  BY DEF TableOK
<1>2. PICK free, made, file : free = find_free_slot(t) /\ made = init_slot(t, free, name, id) /\ file = find_file(t, name)
  OBVIOUS
<1>3. CASE name = <<>>
  <2>1. PICK q : q = ensure_root_dir(t, id)
    OBVIOUS
  <2>2. r = IF q.panic THEN q ELSE Ok(q.table, ROOT_INO)
    BY <1>3, <2>1 DEF ram_open
  <2>3. r.table = q.table
    BY <2>2 DEF Ok
  <2>4. QED BY <1>3, <2>1, <2>3, RootStored
<1>4. CASE name # <<>> /\ file # 0
  <2>1. r = Ok(t, file)
    BY <1>2, <1>4 DEF ram_open
  <2>2. r.table = t /\ r.val = file
    BY <2>1 DEF Ok
  <2>3. QED BY <1>2, <1>4, <2>2, LowestFile
<1>5. CASE name # <<>> /\ file = 0 /\ (~create \/ free = 0)
  <2>1. PICK e : r = Err(t, e)
    <3>1. CASE ~create
      BY <1>2, <1>5, <3>1 DEF ram_open
    <3>2. CASE create
      BY <1>2, <1>5, <3>2 DEF ram_open
    <3>3. QED BY <3>1, <3>2
  <2>2. r.table = t /\ r.ok = FALSE
    BY <2>1 DEF Err
  <2>3. QED BY <2>2
<1>6. CASE name # <<>> /\ file = 0 /\ create /\ free # 0
  <2>1. r = Ok(IF get_root_dir_idx(made) = 0 THEN made
               ELSE AddChild(made, get_root_dir_idx(made), free), free)
    BY <1>2, <1>6 DEF ram_open
  <2>2. PICK s : FileSlot(s, name, id)
    BY DEF FileSlot
  <2>3. s \in Slot /\ s.in_use /\ s.name = name /\ s.data = <<>>
    BY <2>2, FileSlotIs DEF FileSlot, Unused
  <2>4. made = [t EXCEPT ![free] = s]
    BY <1>2, <2>2 DEF init_slot, FileSlot
  <2>5. Stored(made) /\ made[free] = s /\ free \in Slots /\ \A i \in Slots : i # free => made[i] = t[i]
    <3>1. Fills(t, made, free, s)
      BY <1>2, <1>6, <2>3, <2>4 DEF Fills
    <3>2. QED BY <1>1, <3>1, StoredPut
  <2>6. made \in Tables
    BY <1>1, <2>3, <2>4 DEF Tables
  <2>7. SameStore(made, r.table) /\ r.val = free
    <3>1. PICK d : d = get_root_dir_idx(made)
      OBVIOUS
    <3>2. d # 0 => d \in Slots
      <4> DEFINE S == {i \in Slots : made[i].in_use /\ made[i].is_dir /\ made[i].name = RootName}
      <4>1. S \in SUBSET Slots /\ d = Lowest(S)
        BY <3>1 DEF get_root_dir_idx
      <4> HIDE DEF S
      <4>2. QED BY <4>1, LowestIs
    <3>3. CASE d = 0
      BY <2>1, <3>1, <3>3 DEF Ok, SameStore
    <3>4. CASE d # 0
      <4>1. r.table = AddChild(made, d, free) /\ r.val = free
        BY <2>1, <3>1, <3>4 DEF Ok
      <4>2. QED BY <2>5, <2>6, <3>2, <3>4, <4>1, AddChildStore
    <3>5. QED BY <3>3, <3>4
  <2>8. \A i \in Slots : t[i].in_use => t[i].name # name
    <3>1. find_file(t, name) = 0
      BY <1>2, <1>6
    <3>2. \A i \in Slots : ~(t[i].in_use /\ t[i].name = name)
      BY <3>1, FoundFile
    <3>3. QED BY <3>2
  <2>9. IsLowest(made, name, free)
    BY <2>3, <2>5, <2>8, SlotNumber DEF IsLowest
  <2>10. IsLowest(r.table, name, r.val)
    BY <2>7, <2>9 DEF IsLowest, SameStore
  <2>11. QED BY <2>5, <2>7, <2>10, StoredSame
<1>7. QED BY <1>3, <1>4, <1>5, <1>6

LEMMA OpenStored ==
    ASSUME NEW t, TableOK(t), Stored(t), NEW full \in Name, NEW create \in BOOLEAN, NEW id \in Nat,
           NEW r, IsOpen(t, full, create, id, r)
    PROVE  Stored(r.table)
<1>1. PICK fs, rel : fs = resolve_fs(full).fs /\ rel = resolve_fs(full).rel
  OBVIOUS
<1>2. fs \in {"ramfs", "proc", "dev"} /\ (fs = "ramfs" => rel = full)
  BY <1>1, FsIs
<1>3. CASE fs = "ramfs"
  <2>1. r = ram_open(t, full, create, id)
    BY <1>1, <1>2, <1>3 DEF IsOpen, open
  <2>2. QED BY <2>1, RamOpenStored
<1>4. CASE fs \in {"proc", "dev"}
  <2>1. PICK q : r = Lift(t, q)
    BY <1>1, <1>4 DEF IsOpen, open
  <2>2. r.table = t
    BY <2>1 DEF Lift
  <2>3. QED BY <2>2
<1>5. QED BY <1>2, <1>3, <1>4

(* A write is bounded, and leaves the names alone. *)
LEMMA WriteStored ==
    ASSUME NEW t \in Tables, Stored(t), NEW ino, NEW offset \in Nat, NEW bytes \in Content,
           NEW r, r = ram_write(t, ino, offset, bytes)
    PROVE  Stored(r.table)
<1>1. SameTree(t, r.table)
  BY RamWrite
<1>2. Packed(r.table)
  BY <1>1 DEF SameTree, Stored, Packed, NoDirs, IsDir
<1>3. CASE r.table = t
  BY <1>3
<1>4. CASE r.table # t
  <2>1. ino \in Slots /\ ~(offset + Len(bytes) > MAX_FILE_SIZE)
        /\ r = Ok([t EXCEPT ![ino].data = Written(@, offset, bytes)], Len(bytes))
    BY <1>4 DEF ram_write, Err, Live
  <2>2. PICK old, w : old = t[ino].data /\ w = Written(old, offset, bytes)
    OBVIOUS
  <2>3. old \in Content /\ Len(old) \in Nat /\ Len(bytes) \in Nat /\ Len(old) <= MAX_FILE_SIZE
    BY <2>1, <2>2 DEF Tables, Slot, Content, Stored, Fits
  <2>4. Len(w) <= MAX_FILE_SIZE
    <3>1. PICK m \in Nat : m = (IF offset + Len(bytes) > Len(old) THEN offset + Len(bytes) ELSE Len(old))
      BY <2>3
    <3>2. DOMAIN w = 1 .. m
      BY <2>2, <3>1 DEF Written
    <3>3. w \in Content
      BY <2>2, <2>3, WrittenType DEF Content
    <3>4. Len(w) = m
      BY <3>1, <3>2, <3>3 DEF Content
    <3>5. QED BY <2>1, <2>3, <3>1, <3>4, RamfsAssumption
  <2>5. PICK s \in Slot : s = t[ino]
    BY <2>1 DEF Tables
  <2>6. PICK x : x = [s EXCEPT !.data = w]
    OBVIOUS
  <2>61. x.data = w
    BY <2>6 DEF Slot
  <2>7. r.table = [t EXCEPT ![ino] = x]
    BY <2>1, <2>2, <2>5, <2>6 DEF Ok
  <2>8. Fits(r.table)
    BY <2>1, <2>4, <2>61, <2>7 DEF Stored, Fits, Tables
  <2>9. QED BY <1>2, <2>8 DEF Stored
<1>5. QED BY <1>3, <1>4

LEMMA AddUnderStored ==
    ASSUME NEW t, TableOK(t), Stored(t), NEW d \in Slots, NEW name \in Name, NEW id \in Nat,
           NEW dir \in BOOLEAN, NEW link \in Name,
           NEW r, r = AddUnder(t, d, name, id, [is_dir |-> dir, target |-> link])
    PROVE  Stored(r.table)
<1>1. t \in Tables
  BY DEF TableOK
<1>2. PICK free, made : free = find_free_slot(t) /\ made = init_slot(t, free, name, id)
  OBVIOUS
<1>3. CASE free = 0
  BY <1>2, <1>3 DEF AddUnder, Err
<1>4. CASE free # 0
  <2>1. free \in Slots
    BY <1>2, <1>4, FreeSlot
  <2>2. PICK x : FileSlot(x, name, id)
    BY DEF FileSlot
  <2>3. PICK s : s = [x EXCEPT !.is_dir = dir, !.symlink_target = link]
    OBVIOUS
  <2>4. EntrySlot(s, name, id, dir, link)
    BY <2>2, <2>3 DEF EntrySlot
  <2>5. s \in Slot /\ s.in_use
    BY <2>4, EntrySlotIs
  <2>6. x.data = <<>> /\ x \in Slot
    BY <2>2, FileSlotIs DEF FileSlot, Unused
  <2>7. s.data = <<>>
    BY <2>3, <2>6 DEF Slot
  <2>8. made = [t EXCEPT ![free] = x]
    BY <1>2, <2>2 DEF init_slot, FileSlot
  <2>9. PICK v : v = [made EXCEPT ![free].is_dir = dir, ![free].symlink_target = link]
    OBVIOUS
  <2>10. v = [t EXCEPT ![free] = s]
    BY <1>1, <2>1, <2>3, <2>8, <2>9 DEF Tables
  <2>11. r.table = AddChild(v, d, free)
    BY <1>2, <1>4, <2>9 DEF AddUnder, Ok
  <2>12. Fills(t, v, free, s)
    BY <1>2, <1>4, <2>5, <2>7, <2>10 DEF Fills
  <2>13. Stored(v)
    BY <1>1, <2>12, StoredPut
  <2>14. v \in Tables
    BY <1>1, <2>5, <2>10 DEF Tables
  <2>15. QED BY <2>1, <2>11, <2>13, <2>14, AddChildStore, StoredSame
<1>5. QED BY <1>3, <1>4

(* mkdir and symlink add an entry to the parent, or nothing. *)
Adds(t, ino, name, r, id) ==
    \/ r.table = t
    \/ \E dir \in BOOLEAN, link \in Name : r = AddUnder(t, DirOf(t, ino), name, id, [is_dir |-> dir, target |-> link])

LEMMA ParentThere ==
    ASSUME NEW t, TableOK(t), NEW ino, FoundIn(t, ino), NEW id, NEW e
    PROVE  Parent(t, ino, id, e) \in {Ok(t, DirOf(t, ino)), Err(t, e)}
<1>1. CASE ino = ROOT_INO
  <2>1. get_root_dir_idx(t) # 0
    BY <1>1, SlotNumber DEF FoundIn, ROOT_INO
  <2>2. ensure_root_dir(t, id) = Ok(t, get_root_dir_idx(t))
    BY <2>1 DEF ensure_root_dir
  <2>3. QED BY <1>1, <2>2 DEF Parent, DirOf
<1>2. CASE ino # ROOT_INO
  BY <1>2 DEF Parent, DirOf
<1>3. QED BY <1>1, <1>2

LEMMA RamAdds ==
    ASSUME NEW t, TableOK(t), NEW ino, FoundIn(t, ino), NEW name, NEW target \in Name, NEW id
    PROVE  /\ Adds(t, ino, name, ram_mkdir(t, ino, name, id), id)
           /\ Adds(t, ino, name, ram_symlink(t, ino, name, target, id), id)
<1>1. NoLink \in Name
  BY WordName DEF NoLink, Word
<1>2. PICK yes \in BOOLEAN, no \in BOOLEAN : yes = TRUE /\ no = FALSE
  OBVIOUS
<1>3. Adds(t, ino, name, ram_mkdir(t, ino, name, id), id)
  <2>1. PICK p, r : p = Parent(t, ino, id, "NotADirectory") /\ r = ram_mkdir(t, ino, name, id)
    OBVIOUS
  <2>2. p \in {Ok(t, DirOf(t, ino)), Err(t, "NotADirectory")}
    BY <2>1, ParentThere
  <2>3. p.table = t /\ (p.ok => p.val = DirOf(t, ino))
    BY <2>2 DEF Ok, Err
  <2>4. r.table = t \/ r = AddUnder(t, DirOf(t, ino), name, id, [is_dir |-> TRUE, target |-> NoLink])
    BY <2>1, <2>3 DEF ram_mkdir, Err
  <2>5. QED BY <1>1, <1>2, <2>1, <2>4 DEF Adds
<1>4. Adds(t, ino, name, ram_symlink(t, ino, name, target, id), id)
  <2>1. PICK p, r : p = Parent(t, ino, id, "NotFound") /\ r = ram_symlink(t, ino, name, target, id)
    OBVIOUS
  <2>2. p \in {Ok(t, DirOf(t, ino)), Err(t, "NotFound")}
    BY <2>1, ParentThere
  <2>3. p.table = t /\ (p.ok => p.val = DirOf(t, ino))
    BY <2>2 DEF Ok, Err
  <2>4. r.table = t \/ r = AddUnder(t, DirOf(t, ino), name, id, [is_dir |-> FALSE, target |-> target])
    BY <2>1, <2>3 DEF ram_symlink, Err
  <2>5. QED BY <1>2, <2>1, <2>4 DEF Adds
<1>5. QED BY <1>3, <1>4

LEMMA AddsStored ==
    ASSUME NEW t, TableOK(t), Stored(t), NEW ino, FoundIn(t, ino), NEW name \in Name, NEW id \in Nat,
           NEW r, Adds(t, ino, name, r, id)
    PROVE  Stored(r.table)
<1>1. CASE r.table = t
  BY <1>1
<1>2. ASSUME NEW dir \in BOOLEAN, NEW link \in Name,
             r = AddUnder(t, DirOf(t, ino), name, id, [is_dir |-> dir, target |-> link])
      PROVE  Stored(r.table)
  <2>1. PICK d \in Slots : d = DirOf(t, ino)
    BY DirIs
  <2>2. r = AddUnder(t, d, name, id, [is_dir |-> dir, target |-> link])
    BY <1>2, <2>1
  <2>3. QED BY <2>2, AddUnderStored
<1>3. QED BY <1>1, <1>2 DEF Adds

(* unlink and rmdir clear the slot of an entry of that name, or nothing. *)
LEMMA TakesClears ==
    ASSUME NEW t, TableOK(t), NEW ino, FoundIn(t, ino), NEW name, NEW r, Takes(t, ino, name, r), r.table # t
    PROVE  \E d, c \in Slots : Clears(t, r.table, d, c) /\ t[c].name = name
<1>1. t \in Tables /\ EntriesSound(t)
  BY DEF TableOK
<1>2. PICK d, c : /\ d = DirOf(t, ino) /\ c = find_child(t, d, name) /\ c # 0 /\ (ino = ROOT_INO \/ LiveDir(t, ino))
                  /\ r.table = clear_slot(DropChild(t, d, c), c)
  BY DEF Takes
<1>3. d \in Slots /\ IsDir(t, d)
  BY <1>2, DirIs
<1>4. PICK k \in DOMAIN t[d].children : t[d].children[k].slot = c /\ t[d].children[k].name = name
  BY <1>1, <1>2, <1>3, FoundChild
<1>5. c \in Slots
  <2>1. PICK l \in Seq(Child) : l = t[d].children
    BY <1>1, <1>3 DEF Tables, Slot
  <2>2. l[k] \in Child
    BY <2>1
  <2>3. QED BY <1>4, <2>1, <2>2 DEF Child
<1>6. t[c].name = name
  BY <1>1, <1>3, <1>4 DEF EntriesSound
<1>7. Clears(t, r.table, d, c)
  BY <1>2, <1>3, <1>4, <1>5 DEF Clears
<1>8. QED BY <1>3, <1>5, <1>6, <1>7

LEMMA ClearsData ==
    ASSUME NEW t, TableOK(t), NEW u, NEW d \in Slots, NEW c \in Slots, Clears(t, u, d, c)
    PROVE  \A i \in Slots : i # c => u[i].data = t[i].data
<1>1. t \in Tables /\ u = clear_slot(DropChild(t, d, c), c)
  BY DEF TableOK, Clears
<1>2. PICK s \in Slot : s = t[d]
  BY <1>1 DEF Tables
<1>3. PICK l : l = Retained(s.children, c)
  OBVIOUS
<1>4. PICK x : x = [s EXCEPT !.children = l]
  OBVIOUS
<1>5. x.data = s.data
  BY <1>4 DEF Slot
<1>6. PICK v : v = DropChild(t, d, c)
  OBVIOUS
<1>7. v = [t EXCEPT ![d] = x]
  BY <1>2, <1>3, <1>4, <1>6 DEF DropChild
<1>8. u = [v EXCEPT ![c] = Unused] /\ DOMAIN v = Slots
  BY <1>1, <1>6, <1>7 DEF clear_slot, Tables
<1>9. QED BY <1>1, <1>2, <1>5, <1>7, <1>8 DEF Tables

LEMMA TakesStored ==
    ASSUME NEW t, TableOK(t), Stored(t), NEW ino, FoundIn(t, ino), NEW name, NEW r, Takes(t, ino, name, r)
    PROVE  Stored(r.table)
<1>1. CASE r.table = t
  BY <1>1
<1>2. CASE r.table # t
  <2>1. PICK d \in Slots, c \in Slots : Clears(t, r.table, d, c)
    BY <1>2, TakesClears
  <2>2. PICK u : u = r.table /\ Clears(t, u, d, c)
    BY <2>1
  <2>3. /\ u[c] = Unused /\ \A i \in Slots : i # c => u[i].in_use = t[i].in_use /\ u[i].is_dir = t[i].is_dir
        /\ ListedIn(t, c)
    BY <2>2, ClearsIs
  <2>4. Fits(u)
    <3>1. \A i \in Slots : i # c => u[i].data = t[i].data
      BY <2>2, ClearsData
    <3>2. Len(Unused.data) <= MAX_FILE_SIZE
      BY RamfsAssumption DEF Unused
    <3>3. QED BY <2>3, <3>1, <3>2 DEF Fits, Stored
  <2>5. ~NoDirs(u)
    <3>1. ~NoDirs(t)
      BY <2>1 DEF Clears, NoDirs
    <3>2. PICK q \in Slots : IsRoot(t, q)
      BY <3>1 DEF TableOK, RootFirst
    <3>3. q \in 1 .. q
      BY SlotNumber
    <3>4. IsDir(t, q) /\ ~ListedIn(t, q)
      BY <3>2, <3>3 DEF IsRoot
    <3>5. IsDir(u, q)
      BY <2>3, <3>4 DEF IsDir
    <3>6. QED BY <3>5 DEF NoDirs
  <2>6. QED BY <2>2, <2>4, <2>5 DEF Stored, Packed
<1>3. QED BY <1>1, <1>2

LEMMA NextIdNat == ASSUME Settled, NEW t PROVE NextId(t) \in Nat
  BY DEF Settled, NextId, Id

LEMMA RenamedStored ==
    ASSUME Settled, Stored(table), MAX_FILE_SIZE \in Nat, NEW old \in Name, NEW new \in Name,
           resolve_fs(old).fs = "ramfs", resolve_fs(new).fs = "ramfs",
           NEW from, NEW bytes, NEW to, NEW w, NEW up, NEW un,
           RenameSteps(old, new, from, bytes, to, w, up, un)
    PROVE  /\ Stored(Renamed(old, new).table)
           /\ Stored(from.table) /\ Stored(to.table) /\ Stored(w.table)
<1>1. RenameGrown(old, from, bytes, to, w, up)
  BY RenameGrows
<1>2. TableOK(table) /\ Id \in Nat /\ NextId(from.table) \in Nat /\ NextId(w.table) \in Nat
  BY NextIdNat DEF Settled, Id
<1>3. TableOK(from.table) /\ TableOK(to.table) /\ TableOK(w.table) /\ bytes \in Content
  BY <1>1 DEF RenameGrown, Grow
<1>4. Stored(from.table)
  <2>1. IsOpen(table, old, FALSE, Id, from) /\ FALSE \in BOOLEAN
    BY DEF RenameSteps, IsOpen
  <2>2. QED BY <1>2, <2>1, OpenStored
<1>5. Stored(to.table)
  <2>1. PICK v, i : v = from.table /\ i = NextId(from.table) /\ i \in Nat /\ IsOpen(v, new, TRUE, i, to) /\ TRUE \in BOOLEAN
    BY <1>2 DEF RenameSteps, IsOpen
  <2>2. TableOK(v) /\ Stored(v)
    BY <1>3, <1>4, <2>1
  <2>3. QED BY <2>1, <2>2, OpenStored
<1>6. Stored(w.table)
  <2>1. w = IF bytes # <<>> THEN ram_write(to.table, to.val, 0, bytes) ELSE to
    BY DEF RenameSteps
  <2>2. to.table \in Tables /\ 0 \in Nat
    BY <1>3 DEF TableOK
  <2>3. QED BY <1>3, <1>5, <2>1, <2>2, WriteStored
<1>7. old # <<>> => TableOK(up.table) /\ Stored(up.table) /\ Stored(un.table)
  <2>1. ASSUME old # <<>> PROVE TableOK(up.table) /\ Stored(up.table) /\ Stored(un.table)
    <3>1. TableOK(up.table) /\ (up.ok => FoundIn(up.table, up.val))
      BY <1>1, <2>1 DEF RenameGrown, Grow
    <3>2. PICK dir \in Name, i \in Nat : dir = ParentOf(old) /\ i = NextId(w.table) /\ IsOpen(w.table, dir, FALSE, i, up)
      BY <1>2, <2>1, ParentIs DEF RenameSteps, IsOpen
    <3>3. Stored(up.table)
      <4>1. PICK v, no : v = w.table /\ no = FALSE /\ no \in BOOLEAN /\ IsOpen(v, dir, no, i, up) /\ TableOK(v) /\ Stored(v)
        BY <1>3, <1>6, <3>2
      <4>2. QED BY <4>1, OpenStored
    <3>4. un = IF up.ok THEN ram_unlink(up.table, up.val, <<NameOf(old)>>) ELSE up
      BY DEF RenameSteps
    <3>5. CASE up.ok
      <4>1. PICK name : name = <<NameOf(old)>> /\ Takes(up.table, up.val, name, un)
        BY <3>4, <3>5, RamTakes
      <4>2. QED BY <3>1, <3>3, <3>5, <4>1, TakesStored
    <3>6. CASE ~up.ok
      BY <3>1, <3>3, <3>4, <3>6
    <3>7. QED BY <3>5, <3>6
  <2>2. QED BY <2>1
<1>8. Renamed(old, new) =
         IF ~from.ok THEN from
         ELSE IF to.panic THEN to
         ELSE IF ~to.ok THEN Err(to.table, "Busy")
         ELSE IF ~HasName(old) THEN Ok(w.table, 0)
         ELSE IF up.panic THEN up ELSE Ok(un.table, 0)
  BY DEF RenameSteps
<1>9. CASE ~from.ok \/ to.panic \/ ~to.ok \/ ~HasName(old)
  <2>1. Renamed(old, new).table \in {from.table, to.table, w.table}
    BY <1>8, <1>9 DEF Ok, Err
  <2>2. QED BY <1>4, <1>5, <1>6, <2>1
<1>10. CASE ~(~from.ok \/ to.panic \/ ~to.ok \/ ~HasName(old))
  <2>1. Renamed(old, new) = up \/ Renamed(old, new) = Ok(un.table, 0)
    BY <1>8, <1>10
  <2>2. Renamed(old, new).table \in {up.table, un.table}
    BY <2>1 DEF Ok
  <2>3. old # <<>>
    BY <1>10 DEF HasName
  <2>4. QED BY <1>4, <1>5, <1>6, <1>7, <2>2, <2>3
<1>11. QED BY <1>9, <1>10

(* ---------------------------------------------------- rename carries a file *)

(* The whole of a file is read. *)
LEMMA AllBytesRead ==
    ASSUME NEW t \in Tables, Stored(t), NEW f \in Slots, t[f].in_use, MAX_FILE_SIZE \in Nat
    PROVE  BytesRead(t, f, 0, MAX_FILE_SIZE) = t[f].data
<1>1. PICK l \in Seq(Bytes \cup {0}) : l = t[f].data
  BY DEF Tables, Slot, Content
<1>2. Len(l) \in Nat /\ Len(l) <= MAX_FILE_SIZE
  BY <1>1 DEF Stored, Fits
<1>3. f # ROOT_INO /\ Live(t, f)
  BY SlotNumber DEF ROOT_INO, Live
<1>4. PICK r : r = ram_read(t, f, 0, MAX_FILE_SIZE)
  OBVIOUS
<1>5. r.ok = TRUE /\ r.val = Len(l)
  <2>1. CASE Len(l) = 0
    <3>1. r = Ok(t, 0)
      BY <1>1, <1>3, <1>4, <2>1 DEF ram_read
    <3>2. QED BY <2>1, <3>1 DEF Ok
  <2>2. CASE Len(l) # 0
    <3>1. ~(0 >= Len(l)) /\ Smaller(MAX_FILE_SIZE, Len(l) - 0) = Len(l)
      BY <1>2, <2>2 DEF Smaller
    <3>2. r = Ok(t, Smaller(MAX_FILE_SIZE, Len(l) - 0))
      BY <1>1, <1>3, <1>4, <3>1 DEF ram_read
    <3>3. QED BY <3>1, <3>2 DEF Ok
  <2>3. QED BY <2>1, <2>2
<1>6. BytesRead(t, f, 0, MAX_FILE_SIZE) = SubSeq(l, 1, Len(l))
  BY <1>1, <1>2, <1>4, <1>5 DEF BytesRead
<1>7. SubSeq(l, 1, Len(l)) = l
  OBVIOUS
<1>8. QED BY <1>1, <1>6, <1>7

(* The bytes are at the start of the file they are written to. *)
LEMMA WrittenStarts ==
    ASSUME NEW S, 0 \in S, NEW old \in Seq(S), NEW bytes \in Seq(S)
    PROVE  Starts(Written(old, 0, bytes), bytes)
<1>1. PICK w : w = Written(old, 0, bytes)
  OBVIOUS
<1>2. w \in Seq(S)
  BY <1>1, WrittenType
<1>3. PICK m \in Nat : m = (IF 0 + Len(bytes) > Len(old) THEN 0 + Len(bytes) ELSE Len(old)) /\ m >= Len(bytes)
  OBVIOUS
<1>4. w = [k \in 1 .. m |-> IF k > 0 /\ k <= 0 + Len(bytes) THEN bytes[k - 0]
                            ELSE IF k <= Len(old) THEN old[k] ELSE 0]
  BY <1>1, <1>3 DEF Written
<1>5. \A k \in 1 .. Len(bytes) : w[k] = bytes[k]
  BY <1>3, <1>4
<1>6. Len(w) = m
  BY <1>2, <1>3, <1>4
<1>7. SubSeq(w, 1, Len(bytes)) = bytes
  BY <1>2, <1>3, <1>5, <1>6
<1>8. QED BY <1>1, <1>3, <1>6, <1>7 DEF Starts

RenameWrites(t, g, bytes, w) == IF bytes # <<>> THEN w = ram_write(t, g, 0, bytes) ELSE w.table = t
Holds(t, n, g, bytes) == IsLowest(t, n, g) /\ Starts(t[g].data, bytes)

LEMMA WriteCarries ==
    ASSUME NEW t \in Tables, NEW n, NEW g, IsLowest(t, n, g), NEW bytes \in Content, Len(bytes) <= MAX_FILE_SIZE,
           MAX_FILE_SIZE \in Nat, NEW w, RenameWrites(t, g, bytes, w)
    PROVE  Holds(w.table, n, g, bytes)
<1> USE DEF Holds
<1>1. PICK D : D = Bytes \cup {0} /\ 0 \in D
  OBVIOUS
<1>2. g \in Slots /\ t[g].in_use /\ g # ROOT_INO
  BY SlotNumber DEF IsLowest, ROOT_INO
<1>3. PICK old \in Seq(D) : old = t[g].data
  BY <1>1, <1>2 DEF Tables, Slot, Content
<1>4. CASE bytes = <<>>
  <2>1. Starts(old, bytes)
    BY <1>3, <1>4 DEF Starts
  <2>2. w.table = t
    BY <1>4 DEF RenameWrites
  <2>3. QED BY <1>3, <2>1, <2>2
<1>5. CASE bytes # <<>>
  <2>1. w = ram_write(t, g, 0, bytes) /\ 0 \in Nat
    BY <1>5 DEF RenameWrites
  <2>2. SameTree(t, w.table)
    BY <2>1, RamWrite
  <2>3. IsLowest(w.table, n, g)
    BY <2>2 DEF IsLowest, SameTree
  <2>4. ~(0 + Len(bytes) > MAX_FILE_SIZE) /\ bytes \in Seq(D)
    BY <1>1 DEF Content
  <2>5. w = Ok([t EXCEPT ![g].data = Written(@, 0, bytes)], Len(bytes))
    BY <1>2, <2>1, <2>4 DEF ram_write, Live
  <2>6. PICK x : x = Written(old, 0, bytes)
    OBVIOUS
  <2>7. PICK s \in Slot : s = t[g]
    BY <1>2 DEF Tables
  <2>8. PICK y : y = [s EXCEPT !.data = x]
    OBVIOUS
  <2>9. y.data = x
    BY <2>8 DEF Slot
  <2>10. w.table = [t EXCEPT ![g] = y]
    <3>1. PICK u : u = [t EXCEPT ![g].data = Written(@, 0, bytes)]
      OBVIOUS
    <3>2. u = [t EXCEPT ![g] = y]
      BY <1>3, <2>6, <2>7, <2>8, <3>1
    <3>3. w = Ok(u, Len(bytes))
      BY <2>5, <3>1
    <3>4. w.table = u
      BY <3>3 DEF Ok
    <3>5. QED BY <3>2, <3>4
  <2>11. w.table[g] = y
    BY <1>2, <2>10 DEF Tables
  <2>12. Starts(x, bytes)
    BY <1>1, <1>3, <2>4, <2>6, WrittenStarts
  <2>13. QED BY <2>3, <2>9, <2>11, <2>12
<1>6. QED BY <1>4, <1>5

(* Making the root's slot shadows no name: it goes behind every slot in use. *)
Carried(t, u, n, g) == IsLowest(u, n, g) /\ u[g].data = t[g].data
RamLooks(t, dir, id, r) == r = ram_open(t, dir, FALSE, id)

LEMMA LookCarries ==
    ASSUME NEW t, TableOK(t), Stored(t), NEW n, NEW g, IsLowest(t, n, g), NEW dir \in Name, NEW id \in Nat,
           NEW up, RamLooks(t, dir, id, up)
    PROVE  Carried(t, up.table, n, g)
<1> USE DEF Carried
<1>0. up = ram_open(t, dir, FALSE, id)
  BY DEF RamLooks
<1>1. t \in Tables /\ RootFirst(t)
  BY DEF TableOK
<1>2. CASE up.table = t
  BY <1>2
<1>3. CASE up.table # t
  <2>1. dir = <<>>
    <3>1. ASSUME dir # <<>> PROVE FALSE
      <4>1. \E v : up = Ok(t, v) \/ up = Err(t, v)
        BY <1>0, <3>1 DEF ram_open
      <4>2. \A v : Ok(t, v).table = t /\ Err(t, v).table = t
        BY DEF Ok, Err
      <4>3. QED BY <1>3, <4>1, <4>2
    <3>2. QED BY <3>1
  <2>2. PICK q : q = ensure_root_dir(t, id)
    OBVIOUS
  <2>3. up = IF q.panic THEN q ELSE Ok(q.table, ROOT_INO)
    BY <1>0, <2>1, <2>2 DEF ram_open
  <2>4. up.table = q.table
    <3>1. up = q \/ up = Ok(q.table, ROOT_INO)
      BY <2>3
    <3>2. Ok(q.table, ROOT_INO).table = q.table
      BY DEF Ok
    <3>3. QED BY <3>1, <3>2
  <2>5. PICK free : free = find_free_slot(t)
    OBVIOUS
  <2>6. get_root_dir_idx(t) = 0 /\ free # 0
    <3>1. get_root_dir_idx(t) # 0 => q.table = t
      BY <2>2 DEF ensure_root_dir, Ok
    <3>2. get_root_dir_idx(t) = 0 /\ free = 0 => q.table = t
      BY <2>2, <2>5 DEF ensure_root_dir, Panic
    <3>3. QED BY <1>3, <2>4, <3>1, <3>2
  <2>7. PICK s : RootSlot(s, id)
    BY DEF RootSlot
  <2>8. q = Ok([t EXCEPT ![free] = s], free)
    BY <2>2, <2>5, <2>6, <2>7 DEF ensure_root_dir, RootSlot
  <2>9. up.table = [t EXCEPT ![free] = s]
    BY <2>4, <2>8 DEF Ok
  <2>10. free \in Slots /\ ~t[free].in_use
    BY <2>5, <2>6, FreeSlot
  <2>11. \A i \in Slots : i # free => up.table[i] = t[i]
    BY <1>1, <2>9, <2>10 DEF Tables
  <2>12. g \in Slots /\ t[g].in_use /\ g # free
    BY <2>10 DEF IsLowest
  <2>13. g <= free
    <3>1. NoDirs(t)
      BY <1>1, <2>6, RootOrNone
    <3>2. ~(free < g)
      BY <2>10, <2>12, <3>1 DEF Stored, Packed
    <3>3. QED BY <2>10, <2>12, <3>2, SlotNumber
  <2>14. QED BY <2>11, <2>12, <2>13 DEF IsLowest
<1>4. QED BY <1>2, <1>3

LEMMA TakeCarries ==
    ASSUME NEW t, TableOK(t), NEW n, NEW g, IsLowest(t, n, g), NEW ino, FoundIn(t, ino), NEW name, name # n,
           NEW r, Takes(t, ino, name, r)
    PROVE  IsLowest(r.table, n, g) /\ r.table[g].data = t[g].data
<1>1. CASE r.table = t
  BY <1>1
<1>2. CASE r.table # t
  <2>1. PICK d \in Slots, c \in Slots : Clears(t, r.table, d, c) /\ t[c].name = name
    BY <1>2, TakesClears
  <2>2. PICK u : u = r.table /\ Clears(t, u, d, c)
    BY <2>1
  <2>3. u[c] = Unused /\ \A i \in Slots : i # c => u[i].in_use = t[i].in_use /\ u[i].name = t[i].name
    BY <2>2, ClearsIs
  <2>4. \A i \in Slots : i # c => u[i].data = t[i].data
    BY <2>2, ClearsData
  <2>5. ~u[c].in_use
    BY <2>3 DEF Unused
  <2>6. g \in Slots /\ g # c
    BY <2>1 DEF IsLowest
  <2>7. IsLowest(u, n, g)
    BY <2>3, <2>5, <2>6 DEF IsLowest
  <2>8. QED BY <2>2, <2>4, <2>6, <2>7
<1>3. QED BY <1>1, <1>2

LEMMA RenamedCarries ==
    ASSUME Settled, Stored(table), MAX_FILE_SIZE \in Nat, NEW old \in Name, NEW new \in Name,
           resolve_fs(old).fs = "ramfs", resolve_fs(new).fs = "ramfs",
           old # <<>>, new # <<>>, new # <<NameOf(old)>>,
           NEW f, f = find_file(table, old), f # 0, NEW r, r = Renamed(old, new), r.ok, ~r.panic
    PROVE  find_file(r.table, new) # 0 /\ Starts(r.table[find_file(r.table, new)].data, table[f].data)
<1>1. PICK from, bytes, to, w, up, un : RenameSteps(old, new, from, bytes, to, w, up, un)
  BY RenameHasSteps
<1>2. RenameGrown(old, from, bytes, to, w, up) /\ HasName(old)
  BY <1>1, RenameGrows DEF HasName
<1>3. TableOK(table) /\ table \in Tables /\ Id \in Nat /\ NextId(table) \in Nat /\ NextId(w.table) \in Nat
  BY NextIdNat DEF Settled, Id, TableOK
<1>4. /\ from = open(table, old, FALSE, Id)
      /\ bytes = BytesRead(from.table, from.val, 0, MAX_FILE_SIZE)
      /\ to = open(from.table, new, TRUE, NextId(from.table))
      /\ w = IF bytes # <<>> THEN ram_write(to.table, to.val, 0, bytes) ELSE to
      /\ up = open(w.table, ParentOf(old), FALSE, NextId(w.table))
      /\ un = IF up.ok THEN ram_unlink(up.table, up.val, <<NameOf(old)>>) ELSE up
  BY <1>1 DEF RenameSteps
<1>5. r = IF ~from.ok THEN from
          ELSE IF to.panic THEN to
          ELSE IF ~to.ok THEN Err(to.table, "Busy")
          ELSE IF up.panic THEN up ELSE Ok(un.table, 0)
  BY <1>1, <1>2 DEF RenameSteps
<1>6. f \in Slots /\ table[f].in_use
  BY FoundFile
<1>7. from.table = table /\ from.val = f /\ from.ok = TRUE
  <2>1. from = ram_open(table, old, FALSE, Id)
    BY <1>4, FsIs DEF open
  <2>2. from = Ok(table, f)
    BY <2>1 DEF ram_open
  <2>3. QED BY <2>2 DEF Ok
<1>8. bytes = table[f].data /\ bytes \in Content /\ Len(bytes) <= MAX_FILE_SIZE
  <2>1. bytes = BytesRead(table, f, 0, MAX_FILE_SIZE)
    BY <1>4, <1>7
  <2>2. bytes = table[f].data
    BY <1>3, <1>6, <2>1, AllBytesRead
  <2>3. QED BY <1>2, <1>6, <2>2 DEF Stored, Fits, RenameGrown
<1>9. to.ok /\ ~to.panic /\ ~up.panic /\ r.table = un.table
  <2>1. to.panic => r = to
    BY <1>5, <1>7
  <2>2. ~to.panic /\ ~to.ok => r = Err(to.table, "Busy")
    BY <1>5, <1>7
  <2>3. Err(to.table, "Busy").ok = FALSE
    BY DEF Err
  <2>4. ~to.panic /\ to.ok
    BY <2>1, <2>2, <2>3
  <2>5. up.panic => r = up
    BY <1>5, <1>7, <2>4
  <2>6. ~up.panic
    BY <2>5
  <2>7. r = Ok(un.table, 0)
    BY <1>5, <1>7, <2>4, <2>6
  <2>8. r.table = un.table
    BY <2>7 DEF Ok
  <2>9. QED BY <2>4, <2>6, <2>8
<1>10. PICK g : g = to.val /\ IsLowest(to.table, new, g)
  <2>1. PICK i \in Nat, yes \in BOOLEAN : i = NextId(table) /\ yes = TRUE
    BY <1>3
  <2>2. to = ram_open(table, new, yes, i)
    BY <1>4, <1>7, <2>1, FsIs DEF open
  <2>3. yes /\ new # <<>> /\ to.ok => IsLowest(to.table, new, to.val)
    BY <1>3, <2>2, RamOpenStored
  <2>4. QED BY <1>9, <2>1, <2>3
<1>11. TableOK(to.table) /\ TableOK(w.table) /\ TableOK(up.table) /\ Stored(w.table) /\ (up.ok => FoundIn(up.table, up.val))
  <2>1. TableOK(to.table) /\ TableOK(w.table) /\ TableOK(up.table) /\ (up.ok => FoundIn(up.table, up.val))
    BY <1>2 DEF RenameGrown, Grow
  <2>2. Stored(w.table)
    BY <1>1, RenamedStored
  <2>3. QED BY <2>1, <2>2
<1>12. IsLowest(w.table, new, g) /\ Starts(w.table[g].data, bytes)
  <2>1. PICK t \in Tables : t = to.table /\ IsLowest(t, new, g)
    BY <1>10, <1>11 DEF TableOK
  <2>2. RenameWrites(t, g, bytes, w)
    BY <1>4, <1>10, <2>1 DEF RenameWrites
  <2>3. Holds(w.table, new, g, bytes)
    BY <1>8, <2>1, <2>2, WriteCarries
  <2>4. QED BY <2>3 DEF Holds
<1>13. IsLowest(up.table, new, g) /\ up.table[g].data = w.table[g].data
  <2>1. PICK t, dir, i : t = w.table /\ dir = ParentOf(old) /\ i = NextId(w.table)
    OBVIOUS
  <2>2. dir \in Name /\ resolve_fs(dir).fs = "ramfs" /\ i \in Nat /\ TableOK(t) /\ Stored(t) /\ IsLowest(t, new, g)
    BY <1>3, <1>11, <1>12, <2>1, ParentIs
  <2>3. RamLooks(t, dir, i, up)
    BY <1>4, <2>1, <2>2, FsIs DEF open, RamLooks
  <2>4. Carried(t, up.table, new, g)
    BY <2>2, <2>3, LookCarries
  <2>5. QED BY <2>1, <2>4 DEF Carried
<1>14. IsLowest(un.table, new, g) /\ un.table[g].data = up.table[g].data
  <2>1. CASE ~up.ok
    BY <1>4, <1>13, <2>1
  <2>2. CASE up.ok
    <3>1. PICK name : name = <<NameOf(old)>> /\ name # new
      OBVIOUS
    <3>2. Takes(up.table, up.val, name, un)
      <4>1. un = ram_unlink(up.table, up.val, name)
        BY <1>4, <2>2, <3>1
      <4>2. Takes(up.table, up.val, name, ram_unlink(up.table, up.val, name))
        BY RamTakes
      <4>3. QED BY <4>1, <4>2
    <3>3. QED BY <1>11, <1>13, <2>2, <3>1, <3>2, TakeCarries
  <2>3. QED BY <2>1, <2>2
<1>15. find_file(r.table, new) = g /\ g # 0
  BY <1>9, <1>14, LowestFile, SlotNumber DEF IsLowest
<1>16. QED BY <1>8, <1>9, <1>12, <1>13, <1>14, <1>15

(* ------------------------------------------------------- every call, again *)

StoreInv == FilesInv /\ Stored(table)

LEMMA StoreStart == ASSUME FilesInit PROVE StoreInv
<1>1. FilesInv
  BY StartInv
<1>2. table = [i \in Slots |-> Unused]
  BY DEF FilesInit
<1>3. \A i \in Slots : Len(table[i].data) <= MAX_FILE_SIZE /\ ~table[i].in_use
  BY <1>2, RamfsAssumption DEF Unused
<1>4. QED BY <1>1, <1>3 DEF StoreInv, Stored, Fits, Packed

LEMMA LookStored ==
    ASSUME StoreInv, NEW full \in Name, NEW create \in BOOLEAN, NEW r, IsOpen(table, full, create, Id, r)
    PROVE  Stored(r.table)
<1>1. TableOK(table) /\ Stored(table) /\ Id \in Nat
  BY DEF StoreInv, FilesInv, Settled, Id
<1>2. QED BY <1>1, OpenStored

(* What a call does to an entry of a directory, once the parent is open. *)
EntryResult(full, up, r) ==
    \/ r.table = up.table
    \/ /\ up.ok /\ resolve_fs(ParentOf(full)).fs = "ramfs"
       /\ \/ Takes(up.table, up.val, <<NameOf(full)>>, r)
          \/ r = ram_mkdir(up.table, up.val, <<NameOf(full)>>, NextId(up.table))
          \/ \E target \in Name : r = ram_symlink(up.table, up.val, <<NameOf(full)>>, target, NextId(up.table))

LEMMA EntryStored ==
    ASSUME StoreInv, NEW p \in UserPaths, NEW full, full = resolve_path(p),
           NEW up, IsOpen(table, ParentOf(full), FALSE, Id, up),
           NEW r, EntryStep(p, up, r), EntryResult(full, up, r)
    PROVE  Stored(table')
<1>1. FilesInv /\ Stored(table) /\ Settled
  BY DEF StoreInv, FilesInv
<1>2. CASE ~HasName(full)
  BY <1>1, <1>2 DEF EntryStep
<1>3. CASE HasName(full)
  <2>1. full \in Name /\ full # <<>> /\ table' = r.table
    BY <1>1, <1>3, ResolvedPath DEF HasName, EntryStep, NewTable
  <2>2. PICK n : n \in {0, 1} /\ Grow(up.table, n)
    BY <1>1, <2>1, ParentOpened
  <2>3. (resolve_fs(ParentOf(full)).fs = "ramfs" /\ up.ok => FoundIn(up.table, up.val)) /\ <<NameOf(full)>> \in Name
    BY <1>1, <2>1, ParentOpened
  <2>4. TableOK(up.table)
    BY <2>2 DEF Grow
  <2>5. PICK dir, no : dir = ParentOf(full) /\ dir \in Name /\ no = FALSE /\ no \in BOOLEAN /\ IsOpen(table, dir, no, Id, up)
    BY <2>1, ParentIs
  <2>6. Stored(up.table)
    BY <2>5, LookStored
  <2>7. PICK t, ino, name, i : t = up.table /\ ino = up.val /\ name = <<NameOf(full)>> /\ i = NextId(up.table)
    OBVIOUS
  <2>8. TableOK(t) /\ Stored(t) /\ name \in Name /\ i \in Nat
    BY <1>1, <2>3, <2>4, <2>6, <2>7, NextIdNat
  <2>9. \/ r.table = t
        \/ FoundIn(t, ino) /\ Takes(t, ino, name, r)
        \/ FoundIn(t, ino) /\ r = ram_mkdir(t, ino, name, i)
        \/ FoundIn(t, ino) /\ \E target \in Name : r = ram_symlink(t, ino, name, target, i)
    BY <2>3, <2>7 DEF EntryResult
  <2>10. CASE r.table = t
    BY <2>1, <2>8, <2>10
  <2>11. CASE FoundIn(t, ino) /\ Takes(t, ino, name, r)
    BY <2>1, <2>8, <2>11, TakesStored
  <2>12. CASE FoundIn(t, ino) /\ r = ram_mkdir(t, ino, name, i)
    <3>1. NoLink \in Name
      BY WordName DEF NoLink, Word
    <3>2. Adds(t, ino, name, r, i)
      BY <2>8, <2>12, <3>1, RamAdds
    <3>3. QED BY <2>1, <2>8, <2>12, <3>2, AddsStored
  <2>13. ASSUME NEW target \in Name, FoundIn(t, ino), r = ram_symlink(t, ino, name, target, i) PROVE Stored(table')
    <3>1. Adds(t, ino, name, r, i)
      BY <2>8, <2>13, RamAdds
    <3>2. QED BY <2>1, <2>8, <2>13, <3>1, AddsStored
  <2>14. QED BY <2>9, <2>10, <2>11, <2>12, <2>13
<1>4. QED BY <1>2, <1>3

LEMMA EntriesStored ==
    ASSUME StoreInv, UNCHANGED use, NEW p \in UserPaths,
           \/ sys_fs_unlink(p) \/ sys_fs_mkdir(p) \/ sys_fs_rmdir(p)
           \/ \E target \in use.targets : sys_symlink(p, target)
    PROVE  Stored(table')
<1>1. PICK full, up, fs, n : full = resolve_path(p) /\ up = open(table, ParentOf(full), FALSE, Id)
                             /\ fs = resolve_fs(ParentOf(full)).fs /\ n = <<NameOf(full)>>
  OBVIOUS
<1>2. IsOpen(table, ParentOf(full), FALSE, Id, up)
  BY <1>1 DEF IsOpen
<1>3. \A e : Err(up.table, e).table = up.table
  BY DEF Err
<1>4. CASE sys_fs_unlink(p)
  <2>1. PICK r : r = IF up.ok /\ fs = "ramfs" THEN ram_unlink(up.table, up.val, n)
                     ELSE IF up.ok THEN Err(up.table, "PermissionDenied") ELSE up
    OBVIOUS
  <2>2. EntryStep(p, up, r)
    BY <1>1, <1>4, <2>1 DEF sys_fs_unlink, Changes, EntryStep
  <2>3. EntryResult(full, up, r)
    BY <1>1, <1>3, <2>1, RamTakes DEF EntryResult
  <2>4. QED BY <1>1, <1>2, <2>2, <2>3, EntryStored
<1>5. CASE sys_fs_rmdir(p)
  <2>1. PICK r : r = IF up.ok /\ fs = "ramfs" THEN ram_rmdir(up.table, up.val, n)
                     ELSE IF up.ok THEN Err(up.table, "NotSupported") ELSE up
    OBVIOUS
  <2>2. EntryStep(p, up, r)
    BY <1>1, <1>5, <2>1 DEF sys_fs_rmdir, Changes, EntryStep
  <2>3. EntryResult(full, up, r)
    BY <1>1, <1>3, <2>1, RamTakes DEF EntryResult
  <2>4. QED BY <1>1, <1>2, <2>2, <2>3, EntryStored
<1>6. CASE sys_fs_mkdir(p)
  <2>1. PICK r : r = IF up.ok /\ fs = "ramfs" THEN ram_mkdir(up.table, up.val, n, NextId(up.table))
                     ELSE IF up.ok THEN Err(up.table, "NotSupported") ELSE up
    OBVIOUS
  <2>2. EntryStep(p, up, r)
    BY <1>1, <1>6, <2>1 DEF sys_fs_mkdir, Changes, EntryStep
  <2>3. EntryResult(full, up, r)
    BY <1>1, <1>3, <2>1 DEF EntryResult
  <2>4. QED BY <1>1, <1>2, <2>2, <2>3, EntryStored
<1>7. ASSUME NEW target \in use.targets, sys_symlink(p, target) PROVE Stored(table')
  <2>1. PICK r : r = IF up.ok /\ fs = "ramfs" THEN ram_symlink(up.table, up.val, n, target, NextId(up.table))
                     ELSE IF up.ok THEN Err(up.table, "NotSupported") ELSE up
    OBVIOUS
  <2>2. EntryStep(p, up, r)
    BY <1>1, <1>7, <2>1 DEF sys_symlink, Changes, EntryStep
  <2>3. target \in Name
    <3>1. target \in Seq(STRING) /\ STRING \subseteq Word
      BY <1>7, FilesAssumption DEF StoreInv, FilesInv, Word
    <3>2. QED BY <3>1, SeqSubset DEF Name
  <2>4. EntryResult(full, up, r)
    BY <1>1, <1>3, <2>1, <2>3 DEF EntryResult
  <2>5. QED BY <1>1, <1>2, <2>2, <2>4, EntryStored
<1>8. QED BY <1>4, <1>5, <1>6, <1>7

LEMMA CallStored == ASSUME StoreInv, Call, UNCHANGED use PROVE Stored(table')
<1>1. FilesInv /\ Stored(table) /\ Settled /\ TableOK(table) /\ table \in Tables /\ MAX_FILE_SIZE \in Nat
  BY RamfsAssumption DEF StoreInv, FilesInv, Settled, TableOK
<1>2. ASSUME table' = table PROVE Stored(table')
  BY <1>1, <1>2
<1>3. ASSUME NEW p \in UserPaths, NEW create \in BOOLEAN,
             table' = open(table, resolve_path(p), create, Id).table
      PROVE  Stored(table')
  <2>1. PICK r, full : r = open(table, full, create, Id) /\ full = resolve_path(p)
    OBVIOUS
  <2>2. full \in Name /\ IsOpen(table, full, create, Id, r)
    BY <1>1, <2>1, ResolvedPath DEF IsOpen
  <2>3. Stored(r.table)
    BY <2>2, LookStored
  <2>4. QED BY <1>3, <2>1, <2>3
<1>4. ASSUME NEW p \in UserPaths, NEW create \in BOOLEAN, sys_fs_open_path(p, create) PROVE Stored(table')
  <2>1. table' = open(table, resolve_path(p), create, Id).table
    BY <1>4 DEF sys_fs_open_path, NewTable
  <2>2. QED BY <1>3, <2>1
<1>5. ASSUME NEW p \in UserPaths,
             \/ sys_fs_stat(p) \/ sys_fs_readdir(p) \/ sys_readlink(p) \/ sys_chmod(p)
             \/ (\E x_ok \in BOOLEAN : sys_access(p, x_ok)) \/ sys_chdir(p)
      PROVE  Stored(table')
  <2>1. PICK no \in BOOLEAN : no = FALSE
    OBVIOUS
  <2>2. table' = open(table, resolve_path(p), FALSE, Id).table
    <3>1. CASE sys_fs_stat(p)
      BY <3>1 DEF sys_fs_stat, Looks, NewTable
    <3>2. CASE sys_fs_readdir(p)
      BY <3>2 DEF sys_fs_readdir, Looks, NewTable
    <3>3. CASE sys_readlink(p)
      BY <3>3 DEF sys_readlink, Looks, NewTable
    <3>4. CASE sys_chmod(p)
      BY <3>4 DEF sys_chmod, Looks, NewTable
    <3>5. ASSUME NEW x_ok \in BOOLEAN, sys_access(p, x_ok) PROVE table' = open(table, resolve_path(p), FALSE, Id).table
      BY <3>5 DEF sys_access, Looks, NewTable
    <3>6. CASE sys_chdir(p)
      BY <3>6 DEF sys_chdir, NewTable
    <3>7. QED BY <1>5, <3>1, <3>2, <3>3, <3>4, <3>5, <3>6
  <2>3. table' = open(table, resolve_path(p), no, Id).table
    BY <2>1, <2>2
  <2>4. QED BY <1>3, <2>3
<1>6. ASSUME NEW p \in UserPaths, NEW q \in UserPaths, sys_fs_rename(p, q) PROVE Stored(table')
  <2>1. PICK old, new : old = resolve_path(p) /\ new = resolve_path(q)
    OBVIOUS
  <2>2. /\ old \in Name /\ new \in Name /\ resolve_fs(old).fs = "ramfs" /\ resolve_fs(new).fs = "ramfs"
        /\ table' = Renamed(old, new).table
    BY <1>1, <1>6, <2>1, ResolvedPath DEF sys_fs_rename, NewTable
  <2>3. PICK from, bytes, to, w, up, un : RenameSteps(old, new, from, bytes, to, w, up, un)
    BY RenameHasSteps
  <2>4. Stored(Renamed(old, new).table)
    BY <1>1, <2>2, <2>3, RenamedStored
  <2>5. QED BY <2>2, <2>4
<1>7. ASSUME NEW fd \in Fds, NEW bytes \in Writes, sys_fs_write(fd, bytes) PROVE Stored(table')
  <2>1. PICK r, e, fs : e = fd_table[fd] /\ fs = resolve_fs(e.path).fs /\ table' = r.table
          /\ r = CASE fs = "ramfs" -> ram_write(table, e.ino, e.offset, bytes)
                   [] fs = "proc" -> Err(table, "PermissionDenied")
                   [] fs = "dev" -> Lift(table, dev_write(e.ino, Len(bytes)))
    BY <1>7 DEF sys_fs_write
  <2>2. e \in Entry
    BY <1>1, <2>1 DEF FilesInv
  <2>3. fs \in {"ramfs", "proc", "dev"}
    BY <2>1, <2>2, FsIs DEF Entry
  <2>4. CASE fs = "ramfs"
    <3>1. PICK o, ino : o = e.offset /\ ino = e.ino /\ o \in Nat
      BY <2>2 DEF Entry
    <3>2. r = ram_write(table, ino, o, bytes)
      BY <2>1, <2>4, <3>1
    <3>3. bytes \in Content
      <4>1. PICK k \in 1 .. use.io : bytes \in [1 .. k -> Bytes]
        BY <1>7 DEF Writes
      <4>2. use.io \in Nat /\ k \in Nat
        BY <1>1, FilesAssumption DEF FilesInv
      <4>3. bytes \in Seq(Bytes)
        BY <4>1, <4>2
      <4>4. Bytes \subseteq Bytes \cup {0}
        OBVIOUS
      <4>5. QED BY <4>3, <4>4, SeqSubset DEF Content
    <3>4. Stored(r.table)
      BY <1>1, <3>1, <3>2, <3>3, WriteStored
    <3>5. QED BY <2>1, <3>4
  <2>5. CASE fs \in {"proc", "dev"}
    <3>1. \E x : r = Err(table, x) \/ r = Lift(table, x)
      BY <2>1, <2>5
    <3>2. \A x : Err(table, x).table = table /\ Lift(table, x).table = table
      BY DEF Err, Lift
    <3>3. QED BY <1>1, <2>1, <3>1, <3>2
  <2>6. QED BY <2>3, <2>4, <2>5
<1>8. ASSUME NEW fd \in Fds,
             \/ \E len \in 1 .. use.io, n \in 0 .. MaxContent : sys_fs_read(fd, len, n, n)
             \/ \E delta \in -1 .. 1, whence \in IF use.io = 0 THEN {} ELSE {"SET", "CUR", "END"}, n \in 0 .. MaxContent :
                   sys_fs_seek(fd, delta, whence, n)
             \/ sys_fs_close_path(fd) \/ sys_fstat(fd) \/ sys_getdents64(fd)
             \/ \E new \in Fds : sys_dup2(fd, new)
      PROVE  Stored(table')
  <2>1. table' = table
    BY <1>8 DEF sys_fs_read, sys_fs_seek, sys_fs_close_path, sys_fstat, sys_getdents64, sys_dup2
  <2>2. QED BY <1>1, <2>1
<1>9. QED BY <1>4, <1>5, <1>6, <1>7, <1>8, EntriesStored DEF Call

LEMMA StoreStep == ASSUME StoreInv, [FilesNext]_files_vars PROVE StoreInv'
<1>1. FilesInv'
  BY StepInv DEF StoreInv
<1>2. Stored(table')
  <2>1. CASE UNCHANGED files_vars
    BY <2>1 DEF files_vars, StoreInv
  <2>2. CASE FilesNext
    BY <2>2, CallStored DEF FilesNext
  <2>3. QED BY <2>1, <2>2
<1>3. QED BY <1>1, <1>2 DEF StoreInv

(* What RenameCarries says of one step. *)
CarriesStep ==
    \A p, q \in UserPaths :
         LET old == resolve_path(p)
             new == resolve_path(q)
             from == find_file(table, old)
             to == find_file(table', new)
         IN  (/\ old # <<>> /\ new # <<>> /\ new # old /\ new # <<NameOf(old)>>
              /\ from # 0 /\ ret' = "ok" /\ sys_fs_rename(p, q)) =>
                to # 0 /\ Starts(table'[to].data, table[from].data)

LEMMA StepCarries == ASSUME StoreInv, [FilesNext]_files_vars PROVE CarriesStep
<1>1. FilesInv /\ Stored(table) /\ Settled /\ MAX_FILE_SIZE \in Nat
  BY RamfsAssumption DEF StoreInv, FilesInv
<1>2. SUFFICES ASSUME NEW p \in UserPaths, NEW q \in UserPaths, NEW old, NEW new, NEW f,
                      old = resolve_path(p), new = resolve_path(q), f = find_file(table, old),
                      old # <<>>, new # <<>>, new # <<NameOf(old)>>, f # 0, ret' = "ok", sys_fs_rename(p, q)
               PROVE  find_file(table', new) # 0 /\ Starts(table'[find_file(table', new)].data, table[f].data)
  BY DEF CarriesStep
<1>3. /\ old \in Name /\ new \in Name /\ resolve_fs(old).fs = "ramfs" /\ resolve_fs(new).fs = "ramfs"
  BY <1>1, <1>2, ResolvedPath DEF sys_fs_rename
<1>4. PICK r : r = Renamed(old, new) /\ table' = r.table /\ ret' = IF r.panic THEN "panic" ELSE Outcome(r.ok)
  BY <1>2 DEF sys_fs_rename, NewTable, Answer
<1>5. ~r.panic /\ r.ok
  BY <1>2, <1>4 DEF Outcome
<1>6. find_file(r.table, new) # 0 /\ Starts(r.table[find_file(r.table, new)].data, table[f].data)
  BY <1>1, <1>2, <1>3, <1>4, <1>5, RenamedCarries
<1>7. QED BY <1>4, <1>6

(* A rename that answers ok leaves the new name bound to a file that starts  *)
(* with the bytes of the old one, whatever either name was before, unless    *)
(* the new name is the last component of the old (sys_fs_rename).            *)
THEOREM RenameCarriesFiles == FilesSpec => RenameCarries
<1>1. FilesInit => StoreInv
  BY StoreStart
<1>2. StoreInv /\ [FilesNext]_files_vars => StoreInv'
  BY StoreStep
<1>3. StoreInv /\ [FilesNext]_files_vars => [CarriesStep]_files_vars
  BY StepCarries
<1>4. QED BY <1>1, <1>2, <1>3, PTL DEF FilesSpec, RenameCarries, CarriesStep
=============================================================================
