-------------------------- MODULE FlowCacheProofs --------------------------
(***************************************************************************)
(* The invariants of FlowCache hold for every set of keys, every           *)
(* max_sessions from 2 on and all timeouts.                                *)
(*                                                                         *)
(* First the lists as sequences, then the operations of the hash table and *)
(* of the cache, each shown to keep the cache consistent (CacheOK), then   *)
(* the inductive invariant, action by action.                              *)
(***************************************************************************)
EXTENDS FlowCache, SequenceTheorems, TLAPS

-----------------------------------------------------------------------------
(* Lists.                                                                  *)

(* What unlinking the i-th node leaves, element by element.                *)
LEMMA UnlinkAsFunction ==
    ASSUME NEW S, NEW s \in Seq(S), NEW i \in 1 .. Len(s)
    PROVE  SubSeq(s, 1, i - 1) \o SubSeq(s, i + 1, Len(s)) =
              [j \in 1 .. Len(s) - 1 |-> IF j < i THEN s[j] ELSE s[j + 1]]
<1> DEFINE a == SubSeq(s, 1, i - 1)
           b == SubSeq(s, i + 1, Len(s))
           f == [j \in 1 .. Len(s) - 1 |-> IF j < i THEN s[j] ELSE s[j + 1]]
<1>0. Len(s) \in Nat /\ i \in Int
  BY LenProperties
<1>1. a \in Seq(S) /\ Len(a) = i - 1 /\ \A j \in 1 .. i - 1 : a[j] = s[j]
  BY <1>0, SubSeqProperties
<1>2. b \in Seq(S) /\ Len(b) = Len(s) - i /\ \A j \in 1 .. Len(s) - i : b[j] = s[i + j]
  BY <1>0, SubSeqProperties
<1> HIDE DEF a, b
<1>c. /\ a \o b \in Seq(S)
      /\ Len(a \o b) = Len(a) + Len(b)
      /\ \A j \in 1 .. Len(a) + Len(b) :
            (a \o b)[j] = IF j <= Len(a) THEN a[j] ELSE b[j - Len(a)]
  BY <1>1, <1>2, ConcatProperties, Zenon
<1>3. /\ a \o b \in Seq(S)
      /\ Len(a \o b) = Len(s) - 1
      /\ \A j \in 1 .. Len(s) - 1 : (a \o b)[j] = IF j < i THEN a[j] ELSE b[j - (i - 1)]
  BY <1>0, <1>1, <1>2, <1>c
<1>4. \A j \in 1 .. Len(s) - 1 : (a \o b)[j] = f[j]
  BY <1>0, <1>1, <1>2, <1>3
<1>5. a \o b = [j \in 1 .. Len(s) - 1 |-> (a \o b)[j]]
  BY <1>3, LenProperties, Zenon
<1> QED
  BY <1>4, <1>5, Zenon DEF a, b

(* Without, for a key that is in the list: its length and its elements.    *)
LEMMA WithoutPresent ==
    ASSUME NEW S, NEW s \in Seq(S), IsInjective(s), NEW k \in Range(s)
    PROVE  /\ Without(s, k) \in Seq(S)
           /\ Len(Without(s, k)) = Len(s) - 1
           /\ Position(s, k) \in 1 .. Len(s)
           /\ s[Position(s, k)] = k
           /\ \A j \in 1 .. Len(s) - 1 :
                 Without(s, k)[j] = IF j < Position(s, k) THEN s[j] ELSE s[j + 1]
<1> DEFINE i == Position(s, k)
           f == [j \in 1 .. Len(s) - 1 |-> IF j < i THEN s[j] ELSE s[j + 1]]
<1>1. Len(s) \in Nat /\ DOMAIN s = 1 .. Len(s) /\ \A j \in 1 .. Len(s) : s[j] \in S
  BY LenProperties, ElementOfSeq
<1>2. i \in 1 .. Len(s) /\ s[i] = k
  <2>1. \E j \in DOMAIN s : s[j] = k
    BY DEF Range
  <2> QED
    BY <2>1, <1>1 DEF Position
<1> HIDE DEF i
<1>3. Without(s, k) = f
  BY <1>2, UnlinkAsFunction, Zenon DEF Without, i
<1>4. Len(s) - 1 \in Nat
  BY <1>1, <1>2
<1>5. \A j \in 1 .. Len(s) - 1 : f[j] \in S
  BY <1>1, <1>2
<1>6. f \in Seq(S) /\ Len(f) = Len(s) - 1
  BY <1>4, <1>5
<1> QED
  BY <1>2, <1>3, <1>6 DEF i

(* Unlinking a key keeps the others, once each, and loses only the key.    *)
LEMMA WithoutSet ==
    ASSUME NEW S, NEW s \in Seq(S), IsInjective(s), NEW k \in Range(s)
    PROVE  /\ IsInjective(Without(s, k))
           /\ Range(Without(s, k)) = Range(s) \ {k}
<1> DEFINE w == Without(s, k)
           i == Position(s, k)
<1>1. /\ w \in Seq(S) /\ Len(w) = Len(s) - 1
      /\ i \in 1 .. Len(s) /\ s[i] = k
      /\ \A j \in 1 .. Len(s) - 1 : w[j] = IF j < i THEN s[j] ELSE s[j + 1]
  BY WithoutPresent
<1>2. /\ Len(s) \in Nat /\ DOMAIN s = 1 .. Len(s)
      /\ DOMAIN w = 1 .. Len(s) - 1
  BY <1>1, LenProperties
<1>3. \A a, b \in 1 .. Len(s) : s[a] = s[b] => a = b
  BY <1>2 DEF IsInjective
<1> HIDE DEF w, i
<1>4. IsInjective(w)
  <2>1. SUFFICES ASSUME NEW a \in 1 .. Len(s) - 1, NEW b \in 1 .. Len(s) - 1, w[a] = w[b]
                 PROVE  a = b
    BY <1>2 DEF IsInjective
  <2> QED
    BY <1>1, <1>2, <1>3, <2>1
<1>5. Range(w) \subseteq Range(s) \ {k}
  <2>1. SUFFICES ASSUME NEW j \in 1 .. Len(s) - 1
                 PROVE  w[j] \in Range(s) /\ w[j] # k
    BY <1>2 DEF Range
  <2>2. PICK m \in 1 .. Len(s) : m # i /\ w[j] = s[m]
    BY <1>1, <1>2
  <2> QED
    BY <2>2, <1>1, <1>2, <1>3, ZenonT(60) DEF Range
<1>6. Range(s) \ {k} \subseteq Range(w)
  <2>1. SUFFICES ASSUME NEW m \in 1 .. Len(s), s[m] # k
                 PROVE  \E j \in 1 .. Len(s) - 1 : w[j] = s[m]
    BY <1>2 DEF Range
  <2>2. CASE m < i
    <3>1. m \in 1 .. Len(s) - 1 /\ w[m] = s[m]
      BY <2>2, <1>1, <1>2
    <3> QED
      BY <3>1
  <2>3. CASE m > i
    <3>1. m - 1 \in 1 .. Len(s) - 1 /\ w[m - 1] = s[m]
      BY <2>3, <1>1, <1>2
    <3> QED
      BY <3>1
  <2> QED
    BY <2>1, <2>2, <2>3, <1>1, <1>2
<1> QED
  BY <1>4, <1>5, <1>6 DEF w

(* what comes in order in list w does in list s *)
InOrder(w, s) ==
    \A a, b \in 1 .. Len(w) : a < b =>
        \E i, j \in 1 .. Len(s) : i < j /\ s[i] = w[a] /\ s[j] = w[b]

(* Unlinking a key keeps the order of the others.                          *)
LEMMA WithoutOrder ==
    ASSUME NEW S, NEW s \in Seq(S), IsInjective(s), NEW k \in Range(s)
    PROVE  InOrder(Without(s, k), s)
<1> SUFFICES ASSUME NEW a \in 1 .. Len(Without(s, k)), NEW b \in 1 .. Len(Without(s, k)), a < b
             PROVE  \E i, j \in 1 .. Len(s) :
                       i < j /\ s[i] = Without(s, k)[a] /\ s[j] = Without(s, k)[b]
  BY Zenon DEF InOrder
<1> DEFINE w == Without(s, k)
           m == Position(s, k)
           at(x) == IF x < m THEN x ELSE x + 1
<1>1. /\ Len(w) = Len(s) - 1 /\ m \in 1 .. Len(s) /\ Len(s) \in Nat
      /\ \A x \in 1 .. Len(s) - 1 : w[x] = IF x < m THEN s[x] ELSE s[x + 1]
  BY WithoutPresent, LenProperties
<1> HIDE DEF w, m
<1>2. a \in 1 .. Len(s) - 1 /\ b \in 1 .. Len(s) - 1
  BY <1>1 DEF w
<1>3. at(a) \in 1 .. Len(s) /\ at(b) \in 1 .. Len(s) /\ at(a) < at(b)
  BY <1>1, <1>2
<1>4. s[at(a)] = w[a] /\ s[at(b)] = w[b]
  BY <1>1, <1>2
<1> HIDE DEF at
<1> QED
  BY <1>3, <1>4 DEF w

(* Unlinking a key that is not in the list changes nothing.                *)
LEMMA WithoutAbsent ==
    ASSUME NEW s, NEW k, k \notin Range(s)
    PROVE  Without(s, k) = s
BY DEF Without

(* Linking a key at the head end adds it, and only it.                     *)
LEMMA AppendSet ==
    ASSUME NEW S, NEW s \in Seq(S), NEW k \in S
    PROVE  /\ Append(s, k) \in Seq(S) /\ Append(s, k) # <<>>
           /\ Len(Append(s, k)) = Len(s) + 1
           /\ Append(s, k)[Len(s) + 1] = k
           /\ Range(Append(s, k)) = Range(s) \cup {k}
           /\ IsInjective(s) /\ k \notin Range(s) => IsInjective(Append(s, k))
<1> DEFINE t == Append(s, k)
<1>1. /\ t \in Seq(S) /\ t # <<>> /\ Len(t) = Len(s) + 1
      /\ \A i \in 1 .. Len(s) : t[i] = s[i]
      /\ t[Len(s) + 1] = k
  BY AppendProperties
<1>2. /\ Len(s) \in Nat /\ DOMAIN s = 1 .. Len(s) /\ DOMAIN t = 1 .. Len(s) + 1
  BY <1>1, LenProperties
<1> HIDE DEF t
<1>3. t[Len(s) + 1] = k
  BY <1>1
<1>4. Range(t) = Range(s) \cup {k}
  <2>1. ASSUME NEW x \in Range(t) PROVE x \in Range(s) \cup {k}
    BY <1>1, <1>2 DEF Range
  <2>2. ASSUME NEW x \in Range(s) PROVE x \in Range(t)
    BY <1>1, <1>2 DEF Range
  <2>3. k \in Range(t)
    BY <1>1, <1>2 DEF Range
  <2> QED
    BY <2>1, <2>2, <2>3
<1>5. ASSUME IsInjective(s), k \notin Range(s) PROVE IsInjective(t)
  <2>1. \A i \in 1 .. Len(s) : s[i] # k
    BY <1>2, <1>5 DEF Range
  <2>2. \A a, b \in 1 .. Len(s) : s[a] = s[b] => a = b
    BY <1>2, <1>5 DEF IsInjective
  <2>3. SUFFICES ASSUME NEW a \in 1 .. Len(s) + 1, NEW b \in 1 .. Len(s) + 1, t[a] = t[b]
                 PROVE  a = b
    BY <1>2 DEF IsInjective
  <2> QED
    BY <1>1, <1>2, <2>1, <2>2, <2>3
<1> QED
  BY <1>1, <1>3, <1>4, <1>5 DEF t

(* Linking a key and unlinking it again is no change: remove() moves its   *)
(* node to the front first.                                                *)
LEMMA AppendWithout ==
    ASSUME NEW S, NEW s \in Seq(S), IsInjective(s), NEW k \in S, k \notin Range(s)
    PROVE  Without(Append(s, k), k) = s
<1> DEFINE t == Append(s, k)
           w == Without(t, k)
           i == Position(t, k)
<1>1. t \in Seq(S) /\ IsInjective(t) /\ k \in Range(t)
  BY AppendSet
<1>2. Len(t) = Len(s) + 1 /\ (\A j \in 1 .. Len(s) : t[j] = s[j]) /\ Len(s) \in Nat
  BY AppendProperties
<1>3. \A j \in 1 .. Len(s) : s[j] # k
  BY LenProperties DEF Range
<1> HIDE DEF t
<1>4. /\ w \in Seq(S) /\ Len(w) = Len(t) - 1 /\ i \in 1 .. Len(t) /\ t[i] = k
      /\ \A j \in 1 .. Len(t) - 1 : w[j] = IF j < i THEN t[j] ELSE t[j + 1]
  BY <1>1, WithoutPresent
<1> HIDE DEF w, i
<1>5. i = Len(s) + 1
  BY <1>2, <1>3, <1>4
<1>6. Len(w) = Len(s) /\ \A j \in 1 .. Len(w) : w[j] = s[j]
  BY <1>2, <1>4, <1>5
<1> QED
  BY <1>4, <1>6, SeqEqual DEF w, t

-----------------------------------------------------------------------------
(* The hash table and the cache's helpers.                                 *)

(* ListsAgree and the types, of any cache an operation passes through *)
CacheOK(c) ==
    /\ c \in Cache
    /\ IsInjective(c.lru) /\ IsInjective(c.uni)
    /\ Range(c.uni) \subseteq Range(c.lru)
    /\ c.cursor \in Range(c.lru) \cup {None}
    /\ Len(c.lru) + c.free = MaxSessions

(* The keys in a list, and its two ends.                                   *)
LEMMA RangeKeys ==
    ASSUME NEW S, NEW s \in Seq(S)
    PROVE  /\ Range(s) \subseteq S
           /\ s # <<>> => Head(s) \in Range(s) /\ s[Len(s)] \in Range(s)
           /\ \A i \in 1 .. Len(s) : s[i] \in Range(s)
           /\ s = <<>> <=> Len(s) = 0
           /\ DOMAIN s = 1 .. Len(s)
<1>1. DOMAIN s = 1 .. Len(s) /\ Len(s) \in Nat /\ \A i \in 1 .. Len(s) : s[i] \in S
  BY LenProperties, ElementOfSeq
<1>2. s = <<>> <=> Len(s) = 0
  OBVIOUS
<1>3. s # <<>> => Head(s) = s[1] /\ 1 \in DOMAIN s /\ Len(s) \in DOMAIN s
  BY <1>1, <1>2
<1> QED
  BY <1>1, <1>2, <1>3 DEF Range

(* gprev leads to another node of the table, or nowhere.                   *)
LEMMA NewerLinked ==
    ASSUME NEW c \in Cache, IsInjective(c.lru), NEW k \in Range(c.lru)
    PROVE  Newer(c, k) \in (Range(c.lru) \ {k}) \cup {None}
<1> DEFINE i == Position(c.lru, k)
<1>1. c.lru \in Seq(Keys)
  BY DEF Cache
<1>2. i \in 1 .. Len(c.lru) /\ c.lru[i] = k
  BY <1>1, WithoutPresent
<1>3. Len(c.lru) \in Nat /\ DOMAIN c.lru = 1 .. Len(c.lru)
  BY <1>1, LenProperties
<1>4. CASE i = Len(c.lru)
  BY <1>4 DEF Newer
<1>5. CASE i # Len(c.lru)
  <2>1. i + 1 \in DOMAIN c.lru /\ i \in DOMAIN c.lru /\ i + 1 # i
    BY <1>2, <1>3, <1>5
  <2>2. c.lru[i + 1] # k /\ c.lru[i + 1] \in Range(c.lru)
    BY <2>1, <1>2 DEF IsInjective, Range
  <2> QED
    BY <2>2, <1>5 DEF Newer
<1> QED
  BY <1>4, <1>5

(* gunlink_node field by field: the cursor never stays on the unlinked     *)
(* node.                                                                   *)
LEMMA GunlinkFields ==
    ASSUME NEW c \in Cache, IsInjective(c.lru), NEW k \in Range(c.lru),
           c.cursor \in Range(c.lru) \cup {None}
    PROVE  /\ Gunlink(c, k) \in Cache
           /\ Gunlink(c, k).lru = Without(c.lru, k)
           /\ Gunlink(c, k).cursor \in (Range(c.lru) \ {k}) \cup {None}
           /\ Gunlink(c, k).uni = c.uni
           /\ Gunlink(c, k).flow = c.flow
           /\ Gunlink(c, k).free = c.free
<1>1. c.lru \in Seq(Keys)
  BY DEF Cache
<1>2. Without(c.lru, k) \in Seq(Keys)
  BY <1>1, WithoutPresent
<1>3. Newer(c, k) \in (Range(c.lru) \ {k}) \cup {None}
  BY NewerLinked
<1>4. Range(c.lru) \subseteq Keys
  BY <1>1, RangeKeys
<1> QED
  BY <1>2, <1>3, <1>4, Zenon DEF Gunlink, Cache

(* glink_node field by field.                                              *)
LEMMA GlinkFields ==
    ASSUME NEW c \in Cache, NEW k \in Keys
    PROVE  /\ Glink(c, k) \in Cache
           /\ Glink(c, k).lru = Append(c.lru, k)
           /\ Glink(c, k).cursor = c.cursor
           /\ Glink(c, k).uni = c.uni
           /\ Glink(c, k).flow = c.flow
           /\ Glink(c, k).free = c.free
<1>1. Append(c.lru, k) \in Seq(Keys)
  BY AppendSet DEF Cache
<1> QED
  BY <1>1, Zenon DEF Glink, Cache

(* Unlinking a node and linking it at the front keeps the cache consistent *)
(* and makes it the newest.                                                *)
LEMMA RelinkOK ==
    ASSUME NEW c, CacheOK(c), NEW k \in Range(c.lru)
    PROVE  LET d == Glink(Gunlink(c, k), k)
           IN  /\ CacheOK(d)
               /\ d.lru = Append(Without(c.lru, k), k)
               /\ Range(d.lru) = Range(c.lru)
               /\ d.uni = c.uni /\ d.flow = c.flow /\ d.free = c.free
               /\ Newest(d) = k
<1> DEFINE w == Without(c.lru, k)
           g == Gunlink(c, k)
           d == Glink(g, k)
<1>1. c \in Cache /\ c.lru \in Seq(Keys) /\ IsInjective(c.lru)
  BY DEF CacheOK, Cache
<1>2. k \in Keys /\ Len(c.lru) \in Nat
  BY <1>1, RangeKeys
<1>3. /\ w \in Seq(Keys) /\ Len(w) = Len(c.lru) - 1
      /\ IsInjective(w) /\ Range(w) = Range(c.lru) \ {k}
  BY <1>1, WithoutPresent, WithoutSet
<1>4. /\ g \in Cache /\ g.lru = w
      /\ g.cursor \in (Range(c.lru) \ {k}) \cup {None}
      /\ g.uni = c.uni /\ g.flow = c.flow /\ g.free = c.free
  BY <1>1, GunlinkFields DEF CacheOK
<1> HIDE DEF w, g
<1>5. /\ d \in Cache /\ d.lru = Append(w, k) /\ d.cursor = g.cursor
      /\ d.uni = c.uni /\ d.flow = c.flow /\ d.free = c.free
  BY <1>2, <1>4, GlinkFields
<1> HIDE DEF d
<1>6. /\ Append(w, k) # <<>> /\ Len(Append(w, k)) = Len(w) + 1 /\ Append(w, k)[Len(w) + 1] = k
      /\ Range(Append(w, k)) = Range(w) \cup {k}
      /\ IsInjective(Append(w, k))
  BY <1>2, <1>3, AppendSet
<1>7. Range(d.lru) = Range(c.lru)
  BY <1>3, <1>5, <1>6
<1>8. Len(d.lru) = Len(c.lru)
  BY <1>2, <1>3, <1>5, <1>6
<1>9. CacheOK(d)
  BY <1>4, <1>5, <1>6, <1>7, <1>8 DEF CacheOK
<1>10. Newest(d) = k
  BY <1>5, <1>6 DEF Newest
<1> QED
  BY <1>5, <1>7, <1>9, <1>10 DEF d, g, w

(* ghead and gtail are in the table whenever it is not empty.              *)
LEMMA NewestLinked ==
    ASSUME NEW c, CacheOK(c)
    PROVE  /\ c.lru # <<>> => Newest(c) \in Range(c.lru) /\ Newest(c) = c.lru[Len(c.lru)]
           /\ c.lru # <<>> => Oldest(c) \in Range(c.lru)
           /\ Newest(c) # None => c.lru # <<>>
           /\ Oldest(c) # None => c.lru # <<>>
           /\ None \notin Range(c.lru)
<1>1. c.lru \in Seq(Keys)
  BY DEF CacheOK, Cache
<1>2. /\ Range(c.lru) \subseteq Keys
      /\ c.lru # <<>> => Head(c.lru) \in Range(c.lru) /\ c.lru[Len(c.lru)] \in Range(c.lru)
  BY <1>1, RangeKeys
<1> QED
  BY <1>2, FlowCacheConstants DEF Newest, Oldest

(* move_to_front keeps the cache consistent, and removing the key leaves   *)
(* the same list as before.                                                *)
LEMMA MoveToFrontOK ==
    ASSUME NEW c, CacheOK(c), NEW k \in Range(c.lru)
    PROVE  LET d == MoveToFront(c, k)
           IN  /\ CacheOK(d)
               /\ Range(d.lru) = Range(c.lru)
               /\ d.uni = c.uni /\ d.flow = c.flow /\ d.free = c.free
               /\ Newest(d) = k
               /\ Without(d.lru, k) = Without(c.lru, k)
<1>1. CASE k = Newest(c)
  BY <1>1 DEF MoveToFront
<1>2. CASE k # Newest(c)
  <2> DEFINE d == Glink(Gunlink(c, k), k)
             w == Without(c.lru, k)
  <2>1. /\ CacheOK(d) /\ d.lru = Append(w, k) /\ Range(d.lru) = Range(c.lru)
        /\ d.uni = c.uni /\ d.flow = c.flow /\ d.free = c.free /\ Newest(d) = k
    BY RelinkOK
  <2>2. c.lru \in Seq(Keys) /\ IsInjective(c.lru) /\ k \in Keys
    BY RangeKeys DEF CacheOK, Cache
  <2>3. w \in Seq(Keys) /\ IsInjective(w) /\ k \notin Range(w)
    BY <2>2, WithoutPresent, WithoutSet
  <2>4. Without(Append(w, k), k) = w
    BY <2>2, <2>3, AppendWithout
  <2>5. MoveToFront(c, k) = d
    BY <1>2 DEF MoveToFront
  <2> HIDE DEF d, w
  <2>6. Without(d.lru, k) = w
    BY <2>1, <2>4
  <2> QED
    BY <2>1, <2>5, <2>6, Zenon DEF w
<1> QED
  BY <1>1, <1>2

(* The cursor may be set to any node of the table.                         *)
LEMMA CursorOK ==
    ASSUME NEW c, CacheOK(c), NEW x \in Range(c.lru) \cup {None}
    PROVE  LET d == [c EXCEPT !.cursor = x]
           IN  /\ CacheOK(d)
               /\ d.lru = c.lru /\ d.uni = c.uni /\ d.flow = c.flow /\ d.free = c.free
<1>1. x \in Keys \cup {None}
  BY RangeKeys DEF CacheOK, Cache
<1>2. [c EXCEPT !.cursor = x] \in Cache
  BY <1>1, Zenon DEF CacheOK, Cache
<1> QED
  BY <1>2, Zenon DEF CacheOK, Cache

(* first() keeps the cache consistent.                                     *)
LEMMA FirstOK ==
    ASSUME NEW c, CacheOK(c)
    PROVE  /\ CacheOK(First(c))
           /\ First(c).lru = c.lru /\ First(c).uni = c.uni
           /\ First(c).flow = c.flow /\ First(c).free = c.free
           /\ First(c).cursor = Oldest(c)
<1>1. Oldest(c) \in Range(c.lru) \cup {None}
  BY NewestLinked DEF Oldest
<1>2. First(c).cursor = Oldest(c)
  BY DEF First, CacheOK, Cache
<1> QED
  BY <1>1, <1>2, CursorOK DEF First

(* What happens to the flows does not touch the lists.                     *)
LEMMA FlowOK ==
    ASSUME NEW c, CacheOK(c), NEW f \in [Keys -> Flow]
    PROVE  LET d == [c EXCEPT !.flow = f]
           IN  /\ CacheOK(d)
               /\ d.lru = c.lru /\ d.uni = c.uni /\ d.flow = f /\ d.free = c.free
<1>1. [c EXCEPT !.flow = f] \in Cache
  BY DEF CacheOK, Cache
<1> QED
  BY <1>1, Zenon DEF CacheOK, Cache

(* unlink_uni keeps the cache consistent.                                  *)
LEMMA UnlinkUniOK ==
    ASSUME NEW c, CacheOK(c), NEW k
    PROVE  LET d == UnlinkUni(c, k)
           IN  /\ CacheOK(d)
               /\ d.lru = c.lru /\ d.flow = c.flow /\ d.free = c.free
               /\ Range(d.uni) = Range(c.uni) \ {k}
<1> DEFINE w == Without(c.uni, k)
<1>1. c \in Cache /\ c.uni \in Seq(Keys) /\ IsInjective(c.uni)
  BY DEF CacheOK, Cache
<1>2. w \in Seq(Keys) /\ IsInjective(w) /\ Range(w) = Range(c.uni) \ {k}
  <2>1. CASE k \in Range(c.uni)
    BY <1>1, <2>1, WithoutPresent, WithoutSet
  <2>2. CASE k \notin Range(c.uni)
    BY <1>1, <2>2, WithoutAbsent
  <2> QED
    BY <2>1, <2>2
<1> HIDE DEF w
<1>3. [c EXCEPT !.uni = w] \in Cache
  BY <1>1, <1>2, Zenon DEF Cache
<1>4. UnlinkUni(c, k) = [c EXCEPT !.uni = w]
  BY DEF UnlinkUni, w
<1> QED
  BY <1>1, <1>2, <1>3, <1>4, Zenon DEF CacheOK, Cache

(* remove(key) frees one node, once the flow is off the one-way list.      *)
LEMMA RemoveNodeOK ==
    ASSUME NEW c, CacheOK(c), NEW k \in Range(c.lru), k \notin Range(c.uni)
    PROVE  LET d == RemoveNode(c, k)
           IN  /\ CacheOK(d)
               /\ d.lru = Without(c.lru, k)
               /\ Range(d.lru) = Range(c.lru) \ {k}
               /\ d.uni = c.uni /\ d.flow = c.flow /\ d.free = c.free + 1
<1> DEFINE m == MoveToFront(c, k)
           g == Gunlink(m, k)
           d == [g EXCEPT !.free = @ + 1]
<1>1. /\ CacheOK(m) /\ Range(m.lru) = Range(c.lru)
      /\ m.uni = c.uni /\ m.flow = c.flow /\ m.free = c.free
      /\ Without(m.lru, k) = Without(c.lru, k)
  BY MoveToFrontOK
<1> HIDE DEF m
<1>2. /\ m \in Cache /\ m.lru \in Seq(Keys) /\ IsInjective(m.lru)
      /\ IsInjective(m.uni) /\ m.free \in Nat
      /\ m.cursor \in Range(m.lru) \cup {None} /\ Len(m.lru) + m.free = MaxSessions
  BY <1>1 DEF CacheOK, Cache
<1>3. Len(m.lru) \in Nat
  BY <1>2, LenProperties
<1>4. /\ g \in Cache /\ g.lru = Without(m.lru, k)
      /\ g.cursor \in (Range(m.lru) \ {k}) \cup {None}
      /\ g.uni = m.uni /\ g.flow = m.flow /\ g.free = m.free
  BY <1>1, <1>2, GunlinkFields
<1>5. /\ Len(Without(m.lru, k)) = Len(m.lru) - 1
      /\ IsInjective(Without(m.lru, k))
      /\ Range(Without(m.lru, k)) = Range(m.lru) \ {k}
  BY <1>1, <1>2, WithoutPresent, WithoutSet
<1> HIDE DEF g
<1>f. g.free + 1 \in 0 .. MaxSessions
  <2>1. Without(m.lru, k) \in Seq(Keys)
    BY <1>1, <1>2, WithoutPresent
  <2> QED
    BY <2>1, <1>2, <1>3, <1>4, <1>5, FlowCacheConstants
<1>6. /\ d \in Cache
      /\ d.lru = g.lru /\ d.cursor = g.cursor /\ d.uni = g.uni /\ d.flow = g.flow
      /\ d.free = g.free + 1
  BY <1>4, <1>f, Zenon DEF Cache
<1>7. RemoveNode(c, k) = d
  BY DEF RemoveNode, g, m
<1> HIDE DEF d
<1>8. Len(d.lru) + d.free = MaxSessions
  BY <1>2, <1>3, <1>4, <1>5, <1>6
<1>9. Range(c.uni) \subseteq Range(c.lru) \ {k}
  BY DEF CacheOK
<1>10. CacheOK(d)
  BY <1>1, <1>2, <1>4, <1>5, <1>6, <1>8, <1>9 DEF CacheOK
<1> QED
  BY <1>1, <1>4, <1>5, <1>6, <1>7, <1>10

(* A reset flow is a flow.                                                 *)
LEMMA FreshFlow == Fresh \in Flow /\ MaxAge \in Nat /\ MaxAge > 0
BY FlowCacheConstants DEF Fresh, Flow, MaxAge

(* release frees exactly the flow's node and resets the flow.              *)
LEMMA ReleaseOK ==
    ASSUME NEW c, CacheOK(c), NEW k \in Range(c.lru)
    PROVE  LET d == Release(c, k)
           IN  /\ CacheOK(d)
               /\ d.lru = Without(c.lru, k)
               /\ Range(d.lru) = Range(c.lru) \ {k}
               /\ d.flow = [c.flow EXCEPT ![k] = Fresh] /\ d.free = c.free + 1
<1> DEFINE u == UnlinkUni(c, k)
           r == RemoveNode(u, k)
           f == [r.flow EXCEPT ![k] = Fresh]
           d == [r EXCEPT !.flow = f]
<1>1. /\ CacheOK(u) /\ u.lru = c.lru /\ u.flow = c.flow /\ u.free = c.free
      /\ Range(u.uni) = Range(c.uni) \ {k}
  BY UnlinkUniOK
<1> HIDE DEF u
<1>2. /\ CacheOK(r) /\ r.lru = Without(c.lru, k) /\ Range(r.lru) = Range(c.lru) \ {k}
      /\ r.flow = c.flow /\ r.free = c.free + 1
  BY <1>1, RemoveNodeOK
<1> HIDE DEF r
<1>3. f \in [Keys -> Flow]
  BY <1>2, FreshFlow, Zenon DEF CacheOK, Cache
<1>4. Release(c, k) = d
  BY DEF Release, r, u
<1> HIDE DEF f
<1>5. CacheOK(d) /\ d.lru = r.lru /\ d.uni = r.uni /\ d.flow = f /\ d.free = r.free
  BY <1>2, <1>3, FlowOK
<1> QED
  BY <1>2, <1>4, <1>5 DEF f

(* find makes the flow the newest.                                         *)
LEMMA FindOK ==
    ASSUME NEW c, CacheOK(c), NEW k \in Range(c.lru)
    PROVE  LET d == Find(c, k)
           IN  /\ CacheOK(d)
               /\ Range(d.lru) = Range(c.lru) /\ d.free = c.free
               /\ d.flow = [c.flow EXCEPT ![k].age = 0]
               /\ Newest(d) = k
               /\ d.lru \in {c.lru, Append(Without(c.lru, k), k)}
<1> DEFINE m == MoveToFront(c, k)
           f == [m.flow EXCEPT ![k].age = 0]
           d == [m EXCEPT !.flow = f]
<1>1. /\ CacheOK(m) /\ Range(m.lru) = Range(c.lru)
      /\ m.uni = c.uni /\ m.flow = c.flow /\ m.free = c.free /\ Newest(m) = k
  BY MoveToFrontOK
<1>l. m.lru \in {c.lru, Append(Without(c.lru, k), k)}
  BY RelinkOK DEF MoveToFront
<1>2. Find(c, k) = d
  BY DEF Find
<1> HIDE DEF m
<1>3. k \in Keys /\ m.flow \in [Keys -> Flow]
  BY <1>1, RangeKeys DEF CacheOK, Cache
<1>4. m.flow[k] \in Flow /\ 0 \in 0 .. MaxAge
  BY <1>3, FreshFlow
<1>5. [m.flow[k] EXCEPT !.age = 0] \in Flow
  BY <1>4 DEF Flow
<1>6. f \in [Keys -> Flow]
  BY <1>3, <1>5
<1>7. f = [c.flow EXCEPT ![k].age = 0]
  BY <1>1
<1> HIDE DEF f
<1>8. CacheOK(d) /\ d.lru = m.lru /\ d.uni = m.uni /\ d.flow = f /\ d.free = m.free
  BY <1>1, <1>6, FlowOK
<1>9. Newest(d) = Newest(m)
  BY <1>8 DEF Newest
<1> QED
  BY <1>1, <1>l, <1>2, <1>7, <1>8, <1>9

(* A new flow takes a free node and is the newest.                         *)
LEMMA AddNodeOK ==
    ASSUME NEW c, CacheOK(c), NEW k \in Keys, k \notin Range(c.lru), c.free > 0
    PROVE  LET d == AddNode(c, k)
           IN  /\ CacheOK(d)
               /\ Range(d.lru) = Range(c.lru) \cup {k}
               /\ d.uni = c.uni /\ d.flow = c.flow /\ Newest(d) = k
<1> DEFINE g == Glink(c, k)
           d == [g EXCEPT !.free = @ - 1]
<1>1. /\ c \in Cache /\ c.lru \in Seq(Keys) /\ c.free \in Nat /\ Len(c.lru) \in Nat
      /\ Len(c.lru) + c.free = MaxSessions
  BY LenProperties DEF CacheOK, Cache
<1>2. /\ g \in Cache /\ g.lru = Append(c.lru, k) /\ g.cursor = c.cursor
      /\ g.uni = c.uni /\ g.flow = c.flow /\ g.free = c.free
  BY <1>1, GlinkFields
<1>3. AddNode(c, k) = d
  BY DEF AddNode
<1> HIDE DEF g
<1>4. c.free - 1 \in 0 .. MaxSessions
  BY <1>1, FlowCacheConstants DEF Cache
<1>5. /\ d \in Cache /\ d.lru = g.lru /\ d.cursor = g.cursor
      /\ d.uni = g.uni /\ d.flow = g.flow /\ d.free = c.free - 1
  BY <1>2, <1>4, Zenon DEF Cache
<1> HIDE DEF d
<1>6. /\ d.lru # <<>> /\ Len(d.lru) = Len(c.lru) + 1 /\ d.lru[Len(d.lru)] = k
      /\ Range(d.lru) = Range(c.lru) \cup {k} /\ IsInjective(d.lru)
  BY <1>1, <1>2, <1>5, AppendSet DEF CacheOK
<1>7. Len(d.lru) + d.free = MaxSessions
  <2>1. Len(d.lru) = Len(c.lru) + 1 /\ d.free = c.free - 1
    BY <1>5, <1>6
  <2>2. Len(c.lru) \in Nat /\ c.free \in Nat /\ Len(c.lru) + c.free = MaxSessions
    BY <1>1
  <2>3. (Len(c.lru) + 1) + (c.free - 1) = Len(c.lru) + c.free
    BY <2>2
  <2> QED
    BY <2>1, <2>2, <2>3
<1>8. CacheOK(d)
  BY <1>2, <1>5, <1>6, <1>7 DEF CacheOK
<1> QED
  BY <1>2, <1>3, <1>5, <1>6, <1>8 DEF Newest

(* link_uni keeps the cache consistent for a flow that is not on the one-  *)
(* way list.                                                               *)
LEMMA LinkUniOK ==
    ASSUME NEW c, CacheOK(c), NEW k \in Range(c.lru), k \notin Range(c.uni)
    PROVE  LET d == LinkUni(c, k)
           IN  /\ CacheOK(d)
               /\ d.lru = c.lru /\ d.flow = c.flow /\ d.free = c.free
<1> DEFINE a == Append(c.uni, k)
           d == [c EXCEPT !.uni = a]
<1>1. c \in Cache /\ c.uni \in Seq(Keys) /\ k \in Keys
  BY RangeKeys DEF CacheOK, Cache
<1>2. a \in Seq(Keys) /\ IsInjective(a) /\ Range(a) = Range(c.uni) \cup {k}
  BY <1>1, AppendSet DEF CacheOK
<1>3. LinkUni(c, k) = d
  BY DEF LinkUni
<1> HIDE DEF a
<1>4. /\ d \in Cache /\ d.uni = a /\ d.lru = c.lru /\ d.cursor = c.cursor
      /\ d.flow = c.flow /\ d.free = c.free
  BY <1>1, <1>2, Zenon DEF Cache
<1> HIDE DEF d
<1>5. CacheOK(d)
  BY <1>2, <1>4 DEF CacheOK
<1> QED
  BY <1>3, <1>4, <1>5

(* touch moves the cursor's flow to the front of the list.                 *)
LEMMA TouchOK ==
    ASSUME NEW c, CacheOK(c), c.cursor \in Range(c.lru)
    PROVE  LET d == Touch(c)
           IN  /\ CacheOK(d)
               /\ Range(d.lru) = Range(c.lru)
               /\ d.uni = c.uni /\ d.flow = c.flow /\ d.free = c.free
               /\ c.cursor # Newest(c) => d.lru = Append(Without(c.lru, c.cursor), c.cursor)
<1> DEFINE k == c.cursor
           x == Newer(c, k)
           n == [c EXCEPT !.cursor = x]
<1>1. x \in Range(c.lru) \cup {None}
  BY NewerLinked DEF CacheOK
<1> HIDE DEF x
<1>2. /\ CacheOK(n)
      /\ n.lru = c.lru /\ n.uni = c.uni /\ n.flow = c.flow /\ n.free = c.free
  BY <1>1, CursorOK
<1>3. Touch(c) = IF k = Newest(c) THEN n ELSE Glink(Gunlink(n, k), k)
  BY DEF Touch, x
<1> HIDE DEF n, k
<1>4. k \in Range(n.lru)
  BY <1>2 DEF k
<1> DEFINE g == Glink(Gunlink(n, k), k)
<1>5. /\ CacheOK(g) /\ g.lru = Append(Without(n.lru, k), k) /\ Range(g.lru) = Range(n.lru)
      /\ g.uni = n.uni /\ g.flow = n.flow /\ g.free = n.free
  BY <1>2, <1>4, RelinkOK
<1> HIDE DEF g
<1> QED
  BY <1>2, <1>3, <1>5, Zenon DEF k, g

-----------------------------------------------------------------------------
(* The inductive invariant.                                                *)

Places == {"idle", "stale", "unis", "excess", "take", "cleanup", "inspect",
           "standby", "timeout", "purged", "noflow", "unihead", "lost"}
Pruning == {"stale", "unis", "excess", "take"}
Holding == {"cleanup", "inspect", "standby"}

Work == [key : Keys \cup {None}, ha : BOOLEAN, pruned : 0..CleanupFlows + 1,
         blocks : 0..MaxSessions, ignore : 0..MaxSessions, peeked : SUBSET Keys]

(* only features in use mark a flow *)
Marked(c, m) ==
    \A k \in Keys : /\ c.flow[k].blocked => "block" \in m
                    /\ c.flow[k].offloaded => "offload" \in m

AllBlocked(c) == \A k \in Range(c.lru) : c.flow[k].blocked

(* the n most recently used flows are blocked *)
NewestBlocked(c, n) ==
    \A i \in 1 .. Len(c.lru) : i > Len(c.lru) - n => c.flow[c.lru[i]].blocked

(* Why get fails only in a cache full of blocked flows.  Without blocked   *)
(* flows prune_excess counts none, so it goes on until it releases one.    *)
(* Without offloaded ones it passes over blocked flows only, and those it  *)
(* counted are the newest: it gives up when they are all there are.        *)
Room(c, p, w, m) ==
    /\ p \in {"stale", "unis"} => w.blocks = 0
    /\ p = "stale" /\ w.pruned > 0 => c.free > 0
    /\ p = "excess" /\ c.free = 0 => /\ "block" \notin m => w.blocks = 0
                                     /\ "offload" \notin m => NewestBlocked(c, w.blocks)
    /\ p = "take" /\ c.free = 0 => {"block", "offload"} \subseteq m \/ AllBlocked(c)
    /\ p = "noflow" => {"block", "offload"} \subseteq m \/ AllBlocked(c)

(* The flow in hand is in the table, and what was used after it was looked *)
(* up for the packet in progress.                                          *)
Held(c, w) ==
    /\ w.key \in Range(c.lru)
    /\ \A i, j \in DOMAIN c.lru : c.lru[i] = w.key /\ i < j => c.lru[j] \in w.peeked

(* The key that room is made for is not in the table; the flow in hand is  *)
(* held until all the others are flows that were looked up.                *)
Good(c, p, w, m) ==
    /\ CacheOK(c)
    /\ p \in Places /\ w \in Work /\ m \in Features
    /\ p \in Pruning => w.key \in Keys \ Range(c.lru)
    /\ p \in Holding => Held(c, w)
    /\ p = "lost" => c.lru # <<>> /\ Range(c.lru) \subseteq w.peeked
    /\ Marked(c, m)
    /\ Room(c, p, w, m)

IndInv == Good(cache, pc, work, may)

(* The locals of no call.                                                  *)
LEMMA IdleWork == Idle \in Work
BY FlowCacheConstants DEF Idle, Work, CleanupFlows

(* The empty cache satisfies the invariant.                                *)
LEMMA InitGood == Init => IndInv
<1> SUFFICES ASSUME Init PROVE IndInv
  OBVIOUS
<1>1. cache \in Cache
  BY FlowCacheConstants, FreshFlow DEF Init, Cache
<1>2. IsInjective(<<>>) /\ Range(<<>>) = {} /\ Len(<<>>) = 0
  BY DEF IsInjective, Range
<1>3. CacheOK(cache)
  BY <1>1, <1>2, FlowCacheConstants DEF Init, CacheOK
<1>4. Marked(cache, may)
  BY DEF Init, Marked, Fresh
<1> QED
  BY <1>3, <1>4, IdleWork DEF Init, IndInv, Good, Room, Places, Pruning, Holding

(* The newest flow is held, whatever was looked up.                        *)
LEMMA NewestHeld ==
    ASSUME NEW c, CacheOK(c), NEW w, w.key \in Keys, Newest(c) = w.key
    PROVE  Held(c, w)
<1>1. c.lru \in Seq(Keys) /\ IsInjective(c.lru)
  BY DEF CacheOK, Cache
<1>2. c.lru # <<>> /\ w.key \in Range(c.lru) /\ w.key = c.lru[Len(c.lru)]
  BY NewestLinked, FlowCacheConstants
<1>3. DOMAIN c.lru = 1 .. Len(c.lru) /\ Len(c.lru) \in Nat /\ Len(c.lru) \in DOMAIN c.lru
  BY <1>1, <1>2, LenProperties
<1>4. ASSUME NEW i \in DOMAIN c.lru, NEW j \in DOMAIN c.lru, c.lru[i] = w.key
      PROVE  ~(i < j)
  <2>1. i = Len(c.lru)
    BY <1>1, <1>2, <1>3, <1>4, Zenon DEF IsInjective
  <2> QED
    BY <2>1, <1>3
<1> QED
  BY <1>2, <1>4, Zenon DEF Held

(* Releasing a flow marks none.                                            *)
LEMMA MarkedReleased ==
    ASSUME NEW c, NEW d, NEW k, NEW m, Marked(c, m), c.flow \in [Keys -> Flow],
           d.flow = [c.flow EXCEPT ![k] = Fresh]
    PROVE  Marked(d, m)
BY DEF Marked, Fresh

(* A lookup that finds, makes or cannot make its flow.                     *)
LEMMA LookupGood ==
    ASSUME IndInv, NEW k \in Keys, NEW ha \in BOOLEAN, Lookup(k, ha)
    PROVE  IndInv'
<1> DEFINE w == [Idle EXCEPT !.key = k, !.ha = ha]
<1>0. Good(cache, "idle", work, may) /\ work' = w /\ may' = may /\ CacheOK(cache)
  BY DEF IndInv, Good, Lookup
<1>1. w \in Work /\ w.key = k /\ w.ha = ha /\ w.blocks = 0 /\ w.pruned = 0
  BY IdleWork, Zenon DEF Work, Idle
<1> HIDE DEF w
<1>2. Found(w) \in {"standby", "cleanup"}
  BY DEF Found
<1>3. CASE InTable(k) /\ cache' = Find(cache, k) /\ pc' = Found(w)
  <2>1. /\ CacheOK(cache') /\ Newest(cache') = k
        /\ cache'.flow = [cache.flow EXCEPT ![k].age = 0]
    BY <1>0, <1>3, FindOK DEF InTable
  <2>2. cache.flow \in [Keys -> Flow]
    BY <1>0 DEF CacheOK, Cache
  <2>3. Marked(cache', may) /\ Held(cache', w)
    BY <1>0, <1>1, <2>1, <2>2, NewestHeld DEF Marked, Flow, Good
  <2>4. Good(cache', Found(w), w, may)
    BY <1>0, <1>1, <1>2, <2>1, <2>3 DEF Good, Room, Places, Pruning, Holding
  <2> QED
    BY <1>0, <1>3, <2>4 DEF IndInv
<1>4. CASE ~InTable(k) /\ cache.free > 0 /\ cache' = AddNode(cache, k) /\ pc' = Found(w)
  <2>1. CacheOK(cache') /\ Newest(cache') = k /\ cache'.flow = cache.flow
    BY <1>0, <1>4, AddNodeOK DEF InTable
  <2>2. Marked(cache', may) /\ Held(cache', w)
    BY <1>0, <1>1, <2>1, NewestHeld DEF Marked, Good
  <2>3. Good(cache', Found(w), w, may)
    BY <1>0, <1>1, <1>2, <2>1, <2>2 DEF Good, Room, Places, Pruning, Holding
  <2> QED
    BY <1>0, <1>4, <2>3 DEF IndInv
<1>5. CASE ~InTable(k) /\ cache' = First(cache) /\ pc' = "stale"
  <2>1. CacheOK(cache') /\ cache'.lru = cache.lru /\ cache'.flow = cache.flow
    BY <1>0, <1>5, FirstOK
  <2>2. Marked(cache', may)
    BY <1>0, <2>1 DEF Marked, Good
  <2>3. k \notin Range(cache'.lru)
    BY <1>5, <2>1 DEF InTable
  <2>4. Good(cache', "stale", w, may)
    BY <1>0, <1>1, <2>1, <2>2, <2>3 DEF Good, Room, Places, Pruning, Holding
  <2> QED
    BY <1>0, <1>5, <2>4 DEF IndInv
<1> QED
  BY <1>0, <1>3, <1>4, <1>5 DEF Lookup

(* prune_stale never prunes the key it makes room for, and has made room   *)
(* once it pruned.                                                         *)
LEMMA PruneStaleGood ==
    ASSUME IndInv, PruneStale
    PROVE  IndInv'
<1>0. Good(cache, "stale", work, may) /\ may' = may /\ CacheOK(cache) /\ work \in Work
  BY DEF IndInv, Good, PruneStale
<1>1. ASSUME Stale(Oldest(cache)),
             cache' = First(Release(cache, Oldest(cache))),
             work' = [work EXCEPT !.pruned = @ + 1], pc' = pc
      PROVE  IndInv'
  <2> DEFINE k == Oldest(cache)
             d == Release(cache, k)
  <2>1. k \in Range(cache.lru) /\ work.pruned <= CleanupFlows
    BY <1>0, <1>1, NewestLinked DEF Stale
  <2> HIDE DEF k
  <2>2. /\ CacheOK(d) /\ Range(d.lru) = Range(cache.lru) \ {k}
        /\ d.flow = [cache.flow EXCEPT ![k] = Fresh] /\ d.free = cache.free + 1
    BY <1>0, <2>1, ReleaseOK
  <2>3. cache.flow \in [Keys -> Flow] /\ cache.free \in Nat
    BY <1>0 DEF CacheOK, Cache
  <2>4. Marked(d, may)
    BY <1>0, <2>2, <2>3, MarkedReleased DEF Good
  <2> HIDE DEF d
  <2>5. /\ CacheOK(cache') /\ cache'.lru = d.lru /\ cache'.flow = d.flow
        /\ cache'.free = d.free
    BY <1>1, <2>2, FirstOK DEF d, k
  <2>6. /\ work' \in Work /\ work'.key = work.key /\ work'.blocks = work.blocks
    BY <1>0, <1>1, <2>1 DEF Work, CleanupFlows
  <2>7. Marked(cache', may)
    BY <2>4, <2>5 DEF Marked
  <2>8. cache'.free > 0
    BY <2>2, <2>3, <2>5
  <2>9. Room(cache', "stale", work', may)
    BY <1>0, <2>6, <2>8 DEF Good, Room
  <2>10. work'.key \in Keys \ Range(cache'.lru)
    BY <1>0, <2>2, <2>5, <2>6 DEF Good, Pruning
  <2>11. Good(cache', "stale", work', may)
    BY <1>0, <2>5, <2>6, <2>7, <2>9, <2>10 DEF Good, Places, Pruning, Holding
  <2> QED
    BY <1>0, <1>1, <2>11 DEF IndInv, PruneStale
<1>2. ASSUME ~Stale(Oldest(cache)), pc' = IF work.pruned > 0 THEN "take" ELSE "unis",
             cache' = cache, work' = work
      PROVE  IndInv'
  <2>1. Room(cache, pc', work, may)
    BY <1>0, <1>2 DEF Good, Room
  <2>2. Good(cache, pc', work, may)
    BY <1>0, <1>2, <2>1 DEF Good, Places, Pruning, Holding
  <2> QED
    BY <1>0, <1>2, <2>2 DEF IndInv
<1> QED
  BY <1>1, <1>2 DEF PruneStale

(* prune_unis releases a flow of the table, and leaves no blocked flow     *)
(* counted.                                                                *)
LEMMA PruneUnisGood ==
    ASSUME IndInv, PruneUnis
    PROVE  IndInv'
<1> DEFINE open == {i \in DOMAIN cache.uni : ~cache.flow[cache.uni[i]].blocked}
<1>0. /\ Good(cache, "unis", work, may) /\ may' = may /\ CacheOK(cache)
      /\ cache \in Cache /\ work \in Work
  BY DEF IndInv, Good, PruneUnis, CacheOK
<1>1. /\ cache.lru \in Seq(Keys) /\ cache.uni \in Seq(Keys)
      /\ cache.flow \in [Keys -> Flow] /\ cache.free \in Nat
      /\ Len(cache.lru) \in Nat /\ Len(cache.lru) + cache.free = MaxSessions
  BY <1>0 DEF CacheOK, Cache
<1>2. ASSUME work' = [work EXCEPT !.ignore = Len(cache.lru)], pc' = "excess", cache' = cache
      PROVE  IndInv'
  <2>1. Len(cache.lru) \in 0 .. MaxSessions
    BY <1>1, FlowCacheConstants
  <2>2. work' \in Work /\ work'.key = work.key /\ work'.blocks = 0
    BY <1>0, <1>2, <2>1 DEF Work, Good, Room
  <2>3. NewestBlocked(cache, 0)
    BY <1>1 DEF NewestBlocked
  <2>4. Good(cache, "excess", work', may)
    BY <1>0, <2>2, <2>3 DEF Good, Room, Places, Pruning, Holding
  <2> QED
    BY <1>0, <1>2, <2>4 DEF IndInv
<1>3. ASSUME NEW i \in open, cache' = Release(cache, cache.uni[i]), pc' = "take", work' = work
      PROVE  IndInv'
  <2> DEFINE k == cache.uni[i]
  <2>1. k \in Range(cache.uni) /\ Range(cache.uni) \subseteq Range(cache.lru)
    BY <1>0, Zenon DEF Range, CacheOK
  <2> HIDE DEF k
  <2>2. /\ CacheOK(cache') /\ Range(cache'.lru) = Range(cache.lru) \ {k}
        /\ cache'.flow = [cache.flow EXCEPT ![k] = Fresh] /\ cache'.free = cache.free + 1
    BY <1>0, <1>3, <2>1, ReleaseOK DEF k
  <2>3. Marked(cache', may)
    BY <1>0, <1>1, <2>2, MarkedReleased, Zenon DEF Good
  <2>4. cache'.free # 0
    BY <1>1, <2>2
  <2>5. work.key \in Keys \ Range(cache'.lru)
    BY <1>0, <2>2 DEF Good, Pruning
  <2>6. Good(cache', "take", work, may)
    BY <1>0, <2>2, <2>3, <2>4, <2>5 DEF Good, Room, Places, Pruning, Holding
  <2> QED
    BY <1>0, <1>3, <2>6 DEF IndInv
<1>4. ASSUME pc' = "unihead", cache' = cache, work' = work
      PROVE  IndInv'
  <2>1. Good(cache, "unihead", work, may)
    BY <1>0 DEF Good, Room, Places, Pruning, Holding
  <2> QED
    BY <1>0, <1>4, <2>1 DEF IndInv
<1> QED
  BY <1>2, <1>3, <1>4 DEF PruneUnis

(* Moving the oldest of two flows or more to the front rotates the list.   *)
LEMMA Rotated ==
    ASSUME NEW s \in Seq(Keys), IsInjective(s), Len(s) >= 2
    PROVE  LET t == Append(Without(s, Head(s)), Head(s))
           IN  /\ Head(s) \in Range(s) /\ Head(s) = s[1] /\ Head(s) # s[Len(s)]
               /\ Len(t) = Len(s) /\ t[Len(s)] = s[1]
               /\ \A i \in 1 .. Len(s) - 1 : t[i] = s[i + 1]
<1> DEFINE k == Head(s)
           w == Without(s, k)
           t == Append(w, k)
<1>1. /\ Len(s) \in Nat /\ DOMAIN s = 1 .. Len(s) /\ s # <<>> /\ k = s[1]
      /\ 1 \in DOMAIN s /\ Len(s) \in DOMAIN s
  BY LenProperties
<1>2. k \in Range(s) /\ k \in Keys
  BY <1>1, RangeKeys
<1>3. s[Len(s)] # k
  BY <1>1 DEF IsInjective
<1> HIDE DEF k
<1>4. /\ w \in Seq(Keys) /\ Len(w) = Len(s) - 1
      /\ Position(s, k) \in 1 .. Len(s) /\ s[Position(s, k)] = k
      /\ \A j \in 1 .. Len(s) - 1 : w[j] = IF j < Position(s, k) THEN s[j] ELSE s[j + 1]
  BY <1>2, WithoutPresent
<1>5. Position(s, k) = 1
  BY <1>1, <1>4, Zenon DEF IsInjective
<1> HIDE DEF w
<1>6. /\ Len(t) = Len(w) + 1 /\ t[Len(w) + 1] = k
      /\ \A j \in 1 .. Len(w) : t[j] = w[j]
  BY <1>2, <1>4, AppendProperties
<1> HIDE DEF t
<1>7. Len(t) = Len(s) /\ t[Len(s)] = k /\ \A j \in 1 .. Len(s) - 1 : t[j] = s[j + 1]
  BY <1>1, <1>4, <1>5, <1>6
<1> QED
  BY <1>1, <1>2, <1>3, <1>7, Zenon DEF t, w, k

(* When prune_excess passes over a blocked flow, one more of the newest    *)
(* flows is blocked.                                                       *)
LEMMA BlockedRotated ==
    ASSUME NEW c, NEW d, NEW n \in Nat, CacheOK(c), Len(c.lru) >= 2,
           d.lru = Append(Without(c.lru, Oldest(c)), Oldest(c)), d.flow = c.flow,
           NewestBlocked(c, n), c.flow[Oldest(c)].blocked
    PROVE  NewestBlocked(d, n + 1)
<1> DEFINE s == c.lru
<1>1. s \in Seq(Keys) /\ IsInjective(s) /\ Len(s) \in Nat /\ s # <<>>
  BY DEF CacheOK, Cache
<1>2. Oldest(c) = Head(s)
  BY <1>1 DEF Oldest
<1>3. /\ Head(s) = s[1] /\ Len(d.lru) = Len(s) /\ d.lru[Len(s)] = s[1]
      /\ \A i \in 1 .. Len(s) - 1 : d.lru[i] = s[i + 1]
  BY <1>1, <1>2, Rotated
<1>4. SUFFICES ASSUME NEW i \in 1 .. Len(s), i > Len(s) - (n + 1)
               PROVE  c.flow[d.lru[i]].blocked
  BY <1>3 DEF NewestBlocked
<1>5. CASE i = Len(s)
  BY <1>2, <1>3, <1>5
<1>6. CASE i # Len(s)
  <2>1. i \in 1 .. Len(s) - 1 /\ i + 1 \in 1 .. Len(s) /\ i + 1 > Len(s) - n
    BY <1>1, <1>4, <1>6
  <2>2. c.flow[s[i + 1]].blocked
    BY <2>1 DEF NewestBlocked
  <2> QED
    BY <1>3, <2>1, <2>2
<1> QED
  BY <1>5, <1>6, Zenon

(* prune_excess gives up with a full cache only after it has been round    *)
(* all of it, every flow blocked.                                          *)
LEMMA PruneExcessGood ==
    ASSUME IndInv, PruneExcess
    PROVE  IndInv'
<1> DEFINE n == Len(cache.lru)
           k == Oldest(cache)
           more == n > MaxSessions - CleanupFlows /\ n > work.blocks
           skip == \/ cache.flow[k].blocked
                   \/ cache.flow[k].offloaded /\ work.ignore > 0
           w == [work EXCEPT !.ignore = IF @ > 0 THEN @ - 1 ELSE 0]
<1>0. /\ Good(cache, "excess", work, may) /\ may' = may /\ CacheOK(cache)
      /\ cache \in Cache /\ work \in Work
  BY DEF IndInv, Good, PruneExcess, CacheOK
<1>1. /\ cache.lru \in Seq(Keys) /\ IsInjective(cache.lru)
      /\ cache.flow \in [Keys -> Flow] /\ cache.free \in Nat
      /\ n \in Nat /\ n + cache.free = MaxSessions
  BY <1>0 DEF CacheOK, Cache
<1>2. /\ work.blocks \in 0 .. MaxSessions /\ work.ignore \in 0 .. MaxSessions
      /\ MaxSessions \in Nat /\ MaxSessions >= 2
  BY <1>0, FlowCacheConstants DEF Work
<1>3. w \in Work /\ w.key = work.key /\ w.blocks = work.blocks
  BY <1>0, <1>2 DEF Work
<1>4. more => n >= 2 /\ cache.free = 0 /\ work.blocks + 1 \in 0 .. MaxSessions
  BY <1>1, <1>2 DEF CleanupFlows
<1>5. more => k \in Range(cache.lru) /\ k # Newest(cache) /\ k \in Keys
  BY <1>1, <1>4, Rotated, RangeKeys DEF Oldest, Newest
<1>6. ASSUME more, skip, cache' = Touch(First(cache)),
             work' = [w EXCEPT !.blocks = PassedOver(k)],
             pc' = IF k = Newest(cache) THEN "take" ELSE pc
      PROVE  IndInv'
  <2> DEFINE f == First(cache)
  <2>1. /\ CacheOK(f) /\ f.lru = cache.lru /\ f.flow = cache.flow
        /\ f.free = cache.free /\ f.cursor = k
    BY <1>0, FirstOK
  <2>2. k \in Range(f.lru) /\ Newest(f) # k
    BY <1>5, <1>6, <2>1 DEF Newest
  <2> HIDE DEF f, k
  <2>3. /\ CacheOK(cache') /\ Range(cache'.lru) = Range(cache.lru)
        /\ cache'.flow = cache.flow /\ cache'.free = cache.free
        /\ cache'.lru = Append(Without(cache.lru, k), k)
    BY <1>6, <2>1, <2>2, TouchOK DEF f
  <2>4. /\ PassedOver(k) \in 0 .. MaxSessions
        /\ cache.flow[k].blocked => PassedOver(k) = work.blocks + 1
        /\ ~cache.flow[k].blocked => PassedOver(k) = work.blocks
    BY <1>2, <1>4, <1>6 DEF PassedOver
  <2> HIDE DEF w
  <2>5. work' \in Work /\ work'.key = work.key /\ work'.blocks = PassedOver(k)
    BY <1>3, <1>6, <2>4 DEF Work
  <2>6. pc' = "excess"
    BY <1>5, <1>6 DEF PruneExcess
  <2>7. Marked(cache', may)
    BY <1>0, <2>3 DEF Good, Marked
  <2>8. "block" \notin may => work'.blocks = 0
    <3>1. SUFFICES ASSUME "block" \notin may PROVE work'.blocks = 0
      OBVIOUS
    <3>2. ~cache.flow[k].blocked
      BY <1>0, <1>5, <1>6, <3>1 DEF Good, Marked
    <3>3. work.blocks = 0
      BY <1>0, <1>4, <1>6, <3>1 DEF Good, Room
    <3> QED
      BY <2>4, <2>5, <3>2, <3>3
  <2>9. "offload" \notin may => NewestBlocked(cache', work'.blocks)
    <3>1. SUFFICES ASSUME "offload" \notin may PROVE NewestBlocked(cache', work'.blocks)
      OBVIOUS
    <3>2. cache.flow[k].blocked
      BY <1>0, <1>5, <1>6, <3>1 DEF Good, Marked
    <3>3. NewestBlocked(cache, work.blocks)
      BY <1>0, <1>4, <1>6, <3>1 DEF Good, Room
    <3>4. NewestBlocked(cache', work.blocks + 1)
      BY <1>0, <1>2, <1>4, <1>6, <2>3, <3>2, <3>3, BlockedRotated DEF k
    <3> QED
      BY <2>4, <2>5, <3>2, <3>4
  <2>10. work'.key \in Keys \ Range(cache'.lru)
    BY <1>0, <2>3, <2>5 DEF Good, Pruning
  <2>11. Good(cache', "excess", work', may)
    BY <1>0, <2>3, <2>5, <2>7, <2>8, <2>9, <2>10 DEF Good, Room, Places, Pruning, Holding
  <2> QED
    BY <1>0, <2>6, <2>11 DEF IndInv
<1>7. ASSUME more, cache' = Release(First(cache), k), work' = w, pc' = pc
      PROVE  IndInv'
  <2> DEFINE f == First(cache)
  <2>1. /\ CacheOK(f) /\ f.lru = cache.lru /\ f.flow = cache.flow /\ f.free = cache.free
    BY <1>0, FirstOK
  <2>2. k \in Range(f.lru)
    BY <1>5, <1>7, <2>1
  <2> DEFINE r == Release(f, k)
  <2> HIDE DEF f, k, w, more
  <2>r. /\ CacheOK(r) /\ Range(r.lru) = Range(f.lru) \ {k}
        /\ r.flow = [f.flow EXCEPT ![k] = Fresh] /\ r.free = f.free + 1
    BY <2>1, <2>2, ReleaseOK
  <2>3. /\ CacheOK(cache') /\ Range(cache'.lru) = Range(cache.lru) \ {k}
        /\ cache'.flow = [cache.flow EXCEPT ![k] = Fresh] /\ cache'.free = cache.free + 1
    BY <1>7, <2>1, <2>r DEF f
  <2>4. Marked(cache', may)
    BY <1>0, <1>1, <2>3, MarkedReleased, Zenon DEF Good
  <2>5. cache'.free # 0
    BY <1>1, <2>3
  <2>6. w.key \in Keys \ Range(cache'.lru)
    BY <1>0, <1>3, <2>3 DEF Good, Pruning
  <2>7. Good(cache', "excess", w, may)
    BY <1>0, <1>3, <2>3, <2>4, <2>5, <2>6 DEF Good, Room, Places, Pruning, Holding
  <2>8. pc' = "excess"
    BY <1>7 DEF PruneExcess
  <2> QED
    BY <1>0, <1>7, <2>7, <2>8 DEF IndInv
<1>8. ASSUME ~more, pc' = "take", cache' = cache, work' = work
      PROVE  IndInv'
  <2>1. cache.free = 0 => {"block", "offload"} \subseteq may \/ AllBlocked(cache)
    <3>1. SUFFICES ASSUME cache.free = 0, ~({"block", "offload"} \subseteq may)
                   PROVE  AllBlocked(cache)
      OBVIOUS
    <3>2. n <= work.blocks /\ work.blocks # 0
      BY <1>1, <1>2, <1>8, <3>1 DEF CleanupFlows
    <3>3. NewestBlocked(cache, work.blocks)
      BY <1>0, <3>1, <3>2 DEF Good, Room
    <3>4. \A i \in 1 .. n : cache.flow[cache.lru[i]].blocked
      BY <1>1, <1>2, <3>2, <3>3 DEF NewestBlocked
    <3> QED
      BY <1>1, <3>4, RangeKeys DEF AllBlocked, Range
  <2>2. Good(cache, "take", work, may)
    BY <1>0, <2>1 DEF Good, Room, Places, Pruning, Holding
  <2> QED
    BY <1>0, <1>8, <2>2 DEF IndInv
<1> HIDE DEF w
<1> QED
  BY <1>6, <1>7, <1>8 DEF PruneExcess, w

(* Between calls only the cache, the marks and the types matter.           *)
LEMMA Resting ==
    ASSUME NEW c, NEW p \in {"idle", "timeout", "purged"}, NEW w \in Work, NEW m \in Features,
           CacheOK(c), Marked(c, m)
    PROVE  Good(c, p, w, m)
BY DEF Good, Room, Places, Pruning, Holding

(* The same while a flow is held.                                          *)
LEMMA Holds ==
    ASSUME NEW c, NEW p \in Holding, NEW w \in Work, NEW m \in Features,
           CacheOK(c), Marked(c, m), Held(c, w)
    PROVE  Good(c, p, w, m)
BY DEF Good, Room, Places, Pruning, Holding

(* What the invariant says while a flow is held.                           *)
LEMMA HeldFlow ==
    ASSUME IndInv, pc \in Holding
    PROVE  /\ CacheOK(cache) /\ Marked(cache, may) /\ work \in Work /\ may \in Features
           /\ cache \in Cache /\ cache.flow \in [Keys -> Flow]
           /\ work.key \in Keys /\ work.key \in Range(cache.lru)
           /\ Held(cache, work)
<1>1. /\ CacheOK(cache) /\ Marked(cache, may) /\ work \in Work /\ may \in Features
      /\ Held(cache, work)
  BY DEF IndInv, Good
<1>2. cache \in Cache /\ cache.flow \in [Keys -> Flow] /\ cache.lru \in Seq(Keys)
  BY <1>1 DEF CacheOK, Cache
<1>3. work.key \in Range(cache.lru) /\ Range(cache.lru) \subseteq Keys
  BY <1>1, <1>2, RangeKeys DEF Held
<1> QED
  BY <1>1, <1>2, <1>3

(* What the invariant says anywhere.                                       *)
LEMMA IdleCache ==
    ASSUME IndInv
    PROVE  /\ CacheOK(cache) /\ Marked(cache, may) /\ work \in Work /\ may \in Features
           /\ cache \in Cache /\ cache.lru \in Seq(Keys) /\ cache.flow \in [Keys -> Flow]
BY DEF IndInv, Good, CacheOK, Cache

(* The second get makes the flow the newest, or fails in a full cache.     *)
LEMMA TakeGood ==
    ASSUME IndInv, Take
    PROVE  IndInv'
<1>0. /\ Good(cache, "take", work, may) /\ CacheOK(cache) /\ work \in Work
      /\ Marked(cache, may) /\ may \in Features /\ work' = work /\ may' = may
      /\ work.key \in Keys \ Range(cache.lru)
  BY DEF IndInv, Good, Take, Pruning
<1>1. ASSUME cache.free > 0, cache' = LinkUni(AddNode(cache, work.key), work.key),
             pc' = Found(work)
      PROVE  IndInv'
  <2> DEFINE k == work.key
             a == AddNode(cache, k)
             d == LinkUni(a, k)
  <2>1. /\ CacheOK(a) /\ Range(a.lru) = Range(cache.lru) \cup {k}
        /\ a.uni = cache.uni /\ a.flow = cache.flow /\ Newest(a) = k
    BY <1>0, <1>1, AddNodeOK
  <2>2. k \in Range(a.lru) /\ k \notin Range(a.uni)
    BY <1>0, <2>1 DEF CacheOK
  <2> HIDE DEF a, k
  <2>3. CacheOK(d) /\ d.lru = a.lru /\ d.flow = a.flow
    BY <2>1, <2>2, LinkUniOK
  <2>4. cache' = d
    BY <1>1 DEF a, k
  <2> HIDE DEF d
  <2>5. Newest(d) = k /\ Marked(d, may)
    BY <1>0, <2>1, <2>3 DEF Newest, Marked
  <2>h. Held(d, work)
    BY <1>0, <2>3, <2>5, NewestHeld DEF k
  <2>6. Found(work) \in Holding
    BY DEF Found, Holding
  <2>7. Good(d, Found(work), work, may)
    BY <1>0, <2>3, <2>5, <2>h, <2>6, Holds
  <2> QED
    BY <1>0, <1>1, <2>4, <2>7 DEF IndInv
<1>2. ASSUME cache.free = 0, pc' = "noflow", cache' = cache
      PROVE  IndInv'
  <2>1. Good(cache, "noflow", work, may)
    BY <1>0, <1>2 DEF Good, Room, Places, Pruning, Holding
  <2> QED
    BY <1>0, <1>2, <2>1 DEF IndInv
<1> QED
  BY <1>1, <1>2 DEF Take

(* prune_one keeps the order of the flows it leaves; when it takes the flow *)
(* in hand, they were all used after it.                                   *)
LEMMA PruneOneGood ==
    ASSUME IndInv, PruneOne
    PROVE  IndInv'
<1> DEFINE f == First(cache)
           k == Oldest(cache)
           d == Release(f, k)
           lru == cache.lru
<1>0. /\ pc \in Holding /\ cache' = d /\ work' = work /\ may' = may
      /\ pc' = IF k = work.key THEN "lost" ELSE pc
  BY DEF PruneOne, Holding
<1>1. /\ CacheOK(cache) /\ Marked(cache, may) /\ work \in Work /\ may \in Features
      /\ cache \in Cache /\ cache.flow \in [Keys -> Flow] /\ Held(cache, work)
  BY <1>0, HeldFlow
<1>2. lru \in Seq(Keys) /\ IsInjective(lru) /\ Len(lru) \in Nat /\ DOMAIN lru = 1 .. Len(lru)
  BY <1>1, LenProperties DEF CacheOK, Cache
<1>h. \A i, j \in DOMAIN lru : lru[i] = work.key /\ i < j => lru[j] \in work.peeked
  BY <1>1, Zenon DEF Held
<1>3. Len(lru) >= 2 /\ lru # <<>>
  BY <1>2 DEF PruneOne, MayPruneOne
<1>4. k \in Range(lru) /\ k = lru[1] /\ 1 \in DOMAIN lru
  BY <1>2, <1>3, Rotated DEF Oldest
<1>5. CacheOK(f) /\ f.lru = lru /\ f.flow = cache.flow
  BY <1>1, FirstOK
<1> HIDE DEF f, k
<1>k. k \in Range(f.lru)
  BY <1>4, <1>5
<1>r. /\ CacheOK(d) /\ d.lru = Without(f.lru, k) /\ Range(d.lru) = Range(f.lru) \ {k}
      /\ d.flow = [f.flow EXCEPT ![k] = Fresh]
  BY <1>5, <1>k, ReleaseOK, Zenon
<1>6. /\ CacheOK(d) /\ d.lru = Without(lru, k) /\ Range(d.lru) = Range(lru) \ {k}
      /\ d.flow = [cache.flow EXCEPT ![k] = Fresh]
  BY <1>5, <1>r, Zenon
<1>l. /\ Without(lru, k) \in Seq(Keys) /\ Len(Without(lru, k)) = Len(lru) - 1
      /\ DOMAIN Without(lru, k) = 1 .. Len(Without(lru, k))
  BY <1>2, <1>4, WithoutPresent, LenProperties
<1> HIDE DEF d
<1>7. Marked(d, may)
  BY <1>1, <1>6, MarkedReleased
<1>8. CASE k # work.key
  <2>1. work.key \in Range(d.lru)
    BY <1>1, <1>6, <1>8 DEF Held
  <2>2. ASSUME NEW a \in DOMAIN d.lru, NEW b \in DOMAIN d.lru, d.lru[a] = work.key, a < b
        PROVE  d.lru[b] \in work.peeked
    <3> DEFINE u == Without(lru, k)
    <3>0. d.lru = u
      BY <1>6
    <3>s. lru \in Seq(Keys) /\ IsInjective(lru) /\ k \in Range(lru)
      BY <1>2, <1>4
    <3>u. a \in 1 .. Len(u) /\ b \in 1 .. Len(u) /\ a < b
      BY <1>6, <1>l, <2>2, Zenon
    <3>o. InOrder(u, lru)
      BY <3>s, WithoutOrder, Zenon
    <3> HIDE DEF u
    <3>1. PICK i \in 1 .. Len(lru), j \in 1 .. Len(lru) :
                 i < j /\ lru[i] = u[a] /\ lru[j] = u[b]
      BY <3>u, <3>o, Zenon DEF InOrder
    <3> QED
      BY <1>h, <1>2, <2>2, <3>0, <3>1, Zenon
  <2>3. Held(d, work)
    BY <2>1, <2>2 DEF Held
  <2>4. Good(d, pc, work, may)
    BY <1>0, <1>1, <1>6, <1>7, <2>3, Holds
  <2> QED
    BY <1>0, <1>8, <2>4 DEF IndInv
<1>9. CASE k = work.key
  <2>1. d.lru # <<>>
    BY <1>2, <1>3, <1>6, <1>l
  <2>2. ASSUME NEW x \in Range(lru), x # k PROVE x \in work.peeked
    <3>1. PICK j \in DOMAIN lru : lru[j] = x
      BY <2>2 DEF Range
    <3>2. 1 < j
      BY <1>2, <1>4, <2>2, <3>1
    <3> QED
      BY <1>h, <1>4, <1>9, <3>1, <3>2, Zenon
  <2>3. Range(d.lru) \subseteq work.peeked
    BY <1>6, <2>2
  <2>4. Good(d, "lost", work, may)
    BY <1>1, <1>6, <1>7, <2>1, <2>3 DEF Good, Room, Places, Pruning, Holding
  <2> QED
    BY <1>0, <1>9, <2>4 DEF IndInv
<1> QED
  BY <1>8, <1>9

(* A lookup moves another flow to the front, and remembers it.             *)
LEMMA PeekGood ==
    ASSUME IndInv, NEW k \in Keys, NEW block \in BOOLEAN, Peek(k, block)
    PROVE  IndInv'
<1> DEFINE e == Find(cache, k)
           old == e.flow[k]
           new == [old EXCEPT !.blocked = @ \/ block]
           f == [e.flow EXCEPT ![k] = new]
           d == [e EXCEPT !.flow = f]
           w == [work EXCEPT !.peeked = @ \cup {k}]
           lru == cache.lru
<1>0. /\ pc \in Holding /\ cache' = d /\ work' = w /\ may' = may /\ pc' = pc
      /\ k \in Range(lru) /\ (block => "block" \in may)
  BY DEF Peek, Holding, InTable
<1>1. /\ CacheOK(cache) /\ Marked(cache, may) /\ work \in Work /\ may \in Features
      /\ cache.flow \in [Keys -> Flow] /\ Held(cache, work) /\ work.key \in Keys
  BY <1>0, HeldFlow
<1>h. \A i, j \in DOMAIN lru : lru[i] = work.key /\ i < j => lru[j] \in work.peeked
  BY <1>1, Zenon DEF Held
<1>2. /\ w \in Work /\ w.key = work.key /\ w.peeked = work.peeked \cup {k}
  BY <1>1 DEF Work
<1> HIDE DEF w
<1>3. /\ CacheOK(e) /\ Range(e.lru) = Range(lru) /\ Newest(e) = k
      /\ e.flow = [cache.flow EXCEPT ![k].age = 0]
      /\ e.lru \in {lru, Append(Without(lru, k), k)}
  BY <1>0, <1>1, FindOK
<1> HIDE DEF e
<1>a. e.flow \in [Keys -> Flow]
  BY <1>3, Zenon DEF CacheOK, Cache
<1>b. Marked(e, may)
  BY <1>1, <1>3 DEF Marked, Flow
<1>4. e.flow \in [Keys -> Flow] /\ Marked(e, may)
  BY <1>a, <1>b
<1>5. old \in Flow
  BY <1>4
<1> HIDE DEF old
<1>6. new \in Flow /\ (new.blocked => old.blocked \/ block) /\ new.offloaded = old.offloaded
  BY <1>5, ZenonT(30) DEF Flow
<1> HIDE DEF new
<1>7. f \in [Keys -> Flow] /\ f[k] = new /\ \A x \in Keys \ {k} : f[x] = e.flow[x]
  BY <1>4, <1>6
<1> HIDE DEF f
<1>8. CacheOK(d) /\ d.flow = f /\ d.lru = e.lru
  BY <1>3, <1>7, FlowOK
<1>9. d = [e EXCEPT !.flow = f]
  OBVIOUS
<1> HIDE DEF d
<1>10. Marked(d, may)
  BY <1>0, <1>4, <1>6, <1>7, <1>8 DEF Marked, old
<1>11. Held(d, w)
  <2>1. CASE k = work.key
    <3>1. Newest(d) = w.key
      BY <1>2, <1>3, <1>8, <2>1 DEF Newest
    <3> QED
      BY <1>1, <1>2, <1>8, <3>1, NewestHeld
  <2>2. CASE e.lru = lru
    BY <1>1, <1>2, <1>8, <2>2 DEF Held
  <2>3. CASE k # work.key /\ e.lru = Append(Without(lru, k), k)
    <3> DEFINE u == Without(lru, k)
    <3>1. lru \in Seq(Keys) /\ IsInjective(lru) /\ DOMAIN lru = 1 .. Len(lru)
      BY <1>1, LenProperties DEF CacheOK, Cache
    <3>2. u \in Seq(Keys)
      BY <1>0, <3>1, WithoutPresent
    <3>3. /\ DOMAIN d.lru = 1 .. Len(u) + 1 /\ Len(u) \in Nat /\ d.lru[Len(u) + 1] = k
          /\ \A i \in 1 .. Len(u) : d.lru[i] = u[i]
      BY <1>8, <2>3, <3>2, AppendProperties, LenProperties
    <3>o. InOrder(u, lru)
      BY <1>0, <3>1, WithoutOrder, Zenon
    <3> HIDE DEF u
    <3>4. ASSUME NEW a \in DOMAIN d.lru, NEW b \in DOMAIN d.lru, d.lru[a] = work.key, a < b
          PROVE  d.lru[b] \in w.peeked
      <4>1. CASE b = Len(u) + 1
        BY <1>2, <3>3, <4>1
      <4>2. CASE b # Len(u) + 1
        <5>1. a \in 1 .. Len(u) /\ b \in 1 .. Len(u)
          BY <3>3, <3>4, <4>2
        <5>2. PICK i \in 1 .. Len(lru), j \in 1 .. Len(lru) :
                     i < j /\ lru[i] = u[a] /\ lru[j] = u[b]
          BY <3>o, <3>4, <5>1, Zenon DEF InOrder
        <5>3. lru[j] \in work.peeked
          BY <1>h, <3>1, <3>3, <3>4, <5>1, <5>2, Zenon
        <5> QED
          BY <1>2, <3>3, <5>1, <5>2, <5>3
      <4> QED
        BY <4>1, <4>2
    <3>5. w.key \in Range(d.lru)
      BY <1>1, <1>2, <1>3, <1>8 DEF Held
    <3> QED
      BY <1>2, <3>4, <3>5 DEF Held
  <2> QED
    BY <1>3, <2>1, <2>2, <2>3
<1>12. Good(d, pc, w, may)
  BY <1>0, <1>1, <1>2, <1>8, <1>10, <1>11, Holds
<1> QED
  BY <1>0, <1>12 DEF IndInv

(* Taking the held flow off the one-way list.                              *)
LEMMA ProcessGood ==
    ASSUME IndInv, Process
    PROVE  IndInv'
<1> DEFINE u == UnlinkUni(cache, work.key)
<1>0. pc \in Holding /\ pc' = "inspect" /\ work' = work /\ may' = may /\ cache' \in {cache, u}
  BY DEF Process, Holding
<1>1. /\ CacheOK(cache) /\ Marked(cache, may) /\ work \in Work /\ may \in Features
      /\ Held(cache, work)
  BY <1>0, HeldFlow
<1>2. CacheOK(u) /\ u.lru = cache.lru /\ u.flow = cache.flow
  BY <1>1, UnlinkUniOK
<1> HIDE DEF u
<1>3. CacheOK(cache') /\ Marked(cache', may) /\ Held(cache', work)
  BY <1>0, <1>1, <1>2 DEF Marked, Held
<1>4. Good(cache', "inspect", work, may)
  BY <1>1, <1>3, Holds DEF Holding
<1> QED
  BY <1>0, <1>4 DEF IndInv

(* Inspection marks the held flow only as the features allow.              *)
LEMMA InspectGood ==
    ASSUME IndInv, NEW other \in BOOLEAN, NEW block \in BOOLEAN, NEW offload \in BOOLEAN,
           Inspect(other, block, offload)
    PROVE  IndInv'
<1> DEFINE k == work.key
           old == cache.flow[k]
           new == Inspected(old, other, block, offload)
           f == [cache.flow EXCEPT ![k] = new]
           d == [cache EXCEPT !.flow = f]
<1>0. /\ pc \in Holding /\ pc' = "timeout" /\ work' = Idle /\ may' = may /\ cache' = d
      /\ block => "block" \in may
      /\ offload => "offload" \in may
  BY DEF Inspect, Holding
<1>1. /\ CacheOK(cache) /\ Marked(cache, may) /\ may \in Features
      /\ cache.flow \in [Keys -> Flow] /\ k \in Keys
  BY <1>0, HeldFlow
<1>2. old \in Flow
  BY <1>1
<1> HIDE DEF old, k
<1>3. /\ new \in Flow
      /\ new.blocked => old.blocked \/ block
      /\ new.offloaded => old.offloaded \/ offload
  BY <1>2, ZenonT(60) DEF Flow, Inspected
<1> HIDE DEF new
<1>4. f \in [Keys -> Flow] /\ f[k] = new /\ \A x \in Keys \ {k} : f[x] = cache.flow[x]
  BY <1>1, <1>3
<1> HIDE DEF f
<1>5. CacheOK(d) /\ d.flow = f
  BY <1>1, <1>4, FlowOK
<1> HIDE DEF d
<1>6. Marked(d, may)
  BY <1>0, <1>1, <1>3, <1>4, <1>5 DEF Marked, old
<1>7. Good(d, "timeout", Idle, may)
  BY <1>1, <1>5, <1>6, IdleWork, Resting
<1> QED
  BY <1>0, <1>7 DEF IndInv

(* The held flow is released when its session closed.                      *)
LEMMA CloseFlowGood ==
    ASSUME IndInv, CloseFlow
    PROVE  IndInv'
<1> DEFINE d == Release(cache, work.key)
<1>0. pc \in Holding /\ pc' = "timeout" /\ work' = Idle /\ may' = may /\ cache' = d
  BY DEF CloseFlow, Holding
<1>1. /\ CacheOK(cache) /\ Marked(cache, may) /\ may \in Features
      /\ cache.flow \in [Keys -> Flow] /\ work.key \in Range(cache.lru)
  BY <1>0, HeldFlow
<1>2. CacheOK(d) /\ d.flow = [cache.flow EXCEPT ![work.key] = Fresh]
  BY <1>1, ReleaseOK, Zenon
<1> HIDE DEF d
<1>3. Marked(d, may)
  BY <1>1, <1>2, MarkedReleased, Zenon
<1>4. Good(d, "timeout", Idle, may)
  BY <1>1, <1>2, <1>3, IdleWork, Resting
<1> QED
  BY <1>0, <1>4 DEF IndInv

(* A search comes back.                                                    *)
LEMMA OnloadGood ==
    ASSUME IndInv, NEW k \in Keys, NEW closed \in BOOLEAN, Onload(k, closed)
    PROVE  IndInv'
<1> DEFINE r == Release(cache, k)
           old == cache.flow[k]
           new == [old EXCEPT !.offloaded = FALSE]
           f == [cache.flow EXCEPT ![k] = new]
           d == [cache EXCEPT !.flow = f]
<1>0. /\ pc = "idle" /\ pc' = pc /\ work' = work /\ may' = may
      /\ k \in Range(cache.lru) /\ cache' \in {r, d}
  BY DEF Onload, InTable
<1>1. /\ CacheOK(cache) /\ Marked(cache, may) /\ work \in Work /\ may \in Features
      /\ cache.flow \in [Keys -> Flow]
  BY IdleCache
<1>2. CacheOK(r) /\ r.flow = [cache.flow EXCEPT ![k] = Fresh]
  BY <1>0, <1>1, ReleaseOK
<1> HIDE DEF r
<1>3. Marked(r, may)
  BY <1>1, <1>2, MarkedReleased
<1>4. old \in Flow
  BY <1>1
<1> HIDE DEF old
<1>5. new \in Flow /\ new.blocked = old.blocked /\ ~new.offloaded
  BY <1>4, Zenon DEF Flow
<1> HIDE DEF new
<1>6. f \in [Keys -> Flow] /\ f[k] = new /\ \A x \in Keys \ {k} : f[x] = cache.flow[x]
  BY <1>1, <1>5
<1> HIDE DEF f
<1>7. CacheOK(d) /\ d.flow = f
  BY <1>1, <1>6, FlowOK
<1> HIDE DEF d
<1>8. Marked(d, may)
  BY <1>1, <1>5, <1>6, <1>7 DEF Marked, old
<1>9. Good(cache', "idle", work, may)
  BY <1>0, <1>1, <1>2, <1>3, <1>7, <1>8, Resting
<1> QED
  BY <1>0, <1>9 DEF IndInv

(* The peer's state replaces the held flow's.                              *)
LEMMA ConsumeGood ==
    ASSUME IndInv, NEW seen \in {"none", "one", "both"}, NEW block \in BOOLEAN,
           Consume(seen, block)
    PROVE  IndInv'
<1> DEFINE k == work.key
           old == cache.flow[k]
           new == [old EXCEPT !.seen = seen, !.blocked = block, !.standby = TRUE]
           f == [cache.flow EXCEPT ![k] = new]
           d == [cache EXCEPT !.flow = f]
<1>0. /\ pc \in Holding /\ pc' = "idle" /\ work' = Idle /\ may' = may /\ cache' = d
      /\ block => "block" \in may
  BY DEF Consume, Holding
<1>1. /\ CacheOK(cache) /\ Marked(cache, may) /\ may \in Features
      /\ cache.flow \in [Keys -> Flow] /\ k \in Keys
  BY <1>0, HeldFlow
<1>2. old \in Flow
  BY <1>1
<1> HIDE DEF old, k
<1>3. new \in Flow /\ new.blocked = block /\ new.offloaded = old.offloaded
  BY <1>2, Zenon DEF Flow
<1> HIDE DEF new
<1>4. f \in [Keys -> Flow] /\ f[k] = new /\ \A x \in Keys \ {k} : f[x] = cache.flow[x]
  BY <1>1, <1>3
<1> HIDE DEF f
<1>5. CacheOK(d) /\ d.flow = f
  BY <1>1, <1>4, FlowOK
<1> HIDE DEF d
<1>6. Marked(d, may)
  BY <1>0, <1>1, <1>3, <1>4, <1>5 DEF Marked, old
<1>7. Good(d, "idle", Idle, may)
  BY <1>1, <1>5, <1>6, IdleWork, Resting
<1> QED
  BY <1>0, <1>7 DEF IndInv

(* The peer deletes a flow.                                                *)
LEMMA HaDeleteGood ==
    ASSUME IndInv, NEW k \in Keys, HaDelete(k)
    PROVE  IndInv'
<1> DEFINE f == Find(cache, k)
           d == Release(f, k)
<1>0. /\ pc = "idle" /\ pc' = pc /\ work' = work /\ may' = may
      /\ k \in Range(cache.lru) /\ cache' = d
  BY DEF HaDelete, InTable
<1>1. /\ CacheOK(cache) /\ Marked(cache, may) /\ work \in Work /\ may \in Features
      /\ cache.flow \in [Keys -> Flow]
  BY IdleCache
<1>2. /\ CacheOK(f) /\ Range(f.lru) = Range(cache.lru)
      /\ f.flow = [cache.flow EXCEPT ![k].age = 0]
  BY <1>0, <1>1, FindOK
<1> HIDE DEF f
<1>3. Marked(f, may)
  BY <1>1, <1>2 DEF Marked, Flow
<1>4. CacheOK(d) /\ d.flow = [f.flow EXCEPT ![k] = Fresh]
  BY <1>0, <1>2, ReleaseOK
<1>5. f.flow \in [Keys -> Flow]
  BY <1>2, Zenon DEF CacheOK, Cache
<1> HIDE DEF d
<1>6. Marked(d, may)
  BY <1>3, <1>4, <1>5, MarkedReleased
<1>7. Good(d, "idle", work, may)
  BY <1>1, <1>4, <1>6, Resting
<1> QED
  BY <1>0, <1>7 DEF IndInv

(* timeout starts in the list, and retires or stops at a flow of it.       *)
LEMMA TimeoutGood ==
    ASSUME IndInv, Timeout
    PROVE  IndInv'
<1> DEFINE lru == cache.lru
           at(k) == [cache EXCEPT !.cursor = k]
<1>0. pc' = "idle" /\ work' = work /\ may' = may
  BY DEF Timeout
<1>1. /\ CacheOK(cache) /\ Marked(cache, may) /\ work \in Work /\ may \in Features
      /\ lru \in Seq(Keys) /\ cache.flow \in [Keys -> Flow]
  BY IdleCache
<1>2. ASSUME NEW k \in Range(lru) \cup {None}
      PROVE  /\ CacheOK(at(k)) /\ Marked(at(k), may)
             /\ at(k).lru = lru /\ at(k).flow = cache.flow
  <2>1. CacheOK(at(k)) /\ at(k).lru = lru /\ at(k).flow = cache.flow
    BY <1>1, CursorOK, Zenon
  <2> HIDE DEF at
  <2> QED
    BY <1>1, <2>1 DEF Marked
<1>3. ASSUME NEW k \in Range(lru)
      PROVE  CacheOK(Release(at(k), k)) /\ Marked(Release(at(k), k), may)
  <2> DEFINE a == at(k)
             d == Release(a, k)
  <2>1. CacheOK(a) /\ Marked(a, may) /\ a.lru = lru /\ a.flow = cache.flow
    BY <1>2, <1>3
  <2> HIDE DEF a
  <2>2. CacheOK(d) /\ d.flow = [a.flow EXCEPT ![k] = Fresh]
    BY <1>3, <2>1, ReleaseOK
  <2> HIDE DEF d
  <2>3. Marked(d, may)
    BY <1>1, <2>1, <2>2, MarkedReleased, Zenon
  <2> QED
    BY <2>2, <2>3 DEF d, a
<1>4. ScanFrom \in Nat \ {0}
  <2>1. CASE cache.cursor = None
    BY <2>1 DEF ScanFrom
  <2>2. CASE cache.cursor # None
    <3>1. cache.cursor \in Range(lru) /\ IsInjective(lru)
      BY <1>1, <2>2 DEF CacheOK
    <3>2. Position(lru, cache.cursor) \in 1 .. Len(lru) /\ Len(lru) \in Nat
      BY <1>1, <3>1, WithoutPresent
    <3> QED
      BY <2>2, <3>2 DEF ScanFrom
  <2> QED
    BY <2>1, <2>2
<1>5. \A i \in ScanFrom .. Len(lru) : lru[i] \in Range(lru)
  BY <1>1, <1>4, RangeKeys
<1> HIDE DEF at
<1>6. CacheOK(cache') /\ Marked(cache', may)
  <2>1. CASE cache' = at(None)
    BY <1>2, <2>1
  <2>2. CASE \E i \in ScanFrom .. Len(lru) :
                cache' \in {Release(at(lru[i]), lru[i]), at(lru[i])}
    BY <1>2, <1>3, <1>5, <2>2
  <2> QED
    BY <2>1, <2>2 DEF Timeout, at
<1>7. Good(cache', "idle", work, may)
  BY <1>1, <1>6, Resting
<1> QED
  BY <1>0, <1>7 DEF IndInv

(* Time only ages flows.                                                   *)
LEMMA TickGood ==
    ASSUME IndInv, Tick
    PROVE  IndInv'
<1> DEFINE f == [k \in Keys |-> IF InTable(k) THEN Aged(cache.flow[k]) ELSE cache.flow[k]]
           d == [cache EXCEPT !.flow = f]
<1>0. pc = "idle" /\ pc' = pc /\ work' = work /\ may' = may /\ cache' = d
  BY DEF Tick
<1>1. /\ CacheOK(cache) /\ Marked(cache, may) /\ work \in Work /\ may \in Features
      /\ cache.flow \in [Keys -> Flow]
  BY IdleCache
<1>2. ASSUME NEW k \in Keys
      PROVE  /\ f[k] \in Flow /\ f[k].blocked = cache.flow[k].blocked
             /\ f[k].offloaded = cache.flow[k].offloaded
  <2>1. cache.flow[k] \in Flow /\ MaxAge \in Nat
    BY <1>1, FreshFlow
  <2>2. /\ Aged(cache.flow[k]) \in Flow
        /\ Aged(cache.flow[k]).blocked = cache.flow[k].blocked
        /\ Aged(cache.flow[k]).offloaded = cache.flow[k].offloaded
    BY <2>1 DEF Aged, Flow
  <2> QED
    BY <2>1, <2>2
<1>3. f \in [Keys -> Flow]
  BY <1>2
<1> HIDE DEF f
<1>4. CacheOK(d) /\ d.flow = f
  BY <1>1, <1>3, FlowOK
<1> HIDE DEF d
<1>5. Marked(d, may)
  BY <1>1, <1>2, <1>4 DEF Marked
<1>6. Good(d, "idle", work, may)
  BY <1>1, <1>4, <1>5, Resting
<1> QED
  BY <1>0, <1>6 DEF IndInv

(* The purge frees every node.                                             *)
LEMMA PurgeGood ==
    ASSUME IndInv, Purge
    PROVE  IndInv'
<1>0. /\ cache' = [lru |-> <<>>, cursor |-> None, uni |-> <<>>,
                   flow |-> [k \in Keys |-> Fresh], free |-> cache.free + Len(cache.lru)]
      /\ pc' = "purged" /\ work' = work /\ may' = may
  BY DEF Purge
<1>1. /\ CacheOK(cache) /\ work \in Work /\ may \in Features /\ cache.lru \in Seq(Keys)
  BY IdleCache
<1>2. cache.free + Len(cache.lru) = MaxSessions /\ MaxSessions \in Nat
  BY <1>1, FlowCacheConstants DEF CacheOK, Cache
<1>3. cache' \in Cache
  BY <1>0, <1>2, FreshFlow DEF Cache
<1>4. IsInjective(<<>>) /\ Range(<<>>) = {} /\ Len(<<>>) = 0
  BY DEF IsInjective, Range
<1>5. CacheOK(cache')
  BY <1>0, <1>2, <1>3, <1>4 DEF CacheOK
<1>6. Marked(cache', may)
  BY <1>0 DEF Marked, Fresh
<1>7. Good(cache', "purged", work, may)
  BY <1>1, <1>5, <1>6, Resting
<1> QED
  BY <1>0, <1>7 DEF IndInv

(* The invariant holds of the initial cache and every step keeps it.       *)
THEOREM Inductive == Spec => []IndInv
<1>1. Init => IndInv
  BY InitGood
<1>2. IndInv /\ [Next]_vars => IndInv'
  <2> SUFFICES ASSUME IndInv, [Next]_vars PROVE IndInv'
    OBVIOUS
  <2>1. CASE UNCHANGED vars
    BY <2>1 DEF vars, IndInv
  <2>2. CASE \E k \in Keys, ha \in BOOLEAN : Lookup(k, ha)
    BY <2>2, LookupGood
  <2>3. CASE Step
    <3>1. CASE \E other, block, offload \in BOOLEAN : Inspect(other, block, offload)
      BY <3>1, InspectGood
    <3>2. CASE \E seen \in {"none", "one", "both"}, block \in BOOLEAN : Consume(seen, block)
      BY <3>2, ConsumeGood
    <3> QED
      BY <2>3, <3>1, <3>2, PruneStaleGood, PruneUnisGood, PruneExcessGood, TakeGood,
         PruneOneGood, ProcessGood, CloseFlowGood DEF Step
  <2>p. CASE \E k \in Keys, block \in BOOLEAN : Peek(k, block)
    BY <2>p, PeekGood
  <2>4. CASE \E k \in Keys, closed \in BOOLEAN : Onload(k, closed)
    BY <2>4, OnloadGood
  <2>5. CASE \E k \in Keys : HaDelete(k)
    BY <2>5, HaDeleteGood
  <2>6. CASE Timeout \/ Tick \/ Purge
    BY <2>6, TimeoutGood, TickGood, PurgeGood
  <2>7. CASE Stopped
    BY <2>1, <2>7 DEF Stopped
  <2> QED
    BY <2>1, <2>2, <2>3, <2>p, <2>4, <2>5, <2>6, <2>7 DEF Next
<1> QED
  BY <1>1, <1>2, PTL DEF Spec

(* The free list and the loops of get keep within max_sessions, for every  *)
(* number of keys and every configuration (flow_cache.cc, zhash.cc).       *)
THEOREM TypesKept == Spec => []TypeOK
<1>1. IndInv => TypeOK
  BY DEF IndInv, Good, CacheOK, Places, Work, TypeOK
<1> QED
  BY <1>1, Inductive, PTL

(* No release, timeout, move to the front or memory pruning leaves the     *)
(* cursor or the one-way list pointing at a freed node, links a flow twice *)
(* or loses a node (zhash.cc gunlink_node, flow_cache.cc unlink_uni).      *)
THEOREM ListsConsistent == Spec => []ListsAgree
<1>1. IndInv => ListsAgree
  BY DEF IndInv, Good, CacheOK, ListsAgree
<1> QED
  BY <1>1, Inductive, PTL

(* However memory pressure prunes in the middle of a packet, it keeps the  *)
(* flow in hand as long as one flow is left that no inspector looked up    *)
(* for that packet, and always where none was looked up: that much holds   *)
(* of "assume current == MRU" (flow_cache.cc prune_one).                   *)
THEOREM CurrentStays == Spec => []CurrentKept
<1>1. IndInv => CurrentKept
  BY DEF IndInv, Good, Held, Holding, InTable, CurrentKept
<1> QED
  BY <1>1, Inductive, PTL

(* Where blocked and offloaded flows do not mix, FlowCache::get fails its  *)
(* assert(flow) only when every flow of the cache is blocked.              *)
THEOREM RoomMade == Spec => []RoomUnlessMixed
<1>1. IndInv => RoomUnlessMixed
  BY DEF IndInv, Good, Room, AllBlocked, RoomUnlessMixed, RoomUnlessBlocked
<1> QED
  BY <1>1, Inductive, PTL
=============================================================================
