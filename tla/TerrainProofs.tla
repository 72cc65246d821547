--------------------------- MODULE TerrainProofs ---------------------------
(***************************************************************************)
(* The streamed terrain, for all chunks, views, slots, budgets and graces: *)
(* whatever order the loops of process_ready() take the chunks in, and     *)
(* whichever writes fail, no mesh slot and no collider leaks or is handed  *)
(* out twice, and what is being generated is known.                        *)
(***************************************************************************)
EXTENDS TerrainStreaming, FiniteSetTheorems, TLAPS

-----------------------------------------------------------------------------
(* Sequences.                                                               *)

LEMMA LastTaken ==
  ASSUME NEW S, NEW s \in Seq(S), s # << >>, IsInjective(s)
  PROVE  /\ Len(s) > 0 /\ Last(s) \in S /\ Last(s) \in ToSet(s)
         /\ Front(s) \in Seq(S) /\ Len(Front(s)) = Len(s) - 1
         /\ IsInjective(Front(s))
         /\ ToSet(Front(s)) = ToSet(s) \ {Last(s)}
<1>1. Len(s) \in Nat /\ Len(s) > 0 /\ DOMAIN s = 1 .. Len(s)
  OBVIOUS
<1>2. /\ Front(s) \in Seq(S) /\ Len(Front(s)) = Len(s) - 1
      /\ DOMAIN Front(s) = 1 .. Len(s) - 1
      /\ \A i \in 1 .. Len(s) - 1 : Front(s)[i] = s[i]
  BY <1>1 DEF Front
<1>3. Last(s) \in S /\ Last(s) \in ToSet(s)
  BY <1>1 DEF Last, ToSet
<1>4. IsInjective(Front(s))
  BY <1>1, <1>2 DEF IsInjective
<1>5. ToSet(Front(s)) = ToSet(s) \ {Last(s)}
  <2>1. ASSUME NEW x \in ToSet(Front(s))
        PROVE  x \in ToSet(s) \ {Last(s)}
    <3>1. PICK i \in 1 .. Len(s) - 1 : x = s[i]
      BY <1>2 DEF ToSet
    <3>2. i \in 1 .. Len(s) /\ Len(s) \in 1 .. Len(s) /\ i # Len(s)
      <4>1. \A n \in Nat : n > 0 => \A j \in 1 .. n - 1 : j \in 1 .. n /\ n \in 1 .. n /\ j # n
        OBVIOUS
      <4> QED
        BY <1>1, <4>1, Zenon
    <3>3. s[i] # s[Len(s)]
      BY <1>1, <3>2 DEF IsInjective
    <3> QED
      BY <1>1, <3>1, <3>2, <3>3 DEF ToSet, Last
  <2>2. ASSUME NEW x \in ToSet(s) \ {Last(s)}
        PROVE  x \in ToSet(Front(s))
    <3>1. PICK i \in 1 .. Len(s) : x = s[i]
      BY <1>1 DEF ToSet
    <3>2. i \in 1 .. Len(s) - 1
      BY <1>1, <3>1 DEF Last
    <3> QED
      BY <1>2, <3>1, <3>2 DEF ToSet
  <2> QED
    BY <2>1, <2>2
<1> QED
  BY <1>1, <1>2, <1>3, <1>4, <1>5

LEMMA Joined ==
  ASSUME NEW S, NEW s \in Seq(S), NEW t \in Seq(S), IsInjective(s), IsInjective(t),
         ToSet(s) \cap ToSet(t) = {}
  PROVE  /\ s \o t \in Seq(S) /\ Len(s \o t) = Len(s) + Len(t)
         /\ IsInjective(s \o t)
         /\ ToSet(s \o t) = ToSet(s) \cup ToSet(t)
<1>1. /\ Len(s) \in Nat /\ Len(t) \in Nat
      /\ DOMAIN s = 1 .. Len(s) /\ DOMAIN t = 1 .. Len(t)
  OBVIOUS
<1>2. /\ s \o t \in Seq(S) /\ Len(s \o t) = Len(s) + Len(t)
      /\ DOMAIN (s \o t) = 1 .. Len(s) + Len(t)
      /\ \A i \in 1 .. Len(s) + Len(t) :
           (s \o t)[i] = IF i <= Len(s) THEN s[i] ELSE t[i - Len(s)]
  OBVIOUS
<1> DEFINE u == s \o t
<1> HIDE DEF u
<1>3. ASSUME NEW i \in 1 .. Len(s) + Len(t)
      PROVE  \/ i \in 1 .. Len(s) /\ u[i] = s[i] /\ u[i] \in ToSet(s)
             \/ i - Len(s) \in 1 .. Len(t) /\ u[i] = t[i - Len(s)] /\ u[i] \in ToSet(t)
  <2>1. CASE i <= Len(s)
    BY <1>1, <1>2, <2>1 DEF ToSet, u
  <2>2. CASE ~ (i <= Len(s))
    <3>1. i - Len(s) \in 1 .. Len(t)
      BY <1>1, <2>2
    <3> QED
      BY <1>1, <1>2, <2>2, <3>1 DEF ToSet, u
  <2> QED
    BY <2>1, <2>2
<1>4. IsInjective(u)
  <2> SUFFICES ASSUME NEW i \in 1 .. Len(s) + Len(t), NEW j \in 1 .. Len(s) + Len(t),
                      u[i] = u[j]
               PROVE  i = j
    BY <1>2 DEF IsInjective, u
  <2>1. CASE i \in 1 .. Len(s) /\ u[i] = s[i] /\ u[i] \in ToSet(s)
    <3>1. j \in 1 .. Len(s) /\ u[j] = s[j]
      BY <1>3, <2>1
    <3> QED
      BY <1>1, <2>1, <3>1 DEF IsInjective
  <2>2. CASE i - Len(s) \in 1 .. Len(t) /\ u[i] = t[i - Len(s)] /\ u[i] \in ToSet(t)
    <3>1. j - Len(s) \in 1 .. Len(t) /\ u[j] = t[j - Len(s)]
      BY <1>3, <2>2
    <3>2. i - Len(s) = j - Len(s)
      BY <1>1, <2>2, <3>1 DEF IsInjective
    <3> QED
      BY <1>1, <3>2
  <2> QED
    BY <1>3, <2>1, <2>2
<1>5. ToSet(u) = ToSet(s) \cup ToSet(t)
  <2>1. ToSet(u) \subseteq ToSet(s) \cup ToSet(t)
    BY <1>2, <1>3 DEF ToSet, u
  <2>2. ToSet(s) \subseteq ToSet(u)
    <3> SUFFICES ASSUME NEW i \in 1 .. Len(s) PROVE s[i] \in ToSet(u)
      BY <1>1 DEF ToSet
    <3>1. i \in 1 .. Len(s) + Len(t) /\ u[i] = s[i]
      BY <1>1, <1>2 DEF u
    <3> QED
      BY <1>2, <3>1 DEF ToSet, u
  <2>3. ToSet(t) \subseteq ToSet(u)
    <3> SUFFICES ASSUME NEW i \in 1 .. Len(t) PROVE t[i] \in ToSet(u)
      BY <1>1 DEF ToSet
    <3>1. i + Len(s) \in 1 .. Len(s) + Len(t) /\ ~ (i + Len(s) <= Len(s)) /\ (i + Len(s)) - Len(s) = i
      BY <1>1
    <3>2. u[i + Len(s)] = t[i]
      BY <1>2, <3>1 DEF u
    <3> QED
      BY <1>2, <3>1, <3>2 DEF ToSet, u
  <2> QED
    BY <2>1, <2>2, <2>3
<1> QED
  BY <1>2, <1>4, <1>5 DEF u

LEMMA Appended ==
  ASSUME NEW S, NEW s \in Seq(S), NEW x \in S, IsInjective(s), x \notin ToSet(s)
  PROVE  /\ Append(s, x) \in Seq(S) /\ Len(Append(s, x)) = Len(s) + 1
         /\ IsInjective(Append(s, x))
         /\ ToSet(Append(s, x)) = ToSet(s) \cup {x}
<1>1. /\ << x >> \in Seq(S) /\ IsInjective(<< x >>) /\ ToSet(<< x >>) = {x} /\ Len(<< x >>) = 1
  BY DEF IsInjective, ToSet
<1>2. Append(s, x) = s \o << x >>
  OBVIOUS
<1>3. ToSet(s) \cap ToSet(<< x >>) = {}
  BY <1>1
<1>4. /\ s \o << x >> \in Seq(S) /\ Len(s \o << x >>) = Len(s) + Len(<< x >>)
      /\ IsInjective(s \o << x >>)
      /\ ToSet(s \o << x >>) = ToSet(s) \cup ToSet(<< x >>)
  BY <1>1, <1>3, Joined
<1> QED
  BY <1>1, <1>2, <1>4

LEMMA Ordered ==
  ASSUME NEW S, IsFiniteSet(S), NEW s \in Orders(S)
  PROVE  /\ s \in Seq(S) /\ Len(s) = Cardinality(S) /\ IsInjective(s)
         /\ ToSet(s) = S
<1>1. Cardinality(S) \in Nat
  BY FS_CardinalityType
<1>2. s \in [1 .. Cardinality(S) -> S] /\ \A i, j \in 1 .. Cardinality(S) : i # j => s[i] # s[j]
  BY DEF Orders, SetToSeqs
<1>3. s \in Seq(S) /\ Len(s) = Cardinality(S) /\ IsInjective(s)
  BY <1>1, <1>2 DEF IsInjective
<1>4. ToSet(s) = S
  <2>1. s \in Injection(1 .. Cardinality(S), S)
    BY <1>2 DEF Injection, IsInjective
  <2>2. IsFiniteSet(1 .. Cardinality(S)) /\ Cardinality(1 .. Cardinality(S)) = Cardinality(S)
    BY <1>1, FS_Interval
  <2>3. s \in Surjection(1 .. Cardinality(S), S)
    BY <2>1, <2>2, FS_Injection
  <2> QED
    BY <1>2, <2>3 DEF Surjection, ToSet
<1> QED
  BY <1>3, <1>4

LEMMA Listed ==
  ASSUME NEW S, IsFiniteSet(S)
  PROVE  SetToSeq(S) \in Orders(S)
<1>1. Cardinality(S) \in Nat /\ ExistsBijection(1 .. Cardinality(S), S)
  BY FS_CardinalityType
<1>2. \E f \in [1 .. Cardinality(S) -> S] : IsInjective(f)
  BY <1>1, Zenon DEF ExistsBijection, Bijection, Injection
<1>3. SetToSeq(S) \in [1 .. Cardinality(S) -> S] /\ IsInjective(SetToSeq(S))
  BY <1>2, Zenon DEF SetToSeq
<1> QED
  BY <1>3 DEF Orders, SetToSeqs, IsInjective

-----------------------------------------------------------------------------
(* The loops.                                                               *)

AmongStep(S, t, x) == IF x \in S THEN Append(t, x) ELSE t
Sieving == INSTANCE FoldFacts WITH Step <- AmongStep

(* Taking some of a sequence without repetitions leaves their order.        *)
LEMMA AmongFacts ==
  ASSUME NEW T, NEW s \in Seq(T), IsInjective(s), NEW S
  PROVE  /\ Among(s, S) \in Seq(T) /\ IsInjective(Among(s, S))
         /\ ToSet(Among(s, S)) = ToSet(s) \cap S
         /\ Len(Among(s, S)) <= Len(s)
<1> DEFINE upTo(i) == { s[j] : j \in 1 .. i }
           I == { x \in (0 .. Len(s)) \X Seq(T) :
                    /\ IsInjective(x[2]) /\ Len(x[2]) <= x[1]
                    /\ ToSet(x[2]) = upTo(x[1]) \cap S }
<1>1. Len(s) \in Nat /\ DOMAIN s = 1 .. Len(s) /\ \A i \in 1 .. Len(s) : s[i] \in T
  OBVIOUS
<1>2. << 0, << >> >> \in I
  <2>1. << >> \in Seq(T) /\ IsInjective(<< >>) /\ ToSet(<< >>) = {} /\ Len(<< >>) = 0
    BY DEF IsInjective, ToSet
  <2>2. upTo(0) = {} /\ 0 \in 0 .. Len(s)
    BY <1>1
  <2>3. ToSet(<< >>) = upTo(0) \cap S
    BY <2>1, <2>2
  <2>4. PICK e : e = << >>
    OBVIOUS
  <2>5. e \in Seq(T) /\ IsInjective(e) /\ Len(e) <= 0 /\ ToSet(e) = upTo(0) \cap S
    BY <2>1, <2>3, <2>4
  <2> HIDE DEF upTo
  <2>6. << 0, e >> \in I
    BY <2>2, <2>5
  <2> QED
    BY <2>4, <2>6
<1>3. ASSUME NEW i \in 1 .. Len(s), NEW t, << i - 1, t >> \in I
      PROVE  << i, AmongStep(S, t, s[i]) >> \in I
  <2>1. /\ t \in Seq(T) /\ IsInjective(t) /\ Len(t) <= i - 1
        /\ ToSet(t) = upTo(i - 1) \cap S
    BY <1>3
  <2>2. upTo(i) = upTo(i - 1) \cup {s[i]} /\ i \in 0 .. Len(s)
    <3>1. 1 .. i = (1 .. i - 1) \cup {i}
      BY <1>1
    <3> QED
      BY <1>1, <3>1
  <2>3. s[i] \notin upTo(i - 1)
    <3>1. \A j \in 1 .. i - 1 : j \in 1 .. Len(s) /\ j # i
      BY <1>1
    <3> QED
      BY <1>1, <3>1 DEF IsInjective
  <2> HIDE DEF upTo
  <2>4. CASE s[i] \in S
    <3>1. /\ Append(t, s[i]) \in Seq(T) /\ IsInjective(Append(t, s[i]))
          /\ Len(Append(t, s[i])) = Len(t) + 1
          /\ ToSet(Append(t, s[i])) = ToSet(t) \cup {s[i]}
      BY <1>1, <2>1, <2>3, Appended
    <3>2. Len(t) + 1 <= i
      BY <1>1, <2>1
    <3>3. ToSet(t) \cup {s[i]} = upTo(i) \cap S
      BY <2>1, <2>2, <2>4
    <3> QED
      BY <2>2, <2>4, <3>1, <3>2, <3>3 DEF AmongStep
  <2>5. CASE s[i] \notin S
    <3>1. ToSet(t) = upTo(i) \cap S
      BY <2>1, <2>2, <2>5
    <3>2. Len(t) <= i
      BY <1>1, <2>1
    <3> QED
      BY <2>1, <2>2, <2>5, <3>1, <3>2 DEF AmongStep
  <2> QED
    BY <2>4, <2>5
<1> HIDE DEF I
<1>4. << Len(s), Sieving!Run(S, << >>, s) >> \in I
  BY <1>1, <1>2, <1>3, Sieving!RunKeeps
<1>5. Sieving!Run(S, << >>, s) = Among(s, S)
  BY Zenon DEF Sieving!Run, Among, AmongStep, FoldLeft, Sieving!FoldLeft, MapThenFoldSet,
               Sieving!MapThenFoldSet, Max, Sieving!Max
<1>6. upTo(Len(s)) = ToSet(s)
  BY <1>1 DEF ToSet
<1> QED
  BY <1>4, <1>5, <1>6 DEF I

-----------------------------------------------------------------------------
(* What is kept.                                                            *)

Tables(A, S) == UNION { [D -> S] : D \in SUBSET A }

Pools == [free: [Lods -> Seq(MeshSlots)],
          retiring: Tables(MeshSlots, 1 .. RetireTicks)]
Residencies == Tables(Chunks, Residents)
Bindings == Tables(ColliderHandles, Fine)

FreeSlots(p) == ToSet(p.free[0]) \cup ToSet(p.free[1])
Held(res) == { res[c].slot : c \in DOMAIN res }

ListsKept(p) ==
  \A l \in Lods : IsInjective(p.free[l]) /\ \A s \in ToSet(p.free[l]) : s[1] = l

(* A slot is free, in the list of its LOD, or retiring, or one chunk's.     *)
SlotsKept(p, res) ==
  /\ ListsKept(p)
  /\ \A c, d \in DOMAIN res : res[c].slot = res[d].slot => c = d
  /\ FreeSlots(p) \cap DOMAIN p.retiring = {}
  /\ FreeSlots(p) \cap Held(res) = {}
  /\ DOMAIN p.retiring \cap Held(res) = {}
  /\ MeshSlots = FreeSlots(p) \cup DOMAIN p.retiring \cup Held(res)

(* A collider is free or bound for the fine chunk that has its handle.      *)
CollidersKept(f) ==
  IF physics
  THEN /\ IsInjective(f.colliders)
       /\ ToSet(f.colliders) \cap DOMAIN f.bound = {}
       /\ ToSet(f.colliders) \cup DOMAIN f.bound = ColliderHandles
       /\ \A h \in DOMAIN f.bound : /\ f.bound[h] \in DOMAIN f.resident
                                    /\ f.resident[f.bound[h]].collider = h
       /\ \A c \in DOMAIN f.resident :
            f.resident[c].collider # NoCollider =>
              /\ f.resident[c].collider \in DOMAIN f.bound
              /\ f.bound[f.resident[c].collider] = c
  ELSE \A c \in DOMAIN f.resident : f.resident[c].collider = NoCollider

(* What was asked for and has not come is with the streamer, each once.     *)
JobsKept ==
  /\ pending \in Seq(Chunks) /\ IsInjective(pending) /\ Len(pending) <= MaxGenerations
  /\ generated \subseteq ToSet(pending)
  /\ requested = ToSet(pending)
  /\ requested \cap DOMAIN resident = {}

Stored == [pool |-> pool, resident |-> resident, colliders |-> colliders, bound |-> bound]

TerrainInv ==
  /\ updated \in BOOLEAN /\ desired \in SUBSET Chunks /\ physics \in BOOLEAN
  /\ failures \in 0 .. MaxFailures
  /\ pool \in Pools /\ resident \in Residencies
  /\ colliders \in Seq(ColliderHandles) /\ bound \in Bindings
  /\ JobsKept
  /\ SlotsKept(pool, resident)
  /\ CollidersKept(Stored)

-----------------------------------------------------------------------------
(* Slots and tables.                                                        *)

LEMMA PutIn ==
  ASSUME NEW A, NEW S, NEW f \in Tables(A, S), NEW x \in A, NEW y \in S
  PROVE  With(f, x, y) \in Tables(A, S)
<1>1. DOMAIN f \in SUBSET A /\ \A z \in DOMAIN f : f[z] \in S
  BY DEF Tables
<1>2. With(f, x, y) \in [DOMAIN f \cup {x} -> S]
  BY <1>1 DEF With
<1>3. DOMAIN f \cup {x} \in SUBSET A
  BY <1>1
<1> QED
  BY <1>2, <1>3 DEF Tables

LEMMA TakenOut ==
  ASSUME NEW A, NEW S, NEW f \in Tables(A, S), NEW xs
  PROVE  /\ Without(f, xs) \in Tables(A, S)
         /\ DOMAIN Without(f, xs) = DOMAIN f \ xs
         /\ \A z \in DOMAIN f \ xs : Without(f, xs)[z] = f[z]
<1>1. DOMAIN f \in SUBSET A /\ \A z \in DOMAIN f : f[z] \in S
  BY DEF Tables
<1>2. Without(f, xs) \in [DOMAIN f \ xs -> S]
  BY <1>1 DEF Without
<1>3. DOMAIN f \ xs \in SUBSET A
  BY <1>1
<1> QED
  BY <1>2, <1>3 DEF Without, Tables

LEMMA PoolsAre ==
  ASSUME NEW p \in Pools
  PROVE  /\ p = [free |-> p.free, retiring |-> p.retiring]
         /\ p.free \in [Lods -> Seq(MeshSlots)]
         /\ p.retiring \in Tables(MeshSlots, 1 .. RetireTicks)
BY DEF Pools

LEMMA SlotAcquired ==
  ASSUME NEW p \in Pools, ListsKept(p), NEW l \in Lods, p.free[l] # << >>
  PROVE  /\ Acquired(p, l) \in Pools /\ ListsKept(Acquired(p, l))
         /\ Acquired(p, l).retiring = p.retiring
         /\ Last(p.free[l]) \in MeshSlots /\ Last(p.free[l]) \in FreeSlots(p)
         /\ FreeSlots(Acquired(p, l)) = FreeSlots(p) \ {Last(p.free[l])}
<1> DEFINE q == Acquired(p, l)
           s == p.free[l]
<1>1. s \in Seq(MeshSlots) /\ IsInjective(s) /\ \A x \in ToSet(s) : x[1] = l
  BY PoolsAre DEF ListsKept
<1>2. /\ Last(s) \in MeshSlots /\ Last(s) \in ToSet(s)
      /\ Front(s) \in Seq(MeshSlots)
      /\ IsInjective(Front(s))
      /\ ToSet(Front(s)) = ToSet(s) \ {Last(s)}
  BY <1>1, LastTaken
<1>3. q = [free |-> [p.free EXCEPT ![l] = Front(s)], retiring |-> p.retiring]
  <2>1. PICK a, b : p = [free |-> a, retiring |-> b]
    BY PoolsAre
  <2> QED
    BY <2>1 DEF Acquired
<1>4. q \in Pools
  BY <1>2, <1>3, PoolsAre DEF Pools
<1>5. q.free[l] = Front(s) /\ \A k \in Lods : k # l => q.free[k] = p.free[k]
  BY <1>3, PoolsAre
<1>6. ListsKept(q)
  BY <1>1, <1>2, <1>5 DEF ListsKept
<1>7. \A k \in Lods : k # l => Last(s) \notin ToSet(p.free[k])
  BY <1>1, <1>2 DEF ListsKept
<1>8. FreeSlots(q) = FreeSlots(p) \ {Last(s)}
  <2>1. CASE l = 0
    BY <1>2, <1>5, <1>7, <2>1 DEF FreeSlots, Lods
  <2>2. CASE l = 1
    BY <1>2, <1>5, <1>7, <2>2 DEF FreeSlots, Lods
  <2> QED
    BY <2>1, <2>2 DEF Lods
<1>9. Last(s) \in FreeSlots(p)
  BY <1>2 DEF FreeSlots, Lods
<1> QED
  BY <1>2, <1>3, <1>4, <1>6, <1>8, <1>9

LEMMA SlotReleased ==
  ASSUME NEW p \in Pools, ListsKept(p), NEW slot \in MeshSlots
  PROVE  /\ ReleasedDeferred(p, slot) \in Pools /\ ListsKept(ReleasedDeferred(p, slot))
         /\ FreeSlots(ReleasedDeferred(p, slot)) = FreeSlots(p)
         /\ DOMAIN ReleasedDeferred(p, slot).retiring = DOMAIN p.retiring \cup {slot}
<1> DEFINE r == With(p.retiring, slot, RetireTicks)
<1>1. RetireTicks \in 1 .. RetireTicks
  BY TerrainAssumption
<1>2. /\ r \in Tables(MeshSlots, 1 .. RetireTicks)
      /\ DOMAIN r = DOMAIN p.retiring \cup {slot}
  <2>1. PICK f, n, T : f = p.retiring /\ n = RetireTicks /\ T = 1 .. RetireTicks
    OBVIOUS
  <2>2. f \in Tables(MeshSlots, T) /\ n \in T
    BY <1>1, <2>1, PoolsAre
  <2>3. With(f, slot, n) \in Tables(MeshSlots, T) /\ DOMAIN With(f, slot, n) = DOMAIN f \cup {slot}
    <3>1. PICK M : M = MeshSlots /\ slot \in M /\ f \in Tables(M, T)
      BY <2>2
    <3>2. With(f, slot, n) \in Tables(M, T)
      BY <2>2, <3>1, PutIn
    <3>3. DOMAIN With(f, slot, n) = DOMAIN f \cup {slot}
      BY DEF With
    <3> QED
      BY <3>1, <3>2, <3>3
  <2> QED
    BY <2>1, <2>3
<1>3. ReleasedDeferred(p, slot) = [free |-> p.free, retiring |-> r]
  BY PoolsAre DEF ReleasedDeferred
<1> HIDE DEF r
<1>4. PICK q : q = ReleasedDeferred(p, slot)
  OBVIOUS
<1>5. q.free = p.free /\ q.retiring = r /\ q = [free |-> q.free, retiring |-> q.retiring]
  BY <1>3, <1>4
<1>6. q \in Pools
  BY <1>2, <1>5, PoolsAre DEF Pools
<1> QED
  BY <1>2, <1>4, <1>5, <1>6 DEF ListsKept, FreeSlots

LEMMA SlotsTicked ==
  ASSUME NEW p \in Pools, ListsKept(p), FreeSlots(p) \cap DOMAIN p.retiring = {}
  PROVE  /\ PoolTicked(p) \in Pools /\ ListsKept(PoolTicked(p))
         /\ DOMAIN PoolTicked(p).retiring \subseteq DOMAIN p.retiring
         /\ FreeSlots(PoolTicked(p)) =
              FreeSlots(p) \cup (DOMAIN p.retiring \ DOMAIN PoolTicked(p).retiring)
<1> DEFINE q == PoolTicked(p)
           R == DOMAIN p.retiring
           left == [s \in R |-> p.retiring[s] - 1]
           over == { s \in R : left[s] = 0 }
           due(l) == { s \in over : s[1] = l }
<1>1. R \in SUBSET MeshSlots /\ \A s \in R : p.retiring[s] \in 1 .. RetireTicks
  BY PoolsAre DEF Tables
<1>2. IsFiniteSet(MeshSlots)
  <2>1. IsFiniteSet(1 .. SlotsPerLod) /\ IsFiniteSet(Lods)
    <3>1. 0 \in Int /\ 1 \in Int /\ SlotsPerLod \in Int /\ Lods = 0 .. 1
      BY TerrainAssumption DEF Lods
    <3> QED
      BY <3>1, FS_Interval
  <2> QED
    BY <2>1, FS_Product DEF MeshSlots
<1>3. ASSUME NEW l \in Lods
      PROVE  /\ SetToSeq(due(l)) \in Seq(MeshSlots) /\ IsInjective(SetToSeq(due(l)))
             /\ ToSet(SetToSeq(due(l))) = due(l)
  <2>1. due(l) \in SUBSET MeshSlots
    BY <1>1
  <2>2. IsFiniteSet(due(l))
    BY <1>2, <2>1, FS_Subset
  <2> HIDE DEF due
  <2>3. SetToSeq(due(l)) \in Orders(due(l))
    BY <2>2, Listed
  <2>4. /\ SetToSeq(due(l)) \in Seq(due(l)) /\ IsInjective(SetToSeq(due(l)))
        /\ ToSet(SetToSeq(due(l))) = due(l)
    BY <2>2, <2>3, Ordered
  <2> QED
    BY <2>1, <2>4
<1>4. /\ q.free = [l \in Lods |-> p.free[l] \o SetToSeq(due(l))]
      /\ q.retiring = Without(left, over)
      /\ q = [free |-> q.free, retiring |-> q.retiring]
  BY DEF PoolTicked
<1>5. /\ q.retiring \in Tables(MeshSlots, 1 .. RetireTicks)
      /\ DOMAIN q.retiring = R \ over
  <2>1. \A s \in R \ over : p.retiring[s] - 1 \in 1 .. RetireTicks
    BY <1>1, TerrainAssumption
  <2>2. q.retiring = [s \in R \ over |-> p.retiring[s] - 1]
    BY <1>4 DEF Without
  <2>3. q.retiring \in [R \ over -> 1 .. RetireTicks]
    BY <2>1, <2>2
  <2>4. R \ over \in SUBSET MeshSlots
    BY <1>1
  <2> HIDE DEF over, R, q
  <2> QED
    BY <2>3, <2>4 DEF Tables
<1>6. ASSUME NEW l \in Lods
      PROVE  /\ q.free[l] \in Seq(MeshSlots) /\ IsInjective(q.free[l])
             /\ ToSet(q.free[l]) = ToSet(p.free[l]) \cup due(l)
  <2>1. p.free[l] \in Seq(MeshSlots) /\ IsInjective(p.free[l])
    BY PoolsAre DEF ListsKept
  <2>2. ToSet(p.free[l]) \subseteq FreeSlots(p)
    BY DEF FreeSlots, Lods
  <2>3. ToSet(p.free[l]) \cap due(l) = {}
    BY <2>2
  <2>4. PICK f, t : f = p.free[l] /\ t = SetToSeq(due(l))
    OBVIOUS
  <2>5. q.free[l] = f \o t
    BY <1>4, <2>4
  <2>6. t \in Seq(MeshSlots) /\ IsInjective(t) /\ ToSet(t) = due(l)
    BY <1>3, <2>4
  <2> HIDE DEF due, q
  <2> QED
    BY <2>1, <2>3, <2>4, <2>5, <2>6, Joined
<1>7. q \in Pools
  <2>1. q.free \in [Lods -> Seq(MeshSlots)]
    <3>1. q.free = [l \in Lods |-> q.free[l]]
      BY <1>4
    <3> HIDE DEF q
    <3> QED
      BY <1>6, <3>1
  <2> HIDE DEF q
  <2> QED
    BY <1>4, <1>5, <2>1 DEF Pools
<1>8. ListsKept(q)
  <2>1. \A l \in Lods : \A s \in due(l) : s[1] = l
    OBVIOUS
  <2> HIDE DEF due, q
  <2> QED
    BY <1>6, <2>1 DEF ListsKept
<1>9. over = due(0) \cup due(1)
  BY <1>1 DEF MeshSlots, Lods
<1>10. FreeSlots(q) = FreeSlots(p) \cup over
  <2> HIDE DEF due, q, over
  <2> QED
    BY <1>6, <1>9 DEF FreeSlots, Lods
<1>11. R \ (R \ over) = over
  OBVIOUS
<1> QED
  BY <1>5, <1>7, <1>8, <1>10, <1>11

-----------------------------------------------------------------------------
(* The steps of process_ready()'s loops.                                    *)

Frames == [pool: Pools, resident: Residencies, colliders: Seq(ColliderHandles),
           bound: Bindings, uploads: Nat, failures: Nat]

Sound(f) == SlotsKept(f.pool, f.resident) /\ CollidersKept(f)

LEMMA FramesAre ==
  ASSUME NEW f \in Frames
  PROVE  /\ f = [pool |-> f.pool, resident |-> f.resident, colliders |-> f.colliders,
                 bound |-> f.bound, uploads |-> f.uploads, failures |-> f.failures]
         /\ f.pool \in Pools /\ f.resident \in Residencies /\ f.colliders \in Seq(ColliderHandles)
         /\ f.bound \in Bindings /\ f.uploads \in Nat /\ f.failures \in Nat
BY DEF Frames

LEMMA ResidenciesAre ==
  ASSUME NEW res \in Residencies
  PROVE  /\ DOMAIN res \in SUBSET Chunks /\ Held(res) \in SUBSET MeshSlots
         /\ \A c \in DOMAIN res : /\ res[c] \in Residents /\ res[c].slot \in MeshSlots
                                  /\ res[c].slot \in Held(res)
BY DEF Residencies, Tables, Held, Residents

LEMMA MadeResident ==
  ASSUME NEW res \in Residencies, NEW c \in Chunks \ DOMAIN res, NEW slot \in MeshSlots,
         NEW new, new = With(res, c, [slot |-> slot, collider |-> NoCollider, undesired |-> 0])
  PROVE  /\ new \in Residencies
         /\ DOMAIN new = DOMAIN res \cup {c}
         /\ new[c] = [slot |-> slot, collider |-> NoCollider, undesired |-> 0]
         /\ \A d \in DOMAIN res : d # c /\ new[d] = res[d]
         /\ Held(new) = Held(res) \cup {slot}
<1> DEFINE r == [slot |-> slot, collider |-> NoCollider, undesired |-> 0]
<1>1. r \in Residents
  BY TerrainAssumption DEF Residents, NoCollider
<1>2. PICK x : x = r
  OBVIOUS
<1>3. x \in Residents /\ res \in Tables(Chunks, Residents) /\ x.slot = slot /\ c \in Chunks
  BY <1>1, <1>2 DEF Residencies
<1>4. With(res, c, x) \in Tables(Chunks, Residents)
  BY <1>3, PutIn
<1>5. DOMAIN With(res, c, x) = DOMAIN res \cup {c}
  BY DEF With
<1>6. With(res, c, x)[c] = x
  BY DEF With
<1>7. \A d \in DOMAIN res : d # c /\ With(res, c, x)[d] = res[d]
  BY DEF With
<1>8. Held(With(res, c, x)) = Held(res) \cup {slot}
  BY <1>3, <1>5, <1>6, <1>7 DEF Held
<1> QED
  BY <1>2, <1>4, <1>5, <1>6, <1>7, <1>8 DEF Residencies

LEMMA UploadedKeeps ==
  ASSUME NEW f \in Frames, Sound(f), NEW c \in Chunks \ DOMAIN f.resident, NEW failing
  PROVE  /\ Uploaded(f, c, failing) \in Frames /\ Sound(Uploaded(f, c, failing))
         /\ DOMAIN Uploaded(f, c, failing).resident \subseteq DOMAIN f.resident \cup {c}
<1> DEFINE l == Lod(c)
           g == Uploaded(f, c, failing)
<1>1. l \in Lods
  BY DEF Lod, Lods
<1>2. CASE f.uploads >= MaxUploads \/ f.pool.free[l] = << >>
  BY <1>2 DEF Uploaded
<1>3. ASSUME ~ (f.uploads >= MaxUploads \/ f.pool.free[l] = << >>)
      PROVE  /\ g \in Frames /\ Sound(g)
             /\ DOMAIN g.resident \subseteq DOMAIN f.resident \cup {c}
  <2>1. PICK p, res, slot, q :
          /\ p = f.pool /\ res = f.resident /\ slot = Last(f.pool.free[l])
          /\ q = Acquired(f.pool, l)
    OBVIOUS
  <2>2. p \in Pools /\ res \in Residencies /\ ListsKept(p) /\ p.free[l] # << >> /\ slot = Last(p.free[l])
        /\ q = Acquired(p, l) /\ SlotsKept(p, res) /\ c \in Chunks \ DOMAIN res
    BY <1>3, <2>1, FramesAre DEF Sound, SlotsKept
  <2>3. /\ q \in Pools /\ ListsKept(q) /\ q.retiring = p.retiring
        /\ slot \in MeshSlots /\ slot \in FreeSlots(p)
        /\ FreeSlots(q) = FreeSlots(p) \ {slot}
    BY <1>1, <2>2, SlotAcquired
  <2>4. slot \notin DOMAIN p.retiring /\ slot \notin Held(res)
    BY <2>2, <2>3 DEF SlotsKept
  <2>5. CASE c \in failing
    <3>1. PICK r : r = ReleasedDeferred(q, slot)
      OBVIOUS
    <3>2. /\ r \in Pools /\ ListsKept(r) /\ FreeSlots(r) = FreeSlots(q)
          /\ DOMAIN r.retiring = DOMAIN q.retiring \cup {slot}
      BY <2>3, <3>1, SlotReleased
    <3>3. g = [f EXCEPT !.pool = r, !.failures = @ + 1]
      BY <1>3, <2>1, <2>5, <3>1, FramesAre DEF Uploaded
    <3>4. /\ g.pool = r /\ g.resident = res /\ g.colliders = f.colliders /\ g.bound = f.bound
          /\ g \in Frames
      <4>1. g = [pool |-> r, resident |-> res, colliders |-> f.colliders, bound |-> f.bound,
                 uploads |-> f.uploads, failures |-> f.failures + 1]
        BY <2>1, <3>3, FramesAre
      <4> HIDE DEF g
      <4> QED
        BY <2>2, <3>2, <4>1, FramesAre DEF Frames
    <3>5. SlotsKept(r, res)
      BY <2>2, <2>3, <2>4, <3>2 DEF SlotsKept
    <3>6. CollidersKept(g)
      BY <2>1, <3>4 DEF Sound, CollidersKept
    <3> QED
      BY <2>1, <3>4, <3>5, <3>6 DEF Sound
  <2>6. CASE c \notin failing
    <3>1. PICK new : new = With(res, c, [slot |-> slot, collider |-> NoCollider, undesired |-> 0])
      OBVIOUS
    <3>2. /\ new \in Residencies
          /\ DOMAIN new = DOMAIN res \cup {c}
          /\ new[c] = [slot |-> slot, collider |-> NoCollider, undesired |-> 0]
          /\ \A d \in DOMAIN res : d # c /\ new[d] = res[d]
          /\ Held(new) = Held(res) \cup {slot}
      <4>1. c \in Chunks \ DOMAIN res /\ slot \in MeshSlots /\ res \in Residencies
        BY <2>2, <2>3
      <4> QED
        BY <3>1, <4>1, MadeResident
    <3>3. g = [f EXCEPT !.pool = q, !.uploads = @ + 1, !.resident = new]
      BY <1>3, <2>1, <2>6, <3>1, FramesAre DEF Uploaded
    <3>4. /\ g.pool = q /\ g.resident = new /\ g.colliders = f.colliders /\ g.bound = f.bound
          /\ g \in Frames
      <4>1. g = [pool |-> q, resident |-> new, colliders |-> f.colliders, bound |-> f.bound,
                 uploads |-> f.uploads + 1, failures |-> f.failures]
        BY <3>3, FramesAre
      <4> HIDE DEF g
      <4> QED
        BY <2>3, <3>2, <4>1, FramesAre DEF Frames
    <3>5. SlotsKept(q, new)
      <4>1. \A d, e \in DOMAIN new : new[d].slot = new[e].slot => d = e
        <5>1. \A d \in DOMAIN res : new[d].slot \in Held(res)
          BY <3>2 DEF Held
        <5>2. new[c].slot = slot
          BY <3>2
        <5> QED
          BY <2>2, <2>4, <3>2, <5>1, <5>2 DEF SlotsKept
      <4> QED
        BY <2>2, <2>3, <2>4, <3>2, <4>1 DEF SlotsKept
    <3>6. CollidersKept(g)
      <4>1. CollidersKept(f) /\ new[c].collider = NoCollider
        BY <3>2 DEF Sound
      <4>2. CASE physics
        <5>1. \A d \in DOMAIN new :
                new[d].collider # NoCollider =>
                  /\ new[d].collider \in DOMAIN f.bound
                  /\ f.bound[new[d].collider] = d
          BY <2>1, <3>2, <4>1, <4>2 DEF CollidersKept
        <5>2. \A h \in DOMAIN f.bound : /\ f.bound[h] \in DOMAIN new
                                        /\ new[f.bound[h]].collider = h
          BY <2>1, <3>2, <4>1, <4>2 DEF CollidersKept
        <5> QED
          BY <3>4, <4>1, <4>2, <5>1, <5>2 DEF CollidersKept
      <4>3. CASE ~ physics
        BY <2>1, <3>2, <3>4, <4>1, <4>3 DEF CollidersKept
      <4> QED
        BY <4>2, <4>3
    <3> QED
      BY <2>1, <3>2, <3>4, <3>5, <3>6 DEF Sound
  <2> QED
    BY <2>5, <2>6
<1> QED
  BY <1>2, <1>3

UploadStep(failing, f, c) == Uploaded(f, c, failing)
Uploading == INSTANCE FoldFacts WITH Step <- UploadStep

LEMMA UploadsKeep ==
  ASSUME NEW start \in Frames, Sound(start), NEW ready \in Seq(Chunks), IsInjective(ready),
         ToSet(ready) \cap DOMAIN start.resident = {}, NEW failing
  PROVE  LET end == UploadedAll(start, ready, failing) IN
           /\ end \in Frames /\ Sound(end)
           /\ DOMAIN end.resident \subseteq DOMAIN start.resident \cup ToSet(ready)
<1> DEFINE n == Len(ready)
           later(i) == { ready[j] : j \in i + 1 .. n }
           I == { x \in (0 .. n) \X Frames :
                    /\ Sound(x[2])
                    /\ DOMAIN x[2].resident \subseteq (DOMAIN start.resident \cup ToSet(ready)) \ later(x[1]) }
<1>1. n \in Nat /\ DOMAIN ready = 1 .. n /\ \A i \in 1 .. n : ready[i] \in Chunks /\ ready[i] \in ToSet(ready)
  BY DEF ToSet
<1>2. << 0, start >> \in I
  <2>1. later(0) \subseteq ToSet(ready) /\ 0 \in 0 .. n
    BY <1>1
  <2> HIDE DEF later
  <2> QED
    BY <1>1, <2>1
<1>3. ASSUME NEW i \in 1 .. n, NEW f, << i - 1, f >> \in I
      PROVE  << i, UploadStep(failing, f, ready[i]) >> \in I
  <2>1. /\ f \in Frames /\ Sound(f)
        /\ DOMAIN f.resident \subseteq (DOMAIN start.resident \cup ToSet(ready)) \ later(i - 1)
    BY <1>3
  <2>2. ready[i] \in later(i - 1)
    <3>1. (i - 1) + 1 = i /\ i \in i .. n
      BY <1>1
    <3> QED
      BY <3>1
  <2>3. later(i) \subseteq later(i - 1)
    <3>1. i + 1 .. n \subseteq (i - 1) + 1 .. n
      BY <1>1
    <3> QED
      BY <3>1
  <2>4. ready[i] \notin later(i)
    <3>1. \A j \in i + 1 .. n : j \in 1 .. n /\ j # i
      BY <1>1
    <3> QED
      BY <1>1, <3>1 DEF IsInjective
  <2> HIDE DEF later
  <2>5. ready[i] \in Chunks \ DOMAIN f.resident /\ ready[i] \in ToSet(ready) /\ i \in 0 .. n
    BY <1>1, <2>1, <2>2
  <2>6. PICK g : g = Uploaded(f, ready[i], failing)
    OBVIOUS
  <2>7. g \in Frames /\ Sound(g) /\ DOMAIN g.resident \subseteq DOMAIN f.resident \cup {ready[i]}
    BY <2>1, <2>5, <2>6, UploadedKeeps
  <2>8. DOMAIN g.resident \subseteq (DOMAIN start.resident \cup ToSet(ready)) \ later(i)
    BY <2>1, <2>3, <2>4, <2>5, <2>7
  <2> QED
    BY <2>5, <2>6, <2>7, <2>8 DEF UploadStep
<1> HIDE DEF I
<1>4. << n, Uploading!Run(failing, start, ready) >> \in I
  BY <1>1, <1>2, <1>3, Uploading!RunKeeps
<1>5. Uploading!Run(failing, start, ready) = UploadedAll(start, ready, failing)
  BY Zenon DEF UploadedAll, Uploading!Run, UploadStep, FoldLeft, Uploading!FoldLeft, MapThenFoldSet,
               Uploading!MapThenFoldSet, Max, Uploading!Max
<1> QED
  BY <1>4, <1>5 DEF I

(* A chunk that wants one gets the last free collider.                      *)
BindStep(p, f, c) ==
  [f EXCEPT !.resident[c].collider = Last(f.colliders),
            !.bound = With(@, Last(f.colliders), c),
            !.colliders = Front(@)]
Binding == INSTANCE FoldFacts WITH Step <- BindStep

LEMMA BindKeeps ==
  ASSUME physics, NEW f \in Frames, Sound(f), NEW c \in WantCollider(f), f.colliders # << >>,
         NEW p, NEW g, g = BindStep(p, f, c)
  PROVE  /\ g \in Frames /\ Sound(g)
         /\ DOMAIN g.resident = DOMAIN f.resident
         /\ Len(g.colliders) = Len(f.colliders) - 1
         /\ \A d \in DOMAIN f.resident : d # c => g.resident[d] = f.resident[d]
<1>1. c \in DOMAIN f.resident /\ c \in Fine /\ f.resident[c].collider = NoCollider
  BY DEF WantCollider
<1>2. PICK cs, h, res, new, b, bb :
        /\ cs = f.colliders /\ h = Last(cs) /\ res = f.resident /\ b = f.bound
        /\ new = [res EXCEPT ![c].collider = h] /\ bb = With(b, h, c)
  OBVIOUS
<1>3. g = [pool |-> f.pool, resident |-> new, colliders |-> Front(cs), bound |-> bb,
           uploads |-> f.uploads, failures |-> f.failures]
  <2>1. PICK u, v, w, x, y, z :
          f = [pool |-> u, resident |-> v, colliders |-> w, bound |-> x, uploads |-> y, failures |-> z]
    BY FramesAre
  <2> QED
    BY <1>2, <2>1 DEF BindStep
<1>4. /\ cs \in Seq(ColliderHandles) /\ IsInjective(cs) /\ cs # << >>
      /\ ToSet(cs) \cap DOMAIN b = {} /\ ToSet(cs) \cup DOMAIN b = ColliderHandles
      /\ res \in Residencies /\ b \in Bindings
  BY <1>2, FramesAre DEF Sound, CollidersKept
<1>5. /\ h \in ColliderHandles /\ h \in ToSet(cs) /\ Front(cs) \in Seq(ColliderHandles)
      /\ Len(Front(cs)) = Len(cs) - 1 /\ IsInjective(Front(cs))
      /\ ToSet(Front(cs)) = ToSet(cs) \ {h}
  BY <1>2, <1>4, LastTaken
<1>6. h # NoCollider
  BY <1>5, TerrainAssumption DEF ColliderHandles, NoCollider
<1>7. /\ new \in Residencies /\ DOMAIN new = DOMAIN res
      /\ \A d \in DOMAIN res : new[d].slot = res[d].slot
      /\ new[c].collider = h
      /\ \A d \in DOMAIN res : d # c => new[d] = res[d]
  <2>1. PICK r : r = [res[c] EXCEPT !.collider = h]
    OBVIOUS
  <2>2. r \in Residents /\ r.slot = res[c].slot /\ r.collider = h
    BY <1>1, <1>2, <1>4, <1>5, <2>1, ResidenciesAre DEF Residents
  <2>3. new = [res EXCEPT ![c] = r]
    BY <1>2, <2>1
  <2> QED
    BY <1>1, <1>2, <1>4, <2>2, <2>3 DEF Residencies, Tables
<1>8. bb \in Bindings /\ DOMAIN bb = DOMAIN b \cup {h} /\ bb[h] = c /\ \A k \in DOMAIN b : k # h => bb[k] = b[k]
  <2>1. bb \in Tables(ColliderHandles, Fine)
    BY <1>1, <1>2, <1>4, <1>5, PutIn DEF Bindings
  <2> QED
    BY <1>2, <2>1 DEF Bindings, With
<1>9. /\ g.pool = f.pool /\ g.resident = new /\ g.colliders = Front(cs) /\ g.bound = bb
      /\ g \in Frames
  BY <1>3, <1>5, <1>7, <1>8, FramesAre DEF Frames
<1>10. SlotsKept(g.pool, g.resident)
  <2>1. Held(new) = Held(res)
    BY <1>7 DEF Held
  <2> QED
    BY <1>2, <1>7, <1>9, <2>1 DEF Sound, SlotsKept
<1>11. CollidersKept(g)
  <2>1. /\ \A k \in DOMAIN b : b[k] \in DOMAIN res /\ res[b[k]].collider = k
        /\ \A d \in DOMAIN res : res[d].collider # NoCollider =>
             res[d].collider \in DOMAIN b /\ b[res[d].collider] = d
    BY <1>2 DEF Sound, CollidersKept
  <2>2. \A k \in DOMAIN bb : bb[k] \in DOMAIN new /\ new[bb[k]].collider = k
    <3>1. \A k \in DOMAIN b : k # NoCollider
      BY <1>4, TerrainAssumption DEF ColliderHandles, NoCollider
    <3>2. \A k \in DOMAIN b : b[k] # c
      BY <1>1, <1>2, <2>1, <3>1
    <3> QED
      BY <1>1, <1>2, <1>7, <1>8, <2>1, <3>2
  <2>3. \A d \in DOMAIN new : new[d].collider # NoCollider =>
             new[d].collider \in DOMAIN bb /\ bb[new[d].collider] = d
    <3>1. h \notin DOMAIN b
      BY <1>4, <1>5
    <3> QED
      BY <1>7, <1>8, <2>1, <3>1
  <2>4. /\ ToSet(Front(cs)) \cap DOMAIN bb = {}
        /\ ToSet(Front(cs)) \cup DOMAIN bb = ColliderHandles
    BY <1>4, <1>5, <1>8
  <2> QED
    BY <1>5, <1>9, <2>2, <2>3, <2>4 DEF CollidersKept
<1> QED
  BY <1>2, <1>5, <1>7, <1>9, <1>10, <1>11 DEF Sound

LEMMA BoundKeeps ==
  ASSUME physics, NEW start \in Frames, Sound(start), NEW chosen \in SUBSET WantCollider(start),
         IsFiniteSet(chosen), Cardinality(chosen) <= Len(start.colliders),
         NEW order \in Orders(chosen)
  PROVE  /\ Bound(start, order) \in Frames /\ Sound(Bound(start, order))
         /\ DOMAIN Bound(start, order).resident = DOMAIN start.resident
<1> DEFINE n == Len(order)
           left(i, f) == \A j \in i + 1 .. n : order[j] \in WantCollider(f)
           I == { x \in (0 .. n) \X Frames :
                    /\ Sound(x[2]) /\ DOMAIN x[2].resident = DOMAIN start.resident
                    /\ Len(x[2].colliders) = Len(start.colliders) - x[1]
                    /\ left(x[1], x[2]) }
<1>1. /\ order \in Seq(chosen) /\ n = Cardinality(chosen) /\ IsInjective(order)
      /\ n \in Nat /\ DOMAIN order = 1 .. n /\ \A i \in 1 .. n : order[i] \in chosen
  <2>1. order \in Seq(chosen) /\ n = Cardinality(chosen) /\ IsInjective(order)
    BY Ordered
  <2> QED
    BY <2>1
<1>2. Len(start.colliders) \in Nat /\ n <= Len(start.colliders)
  BY <1>1, FramesAre
<1>3. << 0, start >> \in I
  <2>1. left(0, start) /\ 0 \in 0 .. n /\ Len(start.colliders) = Len(start.colliders) - 0
    BY <1>1, <1>2
  <2> HIDE DEF left
  <2> QED
    BY <2>1
<1>4. ASSUME NEW i \in 1 .. n, NEW f, << i - 1, f >> \in I
      PROVE  << i, BindStep(0, f, order[i]) >> \in I
  <2>1. /\ f \in Frames /\ Sound(f) /\ DOMAIN f.resident = DOMAIN start.resident
        /\ Len(f.colliders) = Len(start.colliders) - (i - 1)
        /\ left(i - 1, f)
    BY <1>4
  <2>2. order[i] \in WantCollider(f)
    <3>1. i \in (i - 1) + 1 .. n
      BY <1>1
    <3> QED
      BY <2>1, <3>1
  <2>3. f.colliders # << >>
    <3>1. Len(f.colliders) > 0
      BY <1>1, <1>2, <2>1
    <3> QED
      BY <3>1
  <2>4. PICK g : g = BindStep(0, f, order[i])
    OBVIOUS
  <2>5. /\ g \in Frames /\ Sound(g) /\ DOMAIN g.resident = DOMAIN f.resident
        /\ Len(g.colliders) = Len(f.colliders) - 1
        /\ \A d \in DOMAIN f.resident : d # order[i] => g.resident[d] = f.resident[d]
    <3>1. PICK c : c = order[i]
      OBVIOUS
    <3>2. f \in Frames /\ Sound(f) /\ c \in WantCollider(f) /\ g = BindStep(0, f, c)
      BY <2>1, <2>2, <2>4, <3>1
    <3> HIDE DEF left
    <3>3. /\ g \in Frames /\ Sound(g) /\ DOMAIN g.resident = DOMAIN f.resident
          /\ Len(g.colliders) = Len(f.colliders) - 1
          /\ \A d \in DOMAIN f.resident : d # c => g.resident[d] = f.resident[d]
      BY <2>3, <3>2, BindKeeps
    <3> QED
      BY <3>1, <3>3
  <2>6. left(i, g)
    <3> SUFFICES ASSUME NEW j \in i + 1 .. n PROVE order[j] \in WantCollider(g)
      OBVIOUS
    <3>1. j \in (i - 1) + 1 .. n /\ j \in 1 .. n /\ j # i
      BY <1>1
    <3>2. order[j] \in WantCollider(f) /\ order[j] # order[i]
      BY <1>1, <2>1, <3>1 DEF IsInjective
    <3> QED
      BY <2>5, <3>2 DEF WantCollider
  <2>7. Len(g.colliders) = Len(start.colliders) - i /\ i \in 0 .. n
    BY <1>1, <1>2, <2>1, <2>5
  <2> HIDE DEF left
  <2> QED
    BY <2>1, <2>4, <2>5, <2>6, <2>7
<1> HIDE DEF I
<1>5. << n, Binding!Run(0, start, order) >> \in I
  BY <1>1, <1>3, <1>4, Binding!RunKeeps
<1>6. Binding!Run(0, start, order) = Bound(start, order)
  BY Zenon DEF Bound, Binding!Run, BindStep, FoldLeft, Binding!FoldLeft, MapThenFoldSet,
               Binding!MapThenFoldSet, Max, Binding!Max
<1> QED
  BY <1>5, <1>6 DEF I

(* What evict() takes away.                                                 *)
EvictStep(p, f, c) ==
  [Unbound(f, c) EXCEPT !.pool = ReleasedDeferred(@, f.resident[c].slot),
                        !.resident = Without(@, {c})]
Evicting == INSTANCE FoldFacts WITH Step <- EvictStep

(* What is left of the colliders when c gave its own back.                  *)
Freed(f, c, g, cs, b) ==
  /\ g = [pool |-> f.pool, resident |-> f.resident, colliders |-> cs,
          bound |-> b, uploads |-> f.uploads, failures |-> f.failures]
  /\ cs \in Seq(ColliderHandles) /\ b \in Bindings
  /\ physics =>
       /\ IsInjective(cs)
       /\ ToSet(cs) \cap DOMAIN b = {}
       /\ ToSet(cs) \cup DOMAIN b = ColliderHandles
       /\ \A h \in DOMAIN f.bound : f.bound[h] # c => h \in DOMAIN b
       /\ \A h \in DOMAIN b : h \in DOMAIN f.bound /\ b[h] = f.bound[h] /\ b[h] # c

LEMMA UnboundKeeps ==
  ASSUME NEW f \in Frames, Sound(f), NEW c \in DOMAIN f.resident, NEW g, g = Unbound(f, c)
  PROVE  \E cs, b : Freed(f, c, g, cs, b)
<1> DEFINE h == f.resident[c].collider
<1>1. PICK u, v, w, x, y, z :
          /\ f = [pool |-> u, resident |-> v, colliders |-> w, bound |-> x, uploads |-> y, failures |-> z]
          /\ w \in Seq(ColliderHandles) /\ x \in Bindings
  BY FramesAre
<1>2. CASE physics /\ h # NoCollider
  <2>1. g = [pool |-> u, resident |-> v, colliders |-> Append(w, h), bound |-> Without(x, {h}),
             uploads |-> y, failures |-> z]
    BY <1>1, <1>2 DEF Unbound
  <2>2. /\ h \in DOMAIN x /\ x[h] = c /\ IsInjective(w) /\ ToSet(w) \cap DOMAIN x = {}
        /\ ToSet(w) \cup DOMAIN x = ColliderHandles
        /\ \A k \in DOMAIN x : v[x[k]].collider = k
    BY <1>1, <1>2 DEF Sound, CollidersKept
  <2>3. h \in ColliderHandles /\ h \notin ToSet(w)
    BY <2>2
  <2>4. \A k \in DOMAIN x : x[k] = c => k = h
    BY <1>1, <2>2
  <2>5. PICK k, ww, xx : k = h /\ ww = Append(w, k) /\ xx = Without(x, {k})
    OBVIOUS
  <2> HIDE DEF h
  <2>6. ww \in Seq(ColliderHandles) /\ IsInjective(ww) /\ ToSet(ww) = ToSet(w) \cup {k}
    <3>1. k \in ColliderHandles /\ k \notin ToSet(w) /\ IsInjective(w) /\ w \in Seq(ColliderHandles)
      BY <1>1, <2>2, <2>3, <2>5
    <3> QED
      BY <2>5, <3>1, Appended
  <2>7. xx \in Bindings /\ DOMAIN xx = DOMAIN x \ {k} /\ \A j \in DOMAIN xx : xx[j] = x[j]
    <3>1. PICK A, S, ks : A = ColliderHandles /\ S = Fine /\ ks = {k}
      OBVIOUS
    <3>2. x \in Tables(A, S) /\ xx = Without(x, ks)
      BY <1>1, <2>5, <3>1 DEF Bindings
    <3>3. Without(x, ks) \in Tables(A, S)
      BY <3>2, TakenOut
    <3> QED
      BY <3>1, <3>2, <3>3 DEF Bindings, Without
  <2>8. g = [pool |-> f.pool, resident |-> f.resident, colliders |-> ww,
             bound |-> xx, uploads |-> f.uploads, failures |-> f.failures]
    BY <1>1, <2>1, <2>5
  <2>9. ToSet(ww) \cap DOMAIN xx = {} /\ ToSet(ww) \cup DOMAIN xx = ColliderHandles
    BY <2>2, <2>3, <2>5, <2>6, <2>7
  <2>10. \A j \in DOMAIN x : x[j] # c => j \in DOMAIN xx
    BY <2>2, <2>5, <2>7
  <2>11. \A j \in DOMAIN xx : j \in DOMAIN x /\ xx[j] = x[j] /\ xx[j] # c
    BY <2>4, <2>5, <2>7
  <2>12. f.bound = x
    BY <1>1
  <2>13. Freed(f, c, g, ww, xx)
    BY <2>6, <2>7, <2>8, <2>9, <2>10, <2>11, <2>12, Zenon DEF Freed
  <2> QED
    BY <2>13
<1>3. CASE ~ (physics /\ h # NoCollider)
  <2>1. g = f
    BY <1>3 DEF Unbound
  <2>2. physics => /\ IsInjective(w)
                   /\ ToSet(w) \cap DOMAIN x = {}
                   /\ ToSet(w) \cup DOMAIN x = ColliderHandles
                   /\ \A k \in DOMAIN x : x[k] # c
    <3>1. \A k \in ColliderHandles : k # NoCollider
      BY TerrainAssumption DEF ColliderHandles, NoCollider
    <3> QED
      BY <1>1, <1>3, <3>1 DEF Sound, CollidersKept
  <2>3. Freed(f, c, g, w, x)
    BY <1>1, <2>1, <2>2 DEF Freed
  <2> QED
    BY <2>3
<1> QED
  BY <1>2, <1>3

LEMMA EvictKeeps ==
  ASSUME NEW f \in Frames, Sound(f), NEW c \in DOMAIN f.resident, NEW p, NEW g, g = EvictStep(p, f, c)
  PROVE  g \in Frames /\ Sound(g) /\ DOMAIN g.resident = DOMAIN f.resident \ {c}
<1>1. PICK u, pl, res, s, q, new :
        /\ u = Unbound(f, c) /\ pl = f.pool /\ res = f.resident /\ s = res[c].slot
        /\ q = ReleasedDeferred(pl, s) /\ new = Without(res, {c})
  OBVIOUS
<1>2. PICK cs, b : Freed(f, c, u, cs, b)
  BY <1>1, UnboundKeeps
<1>3. physics =>
       /\ IsInjective(cs)
       /\ ToSet(cs) \cap DOMAIN b = {}
       /\ ToSet(cs) \cup DOMAIN b = ColliderHandles
       /\ \A h \in DOMAIN f.bound : f.bound[h] # c => h \in DOMAIN b
       /\ \A h \in DOMAIN b : h \in DOMAIN f.bound /\ b[h] = f.bound[h] /\ b[h] # c
  BY <1>2 DEF Freed
<1>4. pl \in Pools /\ res \in Residencies /\ ListsKept(pl) /\ s \in MeshSlots /\ s \in Held(res) /\ c \in DOMAIN res
      /\ SlotsKept(pl, res)
  BY <1>1, FramesAre, ResidenciesAre DEF Sound, SlotsKept
<1>5. /\ q \in Pools /\ ListsKept(q) /\ FreeSlots(q) = FreeSlots(pl)
      /\ DOMAIN q.retiring = DOMAIN pl.retiring \cup {s}
  BY <1>1, <1>4, SlotReleased
<1>6. /\ new \in Residencies /\ DOMAIN new = DOMAIN res \ {c}
      /\ \A d \in DOMAIN new : new[d] = res[d]
  <2>1. PICK A, S, ks : A = Chunks /\ S = Residents /\ ks = {c}
    OBVIOUS
  <2>2. res \in Tables(A, S) /\ new = Without(res, ks)
    BY <1>1, <1>4, <2>1 DEF Residencies
  <2>3. Without(res, ks) \in Tables(A, S)
    BY <2>2, TakenOut
  <2> QED
    BY <2>1, <2>2, <2>3 DEF Residencies, Without
<1>7. g = [pool |-> q, resident |-> new, colliders |-> cs,
           bound |-> b, uploads |-> f.uploads, failures |-> f.failures]
  <2>1. u = [pool |-> pl, resident |-> res, colliders |-> cs, bound |-> b, uploads |-> f.uploads,
             failures |-> f.failures]
    BY <1>1, <1>2 DEF Freed
  <2>2. g = [u EXCEPT !.pool = ReleasedDeferred(@, s), !.resident = Without(@, {c})]
    BY <1>1 DEF EvictStep
  <2>3. g = [u EXCEPT !.pool = q, !.resident = new]
    BY <1>1, <2>1, <2>2
  <2> QED
    BY <2>1, <2>3
<1>8. /\ g.pool = q /\ g.resident = new /\ g.colliders = cs /\ g.bound = b
      /\ g \in Frames
  <2>1. cs \in Seq(ColliderHandles) /\ b \in Bindings
    BY <1>2 DEF Freed
  <2> QED
    BY <2>1, <1>5, <1>6, <1>7, FramesAre DEF Frames
<1>9. SlotsKept(q, new)
  <2>1. \A d, e \in DOMAIN res : res[d].slot = res[e].slot => d = e
    BY <1>4 DEF SlotsKept
  <2>2. Held(new) = Held(res) \ {s}
    <3>1. \A d \in DOMAIN new : d \in DOMAIN res /\ new[d].slot = res[d].slot /\ res[d].slot # s
      BY <1>1, <1>4, <1>6, <2>1
    <3>2. \A d \in DOMAIN res : res[d].slot # s => d \in DOMAIN new
      BY <1>1, <1>6
    <3>3. Held(new) \subseteq Held(res) \ {s}
      BY <3>1 DEF Held
    <3>4. Held(res) \ {s} \subseteq Held(new)
      BY <3>1, <3>2 DEF Held
    <3> QED
      BY <3>3, <3>4
  <2>3. \A d, e \in DOMAIN new : new[d].slot = new[e].slot => d = e
    BY <1>6, <2>1
  <2> QED
    BY <1>4, <1>5, <1>6, <2>2, <2>3 DEF SlotsKept
<1>10. CollidersKept(g)
  <2>1. CollidersKept(f)
    BY DEF Sound
  <2>2. CASE physics
    <3>1. /\ \A h \in DOMAIN f.bound : /\ f.bound[h] \in DOMAIN res
                                       /\ res[f.bound[h]].collider = h
          /\ \A d \in DOMAIN res : res[d].collider # NoCollider =>
               res[d].collider \in DOMAIN f.bound /\ f.bound[res[d].collider] = d
      BY <1>1, <2>1, <2>2 DEF CollidersKept
    <3>2. \A h \in DOMAIN b : b[h] \in DOMAIN new /\ new[b[h]].collider = h
      BY <1>3, <1>6, <2>2, <3>1
    <3>3. \A d \in DOMAIN new : new[d].collider # NoCollider =>
             new[d].collider \in DOMAIN b /\ b[new[d].collider] = d
      BY <1>3, <1>6, <2>2, <3>1
    <3> QED
      BY <1>3, <1>8, <2>2, <3>2, <3>3 DEF CollidersKept
  <2>3. CASE ~ physics
    <3>1. \A d \in DOMAIN res : res[d].collider = NoCollider
      BY <1>1, <2>1, <2>3 DEF CollidersKept
    <3> QED
      BY <1>6, <1>8, <2>3, <3>1 DEF CollidersKept
  <2> QED
    BY <2>2, <2>3
<1> QED
  BY <1>1, <1>6, <1>8, <1>9, <1>10 DEF Sound

LEMMA EvictedKeeps ==
  ASSUME NEW start \in Frames, Sound(start), NEW chosen \in SUBSET DOMAIN start.resident,
         IsFiniteSet(chosen), NEW order \in Orders(chosen)
  PROVE  /\ Evicted(start, order) \in Frames /\ Sound(Evicted(start, order))
         /\ DOMAIN Evicted(start, order).resident \subseteq DOMAIN start.resident
<1> DEFINE n == Len(order)
           left(i, f) == \A j \in i + 1 .. n : order[j] \in DOMAIN f.resident
           I == { x \in (0 .. n) \X Frames :
                    /\ Sound(x[2]) /\ DOMAIN x[2].resident \subseteq DOMAIN start.resident
                    /\ left(x[1], x[2]) }
<1>1. /\ order \in Seq(chosen) /\ IsInjective(order)
      /\ n \in Nat /\ DOMAIN order = 1 .. n /\ \A i \in 1 .. n : order[i] \in chosen
  <2>1. order \in Seq(chosen) /\ IsInjective(order)
    BY Ordered
  <2> QED
    BY <2>1
<1>2. << 0, start >> \in I
  <2>1. left(0, start) /\ 0 \in 0 .. n
    BY <1>1
  <2> HIDE DEF left
  <2> QED
    BY <2>1
<1>3. ASSUME NEW i \in 1 .. n, NEW f, << i - 1, f >> \in I
      PROVE  << i, EvictStep(0, f, order[i]) >> \in I
  <2>1. /\ f \in Frames /\ Sound(f) /\ DOMAIN f.resident \subseteq DOMAIN start.resident
        /\ left(i - 1, f)
    BY <1>3
  <2>2. order[i] \in DOMAIN f.resident
    <3>1. i \in (i - 1) + 1 .. n
      BY <1>1
    <3> QED
      BY <2>1, <3>1
  <2>3. PICK g : g = EvictStep(0, f, order[i])
    OBVIOUS
  <2>4. g \in Frames /\ Sound(g) /\ DOMAIN g.resident = DOMAIN f.resident \ {order[i]}
    BY <2>1, <2>2, <2>3, EvictKeeps
  <2>5. left(i, g)
    <3> SUFFICES ASSUME NEW j \in i + 1 .. n PROVE order[j] \in DOMAIN g.resident
      OBVIOUS
    <3>1. j \in (i - 1) + 1 .. n /\ j \in 1 .. n /\ j # i
      BY <1>1
    <3> QED
      BY <1>1, <2>1, <2>4, <3>1 DEF IsInjective
  <2>6. i \in 0 .. n
    BY <1>1
  <2> HIDE DEF left
  <2> QED
    BY <2>1, <2>3, <2>4, <2>5, <2>6
<1> HIDE DEF I
<1>4. << n, Evicting!Run(0, start, order) >> \in I
  BY <1>1, <1>2, <1>3, Evicting!RunKeeps
<1>5. Evicting!Run(0, start, order) = Evicted(start, order)
  BY Zenon DEF Evicted, Evicting!Run, EvictStep, FoldLeft, Evicting!FoldLeft, MapThenFoldSet,
               Evicting!MapThenFoldSet, Max, Evicting!Max
<1> QED
  BY <1>4, <1>5 DEF I

-----------------------------------------------------------------------------
(* The phases of process_ready().                                           *)

LEMMA ChunksFinite == IsFiniteSet(Chunks)
BY FS_Union, TerrainAssumption DEF Chunks

LEMMA LeastOfBoth ==
  ASSUME NEW m \in Nat, NEW n \in Nat
  PROVE  Least(m, n) \in Nat /\ Least(m, n) <= m /\ Least(m, n) <= n
BY DEF Least

LEMMA CollidedKeeps ==
  ASSUME NEW f \in Frames, Sound(f), NEW g \in Collided(f)
  PROVE  g \in Frames /\ Sound(g) /\ DOMAIN g.resident = DOMAIN f.resident
<1>1. CASE ~ physics
  BY <1>1 DEF Collided
<1>2. CASE physics
  <2>1. PICK chosen \in SUBSET WantCollider(f) :
          /\ Cardinality(chosen) = Least(MaxColliderUpdates,
               Least(Cardinality(WantCollider(f)), Len(f.colliders)))
          /\ \E order \in Orders(chosen) : g = Bound(f, order)
    BY <1>2, Zenon DEF Collided
  <2>a. PICK order \in Orders(chosen) : g = Bound(f, order)
    BY <2>1
  <2>2. WantCollider(f) \in SUBSET Chunks
    BY FramesAre, ResidenciesAre DEF WantCollider
  <2>3. IsFiniteSet(WantCollider(f)) /\ IsFiniteSet(chosen)
    BY <2>2, ChunksFinite, FS_Subset
  <2>4. Cardinality(WantCollider(f)) \in Nat /\ MaxColliderUpdates \in Nat /\ Len(f.colliders) \in Nat
    BY <2>3, FS_CardinalityType, TerrainAssumption, FramesAre
  <2>5. Cardinality(chosen) <= Len(f.colliders)
    <3>1. PICK a, b, m : a = Cardinality(WantCollider(f)) /\ b = Len(f.colliders) /\ m = MaxColliderUpdates
      OBVIOUS
    <3>2. Least(a, b) \in Nat /\ Least(a, b) <= b
      BY <2>4, <3>1, LeastOfBoth
    <3>3. Least(m, Least(a, b)) \in Nat /\ Least(m, Least(a, b)) <= Least(a, b)
      <4>1. PICK e : e = Least(a, b)
        OBVIOUS
      <4> QED
        BY <2>4, <3>1, <3>2, <4>1, LeastOfBoth
    <3> QED
      BY <2>1, <2>4, <3>1, <3>2, <3>3
  <2>6. /\ Bound(f, order) \in Frames /\ Sound(Bound(f, order))
        /\ DOMAIN Bound(f, order).resident = DOMAIN f.resident
    BY <1>2, <2>3, <2>5, BoundKeeps
  <2> QED
    BY <2>a, <2>6
<1> QED
  BY <1>1, <1>2

LEMMA AgedKeeps ==
  ASSUME NEW f \in Frames, Sound(f), NEW g, g = Aged(f)
  PROVE  g \in Frames /\ Sound(g) /\ DOMAIN g.resident = DOMAIN f.resident
<1>1. PICK res, new :
        /\ res = f.resident
        /\ new = [c \in DOMAIN res |-> Aging(res[c], c)]
  OBVIOUS
<1>2. g = [pool |-> f.pool, resident |-> new, colliders |-> f.colliders,
           bound |-> f.bound, uploads |-> f.uploads, failures |-> f.failures]
  <2>1. PICK u, v, w, x, y, z :
          f = [pool |-> u, resident |-> v, colliders |-> w, bound |-> x, uploads |-> y, failures |-> z]
    BY FramesAre
  <2>2. g = [f EXCEPT !.resident = new]
    BY <1>1 DEF Aged
  <2> QED
    BY <2>1, <2>2
<1>3. res \in Residencies /\ DOMAIN new = DOMAIN res
  BY <1>1, FramesAre
<1>4. \A c \in DOMAIN res : /\ new[c] \in Residents /\ new[c].slot = res[c].slot
                            /\ new[c].collider = res[c].collider
  <2> TAKE c \in DOMAIN res
  <2>1. PICK n : n = IF c \in desired THEN 0 ELSE Least(GraceFrames, res[c].undesired + 1)
    OBVIOUS
  <2>2. res[c] \in Residents
    BY <1>3, ResidenciesAre
  <2>3. n \in 0 .. GraceFrames
    BY <2>1, <2>2, TerrainAssumption DEF Residents, Least
  <2>4. PICK r : r = [res[c] EXCEPT !.undesired = n]
    OBVIOUS
  <2>5. r \in Residents /\ r.slot = res[c].slot /\ r.collider = res[c].collider
    BY <2>2, <2>3, <2>4 DEF Residents
  <2>6. new[c] = r
    BY <1>1, <2>1, <2>4 DEF Aging
  <2> QED
    BY <2>5, <2>6
<1>5. new \in Residencies
  <2>1. new = [c \in DOMAIN res |-> new[c]]
    BY <1>1
  <2>2. DOMAIN res \in SUBSET Chunks
    BY <1>3, ResidenciesAre
  <2>3. new \in [DOMAIN res -> Residents]
    BY <1>4, <2>1
  <2> QED
    BY <2>2, <2>3 DEF Residencies, Tables
<1>6. /\ g.pool = f.pool /\ g.resident = new /\ g.colliders = f.colliders /\ g.bound = f.bound
      /\ g \in Frames
  BY <1>2, <1>5, FramesAre DEF Frames
<1>7. SlotsKept(f.pool, new)
  <2>1. Held(new) = Held(res)
    BY <1>3, <1>4 DEF Held
  <2>2. SlotsKept(f.pool, res)
    BY <1>1 DEF Sound
  <2> QED
    BY <1>3, <1>4, <2>1, <2>2 DEF SlotsKept
<1>8. CollidersKept(g)
  <2>1. CollidersKept(f)
    BY DEF Sound
  <2>2. CASE physics
    <3>1. \A h \in DOMAIN f.bound : /\ f.bound[h] \in DOMAIN new
                                    /\ new[f.bound[h]].collider = h
      BY <1>1, <1>3, <1>4, <2>1, <2>2 DEF CollidersKept
    <3>2. \A d \in DOMAIN new : new[d].collider # NoCollider =>
               new[d].collider \in DOMAIN f.bound /\ f.bound[new[d].collider] = d
      BY <1>1, <1>3, <1>4, <2>1, <2>2 DEF CollidersKept
    <3> QED
      BY <1>6, <2>1, <2>2, <3>1, <3>2 DEF CollidersKept
  <2>3. CASE ~ physics
    BY <1>1, <1>3, <1>4, <1>6, <2>1, <2>3 DEF CollidersKept
  <2> QED
    BY <2>2, <2>3
<1> QED
  BY <1>1, <1>3, <1>6, <1>7, <1>8 DEF Sound

LEMMA AfterEvictionKeeps ==
  ASSUME NEW f \in Frames, Sound(f), NEW g \in AfterEviction(f)
  PROVE  g \in Frames /\ Sound(g) /\ DOMAIN g.resident \subseteq DOMAIN f.resident
<1>1. PICK chosen \in SUBSET Undesired(f) : \E order \in Orders(chosen) : g = Evicted(f, order)
  BY Zenon DEF AfterEviction
<1>a. PICK order \in Orders(chosen) : g = Evicted(f, order)
  BY <1>1
<1>2. chosen \in SUBSET DOMAIN f.resident
  BY DEF Undesired
<1>3. IsFiniteSet(chosen)
  <2>1. DOMAIN f.resident \in SUBSET Chunks
    BY FramesAre, ResidenciesAre
  <2>2. chosen \in SUBSET Chunks
    BY <1>2, <2>1
  <2> QED
    BY <2>2, ChunksFinite, FS_Subset
<1>4. /\ Evicted(f, order) \in Frames /\ Sound(Evicted(f, order))
      /\ DOMAIN Evicted(f, order).resident \subseteq DOMAIN f.resident
  BY <1>2, <1>3, EvictedKeeps
<1> QED
  BY <1>a, <1>4

-----------------------------------------------------------------------------
(* The actions.                                                             *)

LEMMA InitKeeps == TerrainInit => TerrainInv
<1> SUFFICES ASSUME TerrainInit PROVE TerrainInv
  OBVIOUS
<1>1. SlotsPerLod \in Nat /\ SlotsPerLod > 0 /\ MaxGenerations \in Nat /\ MaxFailures \in Nat
  BY TerrainAssumption
<1>2. \A l \in Lods : /\ pool.free[l] = [i \in 1 .. SlotsPerLod |-> << l, i >>]
                      /\ pool.free[l] \in Seq(MeshSlots) /\ IsInjective(pool.free[l])
                      /\ ToSet(pool.free[l]) = { << l, i >> : i \in 1 .. SlotsPerLod }
  <2> TAKE l \in Lods
  <2>1. PICK s : s = [i \in 1 .. SlotsPerLod |-> << l, i >>]
    OBVIOUS
  <2>2. pool.free[l] = s
    BY <2>1 DEF TerrainInit
  <2>3. s \in Seq(MeshSlots) /\ DOMAIN s = 1 .. SlotsPerLod
    BY <1>1, <2>1 DEF MeshSlots
  <2>4. IsInjective(s)
    BY <2>1, <2>3 DEF IsInjective
  <2>5. ToSet(s) = { << l, i >> : i \in 1 .. SlotsPerLod }
    BY <2>1, <2>3 DEF ToSet
  <2> QED
    BY <2>1, <2>2, <2>3, <2>4, <2>5
<1>3. /\ pool \in Pools /\ pool.retiring = Nothing /\ DOMAIN Nothing = {}
  <2>1. Nothing \in Tables(MeshSlots, 1 .. RetireTicks) /\ DOMAIN Nothing = {}
    BY DEF Nothing, Tables
  <2>2. pool.free \in [Lods -> Seq(MeshSlots)]
    BY <1>2 DEF TerrainInit
  <2>3. pool = [free |-> pool.free, retiring |-> Nothing]
    BY DEF TerrainInit
  <2> QED
    BY <2>1, <2>2, <2>3 DEF Pools
<1>4. FreeSlots(pool) = MeshSlots
  <2>1. 0 \in Lods /\ 1 \in Lods
    BY DEF Lods
  <2>2. FreeSlots(pool) = { << 0, i >> : i \in 1 .. SlotsPerLod } \cup { << 1, i >> : i \in 1 .. SlotsPerLod }
    BY <1>2, <2>1 DEF FreeSlots
  <2> QED
    BY <2>2 DEF MeshSlots, Lods
<1>5. resident = Nothing /\ Held(resident) = {} /\ DOMAIN resident = {}
  BY <1>3 DEF TerrainInit, Held
<1>6. ListsKept(pool)
  <2>1. ASSUME NEW l \in Lods, NEW s \in ToSet(pool.free[l]) PROVE s[1] = l
    <3>1. s \in { << l, i >> : i \in 1 .. SlotsPerLod }
      BY <1>2, Zenon
    <3> QED
      BY <3>1
  <2> QED
    BY <1>2, <2>1 DEF ListsKept
<1>7. SlotsKept(pool, resident)
  BY <1>3, <1>4, <1>5, <1>6 DEF SlotsKept
<1>8. CollidersKept(Stored)
  BY <1>5 DEF TerrainInit, CollidersKept, Stored
<1>9. resident \in Residencies /\ bound \in Bindings
  <2>1. \A A, S : Nothing \in Tables(A, S)
    BY DEF Nothing, Tables
  <2>2. resident = Nothing /\ bound = Nothing
    BY DEF TerrainInit
  <2> QED
    BY <2>1, <2>2 DEF Residencies, Bindings
<1>10. colliders \in Seq(ColliderHandles)
  BY DEF TerrainInit
<1>11. JobsKept
  <2>1. << >> \in Seq(Chunks) /\ IsInjective(<< >>) /\ Len(<< >>) <= MaxGenerations /\ ToSet(<< >>) = {}
    BY <1>1 DEF IsInjective, ToSet
  <2> QED
    BY <2>1 DEF TerrainInit, JobsKept
<1>12. updated \in BOOLEAN /\ desired \in SUBSET Chunks /\ physics \in BOOLEAN /\ failures \in 0 .. MaxFailures
  <2>1. updated = FALSE /\ physics = FALSE /\ desired = {} /\ failures = 0
    BY DEF TerrainInit
  <2>2. 0 \in 0 .. MaxFailures
    BY <1>1
  <2> QED
    BY <2>1, <2>2
<1> QED
  BY <1>3, <1>7, <1>8, <1>9, <1>10, <1>11, <1>12 DEF TerrainInv

LEMMA UpdateKeeps == TerrainInv /\ Update => TerrainInv'
<1> SUFFICES ASSUME TerrainInv, Update PROVE TerrainInv'
  OBVIOUS
<1>1. /\ pool' = pool /\ resident' = resident /\ physics' = physics /\ colliders' = colliders
      /\ bound' = bound /\ failures' = failures /\ generated' = generated /\ updated' = TRUE
      /\ desired' \in Views
  BY DEF Update
<1>2. desired' \in SUBSET Chunks
  BY <1>1, TerrainAssumption DEF Chunks
<1>3. SlotsKept(pool, resident)'
  BY <1>1 DEF TerrainInv, SlotsKept, ListsKept, FreeSlots, Held
<1>4. CollidersKept(Stored)'
  BY <1>1 DEF TerrainInv, CollidersKept, Stored
<1>5. JobsKept'
  <2>1. PICK chosen \in SUBSET Missing :
          /\ Cardinality(chosen) = Least(JobsLeft, Cardinality(Missing))
          /\ \E order \in Orders(chosen) : pending' = pending \o order
          /\ requested' = requested \cup chosen
    BY Zenon DEF Update
  <2>2. PICK order \in Orders(chosen) : pending' = pending \o order
    BY <2>1
  <2>3. Missing \in SUBSET Chunks /\ Missing \cap DOMAIN resident = {} /\ Missing \cap requested = {}
    BY <1>2 DEF Missing
  <2>4. IsFiniteSet(Missing) /\ IsFiniteSet(chosen)
    <3>1. PICK M : M = Missing
      OBVIOUS
    <3>2. M \in SUBSET Chunks /\ chosen \in SUBSET M
      BY <2>3, <3>1
    <3>3. IsFiniteSet(M)
      BY <3>2, ChunksFinite, FS_Subset
    <3> QED
      BY <3>1, <3>2, <3>3, FS_Subset
  <2>5. /\ pending \in Seq(Chunks) /\ IsInjective(pending) /\ Len(pending) <= MaxGenerations
        /\ generated \subseteq ToSet(pending) /\ requested = ToSet(pending)
        /\ requested \cap DOMAIN resident = {}
    BY DEF TerrainInv, JobsKept
  <2>6. JobsLeft \in Nat /\ JobsLeft = MaxGenerations - Len(pending)
    BY <2>5, TerrainAssumption DEF JobsLeft
  <2>7. Cardinality(chosen) \in Nat /\ Cardinality(chosen) <= JobsLeft
    <3>1. PICK a, b : a = JobsLeft /\ b = Cardinality(Missing)
      OBVIOUS
    <3>2. a \in Nat /\ b \in Nat
      BY <2>4, <2>6, <3>1, FS_CardinalityType
    <3>3. Least(a, b) \in Nat /\ Least(a, b) <= a
      BY <3>2, LeastOfBoth
    <3> QED
      BY <2>1, <3>1, <3>3
  <2>8. /\ order \in Seq(chosen) /\ Len(order) = Cardinality(chosen) /\ IsInjective(order)
        /\ ToSet(order) = chosen
    BY <2>4, Ordered
  <2>9. order \in Seq(Chunks) /\ ToSet(pending) \cap ToSet(order) = {}
    <3>1. chosen \subseteq Chunks
      BY <2>3
    <3> QED
      BY <2>3, <2>5, <2>8, <3>1
  <2>10. PICK both : both = pending \o order
    OBVIOUS
  <2>11. both \in Seq(Chunks) /\ Len(both) = Len(pending) + Len(order) /\ IsInjective(both)
         /\ ToSet(both) = ToSet(pending) \cup ToSet(order)
    <3>1. PICK a, C : a = pending /\ C = Chunks
      OBVIOUS
    <3>2. /\ a \in Seq(C) /\ order \in Seq(C) /\ IsInjective(a) /\ IsInjective(order)
          /\ ToSet(a) \cap ToSet(order) = {}
      BY <2>5, <2>8, <2>9, <3>1
    <3>3. /\ a \o order \in Seq(C) /\ Len(a \o order) = Len(a) + Len(order)
          /\ IsInjective(a \o order) /\ ToSet(a \o order) = ToSet(a) \cup ToSet(order)
      BY <3>2, Joined
    <3> QED
      BY <2>10, <3>1, <3>3
  <2>12. Len(both) <= MaxGenerations
    BY <2>5, <2>6, <2>7, <2>8, <2>11, TerrainAssumption
  <2>13. pending' = both
    BY <2>2, <2>10
  <2>14. requested' \cap DOMAIN resident' = {}
    BY <1>1, <2>1, <2>3, <2>5
  <2>15. requested' = ToSet(both) /\ generated' \subseteq ToSet(both)
    BY <1>1, <2>1, <2>5, <2>8, <2>11
  <2> QED
    BY <2>11, <2>12, <2>13, <2>14, <2>15 DEF JobsKept
<1> QED
  BY <1>1, <1>2, <1>3, <1>4, <1>5 DEF TerrainInv

LEMMA GenerationEndsKeeps == ASSUME NEW c \in Chunks PROVE TerrainInv /\ GenerationEnds(c) => TerrainInv'
<1> SUFFICES ASSUME TerrainInv, GenerationEnds(c) PROVE TerrainInv'
  OBVIOUS
<1>1. /\ pool' = pool /\ resident' = resident /\ physics' = physics /\ colliders' = colliders
      /\ bound' = bound /\ failures' = failures /\ updated' = updated /\ desired' = desired
      /\ requested' = requested /\ pending' = pending
      /\ generated' = generated \cup {c} /\ c \in ToSet(pending)
  BY DEF GenerationEnds
<1>3. SlotsKept(pool, resident)'
  BY <1>1 DEF TerrainInv, SlotsKept, ListsKept, FreeSlots, Held
<1>4. CollidersKept(Stored)'
  BY <1>1 DEF TerrainInv, CollidersKept, Stored
<1>5. JobsKept'
  BY <1>1 DEF TerrainInv, JobsKept
<1> QED
  BY <1>1, <1>3, <1>4, <1>5 DEF TerrainInv

LEMMA PhysicsWorldChangesKeeps == TerrainInv /\ PhysicsWorldChanges => TerrainInv'
<1> SUFFICES ASSUME TerrainInv, PhysicsWorldChanges PROVE TerrainInv'
  OBVIOUS
<1>1. /\ pool' = pool /\ resident' = HandlesReset /\ physics' = ~physics
      /\ colliders' = IF physics' THEN Reserved ELSE << >>
      /\ bound' = Nothing /\ failures' = failures /\ updated' = updated /\ desired' = desired
      /\ requested' = requested /\ pending' = pending /\ generated' = generated
  BY DEF PhysicsWorldChanges
<1>2. PICK res, new : res = resident /\ new = resident'
  OBVIOUS
<1>3. /\ DOMAIN new = DOMAIN res
      /\ \A c \in DOMAIN res : /\ new[c] \in Residents /\ new[c].slot = res[c].slot
                               /\ new[c].collider = NoCollider
  <2>1. new = [c \in DOMAIN res |-> [res[c] EXCEPT !.collider = NoCollider]]
    BY <1>1, <1>2 DEF HandlesReset
  <2>2. \A c \in DOMAIN res : res[c] \in Residents
    BY <1>2, ResidenciesAre DEF TerrainInv
  <2> QED
    BY <2>1, <2>2 DEF Residents
<1>4. new \in Residencies
  <2>1. new = [c \in DOMAIN res |-> new[c]]
    BY <1>1, <1>2 DEF HandlesReset
  <2>2. DOMAIN res \in SUBSET Chunks
    BY <1>2, ResidenciesAre DEF TerrainInv
  <2>3. new \in [DOMAIN res -> Residents]
    BY <1>3, <2>1
  <2> QED
    BY <2>2, <2>3 DEF Residencies, Tables
<1>5. SlotsKept(pool, new)
  <2>1. Held(new) = Held(res)
    BY <1>3 DEF Held
  <2>2. SlotsKept(pool, res)
    BY <1>2 DEF TerrainInv
  <2> QED
    BY <1>3, <2>1, <2>2 DEF SlotsKept
<1>6. SlotsKept(pool, resident)'
  BY <1>1, <1>2, <1>5 DEF SlotsKept, ListsKept, FreeSlots, Held
<1>7. Nothing \in Bindings /\ DOMAIN Nothing = {}
  BY DEF Nothing, Bindings, Tables
<1>8. /\ Reserved \in Seq(ColliderHandles) /\ IsInjective(Reserved) /\ ToSet(Reserved) = ColliderHandles
  <2>1. PICK s : s = Reserved
    OBVIOUS
  <2>2. /\ s = [i \in 1 .. SlotsPerLod |-> i] /\ SlotsPerLod \in Nat
    BY <2>1, TerrainAssumption DEF Reserved
  <2>3. s \in Seq(ColliderHandles)
    BY <2>2 DEF ColliderHandles
  <2>4. IsInjective(s)
    BY <2>2 DEF IsInjective
  <2>5. ToSet(s) = ColliderHandles
    BY <2>2 DEF ToSet, ColliderHandles
  <2> QED
    BY <2>1, <2>3, <2>4, <2>5
<1>9. CollidersKept(Stored)'
  <2>1. CASE physics'
    <3>1. colliders' = Reserved
      BY <1>1, <2>1
    <3>2. /\ IsInjective(colliders') /\ ToSet(colliders') \cap DOMAIN bound' = {}
          /\ ToSet(colliders') \cup DOMAIN bound' = ColliderHandles
      BY <1>1, <1>7, <1>8, <3>1
    <3>3. \A c \in DOMAIN resident' : resident'[c].collider = NoCollider
      BY <1>2, <1>3
    <3> QED
      BY <1>1, <1>7, <2>1, <3>2, <3>3 DEF CollidersKept, Stored
  <2>2. CASE ~ physics'
    BY <1>2, <1>3, <2>2 DEF CollidersKept, Stored
  <2> QED
    BY <2>1, <2>2
<1>10. colliders' \in Seq(ColliderHandles)
  BY <1>1, <1>8
<1>11. JobsKept'
  BY <1>1, <1>2, <1>3 DEF TerrainInv, JobsKept
<1> QED
  BY <1>1, <1>2, <1>4, <1>6, <1>7, <1>9, <1>10, <1>11 DEF TerrainInv

LEMMA ProcessReadyKeeps == TerrainInv /\ ProcessReady => TerrainInv'
<1> SUFFICES ASSUME TerrainInv, ProcessReady PROVE TerrainInv'
  OBVIOUS
<1>1. PICK ready, start :
        /\ ready = Among(pending, generated)
        /\ start = [pool |-> PoolTicked(pool), resident |-> resident, colliders |-> colliders,
                    bound |-> bound, uploads |-> 0, failures |-> failures]
  OBVIOUS
<1>2. /\ updated' = FALSE /\ desired' = desired /\ physics' = physics /\ generated' = {}
      /\ pending' = Among(pending, ToSet(pending) \ generated)
      /\ requested' = requested \ ToSet(ready)
  BY <1>1, Zenon DEF ProcessReady, NotInFlight
<1>3. PICK failing : LET up == UploadedAll(start, ready, failing) IN
        /\ up.failures <= MaxFailures /\ failures' = up.failures
        /\ \E collided \in Collided(up) : \E frame \in AfterEviction(Aged(collided)) :
             /\ pool' = frame.pool /\ resident' = frame.resident
             /\ colliders' = frame.colliders /\ bound' = frame.bound
  BY <1>1, Zenon DEF ProcessReady
<1>4. PICK up : up = UploadedAll(start, ready, failing)
  OBVIOUS
<1>5. PICK collided \in Collided(up) : \E frame \in AfterEviction(Aged(collided)) :
             /\ pool' = frame.pool /\ resident' = frame.resident
             /\ colliders' = frame.colliders /\ bound' = frame.bound
  BY <1>3, <1>4
<1>6. PICK aged : aged = Aged(collided)
  OBVIOUS
<1>7. PICK frame \in AfterEviction(aged) :
             /\ pool' = frame.pool /\ resident' = frame.resident
             /\ colliders' = frame.colliders /\ bound' = frame.bound
  BY <1>5, <1>6
<1>8. /\ pending \in Seq(Chunks) /\ IsInjective(pending) /\ Len(pending) <= MaxGenerations
      /\ generated \subseteq ToSet(pending) /\ requested = ToSet(pending)
      /\ requested \cap DOMAIN resident = {}
  BY DEF TerrainInv, JobsKept
<1>9. /\ ready \in Seq(Chunks) /\ IsInjective(ready) /\ ToSet(ready) = ToSet(pending) \cap generated
  BY <1>1, <1>8, AmongFacts
<1>10. start \in Frames /\ Sound(start) /\ start.resident = resident
  <2>1. PICK p, t : p = pool /\ t = PoolTicked(p)
    OBVIOUS
  <2>2. p \in Pools /\ ListsKept(p) /\ FreeSlots(p) \cap DOMAIN p.retiring = {} /\ SlotsKept(p, resident)
    BY <2>1 DEF TerrainInv, SlotsKept
  <2>3. /\ t \in Pools /\ ListsKept(t) /\ DOMAIN t.retiring \subseteq DOMAIN p.retiring
        /\ FreeSlots(t) = FreeSlots(p) \cup (DOMAIN p.retiring \ DOMAIN t.retiring)
    BY <2>1, <2>2, SlotsTicked
  <2>4. SlotsKept(t, resident)
    BY <2>2, <2>3 DEF SlotsKept
  <2>5. /\ start.pool = t /\ start.resident = resident /\ start.colliders = colliders
        /\ start.bound = bound
    BY <1>1, <2>1
  <2>6. start \in Frames
    BY <1>1, <2>1, <2>3, TerrainAssumption DEF TerrainInv, Frames
  <2>7. CollidersKept(start)
    BY <2>5 DEF TerrainInv, CollidersKept, Stored
  <2> QED
    BY <2>4, <2>5, <2>6, <2>7 DEF Sound
<1>11. /\ up \in Frames /\ Sound(up)
       /\ DOMAIN up.resident \subseteq DOMAIN resident \cup ToSet(ready)
  <2>1. ToSet(ready) \cap DOMAIN start.resident = {}
    BY <1>8, <1>9, <1>10
  <2> QED
    BY <1>4, <1>9, <1>10, <2>1, UploadsKeep
<1>12. /\ collided \in Frames /\ Sound(collided) /\ DOMAIN collided.resident = DOMAIN up.resident
  BY <1>11, CollidedKeeps
<1>13. /\ aged \in Frames /\ Sound(aged) /\ DOMAIN aged.resident = DOMAIN up.resident
  BY <1>6, <1>12, AgedKeeps
<1>14. /\ frame \in Frames /\ Sound(frame) /\ DOMAIN frame.resident \subseteq DOMAIN up.resident
  BY <1>13, AfterEvictionKeeps
<1>15. pool' \in Pools /\ resident' \in Residencies /\ colliders' \in Seq(ColliderHandles) /\ bound' \in Bindings
  BY <1>7, <1>14, FramesAre
<1>16. SlotsKept(pool, resident)'
  <2>1. SlotsKept(frame.pool, frame.resident)
    BY <1>14 DEF Sound
  <2> QED
    BY <1>7, <2>1 DEF SlotsKept, ListsKept, FreeSlots, Held
<1>17. CollidersKept(Stored)'
  <2>1. CollidersKept(frame)
    BY <1>14 DEF Sound
  <2> QED
    BY <1>2, <1>7, <2>1 DEF CollidersKept, Stored
<1>18. failures' \in 0 .. MaxFailures
  BY <1>3, <1>4, <1>11, FramesAre
<1>19. JobsKept'
  <2>1. PICK left, S : S = ToSet(pending) \ generated /\ left = Among(pending, S)
    OBVIOUS
  <2>2. /\ left \in Seq(Chunks) /\ IsInjective(left) /\ ToSet(left) = ToSet(pending) \cap S
        /\ Len(left) <= Len(pending)
    BY <1>8, <2>1, AmongFacts
  <2>3. pending' = left
    BY <1>2, <2>1
  <2>4. Len(left) <= MaxGenerations
    BY <1>8, <2>2, TerrainAssumption
  <2>5. requested' = ToSet(left)
    BY <1>2, <1>8, <1>9, <2>1, <2>2
  <2>6. requested' \cap DOMAIN resident' = {}
    BY <1>2, <1>7, <1>8, <1>11, <1>14
  <2> QED
    BY <1>2, <2>2, <2>3, <2>4, <2>5, <2>6 DEF JobsKept
<1> QED
  BY <1>2, <1>15, <1>16, <1>17, <1>18, <1>19 DEF TerrainInv

-----------------------------------------------------------------------------
(* What the invariant says.                                                 *)

LEMMA TerrainKept == TerrainSpec => []TerrainInv
<1>1. TerrainInv /\ [TerrainNext]_terrainVars => TerrainInv'
  <2> SUFFICES ASSUME TerrainInv, [TerrainNext]_terrainVars PROVE TerrainInv'
    OBVIOUS
  <2>1. CASE Update
    BY <2>1, UpdateKeeps
  <2>2. CASE \E c \in Chunks : GenerationEnds(c)
    BY <2>2, GenerationEndsKeeps
  <2>3. CASE ProcessReady
    BY <2>3, ProcessReadyKeeps
  <2>4. CASE PhysicsWorldChanges
    BY <2>4, PhysicsWorldChangesKeeps
  <2>5. CASE UNCHANGED terrainVars
    BY <2>5 DEF terrainVars, TerrainInv, JobsKept, SlotsKept, ListsKept, FreeSlots, Held,
                CollidersKept, Stored
  <2> QED
    BY <2>1, <2>2, <2>3, <2>4, <2>5 DEF TerrainNext
<1> QED
  BY InitKeeps, <1>1, PTL DEF TerrainSpec

LEMMA TypesFollow == TerrainInv => TerrainTypeOK
<1> SUFFICES ASSUME TerrainInv PROVE TerrainTypeOK
  OBVIOUS
<1>1. pool.free \in [Lods -> Seq(MeshSlots)] /\ pool.retiring \in Tables(MeshSlots, 1 .. RetireTicks)
  BY PoolsAre DEF TerrainInv
<1>2. /\ DOMAIN pool.retiring \subseteq MeshSlots
      /\ \A s \in DOMAIN pool.retiring : pool.retiring[s] \in 1 .. RetireTicks
  BY <1>1 DEF Tables
<1>3. \A c \in DOMAIN resident : c \in Chunks /\ resident[c] \in Residents
  BY ResidenciesAre DEF TerrainInv
<1>4. \A h \in DOMAIN bound : h \in ColliderHandles /\ bound[h] \in Fine
  BY DEF TerrainInv, Bindings, Tables
<1>5. updated \in BOOLEAN /\ desired \in SUBSET Chunks /\ physics \in BOOLEAN /\ failures \in 0 .. MaxFailures
      /\ colliders \in Seq(ColliderHandles)
  BY Zenon DEF TerrainInv
<1>6. /\ pending \in Seq(Chunks) /\ Len(pending) <= MaxGenerations /\ generated \subseteq ToSet(pending)
      /\ requested = ToSet(pending)
  BY Zenon DEF TerrainInv, JobsKept
<1>7. requested \in SUBSET Chunks
  BY <1>6 DEF ToSet
<1> QED
  BY <1>1, <1>2, <1>3, <1>4, <1>5, <1>6, <1>7, Zenon DEF TerrainTypeOK

LEMMA SlotsFollow == TerrainInv => SlotsAccounted
<1> SUFFICES ASSUME TerrainInv, NEW s \in MeshSlots
             PROVE  Cardinality({ i \in DOMAIN pool.free[s[1]] : pool.free[s[1]][i] = s })
                    + (IF s \in DOMAIN pool.retiring THEN 1 ELSE 0)
                    + Cardinality({ c \in DOMAIN resident : resident[c].slot = s }) = 1
  BY DEF SlotsAccounted
<1> DEFINE l == s[1]
           f == pool.free[l]
           R == DOMAIN pool.retiring
           F == { i \in DOMAIN f : f[i] = s }
           H == { c \in DOMAIN resident : resident[c].slot = s }
<1>1. l \in Lods /\ l \in {0, 1}
  BY DEF MeshSlots, Lods
<1>2. SlotsKept(pool, resident) /\ ListsKept(pool)
  BY DEF TerrainInv, SlotsKept
<1>3. f \in Seq(MeshSlots) /\ IsInjective(f)
  BY <1>1, <1>2, PoolsAre DEF TerrainInv, ListsKept
<1>4. s \in FreeSlots(pool) <=> s \in ToSet(f)
  BY <1>1, <1>2 DEF FreeSlots, ListsKept, Lods
<1>5. s \in ToSet(f) => Cardinality(F) = 1
  <2> SUFFICES ASSUME s \in ToSet(f) PROVE Cardinality(F) = 1
    OBVIOUS
  <2>1. PICK i \in DOMAIN f : f[i] = s
    BY <1>3 DEF ToSet
  <2>2. \A j \in DOMAIN f : f[j] = s => j = i
    BY <1>3, <2>1 DEF IsInjective
  <2>3. F = {i}
    BY <2>1, <2>2
  <2> HIDE DEF F
  <2> QED
    BY <2>3, FS_Singleton
<1>6. s \notin ToSet(f) => Cardinality(F) = 0
  <2> SUFFICES ASSUME s \notin ToSet(f) PROVE Cardinality(F) = 0
    OBVIOUS
  <2>1. F = {}
    BY <1>3 DEF ToSet
  <2> HIDE DEF F
  <2> QED
    BY <2>1, FS_EmptySet
<1>7. s \in Held(resident) => Cardinality(H) = 1
  <2> SUFFICES ASSUME s \in Held(resident) PROVE Cardinality(H) = 1
    OBVIOUS
  <2>1. PICK c \in DOMAIN resident : resident[c].slot = s
    BY DEF Held
  <2>2. \A d \in DOMAIN resident : resident[d].slot = s => d = c
    BY <1>2, <2>1 DEF SlotsKept
  <2>3. H = {c}
    BY <2>1, <2>2
  <2> HIDE DEF H
  <2> QED
    BY <2>3, FS_Singleton
<1>8. s \notin Held(resident) => Cardinality(H) = 0
  <2> SUFFICES ASSUME s \notin Held(resident) PROVE Cardinality(H) = 0
    OBVIOUS
  <2>1. H = {}
    BY DEF Held
  <2> HIDE DEF H
  <2> QED
    BY <2>1, FS_EmptySet
<1>9. /\ s \in FreeSlots(pool) \/ s \in R \/ s \in Held(resident)
      /\ ~ (s \in FreeSlots(pool) /\ s \in R)
      /\ ~ (s \in FreeSlots(pool) /\ s \in Held(resident))
      /\ ~ (s \in R /\ s \in Held(resident))
  BY <1>2 DEF SlotsKept
<1>10. Cardinality(F) + (IF s \in R THEN 1 ELSE 0) + Cardinality(H) = 1
  <2> HIDE DEF F, H, R, f
  <2> QED
    BY <1>4, <1>5, <1>6, <1>7, <1>8, <1>9
<1> QED
  BY <1>10

(* A sequence without repetitions is as long as it has elements.            *)
LEMMA LengthCounts ==
  ASSUME NEW S, NEW s \in Seq(S), IsInjective(s)
  PROVE  Len(s) = Cardinality(ToSet(s))
<1>1. Len(s) \in Nat /\ DOMAIN s = 1 .. Len(s)
  OBVIOUS
<1>2. s \in Bijection(1 .. Len(s), ToSet(s))
  BY <1>1 DEF Bijection, Injection, Surjection, IsInjective, ToSet
<1>3. IsFiniteSet(1 .. Len(s)) /\ Cardinality(1 .. Len(s)) = Len(s)
  BY <1>1, FS_Interval
<1>4. PICK A, B : A = 1 .. Len(s) /\ B = ToSet(s)
  OBVIOUS
<1>5. ExistsBijection(A, B) /\ IsFiniteSet(A)
  BY <1>2, <1>3, <1>4 DEF ExistsBijection
<1>6. Cardinality(A) = Cardinality(B)
  BY <1>5, FS_Bijection
<1> QED
  BY <1>3, <1>4, <1>6

LEMMA JobsFollow == TerrainInv => InFlightIsPending
<1> SUFFICES ASSUME TerrainInv PROVE InFlightIsPending
  OBVIOUS
<1>1. PICK s : s = pending
  OBVIOUS
<1>2. s \in Seq(Chunks) /\ IsInjective(s) /\ requested = ToSet(s) /\ requested \cap DOMAIN resident = {}
  BY <1>1 DEF TerrainInv, JobsKept
<1>3. Len(s) = Cardinality(ToSet(s))
  BY <1>2, LengthCounts
<1> QED
  BY <1>1, <1>2, <1>3 DEF InFlightIsPending

LEMMA CollidersFollow == TerrainInv => CollidersAccounted
<1> SUFFICES ASSUME TerrainInv PROVE CollidersAccounted
  OBVIOUS
<1> DEFINE holders(h) == { c \in DOMAIN resident : resident[c].collider = h }
<1>1. CASE ~ physics
  BY <1>1 DEF TerrainInv, CollidersKept, Stored, CollidersAccounted
<1>2. CASE physics
  <2>1. /\ IsInjective(colliders) /\ colliders \in Seq(ColliderHandles)
        /\ ToSet(colliders) \cap DOMAIN bound = {}
        /\ ToSet(colliders) \cup DOMAIN bound = ColliderHandles
        /\ \A h \in DOMAIN bound : /\ bound[h] \in DOMAIN resident
                                   /\ resident[bound[h]].collider = h
        /\ \A c \in DOMAIN resident :
            resident[c].collider # NoCollider =>
              /\ resident[c].collider \in DOMAIN bound
              /\ bound[resident[c].collider] = c
    BY <1>2 DEF TerrainInv, CollidersKept, Stored
  <2>2. Len(colliders) + Cardinality(DOMAIN bound) = SlotsPerLod
    <3>1. PICK A, B : A = ToSet(colliders) /\ B = DOMAIN bound
      OBVIOUS
    <3>2. IsFiniteSet(ColliderHandles) /\ Cardinality(ColliderHandles) = SlotsPerLod
      BY FS_Interval, TerrainAssumption DEF ColliderHandles
    <3>3. A \cup B = ColliderHandles /\ A \cap B = {} /\ A \subseteq ColliderHandles /\ B \subseteq ColliderHandles
      BY <2>1, <3>1
    <3>4. IsFiniteSet(A) /\ IsFiniteSet(B)
      BY <3>2, <3>3, FS_Subset
    <3>5. Cardinality(A \cup B) = Cardinality(A) + Cardinality(B) - Cardinality(A \cap B)
      BY <3>4, FS_Union
    <3>6. Cardinality(A \cap B) = 0 /\ Cardinality(A) \in Nat /\ Cardinality(B) \in Nat
      BY <3>3, <3>4, FS_EmptySet, FS_CardinalityType
    <3>7. Len(colliders) = Cardinality(A)
      <4>1. PICK s : s = colliders
        OBVIOUS
      <4>2. s \in Seq(ColliderHandles) /\ IsInjective(s) /\ A = ToSet(s)
        BY <2>1, <3>1, <4>1
      <4>3. Len(s) = Cardinality(ToSet(s))
        BY <4>2, LengthCounts
      <4> QED
        BY <4>1, <4>2, <4>3
    <3>8. Cardinality(A \cup B) = SlotsPerLod
      BY <3>2, <3>3, Zenon
    <3>9. PICK a, b, n : a = Cardinality(A) /\ b = Cardinality(B) /\ n = Cardinality(A \cap B)
      OBVIOUS
    <3>10. SlotsPerLod = a + b - n /\ n = 0 /\ a \in Nat /\ b \in Nat
      BY <3>5, <3>6, <3>8, <3>9, Zenon
    <3>11. a + b = SlotsPerLod
      BY <3>10
    <3> QED
      BY <3>1, <3>7, <3>9, <3>11, Zenon
  <2>3. ASSUME NEW h \in ColliderHandles
        PROVE  IF h \in DOMAIN bound THEN holders(h) = {bound[h]}
               ELSE h \in ToSet(colliders) /\ holders(h) = {}
    <3>1. h # NoCollider
      BY TerrainAssumption DEF ColliderHandles, NoCollider
    <3>2. CASE h \in DOMAIN bound
      <4>1. \A c \in DOMAIN resident : resident[c].collider = h => c = bound[h]
        BY <2>1, <3>1
      <4>2. holders(h) = {bound[h]}
        BY <2>1, <3>2, <4>1
      <4> QED
        BY <3>2, <4>2
    <3>3. CASE h \notin DOMAIN bound
      <4>1. holders(h) = {}
        BY <2>1, <3>1, <3>3
      <4>2. h \in ToSet(colliders)
        BY <2>1, <3>3
      <4> QED
        BY <3>3, <4>1, <4>2
    <3> QED
      BY <3>2, <3>3
  <2> QED
    BY <1>2, <2>2, <2>3 DEF CollidersAccounted
<1> QED
  BY <1>1, <1>2

(* However chunks are generated, dropped, uploaded, evicted and given         *)
(* colliders: no slot leaks or is handed out twice, the world and the         *)
(* streamer agree on what is being generated, and every collider of the       *)
(* physics world is free or bound for the one chunk that holds it.            *)
THEOREM ChunksStayAccounted == TerrainSpec => []ChunksAccounted
<1>1. TerrainInv => ChunksAccounted
  BY TypesFollow, SlotsFollow, JobsFollow, CollidersFollow DEF ChunksAccounted
<1> QED
  BY TerrainKept, <1>1, PTL

=============================================================================
