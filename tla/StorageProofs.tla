--------------------------- MODULE StorageProofs ----------------------------
(***************************************************************************)
(* No byte of a geometry arena is lost and none is given away twice, for   *)
(* every capacity and all sizes and alignments, whichever allocations      *)
(* fail, grow the arena or are rolled back.                                *)
(*                                                                         *)
(* The pool of generational handles, for every capacity, width of the      *)
(* generation and number of Holders: the free list keeps every slot that   *)
(* is not occupied, a handle never resolves to another allocation than its *)
(* own, and a Holder is the only owner of what it releases.                *)
(*                                                                         *)
(* And the storage of shader objects: shaders are replaced safely while    *)
(* they are drawn with and no edit is lost, for every number of files,     *)
(* stages, pipelines and frames in flight, and whatever files the stages   *)
(* share.                                                                  *)
(***************************************************************************)
EXTENDS FreeListAllocator, ObjectPool, ShaderReload, FiniteSetTheorems,
        WellFoundedInduction, TLAPS

Ranges == [offset: Nat, size: Nat]

(* An address-ordered list of ranges that do not overlap; a range whose        *)
(* position is in S may end where the following one starts.                  *)
Ordered(f, S) ==
  /\ f \in Seq(Ranges)
  /\ \A i \in 1 .. Len(f) : f[i].size > 0
  /\ \A i, j \in 1 .. Len(f) : i < j =>
       /\ End(f[i]) <= f[j].offset
       /\ End(f[i]) = f[j].offset => i \in S /\ j = i + 1

Covered(f) == { x \in Nat : \E i \in 1 .. Len(f) : x \in Bytes(f[i]) }

-----------------------------------------------------------------------------
(* Lists of ranges.                                                          *)

LEMMA RangeFacts ==
  /\ \A r \in Ranges : /\ r.offset \in Nat /\ r.size \in Nat /\ End(r) = r.offset + r.size
                       /\ \A x \in Nat : x \in Bytes(r) <=> r.offset <= x /\ x < End(r)
                       /\ Bytes(r) \subseteq Nat
  /\ \A o, n \in Nat : Slice(o, n) \in Ranges /\ Slice(o, n).offset = o /\ Slice(o, n).size = n
BY DEF Ranges, End, Bytes, Slice

LEMMA ListIsTyped ==
  ASSUME NEW f \in Seq(Ranges)
  PROVE  /\ Len(f) \in Nat /\ DOMAIN f = 1 .. Len(f)
         /\ \A i \in 1 .. Len(f) :
              /\ f[i] \in Ranges /\ f[i].offset \in Nat /\ f[i].size \in Nat
              /\ End(f[i]) = f[i].offset + f[i].size /\ End(f[i]) \in Nat
BY RangeFacts

LEMMA Removed ==
  ASSUME NEW f \in Seq(Ranges), NEW i \in 1 .. Len(f), NEW t, t = RemoveAt(f, i)
  PROVE  /\ t \in Seq(Ranges) /\ Len(t) = Len(f) - 1
         /\ \A k \in 1 .. Len(t) : t[k] = IF k < i THEN f[k] ELSE f[k + 1]
BY DEF RemoveAt

LEMMA Concatenated ==
  ASSUME NEW a \in Seq(Ranges), NEW d \in Seq(Ranges)
  PROVE  /\ a \o d \in Seq(Ranges) /\ Len(a \o d) = Len(a) + Len(d)
         /\ \A k \in 1 .. Len(a) : (a \o d)[k] = a[k]
         /\ \A k \in 1 .. Len(d) : (a \o d)[k + Len(a)] = d[k]
OBVIOUS

(* What a list of three parts has at every position.                         *)
IsJoined(t, a, c, d) ==
  /\ t \in Seq(Ranges) /\ Len(t) = Len(a) + Len(c) + Len(d)
  /\ \A k \in 1 .. Len(a) : t[k] = a[k]
  /\ \A k \in 1 .. Len(c) : t[k + Len(a)] = c[k]
  /\ \A k \in 1 .. Len(d) : t[k + Len(a) + Len(c)] = d[k]

LEMMA Joined ==
  ASSUME NEW a \in Seq(Ranges), NEW c \in Seq(Ranges), NEW d \in Seq(Ranges)
  PROVE  IsJoined(a \o c \o d, a, c, d)
<1>1. PICK m, t : m = a \o c /\ t = m \o d
  OBVIOUS
<1>2. /\ m \in Seq(Ranges) /\ Len(m) = Len(a) + Len(c)
      /\ \A k \in 1 .. Len(a) : m[k] = a[k]
      /\ \A k \in 1 .. Len(c) : m[k + Len(a)] = c[k]
  BY <1>1, Concatenated
<1>3. /\ t \in Seq(Ranges) /\ Len(t) = Len(m) + Len(d)
      /\ \A k \in 1 .. Len(m) : t[k] = m[k]
      /\ \A k \in 1 .. Len(d) : t[k + Len(m)] = d[k]
  BY <1>1, <1>2, Concatenated
<1>4. Len(a) \in Nat /\ Len(c) \in Nat /\ Len(d) \in Nat
  OBVIOUS
<1>5. \A k \in 1 .. Len(c) : t[k + Len(a)] = c[k]
  BY <1>2, <1>3, <1>4
<1>. QED  BY <1>1, <1>2, <1>3, <1>4, <1>5 DEF IsJoined

LEMMA Parts ==
  ASSUME NEW f \in Seq(Ranges), NEW i \in 1 .. Len(f) + 1
  PROVE  /\ SubSeq(f, 1, i - 1) \in Seq(Ranges) /\ Len(SubSeq(f, 1, i - 1)) = i - 1
         /\ \A k \in 1 .. i - 1 : SubSeq(f, 1, i - 1)[k] = f[k]
         /\ SubSeq(f, i, Len(f)) \in Seq(Ranges) /\ Len(SubSeq(f, i, Len(f))) = Len(f) + 1 - i
         /\ \A k \in 1 .. Len(f) + 1 - i : SubSeq(f, i, Len(f))[k] = f[k + i - 1]
OBVIOUS

LEMMA InsertedAt ==
  ASSUME NEW f \in Seq(Ranges), NEW i \in 1 .. Len(f) + 1, NEW r \in Ranges
  PROVE  LET t == InsertAt(f, i, r)
         IN /\ t \in Seq(Ranges) /\ Len(t) = Len(f) + 1
            /\ \A k \in 1 .. Len(t) :
                 t[k] = IF k < i THEN f[k] ELSE IF k = i THEN r ELSE f[k - 1]
<1>1. PICK a, c, d : a = SubSeq(f, 1, i - 1) /\ c = << r >> /\ d = SubSeq(f, i, Len(f))
  OBVIOUS
<1>2. /\ a \in Seq(Ranges) /\ Len(a) = i - 1 /\ \A k \in 1 .. i - 1 : a[k] = f[k]
      /\ d \in Seq(Ranges) /\ Len(d) = Len(f) + 1 - i
      /\ \A k \in 1 .. Len(f) + 1 - i : d[k] = f[k + i - 1]
  BY <1>1, Parts
<1>3. c \in Seq(Ranges) /\ Len(c) = 1 /\ c[1] = r
  BY <1>1
<1>4. PICK t : t = a \o c \o d
  OBVIOUS
<1>5. IsJoined(t, a, c, d)
  BY <1>2, <1>3, <1>4, Joined
<1>6. Len(f) \in Nat /\ t \in Seq(Ranges) /\ Len(t) = Len(f) + 1
  BY <1>2, <1>3, <1>5 DEF IsJoined
<1>7. ASSUME NEW k \in 1 .. Len(t)
      PROVE  t[k] = IF k < i THEN f[k] ELSE IF k = i THEN r ELSE f[k - 1]
  <2>1. CASE k < i
    BY <1>2, <1>5, <2>1 DEF IsJoined
  <2>2. CASE k = i
    <3>1. t[1 + Len(a)] = c[1]
      BY <1>3, <1>5 DEF IsJoined
    <3>. QED  BY <1>2, <1>3, <2>2, <3>1
  <2>3. CASE k > i
    <3>1. k - i \in 1 .. Len(d) /\ k - i + Len(a) + Len(c) = k /\ k - i + i - 1 = k - 1
      BY <1>2, <1>3, <1>6, <2>3
    <3>2. t[k] = d[k - i] /\ d[k - i] = f[k - 1]
      BY <1>2, <1>5, <3>1 DEF IsJoined
    <3>. QED  BY <2>3, <3>2
  <2>. QED  BY <2>1, <2>2, <2>3
<1>. QED  BY <1>1, <1>4, <1>6, <1>7 DEF InsertAt

LEMMA Spliced ==
  ASSUME NEW f \in Seq(Ranges), NEW i \in 1 .. Len(f), NEW c \in Seq(Ranges)
  PROVE  LET t == SubSeq(f, 1, i - 1) \o c \o SubSeq(f, i + 1, Len(f))
         IN /\ t \in Seq(Ranges) /\ Len(t) = Len(f) - 1 + Len(c)
            /\ \A k \in 1 .. Len(t) :
                 t[k] = IF k < i THEN f[k]
                        ELSE IF k < i + Len(c) THEN c[k - i + 1] ELSE f[k + 1 - Len(c)]
<1>1. PICK a, d : a = SubSeq(f, 1, i - 1) /\ d = SubSeq(f, i + 1, Len(f))
  OBVIOUS
<1>2. /\ a \in Seq(Ranges) /\ Len(a) = i - 1 /\ \A k \in 1 .. i - 1 : a[k] = f[k]
      /\ d \in Seq(Ranges) /\ Len(d) = Len(f) - i
      /\ \A k \in 1 .. Len(f) - i : d[k] = f[k + i]
  <2>1. i \in 1 .. Len(f) + 1 /\ i + 1 \in 1 .. Len(f) + 1 /\ Len(f) \in Nat
    OBVIOUS
  <2>2. a \in Seq(Ranges) /\ Len(a) = i - 1 /\ \A k \in 1 .. i - 1 : a[k] = f[k]
    BY <1>1, <2>1, Parts
  <2>3. /\ d \in Seq(Ranges) /\ Len(d) = Len(f) + 1 - (i + 1)
        /\ \A k \in 1 .. Len(f) + 1 - (i + 1) : d[k] = f[k + (i + 1) - 1]
    BY <1>1, <2>1, Parts
  <2>4. ASSUME NEW k \in 1 .. Len(f) - i PROVE d[k] = f[k + i]
    <3>1. k \in 1 .. Len(f) + 1 - (i + 1) /\ k + (i + 1) - 1 = k + i
      BY <2>1
    <3>. QED  BY <2>3, <3>1
  <2>5. Len(f) + 1 - (i + 1) = Len(f) - i
    BY <2>1
  <2>. QED  BY <2>2, <2>3, <2>4, <2>5
<1>4. PICK t : t = a \o c \o d
  OBVIOUS
<1>5. IsJoined(t, a, c, d)
  BY <1>2, <1>4, Joined
<1>6. /\ Len(f) \in Nat /\ Len(c) \in Nat /\ t \in Seq(Ranges)
      /\ Len(t) = Len(f) - 1 + Len(c)
  BY <1>2, <1>5 DEF IsJoined
<1>7. ASSUME NEW k \in 1 .. Len(t)
      PROVE  t[k] = IF k < i THEN f[k]
                    ELSE IF k < i + Len(c) THEN c[k - i + 1] ELSE f[k + 1 - Len(c)]
  <2>1. CASE k < i
    <3>1. k \in 1 .. Len(a) /\ k \in 1 .. i - 1
      BY <1>2, <1>6, <2>1
    <3>2. t[k] = a[k] /\ a[k] = f[k]
      BY <1>2, <1>5, <3>1 DEF IsJoined
    <3>. QED  BY <2>1, <3>2
  <2>2. CASE k >= i /\ k < i + Len(c)
    <3>1. k - i + 1 \in 1 .. Len(c) /\ k - i + 1 + Len(a) = k
      BY <1>2, <1>6, <2>2
    <3>2. t[k] = c[k - i + 1]
      BY <1>5, <3>1 DEF IsJoined
    <3>. QED  BY <2>2, <3>2
  <2>3. CASE k >= i + Len(c)
    <3>1. /\ k + 1 - Len(c) - i \in 1 .. Len(d)
          /\ k + 1 - Len(c) - i + Len(a) + Len(c) = k
          /\ k + 1 - Len(c) - i + i = k + 1 - Len(c)
      BY <1>2, <1>6, <2>3
    <3>2. t[k] = d[k + 1 - Len(c) - i] /\ d[k + 1 - Len(c) - i] = f[k + 1 - Len(c)]
      BY <1>2, <1>5, <3>1 DEF IsJoined
    <3>. QED  BY <1>6, <2>3, <3>2
  <2>. QED  BY <1>6, <2>1, <2>2, <2>3
<1>. QED  BY <1>1, <1>4, <1>6, <1>7

-----------------------------------------------------------------------------
(* Ranges are taken out of the list.                                         *)

LEMMA OrderedFacts ==
  ASSUME NEW f, NEW S, Ordered(f, S)
  PROVE  /\ f \in Seq(Ranges) /\ Len(f) \in Nat /\ DOMAIN f = 1 .. Len(f)
         /\ \A i \in 1 .. Len(f) :
              /\ f[i] \in Ranges /\ f[i].offset \in Nat /\ f[i].size \in Nat /\ End(f[i]) \in Nat
              /\ f[i].size > 0 /\ f[i].offset < End(f[i])
              /\ End(f[i]) = f[i].offset + f[i].size
              /\ \A x \in Nat : x \in Bytes(f[i]) <=> f[i].offset <= x /\ x < End(f[i])
         /\ S = {} => \A i, j \in 1 .. Len(f) : i < j => End(f[i]) < f[j].offset
<1>1. f \in Seq(Ranges)
  BY DEF Ordered
<1>2. ASSUME NEW i \in 1 .. Len(f)
      PROVE  /\ f[i] \in Ranges /\ f[i].offset \in Nat /\ f[i].size \in Nat /\ End(f[i]) \in Nat
             /\ f[i].size > 0 /\ f[i].offset < End(f[i])
             /\ End(f[i]) = f[i].offset + f[i].size
             /\ \A x \in Nat : x \in Bytes(f[i]) <=> f[i].offset <= x /\ x < End(f[i])
  <2>1. PICK r \in Ranges : r = f[i]
    BY <1>1
  <2>2. r.size > 0
    BY <2>1 DEF Ordered
  <2>3. r.offset \in Nat /\ r.size \in Nat /\ End(r) = r.offset + r.size
    BY RangeFacts
  <2>. QED  BY <2>1, <2>2, <2>3, RangeFacts
<1>3. ASSUME S = {}, NEW i \in 1 .. Len(f), NEW j \in 1 .. Len(f), i < j
      PROVE  End(f[i]) < f[j].offset
  <2>1. End(f[i]) <= f[j].offset /\ End(f[i]) # f[j].offset
    BY <1>3 DEF Ordered
  <2>2. End(f[i]) \in Nat /\ f[j].offset \in Nat
    BY <1>2
  <2>. QED  BY <2>1, <2>2
<1>. QED  BY <1>1, <1>2, <1>3

LEMMA PartReplaced ==
  ASSUME NEW f, Ordered(f, {}), NEW i \in 1 .. Len(f), NEW c, Ordered(c, {}),
         \A k \in 1 .. Len(c) : f[i].offset <= c[k].offset /\ End(c[k]) <= End(f[i])
  PROVE  LET t == SubSeq(f, 1, i - 1) \o c \o SubSeq(f, i + 1, Len(f))
         IN /\ Ordered(t, {})
            /\ Covered(t) = (Covered(f) \ Bytes(f[i])) \cup Covered(c)
<1>1. f \in Seq(Ranges) /\ c \in Seq(Ranges) /\ Len(f) \in Nat /\ Len(c) \in Nat
  BY OrderedFacts
<1>2. PICK t : t = SubSeq(f, 1, i - 1) \o c \o SubSeq(f, i + 1, Len(f))
  OBVIOUS
<1>3. /\ t \in Seq(Ranges) /\ Len(t) = Len(f) - 1 + Len(c)
      /\ \A k \in 1 .. Len(t) :
           t[k] = IF k < i THEN f[k]
                  ELSE IF k < i + Len(c) THEN c[k - i + 1] ELSE f[k + 1 - Len(c)]
  BY <1>1, <1>2, Spliced
<1> DEFINE From(k) == IF k < i THEN k ELSE IF k < i + Len(c) THEN i ELSE k + 1 - Len(c)
<1>4. /\ \A k \in 1 .. Len(f) : /\ f[k].offset \in Nat /\ End(f[k]) \in Nat /\ f[k].size > 0
                               /\ f[k].offset < End(f[k])
      /\ \A k, l \in 1 .. Len(f) : k < l => End(f[k]) < f[l].offset
      /\ \A k \in 1 .. Len(c) : /\ c[k].offset \in Nat /\ End(c[k]) \in Nat /\ c[k].size > 0
      /\ \A k, l \in 1 .. Len(c) : k < l => End(c[k]) < c[l].offset
      /\ \A k \in 1 .. Len(t) : t[k].offset \in Nat /\ End(t[k]) \in Nat
  <2>1. \A k \in 1 .. Len(t) : t[k].offset \in Nat /\ End(t[k]) \in Nat
    BY <1>3, ListIsTyped
  <2>. QED  BY <2>1, OrderedFacts
<1>5. ASSUME NEW k \in 1 .. Len(t)
      PROVE  /\ From(k) \in 1 .. Len(f) /\ t[k].size > 0
             /\ f[From(k)].offset <= t[k].offset /\ End(t[k]) <= End(f[From(k)])
             /\ From(k) = i <=> k >= i /\ k < i + Len(c)
             /\ From(k) # i => t[k] = f[From(k)]
  <2>1. CASE k < i
    <3>1. From(k) = k /\ k \in 1 .. Len(f) /\ t[k] = f[k]
      BY <1>1, <1>3, <2>1
    <3>. QED  BY <1>4, <2>1, <3>1
  <2>2. CASE k >= i /\ k < i + Len(c)
    <3>1. PICK p \in 1 .. Len(c) : p = k - i + 1
      BY <1>1, <1>3, <2>2
    <3>2. t[k] = c[p] /\ From(k) = i
      BY <1>3, <2>2, <3>1
    <3>. QED  BY <1>4, <2>2, <3>2
  <2>3. CASE k >= i + Len(c)
    <3>1. From(k) = k + 1 - Len(c) /\ From(k) \in 1 .. Len(f) /\ From(k) > i
      BY <1>1, <1>3, <2>3
    <3>2. t[k] = f[From(k)]
      BY <1>1, <1>3, <2>3, <3>1
    <3>. QED  BY <1>1, <1>4, <2>3, <3>1, <3>2
  <2>. QED  BY <1>1, <2>1, <2>2, <2>3
<1>6. ASSUME NEW j \in 1 .. Len(t), NEW k \in 1 .. Len(t), j < k
      PROVE  End(t[j]) < t[k].offset
  <2>1. CASE From(j) < From(k)
    <3>1. PICK p \in 1 .. Len(f), q \in 1 .. Len(f) : p = From(j) /\ q = From(k)
      BY <1>5
    <3>2. End(f[p]) < f[q].offset
      BY <1>4, <2>1, <3>1
    <3>3. End(t[j]) <= End(f[p]) /\ f[q].offset <= t[k].offset
      BY <1>5, <3>1
    <3>. HIDE DEF From
    <3>. QED  BY <1>4, <3>2, <3>3
  <2>2. CASE ~(From(j) < From(k))
    <3>1. From(j) = i /\ From(k) = i
      BY <1>1, <1>3, <1>6, <2>2
    <3>2. j >= i /\ k >= i /\ j < i + Len(c) /\ k < i + Len(c)
      BY <1>5, <3>1
    <3>3. j - i + 1 \in 1 .. Len(c) /\ k - i + 1 \in 1 .. Len(c) /\ j - i + 1 < k - i + 1
      BY <1>1, <1>6, <3>2
    <3>4. PICK p \in 1 .. Len(c), q \in 1 .. Len(c) : p = j - i + 1 /\ q = k - i + 1
      BY <3>3
    <3>5. End(c[p]) < c[q].offset
      BY <1>4, <3>3, <3>4
    <3>6. ~(j < i) /\ ~(k < i)
      BY <1>1, <1>3, <3>2
    <3>7. t[j] = c[p] /\ t[k] = c[q]
      BY <1>3, <3>2, <3>4, <3>6
    <3>. QED  BY <3>5, <3>7
  <2>. QED  BY <2>1, <2>2
<1>7. Ordered(t, {})
  BY <1>3, <1>4, <1>5, <1>6 DEF Ordered
<1>8. ASSUME NEW x \in Covered(t) PROVE x \in (Covered(f) \ Bytes(f[i])) \cup Covered(c)
  <2>1. PICK k \in 1 .. Len(t) : x \in Nat /\ t[k].offset <= x /\ x < End(t[k])
    <3>1. PICK k \in 1 .. Len(t) : x \in Nat /\ x \in Bytes(t[k])
      BY <1>8 DEF Covered
    <3>. QED  BY <1>3, <3>1, ListIsTyped, RangeFacts
  <2>2. CASE From(k) = i
    <3>1. k >= i /\ k < i + Len(c)
      BY <1>5, <2>2
    <3>2. PICK p \in 1 .. Len(c) : p = k - i + 1
      BY <1>1, <1>3, <3>1
    <3>3. t[k] = c[p]
      BY <1>1, <1>3, <3>1, <3>2
    <3>4. x \in Bytes(c[p])
      BY <2>1, <3>3, OrderedFacts
    <3>. QED  BY <2>1, <3>4 DEF Covered
  <2>3. CASE From(k) # i
    <3>1. PICK p \in 1 .. Len(f) : p = From(k) /\ p # i /\ t[k] = f[p]
      BY <1>5, <2>3
    <3>2. End(f[p]) < f[i].offset \/ End(f[i]) < f[p].offset
      <4>1. p < i \/ i < p
        BY <1>1, <3>1
      <4>. QED  BY <1>4, <4>1
    <3>3. x \notin Bytes(f[i])
      <4>1. ~(f[i].offset <= x /\ x < End(f[i]))
        BY <1>4, <2>1, <3>1, <3>2
      <4>. QED  BY <2>1, <4>1, OrderedFacts
    <3>4. x \in Covered(f)
      <4>1. x \in Bytes(f[p])
        BY <2>1, <3>1, OrderedFacts
      <4>. QED  BY <2>1, <4>1 DEF Covered
    <3>. QED  BY <3>3, <3>4
  <2>. QED  BY <2>2, <2>3
<1>9. ASSUME NEW x \in (Covered(f) \ Bytes(f[i])) \cup Covered(c) PROVE x \in Covered(t)
  <2>1. CASE x \in Covered(c)
    <3>1. PICK p \in 1 .. Len(c) : x \in Nat /\ x \in Bytes(c[p])
      BY <2>1 DEF Covered
    <3>2. p + i - 1 \in 1 .. Len(t) /\ t[p + i - 1] = c[p]
      <4>1. PICK k \in 1 .. Len(t) : k = p + i - 1
        BY <1>1, <1>3
      <4>2. ~(k < i) /\ k < i + Len(c) /\ k - i + 1 = p
        BY <1>1, <4>1
      <4>. QED  BY <1>3, <4>1, <4>2
    <3>. QED  BY <3>1, <3>2 DEF Covered
  <2>2. CASE x \in Covered(f) \ Bytes(f[i])
    <3>1. PICK p \in 1 .. Len(f) : x \in Nat /\ x \in Bytes(f[p]) /\ p # i
      BY <2>2 DEF Covered
    <3>2. CASE p < i
      <4>1. PICK k \in 1 .. Len(t) : k = p
        BY <1>1, <1>3, <3>2
      <4>2. t[k] = f[k]
        BY <1>3, <3>2, <4>1
      <4>. QED  BY <3>1, <4>1, <4>2 DEF Covered
    <3>3. CASE p > i
      <4>1. PICK k \in 1 .. Len(t) : k = p - 1 + Len(c)
        <5>1. p - 1 + Len(c) \in 1 .. Len(f) - 1 + Len(c)
          BY <1>1, <3>3
        <5>. QED  BY <1>3, <5>1
      <4>2. ~(k < i) /\ ~(k < i + Len(c)) /\ k + 1 - Len(c) = p
        BY <1>1, <3>3, <4>1
      <4>3. t[k] = f[p]
        BY <1>3, <4>2
      <4>. QED  BY <3>1, <4>3 DEF Covered
    <3>. QED  BY <3>1, <3>2, <3>3
  <2>. QED  BY <2>1, <2>2
<1>10. Covered(t) = (Covered(f) \ Bytes(f[i])) \cup Covered(c)
  BY <1>8, <1>9
<1>. QED  BY <1>2, <1>7, <1>10

(* allocate() leaves what is free around the slice.                          *)
LEMMA CarveFacts ==
  ASSUME NEW r \in Ranges, NEW taken \in Ranges, taken.size > 0,
         r.offset <= taken.offset, End(taken) <= End(r)
  PROVE  LET c == Carve(r, taken)
         IN /\ Ordered(c, {})
            /\ \A k \in 1 .. Len(c) : r.offset <= c[k].offset /\ End(c[k]) <= End(r)
            /\ Covered(c) = Bytes(r) \ Bytes(taken)
<1>1. /\ r.offset \in Nat /\ r.size \in Nat /\ End(r) = r.offset + r.size
      /\ taken.offset \in Nat /\ taken.size \in Nat /\ End(taken) = taken.offset + taken.size
  BY RangeFacts
<1>2. PICK c : c = Carve(r, taken)
  OBVIOUS
<1>3. PICK front, back : /\ front = Slice(r.offset, taken.offset - r.offset)
                         /\ back = Slice(End(taken), End(r) - End(taken))
  OBVIOUS
<1>4. /\ taken.offset > r.offset =>
           /\ front \in Ranges /\ front.size > 0 /\ front.offset = r.offset
           /\ End(front) = taken.offset
      /\ End(taken) < End(r) =>
           /\ back \in Ranges /\ back.size > 0 /\ back.offset = End(taken) /\ End(back) = End(r)
  <2>1. ASSUME taken.offset > r.offset
        PROVE  /\ front \in Ranges /\ front.size > 0 /\ front.offset = r.offset
               /\ End(front) = taken.offset
    <3>1. PICK n \in Nat : n = taken.offset - r.offset /\ n > 0
      BY <1>1, <2>1
    <3>2. front \in Ranges /\ front.offset = r.offset /\ front.size = n
      BY <1>1, <1>3, <3>1, RangeFacts
    <3>. QED  BY <1>1, <3>1, <3>2 DEF End
  <2>2. ASSUME End(taken) < End(r)
        PROVE  /\ back \in Ranges /\ back.size > 0 /\ back.offset = End(taken)
               /\ End(back) = End(r)
    <3>1. PICK n \in Nat, o \in Nat : n = End(r) - End(taken) /\ n > 0 /\ o = End(taken)
      BY <1>1, <2>2
    <3>2. back \in Ranges /\ back.offset = o /\ back.size = n
      BY <1>3, <3>1, RangeFacts
    <3>3. End(back) = o + n /\ o + n = End(r)
      BY <1>1, <3>1, <3>2, RangeFacts
    <3>. QED  BY <3>1, <3>2, <3>3
  <2>. QED  BY <2>1, <2>2
<1>5. /\ \A x \in Nat : x \in Bytes(r) <=> r.offset <= x /\ x < End(r)
      /\ \A x \in Nat : x \in Bytes(taken) <=> taken.offset <= x /\ x < End(taken)
      /\ taken.offset > r.offset =>
           \A x \in Nat : x \in Bytes(front) <=> r.offset <= x /\ x < taken.offset
      /\ End(taken) < End(r) =>
           \A x \in Nat : x \in Bytes(back) <=> End(taken) <= x /\ x < End(r)
      /\ Bytes(r) \subseteq Nat
  BY <1>4, RangeFacts
<1>6. c = (IF taken.offset > r.offset THEN << front >> ELSE << >>)
             \o (IF End(taken) < End(r) THEN << back >> ELSE << >>)
  BY <1>2, <1>3 DEF Carve
<1>7. CASE taken.offset > r.offset /\ End(taken) < End(r)
  <2>1. PICK a, b : a = << front >> /\ b = << back >>
    OBVIOUS
  <2>2. c \in Seq(Ranges) /\ Len(c) = 2 /\ c[1] = front /\ c[2] = back
    <3>1. /\ a \in Seq(Ranges) /\ Len(a) = 1 /\ a[1] = front
          /\ b \in Seq(Ranges) /\ Len(b) = 1 /\ b[1] = back
      BY <1>4, <1>7, <2>1
    <3>2. c = a \o b
      BY <1>6, <1>7, <2>1
    <3>3. /\ c \in Seq(Ranges) /\ Len(c) = 2 /\ c[1] = a[1] /\ c[1 + 1] = b[1]
      <4>1. c \in Seq(Ranges) /\ Len(c) = Len(a) + Len(b)
        BY <3>1, <3>2, Concatenated
      <4>2. 1 \in 1 .. Len(a) /\ 1 \in 1 .. Len(b)
        BY <3>1
      <4>3. c[1] = a[1] /\ c[1 + Len(a)] = b[1]
        BY <3>1, <3>2, <4>2, Concatenated
      <4>. QED  BY <3>1, <4>1, <4>3
    <3>. QED  BY <3>1, <3>3
  <2>3. Ordered(c, {})
    BY <1>1, <1>4, <1>7, <2>2 DEF Ordered
  <2>4. \A k \in 1 .. Len(c) : r.offset <= c[k].offset /\ End(c[k]) <= End(r)
    BY <1>1, <1>4, <1>7, <2>2
  <2>5. Covered(c) = { x \in Nat : x \in Bytes(front) \/ x \in Bytes(back) }
    BY <2>2 DEF Covered
  <2>6. Covered(c) = Bytes(r) \ Bytes(taken)
    BY <1>1, <1>5, <1>7, <2>5
  <2>. QED  BY <1>2, <2>3, <2>4, <2>6
<1>8. CASE taken.offset > r.offset /\ ~(End(taken) < End(r))
  <2>1. c = << front >>
    BY <1>4, <1>6, <1>8
  <2>2. c \in Seq(Ranges) /\ Len(c) = 1 /\ c[1] = front
    BY <1>4, <1>8, <2>1
  <2>3. Ordered(c, {})
    BY <1>1, <1>4, <1>8, <2>2 DEF Ordered
  <2>4. \A k \in 1 .. Len(c) : r.offset <= c[k].offset /\ End(c[k]) <= End(r)
    BY <1>1, <1>4, <1>8, <2>2
  <2>5. Covered(c) = { x \in Nat : x \in Bytes(front) }
    BY <2>2 DEF Covered
  <2>6. Covered(c) = Bytes(r) \ Bytes(taken)
    BY <1>1, <1>5, <1>8, <2>5
  <2>. QED  BY <1>2, <2>3, <2>4, <2>6
<1>9. CASE ~(taken.offset > r.offset) /\ End(taken) < End(r)
  <2>1. c = << back >>
    BY <1>4, <1>6, <1>9
  <2>2. c \in Seq(Ranges) /\ Len(c) = 1 /\ c[1] = back
    BY <1>4, <1>9, <2>1
  <2>3. Ordered(c, {})
    BY <1>1, <1>4, <1>9, <2>2 DEF Ordered
  <2>4. \A k \in 1 .. Len(c) : r.offset <= c[k].offset /\ End(c[k]) <= End(r)
    BY <1>1, <1>4, <1>9, <2>2
  <2>5. Covered(c) = { x \in Nat : x \in Bytes(back) }
    BY <2>2 DEF Covered
  <2>6. Covered(c) = Bytes(r) \ Bytes(taken)
    BY <1>1, <1>5, <1>9, <2>5
  <2>. QED  BY <1>2, <2>3, <2>4, <2>6
<1>10. CASE ~(taken.offset > r.offset) /\ ~(End(taken) < End(r))
  <2>1. c = << >>
    BY <1>6, <1>10
  <2>2. c \in Seq(Ranges) /\ Len(c) = 0
    BY <2>1
  <2>3. Ordered(c, {})
    BY <2>2 DEF Ordered
  <2>4. \A k \in 1 .. Len(c) : r.offset <= c[k].offset /\ End(c[k]) <= End(r)
    BY <2>2
  <2>5. Covered(c) = {}
    BY <2>2 DEF Covered
  <2>6. Covered(c) = Bytes(r) \ Bytes(taken)
    BY <1>1, <1>5, <1>10, <2>5
  <2>. QED  BY <1>2, <2>3, <2>4, <2>6
<1>. QED  BY <1>7, <1>8, <1>9, <1>10

LEMMA TakenOut ==
  ASSUME NEW f, Ordered(f, {}), NEW i \in 1 .. Len(f), NEW taken \in Ranges, taken.size > 0,
         f[i].offset <= taken.offset, End(taken) <= End(f[i])
  PROVE  LET t == SubSeq(f, 1, i - 1) \o Carve(f[i], taken) \o SubSeq(f, i + 1, Len(f))
         IN Ordered(t, {}) /\ Covered(t) = Covered(f) \ Bytes(taken)
<1>1. PICK r, c : r = f[i] /\ c = Carve(r, taken)
  OBVIOUS
<1>2. /\ r \in Ranges /\ End(r) \in Nat /\ r.offset \in Nat
      /\ \A x \in Nat : x \in Bytes(r) <=> r.offset <= x /\ x < End(r)
  BY <1>1, OrderedFacts
<1>3. /\ Ordered(c, {})
      /\ \A k \in 1 .. Len(c) : r.offset <= c[k].offset /\ End(c[k]) <= End(r)
      /\ Covered(c) = Bytes(r) \ Bytes(taken)
  BY <1>1, <1>2, CarveFacts
<1>4. PICK t : t = SubSeq(f, 1, i - 1) \o c \o SubSeq(f, i + 1, Len(f))
  OBVIOUS
<1>5. Ordered(t, {}) /\ Covered(t) = (Covered(f) \ Bytes(r)) \cup Covered(c)
  BY <1>1, <1>3, <1>4, PartReplaced
<1>6. Bytes(taken) \subseteq Bytes(r)
  <2>1. /\ taken.offset \in Nat /\ End(taken) \in Nat /\ Bytes(taken) \subseteq Nat
        /\ \A x \in Nat : x \in Bytes(taken) <=> taken.offset <= x /\ x < End(taken)
    BY RangeFacts
  <2>. QED  BY <1>1, <1>2, <2>1
<1>7. Bytes(r) \subseteq Covered(f)
  BY <1>1, <1>2, RangeFacts DEF Covered
<1>8. Covered(t) = Covered(f) \ Bytes(taken)
  BY <1>3, <1>5, <1>6, <1>7
<1>. QED  BY <1>1, <1>4, <1>5, <1>8

-----------------------------------------------------------------------------
(* A range comes back.                                                       *)

(* Some number of every set of numbers is the least one.                     *)
LEMMA LeastNumber ==
  ASSUME NEW S \in SUBSET Nat, S # {}
  PROVE  \E m \in S : \A s \in S : m <= s
<1> DEFINE R == OpToRel(<, Nat)
<1>1. \A s, m \in Nat : << s, m >> \in R <=> s < m
  BY Zenon DEF OpToRel
<1> HIDE DEF R
<1>2. IsWellFoundedOn(R, Nat)
  BY NatLessThanWellFounded DEF R
<1>3. PICK m \in S : \A s \in S : ~ (<< s, m >> \in R)
  BY <1>2, WFMin
<1>4. \A s \in S : ~ (s < m)
  BY <1>1, <1>3, Zenon
<1>. QED  BY <1>4

(* lower_bound(): what lies before it starts in front of the offset.         *)
LEMMA PositionSplits ==
  ASSUME NEW f, Ordered(f, {}), NEW o \in Nat
  PROVE  LET i == InsertPosition(f, o)
         IN /\ i \in 1 .. Len(f) + 1
            /\ \A k \in 1 .. Len(f) : f[k].offset < o <=> k < i
<1>1. /\ Len(f) \in Nat /\ DOMAIN f = 1 .. Len(f)
      /\ \A k \in 1 .. Len(f) : f[k].offset \in Nat /\ End(f[k]) \in Nat /\ f[k].offset < End(f[k])
      /\ \A k, l \in 1 .. Len(f) : k < l => End(f[k]) < f[l].offset
  BY OrderedFacts
<1> DEFINE T == { k \in 1 .. Len(f) + 1 : k <= Len(f) => o <= f[k].offset }
<1>2. T \in SUBSET Nat /\ Len(f) + 1 \in T
  BY <1>1
<1>3. PICK m \in T : \A k \in T : m <= k
  <2> HIDE DEF T
  <2>. QED  BY <1>2, LeastNumber
<1>4. m \in 1 .. Len(f) + 1
  OBVIOUS
<1>5. ASSUME NEW k \in 1 .. Len(f) PROVE f[k].offset < o <=> k < m
  <2>1. CASE k < m
    <3>1. k \notin T
      BY <1>1, <1>3, <1>4, <2>1
    <3>. QED  BY <1>1, <2>1, <3>1
  <2>2. CASE k = m
    BY <1>1, <1>3, <2>2
  <2>3. CASE k > m
    <3>1. m \in 1 .. Len(f) /\ o <= f[m].offset
      BY <1>1, <1>3, <1>4, <2>3
    <3>2. f[m].offset < f[k].offset
      BY <1>1, <2>3, <3>1
    <3>. QED  BY <1>1, <1>4, <2>3, <3>1, <3>2
  <2>. QED  BY <1>4, <2>1, <2>2, <2>3
<1>6. { k \in DOMAIN f : f[k].offset < o } = 1 .. m - 1
  BY <1>1, <1>4, <1>5
<1>7. Cardinality(1 .. m - 1) = m - 1
  BY <1>1, <1>4, FS_Interval
<1>8. InsertPosition(f, o) = m
  <2>1. InsertPosition(f, o) = Cardinality(1 .. m - 1) + 1
    BY <1>6, Zenon DEF InsertPosition
  <2>2. m \in Int
    BY <1>1, <1>4
  <2>. QED  BY <1>7, <2>1, <2>2
<1>. QED  BY <1>4, <1>5, <1>8

(* A range that was not free is inserted; it may touch its neighbours.       *)
LEMMA Inserted ==
  ASSUME NEW f, Ordered(f, {}), NEW r \in Ranges, r.size > 0, Covered(f) \cap Bytes(r) = {}
  PROVE  LET i == InsertPosition(f, r.offset)
             t == InsertAt(f, i, r)
         IN /\ i \in 1 .. Len(t) /\ Ordered(t, {i - 1, i})
            /\ Covered(t) = Covered(f) \cup Bytes(r)
<1>1. /\ f \in Seq(Ranges) /\ Len(f) \in Nat
      /\ \A k \in 1 .. Len(f) : /\ f[k].offset \in Nat /\ End(f[k]) \in Nat
                               /\ f[k].offset < End(f[k]) /\ f[k].size > 0
      /\ \A k \in 1 .. Len(f) :
           \A x \in Nat : x \in Bytes(f[k]) <=> f[k].offset <= x /\ x < End(f[k])
      /\ \A k, l \in 1 .. Len(f) : k < l => End(f[k]) < f[l].offset
  BY OrderedFacts
<1>2. /\ r.offset \in Nat /\ End(r) \in Nat /\ r.offset < End(r) /\ Bytes(r) \subseteq Nat
      /\ \A x \in Nat : x \in Bytes(r) <=> r.offset <= x /\ x < End(r)
  BY RangeFacts
<1>3. PICK i : i = InsertPosition(f, r.offset)
  OBVIOUS
<1>4. i \in 1 .. Len(f) + 1 /\ \A k \in 1 .. Len(f) : f[k].offset < r.offset <=> k < i
  BY <1>2, <1>3, PositionSplits
<1>5. PICK t : t = InsertAt(f, i, r)
  OBVIOUS
<1>6. /\ t \in Seq(Ranges) /\ Len(t) = Len(f) + 1
      /\ \A k \in 1 .. Len(t) :
           t[k] = IF k < i THEN f[k] ELSE IF k = i THEN r ELSE f[k - 1]
  BY <1>1, <1>4, <1>5, InsertedAt
<1>7. /\ i \in 1 .. Len(t) /\ t[i] = r
      /\ \A k \in 1 .. Len(f) : k < i => k \in 1 .. Len(t) /\ t[k] = f[k]
      /\ \A k \in 1 .. Len(f) : k >= i => k + 1 \in 1 .. Len(t) /\ t[k + 1] = f[k]
  <2>1. i \in 1 .. Len(t) /\ t[i] = r
    BY <1>1, <1>4, <1>6
  <2>2. ASSUME NEW k \in 1 .. Len(f), k < i PROVE k \in 1 .. Len(t) /\ t[k] = f[k]
    BY <1>1, <1>6, <2>2
  <2>3. ASSUME NEW k \in 1 .. Len(f), k >= i PROVE k + 1 \in 1 .. Len(t) /\ t[k + 1] = f[k]
    <3>1. PICK l \in 1 .. Len(t) : l = k + 1
      BY <1>1, <1>6
    <3>2. ~(l < i) /\ l # i /\ l - 1 = k
      BY <1>4, <2>3, <3>1
    <3>. QED  BY <1>6, <3>1, <3>2
  <2>. QED  BY <2>1, <2>2, <2>3
<1>8. ASSUME NEW k \in 1 .. Len(t), k # i
      PROVE  \E p \in 1 .. Len(f) : /\ t[k] = f[p]
                                    /\ (k < i => p = k) /\ (k > i => p = k - 1)
  <2>1. CASE k < i
    BY <1>1, <1>4, <1>6, <2>1
  <2>2. CASE k > i
    <3>1. PICK p \in 1 .. Len(f) : p = k - 1
      BY <1>1, <1>4, <1>6, <2>2
    <3>2. t[k] = f[p]
      BY <1>4, <1>6, <2>2, <3>1
    <3>. QED  BY <1>4, <2>2, <3>1, <3>2
  <2>. QED  BY <1>4, <1>8, <2>1, <2>2
<1>9. ASSUME NEW p \in 1 .. Len(f)
      PROVE  /\ p < i => End(f[p]) <= r.offset
             /\ p >= i => End(r) <= f[p].offset
  <2>1. \A x \in Nat : ~(x \in Bytes(f[p]) /\ x \in Bytes(r))
    BY DEF Covered
  <2>2. CASE p < i
    <3>1. f[p].offset <= r.offset /\ r.offset \in Bytes(r)
      BY <1>1, <1>2, <1>4, <2>2
    <3>2. ~(r.offset < End(f[p]))
      BY <1>1, <1>2, <2>1, <3>1
    <3>. QED  BY <1>1, <1>2, <1>4, <2>2, <3>2
  <2>3. CASE p >= i
    <3>1. r.offset <= f[p].offset /\ f[p].offset \in Bytes(f[p])
      BY <1>1, <1>2, <1>4, <2>3
    <3>2. ~(f[p].offset < End(r))
      BY <1>1, <1>2, <2>1, <3>1
    <3>. QED  BY <1>1, <1>2, <1>4, <2>3, <3>2
  <2>. QED  BY <1>4, <2>2, <2>3
<1>10. ASSUME NEW j \in 1 .. Len(t), NEW k \in 1 .. Len(t), j < k
       PROVE  /\ End(t[j]) <= t[k].offset
              /\ End(t[j]) = t[k].offset => j \in {i - 1, i} /\ k = j + 1
  <2>1. CASE j # i /\ k # i
    <3>1. PICK p \in 1 .. Len(f), q \in 1 .. Len(f) :
            t[j] = f[p] /\ t[k] = f[q] /\ p < q
      <4>1. PICK p \in 1 .. Len(f) : t[j] = f[p] /\ (j < i => p = j) /\ (j > i => p = j - 1)
        BY <1>8, <2>1
      <4>2. PICK q \in 1 .. Len(f) : t[k] = f[q] /\ (k < i => q = k) /\ (k > i => q = k - 1)
        BY <1>8, <2>1
      <4>3. p < q
        BY <1>4, <1>10, <2>1, <4>1, <4>2
      <4>. QED  BY <4>1, <4>2, <4>3
    <3>2. End(f[p]) < f[q].offset
      BY <1>1, <3>1
    <3>. QED  BY <1>1, <3>1, <3>2
  <2>2. CASE j = i
    <3>1. PICK q \in 1 .. Len(f) : t[k] = f[q] /\ q = k - 1 /\ q >= i
      BY <1>4, <1>8, <1>10, <2>2
    <3>2. End(r) <= f[q].offset
      BY <1>9, <3>1
    <3>3. CASE q = i
      BY <1>4, <1>7, <2>2, <3>1, <3>2, <3>3
    <3>4. CASE q > i
      <4>1. i \in 1 .. Len(f)
        BY <1>1, <1>4, <3>4
      <4>2. End(r) <= f[i].offset /\ f[i].offset < End(f[i]) /\ End(f[i]) < f[q].offset
        BY <1>1, <1>9, <3>4, <4>1
      <4>3. End(r) < f[q].offset
        BY <1>1, <1>2, <4>1, <4>2
      <4>. QED  BY <1>1, <1>2, <1>7, <2>2, <3>1, <4>3
    <3>. QED  BY <1>4, <3>1, <3>3, <3>4
  <2>3. CASE k = i
    <3>1. PICK p \in 1 .. Len(f) : t[j] = f[p] /\ p = j /\ p < i
      BY <1>4, <1>8, <1>10, <2>3
    <3>2. End(f[p]) <= r.offset
      BY <1>9, <3>1
    <3>3. CASE p = i - 1
      BY <1>4, <1>7, <2>3, <3>1, <3>2, <3>3
    <3>4. CASE p < i - 1
      <4>1. PICK q \in 1 .. Len(f) : q = i - 1
        BY <1>1, <1>4, <3>4
      <4>2. End(f[p]) < f[q].offset /\ f[q].offset < r.offset
        BY <1>1, <1>4, <3>4, <4>1
      <4>3. End(f[p]) < r.offset
        BY <1>1, <1>2, <4>2
      <4>. QED  BY <1>1, <1>2, <1>7, <2>3, <3>1, <4>3
    <3>. QED  BY <1>4, <3>1, <3>3, <3>4
  <2>. QED  BY <2>1, <2>2, <2>3
<1>11. Ordered(t, {i - 1, i})
  <2>1. \A k \in 1 .. Len(t) : t[k].size > 0
    BY <1>1, <1>7, <1>8
  <2>. QED  BY <1>6, <1>10, <2>1 DEF Ordered
<1>12. Covered(t) = Covered(f) \cup Bytes(r)
  <2>1. ASSUME NEW x \in Covered(t) PROVE x \in Covered(f) \cup Bytes(r)
    <3>1. PICK k \in 1 .. Len(t) : x \in Nat /\ x \in Bytes(t[k])
      BY <2>1 DEF Covered
    <3>. QED  BY <1>7, <1>8, <3>1 DEF Covered
  <2>2. ASSUME NEW x \in Covered(f) PROVE x \in Covered(t)
    <3>1. PICK p \in 1 .. Len(f) : x \in Nat /\ x \in Bytes(f[p])
      BY <2>2 DEF Covered
    <3>2. CASE p < i
      BY <1>7, <3>1, <3>2 DEF Covered
    <3>3. CASE p >= i
      BY <1>7, <3>1, <3>3 DEF Covered
    <3>. QED  BY <1>4, <3>2, <3>3
  <2>3. Bytes(r) \subseteq Covered(t)
    BY <1>2, <1>7 DEF Covered
  <2>. QED  BY <2>1, <2>2, <2>3
<1>. QED  BY <1>3, <1>5, <1>7, <1>11, <1>12

(* Position i no longer touches the one after it.                            *)
LEMMA Absorbed ==
  ASSUME NEW g, NEW S, Ordered(g, S), NEW i \in 1 .. Len(g), \A s \in S : s <= i
  PROVE  LET t == Absorbing(g, i)
         IN Ordered(t, S \ {i}) /\ Covered(t) = Covered(g) /\ i <= Len(t)
<1>1. /\ g \in Seq(Ranges) /\ Len(g) \in Nat
      /\ \A k \in 1 .. Len(g) : /\ g[k].offset \in Nat /\ g[k].size \in Nat /\ End(g[k]) \in Nat
                               /\ g[k].offset < End(g[k]) /\ g[k].size > 0
                               /\ End(g[k]) = g[k].offset + g[k].size
      /\ \A k \in 1 .. Len(g) :
           \A x \in Nat : x \in Bytes(g[k]) <=> g[k].offset <= x /\ x < End(g[k])
  BY OrderedFacts
<1>2. \A k, l \in 1 .. Len(g) : k < l =>
        End(g[k]) <= g[l].offset /\ (End(g[k]) = g[l].offset => k \in S /\ l = k + 1)
  BY DEF Ordered
<1>3. CASE ~(i < Len(g) /\ End(g[i]) = g[i + 1].offset)
  <2>1. Absorbing(g, i) = g
    BY <1>3, Zenon DEF Absorbing
  <2>2. ASSUME NEW k \in 1 .. Len(g), NEW l \in 1 .. Len(g), k < l, End(g[k]) = g[l].offset
        PROVE  k \in S \ {i}
    <3>1. k \in S /\ l = k + 1
      BY <1>2, <2>2
    <3>2. k # i
      BY <1>1, <1>3, <2>2, <3>1
    <3>. QED  BY <3>1, <3>2
  <2>3. Ordered(g, S \ {i})
    BY <1>1, <1>2, <2>2 DEF Ordered
  <2>. QED  BY <2>1, <2>3
<1>4. CASE i < Len(g) /\ End(g[i]) = g[i + 1].offset
  <2>1. PICK n \in 1 .. Len(g) : n = i + 1
    BY <1>1, <1>4
  <2>2. PICK r \in Ranges : /\ r = Slice(g[i].offset, g[i].size + g[n].size)
                           /\ r.offset = g[i].offset /\ r.size = g[i].size + g[n].size
    <3>1. PICK m \in Nat : m = g[i].size + g[n].size
      BY <1>1
    <3>. QED  BY <1>1, <3>1, RangeFacts
  <2>3. /\ End(r) = End(g[n]) /\ r.size > 0 /\ r.offset \in Nat /\ End(r) \in Nat
        /\ \A x \in Nat : x \in Bytes(r) <=> x \in Bytes(g[i]) \/ x \in Bytes(g[n])
    <3>1. /\ r.offset \in Nat /\ End(r) = r.offset + r.size
          /\ \A x \in Nat : x \in Bytes(r) <=> r.offset <= x /\ x < End(r)
      BY RangeFacts
    <3>2. End(g[i]) = g[n].offset
      BY <1>4, <2>1
    <3>3. End(r) = End(g[n]) /\ r.size > 0 /\ End(r) \in Nat
      BY <1>1, <2>2, <3>1, <3>2
    <3>4. ASSUME NEW x \in Nat
          PROVE  x \in Bytes(r) <=> x \in Bytes(g[i]) \/ x \in Bytes(g[n])
      <4>1. /\ x \in Bytes(r) <=> r.offset <= x /\ x < End(r)
            /\ x \in Bytes(g[i]) <=> g[i].offset <= x /\ x < End(g[i])
            /\ x \in Bytes(g[n]) <=> g[n].offset <= x /\ x < End(g[n])
        BY <1>1, <3>1
      <4>2. /\ g[i].offset \in Nat /\ End(g[i]) \in Nat /\ g[n].offset \in Nat /\ End(g[n]) \in Nat
            /\ g[i].offset < End(g[i]) /\ g[n].offset < End(g[n])
        BY <1>1
      <4>. QED  BY <2>2, <3>2, <3>3, <4>1, <4>2
    <3>. QED  BY <3>1, <3>3, <3>4
  <2>4. PICK w : w = [g EXCEPT ![i] = r]
    OBVIOUS
  <2>5. /\ w \in Seq(Ranges) /\ Len(w) = Len(g) /\ w[i] = r
        /\ \A k \in 1 .. Len(g) : k # i => w[k] = g[k]
    BY <1>1, <2>4
  <2>6. PICK t : t = RemoveAt(w, n)
    OBVIOUS
  <2>7. /\ t \in Seq(Ranges) /\ Len(t) = Len(g) - 1
        /\ \A k \in 1 .. Len(t) : t[k] = IF k < n THEN w[k] ELSE w[k + 1]
    BY <1>1, <2>5, <2>6, Removed
  <2>8. Absorbing(g, i) = t
    <3>1. Absorbing(g, i) =
            RemoveAt([g EXCEPT ![i] = Slice(@.offset, @.size + g[i + 1].size)], i + 1)
      BY <1>4, Zenon DEF Absorbing
    <3>. QED  BY <1>1, <2>1, <2>2, <2>4, <2>6, <3>1
  <2>9. /\ i \in 1 .. Len(t) /\ t[i] = r
        /\ \A k \in 1 .. Len(t) : k < i => t[k] = g[k]
        /\ \A k \in 1 .. Len(t) : k > i => k + 1 \in 1 .. Len(g) /\ t[k] = g[k + 1]
    <3>1. i \in 1 .. Len(t) /\ t[i] = r
      BY <1>1, <1>4, <2>1, <2>5, <2>7
    <3>2. ASSUME NEW k \in 1 .. Len(t), k < i PROVE t[k] = g[k]
      BY <1>1, <2>1, <2>5, <2>7, <3>2
    <3>3. ASSUME NEW k \in 1 .. Len(t), k > i PROVE k + 1 \in 1 .. Len(g) /\ t[k] = g[k + 1]
      <4>1. PICK l \in 1 .. Len(g) : l = k + 1 /\ l # i
        BY <1>1, <2>7, <3>3
      <4>2. ~(k < n)
        BY <1>1, <2>1, <3>3
      <4>. QED  BY <2>5, <2>7, <4>1, <4>2
    <3>. QED  BY <3>1, <3>2, <3>3
  <2> DEFINE From(k) == IF k <= i THEN k ELSE k + 1
             Until(k) == IF k < i THEN k ELSE k + 1
  <2>10. ASSUME NEW k \in 1 .. Len(t)
         PROVE  /\ From(k) \in 1 .. Len(g) /\ t[k].offset = g[From(k)].offset
                /\ Until(k) \in 1 .. Len(g) /\ End(t[k]) = End(g[Until(k)])
                /\ t[k].size > 0
    <3>1. CASE k < i
      BY <1>1, <2>7, <2>9, <3>1
    <3>2. CASE k = i
      BY <1>1, <1>4, <2>1, <2>2, <2>3, <2>9, <3>2
    <3>3. CASE k > i
      <4>1. PICK l \in 1 .. Len(g) : l = k + 1 /\ t[k] = g[l]
        BY <2>9, <3>3
      <4>2. From(k) = l /\ Until(k) = l
        BY <3>3, <4>1
      <4>. QED  BY <1>1, <4>1, <4>2
    <3>. QED  BY <3>1, <3>2, <3>3
  <2>11. ASSUME NEW j \in 1 .. Len(t), NEW k \in 1 .. Len(t), j < k
         PROVE  /\ End(t[j]) <= t[k].offset
                /\ End(t[j]) = t[k].offset => j \in S \ {i} /\ k = j + 1
    <3>1. PICK p \in 1 .. Len(g), q \in 1 .. Len(g) :
            /\ p = Until(j) /\ q = From(k)
            /\ End(t[j]) = End(g[p]) /\ t[k].offset = g[q].offset
      BY <2>10
    <3>2. p < q
      BY <2>11, <3>1
    <3>3. End(g[p]) <= g[q].offset /\ (End(g[p]) = g[q].offset => p \in S /\ q = p + 1)
      BY <1>2, <3>2
    <3>4. ASSUME p \in S, q = p + 1 PROVE j \in S \ {i} /\ k = j + 1
      <4>1. p <= i
        BY <3>4
      <4>. QED  BY <1>1, <2>11, <3>1, <3>4, <4>1
    <3>. QED  BY <3>1, <3>3, <3>4
  <2>12. Ordered(t, S \ {i})
    BY <2>7, <2>10, <2>11 DEF Ordered
  <2>13. Covered(t) = Covered(g)
    <3>1. ASSUME NEW x \in Covered(t) PROVE x \in Covered(g)
      <4>1. PICK k \in 1 .. Len(t) : x \in Nat /\ x \in Bytes(t[k])
        BY <3>1 DEF Covered
      <4>2. CASE k < i
        <5>1. k \in 1 .. Len(g)
          BY <1>1, <2>7, <4>1, <4>2
        <5>2. t[k] = g[k]
          BY <2>9, <4>1, <4>2
        <5>. QED  BY <4>1, <5>1, <5>2 DEF Covered
      <4>3. CASE k = i
        BY <2>3, <2>9, <4>1, <4>3 DEF Covered
      <4>4. CASE k > i
        BY <2>9, <4>1, <4>4 DEF Covered
      <4>. QED  BY <4>2, <4>3, <4>4
    <3>2. ASSUME NEW x \in Covered(g) PROVE x \in Covered(t)
      <4>1. PICK k \in 1 .. Len(g) : x \in Nat /\ x \in Bytes(g[k])
        BY <3>2 DEF Covered
      <4>2. CASE k < i
        <5>1. k \in 1 .. Len(t)
          BY <1>1, <2>7, <4>1, <4>2
        <5>2. t[k] = g[k]
          BY <2>9, <4>2, <5>1
        <5>. QED  BY <4>1, <5>1, <5>2 DEF Covered
      <4>3. CASE k = i \/ k = n
        <5>1. x \in Bytes(t[i])
          BY <2>3, <2>9, <4>1, <4>3
        <5>. QED  BY <2>9, <4>1, <5>1 DEF Covered
      <4>4. CASE k > n
        <5>1. PICK l \in 1 .. Len(t) : l = k - 1 /\ l > i /\ l + 1 = k
          BY <1>1, <2>1, <2>7, <4>4
        <5>2. t[l] = g[k]
          BY <2>9, <5>1
        <5>. QED  BY <4>1, <5>2 DEF Covered
      <4>. QED  BY <2>1, <4>2, <4>3, <4>4
    <3>. QED  BY <3>1, <3>2
  <2>. QED  BY <2>8, <2>9, <2>12, <2>13
<1>. QED  BY <1>3, <1>4

(* deallocate(): the range is free again and touches none.                   *)
LEMMA Returned ==
  ASSUME NEW f, Ordered(f, {}), NEW r \in Ranges, r.size > 0, Covered(f) \cap Bytes(r) = {}
  PROVE  LET i == InsertPosition(f, r.offset)
             t == Merged(InsertAt(f, i, r), i)
         IN Ordered(t, {}) /\ Covered(t) = Covered(f) \cup Bytes(r)
<1>1. PICK i, g : i = InsertPosition(f, r.offset) /\ g = InsertAt(f, i, r)
  OBVIOUS
<1>2. /\ i \in 1 .. Len(g) /\ Ordered(g, {i - 1, i})
      /\ Covered(g) = Covered(f) \cup Bytes(r)
  BY <1>1, Inserted
<1>3. PICK h, S : h = Absorbing(g, i) /\ S = {i - 1, i} \ {i}
  OBVIOUS
<1>4. Ordered(h, S) /\ Covered(h) = Covered(g) /\ i <= Len(h)
  <2>1. PICK B : B = {i - 1, i}
    OBVIOUS
  <2>2. \A s \in B : s <= i
    BY <1>2, <2>1
  <2>3. Ordered(g, B)
    BY <1>2, <2>1
  <2>4. LET t == Absorbing(g, i)
        IN Ordered(t, B \ {i}) /\ Covered(t) = Covered(g) /\ i <= Len(t)
    BY <1>2, <2>2, <2>3, Absorbed
  <2>. QED  BY <1>3, <2>1, <2>4
<1>5. S = {i - 1}
  BY <1>2, <1>3
<1>6. CASE i > 1
  <2>1. i - 1 \in 1 .. Len(h) /\ \A s \in S : s <= i - 1
    BY <1>2, <1>4, <1>5, <1>6, OrderedFacts
  <2>2. PICK t, k : t = Absorbing(h, k) /\ k = i - 1
    OBVIOUS
  <2>3. Ordered(t, S \ {k}) /\ Covered(t) = Covered(h)
    BY <1>4, <2>1, <2>2, Absorbed
  <2>4. S \ {k} = {}
    BY <1>5, <2>2
  <2>5. t = Merged(g, i)
    BY <1>3, <1>6, <2>2 DEF Merged
  <2>. QED  BY <1>1, <1>2, <1>4, <2>3, <2>4, <2>5
<1>7. CASE ~(i > 1)
  <2>1. i = 1 /\ S = {0}
    BY <1>2, <1>5, <1>7
  <2>2. Ordered(h, {})
    BY <1>4, <2>1 DEF Ordered
  <2>3. h = Merged(g, i)
    BY <1>3, <1>7 DEF Merged
  <2>. QED  BY <1>1, <1>2, <1>4, <2>2, <2>3
<1>. QED  BY <1>6, <1>7

-----------------------------------------------------------------------------
(* The allocator's operations.                                               *)

(* T are the bytes in use: the rest of the address space is free.            *)
Accounts(a, T) ==
  /\ a \in [ranges: Seq(Ranges), capacity: Nat \ {0}, used: Nat]
  /\ Ordered(a.ranges, {})
  /\ T \in SUBSET (0 .. a.capacity - 1)
  /\ Covered(a.ranges) = (0 .. a.capacity - 1) \ T
  /\ a.used = Cardinality(T)

LEMMA Aligned ==
  ASSUME NEW x \in Nat, NEW d \in Nat \ {0}
  PROVE  AlignUp(x, d) \in Nat /\ x <= AlignUp(x, d) /\ AlignUp(x, d) < x + d
<1>1. PICK n \in Nat : n = x + d - 1
  OBVIOUS
<1>2. PICK q \in Nat : q = n \div d
  OBVIOUS
<1>3. q * d <= n /\ n < q * d + d /\ q * d \in Nat
  BY <1>2
<1>4. AlignUp(x, d) = q * d
  BY <1>1, <1>2 DEF AlignUp
<1>. QED  BY <1>1, <1>3, <1>4

(* Best fit: there is one, and the slice lies within it.                     *)
LEMMA FitIsFound ==
  ASSUME NEW a, Ordered(a.ranges, {}), NEW bytes \in Nat \ {0}, NEW d \in Nat \ {0},
         HasFit(a, bytes, d)
  PROVE  LET i == BestFit(a.ranges, bytes, d)
             s == BestSlice(a, bytes, d)
         IN /\ i \in 1 .. Len(a.ranges) /\ s \in Ranges /\ s.size = bytes
            /\ a.ranges[i].offset <= s.offset /\ End(s) <= End(a.ranges[i])
<1>1. PICK f : f = a.ranges
  OBVIOUS
<1>2. /\ Ordered(f, {}) /\ DOMAIN f = 1 .. Len(f) /\ Len(f) \in Nat
      /\ \A k \in 1 .. Len(f) : f[k].size \in Nat /\ f[k].offset \in Nat /\ End(f[k]) \in Nat
  BY <1>1, OrderedFacts
<1>3. PICK C : C = { k \in DOMAIN f : Fits(f[k], bytes, d) }
  OBVIOUS
<1>4. C \subseteq 1 .. Len(f) /\ C # {} /\ \A k \in C : Fits(f[k], bytes, d)
  BY <1>1, <1>2, <1>3 DEF HasFit
<1>5. \E i \in C : \A j \in C : \/ f[i].size < f[j].size
                                \/ f[i].size = f[j].size /\ i <= j
  <2>1. PICK M : M = { f[k].size : k \in C }
    OBVIOUS
  <2>2. M \in SUBSET Nat /\ M # {}
    BY <1>2, <1>4, <2>1
  <2>3. PICK m \in M : \A n \in M : m <= n
    BY <2>2, LeastNumber
  <2>4. PICK K : K = { k \in C : f[k].size = m }
    OBVIOUS
  <2>5. K \in SUBSET Nat /\ K # {}
    <3>1. PICK k \in C : f[k].size = m
      BY <2>1, <2>3
    <3>2. k \in K
      BY <2>4, <3>1
    <3>3. K \in SUBSET Nat
      <4>1. K \subseteq C
        BY <2>4
      <4>2. 1 .. Len(f) \subseteq Nat
        BY <1>2
      <4>. QED  BY <1>4, <4>1, <4>2, Zenon
    <3>. QED  BY <3>2, <3>3
  <2>6. PICK i \in K : \A j \in K : i <= j
    BY <2>5, LeastNumber
  <2>7. ASSUME NEW j \in C
        PROVE  f[i].size < f[j].size \/ (f[i].size = f[j].size /\ i <= j)
    <3>1. f[j].size \in M /\ f[i].size = m
      BY <2>1, <2>4, <2>6
    <3>2. m <= f[j].size /\ m \in Nat /\ f[j].size \in Nat
      BY <2>2, <2>3, <3>1
    <3>3. CASE f[j].size = m
      BY <2>4, <2>6, <3>1, <3>3
    <3>4. CASE f[j].size # m
      BY <3>1, <3>2, <3>4
    <3>. QED  BY <3>3, <3>4
  <2>. QED  BY <2>4, <2>6, <2>7
<1>6. PICK i : i = BestFit(f, bytes, d)
  OBVIOUS
<1>7. i \in C
  BY <1>3, <1>5, <1>6, Zenon DEF BestFit
<1>8. PICK o \in Nat : o = AlignUp(f[i].offset, d) /\ f[i].offset <= o
  BY <1>2, <1>4, <1>7, Aligned
<1>9. o <= End(f[i]) /\ bytes <= End(f[i]) - o
  BY <1>4, <1>7, <1>8 DEF Fits
<1>10. PICK s : s = Slice(o, bytes)
  OBVIOUS
<1>11. s \in Ranges /\ s.offset = o /\ s.size = bytes /\ End(s) = o + bytes
  <2>1. s \in Ranges /\ s.offset = o /\ s.size = bytes
    BY <1>10, RangeFacts
  <2>. QED  BY <2>1, RangeFacts
<1>12. BestSlice(a, bytes, d) = s
  BY <1>1, <1>6, <1>8, <1>10 DEF BestSlice
<1>13. End(s) <= End(f[i]) /\ i \in 1 .. Len(f)
  BY <1>2, <1>4, <1>7, <1>9, <1>11
<1>. QED  BY <1>1, <1>6, <1>8, <1>11, <1>12, <1>13

LEMMA RangeIsCounted ==
  ASSUME NEW r \in Ranges, r.size > 0
  PROVE  IsFiniteSet(Bytes(r)) /\ Cardinality(Bytes(r)) = r.size
<1>1. PICK lo \in Nat, n \in Nat \ {0} : lo = r.offset /\ n = r.size /\ End(r) = lo + n
  BY RangeFacts
<1>2. PICK hi \in Nat : hi = lo + n - 1
  OBVIOUS
<1>3. Bytes(r) = lo .. hi
  BY <1>1, <1>2 DEF Bytes
<1>4. ~(lo > hi) /\ hi - lo + 1 = n /\ lo \in Int /\ hi \in Int
  BY <1>2
<1>. QED  BY <1>1, <1>3, <1>4, FS_Interval

LEMMA BytesAreFinite ==
  ASSUME NEW n \in Nat, NEW T \in SUBSET (0 .. n - 1)
  PROVE  IsFiniteSet(T)
<1>1. PICK hi \in Int, A \in SUBSET Int : hi = n - 1 /\ A = 0 .. hi
  OBVIOUS
<1>2. IsFiniteSet(A)
  BY <1>1, FS_Interval
<1>. QED  BY <1>1, <1>2, FS_Subset

LEMMA AllocatedAccounts ==
  ASSUME NEW a, NEW T, Accounts(a, T), NEW bytes \in Nat \ {0}, NEW d \in Nat \ {0},
         HasFit(a, bytes, d)
  PROVE  LET s == BestSlice(a, bytes, d)
             b == Allocated(a, bytes, d)
         IN /\ s \in Ranges /\ s.size = bytes /\ Bytes(s) \cap T = {}
            /\ Accounts(b, T \cup Bytes(s)) /\ b.capacity = a.capacity
<1>1. PICK f, s, i : f = a.ranges /\ s = BestSlice(a, bytes, d) /\ i = BestFit(f, bytes, d)
  OBVIOUS
<1>2. /\ Ordered(f, {}) /\ a.capacity \in Nat \ {0} /\ a.used \in Nat
      /\ T \in SUBSET (0 .. a.capacity - 1) /\ a.used = Cardinality(T)
      /\ Covered(f) = (0 .. a.capacity - 1) \ T
  BY <1>1 DEF Accounts
<1>3. /\ i \in 1 .. Len(f) /\ s \in Ranges /\ s.size = bytes
      /\ f[i].offset <= s.offset /\ End(s) <= End(f[i])
  BY <1>1, <1>2, FitIsFound
<1>4. PICK t : t = SubSeq(f, 1, i - 1) \o Carve(f[i], s) \o SubSeq(f, i + 1, Len(f))
  OBVIOUS
<1>5. Ordered(t, {}) /\ Covered(t) = Covered(f) \ Bytes(s)
  BY <1>2, <1>3, <1>4, TakenOut
<1>6. PICK b : b = Allocated(a, bytes, d)
  OBVIOUS
<1>7. b = [ranges |-> t, capacity |-> a.capacity, used |-> a.used + bytes]
  BY <1>1, <1>4, <1>6, Zenon DEF Allocated
<1>8. Bytes(s) \subseteq Covered(f)
  <2>1. PICK r : r = f[i]
    OBVIOUS
  <2>2. /\ r.offset \in Nat /\ End(r) \in Nat
        /\ \A x \in Nat : x \in Bytes(r) <=> r.offset <= x /\ x < End(r)
    BY <1>2, <1>3, <2>1, OrderedFacts
  <2>3. /\ s.offset \in Nat /\ End(s) \in Nat /\ Bytes(s) \subseteq Nat
        /\ \A x \in Nat : x \in Bytes(s) <=> s.offset <= x /\ x < End(s)
    BY <1>3, RangeFacts
  <2>. QED  BY <1>3, <2>1, <2>2, <2>3 DEF Covered
<1>9. Bytes(s) \cap T = {} /\ T \cup Bytes(s) \in SUBSET (0 .. a.capacity - 1)
  BY <1>2, <1>8
<1>10. Cardinality(T \cup Bytes(s)) = a.used + bytes
  <2>1. IsFiniteSet(Bytes(s)) /\ Cardinality(Bytes(s)) = bytes
    BY <1>3, RangeIsCounted
  <2>2. IsFiniteSet(T)
    BY <1>2, BytesAreFinite
  <2>3. PICK B : B = Bytes(s)
    OBVIOUS
  <2>4. Cardinality(T \cup B) = Cardinality(T) + Cardinality(B) - Cardinality(T \cap B)
    BY <2>1, <2>2, <2>3, FS_Union
  <2>5. Cardinality(T \cap B) = 0
    <3>1. T \cap B = {}
      BY <1>9, <2>3
    <3>. QED  BY <3>1, FS_EmptySet, Zenon
  <2>. QED  BY <1>2, <2>1, <2>3, <2>4, <2>5
<1>11. Accounts(b, T \cup Bytes(s))
  <2>1. b \in [ranges: Seq(Ranges), capacity: Nat \ {0}, used: Nat]
    BY <1>2, <1>5, <1>7 DEF Ordered
  <2>2. Covered(t) = (0 .. a.capacity - 1) \ (T \cup Bytes(s))
    BY <1>2, <1>5
  <2>. QED  BY <1>2, <1>5, <1>7, <1>9, <1>10, <2>1, <2>2 DEF Accounts
<1>. QED  BY <1>1, <1>3, <1>6, <1>7, <1>9, <1>11

LEMMA DeallocatedAccounts ==
  ASSUME NEW a, NEW T, Accounts(a, T), NEW s \in Ranges, s.size > 0, Bytes(s) \subseteq T
  PROVE  Accounts(Deallocated(a, s), T \ Bytes(s)) /\ Deallocated(a, s).capacity = a.capacity
<1>1. PICK f, i : f = a.ranges /\ i = InsertPosition(f, s.offset)
  OBVIOUS
<1>2. /\ Ordered(f, {}) /\ a.capacity \in Nat \ {0} /\ a.used \in Nat
      /\ T \in SUBSET (0 .. a.capacity - 1) /\ a.used = Cardinality(T)
      /\ Covered(f) = (0 .. a.capacity - 1) \ T
  BY <1>1 DEF Accounts
<1>3. PICK t : t = Merged(InsertAt(f, i, s), i)
  OBVIOUS
<1>4. Ordered(t, {}) /\ Covered(t) = Covered(f) \cup Bytes(s)
  <2>1. Covered(f) \cap Bytes(s) = {}
    BY <1>2
  <2>. QED  BY <1>1, <1>2, <1>3, <2>1, Returned
<1>5. PICK b : b = Deallocated(a, s)
  OBVIOUS
<1>6. b = [ranges |-> t, capacity |-> a.capacity, used |-> a.used - s.size]
  BY <1>1, <1>3, <1>5, Zenon DEF Deallocated
<1>7. Cardinality(T \ Bytes(s)) = a.used - s.size /\ a.used - s.size \in Nat
  <2>1. PICK B : B = Bytes(s)
    OBVIOUS
  <2>2. Cardinality(B) = s.size
    BY <2>1, RangeIsCounted
  <2>3. IsFiniteSet(T)
    BY <1>2, BytesAreFinite
  <2>4. IsFiniteSet(T \ B) /\ Cardinality(T \ B) = Cardinality(T) - Cardinality(T \cap B)
    BY <2>3, FS_Difference
  <2>5. T \cap B = B
    BY <2>1
  <2>6. Cardinality(T \cap B) = s.size
    BY <2>2, <2>5, Zenon
  <2>7. Cardinality(T \ B) \in Nat
    BY <2>4, FS_CardinalityType
  <2>. QED  BY <1>2, <2>1, <2>4, <2>6, <2>7
<1>8. Accounts(b, T \ Bytes(s))
  <2>1. b \in [ranges: Seq(Ranges), capacity: Nat \ {0}, used: Nat]
    BY <1>2, <1>4, <1>6, <1>7 DEF Ordered
  <2>2. Covered(t) = (0 .. a.capacity - 1) \ (T \ Bytes(s))
    BY <1>2, <1>4
  <2>3. T \ Bytes(s) \in SUBSET (0 .. a.capacity - 1)
    BY <1>2
  <2>. QED  BY <1>4, <1>6, <1>7, <2>1, <2>2, <2>3 DEF Accounts
<1>. QED  BY <1>5, <1>6, <1>8

(* add_free_tail(): what lies behind the last range is free.                 *)
LEMMA TailIsFree ==
  ASSUME NEW a \in [ranges: Seq(Ranges), capacity: Nat \ {0}, used: Nat],
         Ordered(a.ranges, {}), NEW from \in Nat,
         from <= a.capacity, Covered(a.ranges) \subseteq 0 .. from - 1
  PROVE  LET b == WithFreeTail(a, from)
         IN /\ b \in [ranges: Seq(Ranges), capacity: Nat \ {0}, used: Nat]
            /\ Ordered(b.ranges, {}) /\ b.capacity = a.capacity /\ b.used = a.used
            /\ Covered(b.ranges) = Covered(a.ranges) \cup (from .. a.capacity - 1)
            /\ from < a.capacity => \E i \in 1 .. Len(b.ranges) :
                 b.ranges[i].offset <= from /\ End(b.ranges[i]) = a.capacity
<1>1. PICK f, n, C : f = a.ranges /\ n = Len(f) /\ C = a.capacity
  OBVIOUS
<1>2. /\ Ordered(f, {}) /\ f \in Seq(Ranges) /\ n \in Nat /\ C \in Nat \ {0} /\ from <= C
      /\ \A k \in 1 .. n : /\ f[k] \in Ranges /\ f[k].offset \in Nat /\ f[k].size \in Nat
                           /\ End(f[k]) \in Nat /\ f[k].size > 0 /\ f[k].offset < End(f[k])
                           /\ End(f[k]) = f[k].offset + f[k].size
      /\ \A k \in 1 .. n : \A x \in Nat : x \in Bytes(f[k]) <=> f[k].offset <= x /\ x < End(f[k])
      /\ \A k, l \in 1 .. n : k < l => End(f[k]) < f[l].offset
  BY <1>1, OrderedFacts
<1>3. ASSUME NEW k \in 1 .. n PROVE End(f[k]) <= from
  <2>1. PICK x \in Nat : x = End(f[k]) - 1 /\ f[k].offset <= x /\ x < End(f[k])
    <3>1. PICK o \in Nat, e \in Nat : o = f[k].offset /\ e = End(f[k]) /\ o < e
      BY <1>2
    <3>. QED  BY <3>1
  <2>2. x \in Bytes(f[k])
    BY <1>2, <2>1
  <2>3. x \in 0 .. from - 1
    BY <1>1, <2>2 DEF Covered
  <2>. QED  BY <1>2, <2>1, <2>3
<1>4. PICK b : b = WithFreeTail(a, from)
  OBVIOUS
<1>5. CASE from >= C
  <2>1. b = a
    <3>1. from >= a.capacity /\ ~(from < a.capacity)
      BY <1>1, <1>2, <1>5
    <3>. QED  BY <1>4, <3>1 DEF WithFreeTail
  <2>2. from .. C - 1 = {}
    BY <1>2, <1>5
  <2>. QED  BY <1>1, <1>2, <1>4, <1>5, <2>1, <2>2
<1>6. CASE from < C /\ n > 0 /\ End(f[n]) = from
  <2>1. n \in 1 .. n
    BY <1>2, <1>6
  <2>2. PICK r \in Ranges : r = Slice(f[n].offset, C - f[n].offset)
                            /\ r.offset = f[n].offset /\ r.size = C - f[n].offset
    <3>1. PICK m \in Nat, o \in Nat : m = C - f[n].offset /\ o = f[n].offset
      BY <1>2, <1>6, <2>1
    <3>. QED  BY <3>1, RangeFacts
  <2>3. PICK t : t = [f EXCEPT ![n] = r]
    OBVIOUS
  <2>4. /\ t \in Seq(Ranges) /\ Len(t) = n /\ t[n] = r
        /\ \A k \in 1 .. n : k # n => t[k] = f[k]
    BY <1>1, <1>2, <2>1, <2>3
  <2>5. b = [a EXCEPT !.ranges = t]
    <3>1. b = [a EXCEPT !.ranges[n] = Slice(@.offset, a.capacity - @.offset)]
      BY <1>1, <1>2, <1>4, <1>6 DEF WithFreeTail
    <3>2. b = [a EXCEPT !.ranges = [@ EXCEPT ![n] = Slice(f[n].offset, C - f[n].offset)]]
      BY <1>1, <3>1
    <3>. QED  BY <1>1, <2>2, <2>3, <3>2
  <2>6. /\ b.ranges = t /\ b.capacity = C /\ b.used = a.used
        /\ b \in [ranges: Seq(Ranges), capacity: Nat \ {0}, used: Nat]
    BY <1>1, <2>4, <2>5
  <2>7. /\ r.offset \in Nat /\ End(r) = C /\ r.size > 0
        /\ \A x \in Nat : x \in Bytes(r) <=> f[n].offset <= x /\ x < C
    <3>1. /\ r.offset \in Nat /\ End(r) = r.offset + r.size
          /\ \A x \in Nat : x \in Bytes(r) <=> r.offset <= x /\ x < End(r)
      BY RangeFacts
    <3>2. End(r) = C /\ r.size > 0
      BY <1>2, <1>6, <2>1, <2>2, <3>1
    <3>. QED  BY <2>2, <3>1, <3>2
  <2>8. Ordered(t, {})
    <3>1. \A k \in 1 .. n : t[k].size > 0 /\ t[k].offset = f[k].offset
      BY <1>2, <2>2, <2>4, <2>7
    <3>2. ASSUME NEW k \in 1 .. n, NEW l \in 1 .. n, k < l
          PROVE  End(t[k]) <= t[l].offset /\ End(t[k]) # t[l].offset
      <4>1. k # n
        BY <1>2, <3>2
      <4>2. t[k] = f[k] /\ t[l].offset = f[l].offset /\ End(f[k]) < f[l].offset
        BY <1>2, <2>4, <3>1, <3>2, <4>1
      <4>. QED  BY <1>2, <4>2
    <3>. QED  BY <2>4, <3>1, <3>2 DEF Ordered
  <2>9. Covered(t) = Covered(f) \cup (from .. C - 1)
    <3>1. ASSUME NEW x \in Nat
          PROVE  x \in Bytes(r) <=> x \in Bytes(f[n]) \/ x \in from .. C - 1
      BY <1>2, <1>6, <2>1, <2>7
    <3>2. ASSUME NEW x \in Nat
          PROVE  x \in Covered(t) <=> x \in Covered(f) \/ x \in from .. C - 1
      <4>1. x \in Covered(t) <=> \E k \in 1 .. n : x \in Bytes(t[k])
        BY <2>4 DEF Covered
      <4>2. x \in Covered(f) <=> \E k \in 1 .. n : x \in Bytes(f[k])
        BY <1>1 DEF Covered
      <4>. QED  BY <2>1, <2>4, <3>1, <4>1, <4>2, Zenon
    <3>3. Covered(t) \subseteq Nat /\ Covered(f) \subseteq Nat /\ from .. C - 1 \subseteq Nat
      BY <1>2 DEF Covered
    <3>. QED  BY <3>2, <3>3
  <2>10. n \in 1 .. Len(t) /\ t[n].offset <= from /\ End(t[n]) = C
    BY <1>2, <1>6, <2>1, <2>2, <2>4, <2>7
  <2>. QED  BY <1>1, <1>4, <2>6, <2>8, <2>9, <2>10
<1>7. CASE from < C /\ ~(n > 0 /\ End(f[n]) = from)
  <2>1. PICK r \in Ranges : r = Slice(from, C - from) /\ r.offset = from /\ r.size = C - from
    <3>1. PICK m \in Nat : m = C - from
      BY <1>2, <1>7
    <3>. QED  BY <3>1, RangeFacts
  <2>2. /\ End(r) = C /\ r.size > 0
        /\ \A x \in Nat : x \in Bytes(r) <=> x \in from .. C - 1
    <3>1. /\ r.offset \in Nat /\ End(r) = r.offset + r.size
          /\ \A x \in Nat : x \in Bytes(r) <=> r.offset <= x /\ x < End(r)
      BY RangeFacts
    <3>2. End(r) = from + (C - from)
      BY <2>1, <3>1
    <3>3. End(r) = C /\ r.size > 0
      BY <1>2, <1>7, <2>1, <3>2
    <3>. QED  BY <1>2, <2>1, <3>1, <3>3
  <2>3. PICK t : t = Append(f, r)
    OBVIOUS
  <2>4. /\ t \in Seq(Ranges) /\ Len(t) = n + 1 /\ t[n + 1] = r
        /\ \A k \in 1 .. n : t[k] = f[k]
    BY <1>1, <1>2, <2>3
  <2>5. b = [a EXCEPT !.ranges = t]
    BY <1>1, <1>2, <1>4, <1>7, <2>1, <2>3 DEF WithFreeTail
  <2>6. /\ b.ranges = t /\ b.capacity = C /\ b.used = a.used
        /\ b \in [ranges: Seq(Ranges), capacity: Nat \ {0}, used: Nat]
    BY <1>1, <2>4, <2>5
  <2>7. ASSUME NEW k \in 1 .. n PROVE End(f[k]) < from
    <3>1. n \in 1 .. n /\ End(f[n]) <= from /\ End(f[n]) # from
      BY <1>2, <1>3, <1>7
    <3>2. CASE k = n
      BY <1>2, <3>1, <3>2
    <3>3. CASE k < n
      <4>1. End(f[k]) < f[n].offset /\ f[n].offset < End(f[n])
        BY <1>2, <3>1, <3>3
      <4>. QED  BY <1>2, <3>1, <4>1
    <3>. QED  BY <1>2, <3>2, <3>3
  <2>8. ASSUME NEW k \in 1 .. n + 1
        PROVE  (k \in 1 .. n /\ t[k] = f[k]) \/ (k = n + 1 /\ t[k] = r)
    BY <1>2, <2>4
  <2>9. Ordered(t, {})
    <3>1. \A k \in 1 .. n + 1 : t[k].size > 0
      BY <1>2, <2>2, <2>8
    <3>2. ASSUME NEW k \in 1 .. n + 1, NEW l \in 1 .. n + 1, k < l
          PROVE  End(t[k]) <= t[l].offset /\ End(t[k]) # t[l].offset
      <4>1. k \in 1 .. n /\ t[k] = f[k]
        BY <1>2, <2>4, <3>2
      <4>2. CASE l \in 1 .. n
        <5>1. t[l] = f[l] /\ End(f[k]) < f[l].offset
          BY <1>2, <2>4, <3>2, <4>1, <4>2
        <5>. QED  BY <1>2, <4>1, <4>2, <5>1
      <4>3. CASE l = n + 1
        BY <1>2, <2>1, <2>4, <2>7, <4>1, <4>3
      <4>. QED  BY <2>8, <4>2, <4>3
    <3>. QED  BY <2>4, <3>1, <3>2 DEF Ordered
  <2>10. Covered(t) = Covered(f) \cup (from .. C - 1)
    <3>1. ASSUME NEW x \in Nat
          PROVE  x \in Covered(t) <=> x \in Covered(f) \/ x \in from .. C - 1
      <4>1. x \in Covered(t) <=> \E k \in 1 .. n + 1 : x \in Bytes(t[k])
        BY <2>4 DEF Covered
      <4>2. x \in Covered(f) <=> \E k \in 1 .. n : x \in Bytes(f[k])
        BY <1>1 DEF Covered
      <4>3. n + 1 \in 1 .. n + 1 /\ \A k \in 1 .. n : k \in 1 .. n + 1
        BY <1>2
      <4>. QED  BY <2>2, <2>4, <2>8, <4>1, <4>2, <4>3, Zenon
    <3>2. Covered(t) \subseteq Nat /\ Covered(f) \subseteq Nat /\ from .. C - 1 \subseteq Nat
      BY <1>2 DEF Covered
    <3>. QED  BY <3>1, <3>2
  <2>11. n + 1 \in 1 .. Len(t) /\ t[n + 1].offset <= from /\ End(t[n + 1]) = C
    BY <1>2, <2>1, <2>2, <2>4
  <2>. QED  BY <1>1, <1>4, <2>6, <2>9, <2>10, <2>11
<1>. QED  BY <1>2, <1>5, <1>6, <1>7

LEMMA GrownAccounts ==
  ASSUME NEW a, NEW T, Accounts(a, T), NEW capacity \in Nat
  PROVE  LET b == GrownTo(a, capacity)
         IN /\ Accounts(b, T) /\ b.capacity = Maximum(capacity, a.capacity)
            /\ capacity > a.capacity => \E i \in 1 .. Len(b.ranges) :
                 b.ranges[i].offset <= a.capacity /\ End(b.ranges[i]) = capacity
<1>1. PICK from : from = a.capacity
  OBVIOUS
<1>2. /\ a \in [ranges: Seq(Ranges), capacity: Nat \ {0}, used: Nat]
      /\ Ordered(a.ranges, {}) /\ from \in Nat \ {0} /\ a.used = Cardinality(T)
      /\ T \in SUBSET (0 .. from - 1) /\ Covered(a.ranges) = (0 .. from - 1) \ T
  BY <1>1 DEF Accounts
<1>3. CASE capacity <= from
  <2>1. GrownTo(a, capacity) = a
    BY <1>1, <1>3, Zenon DEF GrownTo
  <2>2. Maximum(capacity, from) = from
    BY <1>2, <1>3 DEF Maximum
  <2>. QED  BY <1>1, <1>2, <1>3, <2>1, <2>2
<1>4. CASE capacity > from
  <2>1. PICK c : c = [a EXCEPT !.capacity = capacity]
    OBVIOUS
  <2>2. /\ c \in [ranges: Seq(Ranges), capacity: Nat \ {0}, used: Nat]
        /\ c.ranges = a.ranges /\ c.capacity = capacity /\ c.used = a.used
    BY <1>2, <1>4, <2>1
  <2>3. PICK b : b = WithFreeTail(c, from)
    OBVIOUS
  <2>4. GrownTo(a, capacity) = b
    BY <1>1, <1>2, <1>4, <2>1, <2>3 DEF GrownTo
  <2>5. from \in Nat /\ from <= c.capacity /\ Covered(c.ranges) \subseteq 0 .. from - 1
    BY <1>2, <1>4, <2>2
  <2>6. /\ b \in [ranges: Seq(Ranges), capacity: Nat \ {0}, used: Nat]
        /\ Ordered(b.ranges, {}) /\ b.capacity = c.capacity /\ b.used = c.used
        /\ Covered(b.ranges) = Covered(c.ranges) \cup (from .. c.capacity - 1)
        /\ from < c.capacity => \E i \in 1 .. Len(b.ranges) :
             b.ranges[i].offset <= from /\ End(b.ranges[i]) = c.capacity
    BY <1>2, <2>2, <2>3, <2>5, TailIsFree
  <2>7. T \in SUBSET (0 .. capacity - 1) /\ Covered(b.ranges) = (0 .. capacity - 1) \ T
    BY <1>2, <1>4, <2>2, <2>6
  <2>8. Accounts(b, T)
    BY <1>2, <2>2, <2>6, <2>7 DEF Accounts
  <2>9. Maximum(capacity, from) = capacity
    BY <1>2, <1>4 DEF Maximum
  <2>. QED  BY <1>1, <1>2, <1>4, <2>2, <2>4, <2>6, <2>8, <2>9
<1>. QED  BY <1>2, <1>3, <1>4

(* rollback(): what the checkpoint had in use is in use.                     *)
LEMMA RolledBackAccounts ==
  ASSUME NEW a, NEW U, Accounts(a, U), NEW c, NEW T, Accounts(c, T), c.capacity <= a.capacity
  PROVE  Accounts(RolledBack(a, c), T) /\ RolledBack(a, c).capacity = a.capacity
<1>1. PICK from, C : from = c.capacity /\ C = a.capacity
  OBVIOUS
<1>2. /\ c.ranges \in Seq(Ranges) /\ c.used \in Nat
      /\ Ordered(c.ranges, {}) /\ from \in Nat \ {0} /\ c.used = Cardinality(T)
      /\ T \in SUBSET (0 .. from - 1) /\ Covered(c.ranges) = (0 .. from - 1) \ T
      /\ C \in Nat \ {0} /\ from <= C
  BY <1>1 DEF Accounts
<1>3. PICK d : d = [ranges |-> c.ranges, used |-> c.used, capacity |-> C]
  OBVIOUS
<1>4. /\ d \in [ranges: Seq(Ranges), capacity: Nat \ {0}, used: Nat]
      /\ d.ranges = c.ranges /\ d.capacity = C /\ d.used = c.used
  BY <1>2, <1>3
<1>5. PICK b : b = WithFreeTail(d, from)
  OBVIOUS
<1>6. RolledBack(a, c) = b
  BY <1>1, <1>3, <1>5 DEF RolledBack
<1>7. from \in Nat /\ from <= d.capacity /\ Covered(d.ranges) \subseteq 0 .. from - 1
  BY <1>2, <1>4
<1>8. /\ b \in [ranges: Seq(Ranges), capacity: Nat \ {0}, used: Nat]
      /\ Ordered(b.ranges, {}) /\ b.capacity = d.capacity /\ b.used = d.used
      /\ Covered(b.ranges) = Covered(d.ranges) \cup (from .. d.capacity - 1)
  BY <1>2, <1>4, <1>5, <1>7, TailIsFree
<1>9. T \in SUBSET (0 .. C - 1) /\ Covered(b.ranges) = (0 .. C - 1) \ T
  BY <1>2, <1>4, <1>8
<1>10. Accounts(b, T)
  BY <1>2, <1>4, <1>8, <1>9 DEF Accounts
<1>. QED  BY <1>1, <1>4, <1>6, <1>8, <1>10

(* allocate_bytes(): after growing by GrownCapacity there is always room.    *)
LEMMA ReadyAccounts ==
  ASSUME NEW a, NEW T, Accounts(a, T), NEW bytes \in Nat \ {0}, NEW alignment \in Nat \ {0}
  PROVE  LET b == ReadyFor(a, bytes, alignment)
         IN /\ Accounts(b, T) /\ a.capacity <= b.capacity
            /\ HasFit(b, bytes, Maximum(alignment, MinAlignment))
<1>1. PICK d, C : d = Maximum(alignment, MinAlignment) /\ C = GrownCapacity(a, bytes, alignment)
  OBVIOUS
<1>2. PICK from, b : from = a.capacity /\ b = ReadyFor(a, bytes, alignment)
  OBVIOUS
<1>3. from \in Nat \ {0}
  BY <1>2 DEF Accounts
<1>4. d \in Nat \ {0} /\ C \in Nat /\ from + bytes + d <= C
  <2>1. d \in Nat \ {0}
    BY <1>1, AllocatorAssumption DEF Maximum
  <2>2. C = Maximum(2 * from, from + (bytes + d))
    BY <1>1, <1>2 DEF GrownCapacity, Room
  <2>. QED  BY <1>3, <2>1, <2>2 DEF Maximum
<1>5. CASE HasFit(a, bytes, d)
  <2>1. b = a
    BY <1>1, <1>2, <1>5, Zenon DEF ReadyFor
  <2>. QED  BY <1>1, <1>2, <1>3, <1>5, <2>1
<1>6. CASE ~HasFit(a, bytes, d)
  <2>1. b = GrownTo(a, C)
    BY <1>1, <1>2, <1>6, Zenon DEF ReadyFor
  <2>2. C > from
    BY <1>3, <1>4
  <2>3. /\ Accounts(b, T) /\ b.capacity = Maximum(C, from)
        /\ \E i \in 1 .. Len(b.ranges) :
             b.ranges[i].offset <= from /\ End(b.ranges[i]) = C
    BY <1>2, <1>4, <2>1, <2>2, GrownAccounts
  <2>4. from <= b.capacity
    BY <1>3, <1>4, <2>3 DEF Maximum
  <2>5. PICK g : g = b.ranges
    OBVIOUS
  <2>6. /\ DOMAIN g = 1 .. Len(g)
        /\ \A k \in 1 .. Len(g) : g[k].offset \in Nat /\ End(g[k]) \in Nat
    BY <2>3, <2>5, OrderedFacts DEF Accounts
  <2>7. PICK i \in 1 .. Len(g) : g[i].offset <= from /\ End(g[i]) = C
    BY <2>3, <2>5
  <2>8. PICK o \in Nat, aligned \in Nat :
          /\ o = g[i].offset /\ aligned = AlignUp(o, d) /\ aligned < o + d
    BY <1>4, <2>6, Aligned
  <2>9. aligned <= C /\ bytes <= C - aligned
    BY <1>3, <1>4, <2>7, <2>8
  <2>10. Fits(g[i], bytes, d)
    BY <2>7, <2>8, <2>9 DEF Fits
  <2>11. HasFit(b, bytes, d)
    BY <2>5, <2>6, <2>10 DEF HasFit
  <2>. QED  BY <1>1, <1>2, <2>3, <2>4, <2>11
<1>. QED  BY <1>5, <1>6

-----------------------------------------------------------------------------
(* The arena.                                                                *)

Taken == UNION { Bytes(s) : s \in slices }

(* Whatever is done to the allocator, the bytes in use are those of slices.  *)
ArenaInv ==
  /\ slices \in SUBSET [offset: Nat, size: Sizes]
  /\ result \in {"ok", "device_error"}
  /\ \A s, t \in slices : s # t => Bytes(s) \cap Bytes(t) = {}
  /\ Accounts(allocator, Taken)

LEMMA SizesAreCounts == Sizes \subseteq Nat \ {0} /\ Alignments \subseteq Nat \ {0}
BY AllocatorAssumption

(* The free bytes of the model are those the free list covers.               *)
LEMMA FreeBytesAreCovered ==
  ASSUME Ordered(allocator.ranges, {})
  PROVE  FreeBytes = Covered(allocator.ranges)
<1>1. PICK f : f = allocator.ranges
  OBVIOUS
<1>2. DOMAIN f = 1 .. Len(f) /\ \A i \in 1 .. Len(f) : f[i] \in Ranges
  BY <1>1, OrderedFacts
<1>3. \A i \in 1 .. Len(f) : Bytes(f[i]) \subseteq Nat
  BY <1>2, RangeFacts
<1>4. FreeBytes = UNION { Bytes(r) : r \in { f[i] : i \in 1 .. Len(f) } }
  BY <1>1, <1>2 DEF FreeBytes, ToSet
<1>. QED  BY <1>1, <1>3, <1>4 DEF Covered

LEMMA ArenaStarts == Init => ArenaInv
<1> SUFFICES ASSUME Init PROVE ArenaInv
  OBVIOUS
<1>1. PICK r : r = Slice(0, Capacity)
  OBVIOUS
<1>2. /\ r \in Ranges /\ r.offset = 0 /\ r.size = Capacity /\ End(r) = Capacity
      /\ \A x \in Nat : x \in Bytes(r) <=> x < Capacity
      /\ Capacity \in Nat \ {0}
  <2>1. r \in Ranges /\ r.offset = 0 /\ r.size = Capacity /\ Capacity \in Nat \ {0}
    BY <1>1, AllocatorAssumption, RangeFacts
  <2>2. /\ End(r) = r.offset + r.size
        /\ \A x \in Nat : x \in Bytes(r) <=> r.offset <= x /\ x < End(r)
    BY <2>1, RangeFacts
  <2>. QED  BY <2>1, <2>2
<1>3. PICK f : f = << r >>
  OBVIOUS
<1>4. f \in Seq(Ranges) /\ Len(f) = 1 /\ f[1] = r
  BY <1>2, <1>3
<1>5. Ordered(f, {})
  BY <1>2, <1>4 DEF Ordered
<1>6. Covered(f) = 0 .. Capacity - 1
  <2>1. Covered(f) = { x \in Nat : x \in Bytes(r) }
    BY <1>4 DEF Covered
  <2>. QED  BY <1>2, <2>1
<1>7. allocator = [ranges |-> f, capacity |-> Capacity, used |-> 0] /\ slices = {}
      /\ result = "ok"
  BY <1>1, <1>3 DEF Init
<1>8. Taken = {} /\ Cardinality({}) = 0
  BY <1>7, FS_EmptySet DEF Taken
<1>9. Accounts(allocator, {})
  BY <1>2, <1>4, <1>5, <1>6, <1>7, <1>8 DEF Accounts
<1>. QED  BY <1>7, <1>8, <1>9 DEF ArenaInv

LEMMA AllocateKeepsBytes ==
  ASSUME ArenaInv, NEW bytes \in Sizes, NEW alignment \in Alignments, Allocate(bytes, alignment)
  PROVE  ArenaInv'
<1>1. bytes \in Nat \ {0} /\ alignment \in Nat \ {0}
  BY SizesAreCounts
<1>2. PICK d \in Nat \ {0} : d = Maximum(alignment, MinAlignment)
  BY <1>1, AllocatorAssumption DEF Maximum
<1>3. PICK a : a = ReadyFor(allocator, bytes, alignment)
  OBVIOUS
<1>4. Accounts(a, Taken) /\ HasFit(a, bytes, d)
  BY <1>1, <1>2, <1>3, ReadyAccounts DEF ArenaInv
<1>5. PICK s, b : s = BestSlice(a, bytes, d) /\ b = Allocated(a, bytes, d)
  OBVIOUS
<1>6. s \in Ranges /\ s.size = bytes /\ Bytes(s) \cap Taken = {} /\ Accounts(b, Taken \cup Bytes(s))
  BY <1>1, <1>4, <1>5, AllocatedAccounts
<1>7. allocator' = b /\ slices' = slices \cup {s} /\ result' = "ok"
  BY <1>2, <1>3, <1>4, <1>5 DEF Allocate
<1>8. Taken' = Taken \cup Bytes(s)
  BY <1>7 DEF Taken
<1>9. s \in [offset: Nat, size: Sizes]
  BY <1>6 DEF Ranges
<1>10. \A t \in slices : Bytes(t) \subseteq Taken
  BY DEF Taken
<1>11. \A t, u \in slices' : t # u => Bytes(t) \cap Bytes(u) = {}
  BY <1>6, <1>7, <1>10 DEF ArenaInv
<1>12. Accounts(allocator', Taken')
  BY <1>6, <1>7, <1>8
<1>. QED  BY <1>7, <1>9, <1>11, <1>12 DEF ArenaInv, Accounts

(* A write that fails gives back what it took, and keeps what it grew.       *)
LEMMA WriteFailsKeepsBytes ==
  ASSUME ArenaInv, NEW bytes \in Sizes, NEW alignment \in Alignments,
         WriteFails(bytes, alignment)
  PROVE  ArenaInv'
<1>1. bytes \in Nat \ {0} /\ alignment \in Nat \ {0}
  BY SizesAreCounts
<1>2. PICK d \in Nat \ {0} : d = Maximum(alignment, MinAlignment)
  BY <1>1, AllocatorAssumption DEF Maximum
<1>3. PICK a, b, T : /\ a = ReadyFor(allocator, bytes, alignment) /\ b = Allocated(a, bytes, d)
                     /\ T = Taken
  OBVIOUS
<1>4. Accounts(allocator, T) /\ allocator.capacity \in Nat /\ slices' = slices
  BY <1>3 DEF ArenaInv, Accounts, WriteFails
<1>5. Accounts(a, T) /\ HasFit(a, bytes, d) /\ allocator.capacity <= a.capacity
  BY <1>1, <1>2, <1>3, <1>4, ReadyAccounts
<1>6. \E U : Accounts(b, U) /\ b.capacity = a.capacity
  <2>1. PICK U : U = T \cup Bytes(BestSlice(a, bytes, d))
    OBVIOUS
  <2>2. Accounts(b, U) /\ b.capacity = a.capacity
    BY <1>1, <1>3, <1>5, <2>1, AllocatedAccounts
  <2>. QED  BY <2>2
<1>7. PICK e : e = RolledBack(b, allocator)
  OBVIOUS
<1>8. Accounts(e, T)
  BY <1>4, <1>5, <1>6, <1>7, RolledBackAccounts
<1>9. allocator' = e /\ result' = "device_error"
  BY <1>2, <1>3, <1>7 DEF WriteFails
<1>10. Taken' = T
  BY <1>3, <1>4 DEF Taken
<1>11. Accounts(allocator', Taken')
  BY <1>8, <1>9, <1>10
<1>. QED  BY <1>4, <1>9, <1>11 DEF ArenaInv, Accounts

(* A mesh whose indices fail gives back its vertices too.                    *)
LEMMA MeshFailsKeepsBytes ==
  ASSUME ArenaInv, NEW bytes \in Sizes, NEW alignment \in Alignments, NEW indices \in Sizes,
         AllocateMeshFails(bytes, alignment, indices)
  PROVE  ArenaInv'
<1>1. /\ bytes \in Nat \ {0} /\ alignment \in Nat \ {0} /\ indices \in Nat \ {0}
      /\ MinAlignment \in Nat \ {0}
  BY SizesAreCounts, AllocatorAssumption
<1>2. PICK d \in Nat \ {0} : d = Maximum(alignment, MinAlignment)
  BY <1>1 DEF Maximum
<1>3. PICK a, b, T : /\ a = ReadyFor(allocator, bytes, alignment) /\ b = Allocated(a, bytes, d)
                     /\ T = Taken
  OBVIOUS
<1>4. Accounts(allocator, T) /\ allocator.capacity \in Nat /\ slices' = slices
  BY <1>3 DEF ArenaInv, Accounts, AllocateMeshFails
<1>5. Accounts(a, T) /\ HasFit(a, bytes, d) /\ allocator.capacity <= a.capacity
  BY <1>1, <1>2, <1>3, <1>4, ReadyAccounts
<1>6. PICK U : Accounts(b, U) /\ b.capacity = a.capacity
  <2>1. PICK W : W = T \cup Bytes(BestSlice(a, bytes, d))
    OBVIOUS
  <2>2. Accounts(b, W) /\ b.capacity = a.capacity
    BY <1>1, <1>3, <1>5, <2>1, AllocatedAccounts
  <2>. QED  BY <2>2
<1>7. PICK c, e : c = ReadyFor(b, indices, MinAlignment) /\ e = Allocated(c, indices, MinAlignment)
  OBVIOUS
<1>8. Accounts(c, U) /\ b.capacity <= c.capacity /\ HasFit(c, indices, MinAlignment)
  <2>1. Maximum(MinAlignment, MinAlignment) = MinAlignment
    BY DEF Maximum
  <2>. QED  BY <1>1, <1>6, <1>7, <2>1, ReadyAccounts
<1>9. \E V : Accounts(e, V) /\ e.capacity = c.capacity
  <2>1. PICK W : W = U \cup Bytes(BestSlice(c, indices, MinAlignment))
    OBVIOUS
  <2>2. Accounts(e, W) /\ e.capacity = c.capacity
    BY <1>1, <1>7, <1>8, <2>1, AllocatedAccounts
  <2>. QED  BY <2>2
<1>10. PICK g, h : g = RolledBack(e, b) /\ h = RolledBack(g, allocator)
  OBVIOUS
<1>11. Accounts(g, U) /\ g.capacity = c.capacity
  BY <1>6, <1>8, <1>9, <1>10, RolledBackAccounts
<1>12. allocator.capacity <= g.capacity
  <2>1. b.capacity \in Nat /\ c.capacity \in Nat
    BY <1>6, <1>8 DEF Accounts
  <2>. QED  BY <1>4, <1>5, <1>6, <1>8, <1>11, <2>1
<1>13. Accounts(h, T)
  BY <1>4, <1>10, <1>11, <1>12, RolledBackAccounts
<1>14. allocator' = h /\ result' = "device_error"
  BY <1>2, <1>3, <1>7, <1>10 DEF AllocateMeshFails
<1>15. Taken' = T
  BY <1>3, <1>4 DEF Taken
<1>16. Accounts(allocator', Taken')
  BY <1>13, <1>14, <1>15
<1>. QED  BY <1>4, <1>14, <1>16 DEF ArenaInv, Accounts

LEMMA DeallocateKeepsBytes ==
  ASSUME ArenaInv, NEW slice \in slices, Deallocate(slice)
  PROVE  ArenaInv'
<1>1. PICK T : T = Taken
  OBVIOUS
<1>2. slice \in Ranges /\ slice.size > 0 /\ Bytes(slice) \subseteq T
  <2>1. slice \in [offset: Nat, size: Sizes]
    BY DEF ArenaInv
  <2>. QED  BY <1>1, <2>1, SizesAreCounts DEF Ranges, Taken
<1>3. Accounts(allocator, T)
  BY <1>1 DEF ArenaInv
<1>4. Accounts(Deallocated(allocator, slice), T \ Bytes(slice))
  BY <1>2, <1>3, DeallocatedAccounts
<1>5. allocator' = Deallocated(allocator, slice) /\ slices' = slices \ {slice} /\ result' = result
  BY DEF Deallocate
<1>6. Taken' = T \ Bytes(slice)
  <2>1. \A s \in slices : s # slice => Bytes(s) \cap Bytes(slice) = {}
    BY DEF ArenaInv
  <2>2. Taken' = UNION { Bytes(s) : s \in slices \ {slice} }
    BY <1>5 DEF Taken
  <2>. QED  BY <1>1, <2>1, <2>2 DEF Taken
<1>7. Accounts(allocator', Taken')
  BY <1>4, <1>5, <1>6
<1>. QED  BY <1>5, <1>7 DEF ArenaInv

(* In any order of allocations, growth, failures and deallocations, the bytes *)
(* in use are those of the slices handed out, and the rest is free.           *)
THEOREM ArenaInvariant == Spec => []ArenaInv
<1>1. ASSUME ArenaInv, [Next]_vars PROVE ArenaInv'
  <2>1. ASSUME NEW bytes \in Sizes, NEW alignment \in Alignments,
               \/ Allocate(bytes, alignment)
               \/ GrowFails(bytes, alignment)
               \/ WriteFails(bytes, alignment)
               \/ \E indices \in Sizes : AllocateMeshFails(bytes, alignment, indices)
        PROVE  ArenaInv'
    <3>1. CASE Allocate(bytes, alignment)
      BY <1>1, <3>1, AllocateKeepsBytes
    <3>2. CASE GrowFails(bytes, alignment)
      BY <1>1, <3>2 DEF GrowFails, ArenaInv, Taken, Accounts
    <3>3. CASE WriteFails(bytes, alignment)
      BY <1>1, <3>3, WriteFailsKeepsBytes
    <3>4. CASE \E indices \in Sizes : AllocateMeshFails(bytes, alignment, indices)
      BY <1>1, <3>4, MeshFailsKeepsBytes
    <3>. QED  BY <2>1, <3>1, <3>2, <3>3, <3>4
  <2>2. ASSUME NEW slice \in slices, Deallocate(slice) PROVE ArenaInv'
    BY <1>1, <2>2, DeallocateKeepsBytes
  <2>3. CASE UNCHANGED vars
    BY <1>1, <2>3 DEF vars, ArenaInv, Taken, Accounts
  <2>. QED  BY <1>1, <2>1, <2>2, <2>3 DEF Next
<1>. QED  BY <1>1, ArenaStarts, PTL DEF Spec

(* No byte of the arena is lost and none is given away twice, and growing    *)
(* always makes enough room: for every capacity, and all sizes and alignments. *)
THEOREM BytesAccountedFor == Spec => []EveryByteAccountedFor
<1>1. ASSUME ArenaInv PROVE EveryByteAccountedFor
  <2>1. PICK f : f = allocator.ranges
    OBVIOUS
  <2>2. /\ Ordered(f, {}) /\ f \in Seq(Ranges) /\ DOMAIN f = 1 .. Len(f) /\ Len(f) \in Nat
        /\ allocator.capacity \in Nat /\ allocator.used \in Nat
        /\ Taken \in SUBSET (0 .. allocator.capacity - 1)
        /\ Covered(f) = (0 .. allocator.capacity - 1) \ Taken
        /\ allocator.used = Cardinality(Taken)
    BY <1>1, <2>1, OrderedFacts DEF ArenaInv, Accounts
  <2>3. TypeOK /\ result # "out_of_memory"
    BY <1>1, <2>1, <2>2 DEF ArenaInv, TypeOK, Ranges
  <2>4. FreeListOrdered
    <3>1. ASSUME NEW i \in 1 .. Len(f)
          PROVE  f[i].size > 0 /\ (i > 1 => End(f[i - 1]) < f[i].offset)
      <4>1. f[i].size > 0
        BY <2>2, OrderedFacts
      <4>2. ASSUME i > 1 PROVE End(f[i - 1]) < f[i].offset
        <5>1. PICK k \in 1 .. Len(f) : k = i - 1 /\ k < i
          BY <2>2, <4>2
        <5>. QED  BY <2>2, <5>1, OrderedFacts
      <4>. QED  BY <4>1, <4>2
    <3>. QED  BY <2>1, <2>2, <3>1 DEF FreeListOrdered
  <2>5. FreeBytes = Covered(f)
    BY <2>1, <2>2, FreeBytesAreCovered
  <2>6. \A s \in slices : Bytes(s) \subseteq Taken
    BY DEF Taken
  <2>7. /\ \A s \in slices : Bytes(s) \cap FreeBytes = {}
        /\ FreeBytes \cup Taken = 0 .. allocator.capacity - 1
    BY <2>2, <2>5, <2>6
  <2>8. UsedIsWhatSlicesTake
    BY <2>2 DEF UsedIsWhatSlicesTake, Taken
  <2>. QED  BY <1>1, <2>3, <2>4, <2>7, <2>8 DEF EveryByteAccountedFor, ArenaInv, Taken
<1>. QED  BY <1>1, ArenaInvariant, PTL

-----------------------------------------------------------------------------
(* The pool of handles. *)

SlotType == [generation: 1 .. GenerationLimit - 1,
             nextFree: 0 .. PoolCapacity, occupied: BOOLEAN]

StorageTypes ==
  /\ slots \in [Indices -> SlotType]
  /\ freeHead \in 0 .. PoolCapacity
  /\ size \in 0 .. PoolCapacity
  /\ issued \in SUBSET Handles

(* While there is something left to issue, no slot has used up its           *)
(* generations: a slot that was released g times took g of the handles.      *)
GenerationsLeft ==
  \A i \in Indices :
    /\ slots[i].occupied => slots[i].generation <= Cardinality(issued)
    /\ ~slots[i].occupied => slots[i].generation - 1 <= Cardinality(issued)

(* A handle from before is of an earlier generation, or the slot's own.      *)
IssuedBefore ==
  Cardinality(issued) < MaxIssued =>
    \A h \in issued : \/ h.generation < slots[h.index].generation
                      \/ h.generation = slots[h.index].generation
                         /\ slots[h.index].occupied

StorageInv ==
  /\ StorageTypes
  /\ FreeListIsTheRest
  /\ IsFiniteSet(issued)
  /\ Live \subseteq issued
  /\ GenerationsLeft
  /\ IssuedBefore

OwnersInv ==
  /\ holder \in [Owners -> Handles \cup {NoHandle}]
  /\ raw \in SUBSET Handles
  /\ misses = FALSE
  /\ \A o \in Owners : holder[o] # NoHandle =>
       /\ holder[o] \in Live
       /\ holder[o] \notin raw
       /\ \A p \in Owners \ {o} : holder[p] # holder[o]
  /\ OccupiedIsOwned

PoolInv == StorageInv /\ OwnersInv

-----------------------------------------------------------------------------

(* A handle resolves exactly when it is the one of an occupied slot.         *)
LEMMA ResolvingIsLive ==
  ASSUME StorageTypes, NEW h \in Handles
  PROVE  Resolves(h) <=> h \in Live
  BY DEF StorageTypes, SlotType, Resolves, Live, HandleAt, Handles

(* Live handles are handles; NoHandle is none.                               *)
LEMMA LiveHandles ==
  ASSUME StorageTypes
  PROVE  Live \subseteq Handles /\ NoHandle \notin Handles
<1>1. \A i \in Indices : slots[i].generation \in 0 .. GenerationLimit - 1
  BY PoolAssumption DEF StorageTypes, SlotType
<1>2. Live \subseteq Handles
  BY <1>1 DEF Live, HandleAt, Handles
<1>3. PoolCapacity \notin Indices
  BY PoolAssumption DEF Indices
<1>. QED
  BY <1>2, <1>3 DEF NoHandle, Handles

(* There are PoolCapacity slots.                                             *)
LEMMA IndicesCounted ==
  IsFiniteSet(Indices) /\ Cardinality(Indices) = PoolCapacity
  BY FS_Interval, PoolAssumption DEF Indices

(* There are fewer live handles than slots while the free list has one.      *)
LEMMA RoomIsLeft ==
  ASSUME StorageTypes, NEW i \in Indices, ~slots[i].occupied
  PROVE  Cardinality(Live) < PoolCapacity
<1> DEFINE others == Indices \ {i}
           where == [h \in Live |-> h.index]
<1>1. IsFiniteSet(Indices) /\ Cardinality(Indices) = PoolCapacity
  BY IndicesCounted
<1>2. IsFiniteSet(others) /\ Cardinality(others) = PoolCapacity - 1
  BY <1>1, FS_RemoveElement
<1>3. \A h \in Live : h.index \in others
  BY DEF Live, HandleAt
<1>4. \A g, h \in Live : g.index = h.index => g = h
  BY DEF Live, HandleAt
<1>5. where \in Injection(Live, others)
  BY <1>3, <1>4 DEF Injection, IsInjective
<1>6. Cardinality(Live) <= Cardinality(others)
  BY <1>2, <1>5, FS_Injection
<1>7. IsFiniteSet(Live)
  BY <1>2, <1>5, FS_Injection
<1>. QED
  BY <1>2, <1>6, <1>7, FS_CardinalityType, PoolAssumption

(* create() threads all slots. *)
LEMMA StorageStarts == PoolInit => StorageInv
<1> SUFFICES ASSUME PoolInit PROVE StorageInv
  OBVIOUS
<1> DEFINE list == [k \in 0 .. PoolCapacity |-> k]
<1>1. StorageTypes
  BY PoolAssumption DEF PoolInit, StorageTypes, SlotType, Indices, Handles
<1>2. size = 0 /\ freeHead = 0 /\ issued = {}
  BY DEF PoolInit
<1>3. \A i \in Indices : slots[i].nextFree = i + 1 /\ ~slots[i].occupied
                         /\ slots[i].generation = 1
  BY DEF PoolInit
<1>4. Unoccupied = Indices /\ Live = {}
  BY <1>3 DEF Unoccupied, Live
<1>5. Threads(list, PoolCapacity)
  <2>1. \A k \in 0 .. PoolCapacity - 1 : list[k] = k /\ list[k + 1] = k + 1
    BY PoolAssumption
  <2>2. list[0] = 0 /\ list[PoolCapacity] = PoolCapacity
    BY PoolAssumption
  <2>. QED
    BY <1>2, <1>3, <1>4, <2>1, <2>2 DEF Threads, Indices
<1>6. FreeListIsTheRest
  <2>1. PoolCapacity - size = PoolCapacity
    BY <1>2, PoolAssumption
  <2>2. list \in [0 .. PoolCapacity -> 0 .. PoolCapacity]
    OBVIOUS
  <2>. QED
    BY <1>5, <2>1, <2>2 DEF FreeListIsTheRest
<1>7. IsFiniteSet(issued) /\ Cardinality(issued) = 0
  BY <1>2, FS_EmptySet
<1>8. GenerationsLeft /\ IssuedBefore
  BY <1>2, <1>3, <1>7 DEF GenerationsLeft, IssuedBefore
<1>. QED
  BY <1>1, <1>2, <1>4, <1>6, <1>7, <1>8 DEF StorageInv

(* allocate() returns a handle nobody has seen, and drops the list's head.   *)
LEMMA TakeSlotKeepsStorage ==
  ASSUME StorageInv, TakeSlot, Cardinality(issued) < MaxIssued
  PROVE  /\ StorageInv'
         /\ Live' = Live \cup {HandleAt(freeHead)}
         /\ HandleAt(freeHead) \in Handles \ issued
         /\ ~slots[freeHead].occupied /\ freeHead \in Indices
<1> DEFINE new == HandleAt(freeHead)
<1> PICK n \in Int : n = PoolCapacity - size
  BY PoolAssumption DEF StorageInv, StorageTypes
<1>1. PICK list \in [0 .. n -> 0 .. PoolCapacity] : Threads(list, n)
  BY DEF StorageInv, FreeListIsTheRest
<1>2. n \in Nat /\ n # 0 /\ PoolCapacity \in Nat
  BY <1>1, PoolAssumption DEF Threads, TakeSlot, StorageInv, StorageTypes
<1>3. freeHead \in Unoccupied /\ slots[freeHead].nextFree = list[1]
  BY <1>1, <1>2 DEF Threads
<1>4. freeHead \in Indices /\ ~slots[freeHead].occupied
  BY <1>3 DEF Unoccupied
<1>5. \A i \in Indices : slots[i] \in SlotType
  BY DEF StorageInv, StorageTypes
<1>6. /\ slots' \in [Indices -> SlotType]
      /\ \A i \in Indices \ {freeHead} : slots'[i] = slots[i]
      /\ slots'[freeHead].occupied
      /\ slots'[freeHead].generation = slots[freeHead].generation
  BY <1>2, <1>4, <1>5 DEF TakeSlot, StorageInv, StorageTypes, SlotType
<1>7. new \in Handles
  BY <1>4, <1>5, PoolAssumption DEF HandleAt, Handles, SlotType
<1>8. issued' = issued \cup {new}
  BY DEF TakeSlot
<1>9. new \notin issued
  BY <1>4, <1>5 DEF StorageInv, IssuedBefore, HandleAt, SlotType
<1>10. Live' = Live \cup {new}
  <2>1. \A i \in Indices \ {freeHead} : HandleAt(i)' = HandleAt(i)
    BY <1>6 DEF HandleAt
  <2>2. HandleAt(freeHead)' = [index |-> freeHead', generation |-> slots'[freeHead'].generation]
    BY DEF HandleAt
  <2>3. Live' = { [index |-> i, generation |-> slots'[i].generation] :
                    i \in { j \in Indices : slots'[j].occupied } }
    BY DEF Live, HandleAt
  <2>4. Live = { [index |-> i, generation |-> slots[i].generation] :
                    i \in { j \in Indices : slots[j].occupied } }
    BY DEF Live, HandleAt
  <2>5. new = [index |-> freeHead, generation |-> slots[freeHead].generation]
    BY DEF HandleAt
  <2>. QED
    BY <1>4, <1>6, <2>3, <2>4, <2>5
<1>11. StorageTypes'
  <2>1. freeHead' \in 0 .. PoolCapacity
    BY <1>3, <1>4, <1>5 DEF TakeSlot, SlotType
  <2>2. size' = size + 1 /\ size \in 0 .. PoolCapacity
    BY DEF TakeSlot, StorageInv, StorageTypes
  <2>. QED
    BY <1>2, <1>6, <1>7, <1>8, <2>1, <2>2 DEF StorageTypes, StorageInv
<1>12. FreeListIsTheRest'
  <2> DEFINE rest == [k \in 0 .. n - 1 |-> list[k + 1]]
  <2>1. size' = size + 1 /\ freeHead' = list[1]
    BY <1>3 DEF TakeSlot
  <2>2. n - 1 \in Nat /\ PoolCapacity - size' = n - 1
    BY <1>2, <2>1 DEF StorageInv, StorageTypes
  <2>3. rest \in [0 .. n - 1 -> 0 .. PoolCapacity]
    BY <1>2, <2>2
  <2>4. Unoccupied' = Unoccupied \ {freeHead}
    BY <1>4, <1>6 DEF Unoccupied
  <2>5. rest[0] = freeHead' /\ rest[n - 1] = PoolCapacity
    BY <1>1, <1>2, <2>1, <2>2 DEF Threads
  <2>6. ASSUME NEW k \in 0 .. n - 2
        PROVE  rest[k] \in Unoccupied' /\ slots'[rest[k]].nextFree = rest[k + 1]
    <3>1. k + 1 \in 0 .. n - 1 /\ k \in 0 .. n - 1 /\ 0 \in 0 .. n - 1 /\ k + 1 # 0
      BY <1>2
    <3>2. rest[k] = list[k + 1] /\ rest[k + 1] = list[k + 2]
      BY <3>1
    <3>3. list[k + 1] \in Unoccupied /\ slots[list[k + 1]].nextFree = list[k + 2]
      BY <1>1, <3>1 DEF Threads
    <3>4. list[k + 1] # freeHead
      BY <1>1, <3>1 DEF Threads
    <3>. QED
      BY <1>6, <2>4, <3>2, <3>3, <3>4 DEF Unoccupied
  <2>7. ASSUME NEW i \in Unoccupied'
        PROVE  \E k \in 0 .. n - 2 : rest[k] = i
    <3>1. PICK k \in 0 .. n - 1 : list[k] = i
      BY <1>1, <2>4 DEF Threads
    <3>2. k # 0
      BY <1>1, <2>4, <3>1 DEF Threads
    <3>3. k - 1 \in 0 .. n - 2 /\ rest[k - 1] = i
      BY <1>2, <3>1, <3>2
    <3>. QED
      BY <3>3
  <2>8. ASSUME NEW j \in 0 .. n - 2, NEW k \in 0 .. n - 2, rest[j] = rest[k]
        PROVE  j = k
    <3>1. j + 1 \in 0 .. n - 1 /\ k + 1 \in 0 .. n - 1 /\ list[j + 1] = list[k + 1]
      BY <1>2, <2>8
    <3>. QED
      BY <1>1, <3>1 DEF Threads
  <2>9. Threads(rest, n - 1)'
    <3>1. n - 1 - 1 = n - 2
      BY <1>2
    <3>. QED
      BY <2>5, <2>6, <2>7, <2>8, <3>1 DEF Threads
  <2>. QED
    BY <2>2, <2>3, <2>9 DEF FreeListIsTheRest
<1>13. IsFiniteSet(issued)' /\ Cardinality(issued') = Cardinality(issued) + 1
       /\ Cardinality(issued) \in Nat
  BY <1>8, <1>9, FS_AddElement, FS_CardinalityType DEF StorageInv
<1>14. GenerationsLeft'
  <2> DEFINE c == Cardinality(issued)
  <2>1. \A i \in Indices : slots[i].generation \in Int /\ c \in Int
    BY <1>5, <1>13, PoolAssumption DEF SlotType
  <2>2. /\ slots[freeHead].generation - 1 <= c
        /\ \A i \in Indices :
             /\ slots[i].occupied => slots[i].generation <= c
             /\ ~slots[i].occupied => slots[i].generation - 1 <= c
    BY <1>4 DEF StorageInv, GenerationsLeft
  <2>3. \A i \in Indices :
          /\ slots'[i].occupied => slots'[i].generation <= c + 1
          /\ ~slots'[i].occupied => slots'[i].generation - 1 <= c + 1
    <3> SUFFICES ASSUME NEW i \in Indices
                 PROVE  /\ slots'[i].occupied => slots'[i].generation <= c + 1
                        /\ ~slots'[i].occupied => slots'[i].generation - 1 <= c + 1
      OBVIOUS
    <3> HIDE DEF c
    <3>1. CASE i = freeHead
      BY <1>6, <2>1, <2>2, <3>1
    <3>2. CASE i # freeHead
      BY <1>6, <2>1, <2>2, <3>2
    <3>. QED
      BY <3>1, <3>2
  <2>. QED
    BY <1>13, <2>3 DEF GenerationsLeft
<1>15. IssuedBefore'
  <2>1. \A h \in issued : h.index \in Indices
    BY DEF StorageInv, StorageTypes, Handles
  <2>2. new.index = freeHead /\ new.generation = slots[freeHead].generation
    BY DEF HandleAt
  <2>3. \A h \in issued : \/ h.generation < slots[h.index].generation
                          \/ h.generation = slots[h.index].generation
                             /\ slots[h.index].occupied
    BY DEF StorageInv, IssuedBefore
  <2>4. \A h \in issued' : \/ h.generation < slots'[h.index].generation
                           \/ h.generation = slots'[h.index].generation
                              /\ slots'[h.index].occupied
    BY <1>4, <1>6, <1>8, <2>1, <2>2, <2>3
  <2>. QED
    BY <2>4 DEF IssuedBefore
<1>16. Live' \subseteq issued'
  BY <1>8, <1>10 DEF StorageInv
<1>. QED
  BY <1>4, <1>7, <1>9, <1>10, <1>11, <1>12, <1>13, <1>14, <1>15, <1>16 DEF StorageInv

(* release() puts the slot in front of the list; no other handle changes.    *)
LEMMA FreeSlotKeepsStorage ==
  ASSUME StorageInv, NEW h \in Live, FreeSlot(h)
  PROVE  StorageInv' /\ Live' = Live \ {h}
<1> DEFINE i == h.index
           g == NextGeneration(slots[i].generation)
<1> PICK n \in Int : n = PoolCapacity - size
  BY PoolAssumption DEF StorageInv, StorageTypes
<1>1. PICK list \in [0 .. n -> 0 .. PoolCapacity] : Threads(list, n)
  BY DEF StorageInv, FreeListIsTheRest
<1>2. /\ i \in Indices /\ slots[i].occupied
      /\ h = [index |-> i, generation |-> slots[i].generation]
  BY DEF Live, HandleAt
<1>3. \A j \in Indices : slots[j] \in SlotType
  BY DEF StorageInv, StorageTypes
<1>4. g \in 1 .. GenerationLimit - 1
  BY <1>2, <1>3, PoolAssumption DEF NextGeneration, SlotType
<1>5. slots' = [slots EXCEPT ![i] = [generation |-> g, nextFree |-> freeHead,
                                     occupied |-> FALSE]]
      /\ freeHead' = i /\ size' = size - 1 /\ issued' = issued
  BY DEF FreeSlot
<1>6. /\ slots' \in [Indices -> SlotType]
      /\ \A j \in Indices \ {i} : slots'[j] = slots[j]
      /\ ~slots'[i].occupied /\ slots'[i].generation = g /\ slots'[i].nextFree = freeHead
  BY <1>2, <1>3, <1>4, <1>5 DEF StorageInv, StorageTypes, SlotType
<1>7. Unoccupied' = Unoccupied \cup {i} /\ i \notin Unoccupied
  BY <1>2, <1>6 DEF Unoccupied
<1>8. Live' = Live \ {h}
  <2>1. Live' = { [index |-> j, generation |-> slots'[j].generation] :
                    j \in { k \in Indices : slots'[k].occupied } }
    BY DEF Live, HandleAt
  <2>2. Live = { [index |-> j, generation |-> slots[j].generation] :
                    j \in { k \in Indices : slots[k].occupied } }
    BY DEF Live, HandleAt
  <2>. QED
    BY <1>2, <1>6, <2>1, <2>2
<1>9. n \in Nat /\ n < PoolCapacity
  <2>1. n \in Nat /\ PoolCapacity \in Nat
    BY PoolAssumption DEF StorageInv, StorageTypes
  <2>2. IsFiniteSet(Indices) /\ Cardinality(Indices) = PoolCapacity
    BY IndicesCounted
  <2>3. IsFiniteSet(Indices \ {i}) /\ Cardinality(Indices \ {i}) = PoolCapacity - 1
    BY <1>2, <2>2, FS_RemoveElement
  <2> DEFINE nodes == [k \in 0 .. n - 1 |-> list[k]]
  <2>4. \A k \in 0 .. n - 1 : list[k] \in Indices \ {i}
    BY <1>1, <1>7 DEF Threads, Unoccupied
  <2>5. nodes \in Injection(0 .. n - 1, Indices \ {i})
    BY <1>1, <2>4 DEF Injection, IsInjective, Threads
  <2>6. Cardinality(0 .. n - 1) <= PoolCapacity - 1
    BY <2>3, <2>5, FS_Injection
  <2>7. Cardinality(0 .. n - 1) = n
    BY <2>1, FS_Interval
  <2>. QED
    BY <2>1, <2>6, <2>7
<1>10. StorageTypes'
  BY <1>2, <1>5, <1>6, <1>9, PoolAssumption DEF StorageTypes, StorageInv, Indices
<1>11. FreeListIsTheRest'
  <2> PICK more : more = [k \in 0 .. n + 1 |-> IF k = 0 THEN i ELSE list[k - 1]]
    OBVIOUS
  <2>0. more[0] = i /\ \A k \in 1 .. n + 1 : more[k] = list[k - 1]
    BY <1>9
  <2>1. PoolCapacity - size' = n + 1
    BY <1>5, PoolAssumption DEF StorageInv, StorageTypes
  <2>2. i \in 0 .. PoolCapacity
    BY <1>2, PoolAssumption DEF Indices
  <2>3. more \in [0 .. n + 1 -> 0 .. PoolCapacity]
    BY <1>9, <2>2
  <2>4. more[0] = freeHead' /\ more[n + 1] = PoolCapacity
    BY <1>1, <1>5, <1>9, <2>0 DEF Threads
  <2>5. ASSUME NEW k \in 0 .. n
        PROVE  more[k] \in Unoccupied' /\ slots'[more[k]].nextFree = more[k + 1]
    <3>1. CASE k = 0
      <4>1. more[0] = i /\ more[1] = list[0] /\ list[0] = freeHead
        BY <1>1, <1>9, <2>0 DEF Threads
      <4>. QED
        BY <1>6, <1>7, <3>1, <4>1
    <3>2. CASE k # 0
      <4>1. k - 1 \in 0 .. n - 1 /\ (k - 1) + 1 = k
        BY <1>9, <3>2
      <4>2. more[k] = list[k - 1] /\ more[k + 1] = list[k]
        BY <1>9, <2>0, <3>2
      <4>3. list[k - 1] \in Unoccupied /\ slots[list[k - 1]].nextFree = list[k]
        BY <1>1, <4>1 DEF Threads
      <4>. QED
        BY <1>6, <1>7, <4>2, <4>3 DEF Unoccupied
    <3>. QED
      BY <3>1, <3>2
  <2>6. ASSUME NEW j \in Unoccupied'
        PROVE  \E k \in 0 .. n : more[k] = j
    <3>1. CASE j = i
      <4>1. 0 \in 0 .. n /\ more[0] = i
        BY <1>9, <2>0
      <4>. QED
        BY <3>1, <4>1
    <3>2. CASE j # i
      <4>1. PICK k \in 0 .. n - 1 : list[k] = j
        BY <1>1, <1>7, <3>2 DEF Threads
      <4>2. k + 1 \in 0 .. n /\ more[k + 1] = j
        BY <1>9, <2>0, <4>1
      <4>. QED
        BY <4>2
    <3>. QED
      BY <3>1, <3>2
  <2>7. ASSUME NEW j \in 0 .. n, NEW k \in 0 .. n, more[j] = more[k]
        PROVE  j = k
    <3>1. \A m \in 1 .. n : more[m] = list[m - 1] /\ m - 1 \in 0 .. n - 1
      BY <1>9, <2>0
    <3>2. \A m \in 1 .. n : more[m] # i
      BY <1>1, <1>7, <3>1 DEF Threads
    <3>3. j = 0 \/ j \in 1 .. n
      BY <1>9
    <3>4. k = 0 \/ k \in 1 .. n
      BY <1>9
    <3>5. j = 0 <=> k = 0
      BY <2>0, <2>7, <3>2, <3>3, <3>4
    <3>6. CASE j \in 1 .. n /\ k \in 1 .. n
      <4>1. list[j - 1] = list[k - 1]
        BY <2>7, <3>1, <3>6
      <4>2. j - 1 = k - 1
        BY <1>1, <3>1, <3>6, <4>1 DEF Threads
      <4>3. j \in Int /\ k \in Int
        OBVIOUS
      <4>. QED
        BY <4>2, <4>3
    <3>. QED
      BY <3>3, <3>4, <3>5, <3>6
  <2>8. Threads(more, n + 1)'
    <3>1. 0 .. (n + 1) - 1 = 0 .. n
      BY <1>9
    <3>2. \A k \in 0 .. (n + 1) - 1 :
            more[k] \in Unoccupied' /\ slots'[more[k]].nextFree = more[k + 1]
      BY <2>5, <3>1
    <3>3. \A j \in Unoccupied' : \E k \in 0 .. (n + 1) - 1 : more[k] = j
      BY <2>6, <3>1
    <3>4. \A j, k \in 0 .. (n + 1) - 1 : more[j] = more[k] => j = k
      BY <2>7, <3>1
    <3>. QED
      BY <2>4, <3>2, <3>3, <3>4 DEF Threads
  <2>. QED
    BY <2>1, <2>3, <2>8 DEF FreeListIsTheRest
<1>12. Cardinality(issued) \in Nat /\ IsFiniteSet(issued)
  BY FS_CardinalityType DEF StorageInv
<1>13. slots[i].generation <= Cardinality(issued)
  BY <1>2 DEF StorageInv, GenerationsLeft
<1>14. slots[i].generation \in Nat /\ slots[i].generation < GenerationLimit
  BY <1>2, <1>3, PoolAssumption DEF SlotType
<1>15. GenerationsLeft'
  <2>1. g - 1 <= Cardinality(issued)
    BY <1>12, <1>13, <1>14, PoolAssumption DEF NextGeneration
  <2>. QED
    BY <1>5, <1>6, <2>1 DEF StorageInv, GenerationsLeft
<1>16. IssuedBefore'
  <2> SUFFICES ASSUME Cardinality(issued) < MaxIssued, NEW k \in issued
               PROVE  \/ k.generation < slots'[k.index].generation
                      \/ k.generation = slots'[k.index].generation
                         /\ slots'[k.index].occupied
    BY <1>5 DEF IssuedBefore
  <2>1. g = slots[i].generation + 1
    BY <1>12, <1>13, <1>14, PoolAssumption DEF NextGeneration
  <2>2. k.index \in Indices /\ k.generation \in Nat
    BY PoolAssumption DEF StorageInv, StorageTypes, Handles
  <2>3. \/ k.generation < slots[k.index].generation
        \/ k.generation = slots[k.index].generation /\ slots[k.index].occupied
    BY DEF StorageInv, IssuedBefore
  <2>4. CASE k.index = i
    BY <1>6, <1>14, <2>1, <2>2, <2>3, <2>4
  <2>5. CASE k.index # i
    BY <1>6, <2>2, <2>3, <2>5
  <2>. QED
    BY <2>4, <2>5
<1>17. Live' \subseteq issued'
  BY <1>5, <1>8 DEF StorageInv
<1>. QED
  BY <1>5, <1>8, <1>10, <1>11, <1>12, <1>15, <1>16, <1>17 DEF StorageInv

-----------------------------------------------------------------------------

(* Nothing about the slots depends on who owns them.                         *)
LEMMA SameStorage ==
  ASSUME StorageInv, UNCHANGED poolVars
  PROVE  StorageInv' /\ Live' = Live
<1>1. slots' = slots /\ freeHead' = freeHead /\ size' = size /\ issued' = issued
  BY DEF poolVars
<1>2. Live' = Live /\ StorageTypes' = StorageTypes
      /\ GenerationsLeft' = GenerationsLeft /\ IssuedBefore' = IssuedBefore
  BY <1>1 DEF Live, HandleAt, StorageTypes, GenerationsLeft, IssuedBefore
<1>3. FreeListIsTheRest' = FreeListIsTheRest
  BY <1>1 DEF FreeListIsTheRest, Threads, Unoccupied
<1>. QED
  BY <1>1, <1>2, <1>3 DEF StorageInv

(* Dropping what a Holder owns finds it, and leaves the rest as it was.      *)
LEMMA ReleaseOwnedKeepsStorage ==
  ASSUME StorageInv, misses = FALSE, NEW h, h = NoHandle \/ h \in Live, ReleaseOwned(h)
  PROVE  StorageInv' /\ Live' = Live \ {h} /\ misses' = FALSE
<1>0. Live \subseteq Handles /\ NoHandle \notin Live
  BY LiveHandles DEF StorageInv
<1>1. CASE h = NoHandle
  <2>1. UNCHANGED poolVars /\ misses' = misses
    BY <1>1 DEF ReleaseOwned
  <2>. QED
    BY <1>0, <1>1, <2>1, SameStorage
<1>2. CASE h \in Live
  <2>1. h # NoHandle
    BY <1>0, <1>2
  <2>2. Resolves(h)
    BY <1>0, <1>2, ResolvingIsLive DEF StorageInv
  <2>3. FreeSlot(h) /\ misses' = (misses \/ ~Resolves(h))
    BY <2>1, <2>2 DEF ReleaseOwned, ReleaseSlot
  <2>4. misses' = FALSE
    BY <2>2, <2>3
  <2>. QED
    BY <1>2, <2>3, <2>4, FreeSlotKeepsStorage
<1>. QED
  BY <1>1, <1>2

(* Holders own nothing at first. *)
LEMMA OwnersStart == PoolInit => OwnersInv
<1> SUFFICES ASSUME PoolInit PROVE OwnersInv
  OBVIOUS
<1>1. holder = [o \in Owners |-> NoHandle] /\ raw = {} /\ misses = FALSE
  BY DEF PoolInit
<1>2. Live = {}
  BY DEF PoolInit, Live
<1>3. OccupiedIsOwned
  BY <1>1, <1>2 DEF OccupiedIsOwned
<1>. QED
  BY <1>1, <1>3 DEF OwnersInv

(* Every step of the pool and of its Holders keeps all of it.                *)
LEMMA PoolStep == PoolInv /\ [PoolNext]_holderVars => PoolInv'
<1> SUFFICES ASSUME PoolInv, [PoolNext]_holderVars PROVE PoolInv'
  OBVIOUS
<1>0. /\ StorageInv /\ Live \subseteq Handles /\ NoHandle \notin Handles
      /\ holder \in [Owners -> Handles \cup {NoHandle}]
      /\ raw \in SUBSET Handles
      /\ misses = FALSE
      /\ \A o \in Owners : holder[o] # NoHandle =>
           /\ holder[o] \in Live
           /\ holder[o] \notin raw
           /\ \A p \in Owners \ {o} : holder[p] # holder[o]
      /\ Live = raw \cup ({ holder[o] : o \in Owners } \ {NoHandle})
  BY LiveHandles DEF PoolInv, OwnersInv, OccupiedIsOwned, StorageInv
<1> SUFFICES StorageInv' /\ OwnersInv'
  BY DEF PoolInv
<1>1. CASE AllocateSlot
  <2> PICK new \in Handles : new = HandleAt(freeHead)
    BY <1>0, <1>1, TakeSlotKeepsStorage DEF AllocateSlot
  <2>1. StorageInv' /\ Live' = Live \cup {new} /\ new \notin issued
    BY <1>0, <1>1, TakeSlotKeepsStorage DEF AllocateSlot
  <2>2. raw' = raw \cup {new} /\ holder' = holder /\ misses' = misses
    BY <1>1 DEF AllocateSlot
  <2>3. new \notin Live
    BY <1>0, <2>1 DEF StorageInv
  <2>. QED
    BY <1>0, <2>1, <2>2, <2>3 DEF OwnersInv, OccupiedIsOwned
<1>2. CASE AllocateFull \/ UNCHANGED holderVars
  <2>1. UNCHANGED poolVars /\ raw' = raw /\ holder' = holder /\ misses' = misses
    BY <1>2 DEF AllocateFull, holderVars, poolVars
  <2>2. StorageInv' /\ Live' = Live
    BY <1>0, <2>1, SameStorage
  <2>. QED
    BY <1>0, <2>1, <2>2 DEF OwnersInv, OccupiedIsOwned
<1>3. ASSUME NEW h \in issued, Release(h) PROVE StorageInv' /\ OwnersInv'
  <2>1. raw' = raw \ {h} /\ holder' = holder /\ misses' = misses
        /\ \A o \in Owners : holder[o] # h
    BY <1>3 DEF Release
  <2>2. h \in Handles
    BY <1>0 DEF StorageInv, StorageTypes
  <2>3. StorageInv' /\ Live' = Live \ {h}
    <3>1. CASE Resolves(h)
      <4>1. h \in Live /\ FreeSlot(h)
        BY <1>0, <1>3, <2>2, <3>1, ResolvingIsLive DEF Release, ReleaseSlot, StorageInv
      <4>. QED
        BY <1>0, <4>1, FreeSlotKeepsStorage
    <3>2. CASE ~Resolves(h)
      <4>1. h \notin Live /\ UNCHANGED poolVars
        BY <1>0, <1>3, <2>2, <3>2, ResolvingIsLive DEF Release, ReleaseSlot, StorageInv
      <4>. QED
        BY <1>0, <4>1, SameStorage
    <3>. QED
      BY <3>1, <3>2
  <2>. QED
    BY <1>0, <2>1, <2>3 DEF OwnersInv, OccupiedIsOwned
<1>4. ASSUME NEW o \in Owners, Acquire(o) PROVE StorageInv' /\ OwnersInv'
  <2> PICK new \in Handles : new = HandleAt(freeHead)
    BY <1>0, <1>4, TakeSlotKeepsStorage DEF Acquire
  <2>1. StorageInv' /\ Live' = Live \cup {new} /\ new \notin issued
    BY <1>0, <1>4, TakeSlotKeepsStorage DEF Acquire
  <2>2. raw' = raw /\ holder' = [holder EXCEPT ![o] = new] /\ misses' = misses
        /\ holder[o] = NoHandle
    BY <1>4 DEF Acquire
  <2>3. new \notin Live
    BY <1>0, <2>1 DEF StorageInv
  <2>. QED
    BY <1>0, <2>1, <2>2, <2>3 DEF OwnersInv, OccupiedIsOwned
<1>5. ASSUME NEW o \in Owners, Reset(o) PROVE StorageInv' /\ OwnersInv'
  <2> PICK h : h = holder[o]
    OBVIOUS
  <2>1. ReleaseOwned(h) /\ holder' = [holder EXCEPT ![o] = NoHandle] /\ raw' = raw
    BY <1>5 DEF Reset
  <2>2. h = NoHandle \/ h \in Live
    BY <1>0
  <2>3. StorageInv' /\ Live' = Live \ {h} /\ misses' = FALSE
    BY <1>0, <2>1, <2>2, ReleaseOwnedKeepsStorage
  <2>. QED
    BY <1>0, <2>1, <2>2, <2>3 DEF OwnersInv, OccupiedIsOwned
<1>6. ASSUME NEW o \in Owners, Detach(o) PROVE StorageInv' /\ OwnersInv'
  <2>1. UNCHANGED poolVars /\ misses' = misses /\ raw' = raw \cup {holder[o]}
        /\ holder' = [holder EXCEPT ![o] = NoHandle] /\ holder[o] # NoHandle
    BY <1>6 DEF Detach
  <2>2. StorageInv' /\ Live' = Live
    BY <1>0, <2>1, SameStorage
  <2>. QED
    BY <1>0, <2>1, <2>2 DEF OwnersInv, OccupiedIsOwned
<1>7. ASSUME NEW to \in Owners, NEW from \in Owners, Move(to, from)
      PROVE  StorageInv' /\ OwnersInv'
  <2> PICK h : h = holder[to]
    OBVIOUS
  <2>1. ReleaseOwned(h) /\ raw' = raw /\ to # from
        /\ holder' = [holder EXCEPT ![to] = holder[from], ![from] = NoHandle]
    BY <1>7 DEF Move, Moved
  <2>2. h = NoHandle \/ h \in Live
    BY <1>0
  <2>3. StorageInv' /\ Live' = Live \ {h} /\ misses' = FALSE
    BY <1>0, <2>1, <2>2, ReleaseOwnedKeepsStorage
  <2>. QED
    BY <1>0, <2>1, <2>2, <2>3 DEF OwnersInv, OccupiedIsOwned
<1>8. ASSUME NEW o \in Owners, NEW h \in raw, Adopt(o, h)
      PROVE  StorageInv' /\ OwnersInv'
  <2>1. UNCHANGED poolVars /\ misses' = misses /\ raw' = raw \ {h}
        /\ holder' = [holder EXCEPT ![o] = h] /\ holder[o] = NoHandle
    BY <1>8 DEF Adopt
  <2>2. StorageInv' /\ Live' = Live
    BY <1>0, <2>1, SameStorage
  <2>. QED
    BY <1>0, <2>1, <2>2 DEF OwnersInv, OccupiedIsOwned
<1>. QED
  BY <1>1, <1>2, <1>3, <1>4, <1>5, <1>6, <1>7, <1>8 DEF PoolNext

(* What the properties say follows. *)
LEMMA PoolInvSuffices == PoolInv => HoldersOwnAlone
<1> SUFFICES ASSUME PoolInv PROVE HoldersOwnAlone
  OBVIOUS
<1>1. PoolTypeOK
  BY DEF PoolInv, StorageInv, StorageTypes, SlotType, OwnersInv, PoolTypeOK
<1>2. \A o \in Owners : holder[o] # NoHandle => Resolves(holder[o])
  <2>1. StorageTypes /\ Live \subseteq Handles
    BY LiveHandles DEF PoolInv, StorageInv
  <2>2. \A o \in Owners : holder[o] # NoHandle => holder[o] \in Live
    BY DEF PoolInv, OwnersInv
  <2>3. \A h \in Handles : h \in Live => Resolves(h)
    BY <2>1, ResolvingIsLive
  <2>. QED
    BY <2>1, <2>2, <2>3
<1>. QED
  BY <1>1, <1>2 DEF PoolInv, StorageInv, OwnersInv, HoldersOwnAlone

(* A Holder is the one owner of a live handle and its release always finds   *)
(* it; every occupied slot is owned (core/holder.hxx, core/object_pool.hxx). *)
THEOREM HoldersOwn == PoolSpec => []HoldersOwnAlone
<1>1. PoolInit => PoolInv
  BY StorageStarts, OwnersStart DEF PoolInv
<1>. QED
  BY <1>1, PoolStep, PoolInvSuffices, PTL DEF PoolSpec

-----------------------------------------------------------------------------

ResolvesWhileLive == { h \in issued : Resolves(h) } = Live

(* The handles that resolve are those of the occupied slots.                 *)
LEMMA ResolvingHandles == PoolInv => ResolvesWhileLive
<1> SUFFICES ASSUME PoolInv PROVE ResolvesWhileLive
  OBVIOUS
<1>1. StorageTypes /\ issued \subseteq Handles /\ Live \subseteq issued
  BY DEF PoolInv, StorageInv, StorageTypes
<1>2. \A h \in Handles : Resolves(h) <=> h \in Live
  BY <1>1, ResolvingIsLive
<1>. QED
  BY <1>1, <1>2 DEF ResolvesWhileLive

(* A step of the pool is a step of the promise, or does not concern it.      *)
LEMMA PoolStepIsPromised ==
  PoolInv /\ ResolvesWhileLive /\ ResolvesWhileLive' /\ [PoolNext]_holderVars
    => [Promise!Next]_(Promise!vars)
<1> SUFFICES ASSUME PoolInv, ResolvesWhileLive, ResolvesWhileLive', [PoolNext]_holderVars
             PROVE  [Promise!Next]_(Promise!vars)
  OBVIOUS
<1> DEFINE known == { h \in issued : Resolves(h) }
<1>0. StorageInv /\ Live \subseteq Handles /\ NoHandle \notin Handles
  BY LiveHandles DEF PoolInv, StorageInv
<1>1. known = Live /\ known' = Live'
  BY DEF ResolvesWhileLive
<1> HIDE DEF known
<1>2. ASSUME TakeSlot, Cardinality(issued) < MaxIssued PROVE Promise!Next
  <2> PICK new \in Handles : new = HandleAt(freeHead)
    BY <1>0, <1>2, TakeSlotKeepsStorage
  <2>1. Live' = Live \cup {new} /\ new \notin issued
        /\ freeHead \in Indices /\ ~slots[freeHead].occupied
    BY <1>0, <1>2, TakeSlotKeepsStorage
  <2>2. Cardinality(Live) < PoolCapacity
    BY <1>0, <2>1, RoomIsLeft DEF StorageInv
  <2>3. issued' = issued \cup {new}
    BY <1>2 DEF TakeSlot
  <2>4. Promise!Cardinality(known) = Cardinality(known)
    BY DEF Promise!Cardinality, Cardinality
  <2>5. Promise!Allocate(new)
    BY <1>1, <2>1, <2>2, <2>3, <2>4 DEF Promise!Allocate, known
  <2>. QED
    BY <2>5 DEF Promise!Next
<1>3. ASSUME NEW h \in Live, FreeSlot(h) PROVE Promise!Next
  <2>1. Live' = Live \ {h} /\ issued' = issued /\ h \in Handles
    BY <1>0, <1>3, FreeSlotKeepsStorage DEF FreeSlot
  <2>2. Promise!Release(h)
    BY <1>1, <2>1 DEF Promise!Release, known
  <2>. QED
    BY <2>1, <2>2 DEF Promise!Next
<1>4. ASSUME UNCHANGED poolVars PROVE UNCHANGED Promise!vars
  <2>1. Live' = Live /\ issued' = issued
    BY <1>0, <1>4, SameStorage DEF poolVars
  <2>. QED
    BY <1>1, <2>1 DEF Promise!vars, known
<1>5. ASSUME NEW h, h = NoHandle \/ h \in Live, ReleaseOwned(h)
      PROVE  [Promise!Next]_(Promise!vars)
  <2>1. CASE h = NoHandle
    BY <1>4, <1>5, <2>1 DEF ReleaseOwned
  <2>2. CASE h \in Live
    <3>1. h # NoHandle /\ Resolves(h)
      BY <1>0, <2>2, ResolvingIsLive DEF StorageInv
    <3>2. FreeSlot(h)
      BY <1>5, <3>1 DEF ReleaseOwned, ReleaseSlot
    <3>. QED
      BY <1>3, <2>2, <3>2
  <2>. QED
    BY <1>5, <2>1, <2>2
<1>6. \A o \in Owners : holder[o] = NoHandle \/ holder[o] \in Live
  BY DEF PoolInv, OwnersInv
<1>7. CASE AllocateSlot \/ \E o \in Owners : Acquire(o)
  BY <1>2, <1>7 DEF AllocateSlot, Acquire
<1>8. CASE AllocateFull \/ UNCHANGED holderVars
  BY <1>4, <1>8 DEF AllocateFull, holderVars, poolVars
<1>9. ASSUME NEW h \in issued, Release(h) PROVE [Promise!Next]_(Promise!vars)
  <2>1. h \in Handles
    BY <1>0 DEF StorageInv, StorageTypes
  <2>2. CASE Resolves(h)
    <3>1. h \in Live /\ FreeSlot(h)
      BY <1>0, <1>9, <2>1, <2>2, ResolvingIsLive DEF Release, ReleaseSlot, StorageInv
    <3>. QED
      BY <1>3, <3>1
  <2>3. CASE ~Resolves(h)
    BY <1>4, <1>9, <2>3 DEF Release, ReleaseSlot
  <2>. QED
    BY <2>2, <2>3
<1>10. ASSUME NEW o \in Owners, Reset(o) PROVE [Promise!Next]_(Promise!vars)
  <2> PICK h : h = holder[o]
    OBVIOUS
  <2>. QED
    BY <1>5, <1>6, <1>10 DEF Reset
<1>11. ASSUME NEW to \in Owners, NEW from \in Owners, Move(to, from)
       PROVE  [Promise!Next]_(Promise!vars)
  <2> PICK h : h = holder[to]
    OBVIOUS
  <2>. QED
    BY <1>5, <1>6, <1>11 DEF Move
<1>12. CASE \/ \E o \in Owners : Detach(o)
            \/ \E o \in Owners, h \in raw : Adopt(o, h)
  BY <1>4, <1>12 DEF Detach, Adopt
<1>. QED
  BY <1>7, <1>8, <1>9, <1>10, <1>11, <1>12 DEF PoolNext

(* The pool of core/object_pool.hxx keeps what HandlePool promises: a handle *)
(* names one allocation, until its release and never again.                  *)
THEOREM PoolImplementsHandlePool == PoolSpec => ImplementsHandlePool
<1>1. PoolInit => PoolInv
  BY StorageStarts, OwnersStart DEF PoolInv
<1>2. PoolInit => Promise!Init
  BY DEF PoolInit, Promise!Init
<1>. QED
  BY <1>1, <1>2, PoolStep, ResolvingHandles, PoolStepIsPromised, PTL
     DEF PoolSpec, ImplementsHandlePool, Promise!Spec

-----------------------------------------------------------------------------
(* Where the render thread may be.                                           *)
AtTypeOK ==
  \/ at \in [phase: {"creating", "registering"}]
  \/ at \in [phase: {"between"}, slot: Slots]
  \/ at \in [phase: {"processing"}, slot: Slots, node: 1 .. Len(StagesOf) + 1,
             next: Nat \ {0}, clean: BOOLEAN]

(* Nothing is built before create() has returned, and no binary cache is left  *)
(* when it has.                                                              *)
NothingYet ==
  ~Running =>
    /\ DOMAIN storage.objects = {} /\ retiring = {} /\ used = [k \in Slots |-> {}]
    /\ unseen = {} /\ queue = {}

StorageTypeOK ==
  /\ storage = [open |-> storage.open, cache |-> storage.cache, objects |-> storage.objects]
  /\ storage.open \in BOOLEAN
  /\ storage.open <=> at.phase = "creating"

(* A batch of changes needs an edit.                                         *)
EditsSoFar == IF Files = {} THEN 0 ELSE Edits
EditsCounted == gen + Cardinality(unseen) + Cardinality(queue) <= EditsSoFar

(* How many frames before the last one the slot was submitted when slot k is  *)
(* the next.                                                                 *)
Age(j, k) == IF j < k THEN k - 1 - j ELSE k - 1 - j + FramesInFlight

(* An object that a frame binds is live, or has the ticks left that bring the  *)
(* slot's turn round again.                                                  *)
Kept(o, ticks) ==
  o \in LiveObjects \/ \E r \in retiring : r.object = o /\ r.remaining >= ticks

FramesKeepObjects ==
  /\ at.phase = "between" =>
       \A j \in Slots : \A o \in used[j] : Kept(o, FramesInFlight - Age(j, at.slot))
  /\ at.phase = "processing" =>
       \A j \in Slots : \A o \in used[j] :
         j # at.slot /\ Kept(o, FramesInFlight - 1 - Age(j, at.slot))

(* Each object is one pipeline's, or retires once.                           *)
OneOwner ==
  Running =>
    /\ DOMAIN storage.objects = LiveObjects \cup Retiring
    /\ LiveObjects \cap Retiring = {}
    /\ \A p, q \in Pipelines : pipe[p].live = pipe[q].live => p = q
    /\ \A r, e \in retiring : r.object = e.object => r = e

(* The pipeline whose turn it is: its stages are clean so far, if they all were *)
(* when the loop came to them.                                               *)
CleanSoFar ==
  at.phase = "processing" /\ at.clean =>
    \A p \in Pipelines : at.node = p =>
      \A i \in 1 .. Len(StagesOf[p]) : i < at.next => ~stage[StagesOf[p][i]].dirty

(* A stage that was tried since its last change is not tried again.          *)
TriesCounted ==
  /\ tries \in [Stages -> 0 .. 1]
  /\ \A s \in Stages : tries[s] = 1 => stage[s].attempted >= stage[s].changed

ReloadInv ==
  /\ ReloadTypeOK /\ AtTypeOK /\ StorageTypeOK /\ NothingYet
  /\ EditsCounted /\ FramesKeepObjects /\ OneOwner
  /\ CleanIsBuilt /\ CleanSoFar /\ TriesCounted

-----------------------------------------------------------------------------
(* The operators.                                                            *)

LEMMA MinIsMember ==
  ASSUME NEW S \in SUBSET Nat, S # {}
  PROVE  Min(S) \in S
BY LeastNumber DEF Min

(* A bounded set of numbers has a greatest member.                           *)
LEMMA MaxIsGreatest ==
  ASSUME NEW S \in SUBSET Nat, S # {}, NEW n \in Nat, \A s \in S : s <= n
  PROVE  Max(S) \in S /\ \A s \in S : s <= Max(S)
<1> DEFINE T == { n - s : s \in S }
<1>0. \A s \in S : s \in Nat /\ n - s \in Nat
  OBVIOUS
<1>1. T \in SUBSET Nat /\ T # {}
  BY <1>0
<1>2. PICK t \in T : \A u \in T : t <= u
  <2>. HIDE DEF T
  <2>. QED  BY <1>1, LeastNumber
<1>3. PICK m \in S : t = n - m
  BY <1>2
<1>4. ASSUME NEW s \in S PROVE s <= m
  <2>1. t <= n - s
    BY <1>2
  <2>. QED  BY <2>1, <1>0, <1>3
<1>. QED  BY <1>4 DEF Max

(* The last edit has the greatest version.                                   *)
LEMMA EditsType ==
  ASSUME NEW c \in [Files -> [version: Versions, good: BOOLEAN]], Files # {}
  PROVE  LET e == Max({ c[f].version : f \in Files })
         IN /\ e \in Versions /\ \A f \in Files : c[f].version <= e
            /\ e \in { c[f].version : f \in Files }
<1> DEFINE S == { c[f].version : f \in Files }
<1>1. S \in SUBSET Nat /\ S # {} /\ \A s \in S : s <= MaxEdits
  BY ReloadAssumption DEF Versions
<1>2. Max(S) \in S /\ \A s \in S : s <= Max(S)
  <2>. HIDE DEF S
  <2>. QED  BY <1>1, MaxIsGreatest, ReloadAssumption
<1>. QED  BY <1>2, <1>1, ReloadAssumption DEF Versions

(* The pipelines and their stages.                                           *)
LEMMA StagesOfPipelines ==
  /\ Len(StagesOf) \in Nat /\ Pipelines = 1 .. Len(StagesOf)
  /\ \A p \in Pipelines :
       /\ Len(StagesOf[p]) \in Nat /\ UsedBy(p) \subseteq Stages
       /\ \A i \in 1 .. Len(StagesOf[p]) : StagesOf[p][i] \in UsedBy(p)
       /\ \A s \in UsedBy(p) : \E i \in 1 .. Len(StagesOf[p]) : StagesOf[p][i] = s
BY ReloadAssumption DEF Pipelines, UsedBy, ToSet

(* Building a pipeline adds one object, made of what its stages are, and      *)
(* leaves the others alone.                                                  *)
LEMMA BuiltAdds ==
  ASSUME NEW st, ~st.open, NEW p \in Pipelines, NEW compiled
  PROVE  LET b == Built(st, p, compiled)
         IN /\ b = [open |-> st.open, cache |-> b.cache, objects |-> b.objects]
            /\ DOMAIN b.objects = DOMAIN st.objects \cup {NextFree(st)}
            /\ b.objects[NextFree(st)] = [s \in UsedBy(p) |-> compiled[s].spirv]
            /\ \A o \in DOMAIN st.objects : o # NextFree(st) => b.objects[o] = st.objects[o]
<1> DEFINE spirv == [s \in UsedBy(p) |-> compiled[s].spirv]
<1>1. Linked(st, p, spirv) = spirv
  BY DEF Linked, Restrict
<1>. QED  BY <1>1 DEF Built, Overlaid

-----------------------------------------------------------------------------
(* Types, and what has not happened yet.                                     *)

TypeInv == ReloadTypeOK /\ AtTypeOK /\ StorageTypeOK /\ NothingYet

LEMMA TypeInit == ReloadInit => TypeInv
<1> SUFFICES ASSUME ReloadInit PROVE TypeInv
  OBVIOUS
<1> USE ReloadAssumption
<1>1. at = [phase |-> "creating"] /\ ~Running
  BY DEF ReloadInit, Running
<1>3. AtTypeOK
  BY <1>1 DEF AtTypeOK
<1>4. StorageTypeOK
  BY <1>1 DEF ReloadInit, StorageTypeOK
<1>5. NothingYet
  BY DEF ReloadInit, NothingYet
<1>2. ReloadTypeOK
  BY <1>1 DEF ReloadInit, ReloadTypeOK, Versions, Slots
<1>. QED  BY <1>2, <1>3, <1>4, <1>5 DEF TypeInv

LEMMA TypeCreate == TypeInv /\ Create => TypeInv'
<1> SUFFICES ASSUME TypeInv, Create PROVE TypeInv'
  OBVIOUS
<1>1. /\ ~Running /\ ~Running' /\ AtTypeOK' /\ StorageTypeOK'
      /\ storage'.objects = storage.objects
  BY DEF TypeInv, Create, StorageMoved, Running, AtTypeOK, StorageTypeOK
<1>2. NothingYet'
  BY <1>1 DEF TypeInv, NothingYet, Create, disk
<1>3. ReloadTypeOK'
  BY <1>1 DEF TypeInv, Create, ReloadTypeOK, disk
<1>. QED  BY <1>1, <1>2, <1>3 DEF TypeInv

LEMMA TypeRegister == TypeInv /\ Register => TypeInv'
<1> SUFFICES ASSUME TypeInv, Register PROVE TypeInv'
  OBVIOUS
<1> USE ReloadAssumption
<1>1. at' = [phase |-> "between", slot |-> 0] /\ 0 \in Slots
  <2>1. 0 \in Slots
    BY DEF Slots
  <2>. QED  BY <2>1 DEF Register
<1>9. Running' /\ AtTypeOK' /\ NothingYet'
  BY <1>1 DEF Running, AtTypeOK, NothingYet
<1>2. ~storage.open /\ storage' = Registered(storage, stage')
  BY DEF TypeInv, StorageTypeOK, Register
<1>3. StorageTypeOK'
  <2>1. PICK x, y : storage' = [open |-> storage.open, cache |-> x, objects |-> y]
    BY <1>2 DEF Registered
  <2>2. storage'.open = storage.open /\ storage'.cache = x /\ storage'.objects = y
    BY <2>1
  <2>. QED  BY <1>1, <1>2, <2>1, <2>2 DEF TypeInv, StorageTypeOK
<1>4. stage' \in [Stages -> [spirv: Versions, dirty: BOOLEAN,
                             changed: 0 .. gen, attempted: 0 .. gen]]
  BY DEF TypeInv, ReloadTypeOK, Register
<1>5. DOMAIN storage'.objects = Pipelines /\ Pipelines \subseteq Objects
  BY <1>2, StagesOfPipelines DEF Registered, Objects
<1>6. \A p \in Pipelines : storage'.objects[p] \in [UsedBy(p) -> Versions]
  BY <1>2, <1>4, StagesOfPipelines DEF Registered, Linked, Restrict
<1>7. pipe' \in [Pipelines -> [live: Objects, pending: BOOLEAN]]
  BY <1>5 DEF Register
<1>8. ReloadTypeOK'
  <2>1. /\ DOMAIN storage'.objects \subseteq Objects
        /\ \A o \in DOMAIN storage'.objects :
             storage'.objects[o] \in UNION { [UsedBy(p) -> Versions] : p \in Pipelines }
    BY <1>5, <1>6
  <2>. QED  BY <1>4, <1>7, <2>1 DEF TypeInv, ReloadTypeOK, Register, disk
<1>. QED  BY <1>9, <1>3, <1>8 DEF TypeInv

LEMMA TypeBeginFrame ==
  ASSUME TypeInv, BeginFrame, gen' \in 0 .. MaxEdits
  PROVE  TypeInv'
<1> USE ReloadAssumption
<1>1. /\ at' = Turn(1, 1, TRUE) /\ at.slot \in Slots
      /\ at.phase = "between" /\ Running /\ Running'
  BY DEF TypeInv, BeginFrame, Turn, Running, AtTypeOK
<1>7. AtTypeOK'
  BY <1>1, StagesOfPipelines DEF AtTypeOK, Turn
<1>8. NothingYet'
  BY <1>1 DEF NothingYet
<1>9. StorageTypeOK'
  <2>1. PICK x : storage' = [storage EXCEPT !.objects = x]
    BY DEF BeginFrame
  <2>2. storage = [open |-> storage.open, cache |-> storage.cache, objects |-> storage.objects]
    BY DEF TypeInv, StorageTypeOK
  <2>3. storage' = [open |-> storage.open, cache |-> storage.cache, objects |-> x]
    BY <2>1, <2>2
  <2>4. storage'.open = storage.open /\ storage'.cache = storage.cache /\ storage'.objects = x
    BY <2>3
  <2>. QED  BY <1>1, <2>3, <2>4 DEF TypeInv, StorageTypeOK, Turn
<1>2. stage' \in [Stages -> [spirv: Versions, dirty: BOOLEAN,
                             changed: 0 .. gen', attempted: 0 .. gen']]
  <2>1. /\ stage \in [Stages -> [spirv: Versions, dirty: BOOLEAN,
                                 changed: 0 .. gen, attempted: 0 .. gen]]
        /\ gen \in Nat /\ gen' \in Nat /\ gen <= gen'
    <3>1. gen \in Nat /\ gen' \in Nat
      BY DEF TypeInv, ReloadTypeOK
    <3>2. gen' = gen \/ gen' = gen + 1
      BY DEF BeginFrame
    <3>3. gen <= gen'
      BY <3>1, <3>2
    <3>. QED  BY <3>1, <3>3 DEF TypeInv, ReloadTypeOK
  <2>2. ASSUME NEW s \in Stages
        PROVE  /\ stage[s] \in [spirv: Versions, dirty: BOOLEAN,
                                changed: 0 .. gen', attempted: 0 .. gen']
               /\ [stage[s] EXCEPT !.dirty = TRUE, !.changed = gen']
                    \in [spirv: Versions, dirty: BOOLEAN,
                         changed: 0 .. gen', attempted: 0 .. gen']
    <3>1. stage[s] \in [spirv: Versions, dirty: BOOLEAN,
                        changed: 0 .. gen, attempted: 0 .. gen]
      BY <2>1
    <3>2. 0 .. gen \subseteq 0 .. gen' /\ gen' \in 0 .. gen'
      BY <2>1
    <3>. QED  BY <3>1, <3>2
  <2>. QED  BY <2>2 DEF BeginFrame
<1>3. /\ DOMAIN storage'.objects \subseteq Objects
      /\ \A o \in DOMAIN storage'.objects :
           storage'.objects[o] \in UNION { [UsedBy(p) -> Versions] : p \in Pipelines }
  BY DEF TypeInv, ReloadTypeOK, StorageTypeOK, BeginFrame, Restrict
<1>4. pipe' \in [Pipelines -> [live: Objects, pending: BOOLEAN]]
  BY <1>1 DEF TypeInv, ReloadTypeOK, BeginFrame, Marks
<1>5. \A r \in retiring' : r \in [object: Objects, remaining: 1 .. FramesInFlight]
  <2>1. \A r \in retiring : r \in [object: Objects, remaining: 1 .. FramesInFlight]
    BY DEF TypeInv, ReloadTypeOK
  <2>2. \A r \in retiring : r.remaining > 1 =>
          [r EXCEPT !.remaining = @ - 1] \in [object: Objects, remaining: 1 .. FramesInFlight]
    <3>1. ASSUME NEW r \in retiring, r.remaining > 1
          PROVE  /\ r \in [object: Objects, remaining: 1 .. FramesInFlight]
                 /\ r.remaining - 1 \in 1 .. FramesInFlight
      BY <2>1, <3>1
    <3>. QED  BY <3>1
  <2>. QED  BY <2>2 DEF BeginFrame, Ticked
<1>6. ReloadTypeOK'
  BY <1>2, <1>3, <1>4, <1>5 DEF TypeInv, ReloadTypeOK, BeginFrame, disk
<1>. QED  BY <1>7, <1>8, <1>9, <1>6 DEF TypeInv

LEMMA TypeCompile ==
  ASSUME TypeInv, NEW p \in Pipelines, Compile(p)
  PROVE  TypeInv'
<1> USE ReloadAssumption
<1>1. Running /\ Running' /\ at.phase = "processing" /\ at'.phase = "processing"
  BY DEF Compile, Processing, Turn, Running
<1>2. /\ at \in [phase: {"processing"}, slot: Slots, node: 1 .. Len(StagesOf) + 1,
                 next: Nat \ {0}, clean: BOOLEAN]
      /\ at.next \in 1 .. Len(StagesOf[p])
  <2>1. at \in [phase: {"processing"}, slot: Slots, node: 1 .. Len(StagesOf) + 1,
                next: Nat \ {0}, clean: BOOLEAN]
    BY <1>1 DEF TypeInv, AtTypeOK
  <2>. QED  BY <2>1, StagesOfPipelines DEF Compile, Done
<1>3. AtTypeOK'
  BY <1>2, StagesOfPipelines DEF Compile, Turn, AtTypeOK
<1>4. NothingYet' /\ StorageTypeOK'
  BY <1>1 DEF TypeInv, Compile, NothingYet, StorageTypeOK
<1>5. PICK s \in Stages : s = StagesOf[p][at.next]
  BY <1>2, StagesOfPipelines
<1>6. /\ stage \in [Stages -> [spirv: Versions, dirty: BOOLEAN,
                               changed: 0 .. gen, attempted: 0 .. gen]]
      /\ content[FileOf[s]] \in [version: Versions, good: BOOLEAN] /\ gen \in Nat
  BY DEF TypeInv, ReloadTypeOK
<1>7. Attempted(stage[s], content[FileOf[s]])
        \in [spirv: Versions, dirty: BOOLEAN, changed: 0 .. gen, attempted: 0 .. gen]
  BY <1>6 DEF Attempted
<1>8. stage' = stage \/ stage' = [stage EXCEPT ![s] = Attempted(stage[s], content[FileOf[s]])]
  BY <1>5 DEF Compile
<1>9. stage' \in [Stages -> [spirv: Versions, dirty: BOOLEAN,
                             changed: 0 .. gen, attempted: 0 .. gen]]
  BY <1>6, <1>7, <1>8
<1>10. ReloadTypeOK'
  BY <1>1, <1>9 DEF TypeInv, ReloadTypeOK, Compile, disk
<1>. QED  BY <1>3, <1>4, <1>10 DEF TypeInv

(* What the swap does to the storage.                                        *)
LEMMA RebuildAdds ==
  ASSUME TypeInv, NEW p \in Pipelines, Rebuild(p)
  PROVE  LET o == NextFree(storage)
         IN /\ storage' = [open |-> FALSE, cache |-> storage'.cache,
                            objects |-> storage'.objects]
            /\ o \in Objects /\ o \notin DOMAIN storage.objects
            /\ DOMAIN storage'.objects = DOMAIN storage.objects \cup {o}
            /\ storage'.objects[o] = [s \in UsedBy(p) |-> stage[s].spirv]
            /\ \A x \in DOMAIN storage.objects : storage'.objects[x] = storage.objects[x]
<1>1. ~storage.open
  BY DEF TypeInv, StorageTypeOK, Rebuild, Processing
<1>2. NextFree(storage) \in Free(storage)
  <2> DEFINE F == Free(storage)
  <2>1. F \in SUBSET Nat /\ F # {}
    BY ReloadAssumption DEF Rebuild, Free, Objects
  <2>2. PICK f : f = F
    OBVIOUS
  <2>3. Min(f) \in f
    BY <2>1, <2>2, MinIsMember
  <2>. QED  BY <2>2, <2>3 DEF NextFree
<1>3. PICK st, compiled, b :
        st = storage /\ compiled = stage /\ b = Built(storage, p, stage)
  OBVIOUS
<1>4. /\ b = [open |-> st.open, cache |-> b.cache, objects |-> b.objects]
      /\ DOMAIN b.objects = DOMAIN st.objects \cup {NextFree(st)}
      /\ b.objects[NextFree(st)] = [s \in UsedBy(p) |-> compiled[s].spirv]
      /\ \A o \in DOMAIN st.objects : o # NextFree(st) => b.objects[o] = st.objects[o]
  BY <1>1, <1>3, BuiltAdds
<1>5. storage' = b
  BY <1>3 DEF Rebuild, Swapped
<1>. QED  BY <1>1, <1>2, <1>3, <1>4, <1>5 DEF Free

LEMMA TypeRebuild ==
  ASSUME TypeInv, NEW p \in Pipelines, Rebuild(p)
  PROVE  TypeInv'
<1> USE ReloadAssumption
<1>0. PICK o \in Objects :
        /\ o = NextFree(storage)
        /\ storage' = [open |-> FALSE, cache |-> storage'.cache, objects |-> storage'.objects]
        /\ DOMAIN storage'.objects = DOMAIN storage.objects \cup {o}
        /\ storage'.objects[o] = [s \in UsedBy(p) |-> stage[s].spirv]
        /\ \A x \in DOMAIN storage.objects : storage'.objects[x] = storage.objects[x]
  BY RebuildAdds
<1>1. Running /\ Running' /\ at.phase = "processing" /\ at'.phase = "processing"
  BY DEF TypeInv, AtTypeOK, Rebuild, Processing, NextNode, Turn, Running
<1>2. AtTypeOK'
  BY StagesOfPipelines DEF TypeInv, Rebuild, Processing, NextNode, Turn, AtTypeOK
<1>3. NothingYet'
  BY <1>1 DEF NothingYet
<1>4. StorageTypeOK'
  <2>1. storage'.open = FALSE
    BY <1>0
  <2>. QED  BY <1>0, <1>1, <2>1 DEF StorageTypeOK
<1>5. [s \in UsedBy(p) |-> stage[s].spirv] \in [UsedBy(p) -> Versions]
  BY StagesOfPipelines DEF TypeInv, ReloadTypeOK
<1>6. /\ DOMAIN storage'.objects \subseteq Objects
      /\ \A x \in DOMAIN storage'.objects :
           storage'.objects[x] \in UNION { [UsedBy(q) -> Versions] : q \in Pipelines }
  BY <1>5, <1>0 DEF TypeInv, ReloadTypeOK
<1>7. pipe' \in [Pipelines -> [live: Objects, pending: BOOLEAN]]
  BY <1>1, <1>0 DEF TypeInv, ReloadTypeOK, Rebuild
<1>8. \A r \in retiring' : r \in [object: Objects, remaining: 1 .. FramesInFlight]
  BY <1>1 DEF TypeInv, ReloadTypeOK, Rebuild, Retire
<1>9. ReloadTypeOK'
  BY <1>1, <1>6, <1>7, <1>8 DEF TypeInv, ReloadTypeOK, Rebuild, disk
<1>. QED  BY <1>2, <1>3, <1>4, <1>9 DEF TypeInv

LEMMA TypePassOver ==
  ASSUME TypeInv, NEW p \in Pipelines, PassOver(p)
  PROVE  TypeInv'
<1> USE ReloadAssumption
<1>1. Running /\ Running' /\ at.phase = "processing" /\ at'.phase = "processing"
  BY DEF TypeInv, AtTypeOK, PassOver, Processing, NextNode, Turn, Running
<1>2. refusals' \in 0 .. MaxRefusals
  BY DEF TypeInv, ReloadTypeOK, PassOver
<1>3. AtTypeOK'
  BY StagesOfPipelines DEF TypeInv, PassOver, Processing, NextNode, Turn, AtTypeOK
<1>4. NothingYet' /\ StorageTypeOK'
  BY <1>1 DEF TypeInv, PassOver, NothingYet, StorageTypeOK
<1>5. ReloadTypeOK'
  BY <1>1, <1>2 DEF TypeInv, ReloadTypeOK, PassOver, disk
<1>. QED  BY <1>3, <1>4, <1>5 DEF TypeInv

LEMMA TypeEndFrame == TypeInv /\ EndFrame => TypeInv'
<1> SUFFICES ASSUME TypeInv, EndFrame PROVE TypeInv'
  OBVIOUS
<1> USE ReloadAssumption
<1>1. Running /\ Running'
  BY DEF EndFrame, Running
<1>2. SlotAfter(at.slot) \in Slots /\ at.slot \in Slots
  BY DEF TypeInv, AtTypeOK, EndFrame, Slots, SlotAfter
<1>3. AtTypeOK' /\ NothingYet' /\ StorageTypeOK'
  BY <1>1, <1>2 DEF TypeInv, EndFrame, AtTypeOK, NothingYet, StorageTypeOK, graphVars
<1>4. ReloadTypeOK'
  BY <1>1, <1>2 DEF TypeInv, ReloadTypeOK, EndFrame, disk, graphVars
<1>. QED  BY <1>3, <1>4 DEF TypeInv

(* The other threads and the GPU leave the graph alone.                      *)
LEMMA TypeOutside ==
  ASSUME TypeInv, UNCHANGED << gen, graphVars, at >>, Running,
         content' \in [Files -> [version: Versions, good: BOOLEAN]],
         unseen' \subseteq Files, queue' \subseteq Files, used' \in [Slots -> SUBSET Objects]
  PROVE  TypeInv'
<1>1. Running' /\ AtTypeOK' /\ StorageTypeOK' /\ NothingYet'
  BY DEF TypeInv, Running, AtTypeOK, StorageTypeOK, NothingYet, graphVars
<1>2. ReloadTypeOK'
  BY <1>1 DEF TypeInv, ReloadTypeOK, graphVars
<1>. QED  BY <1>1, <1>2 DEF TypeInv

(* An edit makes a version that is greater than all before.                  *)
LEMMA EditAdds ==
  ASSUME TypeInv, NEW f \in Files, NEW good \in BOOLEAN, Edit(f, good)
  PROVE  /\ content' \in [Files -> [version: Versions, good: BOOLEAN]]
         /\ EditsSoFar' = EditsSoFar + 1 /\ EditsSoFar \in Nat
<1> USE ReloadAssumption
<1>1. content \in [Files -> [version: Versions, good: BOOLEAN]] /\ Files # {}
  BY DEF TypeInv, ReloadTypeOK
<1>2. PICK c, d : c = content /\ d = content'
  OBVIOUS
<1>3. /\ Edits \in Versions /\ \A x \in Files : content[x].version <= Edits
  BY <1>1, <1>2, EditsType DEF Edits
<1>4. d \in [Files -> [version: Versions, good: BOOLEAN]]
  BY <1>1, <1>2, <1>3 DEF Edit, Versions
<1>5. /\ Edits' \in Versions /\ \A x \in Files : content'[x].version <= Edits'
      /\ Edits' \in { d[x].version : x \in Files }
  BY <1>1, <1>2, <1>4, EditsType DEF Edits
<1>6. /\ content'[f].version = Edits + 1
      /\ \A x \in Files : content'[x].version <= Edits + 1
  BY <1>1, <1>3 DEF Edit, Versions
<1>7. Edits' = Edits + 1
  BY <1>1, <1>2, <1>3, <1>5, <1>6 DEF Versions
<1>. QED  BY <1>1, <1>2, <1>3, <1>4, <1>7 DEF EditsSoFar, Versions

(* The GPU finishes a frame; the watcher delivers.                            *)
LEMMA TypeGpuFinishes ==
  ASSUME TypeInv, NEW k \in Slots, GpuFinishes(k)
  PROVE  TypeInv'
<1>1. used \in [Slots -> SUBSET Objects] /\ Running
  BY DEF TypeInv, ReloadTypeOK, NothingYet, GpuFinishes
<1>2. used' \in [Slots -> SUBSET Objects]
  BY <1>1 DEF GpuFinishes
<1>3. /\ content' \in [Files -> [version: Versions, good: BOOLEAN]]
      /\ unseen' \subseteq Files /\ queue' \subseteq Files
      /\ UNCHANGED << gen, graphVars, at >>
  BY DEF TypeInv, ReloadTypeOK, GpuFinishes, disk
<1>. QED  BY <1>1, <1>2, <1>3, TypeOutside

LEMMA TypeNotify ==
  ASSUME TypeInv, NEW f \in Files, Notify(f)
  PROVE  TypeInv'
<1>1. Running
  BY DEF TypeInv, NothingYet, Notify
<1>2. /\ content' \in [Files -> [version: Versions, good: BOOLEAN]]
      /\ unseen' \subseteq Files /\ queue' \subseteq Files
      /\ used' \in [Slots -> SUBSET Objects]
      /\ UNCHANGED << gen, graphVars, at >>
  BY DEF TypeInv, ReloadTypeOK, Notify
<1>. QED  BY <1>1, <1>2, TypeOutside

LEMMA TypeEdit ==
  ASSUME TypeInv, NEW f \in Files, NEW good \in BOOLEAN, Edit(f, good)
  PROVE  TypeInv'
<1>1. /\ Running /\ content' \in [Files -> [version: Versions, good: BOOLEAN]]
  BY EditAdds DEF Edit
<1>2. /\ unseen' \subseteq Files /\ queue' \subseteq Files
      /\ used' \in [Slots -> SUBSET Objects]
      /\ UNCHANGED << gen, graphVars, at >>
  BY DEF TypeInv, ReloadTypeOK, Edit
<1>. QED  BY <1>1, <1>2, TypeOutside

-----------------------------------------------------------------------------
(* A change generation needs an edit: the counter stays in its bound.         *)

LEMMA OneMore ==
  ASSUME NEW S, NEW x, IsFiniteSet(S)
  PROVE  /\ Cardinality(S) \in Nat /\ Cardinality(S \cup {x}) \in Nat
         /\ Cardinality(S \cup {x}) <= Cardinality(S) + 1
<1>1. Cardinality(S) \in Nat
  BY FS_CardinalityType
<1>. QED  BY <1>1, FS_AddElement

LEMMA FinitelyMany ==
  TypeInv =>
    /\ IsFiniteSet(unseen) /\ IsFiniteSet(queue)
    /\ Cardinality(unseen) \in Nat /\ Cardinality(queue) \in Nat
    /\ EditsSoFar \in 0 .. MaxEdits
<1> SUFFICES ASSUME TypeInv
             PROVE  /\ IsFiniteSet(unseen) /\ IsFiniteSet(queue)
                    /\ Cardinality(unseen) \in Nat /\ Cardinality(queue) \in Nat
                    /\ EditsSoFar \in 0 .. MaxEdits
  OBVIOUS
<1> USE ReloadAssumption
<1>1. IsFiniteSet(unseen) /\ IsFiniteSet(queue)
  BY FS_Subset DEF TypeInv, ReloadTypeOK
<1>2. EditsSoFar \in 0 .. MaxEdits
  <2>1. PICK c : c = content
    OBVIOUS
  <2>2. CASE Files # {}
    BY <2>1, <2>2, EditsType DEF TypeInv, ReloadTypeOK, EditsSoFar, Edits, Versions
  <2>. QED  BY <2>2 DEF EditsSoFar
<1>. QED  BY <1>1, <1>2, FS_CardinalityType

LEMMA EditsInit == ReloadInit => EditsCounted
<1> SUFFICES ASSUME ReloadInit PROVE EditsCounted
  OBVIOUS
<1>1. EditsSoFar \in Nat /\ Cardinality({}) = 0
  BY TypeInit, FinitelyMany, FS_EmptySet, ReloadAssumption
<1>. QED  BY <1>1 DEF ReloadInit, EditsCounted

LEMMA EditsBeginFrame ==
  ASSUME TypeInv, EditsCounted, BeginFrame
  PROVE  gen' \in 0 .. MaxEdits /\ EditsCounted'
<1> USE ReloadAssumption
<1>1. /\ gen \in Nat /\ Cardinality(unseen) \in Nat /\ Cardinality(queue) \in Nat
      /\ EditsSoFar \in 0 .. MaxEdits /\ EditsSoFar' = EditsSoFar
  <2>1. content' = content
    BY DEF BeginFrame, disk
  <2>2. EditsSoFar' = EditsSoFar
    BY <2>1 DEF EditsSoFar, Edits
  <2>3. gen \in Nat
    BY DEF TypeInv, ReloadTypeOK
  <2>. QED  BY <2>2, <2>3, FinitelyMany
<1>2. Cardinality({}) = 0 /\ (Cardinality(queue) = 0 <=> queue = {})
  BY FinitelyMany, FS_EmptySet
<1>3. queue' = {} /\ unseen' = unseen /\ gen' = IF queue = {} THEN gen ELSE gen + 1
  BY DEF BeginFrame, disk
<1>4. gen' + Cardinality(unseen) <= EditsSoFar
  BY <1>1, <1>2, <1>3 DEF EditsCounted
<1>. QED  BY <1>1, <1>2, <1>3, <1>4 DEF EditsCounted

LEMMA EditsEdit ==
  ASSUME TypeInv, EditsCounted, NEW f \in Files, NEW good \in BOOLEAN, Edit(f, good)
  PROVE  EditsCounted'
<1>1. EditsSoFar' = EditsSoFar + 1 /\ EditsSoFar \in Nat
  BY EditAdds
<1>2. /\ gen \in Nat /\ Cardinality(unseen) \in Nat /\ Cardinality(queue) \in Nat
      /\ IsFiniteSet(unseen)
  BY FinitelyMany, ReloadAssumption DEF TypeInv, ReloadTypeOK
<1>3. /\ Cardinality(unseen \cup {f}) \in Nat
      /\ Cardinality(unseen \cup {f}) <= Cardinality(unseen) + 1
  BY <1>2, OneMore
<1>4. gen' = gen /\ queue' = queue /\ unseen' = unseen \cup {f}
  BY DEF Edit
<1>. QED  BY <1>1, <1>2, <1>3, <1>4 DEF EditsCounted

LEMMA EditsNotify ==
  ASSUME TypeInv, EditsCounted, NEW f \in Files, Notify(f)
  PROVE  EditsCounted'
<1>1. /\ gen \in Nat /\ Cardinality(unseen) \in Nat /\ Cardinality(queue) \in Nat
      /\ IsFiniteSet(unseen) /\ IsFiniteSet(queue) /\ EditsSoFar \in 0 .. MaxEdits
  BY FinitelyMany, ReloadAssumption DEF TypeInv, ReloadTypeOK
<1>2. /\ Cardinality(queue \cup {f}) \in Nat
      /\ Cardinality(queue \cup {f}) <= Cardinality(queue) + 1
  BY <1>1, OneMore
<1>3. Cardinality(unseen \ {f}) = Cardinality(unseen) - 1
  BY <1>1, FS_RemoveElement DEF Notify
<1>4. /\ gen' = gen /\ queue' = queue \cup {f} /\ unseen' = unseen \ {f}
      /\ EditsSoFar' = EditsSoFar
  BY DEF Notify, EditsSoFar, Edits
<1>. QED  BY <1>1, <1>2, <1>3, <1>4, ReloadAssumption DEF EditsCounted

LEMMA EditsOtherwise ==
  ASSUME EditsCounted, UNCHANGED << disk, queue, gen >>
  PROVE  EditsCounted'
BY DEF EditsCounted, EditsSoFar, Edits, disk

-----------------------------------------------------------------------------
(* Ownership of the shader objects.                                          *)

OwnInv == OneOwner /\ FramesKeepObjects

LEMMA AgeGrows ==
  ASSUME NEW j \in Slots, NEW k \in Slots, j # k
  PROVE  /\ SlotAfter(k) \in Slots /\ Age(j, k) \in Nat
         /\ Age(j, SlotAfter(k)) = Age(j, k) + 1
BY ReloadAssumption DEF Slots, SlotAfter, Age

LEMMA OwnStart ==
  ASSUME TypeInv, ~Running', UNCHANGED << retiring, used >>
  PROVE  OwnInv'
BY DEF OwnInv, OneOwner, FramesKeepObjects, Running

LEMMA OwnRegister ==
  ASSUME TypeInv, Register
  PROVE  OwnInv'
<1>1. ~Running /\ ~storage.open /\ storage' = Registered(storage, stage')
  BY DEF TypeInv, StorageTypeOK, Register, Running
<1>2. /\ DOMAIN storage'.objects = Pipelines
      /\ pipe' = [p \in Pipelines |-> [live |-> p, pending |-> FALSE]]
      /\ retiring' = {} /\ used' = [k \in Slots |-> {}]
      /\ at' = [phase |-> "between", slot |-> 0]
  <2>1. retiring = {} /\ used = [k \in Slots |-> {}]
    BY <1>1 DEF TypeInv, NothingYet
  <2>2. DOMAIN storage'.objects = Pipelines
    BY <1>1 DEF Registered
  <2>. QED  BY <2>1, <2>2 DEF Register
<1>3. LiveObjects' = Pipelines /\ Retiring' = {}
  BY <1>2 DEF LiveObjects, Retiring
<1>4. OneOwner'
  BY <1>2, <1>3 DEF OneOwner
<1>5. FramesKeepObjects'
  BY <1>2 DEF FramesKeepObjects
<1>. QED  BY <1>4, <1>5 DEF OwnInv

(* Frames in flight can only finish while the objects are as they are.       *)
LEMMA OwnSame ==
  ASSUME OwnInv, pipe' = pipe, retiring' = retiring,
         Running' <=> Running,
         storage'.objects = storage.objects, at'.phase = at.phase, at'.slot = at.slot,
         \A k \in Slots : used'[k] \subseteq used[k]
  PROVE  OwnInv'
<1>1. LiveObjects' = LiveObjects /\ Retiring' = Retiring
  BY DEF LiveObjects, Retiring
<1>2. OneOwner'
  BY <1>1 DEF OwnInv, OneOwner
<1>3. ASSUME NEW o, NEW n, Kept(o, n) PROVE Kept(o, n)'
  BY <1>1, <1>3 DEF Kept
<1>4. FramesKeepObjects'
  BY <1>3 DEF OwnInv, FramesKeepObjects
<1>. QED  BY <1>2, <1>4 DEF OwnInv

LEMMA OwnBeginFrame ==
  ASSUME TypeInv, OwnInv, BeginFrame
  PROVE  OwnInv'
<1> USE ReloadAssumption
<1>1. /\ at.phase = "between" /\ at.slot \in Slots /\ Running /\ Running'
      /\ used[at.slot] = {} /\ used' = used
      /\ at'.phase = "processing" /\ at'.slot = at.slot
  BY DEF TypeInv, AtTypeOK, BeginFrame, Turn, Running
<1>2. /\ DOMAIN storage'.objects = DOMAIN storage.objects \ Expired
      /\ retiring' = Ticked
  BY DEF TypeInv, StorageTypeOK, BeginFrame, Restrict
<1>3. \A p \in Pipelines : pipe'[p].live = pipe[p].live
  BY <1>1 DEF TypeInv, ReloadTypeOK, BeginFrame
<1>4. LiveObjects' = LiveObjects
  BY <1>3 DEF LiveObjects
<1>5. \A r \in retiring : r \in [object: Objects, remaining: 1 .. FramesInFlight]
  BY DEF TypeInv, ReloadTypeOK
<1>6. /\ \A e \in retiring' : \E r \in retiring :
           r.object = e.object /\ r.remaining > 1 /\ e = [r EXCEPT !.remaining = @ - 1]
      /\ \A r \in retiring : r.remaining > 1 =>
           \E e \in retiring' : e.object = r.object /\ e.remaining = r.remaining - 1
  <2>1. retiring' = { [r EXCEPT !.remaining = @ - 1] : r \in { r \in retiring : r.remaining > 1 } }
    BY <1>2 DEF Ticked
  <2>2. \A r \in retiring : LET e == [r EXCEPT !.remaining = @ - 1]
                            IN e.object = r.object /\ e.remaining = r.remaining - 1
    BY <1>5
  <2>3. ASSUME NEW e \in retiring'
        PROVE  \E r \in retiring : r.object = e.object /\ r.remaining > 1
                                  /\ e = [r EXCEPT !.remaining = @ - 1]
    <3>1. PICK r \in retiring : r.remaining > 1 /\ e = [r EXCEPT !.remaining = @ - 1]
      BY <2>1
    <3>. QED  BY <3>1, <2>2
  <2>4. ASSUME NEW r \in retiring, r.remaining > 1
        PROVE  \E e \in retiring' : e.object = r.object /\ e.remaining = r.remaining - 1
    BY <2>1, <2>2, <2>4
  <2>. QED  BY <2>3, <2>4
<1>7. OneOwner'
  <2>1. Retiring' = Retiring \ Expired
    <3>1. \A r, e \in retiring : r.object = e.object => r = e
      BY <1>1 DEF OwnInv, OneOwner
    <3>2. \A r \in retiring : r.remaining <= 1 <=> ~(r.remaining > 1)
      BY <1>5
    <3>. QED  BY <3>1, <3>2, <1>6 DEF Retiring, Expired
  <2>2. Expired \subseteq Retiring
    BY DEF Expired, Retiring
  <2>3. \A r, e \in retiring' : r.object = e.object => r = e
    BY <1>1, <1>6 DEF OwnInv, OneOwner
  <2>. QED  BY <1>1, <1>2, <1>3, <1>4, <2>1, <2>2, <2>3 DEF OwnInv, OneOwner
<1>8. ASSUME NEW j \in Slots, NEW o \in used'[j]
      PROVE  j # at'.slot /\ Kept(o, FramesInFlight - 1 - Age(j, at.slot))'
  <2>1. j # at.slot /\ Kept(o, FramesInFlight - Age(j, at.slot))
    BY <1>1, <1>8 DEF OwnInv, FramesKeepObjects
  <2>2. Age(j, at.slot) \in Nat
    BY <2>1, <1>1, AgeGrows
  <2>3. CASE o \in LiveObjects
    BY <2>1, <2>3, <1>1, <1>4 DEF Kept
  <2>4. ASSUME NEW r \in retiring, r.object = o, r.remaining >= FramesInFlight - Age(j, at.slot)
        PROVE  Kept(o, FramesInFlight - 1 - Age(j, at.slot))'
    <3>1. /\ r.remaining \in Nat /\ FramesInFlight \in Nat
          /\ Age(j, at.slot) <= FramesInFlight - 2
      BY <1>5, <2>1, <1>1 DEF Age, Slots
    <3>2. PICK e \in retiring' : e.object = o /\ e.remaining = r.remaining - 1
      BY <1>6, <2>4, <3>1, <2>2
    <3>3. e.remaining >= FramesInFlight - 1 - Age(j, at.slot)
      BY <3>1, <3>2, <2>4, <2>2
    <3>. QED  BY <3>2, <3>3, <1>1 DEF Kept
  <2>. QED  BY <2>1, <2>3, <2>4, <1>1 DEF Kept
<1>9. FramesKeepObjects'
  BY <1>1, <1>8 DEF FramesKeepObjects
<1>. QED  BY <1>7, <1>9 DEF OwnInv

LEMMA OwnRebuild ==
  ASSUME TypeInv, OwnInv, NEW p \in Pipelines, Rebuild(p)
  PROVE  OwnInv'
<1> USE ReloadAssumption
<1>1. /\ at.phase = "processing" /\ at.slot \in Slots /\ Running /\ Running'
      /\ at'.phase = "processing" /\ at'.slot = at.slot /\ used' = used
  BY DEF TypeInv, AtTypeOK, Rebuild, Processing, NextNode, Turn, Running
<1>2. PICK n \in Objects :
        /\ n = NextFree(storage) /\ n \notin DOMAIN storage.objects
        /\ DOMAIN storage'.objects = DOMAIN storage.objects \cup {n}
  BY RebuildAdds
<1>3. PICK old \in Objects : old = pipe[p].live
  BY <1>1 DEF TypeInv, ReloadTypeOK
<1>4. /\ pipe'[p].live = n /\ \A q \in Pipelines : q # p => pipe'[q].live = pipe[q].live
      /\ retiring' = retiring \cup {[object |-> old, remaining |-> FramesInFlight]}
  BY <1>1, <1>2, <1>3 DEF TypeInv, ReloadTypeOK, Rebuild, Retire
<1>5. /\ DOMAIN storage.objects = LiveObjects \cup Retiring
      /\ LiveObjects \cap Retiring = {}
      /\ \A q, r \in Pipelines : pipe[q].live = pipe[r].live => q = r
      /\ \A r, e \in retiring : r.object = e.object => r = e
  BY <1>1 DEF OwnInv, OneOwner
<1>6. LiveObjects' = (LiveObjects \ {old}) \cup {n} /\ old \in LiveObjects
  <2>1. \A q \in Pipelines : q # p => pipe'[q].live = pipe[q].live /\ pipe[q].live # old
    BY <1>3, <1>4, <1>5
  <2>2. pipe'[p].live = n /\ pipe[p].live = old
    BY <1>3, <1>4
  <2>3. LiveObjects' = { pipe'[q].live : q \in Pipelines }
    BY DEF LiveObjects
  <2>. QED  BY <2>1, <2>2, <2>3 DEF LiveObjects
<1>7. Retiring' = Retiring \cup {old}
  <2>1. PICK e : e = [object |-> old, remaining |-> FramesInFlight]
    OBVIOUS
  <2>2. e.object = old /\ retiring' = retiring \cup {e}
    BY <1>4, <2>1
  <2>. QED  BY <2>2 DEF Retiring
<1>8. OneOwner'
  <2>1. \A q, r \in Pipelines : pipe'[q].live = pipe'[r].live => q = r
    BY <1>2, <1>4, <1>5 DEF LiveObjects
  <2>2. \A r, e \in retiring' : r.object = e.object => r = e
    BY <1>4, <1>5, <1>6 DEF Retiring
  <2>. QED  BY <1>2, <1>5, <1>6, <1>7, <2>1, <2>2 DEF OneOwner
<1>9. ASSUME NEW j \in Slots, NEW o \in used'[j]
      PROVE  j # at'.slot /\ Kept(o, FramesInFlight - 1 - Age(j, at.slot))'
  <2>1. j # at.slot /\ Kept(o, FramesInFlight - 1 - Age(j, at.slot))
    BY <1>1, <1>9 DEF OwnInv, FramesKeepObjects
  <2>2. Age(j, at.slot) \in Nat
    BY <2>1, <1>1, AgeGrows
  <2>3. CASE o = old
    <3>0. PICK e : e = [object |-> old, remaining |-> FramesInFlight]
      OBVIOUS
    <3>1. e \in retiring' /\ e.object = old /\ e.remaining = FramesInFlight
      BY <1>4, <3>0
    <3>. QED  BY <3>1, <2>1, <2>2, <2>3, <1>1 DEF Kept
  <2>4. CASE o # old
    BY <2>1, <2>4, <1>1, <1>4, <1>6 DEF Kept
  <2>. QED  BY <2>3, <2>4
<1>10. FramesKeepObjects'
  BY <1>1, <1>9 DEF FramesKeepObjects
<1>. QED  BY <1>8, <1>10 DEF OwnInv

LEMMA OwnEndFrame ==
  ASSUME TypeInv, OwnInv, EndFrame
  PROVE  OwnInv'
<1> USE ReloadAssumption
<1>1. /\ at.phase = "processing" /\ at.slot \in Slots /\ Running /\ Running'
      /\ at' = [phase |-> "between", slot |-> SlotAfter(at.slot)]
      /\ used' = [used EXCEPT ![at.slot] = LiveObjects]
      /\ used \in [Slots -> SUBSET Objects]
  BY DEF TypeInv, AtTypeOK, ReloadTypeOK, EndFrame, Running, LiveObjects
<1>2. pipe' = pipe /\ retiring' = retiring /\ storage' = storage
  BY DEF EndFrame, graphVars
<1>3. LiveObjects' = LiveObjects /\ Retiring' = Retiring
  BY <1>2 DEF LiveObjects, Retiring
<1>4. OneOwner'
  BY <1>1, <1>2, <1>3 DEF OwnInv, OneOwner
<1>5. ASSUME NEW j \in Slots, NEW o \in used'[j]
      PROVE  Kept(o, FramesInFlight - Age(j, at.slot))'
  <2>1. CASE j = at.slot
    BY <2>1, <1>1, <1>3, <1>5 DEF Kept
  <2>2. CASE j # at.slot
    <3>1. Kept(o, FramesInFlight - 1 - Age(j, at.slot))
      BY <1>1, <1>5, <2>2 DEF OwnInv, FramesKeepObjects
    <3>2. FramesInFlight - Age(j, SlotAfter(at.slot)) = FramesInFlight - 1 - Age(j, at.slot)
      BY <1>1, <2>2, AgeGrows
    <3>3. /\ o \in LiveObjects' \/ \E r \in retiring' :
               r.object = o /\ r.remaining >= FramesInFlight - Age(j, SlotAfter(at.slot))
      BY <1>2, <1>3, <3>1, <3>2 DEF Kept
    <3>4. at'.slot = SlotAfter(at.slot)
      BY <1>1
    <3>. QED  BY <3>3, <3>4 DEF Kept
  <2>. QED  BY <2>1, <2>2
<1>6. FramesKeepObjects'
  BY <1>1, <1>5 DEF FramesKeepObjects
<1>. QED  BY <1>4, <1>6 DEF OwnInv

(* What the inductive invariant says of the objects is what is promised.     *)
LEMMA OwnedIsOwned ==
  ASSUME TypeInv, OwnInv
  PROVE  ObjectsAreOwned
<1> USE ReloadAssumption
<1>1. CASE ~Running
  BY <1>1, FS_EmptySet DEF TypeInv, NothingYet, ObjectsAreOwned
<1>2. CASE Running
  <2>1. /\ DOMAIN storage.objects = LiveObjects \cup Retiring
        /\ LiveObjects \cap Retiring = {}
        /\ \A q, r \in Pipelines : pipe[q].live = pipe[r].live => q = r
        /\ \A r, e \in retiring : r.object = e.object => r = e
    BY <1>2 DEF OwnInv, OneOwner
  <2>2. ASSUME NEW k \in Slots PROVE used[k] \subseteq DOMAIN storage.objects
    <3>1. at.phase = "between" \/ at.phase = "processing"
      BY <1>2 DEF Running
    <3>2. ASSUME NEW o \in used[k] PROVE o \in LiveObjects \cup Retiring
      BY <3>1 DEF OwnInv, FramesKeepObjects, Kept, Retiring
    <3>. QED  BY <3>2, <2>1
  <2>3. Cardinality(LiveObjects) = Len(StagesOf)
    <3> DEFINE f == [p \in Pipelines |-> pipe[p].live]
    <3>1. f \in Bijection(Pipelines, LiveObjects)
      BY <2>1 DEF Bijection, Injection, Surjection, LiveObjects, IsInjective
    <3>2. IsFiniteSet(Pipelines) /\ Cardinality(Pipelines) = Len(StagesOf)
      <4>1. PICK m \in Nat : m = Len(StagesOf) /\ Pipelines = 1 .. m
        BY StagesOfPipelines
      <4>2. IsFiniteSet(1 .. m) /\ Cardinality(1 .. m) = m
        BY FS_Interval
      <4>. QED  BY <4>1, <4>2
    <3>. QED  BY <3>1, <3>2, FS_Bijection DEF ExistsBijection
  <2>4. Cardinality(Retiring) = Cardinality(retiring)
    <3> DEFINE f == [r \in retiring |-> r.object]
    <3>1. f \in Bijection(retiring, Retiring)
      BY <2>1 DEF Bijection, Injection, Surjection, Retiring, IsInjective
    <3>2. IsFiniteSet(retiring)
      <4>1. f \in Injection(retiring, Objects)
        BY <2>1 DEF TypeInv, ReloadTypeOK, Injection, IsInjective
      <4>2. IsFiniteSet(Objects)
        BY FS_Interval DEF Objects
      <4>. QED  BY <4>1, <4>2, FS_Injection
    <3>. QED  BY <3>1, <3>2, FS_Bijection DEF ExistsBijection
  <2>. QED  BY <2>1, <2>2, <2>3, <2>4 DEF TypeInv, ObjectsAreOwned
<1>. QED  BY <1>1, <1>2

-----------------------------------------------------------------------------
(* No edit is lost, and what is settled is built.                            *)

BuildInv == CleanIsBuilt /\ CleanSoFar

(* The files and the queue as they are: what is not lost stays so.           *)
LEMMA BuildSame ==
  ASSUME BuildInv, UNCHANGED << stage, storage, pipe >>,
         Running' <=> Running,
         \A s \in Stages :
           \/ content'[FileOf[s]] = content[FileOf[s]]
              /\ (FileOf[s] \in unseen \cup queue => FileOf[s] \in unseen' \cup queue')
           \/ FileOf[s] \in unseen' \cup queue',
         at'.phase = "processing" => UNCHANGED at \/ at'.next = 1
  PROVE  BuildInv'
<1>1. CleanIsBuilt'
  <2>1. SettledIsBuilt => SettledIsBuilt'
    BY DEF SettledIsBuilt
  <2>2. NoEditIsLost => NoEditIsLost'
    BY DEF NoEditIsLost
  <2>. QED  BY <2>1, <2>2 DEF BuildInv, CleanIsBuilt
<1>2. CleanSoFar'
  <2>1. CASE at'.phase = "processing" /\ at' = at
    BY <2>1 DEF BuildInv, CleanSoFar
  <2>2. CASE at'.phase = "processing" /\ at'.next = 1
    BY <2>2, StagesOfPipelines DEF CleanSoFar
  <2>3. CASE at'.phase # "processing"
    BY <2>3 DEF CleanSoFar
  <2>. QED  BY <2>1, <2>2, <2>3
<1>. QED  BY <1>1, <1>2 DEF BuildInv

LEMMA BuildStart == ~Running' => BuildInv'
BY DEF BuildInv, CleanIsBuilt, CleanSoFar, Running

LEMMA BuildRegister ==
  ASSUME TypeInv, Register
  PROVE  BuildInv'
<1> USE ReloadAssumption
<1>1. ~storage.open /\ storage' = Registered(storage, stage')
  BY DEF TypeInv, StorageTypeOK, Register, Running
<1>2. /\ pipe' = [p \in Pipelines |-> [live |-> p, pending |-> FALSE]]
      /\ at' = [phase |-> "between", slot |-> 0]
      /\ content' = content
  BY DEF Register, disk
<1>3. \A s \in Stages : ~stage'[s].dirty /\ stage'[s].spirv = content[FileOf[s]].version
  BY DEF TypeInv, ReloadTypeOK, Register
<1>4. \A p \in Pipelines : \A s \in UsedBy(p) : storage'.objects[p][s] = stage'[s].spirv
  BY <1>1 DEF Registered, Linked, Restrict
<1>5. NoEditIsLost'
  BY <1>2, <1>3 DEF NoEditIsLost
<1>6. SettledIsBuilt'
  BY <1>2, <1>3, <1>4, StagesOfPipelines DEF SettledIsBuilt
<1>. QED  BY <1>2, <1>5, <1>6 DEF BuildInv, CleanIsBuilt, CleanSoFar

LEMMA BuildEdit ==
  ASSUME TypeInv, BuildInv, NEW f \in Files, NEW good \in BOOLEAN, Edit(f, good)
  PROVE  BuildInv'
<1>1. \A s \in Stages :
        \/ content'[FileOf[s]] = content[FileOf[s]]
           /\ (FileOf[s] \in unseen \cup queue => FileOf[s] \in unseen' \cup queue')
        \/ FileOf[s] \in unseen' \cup queue'
  BY ReloadAssumption DEF TypeInv, ReloadTypeOK, Edit
<1>2. UNCHANGED << stage, storage, pipe, at >> /\ (Running' <=> Running)
  BY DEF Edit, graphVars, Running
<1>. QED  BY <1>1, <1>2, BuildSame

LEMMA BuildNotify ==
  ASSUME TypeInv, BuildInv, NEW f \in Files, Notify(f)
  PROVE  BuildInv'
<1>1. \A s \in Stages :
        \/ content'[FileOf[s]] = content[FileOf[s]]
           /\ (FileOf[s] \in unseen \cup queue => FileOf[s] \in unseen' \cup queue')
        \/ FileOf[s] \in unseen' \cup queue'
  BY DEF Notify
<1>2. UNCHANGED << stage, storage, pipe, at >> /\ (Running' <=> Running)
  BY DEF Notify, graphVars, Running
<1>. QED  BY <1>1, <1>2, BuildSame

(* A drained change dirties its stages and marks every pipeline of theirs.    *)
LEMMA BuildBeginFrame ==
  ASSUME TypeInv, OwnInv, BuildInv, BeginFrame
  PROVE  BuildInv'
<1> USE ReloadAssumption
<1>1. /\ Running /\ Running' /\ at'.next = 1
      /\ content' = content /\ unseen' = unseen
  BY DEF BeginFrame, Turn, Running, disk
<1>2. \A s \in Stages :
        IF FileOf[s] \in queue THEN stage'[s].dirty ELSE stage'[s] = stage[s]
  <2>1. \A s \in Stages : stage[s] \in [spirv: Versions, dirty: BOOLEAN,
                                       changed: 0 .. gen, attempted: 0 .. gen]
    BY DEF TypeInv, ReloadTypeOK
  <2>2. \A s \in Stages : [stage[s] EXCEPT !.dirty = TRUE, !.changed = gen'].dirty
    BY <2>1
  <2>. QED  BY <2>2 DEF BeginFrame, Dependents
<1>3. NoEditIsLost'
  BY <1>1, <1>2 DEF BuildInv, CleanIsBuilt, NoEditIsLost
<1>4. ASSUME NEW p \in Pipelines, ~pipe'[p].pending
      PROVE  \A s \in UsedBy(p) : /\ ~stage'[s].dirty
                                  /\ storage'.objects[pipe'[p].live][s] = stage'[s].spirv
  <2>1. /\ pipe[p].live = pipe'[p].live /\ ~pipe[p].pending /\ ~Marks(p, queue)
    <3>1. pipe[p] \in [live: Objects, pending: BOOLEAN]
      BY <1>1 DEF TypeInv, ReloadTypeOK
    <3>2. pipe'[p] = [pipe[p] EXCEPT !.pending = @ \/ Marks(p, queue)]
      BY DEF BeginFrame
    <3>3. /\ pipe'[p].live = pipe[p].live
          /\ pipe'[p].pending <=> pipe[p].pending \/ Marks(p, queue)
      BY <3>1, <3>2
    <3>. QED  BY <3>3, <1>4
  <2>2. \A s \in UsedBy(p) : stage'[s] = stage[s]
    BY <1>2, <2>1, StagesOfPipelines DEF Marks, Dependents
  <2>3. pipe[p].live \in DOMAIN storage.objects \ Expired
    <3>1. pipe[p].live \in LiveObjects /\ Expired \subseteq Retiring
      BY DEF LiveObjects, Expired, Retiring
    <3>. QED  BY <3>1, <1>1 DEF OwnInv, OneOwner
  <2>4. storage'.objects[pipe[p].live] = storage.objects[pipe[p].live]
    BY <2>3 DEF TypeInv, StorageTypeOK, BeginFrame, Restrict
  <2>5. \A s \in UsedBy(p) : /\ ~stage[s].dirty
                             /\ storage.objects[pipe[p].live][s] = stage[s].spirv
    BY <1>1, <2>1 DEF BuildInv, CleanIsBuilt, SettledIsBuilt
  <2>. QED  BY <2>1, <2>2, <2>4, <2>5
<1>5. SettledIsBuilt'
  BY <1>4 DEF SettledIsBuilt
<1>6. CleanSoFar'
  BY <1>1, StagesOfPipelines DEF CleanSoFar
<1>. QED  BY <1>3, <1>5, <1>6 DEF BuildInv, CleanIsBuilt

(* Only a stage that is dirty is compiled, and its pipelines are marked.      *)
LEMMA BuildCompile ==
  ASSUME TypeInv, BuildInv, NEW p \in Pipelines, Compile(p)
  PROVE  BuildInv'
<1> USE ReloadAssumption
<1>1. /\ Running /\ Running' /\ at.phase = "processing" /\ at.node = p
      /\ UNCHANGED << disk, queue, storage, pipe >>
  BY DEF Compile, Processing, Turn, Running
<1>2. PICK s \in Stages : s = StagesOf[p][at.next]
  <2>1. at.next \in Nat \ {0} /\ ~(at.next > Len(StagesOf[p]))
    BY <1>1 DEF TypeInv, AtTypeOK, Compile, Done
  <2>. QED  BY <2>1, StagesOfPipelines
<1>3. /\ \A x \in Stages : x # s => stage'[x] = stage[x]
      /\ \/ stage' = stage
         \/ stage[s].dirty /\ stage'[s] = Attempted(stage[s], content[FileOf[s]])
  BY <1>2 DEF TypeInv, ReloadTypeOK, Compile
<1>4. /\ at'.phase = "processing" /\ at'.node = p /\ at'.next = at.next + 1
      /\ at'.clean <=> at.clean /\ ~stage'[s].dirty
  BY <1>2 DEF Compile, Turn
<1>5. content[FileOf[s]] \in [version: Versions, good: BOOLEAN]
  BY DEF TypeInv, ReloadTypeOK
<1>6. \/ stage' = stage
      \/ /\ stage[s].dirty
         /\ stage'[s].dirty \/ stage'[s].spirv = content[FileOf[s]].version
  <2>1. PICK file : file = content[FileOf[s]]
    OBVIOUS
  <2>2. CASE file.good
    BY <2>1, <2>2, <1>3, <1>5 DEF Attempted
  <2>3. CASE ~file.good
    <3>1. Attempted(stage[s], file).dirty <=> ~file.good
      BY DEF Attempted
    <3>. QED  BY <2>1, <2>3, <1>3, <3>1
  <2>. QED  BY <2>2, <2>3
<1>7. NoEditIsLost'
  BY <1>1, <1>3, <1>6 DEF BuildInv, CleanIsBuilt, NoEditIsLost, disk
<1>8. SettledIsBuilt'
  <2>1. ASSUME NEW q \in Pipelines, ~pipe[q].pending
        PROVE  \A x \in UsedBy(q) : /\ ~stage'[x].dirty
                                    /\ storage.objects[pipe[q].live][x] = stage'[x].spirv
    <3>1. \A x \in UsedBy(q) : /\ ~stage[x].dirty
                               /\ storage.objects[pipe[q].live][x] = stage[x].spirv
      BY <1>1, <2>1 DEF BuildInv, CleanIsBuilt, SettledIsBuilt
    <3>2. \A x \in UsedBy(q) : stage'[x] = stage[x]
      BY <1>3, <1>6, <3>1, StagesOfPipelines
    <3>. QED  BY <3>1, <3>2
  <2>. QED  BY <1>1, <2>1 DEF SettledIsBuilt
<1>9. CleanSoFar'
  <2>1. SUFFICES ASSUME at'.clean, NEW i \in 1 .. Len(StagesOf[p]), i < at'.next
                 PROVE  ~stage'[StagesOf[p][i]].dirty
    BY <1>4 DEF CleanSoFar
  <2>2. /\ at.next \in Nat /\ StagesOf[p][i] \in Stages /\ i \in Nat
    BY <1>1, StagesOfPipelines DEF TypeInv, AtTypeOK
  <2>3. CASE i = at.next
    BY <1>2, <1>4, <2>1, <2>3
  <2>4. CASE i < at.next
    <3>1. ~stage[StagesOf[p][i]].dirty
      BY <1>1, <1>4, <2>1, <2>4 DEF BuildInv, CleanSoFar
    <3>. QED  BY <3>1, <1>3, <1>6, <2>2
  <2>. QED  BY <1>4, <2>1, <2>2, <2>3, <2>4
<1>. QED  BY <1>7, <1>8, <1>9 DEF BuildInv, CleanIsBuilt

LEMMA BuildRebuild ==
  ASSUME TypeInv, OwnInv, BuildInv, NEW p \in Pipelines, Rebuild(p)
  PROVE  BuildInv'
<1> USE ReloadAssumption
<1>1. /\ Running /\ Running' /\ at.phase = "processing" /\ at.node = p
      /\ at'.next = 1 /\ UNCHANGED << disk, queue, stage >>
  BY DEF Rebuild, Processing, NextNode, Turn, Running
<1>2. NoEditIsLost'
  BY <1>1 DEF BuildInv, CleanIsBuilt, NoEditIsLost, disk
<1>3. PICK n \in Objects :
        /\ n = NextFree(storage) /\ n \notin DOMAIN storage.objects
        /\ storage'.objects[n] = [s \in UsedBy(p) |-> stage[s].spirv]
        /\ \A x \in DOMAIN storage.objects : storage'.objects[x] = storage.objects[x]
  BY RebuildAdds
<1>4. pipe'[p].live = n /\ \A q \in Pipelines : q # p => pipe'[q] = pipe[q]
  BY <1>1, <1>3 DEF TypeInv, ReloadTypeOK, Rebuild
<1>5. ASSUME NEW s \in UsedBy(p) PROVE ~stage[s].dirty
  <2>1. PICK i \in 1 .. Len(StagesOf[p]) : StagesOf[p][i] = s
    BY StagesOfPipelines
  <2>2. at.clean /\ at.next > Len(StagesOf[p]) /\ at.next \in Nat /\ Len(StagesOf[p]) \in Nat
    BY <1>1, StagesOfPipelines DEF TypeInv, AtTypeOK, Rebuild, Done
  <2>. QED  BY <1>1, <2>1, <2>2 DEF BuildInv, CleanSoFar
<1>6. SettledIsBuilt'
  <2>1. ASSUME NEW q \in Pipelines, ~pipe'[q].pending
        PROVE  \A s \in UsedBy(q) : /\ ~stage[s].dirty
                                    /\ storage'.objects[pipe'[q].live][s] = stage[s].spirv
    <3>1. CASE q = p
      BY <3>1, <1>3, <1>4, <1>5
    <3>2. CASE q # p
      <4>1. pipe[q].live \in DOMAIN storage.objects
        BY <1>1 DEF OwnInv, OneOwner, LiveObjects
      <4>2. \A s \in UsedBy(q) : /\ ~stage[s].dirty
                                 /\ storage.objects[pipe[q].live][s] = stage[s].spirv
        BY <1>1, <1>4, <2>1, <3>2 DEF BuildInv, CleanIsBuilt, SettledIsBuilt
      <4>. QED  BY <1>3, <1>4, <3>2, <4>1, <4>2
    <3>. QED  BY <3>1, <3>2
  <2>. QED  BY <1>1, <2>1 DEF SettledIsBuilt
<1>7. CleanSoFar'
  BY <1>1, StagesOfPipelines DEF CleanSoFar
<1>. QED  BY <1>2, <1>6, <1>7 DEF BuildInv, CleanIsBuilt

-----------------------------------------------------------------------------
(* One compile between two changes.                                          *)

LEMMA TriesBeginFrame ==
  ASSUME TypeInv, TriesCounted, BeginFrame
  PROVE  TriesCounted'
<1>1. /\ tries' = [s \in Stages |-> IF s \in Dependents(queue) THEN 0 ELSE tries[s]]
      /\ \A s \in Stages : s \notin Dependents(queue) => stage'[s] = stage[s]
  BY DEF BeginFrame
<1>. QED  BY <1>1 DEF TriesCounted

LEMMA TriesCompile ==
  ASSUME TypeInv, TriesCounted, NEW p \in Pipelines, Compile(p)
  PROVE  TriesCounted'
<1> USE ReloadAssumption
<1>1. PICK s \in Stages : s = StagesOf[p][at.next]
  <2>1. at.next \in Nat \ {0} /\ ~(at.next > Len(StagesOf[p]))
    BY DEF TypeInv, AtTypeOK, Compile, Processing, Done
  <2>. QED  BY <2>1, StagesOfPipelines
<1>2. stage[s].changed \in 0 .. gen /\ stage[s].attempted \in 0 .. gen /\ gen \in Nat
  BY DEF TypeInv, ReloadTypeOK
<1>3. /\ \A x \in Stages : x # s => stage'[x] = stage[x] /\ tries'[x] = tries[x]
      /\ \/ stage' = stage /\ tries' = tries
         \/ /\ ~Hopeless(s) /\ tries' = [tries EXCEPT ![s] = @ + 1]
            /\ stage'[s] = Attempted(stage[s], content[FileOf[s]])
  BY <1>1 DEF TypeInv, ReloadTypeOK, TriesCounted, Compile
<1>4. CASE stage' = stage /\ tries' = tries
  BY <1>4 DEF TriesCounted
<1>5. CASE /\ ~Hopeless(s) /\ tries' = [tries EXCEPT ![s] = @ + 1]
           /\ stage'[s] = Attempted(stage[s], content[FileOf[s]])
  <2>1. tries[s] = 0
    BY <1>2, <1>5 DEF Hopeless, TriesCounted
  <2>2. stage'[s].attempted = gen /\ stage'[s].changed = stage[s].changed
    BY <1>5 DEF Attempted
  <2>. QED  BY <1>2, <1>3, <1>5, <2>1, <2>2 DEF TriesCounted
<1>. QED  BY <1>3, <1>4, <1>5

LEMMA TriesOtherwise ==
  ASSUME TriesCounted, UNCHANGED tries,
         \A s \in Stages : /\ stage'[s].attempted = stage[s].attempted
                           /\ stage'[s].changed = stage[s].changed
  PROVE  TriesCounted'
BY DEF TriesCounted

-----------------------------------------------------------------------------

LEMMA ReloadInitInv == ReloadInit => ReloadInv
<1> SUFFICES ASSUME ReloadInit PROVE ReloadInv
  OBVIOUS
<1>1. ~Running /\ retiring = {} /\ used = [k \in Slots |-> {}]
      /\ at.phase = "creating"
  BY DEF ReloadInit, Running
<1>2. FramesKeepObjects /\ OneOwner /\ CleanIsBuilt /\ CleanSoFar
  BY <1>1 DEF FramesKeepObjects, OneOwner, CleanIsBuilt, CleanSoFar
<1>3. TriesCounted
  BY DEF ReloadInit, TriesCounted
<1>. QED  BY <1>2, <1>3, TypeInit, EditsInit DEF ReloadInv, TypeInv

LEMMA ReloadStep == ReloadInv /\ [ReloadNext]_reloadVars => ReloadInv'
<1> SUFFICES ASSUME ReloadInv, [ReloadNext]_reloadVars
             PROVE  TypeInv' /\ EditsCounted' /\ OwnInv' /\ BuildInv' /\ TriesCounted'
  BY DEF ReloadInv, TypeInv, OwnInv, BuildInv
<1>0. TypeInv /\ EditsCounted /\ OwnInv /\ BuildInv /\ TriesCounted
  BY DEF ReloadInv, TypeInv, OwnInv, BuildInv
<1> DEFINE Goal == TypeInv' /\ EditsCounted' /\ OwnInv' /\ BuildInv' /\ TriesCounted'
<1>1. CASE Create
  <2>1. ~Running' /\ UNCHANGED << retiring, used, disk, queue, gen, tries, stage >>
    BY <1>1 DEF Create, Running
  <2>2. TypeInv' /\ OwnInv' /\ BuildInv'
    BY <1>0, <1>1, <2>1, TypeCreate, OwnStart, BuildStart
  <2>. QED  BY <1>0, <2>1, <2>2, EditsOtherwise, TriesOtherwise
<1>2. CASE Register
  <2>1. UNCHANGED << disk, queue, gen >> /\ UNCHANGED tries
    BY <1>2 DEF Register
  <2>2. \A s \in Stages : /\ stage'[s].attempted = stage[s].attempted
                          /\ stage'[s].changed = stage[s].changed
    <3>1. \A s \in Stages : stage[s] \in [spirv: Versions, dirty: BOOLEAN,
                                         changed: 0 .. gen, attempted: 0 .. gen]
      BY <1>0 DEF TypeInv, ReloadTypeOK
    <3>. QED  BY <3>1, <1>2 DEF Register
  <2>. QED  BY <1>0, <1>2, <2>1, <2>2, TypeRegister, OwnRegister, BuildRegister,
               EditsOtherwise, TriesOtherwise
<1>3. ASSUME NEW f \in Files, NEW good \in BOOLEAN, Edit(f, good) PROVE Goal
  <2>1. /\ UNCHANGED << pipe, retiring, storage, at, used, stage, tries >>
        /\ Running' <=> Running
    BY <1>3 DEF Edit, graphVars, Running
  <2>. QED  BY <1>0, <1>3, <2>1, TypeEdit, EditsEdit, OwnSame, BuildEdit, TriesOtherwise
<1>4. ASSUME NEW f \in Files, Notify(f) PROVE Goal
  <2>1. /\ UNCHANGED << pipe, retiring, storage, at, used, stage, tries >>
        /\ Running' <=> Running
    BY <1>4 DEF Notify, graphVars, Running
  <2>. QED  BY <1>0, <1>4, <2>1, TypeNotify, EditsNotify, OwnSame, BuildNotify, TriesOtherwise
<1>5. CASE BeginFrame
  BY <1>0, <1>5, TypeBeginFrame, EditsBeginFrame, OwnBeginFrame, BuildBeginFrame,
     TriesBeginFrame
<1>6. ASSUME NEW p \in Pipelines, Compile(p) PROVE Goal
  <2>1. /\ UNCHANGED << pipe, retiring, storage, used, disk, queue, gen >>
        /\ Running' <=> Running
        /\ at'.phase = at.phase /\ at'.slot = at.slot
    BY <1>6 DEF Compile, Processing, Turn, Running
  <2>. QED  BY <1>0, <1>6, <2>1, TypeCompile, OwnSame, BuildCompile, TriesCompile,
               EditsOtherwise
<1>7. ASSUME NEW p \in Pipelines, Rebuild(p) PROVE Goal
  <2>1. UNCHANGED << disk, queue, gen, stage, tries >>
    BY <1>7 DEF Rebuild
  <2>. QED  BY <1>0, <1>7, <2>1, TypeRebuild, OwnRebuild, BuildRebuild,
               EditsOtherwise, TriesOtherwise
<1>8. ASSUME NEW p \in Pipelines, PassOver(p) PROVE Goal
  <2>1. /\ UNCHANGED << pipe, retiring, storage, used, disk, queue, gen, stage, tries >>
        /\ Running' <=> Running
        /\ at'.phase = at.phase /\ at'.slot = at.slot /\ at'.next = 1
    BY <1>8 DEF PassOver, Processing, NextNode, Turn, Running
  <2>2. BuildInv'
    <3>1. /\ UNCHANGED << stage, storage, pipe >>
          /\ \A s \in Stages :
               /\ content'[FileOf[s]] = content[FileOf[s]]
               /\ FileOf[s] \in unseen \cup queue => FileOf[s] \in unseen' \cup queue'
      BY <2>1 DEF disk
    <3>. QED  BY <1>0, <2>1, <3>1, BuildSame
  <2>. QED  BY <1>0, <1>8, <2>1, <2>2, TypePassOver, OwnSame, EditsOtherwise, TriesOtherwise
<1>9. CASE EndFrame
  <2>1. /\ UNCHANGED << disk, queue, gen, stage, tries, storage, pipe >>
        /\ Running' <=> Running
        /\ at'.phase # "processing"
    BY <1>9 DEF EndFrame, graphVars, Running
  <2>2. BuildInv'
    <3>1. \A s \in Stages :
            /\ content'[FileOf[s]] = content[FileOf[s]]
            /\ FileOf[s] \in unseen \cup queue => FileOf[s] \in unseen' \cup queue'
      BY <2>1 DEF disk
    <3>. QED  BY <1>0, <2>1, <3>1, BuildSame
  <2>. QED  BY <1>0, <1>9, <2>1, <2>2, TypeEndFrame, OwnEndFrame, EditsOtherwise, TriesOtherwise
<1>10. ASSUME NEW k \in Slots, GpuFinishes(k) PROVE Goal
  <2>1. /\ UNCHANGED << disk, queue, gen, stage, tries, storage, pipe, retiring, at >>
        /\ Running' <=> Running
    BY <1>10 DEF GpuFinishes, graphVars, Running
  <2>2. \A j \in Slots : used'[j] \subseteq used[j]
    BY <1>0, <1>10 DEF TypeInv, ReloadTypeOK, GpuFinishes
  <2>3. BuildInv'
    <3>1. \A s \in Stages :
            /\ content'[FileOf[s]] = content[FileOf[s]]
            /\ FileOf[s] \in unseen \cup queue => FileOf[s] \in unseen' \cup queue'
      BY <2>1 DEF disk
    <3>. QED  BY <1>0, <2>1, <3>1, BuildSame
  <2>. QED  BY <1>0, <1>10, <2>1, <2>2, <2>3, TypeGpuFinishes, OwnSame, EditsOtherwise,
               TriesOtherwise
<1>11. CASE UNCHANGED reloadVars
  <2>1. /\ UNCHANGED << content, unseen, queue, gen, stage, storage, pipe, retiring, at >>
        /\ UNCHANGED << disk, queue, gen >> /\ UNCHANGED << used, refusals, tries >>
    BY <1>11 DEF reloadVars, disk, graphVars
  <2>2. Running' <=> Running
    BY <2>1 DEF Running
  <2>3. TypeInv'
    BY <1>0, <2>1, <2>2 DEF TypeInv, ReloadTypeOK, AtTypeOK, StorageTypeOK, NothingYet
  <2>4. BuildInv'
    <3>1. \A s \in Stages :
            /\ content'[FileOf[s]] = content[FileOf[s]]
            /\ FileOf[s] \in unseen \cup queue => FileOf[s] \in unseen' \cup queue'
      BY <2>1
    <3>. QED  BY <1>0, <2>1, <2>2, <3>1, BuildSame
  <2>. QED  BY <1>0, <2>1, <2>2, <2>3, <2>4, OwnSame, EditsOtherwise, TriesOtherwise
<1>. QED  BY <1>1, <1>2, <1>3, <1>4, <1>5, <1>6, <1>7, <1>8, <1>9, <1>10, <1>11
          DEF ReloadNext, Frame

THEOREM ReloadInvariant == ReloadSpec => []ReloadInv
BY ReloadInitInv, ReloadStep, PTL DEF ReloadSpec

(* Replaced shader objects outlive the frames that bind them, none is leaked,  *)
(* none is retired twice or while it is live.                                *)
THEOREM ObjectsOwned == ReloadSpec => []ObjectsAreOwned
<1>1. ReloadInv => ObjectsAreOwned
  BY OwnedIsOwned DEF ReloadInv, TypeInv, OwnInv
<1>. QED  BY <1>1, ReloadInvariant, PTL

(* No edit is lost, whenever it comes, and a pipeline that is not marked is    *)
(* drawn with what its stages were last compiled to.                         *)
THEOREM EveryEditCompiles == ReloadSpec => []CleanIsBuilt
<1>1. ReloadInv => CleanIsBuilt
  BY DEF ReloadInv
<1>. QED  BY <1>1, ReloadInvariant, PTL

(* A broken shader is tried once for each of its changes.                    *)
THEOREM BrokenTriedOnce == ReloadSpec => []OneTryPerChange
<1>1. ReloadInv => OneTryPerChange
  BY DEF ReloadInv, TriesCounted, OneTryPerChange
<1>. QED  BY <1>1, ReloadInvariant, PTL

=============================================================================
