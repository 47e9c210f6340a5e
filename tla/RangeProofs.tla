---------------------------- MODULE RangeProofs -----------------------------
(***************************************************************************)
(* What Range.Split and MergeRanges (ranges.go) compute, for every set of  *)
(* ranges and every chunk size.  MergeRanges is a recursive function over  *)
(* sets; both its existence and its properties are shown by induction over *)
(* the natural numbers, as a statement about sets of naturals.             *)
(***************************************************************************)
EXTENDS Rescan, FiniteSetTheorems, WellFoundedInduction, TLAPS

(* Induction: a set of naturals with 0 and the successor of each of its     *)
(* members is Nat.                                                          *)
LEMMA NatSetInduction ==
  ASSUME NEW S \in SUBSET Nat, 0 \in S, \A n \in S : n + 1 \in S
  PROVE  S = Nat
<1> SUFFICES ASSUME Nat \ S # {} PROVE FALSE
  OBVIOUS
<1>1. PICK x \in Nat \ S : \A y \in Nat \ S : ~ (<<y, x>> \in OpToRel(<, Nat))
  BY WFMin, NatLessThanWellFounded
<1>2. \A y \in Nat \ S : ~(y < x)
  BY <1>1 DEF OpToRel
<1>3. x - 1 \in Nat /\ x - 1 < x
  OBVIOUS
<1>4. x - 1 \in S
  BY <1>2, <1>3
<1> QED BY <1>4

(* There are finitely many ranges.                                          *)
LEMMA RangesFinite == IsFiniteSet(Ranges)
<1>0. IsFiniteSet(Num)
  BY FS_Interval, RescanAssumption DEF Num
<1>1. IsFiniteSet(Num \X Num)
  BY <1>0, FS_Product
<1> DEFINE pair == [r \in [from : Num, to : Num] |-> <<r.from, r.to>>]
<1>2. pair \in Injection([from : Num, to : Num], Num \X Num)
  BY DEF Injection, IsInjective
<1>3. IsFiniteSet([from : Num, to : Num])
  BY <1>1, <1>2, FS_Injection
<1> QED BY <1>3, FS_Subset DEF Ranges

(* The latest start of a set of ranges: ranges start at MaxNum at most.     *)
LEMMA LatestStartFacts ==
  ASSUME NEW S \in SUBSET Ranges, S # {}
  PROVE  /\ LatestStart(S) \in S
         /\ \A q \in S : q.from <= LatestStart(S).from
<1>1. \A q \in S : q.from \in Nat /\ q.from <= MaxNum
  BY RescanAssumption DEF Ranges, Num
<1>2. \E r \in S : \A q \in S : q.from <= r.from
  <2> SUFFICES ASSUME \A r \in S : \E q \in S : ~(q.from <= r.from) PROVE FALSE
    OBVIOUS
  <2> DEFINE I == {n \in Nat : \E q \in S : n <= q.from}
  <2>1. 0 \in I
    BY <1>1
  <2>2. \A n \in I : n + 1 \in I
    BY <1>1
  <2>3. I = Nat
    <3> HIDE DEF I
    <3>1. I \in SUBSET Nat
      BY DEF I
    <3> QED BY <2>1, <2>2, <3>1, NatSetInduction
  <2>4. MaxNum + 1 \in I
    <3>1. MaxNum + 1 \in Nat
      BY RescanAssumption
    <3> QED BY <2>3, <3>1
  <2> QED BY <1>1, <2>4, RescanAssumption
<1> QED BY <1>2 DEF LatestStart

-----------------------------------------------------------------------------
(* MergeRanges as a recursive function *)

(* One step of the fold of MergeRanges.                                     *)
MergeStep(f, s) ==
  IF s = {} THEN <<>>
  ELSE Absorb(f[s \ {LatestStart(s)}], LatestStart(s))

(* The fold is well defined: its recursion ends at the empty set.           *)
LEMMA MergeDefined ==
  ASSUME NEW S \in SUBSET Ranges
  PROVE  \E f : f = [s \in SUBSET S |-> MergeStep(f, s)]
<1> DEFINE Upto(f, k) == /\ f = [s \in SUBSET S |-> f[s]]
                         /\ \A s \in SUBSET S :
                              Cardinality(s) <= k => f[s] = MergeStep(f, s)
           I == {k \in Nat : \E f : Upto(f, k)}
<1>0. \A s \in SUBSET S : IsFiniteSet(s) /\ Cardinality(s) \in Nat
  BY RangesFinite, FS_Subset, FS_CardinalityType
<1>a. ASSUME NEW s \in SUBSET S, s # {}
      PROVE  /\ s \ {LatestStart(s)} \in SUBSET S
             /\ Cardinality(s \ {LatestStart(s)}) = Cardinality(s) - 1
  BY <1>0, <1>a, LatestStartFacts, FS_RemoveElement
<1>1. 0 \in I
  <2> DEFINE f == [s \in SUBSET S |-> <<>>]
  <2>1. \A s \in SUBSET S : Cardinality(s) <= 0 => s = {}
    BY <1>0, FS_EmptySet
  <2>2. Upto(f, 0)
    BY <2>1 DEF MergeStep
  <2> QED BY <2>2
<1>2. ASSUME NEW k \in I PROVE k + 1 \in I
  <2>1. PICK f : Upto(f, k)
    BY <1>2
  <2> DEFINE g == [s \in SUBSET S |-> IF Cardinality(s) <= k THEN f[s] ELSE MergeStep(f, s)]
  <2>2. ASSUME NEW s \in SUBSET S, Cardinality(s) <= k + 1
        PROVE  g[s] = MergeStep(g, s)
    <3>1. g[s] = MergeStep(f, s)
      BY <2>1
    <3>2. CASE s = {}
      BY <3>1, <3>2 DEF MergeStep
    <3>3. CASE s # {}
      <4>1. /\ s \ {LatestStart(s)} \in SUBSET S
            /\ Cardinality(s \ {LatestStart(s)}) <= k
        BY <1>0, <1>a, <2>2, <3>3
      <4>2. g[s \ {LatestStart(s)}] = f[s \ {LatestStart(s)}]
        BY <4>1
      <4> QED BY <3>1, <3>3, <4>2 DEF MergeStep
    <3> QED BY <3>2, <3>3
  <2>3. Upto(g, k + 1)
    BY <2>2
  <2>4. \E h : Upto(h, k + 1)
    BY <2>3
  <2>5. k + 1 \in Nat
    OBVIOUS
  <2> HIDE DEF Upto
  <2> QED BY <2>4, <2>5
<1>3. I = Nat
  <2> HIDE DEF I
  <2>1. I \in SUBSET Nat
    BY DEF I
  <2> QED BY <1>1, <1>2, <2>1, NatSetInduction
<1>4. PICK f : Upto(f, Cardinality(S))
  BY <1>0, <1>3
<1>5. \A s \in SUBSET S : Cardinality(s) <= Cardinality(S)
  BY <1>0, FS_Subset
<1>6. f = [s \in SUBSET S |-> MergeStep(f, s)]
  BY <1>4, <1>5
<1> QED BY <1>6

(* MergeRanges is the value of such a function.                             *)
LEMMA MergeUnfolds ==
  ASSUME NEW S \in SUBSET Ranges
  PROVE  \E f : /\ f = [s \in SUBSET S |-> MergeStep(f, s)]
                /\ MergeRanges(S) = f[S]
<1> DEFINE iter == CHOOSE f : f = [s \in SUBSET S |-> MergeStep(f, s)]
<1>1. iter = [s \in SUBSET S |-> MergeStep(iter, s)]
  BY MergeDefined
<1>2. MergeRanges(S) = iter[S]
  BY DEF MergeRanges, MapThenFoldSet, MergeStep
<1> QED BY <1>1, <1>2

-----------------------------------------------------------------------------
(* What MergeRanges returns *)

(* m is the merge of the ranges in s: the same numbers, in ranges that are  *)
(* apart and in order, each of which starts where a range of s does.        *)
MergeOf(m, s) ==
  /\ m \in Seq(Ranges)
  /\ s # {} => m # <<>>
  /\ \A i \in DOMAIN m : \A n \in Numbers(m[i]) : \E r \in s : n \in Numbers(r)
  /\ \A r \in s : \A n \in Numbers(r) : \E i \in DOMAIN m : n \in Numbers(m[i])
  /\ \A i, j \in DOMAIN m : i < j => m[i].to + 1 < m[j].from
  /\ \A i \in DOMAIN m : \E q \in s : m[i].from = q.from

(* Absorbing the range that starts last keeps that, whether it is merged    *)
(* into the last range or appended.                                         *)
LEMMA AbsorbSound ==
  ASSUME NEW s \in SUBSET Ranges, NEW x \in s, \A q \in s : q.from <= x.from,
         NEW m, MergeOf(m, s \ {x})
  PROVE  MergeOf(Absorb(m, x), s)
<1> DEFINE y == Absorb(m, x)
<1>0. /\ m \in Seq(Ranges) /\ Len(m) \in Nat /\ DOMAIN m = 1 .. Len(m)
      /\ \A r \in Ranges : r.from \in Nat /\ r.to \in Nat /\ r.from <= r.to
      /\ x \in Ranges
      /\ \A i \in DOMAIN m : m[i] \in Ranges /\ m[i].from <= x.from
  BY RescanAssumption DEF MergeOf, Ranges, Num
<1>1. CASE m # <<>> /\ Overlaps(Last(m), x)
  <2> DEFINE k == Len(m)
             h == Hull(m[k], x)
  <2>1. k \in DOMAIN m /\ Last(m) = m[k]
    BY <1>0, <1>1 DEF Last
  <2>2. /\ h \in Ranges /\ h.from = m[k].from /\ h.to >= m[k].to
        /\ \A n : n \in Numbers(h) <=> n \in Numbers(m[k]) \/ n \in Numbers(x)
    <3>1. /\ m[k] \in Ranges /\ m[k].from <= x.from /\ x.from <= m[k].to + 1
      BY <1>0, <1>1, <2>1 DEF Overlaps
    <3>2. h = [from |-> m[k].from, to |-> IF x.to > m[k].to THEN x.to ELSE m[k].to]
      BY <1>0, <3>1 DEF Hull
    <3>3. h \in Ranges /\ h.from = m[k].from /\ h.to >= m[k].to
      BY <1>0, <3>1, <3>2 DEF Ranges
    <3> QED BY <1>0, <3>1, <3>2, <3>3 DEF Numbers
  <2>3. /\ y \in Seq(Ranges) /\ DOMAIN y = DOMAIN m
        /\ \A i \in DOMAIN m : y[i] = IF i = k THEN h ELSE m[i]
    BY <1>0, <1>1, <2>1, <2>2 DEF Absorb, Front
  <2>4. \A i \in DOMAIN y : \A n \in Numbers(y[i]) : \E r \in s : n \in Numbers(r)
    BY <2>1, <2>2, <2>3 DEF MergeOf
  <2>5. \A r \in s : \A n \in Numbers(r) : \E i \in DOMAIN y : n \in Numbers(y[i])
    BY <2>1, <2>2, <2>3 DEF MergeOf
  <2>6. \A i, j \in DOMAIN y : i < j => y[i].to + 1 < y[j].from
    BY <1>0, <2>1, <2>2, <2>3 DEF MergeOf
  <2>7. \A i \in DOMAIN y : \E q \in s : y[i].from = q.from
    BY <2>1, <2>2, <2>3 DEF MergeOf
  <2>8. y # <<>>
    BY <2>1, <2>3
  <2> QED BY <2>3, <2>4, <2>5, <2>6, <2>7, <2>8 DEF MergeOf
<1>2. CASE ~(m # <<>> /\ Overlaps(Last(m), x))
  <2> DEFINE k == Len(m) + 1
  <2>1. /\ y \in Seq(Ranges) /\ DOMAIN y = DOMAIN m \cup {k} /\ k \notin DOMAIN m
        /\ \A i \in DOMAIN m : y[i] = m[i]
        /\ y[k] = x
    BY <1>0, <1>2 DEF Absorb
  <2>2. ASSUME NEW i \in DOMAIN m PROVE m[i].to + 1 < x.from
    <3>1. Len(m) \in DOMAIN m /\ Last(m) = m[Len(m)]
      BY <1>0 DEF Last
    <3>2. m[Len(m)].to + 1 < x.from
      BY <1>0, <1>2, <3>1 DEF Overlaps
    <3>3. i < Len(m) => m[i].to + 1 < m[Len(m)].from
      BY <3>1 DEF MergeOf
    <3> QED BY <1>0, <3>1, <3>2, <3>3
  <2>4. \A i \in DOMAIN y : \A n \in Numbers(y[i]) : \E r \in s : n \in Numbers(r)
    BY <2>1 DEF MergeOf
  <2>5. \A r \in s : \A n \in Numbers(r) : \E i \in DOMAIN y : n \in Numbers(y[i])
    BY <2>1 DEF MergeOf
  <2>6. \A i, j \in DOMAIN y : i < j => y[i].to + 1 < y[j].from
    BY <1>0, <2>1, <2>2 DEF MergeOf
  <2>7. \A i \in DOMAIN y : \E q \in s : y[i].from = q.from
    BY <2>1 DEF MergeOf
  <2>8. y # <<>>
    BY <2>1
  <2> QED BY <2>1, <2>4, <2>5, <2>6, <2>7, <2>8 DEF MergeOf
<1> QED BY <1>1, <1>2

(* MergeRanges merges every set of ranges.                                  *)
THEOREM MergeRangesSound ==
  ASSUME NEW S \in SUBSET Ranges
  PROVE  MergeOf(MergeRanges(S), S)
<1>1. PICK f : /\ f = [s \in SUBSET S |-> MergeStep(f, s)]
               /\ MergeRanges(S) = f[S]
  BY MergeUnfolds
<1> DEFINE I == {k \in Nat : \A s \in SUBSET S : Cardinality(s) = k => MergeOf(f[s], s)}
<1>0. \A s \in SUBSET S : IsFiniteSet(s) /\ Cardinality(s) \in Nat
  BY RangesFinite, FS_Subset, FS_CardinalityType
<1>2. 0 \in I
  <2>1. f[{}] = <<>>
    BY <1>1 DEF MergeStep
  <2>2. MergeOf(f[{}], {})
    BY <2>1 DEF MergeOf
  <2>3. \A s \in SUBSET S : Cardinality(s) = 0 => s = {}
    BY <1>0, FS_EmptySet
  <2> QED BY <2>2, <2>3
<1>3. ASSUME NEW k \in I PROVE k + 1 \in I
  <2>1. ASSUME NEW s \in SUBSET S, Cardinality(s) = k + 1
        PROVE  MergeOf(f[s], s)
    <3> DEFINE x == LatestStart(s)
    <3>1. s # {}
      BY <2>1, FS_EmptySet
    <3>2. x \in s /\ \A q \in s : q.from <= x.from
      BY <3>1, LatestStartFacts
    <3>a. IsFiniteSet(s)
      BY <1>0
    <3>b. Cardinality(s \ {x}) = Cardinality(s) - 1
      <4> HIDE DEF I, x
      <4> QED BY <3>2, <3>a, FS_RemoveElement
    <3>c. k \in Nat
      OBVIOUS
    <3>d. Cardinality(s) - 1 = k
      <4> HIDE DEF I
      <4> QED BY <2>1, <3>c
    <3>3. s \ {x} \in SUBSET S /\ Cardinality(s \ {x}) = k
      <4> HIDE DEF I, x
      <4> QED BY <3>b, <3>d
    <3>4. MergeOf(f[s \ {x}], s \ {x})
      BY <3>3
    <3>5. f[s] = Absorb(f[s \ {x}], x)
      BY <1>1, <3>1 DEF MergeStep
    <3> QED BY <3>2, <3>4, <3>5, AbsorbSound
  <2> QED BY <2>1
<1>4. I = Nat
  <2> HIDE DEF I
  <2>1. I \in SUBSET Nat
    BY DEF I
  <2> QED BY <1>2, <1>3, <2>1, NatSetInduction
<1> QED BY <1>0, <1>1, <1>4

-----------------------------------------------------------------------------
(* What Range.Split returns *)

(* Division as in Go: the quotient is rounded down.                         *)
LEMMA DivFacts ==
  ASSUME NEW a \in Nat, NEW c \in Nat \ {0}
  PROVE  /\ a \div c \in Nat
         /\ c * (a \div c) <= a
         /\ a < c * (a \div c) + c
  OBVIOUS

(* A product grows with its factor.                                         *)
LEMMA TimesMonotone ==
  ASSUME NEW c \in Nat \ {0}, NEW i \in Nat, NEW j \in Nat
  PROVE  /\ i * c \in Nat
         /\ i < j => i * c + c <= j * c
         /\ i * c < j * c + c => i <= j
  OBVIOUS

(* The chunks of a range are ranges, the range's numbers in order, each     *)
(* once, at most ChunkSize of them in a chunk.                              *)
THEOREM SplitSound ==
  ASSUME NEW r \in Ranges
  PROVE  /\ Split(r) \in Seq(Ranges) /\ Split(r) # <<>>
         /\ \A i \in DOMAIN Split(r) : \A n \in Numbers(Split(r)[i]) : n \in Numbers(r)
         /\ \A n \in Numbers(r) : \E i \in DOMAIN Split(r) : n \in Numbers(Split(r)[i])
         /\ \A i, j \in DOMAIN Split(r) : i < j => Split(r)[i].to < Split(r)[j].from
         /\ \A i \in DOMAIN Split(r) : Cardinality(Numbers(Split(r)[i])) <= ChunkSize
<1> DEFINE k == (r.to - r.from) \div ChunkSize
           first(i) == r.from + (i - 1) * ChunkSize
           last(i) == IF first(i) + ChunkSize - 1 < r.to THEN first(i) + ChunkSize - 1 ELSE r.to
<1>0. /\ r.from \in Nat /\ r.to \in Nat /\ r.from <= r.to /\ r.to <= MaxNum
      /\ ChunkSize \in Nat \ {0} /\ r.to - r.from \in Nat /\ MaxNum \in Nat
  BY RescanAssumption DEF Ranges, Num
<1>1. k \in Nat /\ ChunkSize * k <= r.to - r.from /\ r.to - r.from < ChunkSize * k + ChunkSize
  BY <1>0, DivFacts
<1> HIDE DEF k
<1>2. /\ Split(r) = [i \in 1 .. k + 1 |-> [from |-> first(i), to |-> last(i)]]
      /\ DOMAIN Split(r) = 1 .. k + 1
  BY DEF Split, k
<1>3. ASSUME NEW i \in 1 .. k + 1
      PROVE  /\ first(i) \in Nat /\ r.from <= first(i) /\ first(i) <= r.to
             /\ last(i) \in Nat /\ first(i) <= last(i) /\ last(i) <= r.to
             /\ last(i) <= first(i) + ChunkSize - 1
  <2>1. i - 1 \in Nat /\ i - 1 <= k /\ (i - 1) * ChunkSize \in Nat
    BY <1>0, <1>1, TimesMonotone
  <2>2. (i - 1) * ChunkSize <= k * ChunkSize
    BY <1>0, <1>1, <2>1, TimesMonotone
  <2>3. k * ChunkSize = ChunkSize * k
    BY <1>0, <1>1
  <2>4. first(i) \in Nat /\ r.from <= first(i) /\ first(i) <= r.to
    BY <1>0, <1>1, <2>1, <2>2, <2>3
  <2> QED BY <1>0, <2>4
<1>4. ASSUME NEW i \in 1 .. k + 1
      PROVE  [from |-> first(i), to |-> last(i)] \in Ranges
  <2> HIDE DEF first, last
  <2> QED BY <1>0, <1>3 DEF Ranges, Num
<1>5. Split(r) \in Seq(Ranges) /\ Split(r) # <<>>
  <2> HIDE DEF first, last
  <2>1. k + 1 \in Nat
    BY <1>1
  <2>2. Split(r) \in Seq(Ranges)
    BY <1>2, <1>4, <2>1
  <2>3. 1 \in DOMAIN Split(r)
    BY <1>1, <1>2
  <2> QED BY <2>2, <2>3
<1>6. ASSUME NEW i \in 1 .. k + 1
      PROVE  Numbers(Split(r)[i]) = first(i) .. last(i)
  <2> HIDE DEF first, last
  <2> QED BY <1>2 DEF Numbers
<1>7. ASSUME NEW i \in 1 .. k + 1, NEW n \in first(i) .. last(i)
      PROVE  n \in Numbers(r)
  <2> HIDE DEF first, last
  <2> QED BY <1>0, <1>3 DEF Numbers
<1>8. ASSUME NEW n \in Numbers(r)
      PROVE  \E i \in 1 .. k + 1 : n \in first(i) .. last(i)
  <2> DEFINE j == (n - r.from) \div ChunkSize
  <2>1. n \in Nat /\ n - r.from \in Nat /\ n - r.from <= r.to - r.from
    BY <1>0 DEF Numbers
  <2>2. j \in Nat /\ ChunkSize * j <= n - r.from /\ n - r.from < ChunkSize * j + ChunkSize
    BY <1>0, <2>1, DivFacts
  <2> HIDE DEF j
  <2>3. j * ChunkSize = ChunkSize * j /\ k * ChunkSize = ChunkSize * k /\ j * ChunkSize \in Nat
        /\ k * ChunkSize \in Nat
    BY <1>0, <1>1, <2>2
  <2>4. j <= k
    <3>1. j * ChunkSize < k * ChunkSize + ChunkSize
      BY <1>0, <1>1, <2>1, <2>2, <2>3
    <3> QED BY <1>0, <1>1, <2>2, <3>1, TimesMonotone
  <2>5. j + 1 \in 1 .. k + 1 /\ (j + 1) - 1 = j
    BY <1>1, <2>2, <2>4
  <2>6. first(j + 1) = r.from + j * ChunkSize
    BY <2>5
  <2>7. n \in first(j + 1) .. last(j + 1)
    BY <1>0, <2>1, <2>2, <2>3, <2>6 DEF Numbers
  <2> HIDE DEF first, last
  <2> QED BY <2>5, <2>7
<1>9. ASSUME NEW i \in 1 .. k + 1, NEW j \in 1 .. k + 1, i < j
      PROVE  last(i) < first(j)
  <2>1. i - 1 \in Nat /\ j - 1 \in Nat /\ i - 1 < j - 1
    BY <1>1, <1>9
  <2>2. /\ (i - 1) * ChunkSize + ChunkSize <= (j - 1) * ChunkSize
        /\ (i - 1) * ChunkSize \in Nat /\ (j - 1) * ChunkSize \in Nat
    BY <1>0, <2>1, TimesMonotone
  <2>3. first(i) + ChunkSize <= first(j) /\ first(j) \in Nat
    BY <1>0, <2>2
  <2> HIDE DEF first, last
  <2> QED BY <1>0, <1>3, <2>3
<1>10. ASSUME NEW i \in 1 .. k + 1
       PROVE  Cardinality(Numbers(Split(r)[i])) <= ChunkSize
  <2> HIDE DEF first, last
  <2>1. Cardinality(first(i) .. last(i)) = last(i) - first(i) + 1
    BY <1>3, FS_Interval
  <2> QED BY <1>0, <1>3, <1>6, <2>1
<1>11. \A i \in 1 .. k + 1 : Split(r)[i].from = first(i) /\ Split(r)[i].to = last(i)
  <2> HIDE DEF first, last
  <2> QED BY <1>2
<1> HIDE DEF first, last
<1> QED BY <1>2, <1>5, <1>6, <1>7, <1>8, <1>9, <1>10, <1>11

-----------------------------------------------------------------------------
(* The numbers of the elements of a sequence, element by element.           *)
LEMMA NumbersOfSeq ==
  ASSUME NEW s \in Seq(Ranges), NEW n
  PROVE  n \in NumbersOf(ToSet(s)) <=> \E i \in DOMAIN s : n \in Numbers(s[i])
  BY DEF NumbersOf, ToSet

(* RangesSound holds of every queue of ranges.                              *)
LEMMA RangesSoundOfRanges ==
  ASSUME queue \subseteq Ranges
  PROVE  RangesSound
<1> DEFINE merged == MergeRanges(queue)
<1>1. MergeOf(merged, queue)
  BY MergeRangesSound
<1> HIDE DEF merged
<1>2. NumbersOf(ToSet(merged)) = NumbersOf(queue)
  <2>1. \A n : n \in NumbersOf(ToSet(merged)) <=> \E i \in DOMAIN merged : n \in Numbers(merged[i])
    BY <1>1, NumbersOfSeq DEF MergeOf
  <2>2. \A n : n \in NumbersOf(queue) <=> \E r \in queue : n \in Numbers(r)
    BY DEF NumbersOf
  <2> QED BY <1>1, <2>1, <2>2 DEF MergeOf
<1>3. \A i, j \in DOMAIN merged : i < j => merged[i].to + 1 < merged[j].from
  BY <1>1 DEF MergeOf
<1>4. ASSUME NEW r \in queue
      PROVE  /\ NumbersOf(ToSet(Split(r))) = Numbers(r)
             /\ \A i, j \in DOMAIN Split(r) : i < j => Split(r)[i].to < Split(r)[j].from
             /\ \A i \in DOMAIN Split(r) : Cardinality(Numbers(Split(r)[i])) <= ChunkSize
  <2>0. r \in Ranges
    OBVIOUS
  <2>1. \A n : n \in NumbersOf(ToSet(Split(r))) <=> \E i \in DOMAIN Split(r) : n \in Numbers(Split(r)[i])
    BY <2>0, SplitSound, NumbersOfSeq
  <2>2. NumbersOf(ToSet(Split(r))) = Numbers(r)
    BY <2>0, <2>1, SplitSound
  <2> QED BY <2>0, <2>2, SplitSound
<1> QED BY <1>2, <1>3, <1>4 DEF RangesSound, merged

=============================================================================
