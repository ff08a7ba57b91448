------------------------ MODULE SignalPipelineProofs ------------------------
(***************************************************************************)
(* Theorems about SignalPipeline, for traces of any length and any levels, *)
(* and for all parameters: what the median does to a step and to a spike,  *)
(* what merging keeps, and what a detection therefore reports.             *)
(***************************************************************************)
EXTENDS SignalPipeline, FiniteSetTheorems, SequenceTheorems, WellFoundedInduction, TLAPS

\* The places of a bucket that hold less than v, no more than v, and v.
Below(b, v) == {i \in DOMAIN b : b[i] < v}
UpTo(b, v) == {i \in DOMAIN b : b[i] <= v}
Equal(b, v) == {i \in DOMAIN b : b[i] = v}

\* The first and the last sample of a bucket.
From(i) == IF i - Half < 1 THEN 1 ELSE i - Half
To(i) == IF i + Half > Len(raw) THEN Len(raw) ELSE i + Half

TypeInv ==
    /\ raw \in Traces
    /\ params \in [window : Windows, threshold : Thresholds, merge : MergeWindows, reach : Reaches]
    /\ stage \in {"denoise", "derive", "merge", "done"}

\* What each stage leaves behind.
Filtered == stage # "denoise" => points = [i \in DOMAIN raw |-> Median(Bucket(i))]
Derived ==
    peaks = IF stage \in {"denoise", "derive"} THEN {}
            ELSE {step \in {Step(i) : i \in 1 .. Len(points) - 1} : step.magnitude >= params.threshold}
Classified ==
    stage = "done" =>
        /\ rest = {}
        /\ events = {ClassifyPeak(peak) : peak \in {p \in Kept : ValidRouteDistance(p)}}

\* How far the merge has come: it is beyond the peak that is open, which in turn is beyond the
\* reach of those that are closed.
Advancing ==
    /\ rest \subseteq peaks /\ merged \subseteq peaks /\ current \in peaks \cup {NoPeak}
    /\ current = NoPeak => rest = peaks /\ merged = {}
    /\ current # NoPeak =>
         /\ \A p \in rest : current.index < p.index
         /\ \A p \in merged : p.index + params.merge < current.index
    /\ \A p, q \in merged : p # q => ~ InReach(p, q)

\* What the merge has passed and not kept lies beside a peak that is at least as large.
Covered ==
    \A p \in peaks : p \in rest \/ p \in Kept
        \/ \E q \in peaks \ {p} : InReach(p, q) /\ q.magnitude >= p.magnitude

IInv == TypeInv /\ Filtered /\ Derived /\ Classified /\ Advancing /\ Covered
----------------------------------------------------------------------------
(* Ranks and medians.                                                      *)

LEMMA Smallest ==
    ASSUME NEW S \in SUBSET Nat, S # {}
    PROVE  \E m \in S : \A k \in S : m <= k
<1>1. PICK m \in S : \A k \in S : ~ (<<k, m>> \in OpToRel(<, Nat))
    BY NatLessThanWellFounded, WFMin
<1>2. \A k \in S : <<k, m>> \in Nat \X Nat
    OBVIOUS
<1>3. \A k \in S : ~ (k < m)
    BY <1>1, <1>2 DEF OpToRel
<1> QED
    BY <1>3

\* What is counted in natural numbers is smallest somewhere.
LEMMA Fewest ==
    ASSUME NEW I, I # {}, NEW f \in [I -> Nat]
    PROVE  \E i \in I : \A j \in I : f[i] <= f[j]
<1> DEFINE S == {f[i] : i \in I}
<1>1. S \in SUBSET Nat /\ S # {}
    OBVIOUS
<1>2. PICK m \in S : \A k \in S : m <= k
    BY <1>1, Smallest
<1> QED
    BY <1>2

\* Sets of places are finite, and no larger than the bucket.
LEMMA Places ==
    ASSUME NEW b \in Seq(Int), NEW T \in SUBSET DOMAIN b
    PROVE  /\ IsFiniteSet(T) /\ Cardinality(T) \in 0 .. Len(b)
           /\ \A U \in SUBSET T : Cardinality(U) \in 0 .. Cardinality(T)
           /\ \A U \in SUBSET T : U # T => Cardinality(U) < Cardinality(T)
           /\ \A U \in SUBSET DOMAIN b :
                 T \cap U = {} => Cardinality(T) + Cardinality(U) <= Len(b)
           /\ Cardinality(DOMAIN b) = Len(b)
<1>1. DOMAIN b = 1 .. Len(b) /\ Len(b) \in Nat
    OBVIOUS
<1>2. IsFiniteSet(DOMAIN b) /\ Cardinality(DOMAIN b) = Len(b)
    <2>1. /\ IsFiniteSet(1 .. Len(b))
          /\ Cardinality(1 .. Len(b)) = IF 1 > Len(b) THEN 0 ELSE Len(b) - 1 + 1
        BY <1>1, FS_Interval
    <2> QED
        BY <1>1, <2>1
<1>3. ASSUME NEW S, IsFiniteSet(S), NEW U \in SUBSET S
      PROVE  /\ IsFiniteSet(U) /\ Cardinality(U) \in Nat /\ Cardinality(S) \in Nat
             /\ Cardinality(U) <= Cardinality(S) /\ (U # S => Cardinality(U) # Cardinality(S))
    BY <1>3, FS_Subset, FS_CardinalityType
<1>4. IsFiniteSet(T) /\ Cardinality(T) \in 0 .. Len(b)
    BY <1>1, <1>2, <1>3
<1>5. ASSUME NEW U \in SUBSET T
      PROVE  Cardinality(U) \in 0 .. Cardinality(T) /\ (U # T => Cardinality(U) < Cardinality(T))
    BY <1>3, <1>4
<1>6. ASSUME NEW U \in SUBSET DOMAIN b, T \cap U = {}
      PROVE  Cardinality(T) + Cardinality(U) <= Len(b)
    <2> DEFINE D == DOMAIN b
    <2>1. Cardinality(D \ T) = Cardinality(D) - Cardinality(D \cap T) /\ D \cap T = T
        BY <1>2, FS_Difference
    <2>2. U \in SUBSET (D \ T) /\ IsFiniteSet(D \ T)
        BY <1>2, <1>3, <1>6
    <2>3. Cardinality(U) <= Cardinality(D \ T) /\ Cardinality(U) \in Nat
        BY <2>2, <1>3
    <2>4. Cardinality(D \ T) = Len(b) - Cardinality(T)
        BY <1>2, <2>1
    <2> HIDE DEF D
    <2> QED
        BY <1>1, <1>4, <2>3, <2>4
<1> QED
    BY <1>2, <1>4, <1>5, <1>6

\* Among some places one holds the largest.
LEMMA Highest ==
    ASSUME NEW b \in Seq(Int), NEW I \in SUBSET DOMAIN b, I # {}
    PROVE  \E i \in I : \A j \in I : b[j] <= b[i]
<1> DEFINE Above(i) == {j \in DOMAIN b : b[j] > b[i]}
           size == [i \in I |-> Cardinality(Above(i))]
<1>1. \A i \in I : Above(i) \in SUBSET DOMAIN b
    OBVIOUS
<1>2. \A i \in I : Cardinality(Above(i)) \in Nat
    BY <1>1, Places
<1>3. size \in [I -> Nat]
    BY <1>2
<1>4. PICK i \in I : \A j \in I : size[i] <= size[j]
    BY <1>3, Fewest
<1>5. ASSUME NEW j \in I, b[j] > b[i] PROVE FALSE
    <2>1. b[i] \in Int /\ b[j] \in Int /\ \A k \in DOMAIN b : b[k] \in Int
        OBVIOUS
    <2>2. Above(j) \in SUBSET Above(i) /\ j \in Above(i) /\ j \notin Above(j)
        BY <1>5, <2>1
    <2>3. Cardinality(Above(j)) < Cardinality(Above(i))
        BY <2>2, <1>1, Places
    <2>4. size[i] \in Nat /\ size[j] \in Nat /\ size[j] < size[i] /\ size[i] <= size[j]
        BY <2>3, <1>3, <1>4
    <2> QED
        BY <2>4
<1> HIDE DEF size
<1>6. \A j \in I : b[j] \in Int
    OBVIOUS
<1>7. \A j \in I : b[j] <= b[i]
    BY <1>5, <1>6
<1> QED
    BY <1>7

\* There is a sample at every place of the sorted bucket.
LEMMA Ranked ==
    ASSUME NEW b \in Seq(Int), NEW k \in 1 .. Len(b)
    PROVE  /\ Sorted(b, k) \in Int
           /\ Cardinality(Below(b, Sorted(b, k))) < k
           /\ Cardinality(UpTo(b, Sorted(b, k))) >= k
<1>1. DOMAIN b = 1 .. Len(b) /\ Len(b) \in Nat /\ \A i \in DOMAIN b : b[i] \in Int
    OBVIOUS
<1>2. \A v : UpTo(b, v) \in SUBSET DOMAIN b /\ Below(b, v) \in SUBSET DOMAIN b
    BY DEF UpTo, Below
<1>3. \A v : Cardinality(UpTo(b, v)) \in Nat /\ Cardinality(Below(b, v)) \in Nat
    BY <1>2, Places
<1> DEFINE I == {i \in DOMAIN b : Cardinality(UpTo(b, b[i])) >= k}
           size == [i \in I |-> Cardinality(UpTo(b, b[i]))]
<1>4. I # {}
    <2>1. DOMAIN b # {}
        BY <1>1
    <2>2. PICK i \in DOMAIN b : \A j \in DOMAIN b : b[j] <= b[i]
        BY <2>1, Highest
    <2>3. UpTo(b, b[i]) = DOMAIN b
        BY <2>2 DEF UpTo
    <2>4. Cardinality(UpTo(b, b[i])) = Len(b)
        BY <2>3, Places
    <2> QED
        BY <2>4, <1>1
<1>5. PICK i \in I : \A j \in I : Cardinality(UpTo(b, b[i])) <= Cardinality(UpTo(b, b[j]))
    <2>1. size \in [I -> Nat]
        BY <1>3
    <2>2. PICK i \in I : \A j \in I : size[i] <= size[j]
        BY <2>1, <1>4, Fewest
    <2>3. \A j \in I : size[j] = Cardinality(UpTo(b, b[j]))
        OBVIOUS
    <2> HIDE DEF size
    <2> QED
        BY <2>2, <2>3
<1>6. ASSUME Cardinality(Below(b, b[i])) >= k PROVE FALSE
    <2> DEFINE B == Below(b, b[i])
    <2>1. B \in SUBSET DOMAIN b
        BY <1>2
    <2>2. B # {}
        <3>1. B = {} => Cardinality(B) = 0
            BY FS_EmptySet
        <3> QED
            BY <3>1, <1>1, <1>6
    <2>3. PICK j \in B : \A l \in B : b[l] <= b[j]
        BY <2>1, <2>2, Highest
    <2>4. j \in DOMAIN b /\ b[j] < b[i]
        BY <2>3 DEF Below
    <2>5. UpTo(b, b[j]) = B
        BY <1>1, <2>3, <2>4 DEF UpTo, Below
    <2>6. j \in I
        BY <1>6, <2>4, <2>5
    <2>7. UpTo(b, b[j]) \in SUBSET UpTo(b, b[i]) /\ i \in UpTo(b, b[i]) /\ i \notin UpTo(b, b[j])
        BY <1>1, <2>4 DEF UpTo
    <2>8. Cardinality(UpTo(b, b[j])) < Cardinality(UpTo(b, b[i]))
        BY <1>2, <2>7, Places
    <2> QED
        BY <1>3, <1>5, <2>6, <2>8
<1> DEFINE V == {b[j] : j \in DOMAIN b}
           R(v) == Cardinality(Below(b, v)) < k /\ Cardinality(UpTo(b, v)) >= k
<1>7. R(b[i]) /\ b[i] \in V
    BY <1>1, <1>3, <1>5, <1>6
<1>8. Sorted(b, k) = CHOOSE v \in V : R(v)
    BY DEF Sorted, Below, UpTo
<1> HIDE DEF R, V
<1>9. Sorted(b, k) \in V /\ R(Sorted(b, k))
    BY <1>7, <1>8
<1> QED
    BY <1>1, <1>9 DEF V, R

\* A sample that more than half of the bucket holds is at every place near its middle.
LEMMA Prevailing ==
    ASSUME NEW b \in Seq(Int), NEW v \in Int, NEW k \in 1 .. Len(b),
           k <= Cardinality(Equal(b, v)), Len(b) - Cardinality(Equal(b, v)) < k
    PROVE  Sorted(b, k) = v
<1> DEFINE w == Sorted(b, k)
<1>1. w \in Int /\ Cardinality(Below(b, w)) < k /\ Cardinality(UpTo(b, w)) >= k
    BY Ranked
<1>2. Len(b) \in Nat /\ \A i \in DOMAIN b : b[i] \in Int
    OBVIOUS
<1>3. /\ Equal(b, v) \in SUBSET DOMAIN b /\ Below(b, w) \in SUBSET DOMAIN b
      /\ UpTo(b, w) \in SUBSET DOMAIN b
    BY DEF Equal, Below, UpTo
<1>4. /\ Cardinality(Equal(b, v)) \in Nat /\ Cardinality(Below(b, w)) \in Nat
      /\ Cardinality(UpTo(b, w)) \in Nat
    BY <1>3, Places
<1> HIDE DEF w
<1>5. ASSUME w < v PROVE FALSE
    <2>1. UpTo(b, w) \cap Equal(b, v) = {}
        BY <1>1, <1>2, <1>5 DEF UpTo, Equal
    <2>2. Cardinality(UpTo(b, w)) + Cardinality(Equal(b, v)) <= Len(b)
        BY <1>3, <2>1, Places
    <2> QED
        BY <1>1, <1>2, <1>4, <2>2
<1>6. ASSUME v < w PROVE FALSE
    <2>1. Equal(b, v) \in SUBSET Below(b, w)
        BY <1>1, <1>2, <1>6 DEF Below, Equal
    <2>2. Cardinality(Equal(b, v)) <= Cardinality(Below(b, w))
        BY <1>3, <1>4, <2>1, Places
    <2> QED
        BY <1>1, <1>2, <1>4, <2>2
<1> QED
    BY <1>1, <1>5, <1>6 DEF w

\* The median is a number, and it is what more than half of the samples are.
LEMMA Majority ==
    ASSUME NEW b \in Seq(Int), Len(b) >= 1
    PROVE  /\ Median(b) \in Int
           /\ \A v \in Int : 2 * Cardinality(Equal(b, v)) > Len(b) => Median(b) = v
<1> DEFINE n == Len(b)
           m == n \div 2
<1>1. n \in Nat /\ n >= 1
    OBVIOUS
<1> HIDE DEF n
<1>2. /\ m \in 0 .. n - 1 /\ (n % 2 = 0 => m >= 1 /\ n = 2 * m)
      /\ (n % 2 # 0 => n = 2 * m + 1)
    BY <1>1
<1>3. Median(b) = IF n % 2 = 0 THEN (Sorted(b, m) + Sorted(b, m + 1)) \div 2 ELSE Sorted(b, m + 1)
    BY DEF Median, n, m
<1> HIDE DEF m
<1>4. m + 1 \in 1 .. Len(b) /\ (n % 2 = 0 => m \in 1 .. Len(b))
    BY <1>1, <1>2 DEF n
<1>5. Sorted(b, m + 1) \in Int /\ (n % 2 = 0 => Sorted(b, m) \in Int)
    BY <1>4, Ranked
<1>6. Median(b) \in Int
    BY <1>3, <1>5
<1>7. ASSUME NEW v \in Int, 2 * Cardinality(Equal(b, v)) > Len(b) PROVE Median(b) = v
    <2> DEFINE e == Cardinality(Equal(b, v))
    <2>1. e \in 0 .. n
        <3>1. Equal(b, v) \in SUBSET DOMAIN b
            BY DEF Equal
        <3> QED
            BY <3>1, Places DEF n
    <2>2. 2 * e > n
        BY <1>7 DEF n
    <2> HIDE DEF e
    <2>3. m + 1 <= e /\ n - e < m + 1 /\ (n % 2 = 0 => m <= e /\ n - e < m)
        BY <1>1, <1>2, <2>1, <2>2
    <2>4. Sorted(b, m + 1) = v /\ (n % 2 = 0 => Sorted(b, m) = v)
        BY <1>4, <2>3, Prevailing DEF e, n
    <2> QED
        BY <1>3, <2>4
<1> QED
    BY <1>6, <1>7
----------------------------------------------------------------------------
(* The samples and the peaks.                                              *)

LEMMA Params ==
    ASSUME TypeInv
    PROVE  /\ params.threshold \in Nat \ {0} /\ params.merge \in Nat \ {0} /\ params.reach \in Nat
           /\ Half \in 0 .. 15
           /\ raw \in Seq(Int) /\ Len(raw) \in Nat /\ Len(raw) >= 16 /\ DOMAIN raw = 1 .. Len(raw)
           /\ \A i \in 1 .. Len(raw) : raw[i] \in Int
<1>1. /\ params.threshold \in Nat \ {0} /\ params.merge \in Nat \ {0} /\ params.reach \in Nat
      /\ params.window \in 1 .. 31
    BY PipelineAssumption DEF TypeInv
<1>2. Half \in 0 .. 15
    <2> DEFINE w == params.window
    <2>1. w \in 1 .. 31 /\ Half = w \div 2
        BY <1>1 DEF Half
    <2> HIDE DEF w
    <2> QED
        BY <2>1
<1>3. raw \in Seq(Int) /\ Len(raw) >= 16
    BY PipelineAssumption DEF TypeInv
<1> QED
    BY <1>1, <1>2, <1>3

\* The bucket of a sample holds it and its neighbours.
LEMMA Buckets ==
    ASSUME TypeInv, NEW i \in DOMAIN raw
    PROVE  /\ From(i) \in 1 .. i /\ To(i) \in i .. Len(raw)
           /\ From(i) \in Nat /\ From(i) >= 1 /\ To(i) \in Nat
           /\ Bucket(i) \in Seq(Int) /\ Len(Bucket(i)) = To(i) - From(i) + 1 /\ Len(Bucket(i)) >= 1
           /\ DOMAIN Bucket(i) = 1 .. To(i) - From(i) + 1
           /\ \A k \in 1 .. To(i) - From(i) + 1 : Bucket(i)[k] = raw[From(i) + k - 1]
<1>0. /\ Half \in 0 .. 15 /\ Len(raw) \in Nat /\ DOMAIN raw = 1 .. Len(raw)
      /\ \A k \in 1 .. Len(raw) : raw[k] \in Int
    BY Params
<1> DEFINE h == Half
           n == Len(raw)
           a == From(i)
           z == To(i)
<1>1. h \in Nat /\ n \in Nat /\ i \in 1 .. n /\ \A k \in 1 .. n : raw[k] \in Int
    BY <1>0
<1>2. a = (IF i - h < 1 THEN 1 ELSE i - h) /\ z = (IF i + h > n THEN n ELSE i + h)
    BY DEF From, To
<1>3. Bucket(i) = SubSeq(raw, a, z)
    BY DEF Bucket, From, To
<1> HIDE DEF h, n, a, z
<1>4. a \in 1 .. i /\ z \in i .. n
    BY <1>1, <1>2
<1>5. a \in Int /\ z \in Int /\ a <= z /\ \A k \in a .. z : raw[k] \in Int
    BY <1>1, <1>4
<1>6. /\ SubSeq(raw, a, z) \in Seq(Int) /\ Len(SubSeq(raw, a, z)) = z - a + 1
      /\ \A k \in 1 .. z - a + 1 : SubSeq(raw, a, z)[k] = raw[a + k - 1]
    BY <1>5, SubSeqProperties
<1>7. DOMAIN SubSeq(raw, a, z) = 1 .. z - a + 1
    BY <1>6
<1>8. z - a + 1 >= 1
    BY <1>5
<1>9. a \in Nat /\ a >= 1 /\ z \in Nat
    BY <1>1, <1>4
<1> QED
    BY <1>3, <1>4, <1>6, <1>7, <1>8, <1>9 DEF a, z, n

\* The filtered samples are as many, and are numbers.
LEMMA Points ==
    ASSUME TypeInv, points = [i \in DOMAIN raw |-> Median(Bucket(i))]
    PROVE  /\ points \in Seq(Int) /\ Len(points) = Len(raw) /\ DOMAIN points = 1 .. Len(raw)
           /\ \A i \in 1 .. Len(raw) : points[i] = Median(Bucket(i)) /\ points[i] \in Int
<1>1. \A i \in DOMAIN raw : Median(Bucket(i)) \in Int
    BY Buckets, Majority
<1>2. Len(raw) \in Nat /\ DOMAIN raw = 1 .. Len(raw)
    BY Params
<1>3. points \in [1 .. Len(raw) -> Int]
    BY <1>1, <1>2
<1> QED
    BY <1>2, <1>3

LEMMA Steps ==
    ASSUME TypeInv, points = [i \in DOMAIN raw |-> Median(Bucket(i))],
           NEW i \in 1 .. Len(points) - 1
    PROVE  Step(i).index = i /\ Step(i).magnitude \in Nat /\ Step(i) # NoPeak /\ i \in Nat /\ i >= 1
<1> DEFINE a == points[i]
           z == points[i + 1]
<1>1. Len(points) \in Nat
    BY Points
<1>2. a \in Int /\ z \in Int
    BY <1>1, Points, Params
<1>3. Step(i).index = i /\ Step(i).magnitude = Abs(z - a)
    BY DEF Step
<1> HIDE DEF a, z
<1>4. Abs(z - a) \in Nat
    BY <1>2 DEF Abs
<1>5. i # 0 /\ NoPeak.index = 0
    BY DEF NoPeak
<1> QED
    BY <1>1, <1>3, <1>4, <1>5

\* A peak is told by its index.
LEMMA Peaks ==
    ASSUME TypeInv, Filtered, Derived
    PROVE  /\ \A p \in peaks : /\ p.index \in Nat \ {0} /\ p.magnitude \in Nat /\ p # NoPeak
                              /\ p = Step(p.index) /\ p.index \in 1 .. Len(points) - 1
           /\ \A p, q \in peaks : p.index = q.index => p = q
<1>1. CASE stage \in {"denoise", "derive"}
    BY <1>1 DEF Derived
<1>2. CASE stage \notin {"denoise", "derive"}
    <2>1. points = [i \in DOMAIN raw |-> Median(Bucket(i))]
        BY <1>2 DEF Filtered
    <2>2. \A p \in peaks : \E i \in 1 .. Len(points) - 1 : p = Step(i)
        BY <1>2 DEF Derived
    <2> QED
        BY <2>1, <2>2, Steps
<1> QED
    BY <1>1, <1>2
----------------------------------------------------------------------------
(* The steps of the pipeline.                                              *)

LEMMA InitIInv == Init => IInv
BY DEF Init, IInv, TypeInv, Filtered, Derived, Classified, Advancing, Covered, Kept, NoPeak

LEMMA DenoiseKeeps ==
    ASSUME IInv, Denoise
    PROVE  IInv'
<1>1. Filtered'
    BY DEF Denoise, Filtered, Bucket, Half
<1> QED
    BY <1>1 DEF IInv, Denoise, TypeInv, Derived, Classified, Advancing, Covered, Kept, InReach

LEMMA DeriveKeeps ==
    ASSUME IInv, DerivativePeaks
    PROVE  IInv'
<1>1. TypeInv' /\ Filtered' /\ Classified'
    BY DEF IInv, DerivativePeaks, TypeInv, Filtered, Bucket, Half, Classified
<1>2. Derived'
    BY DEF IInv, DerivativePeaks, Derived, Step
<1>3. rest' = peaks' /\ current' = NoPeak /\ merged' = {}
    <2>1. peaks = {} /\ current \in peaks \cup {NoPeak} /\ merged \subseteq peaks
        BY DEF IInv, Derived, DerivativePeaks, Advancing
    <2> QED
        BY <2>1 DEF DerivativePeaks
<1>4. Advancing' /\ Covered'
    BY <1>3 DEF Advancing, Covered
<1> QED
    BY <1>1, <1>2, <1>4 DEF IInv

LEMMA BoundKeeps ==
    ASSUME IInv, Bound
    PROVE  IInv'
<1>1. TypeInv' /\ Filtered' /\ Derived'
    BY DEF IInv, Bound, TypeInv, Filtered, Bucket, Half, Derived, Step
<1>2. Classified'
    <2>1. UNCHANGED <<points, params, current, merged>>
        BY DEF Bound
    <2>2. Kept' = Kept /\ NoiseFloor' = NoiseFloor
        BY <2>1 DEF Kept, NoiseFloor
    <2>3. \A p : EventType(p)' = EventType(p) /\ ValidRouteDistance(p)' = ValidRouteDistance(p)
        BY <2>1 DEF EventType, ValidRouteDistance
    <2>4. \A p : ClassifyPeak(p)' = ClassifyPeak(p)
        BY <2>1, <2>2, <2>3 DEF ClassifyPeak
    <2>5. events' = {ClassifyPeak(peak) : peak \in {p \in Kept : ValidRouteDistance(p)}} /\ rest' = {}
        BY DEF Bound
    <2> QED
        BY <2>2, <2>3, <2>4, <2>5 DEF Classified
<1>3. Advancing' /\ Covered'
    BY DEF IInv, Bound, Advancing, Covered, Kept, InReach
<1> QED
    BY <1>1, <1>2, <1>3 DEF IInv

LEMMA MergeKeeps ==
    ASSUME IInv, NEW peak \in rest, Merge(peak)
    PROVE  IInv'
<1>1. TypeInv' /\ Filtered' /\ Derived' /\ Classified'
    BY DEF IInv, Merge, TypeInv, Filtered, Bucket, Half, Derived, Step, Classified
<1>2. /\ rest' = rest \ {peak} /\ peaks' = peaks /\ params' = params
      /\ peak \in peaks /\ peak # NoPeak
    BY Peaks DEF IInv, Merge, Advancing
<1>3. \A p, q \in peaks : InReach(p, q)' = InReach(p, q)
    BY <1>2 DEF InReach
<1>4. \A p \in rest' : peak.index < p.index
    <2> TAKE p \in rest'
    <2>1. p \in rest /\ p \in peaks /\ p # peak /\ peak.index <= p.index
        BY <1>2 DEF IInv, Merge, First, Advancing
    <2>2. p.index # peak.index /\ p.index \in Nat /\ peak.index \in Nat
        BY <1>2, <2>1, Peaks DEF IInv
    <2> QED
        BY <2>1, <2>2
<1>5. /\ params.merge \in Nat \ {0} /\ \A p \in peaks : p.index \in Nat /\ p.magnitude \in Nat
    BY Params, Peaks DEF IInv
<1>6. current # NoPeak => current \in peaks /\ current.index < peak.index
    BY DEF IInv, Advancing
<1>7. \A p, q \in peaks : InReach(p, q) <=> InReach(q, p)
    BY <1>5 DEF InReach, Abs
<1>8. CASE Near(peak) /\ current' = current /\ merged' = merged /\ peak.magnitude <= current.magnitude
    <2>1. current # NoPeak /\ peak.index - current.index <= params.merge
        BY <1>8 DEF Near
    <2>2. InReach(peak, current)
        BY <1>2, <1>5, <1>6, <2>1 DEF InReach, Abs
    <2>3. Kept' = Kept
        BY <1>8 DEF Kept
    <2>4. Advancing'
        BY <1>2, <1>3, <1>8, <2>1 DEF IInv, Advancing
    <2>5. current \in peaks \ {peak}
        BY <1>2, <1>5, <1>6, <2>1
    <2>6. Covered'
        BY <1>2, <1>3, <1>8, <2>2, <2>3, <2>5 DEF IInv, Covered
    <2> QED
        BY <1>1, <2>4, <2>6 DEF IInv
<1>9. CASE Near(peak) /\ current' = peak /\ merged' = merged /\ peak.magnitude > current.magnitude
    <2>1. current # NoPeak /\ peak.index - current.index <= params.merge
        BY <1>9 DEF Near
    <2>2. InReach(current, peak) /\ peak.magnitude >= current.magnitude
        BY <1>2, <1>5, <1>6, <1>9, <2>1 DEF InReach, Abs
    <2>3. \A p \in merged : p \in peaks /\ p.index + params.merge < peak.index
        <3> TAKE p \in merged
        <3>1. p \in peaks /\ p.index + params.merge < current.index /\ current.index < peak.index
            BY <1>6, <2>1 DEF IInv, Advancing
        <3> QED
            BY <1>2, <1>5, <1>6, <2>1, <3>1
    <2>4. Advancing'
        BY <1>2, <1>3, <1>4, <1>9, <2>3 DEF IInv, Advancing
    <2>5. \A p \in Kept : p \in Kept' \/ p = current
        BY <1>2, <1>9 DEF Kept
    <2>6. peak \in peaks \ {current} /\ peak \in Kept'
        BY <1>2, <1>5, <1>6, <1>9, <2>1 DEF Kept
    <2>7. Covered'
        BY <1>2, <1>3, <1>9, <2>2, <2>5, <2>6 DEF IInv, Covered
    <2> QED
        BY <1>1, <2>4, <2>7 DEF IInv
<1>10. CASE ~ Near(peak) /\ current' = peak /\ merged' = merged \cup ({current} \ {NoPeak})
    <2>1. current # NoPeak => current.index + params.merge < peak.index
        <3>1. current # NoPeak => ~ (peak.index - current.index <= params.merge)
            BY <1>10 DEF Near
        <3> QED
            BY <1>2, <1>5, <1>6, <3>1
    <2>2. \A p \in merged' : p \in peaks /\ p.index + params.merge < peak.index
        <3> TAKE p \in merged'
        <3>1. CASE p = current /\ current # NoPeak
            BY <1>6, <2>1, <3>1
        <3>2. CASE p \in merged
            <4>1. p \in peaks /\ current # NoPeak /\ p.index + params.merge < current.index
                BY <3>2 DEF IInv, Advancing
            <4> QED
                BY <1>2, <1>5, <1>6, <4>1
        <3> QED
            BY <1>10, <3>1, <3>2
    <2>3. \A p \in merged, q \in {current} \ {NoPeak} : ~ InReach(p, q)
        <3> TAKE p \in merged, q \in {current} \ {NoPeak}
        <3>1. p \in peaks /\ q \in peaks /\ p.index + params.merge < q.index
            BY <1>6 DEF IInv, Advancing
        <3> QED
            BY <1>5, <3>1 DEF InReach, Abs
    <2>4. ASSUME NEW p \in merged', NEW q \in merged', p # q PROVE ~ InReach(p, q)
        <3>1. p \in peaks /\ q \in peaks
            BY <2>2
        <3>2. CASE p \in merged /\ q \in merged
            BY <2>4, <3>2 DEF IInv, Advancing
        <3>3. CASE p \in merged /\ q \in {current} \ {NoPeak}
            BY <2>3, <3>3
        <3>4. CASE q \in merged /\ p \in {current} \ {NoPeak}
            BY <1>7, <2>3, <3>1, <3>4
        <3> QED
            BY <1>10, <2>4, <3>2, <3>3, <3>4
    <2>5. Advancing'
        BY <1>2, <1>3, <1>4, <1>10, <2>2, <2>4 DEF IInv, Advancing
    <2>6. Kept \subseteq Kept' /\ peak \in Kept'
        BY <1>2, <1>10 DEF Kept
    <2>7. Covered'
        BY <1>2, <1>3, <1>10, <2>6 DEF IInv, Covered
    <2> QED
        BY <1>1, <2>5, <2>7 DEF IInv
<1>11. Near(peak) => current \in peaks
    BY <1>6 DEF Near
<1> QED
    BY <1>2, <1>5, <1>8, <1>9, <1>10, <1>11 DEF Merge

\* The invariant of every reachable state.
THEOREM Invariance == Spec => []IInv
<1>1. IInv /\ UNCHANGED vars => IInv'
    BY DEF IInv, vars, TypeInv, Filtered, Bucket, Half, Derived, Step, Classified, ClassifyPeak, EventType,
           NoiseFloor, ValidRouteDistance, Advancing, Covered, Kept, InReach
<1>2. IInv /\ [Next]_vars => IInv'
    BY <1>1, DenoiseKeeps, DeriveKeeps, MergeKeeps, BoundKeeps DEF Next
<1> QED
    BY InitIInv, <1>2, PTL DEF Spec
----------------------------------------------------------------------------
(* What merging keeps.                                                     *)

\* Whatever the peaks, their heights and the merge window: two kept peaks are never within the
\* window of each other (MergePeaks).
THEOREM Apart == Spec => []KeptApart
<1>1. ASSUME IInv PROVE KeptApart
    <2>1. ASSUME NEW p \in Kept, NEW q \in Kept, p # q PROVE ~ InReach(p, q)
        <3>1. CASE p \in merged /\ q \in merged
            BY <1>1, <2>1, <3>1 DEF IInv, Advancing
        <3>2. /\ params.merge \in Nat \ {0} /\ \A r \in peaks : r.index \in Nat
              /\ merged \subseteq peaks /\ current \in peaks \cup {NoPeak}
            BY <1>1, Params, Peaks DEF IInv, Advancing
        <3>3. \A r \in merged : current # NoPeak => r.index + params.merge < current.index
            BY <1>1 DEF IInv, Advancing
        <3>4. CASE p \in merged /\ q = current /\ current # NoPeak
            BY <3>2, <3>3, <3>4 DEF InReach, Abs
        <3>5. CASE q \in merged /\ p = current /\ current # NoPeak
            BY <3>2, <3>3, <3>5 DEF InReach, Abs
        <3> QED
            BY <2>1, <3>1, <3>4, <3>5 DEF Kept
    <2> QED
        BY <2>1 DEF KeptApart
<1> QED
    BY <1>1, Invariance, PTL

\* No peak vanishes for nothing: one that MergePeaks drops has another at least as large within
\* the merge window.
THEOREM DroppedForLarger == Spec => []DroppedBesideLarger
<1>1. IInv => DroppedBesideLarger
    BY DEF IInv, Classified, Covered, DroppedBesideLarger, Done
<1> QED
    BY <1>1, Invariance, PTL
----------------------------------------------------------------------------
(* What filtering does to a step and to a spike.                           *)

\* A level that fills more than half of a bucket without a gap is its median.
LEMMA LongRun ==
    ASSUME TypeInv, NEW i \in DOMAIN raw, NEW v \in Int, NEW x \in From(i) .. To(i), NEW y \in x .. To(i),
           \A j \in x .. y : raw[j] = v, 2 * (y - x + 1) > To(i) - From(i) + 1
    PROVE  Median(Bucket(i)) = v
<1> DEFINE b == Bucket(i)
           a == From(i)
           z == To(i)
           first == x - a + 1
           last == y - a + 1
<1>1. a \in Nat /\ z \in Nat /\ a >= 1
    BY Buckets
<1>2. /\ b \in Seq(Int) /\ Len(b) = z - a + 1 /\ Len(b) >= 1 /\ DOMAIN b = 1 .. z - a + 1
      /\ \A k \in 1 .. z - a + 1 : b[k] = raw[a + k - 1]
    BY Buckets
<1>3. x \in a .. z /\ y \in x .. z /\ 2 * (y - x + 1) > z - a + 1
    OBVIOUS
<1> HIDE DEF b, a, z
<1>4. x \in Int /\ y \in Int
    BY <1>1, <1>3
<1>5. /\ first \in Int /\ last \in Int /\ first <= last /\ first >= 1 /\ last <= z - a + 1
      /\ last - first + 1 = y - x + 1
    BY <1>1, <1>3, <1>4
<1>6. ASSUME NEW k \in first .. last PROVE k \in DOMAIN b /\ b[k] = v
    <2>1. k \in 1 .. z - a + 1 /\ a + k - 1 \in x .. y
        BY <1>1, <1>3, <1>4, <1>5
    <2> QED
        BY <1>2, <2>1
<1> HIDE DEF first, last
<1>7. first .. last \in SUBSET Equal(b, v) /\ Equal(b, v) \in SUBSET DOMAIN b
    BY <1>6 DEF Equal
<1>8. Cardinality(first .. last) = y - x + 1
    <2>1. Cardinality(first .. last) = IF first > last THEN 0 ELSE last - first + 1
        BY <1>5, FS_Interval
    <2> QED
        BY <1>5, <2>1
<1>9. Cardinality(first .. last) \in 0 .. Cardinality(Equal(b, v)) /\ Cardinality(Equal(b, v)) \in Nat
    <2> DEFINE E == Equal(b, v)
    <2>1. E \in SUBSET DOMAIN b /\ first .. last \in SUBSET E
        BY <1>7
    <2> HIDE DEF E
    <2>2. Cardinality(E) \in 0 .. Len(b) /\ \A U \in SUBSET E : Cardinality(U) \in 0 .. Cardinality(E)
        BY <1>2, <2>1, Places
    <2>3. Cardinality(E) \in Nat
        <3>1. Len(b) \in Nat
            BY <1>2
        <3> QED
            BY <2>2, <3>1
    <2>4. Cardinality(first .. last) \in 0 .. Cardinality(E)
        BY <2>1, <2>2
    <2> QED
        BY <2>3, <2>4 DEF E
<1>10. 2 * Cardinality(Equal(b, v)) > Len(b)
    <2> DEFINE e == Cardinality(Equal(b, v))
    <2>1. e \in Nat /\ y - x + 1 <= e
        BY <1>8, <1>9
    <2> HIDE DEF e
    <2>2. 2 * e > Len(b)
        BY <1>1, <1>2, <1>3, <1>4, <2>1
    <2> QED
        BY <2>2 DEF e
<1> QED
    BY <1>2, <1>10, Majority DEF b

\* Of three samples and more the median does not notice one.
LEMMA Outlier ==
    ASSUME TypeInv, NEW i \in DOMAIN raw, NEW v \in Int, NEW j \in From(i) .. To(i),
           \A k \in (From(i) .. To(i)) \ {j} : raw[k] = v, To(i) - From(i) + 1 >= 3
    PROVE  Median(Bucket(i)) = v
<1> DEFINE b == Bucket(i)
           a == From(i)
           z == To(i)
           odd == j - a + 1
<1>1. a \in Nat /\ z \in Nat /\ a >= 1
    BY Buckets
<1>2. /\ b \in Seq(Int) /\ Len(b) = z - a + 1 /\ Len(b) >= 1 /\ DOMAIN b = 1 .. z - a + 1
      /\ \A k \in 1 .. z - a + 1 : b[k] = raw[a + k - 1]
    BY Buckets
<1>3. j \in a .. z /\ (\A k \in (a .. z) \ {j} : raw[k] = v) /\ z - a + 1 >= 3
    OBVIOUS
<1> HIDE DEF b, a, z
<1>4. ASSUME NEW k \in DOMAIN b, k # odd PROVE b[k] = v
    <2>1. k \in 1 .. z - a + 1 /\ a + k - 1 \in (a .. z) \ {j}
        <3>1. k \in 1 .. z - a + 1
            BY <1>2
        <3>2. a + k - 1 \in a .. z
            BY <1>1, <3>1
        <3>3. a + k - 1 # j
            <4>1. k # j - a + 1
                BY <1>4 DEF odd
            <4> QED
                BY <1>1, <1>3, <3>1, <4>1
        <3> QED
            BY <3>1, <3>2, <3>3
    <2> QED
        BY <1>2, <1>3, <2>1
<1> HIDE DEF odd
<1> DEFINE T == DOMAIN b \ {odd}
<1>5. T \in SUBSET Equal(b, v) /\ Equal(b, v) \in SUBSET DOMAIN b
    BY <1>4 DEF Equal
<1>6. Cardinality(T) = IF odd \in DOMAIN b THEN Len(b) - 1 ELSE Len(b)
    <2>1. IsFiniteSet(DOMAIN b) /\ Cardinality(DOMAIN b) = Len(b)
        BY <1>2, Places
    <2> QED
        BY <2>1, FS_RemoveElement
<1>7. Cardinality(T) \in 0 .. Cardinality(Equal(b, v)) /\ Cardinality(Equal(b, v)) \in Nat
    BY <1>2, <1>5, Places
<1> HIDE DEF T
<1>8. 2 * Cardinality(Equal(b, v)) > Len(b)
    <2> DEFINE e == Cardinality(Equal(b, v))
               t == Cardinality(T)
    <2>1. e \in Nat /\ t \in 0 .. e /\ t >= Len(b) - 1
        <3>1. Len(b) \in Nat
            BY <1>2
        <3> QED
            BY <1>6, <1>7, <3>1
    <2> HIDE DEF e, t
    <2>2. 2 * e > Len(b)
        BY <1>1, <1>2, <1>3, <2>1
    <2> QED
        BY <2>2 DEF e
<1> QED
    BY <1>2, <1>8, Majority DEF b

\* A step further from the ends than half a window stays what it is.
LEMMA StepUnmoved ==
    ASSUME TypeInv, NEW s \in Half + 1 .. Len(raw) - Half - 1, StepAt(s), NEW i \in DOMAIN raw
    PROVE  Median(Bucket(i)) = raw[i]
<1>1. /\ Half \in 0 .. 15 /\ Len(raw) \in Nat /\ Len(raw) >= 16 /\ DOMAIN raw = 1 .. Len(raw)
      /\ \A k \in 1 .. Len(raw) : raw[k] \in Int
    BY Params
<1>2. From(i) \in 1 .. i /\ To(i) \in i .. Len(raw)
    BY Buckets
<1> DEFINE h == Half
           n == Len(raw)
           a == From(i)
           z == To(i)
           x == IF a < s + 1 THEN s + 1 ELSE a
           y == IF s < z THEN s ELSE z
<1>3. a = (IF i - h < 1 THEN 1 ELSE i - h) /\ z = (IF i + h > n THEN n ELSE i + h)
    BY DEF From, To
<1>4. /\ h \in Nat /\ n \in Nat /\ n >= 16 /\ i \in 1 .. n /\ a \in 1 .. i /\ z \in i .. n
      /\ s \in h + 1 .. n - h - 1
    BY <1>1, <1>2
<1>5. /\ \A k \in 1 .. s : raw[k] = raw[1]
      /\ \A k \in s + 1 .. n : raw[k] = raw[n]
    BY DEF StepAt
<1> HIDE DEF h, n, a, z
<1>6. s \in Nat /\ a \in Nat /\ z \in Nat
    BY <1>4
<1>7. CASE i <= s
    <2>1. y \in a .. z /\ y \in Nat /\ y <= s /\ 2 * (y - a + 1) > z - a + 1
        <3>1. i \in Nat /\ i <= s /\ h < s /\ 1 <= a /\ a <= i /\ i <= z
            BY <1>4, <1>6, <1>7
        <3>2. z <= s + h /\ z <= i + h /\ (a = 1 \/ a = i - h)
            BY <1>3, <1>4, <1>6, <3>1
        <3>3. CASE s < z
            BY <1>4, <1>6, <3>1, <3>2, <3>3
        <3>4. CASE ~ (s < z)
            BY <1>4, <1>6, <3>1, <3>2, <3>4
        <3> QED
            BY <3>3, <3>4
    <2>2. a \in a .. z /\ a >= 1
        BY <1>4, <1>6, <2>1
    <2> HIDE DEF y
    <2>3. \A k \in a .. y : raw[k] = raw[1]
        BY <1>4, <1>5, <1>6, <2>1, <2>2
    <2>4. raw[1] \in Int /\ raw[i] = raw[1]
        BY <1>1, <1>4, <1>5, <1>7
    <2> QED
        BY <2>1, <2>2, <2>3, <2>4, LongRun DEF a, z
<1>8. CASE i > s
    <2>1. x \in a .. z /\ x \in Nat /\ x >= s + 1 /\ 2 * (z - x + 1) > z - a + 1
        <3>1. i \in Nat /\ i >= s + 1 /\ s + h + 1 <= n /\ a <= i /\ i <= z
            BY <1>4, <1>6, <1>8
        <3>2. a + h >= s + 1 /\ z >= s + h + 1
            BY <1>3, <1>4, <1>6, <3>1
        <3>3. CASE a < s + 1
            BY <1>4, <1>6, <3>1, <3>2, <3>3
        <3>4. CASE ~ (a < s + 1)
            BY <1>4, <1>6, <3>1, <3>2, <3>4
        <3> QED
            BY <3>3, <3>4
    <2>2. z \in x .. z /\ z <= n
        BY <1>4, <1>6, <2>1
    <2> HIDE DEF x
    <2>3. \A k \in x .. z : raw[k] = raw[n]
        BY <1>4, <1>5, <1>6, <2>1, <2>2
    <2>4. raw[n] \in Int /\ raw[i] = raw[n]
        BY <1>1, <1>4, <1>5, <1>8 DEF n
    <2> QED
        BY <2>1, <2>2, <2>3, <2>4, LongRun DEF a, z
<1> QED
    BY <1>4, <1>6, <1>7, <1>8

\* A window that is cut at neither end is wider than a sample.
LEMMA Width ==
    ASSUME NEW i \in Int, NEW h \in Int, h >= 1
    PROVE  (i + h) - (i - h) + 1 >= 3
OBVIOUS

\* A spike further from the ends than half a window is gone, if there is a window.
LEMMA SpikeFlattened ==
    ASSUME TypeInv, Half > 0, NEW j \in Half + 2 .. Len(raw) - Half - 1,
           \A i \in DOMAIN raw \ {j} : raw[i] = raw[1], NEW i \in DOMAIN raw
    PROVE  Median(Bucket(i)) = raw[1]
<1>1. /\ Half \in 0 .. 15 /\ Len(raw) \in Nat /\ Len(raw) >= 16 /\ DOMAIN raw = 1 .. Len(raw)
      /\ \A k \in 1 .. Len(raw) : raw[k] \in Int
    BY Params
<1>2. From(i) \in 1 .. i /\ To(i) \in i .. Len(raw)
    BY Buckets
<1> DEFINE h == Half
           n == Len(raw)
           a == From(i)
           z == To(i)
<1>3. a = (IF i - h < 1 THEN 1 ELSE i - h) /\ z = (IF i + h > n THEN n ELSE i + h)
    BY DEF From, To
<1>4. /\ h \in Nat \ {0} /\ n \in Nat /\ n >= 16 /\ i \in 1 .. n /\ a \in 1 .. i /\ z \in i .. n
      /\ j \in h + 2 .. n - h - 1
    BY <1>1, <1>2
<1>5. raw[1] \in Int /\ \A k \in (1 .. n) \ {j} : raw[k] = raw[1]
    <2>1. raw[1] \in Int
        BY <1>1
    <2>2. DOMAIN raw = 1 .. n
        BY <1>1
    <2> QED
        BY <2>1, <2>2
<1> HIDE DEF h, n, a, z
<1>6. j \in Nat /\ a \in Nat /\ z \in Nat /\ a >= 1 /\ z <= n /\ a <= z
    BY <1>4
<1>7. CASE j \in a .. z
    <2>1. z - a + 1 >= 3
        <3>1. j \in Nat /\ a <= j /\ j <= z /\ h >= 1 /\ j >= h + 2 /\ j + h + 1 <= n
            BY <1>4, <1>6, <1>7
        <3>2. CASE i - h < 1
            BY <1>3, <1>4, <1>6, <3>1, <3>2
        <3>3. CASE ~ (i - h < 1) /\ i + h > n
            BY <1>3, <1>4, <1>6, <3>1, <3>3
        <3>4. CASE ~ (i - h < 1) /\ ~ (i + h > n)
            <4>1. i \in Int /\ h \in Int /\ h >= 1
                BY <1>4
            <4>2. a = i - h /\ z = i + h
                BY <1>3, <3>4
            <4> QED
                BY <4>1, <4>2, Width
        <3> QED
            BY <3>2, <3>3, <3>4
    <2>2. \A k \in (a .. z) \ {j} : raw[k] = raw[1]
        BY <1>4, <1>5, <1>6
    <2> QED
        BY <1>5, <1>7, <2>1, <2>2, Outlier DEF a, z
<1>8. CASE j \notin a .. z
    <2>1. \A k \in a .. z : raw[k] = raw[1]
        BY <1>4, <1>5, <1>6, <1>8
    <2>2. a \in a .. z /\ z \in a .. z /\ 2 * (z - a + 1) > z - a + 1
        BY <1>6
    <2> QED
        BY <1>5, <2>1, <2>2, LongRun DEF a, z
<1> QED
    BY <1>7, <1>8

\* A disturbed sample is no event (MovingMedian before DerivativePeaks), whatever it and its
\* neighbours are, if the window is more than one sample and the sample is not at an end.
THEOREM SpikesAreIgnored == Spec => []SpikeIgnored
<1>1. ASSUME IInv, Done, Half > 0, NEW j \in Half + 2 .. Len(raw) - Half - 1,
             \A i \in DOMAIN raw \ {j} : raw[i] = raw[1]
      PROVE  events = {}
    <2>1. TypeInv /\ points = [i \in DOMAIN raw |-> Median(Bucket(i))]
        BY <1>1 DEF IInv, Filtered, Done
    <2>2. \A i \in 1 .. Len(raw) : points[i] = raw[1]
        BY <1>1, <2>1, SpikeFlattened, Points, Params
    <2>3. /\ Len(points) = Len(raw) /\ Len(raw) \in Nat /\ Len(raw) >= 16 /\ raw[1] \in Int
          /\ params.threshold \in Nat \ {0}
        BY <2>1, Points, Params
    <2>4. \A i \in 1 .. Len(points) - 1 : Step(i).magnitude = 0
        <3> TAKE i \in 1 .. Len(points) - 1
        <3>1. points[i] = raw[1] /\ points[i + 1] = raw[1]
            BY <2>2, <2>3
        <3> QED
            BY <2>3, <3>1 DEF Step, Abs
    <2>5. peaks = {}
        BY <1>1, <2>3, <2>4 DEF IInv, Derived, Done
    <2>6. Kept = {}
        BY <1>1, <2>5 DEF IInv, Advancing, Kept
    <2> QED
        BY <1>1, <2>6 DEF IInv, Classified, Done
<1>2. IInv => SpikeIgnored
    BY <1>1 DEF SpikeIgnored
<1> QED
    BY <1>2, Invariance, PTL

\* The events of a clean step are those it stands for: MovingMedian leaves it where it is,
\* DerivativePeaks finds it and nothing else, MergePeaks keeps it, and ClassifyPeak gives it the
\* kind, the loss and the reflectance that the recorded samples tell.
LEMMA StepClassified ==
    ASSUME TypeInv, points = raw, NEW s \in 1 .. Len(raw) - 1, StepAt(s)
    PROVE  ClassifyPeak(Step(s)) = StepEvent(s) /\ Step(s).magnitude >= params.threshold
<1> DEFINE p == Step(s)
           d == raw[Len(raw)] - raw[1]
           t == params.threshold
           n == Len(raw)
<1>1. /\ n \in Nat /\ n >= 16 /\ t \in Nat \ {0} /\ s \in Nat
      /\ raw[1] \in Int /\ raw[n] \in Int /\ d \in Int
    BY Params
<1>2. points[s] = raw[1] /\ points[s + 1] = raw[n] /\ Len(points) = n
    BY <1>1 DEF StepAt
<1>3. p = [index |-> s, magnitude |-> Abs(d), direction |-> IF d < 0 THEN -1 ELSE 1]
    BY <1>2 DEF Step
<1>4. Abs(d) >= t
    BY DEF StepAt
<1>5. Abs(d) = IF d < 0 THEN -d ELSE d
    BY DEF Abs
<1>6. p.index = s /\ p.magnitude = Abs(d) /\ p.direction = (IF d < 0 THEN -1 ELSE 1)
    BY <1>3
<1>7. NoiseFloor = Median(SubSeq(raw, (Len(raw) * 4) \div 5 + 1, Len(raw)))
    BY DEF NoiseFloor
<1>8. StepEvent(s) =
        [ index |-> s,
          type |-> IF s >= n - 3 THEN "end"
                   ELSE IF 2 * d >= 3 * t THEN "connector"
                   ELSE IF d > 0 \/ 2 * d \in -5 * t + 1 .. -3 * t THEN "splice"
                   ELSE IF 2 * d <= -5 * t THEN "break"
                   ELSE "bend",
          loss |-> IF d < 0 THEN -d ELSE 0,
          reflectance |-> Least(raw[1], raw[n]) - NoiseFloor ]
    BY <1>7 DEF StepEvent
<1>9. EventType(p) =
        IF s >= n - 3 THEN "end"
        ELSE IF p.direction < 0 /\ 2 * Abs(d) < 3 * t THEN "bend"
        ELSE IF p.direction < 0 /\ 2 * Abs(d) >= 5 * t THEN "break"
        ELSE IF p.direction > 0 /\ 2 * Abs(d) >= 3 * t THEN "connector"
        ELSE "splice"
    BY <1>2, <1>6 DEF EventType
<1>10. ClassifyPeak(p) =
        [ index |-> s, type |-> EventType(p),
          loss |-> IF raw[1] > raw[n] THEN raw[1] - raw[n] ELSE 0,
          reflectance |-> Least(raw[1], raw[n]) - NoiseFloor ]
    BY <1>2, <1>6 DEF ClassifyPeak
<1>11. (IF raw[1] > raw[n] THEN raw[1] - raw[n] ELSE 0) = IF d < 0 THEN -d ELSE 0
    BY <1>1
<1>12. d < 0 => p.direction = -1
    BY <1>6
<1>13. ~ (d < 0) => p.direction = 1
    BY <1>6
<1> HIDE DEF p, d, t, n
<1>14. EventType(p) =
        IF s >= n - 3 THEN "end"
        ELSE IF 2 * d >= 3 * t THEN "connector"
        ELSE IF d > 0 \/ 2 * d \in -5 * t + 1 .. -3 * t THEN "splice"
        ELSE IF 2 * d <= -5 * t THEN "break"
        ELSE "bend"
    <2>1. CASE d < 0
        BY <1>1, <1>4, <1>5, <1>9, <1>12, <2>1
    <2>2. CASE ~ (d < 0)
        BY <1>1, <1>4, <1>5, <1>9, <1>13, <2>2
    <2> QED
        BY <2>1, <2>2
<1>15. ClassifyPeak(p) = StepEvent(s)
    BY <1>8, <1>10, <1>11, <1>14
<1> QED
    BY <1>4, <1>6, <1>15 DEF p, t

\* A clean step is found where it is, as what it is, and nothing else is found; it is reported
\* exactly if it lies on the route (Detect).
THEOREM StepsAreFound == Spec => []StepFound
<1>1. ASSUME IInv, Done, NEW s \in Half + 1 .. Len(raw) - Half - 1, StepAt(s)
      PROVE  events = IF s <= params.reach THEN {StepEvent(s)} ELSE {}
    <2>1. TypeInv /\ points = [i \in DOMAIN raw |-> Median(Bucket(i))]
        BY <1>1 DEF IInv, Filtered, Done
    <2>2. /\ raw \in Seq(Int) /\ Len(raw) \in Nat /\ Half \in 0 .. 15 /\ DOMAIN raw = 1 .. Len(raw)
          /\ params.threshold \in Nat \ {0} /\ \A i \in 1 .. Len(raw) : raw[i] \in Int
        BY <2>1, Params
    <2>3. points = raw
        <3>1. \A i \in DOMAIN raw : Median(Bucket(i)) = raw[i]
            BY <1>1, <2>1, StepUnmoved
        <3>2. points = [i \in DOMAIN raw |-> raw[i]]
            BY <2>1, <3>1
        <3> QED
            BY <2>2, <3>2
    <2>4. s \in 1 .. Len(raw) - 1
        BY <2>2
    <2>5. Step(s).index = s /\ ClassifyPeak(Step(s)) = StepEvent(s) /\ Step(s).magnitude >= params.threshold
        BY <1>1, <2>1, <2>3, <2>4, StepClassified DEF Step
    <2>6. \A i \in 1 .. Len(points) - 1 : i # s => Step(i).magnitude = 0
        <3> SUFFICES ASSUME NEW i \in 1 .. Len(points) - 1, i # s PROVE Step(i).magnitude = 0
            OBVIOUS
        <3>1. points[i] = points[i + 1] /\ points[i] \in Int
            BY <1>1, <2>2, <2>3, <2>4 DEF StepAt
        <3> QED
            BY <3>1 DEF Step, Abs
    <2>7. peaks = {Step(s)}
        <3>1. peaks = {step \in {Step(i) : i \in 1 .. Len(points) - 1} :
                          step.magnitude >= params.threshold}
            BY <1>1 DEF IInv, Derived, Done
        <3>2. ~ (0 >= params.threshold) /\ s \in 1 .. Len(points) - 1
            BY <2>2, <2>3, <2>4
        <3>3. \A i \in 1 .. Len(points) - 1 : Step(i).magnitude >= params.threshold <=> i = s
            BY <2>5, <2>6, <3>2
        <3> QED
            BY <3>1, <3>2, <3>3
    <2>8. Kept = {Step(s)}
        <3>1. rest = {}
            BY <1>1 DEF IInv, Classified, Done
        <3>2. Step(s) \in Kept
            BY <1>1, <2>7, <3>1 DEF IInv, Covered
        <3> QED
            BY <1>1, <2>7, <3>2 DEF IInv, Advancing, Kept
    <2>9. ValidRouteDistance(Step(s)) <=> s <= params.reach
        BY <2>5 DEF ValidRouteDistance
    <2>10. events = {ClassifyPeak(peak) : peak \in {p \in Kept : ValidRouteDistance(p)}}
        BY <1>1 DEF IInv, Classified, Done
    <2> QED
        BY <2>5, <2>8, <2>9, <2>10
<1>2. IInv => StepFound
    BY <1>1 DEF StepFound
<1> QED
    BY <1>2, Invariance, PTL
=============================================================================
