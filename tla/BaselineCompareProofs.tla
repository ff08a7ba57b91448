------------------------ MODULE BaselineCompareProofs ------------------------
(***************************************************************************)
(* Theorems about BaselineCompare, for all lists of events, tolerances and *)
(* thresholds: what the greedy matching finds, and what the one pass over  *)
(* it prefers.                                                             *)
(***************************************************************************)
EXTENDS BaselineCompare, WellFoundedInduction, TLAPS

TypeInv ==
    /\ baseline \in EventLists /\ current \in EventLists
    /\ next \in 1 .. Len(baseline) + 2
    /\ match \in [DOMAIN baseline -> DOMAIN current \cup {NoMatch}]

\* What the events matched so far look like.
Partners ==
    /\ \A i \in DOMAIN baseline : i >= next => match[i] = NoMatch
    /\ \A i \in DOMAIN baseline : match[i] # NoMatch => Delta(i, match[i]) <= Tolerance
    /\ \A i, k \in DOMAIN baseline : i # k /\ match[i] # NoMatch => match[i] # match[k]

\* A baseline event was given up when everything near it was taken.
Leftover ==
    \A i \in DOMAIN baseline, j \in DOMAIN current :
        i < next /\ match[i] = NoMatch /\ j \notin Used => Delta(i, j) > Tolerance

\* Of two equal lists each event is matched with its own copy.
Copies == baseline = current => \A i \in DOMAIN baseline : i < next => match[i] = i

\* The differences that follow from the partners.
Grown(i) == match[i] # NoMatch /\ current[match[i]].loss - baseline[i].loss >= LossIncrease
Gone == {[kind |-> "disappeared", baseline |-> i, current |-> NoMatch] :
            i \in {k \in DOMAIN baseline : k < next /\ match[k] = NoMatch}}
Worse == {[kind |-> "loss_increased", baseline |-> i, current |-> match[i]] :
             i \in {k \in DOMAIN baseline : Grown(k)}}
Fresh == {[kind |-> "new", baseline |-> NoMatch, current |-> j] : j \in DOMAIN current \ Used}
Found == differences = Gone \cup Worse \cup (IF Compared THEN Fresh ELSE {})

\* FaultJustified, of those differences that have been looked at.
Increase(d) == d.kind = "loss_increased"
DisplacedIn(S, b, d) ==
    \E lead, loss \in S :
        /\ ~ Increase(lead) /\ Increase(loss)
        /\ Confidence(lead) >= Confidence(d) /\ Confidence(loss) <= Confidence(b)
        /\ ~ Before(lead, d) /\ Before(lead, loss) /\ ~ Before(b, loss)
JustifiedIn(S, b) ==
    \A d \in S :
        IF Before(d, b)
        THEN Confidence(d) < Confidence(b) \/ DisplacedIn(S, b, d)
        ELSE Confidence(d) <= Confidence(b) /\ (Increase(d) => Increase(b))

\* Those stand before all others in the list.
Seen == differences \ unseen
Chosen ==
    /\ unseen \subseteq differences
    /\ ~ Compared => unseen = {} /\ best = Nothing
    /\ Compared =>
         /\ best = Nothing <=> Seen = {}
         /\ best # Nothing => best \in Seen
         /\ \A d \in Seen, x \in unseen : ~ Before(x, d)
         /\ JustifiedIn(Seen, best)

IInv == TypeInv /\ Partners /\ Leftover /\ Copies /\ Found /\ Chosen
----------------------------------------------------------------------------
(* The operators of the model.                                             *)

LEMMA Least ==
    ASSUME NEW S \in SUBSET Nat, S # {}
    PROVE  \E m \in S : \A k \in S : m <= k
<1>1. PICK m \in S : \A k \in S : ~ (<<k, m>> \in OpToRel(<, Nat))
    BY NatLessThanWellFounded, WFMin
<1>2. \A k \in S : <<k, m>> \in Nat \X Nat
    OBVIOUS
<1>3. \A k \in S : ~ (k < m)
    BY <1>1, <1>2 DEF OpToRel
<1> QED
    BY <1>3

\* Lists of events are sequences, of numbers one can compute with.
LEMMA Lists ==
    ASSUME NEW l \in EventLists
    PROVE  /\ Len(l) \in Nat /\ Len(l) >= 1 /\ DOMAIN l = 1 .. Len(l)
           /\ \A i \in DOMAIN l : l[i].distance \in Int /\ l[i].loss \in Int /\ l[i].confidence \in Nat
<1>1. PICK n \in 1 .. MaxEvents : l \in [1 .. n -> Event]
    BY DEF EventLists
<1>2. n \in Nat /\ n >= 1
    BY <1>1, CompareAssumption
<1>3. DOMAIN l = 1 .. n /\ Len(l) = n
    BY <1>1, <1>2
<1>4. \A e \in Event : e.distance \in Int /\ e.loss \in Int /\ e.confidence \in Nat
    BY CompareAssumption DEF Event
<1> QED
    BY <1>1, <1>2, <1>3, <1>4

LEMMA Deltas ==
    ASSUME TypeInv
    PROVE  /\ \A i \in DOMAIN baseline, j \in DOMAIN current : Delta(i, j) \in Nat
           /\ baseline = current => \A i \in DOMAIN baseline : Delta(i, i) = 0
           /\ baseline = current => \A i \in DOMAIN baseline : current[i].loss - baseline[i].loss = 0
<1>1. /\ \A i \in DOMAIN baseline : baseline[i].distance \in Int /\ baseline[i].loss \in Int
      /\ \A j \in DOMAIN current : current[j].distance \in Int
    BY Lists DEF TypeInv
<1>2. \A i \in DOMAIN baseline, j \in DOMAIN current : Delta(i, j) \in Nat
    <2> TAKE i \in DOMAIN baseline, j \in DOMAIN current
    <2> DEFINE a == baseline[i].distance
               b == current[j].distance
    <2>1. a \in Int /\ b \in Int
        BY <1>1
    <2>2. Delta(i, j) = IF a - b < 0 THEN -(a - b) ELSE a - b
        BY DEF Delta
    <2> HIDE DEF a, b
    <2> QED
        BY <2>1, <2>2
<1>3. ASSUME baseline = current, NEW i \in DOMAIN baseline PROVE Delta(i, i) = 0
    <2> DEFINE a == baseline[i].distance
    <2>1. a \in Int /\ Delta(i, i) = IF a - a < 0 THEN -(a - a) ELSE a - a
        BY <1>1, <1>3 DEF Delta
    <2> HIDE DEF a
    <2> QED
        BY <2>1
<1>4. ASSUME baseline = current, NEW i \in DOMAIN baseline
      PROVE  current[i].loss - baseline[i].loss = 0
    BY <1>1, <1>4
<1> QED
    BY <1>2, <1>3, <1>4

\* There is a nearest candidate as soon as there is a candidate.
LEMMA NearestIs ==
    ASSUME TypeInv, NEW i \in DOMAIN baseline, Candidates(i) # {}
    PROVE  /\ Nearest(i) \in Candidates(i)
           /\ \A k \in Candidates(i) : Delta(i, Nearest(i)) < Delta(i, k)
                  \/ (Delta(i, Nearest(i)) = Delta(i, k) /\ Nearest(i) <= k)
<1> DEFINE C == Candidates(i)
           distances == {Delta(i, j) : j \in C}
<1>1. C \subseteq DOMAIN current /\ DOMAIN current \subseteq Nat
    BY Lists DEF TypeInv, Candidates
<1>2. \A j \in C : Delta(i, j) \in Nat
    BY <1>1, Deltas
<1>3. distances \in SUBSET Nat /\ distances # {}
    BY <1>2
<1>4. PICK m \in distances : \A d \in distances : m <= d
    BY <1>3, Least
<1> DEFINE T == {j \in C : Delta(i, j) = m}
<1>5. T \in SUBSET Nat /\ T # {}
    BY <1>1
<1>6. PICK j \in T : \A k \in T : j <= k
    BY <1>5, Least
<1> HIDE DEF C
<1>7. \A k \in C : Delta(i, j) < Delta(i, k) \/ (Delta(i, j) = Delta(i, k) /\ j <= k)
    <2> TAKE k \in C
    <2>1. Delta(i, j) = m /\ m <= Delta(i, k) /\ Delta(i, k) \in Nat /\ m \in Nat
        BY <1>2, <1>3, <1>4
    <2>2. CASE Delta(i, k) = m
        BY <1>6, <2>1, <2>2
    <2>3. CASE Delta(i, k) # m
        BY <2>1, <2>3
    <2> QED
        BY <2>2, <2>3
<1>8. Nearest(i) = CHOOSE x \in C : \A k \in C :
          Delta(i, x) < Delta(i, k) \/ (Delta(i, x) = Delta(i, k) /\ x <= k)
    BY DEF Nearest, C
<1> QED
    BY <1>6, <1>7, <1>8 DEF C

\* The confidence of a difference that has been found is a number.
LEMMA Confidences ==
    ASSUME TypeInv, NEW d \in Gone \cup Worse \cup Fresh
    PROVE  Confidence(d) \in Int /\ d # Nothing
<1>1. /\ \A i \in DOMAIN baseline : baseline[i].confidence \in Int
      /\ \A j \in DOMAIN current : current[j].confidence \in Int
      /\ \A i \in DOMAIN baseline : match[i] # NoMatch => match[i] \in DOMAIN current
    BY Lists DEF TypeInv
<1>2. CASE d \in Gone
    <2>1. PICK i \in DOMAIN baseline : d = [kind |-> "disappeared", baseline |-> i, current |-> NoMatch]
        BY <1>2 DEF Gone
    <2>2. Confidence(d) = 9 * baseline[i].confidence
        BY <2>1 DEF Confidence
    <2>3. d.kind = "disappeared"
        BY <2>1
    <2> QED
        BY <1>1, <2>2, <2>3 DEF Nothing
<1>3. CASE d \in Worse
    <2>1. PICK i \in DOMAIN baseline :
              match[i] # NoMatch /\ d = [kind |-> "loss_increased", baseline |-> i, current |-> match[i]]
        BY <1>3 DEF Worse, Grown
    <2> DEFINE a == baseline[i].confidence
               b == current[match[i]].confidence
    <2>2. a \in Int /\ b \in Int
        BY <1>1, <2>1
    <2>3. Confidence(d) = 10 * (IF a < b THEN a ELSE b)
        BY <2>1 DEF Confidence
    <2>4. d.kind = "loss_increased"
        BY <2>1
    <2> HIDE DEF a, b
    <2> QED
        BY <2>2, <2>3, <2>4 DEF Nothing
<1>4. CASE d \in Fresh
    <2>1. PICK j \in DOMAIN current : d = [kind |-> "new", baseline |-> NoMatch, current |-> j]
        BY <1>4 DEF Fresh
    <2>2. Confidence(d) = 10 * current[j].confidence
        BY <2>1 DEF Confidence
    <2>3. d.kind = "new"
        BY <2>1
    <2> QED
        BY <1>1, <2>2, <2>3 DEF Nothing
<1> QED
    BY <1>2, <1>3, <1>4

\* A difference has its place in the list, and the kind is part of it.
LEMMA PlacesInList ==
    ASSUME TypeInv, NEW d \in Gone \cup Worse \cup Fresh
    PROVE  DistanceOf(d) \in Int /\ Rank(d) \in {1, 2, 3} /\ (Increase(d) <=> Rank(d) = 2)
<1>1. /\ \A i \in DOMAIN baseline : baseline[i].distance \in Int
      /\ \A j \in DOMAIN current : current[j].distance \in Int
      /\ \A i \in DOMAIN baseline : match[i] # NoMatch => match[i] \in DOMAIN current
    BY Lists DEF TypeInv
<1>2. CASE d \in Gone
    <2>1. PICK i \in DOMAIN baseline : d = [kind |-> "disappeared", baseline |-> i, current |-> NoMatch]
        BY <1>2 DEF Gone
    <2>2. d.kind = "disappeared" /\ d.baseline = i
        BY <2>1
    <2> QED
        BY <1>1, <2>2 DEF DistanceOf, Rank, Increase
<1>3. CASE d \in Worse
    <2>1. PICK i \in DOMAIN baseline :
              match[i] # NoMatch /\ d = [kind |-> "loss_increased", baseline |-> i, current |-> match[i]]
        BY <1>3 DEF Worse, Grown
    <2>2. d.kind = "loss_increased" /\ d.current = match[i]
        BY <2>1
    <2> QED
        BY <1>1, <2>1, <2>2 DEF DistanceOf, Rank, Increase
<1>4. CASE d \in Fresh
    <2>1. PICK j \in DOMAIN current : d = [kind |-> "new", baseline |-> NoMatch, current |-> j]
        BY <1>4 DEF Fresh
    <2>2. d.kind = "new" /\ d.current = j
        BY <2>1
    <2> QED
        BY <1>1, <2>2 DEF DistanceOf, Rank, Increase
<1> QED
    BY <1>2, <1>3, <1>4

\* The sort is by a weak order: differences in the same place are of one kind.
LEMMA WeakOrder ==
    ASSUME TypeInv, NEW d \in Gone \cup Worse \cup Fresh, NEW e \in Gone \cup Worse \cup Fresh,
           NEW f \in Gone \cup Worse \cup Fresh
    PROVE  /\ ~ Before(d, d)
           /\ Before(d, e) => ~ Before(e, d)
           /\ Before(d, f) => Before(d, e) \/ Before(e, f)
           /\ ~ Before(d, e) /\ ~ Before(e, d) => (Increase(d) <=> Increase(e))
<1> DEFINE x == DistanceOf(d)
           y == DistanceOf(e)
           z == DistanceOf(f)
<1>1. /\ x \in Int /\ y \in Int /\ z \in Int
      /\ Rank(d) \in Int /\ Rank(e) \in Int /\ Rank(f) \in Int
      /\ Increase(d) <=> Rank(d) = 2
      /\ Increase(e) <=> Rank(e) = 2
    BY PlacesInList
<1>2. /\ Before(d, d) <=> x < x \/ (x = x /\ Rank(d) < Rank(d))
      /\ Before(d, e) <=> x < y \/ (x = y /\ Rank(d) < Rank(e))
      /\ Before(e, d) <=> y < x \/ (y = x /\ Rank(e) < Rank(d))
      /\ Before(d, f) <=> x < z \/ (x = z /\ Rank(d) < Rank(f))
      /\ Before(e, f) <=> y < z \/ (y = z /\ Rank(e) < Rank(f))
    BY DEF Before
<1> HIDE DEF x, y, z
<1> QED
    BY <1>1, <1>2

\* One more difference is looked at: whichever of the two is preferred is justified.
LEMMA JustifiedStill ==
    ASSUME TypeInv, NEW S \in SUBSET (Gone \cup Worse \cup Fresh), NEW x \in Gone \cup Worse \cup Fresh,
           NEW b \in S, JustifiedIn(S, b), \A d \in S : ~ Before(x, d)
    PROVE  JustifiedIn(S \cup {x},
               IF Confidence(x) > Confidence(b) \/ (Increase(x) /\ ~ Increase(b)) THEN x ELSE b)
<1>1. \A d \in S \cup {x} : Confidence(d) \in Int
    BY Confidences
<1>2. \A d \in S : ~ Before(d, x) => ~ Before(d, b) /\ (Increase(d) <=> Increase(x))
    BY WeakOrder
<1>3. \A d \in S : ~ Increase(d) /\ Increase(x) => Before(d, x)
    BY WeakOrder
<1>4. ~ Before(x, x)
    BY WeakOrder
<1>5. ASSUME Confidence(x) > Confidence(b), NEW d \in S
      PROVE  IF Before(d, x)
             THEN Confidence(d) < Confidence(x) \/ DisplacedIn(S \cup {x}, x, d)
             ELSE Confidence(d) <= Confidence(x) /\ (Increase(d) => Increase(x))
    <2>1. CASE ~ Before(d, x)
        BY <1>1, <1>2, <1>5, <2>1 DEF JustifiedIn
    <2>2. CASE Confidence(d) >= Confidence(x)
        <3>1. Confidence(d) > Confidence(b)
            BY <1>1, <1>5, <2>2
        <3>2. DisplacedIn(S, b, d)
            BY <1>1, <3>1 DEF JustifiedIn
        <3>3. PICK lead \in S, loss \in S :
                  /\ ~ Increase(lead) /\ Increase(loss)
                  /\ Confidence(lead) >= Confidence(d) /\ Confidence(loss) <= Confidence(b)
                  /\ ~ Before(lead, d) /\ Before(lead, loss) /\ ~ Before(b, loss)
            BY <3>2 DEF DisplacedIn
        <3>4. Confidence(loss) <= Confidence(x) /\ ~ Before(x, loss)
            BY <1>1, <1>5, <3>3
        <3>5. DisplacedIn(S \cup {x}, x, d)
            BY <3>3, <3>4 DEF DisplacedIn
        <3> QED
            BY <1>1, <1>2, <2>2, <3>5, <2>1
    <2> QED
        BY <1>1, <2>1, <2>2
<1>6. ASSUME Increase(x), ~ Increase(b), NEW d \in S
      PROVE  /\ Before(d, x)
             /\ Confidence(d) < Confidence(x) \/ DisplacedIn(S \cup {x}, x, d)
    <2>1. Before(d, x)
        BY <1>2, <1>6 DEF JustifiedIn
    <2>2. ASSUME NEW lead \in S, ~ Increase(lead), Confidence(lead) >= Confidence(d), ~ Before(lead, d)
          PROVE  DisplacedIn(S \cup {x}, x, d)
        <3>1. Before(lead, x)
            BY <1>3, <1>6, <2>2
        <3>2. Confidence(x) <= Confidence(x)
            BY <1>1
        <3> QED
            BY <1>4, <1>6, <2>2, <3>1, <3>2 DEF DisplacedIn
    <2>3. CASE ~ Increase(d)
        <3>1. Confidence(d) >= Confidence(d) /\ ~ Before(d, d)
            BY <1>1, WeakOrder
        <3> QED
            BY <2>1, <2>2, <2>3, <3>1
    <2>4. CASE Increase(d)
        <3>1. Before(d, b) /\ (Confidence(d) < Confidence(b) \/ DisplacedIn(S, b, d))
            BY <1>6, <2>4 DEF JustifiedIn
        <3>2. CASE Confidence(d) < Confidence(b)
            <4>1. ~ Before(b, d) /\ Confidence(b) >= Confidence(d)
                BY <1>1, <3>1, <3>2, WeakOrder
            <4> QED
                BY <1>6, <2>1, <2>2, <4>1
        <3>3. CASE DisplacedIn(S, b, d)
            <4>1. PICK lead \in S : ~ Increase(lead) /\ Confidence(lead) >= Confidence(d) /\ ~ Before(lead, d)
                BY <3>3 DEF DisplacedIn
            <4> QED
                BY <2>1, <2>2, <4>1
        <3> QED
            BY <3>1, <3>2, <3>3
    <2> QED
        BY <2>3, <2>4
<1>7. CASE Confidence(x) > Confidence(b) \/ (Increase(x) /\ ~ Increase(b))
    <2>1. Confidence(x) <= Confidence(x)
        BY <1>1
    <2> QED
        BY <1>4, <1>5, <1>6, <1>7, <2>1 DEF JustifiedIn
<1>8. CASE ~ (Confidence(x) > Confidence(b) \/ (Increase(x) /\ ~ Increase(b)))
    <2>1. ~ Before(x, b) /\ Confidence(x) <= Confidence(b) /\ (Increase(x) => Increase(b))
        BY <1>1, <1>8
    <2>2. \A d \in S : DisplacedIn(S, b, d) => DisplacedIn(S \cup {x}, b, d)
        BY DEF DisplacedIn
    <2> QED
        BY <1>8, <2>1, <2>2 DEF JustifiedIn
<1> QED
    BY <1>7, <1>8
----------------------------------------------------------------------------
(* The invariant.                                                          *)

LEMMA InitIInv == Init => IInv
<1> SUFFICES ASSUME Init PROVE IInv
    OBVIOUS
<1>1. /\ Len(baseline) \in Nat /\ Len(baseline) >= 1 /\ DOMAIN baseline = 1 .. Len(baseline)
      /\ next = 1 /\ differences = {} /\ unseen = {} /\ best = Nothing
      /\ \A i \in DOMAIN baseline : match[i] = NoMatch
    BY Lists DEF Init
<1>2. TypeInv
    <2>1. next \in 1 .. Len(baseline) + 2
        BY <1>1
    <2> QED
        BY <2>1 DEF Init, TypeInv
<1>3. ~ Compared /\ \A i \in DOMAIN baseline : ~ (i < next)
    BY <1>1 DEF Compared
<1>4. Gone = {} /\ Worse = {}
    BY <1>1, <1>3 DEF Gone, Worse, Grown
<1> QED
    BY <1>1, <1>2, <1>3, <1>4 DEF IInv, Partners, Leftover, Copies, Found, Chosen

\* While events are matched nothing is preferred yet.
LEMMA MatchingStep ==
    ASSUME IInv, Disappeared \/ Matched
    PROVE  /\ next \in DOMAIN baseline /\ next \in Nat /\ next' = next + 1
           /\ next' \in 1 .. Len(baseline) + 2 /\ ~ Compared /\ ~ Compared'
           /\ \A i \in DOMAIN baseline : i < next' <=> i < next \/ i = next
           /\ \A i \in DOMAIN baseline : i >= next' <=> i >= next /\ i # next
           /\ match[next] = NoMatch /\ UNCHANGED <<baseline, current>>
           /\ unseen' = {} /\ best' = Nothing
           /\ differences = Gone \cup Worse
<1>1. /\ next \in DOMAIN baseline /\ next' = next + 1
      /\ UNCHANGED <<baseline, current, unseen, best>>
    BY DEF Disappeared, Matched, lists, choice
<1>2. Len(baseline) \in Nat /\ DOMAIN baseline = 1 .. Len(baseline)
    BY Lists DEF IInv, TypeInv
<1>3. /\ next \in Nat /\ next' \in 1 .. Len(baseline) + 2
      /\ next # Len(baseline) + 2 /\ next' # Len(baseline) + 2
    BY <1>1, <1>2
<1>4. ~ Compared /\ ~ Compared'
    BY <1>1, <1>3 DEF Compared
<1>5. /\ \A i \in DOMAIN baseline : i < next' <=> i < next \/ i = next
      /\ \A i \in DOMAIN baseline : i >= next' <=> i >= next /\ i # next
    BY <1>1, <1>2, <1>3
<1>6. match[next] = NoMatch
    BY <1>1, <1>3 DEF IInv, Partners
<1> QED
    BY <1>1, <1>3, <1>4, <1>5, <1>6 DEF IInv, Found, Chosen

LEMMA DisappearedKeeps ==
    ASSUME IInv, Disappeared
    PROVE  IInv'
<1>1. /\ next \in DOMAIN baseline /\ next \in Nat
      /\ next' \in 1 .. Len(baseline) + 2 /\ ~ Compared /\ ~ Compared'
      /\ \A i \in DOMAIN baseline : i < next' <=> i < next \/ i = next
      /\ \A i \in DOMAIN baseline : i >= next' <=> i >= next /\ i # next
      /\ match[next] = NoMatch /\ UNCHANGED <<baseline, current>>
      /\ unseen' = {} /\ best' = Nothing /\ differences = Gone \cup Worse
    BY MatchingStep
<1>2. /\ Candidates(next) = {} /\ UNCHANGED match
      /\ differences' = differences \cup {[kind |-> "disappeared", baseline |-> next, current |-> NoMatch]}
    BY DEF Disappeared
<1>3. TypeInv'
    BY <1>1, <1>2 DEF IInv, TypeInv
<1>4. Partners'
    BY <1>1, <1>2 DEF IInv, Partners, Delta
<1>5. Leftover'
    <2>1. \A j \in DOMAIN current : j \notin Used => Delta(next, j) > Tolerance
        <3> TAKE j \in DOMAIN current
        <3>1. j \notin Used => ~ (Delta(next, j) <= Tolerance)
            BY <1>2 DEF Candidates
        <3>2. Delta(next, j) \in Nat
            BY <1>1, Deltas DEF IInv
        <3> QED
            BY <3>1, <3>2, CompareAssumption
    <2> QED
        BY <1>1, <1>2, <2>1 DEF IInv, Leftover, Used, Delta
<1>6. Copies'
    <2>1. baseline # current
        <3> SUFFICES ASSUME baseline = current PROVE FALSE
            OBVIOUS
        <3>1. Delta(next, next) = 0
            BY <1>1, Deltas DEF IInv
        <3>2. next \in Used
            BY <1>1, <1>2, <3>1, CompareAssumption DEF Candidates
        <3>3. PICK i \in DOMAIN baseline : match[i] = next /\ match[i] # NoMatch
            BY <3>2 DEF Used, IInv, TypeInv
        <3>4. i < next
            BY <1>1, <3>3, Lists DEF IInv, TypeInv, Partners
        <3> QED
            BY <1>1, <3>3, <3>4 DEF IInv, Copies
    <2> QED
        BY <1>1, <2>1 DEF Copies
<1>7. Found'
    <2>1. Gone' = Gone \cup {[kind |-> "disappeared", baseline |-> next, current |-> NoMatch]}
        BY <1>1, <1>2 DEF Gone
    <2>2. Worse' = Worse
        BY <1>1, <1>2 DEF Worse, Grown
    <2> QED
        BY <1>1, <1>2, <2>1, <2>2 DEF Found
<1>8. Chosen'
    BY <1>1 DEF Chosen
<1> QED
    BY <1>3, <1>4, <1>5, <1>6, <1>7, <1>8 DEF IInv

LEMMA MatchedKeeps ==
    ASSUME IInv, Matched
    PROVE  IInv'
<1>1. /\ next \in DOMAIN baseline /\ next \in Nat
      /\ next' \in 1 .. Len(baseline) + 2 /\ ~ Compared /\ ~ Compared'
      /\ \A i \in DOMAIN baseline : i < next' <=> i < next \/ i = next
      /\ \A i \in DOMAIN baseline : i >= next' <=> i >= next /\ i # next
      /\ match[next] = NoMatch /\ UNCHANGED <<baseline, current>>
      /\ unseen' = {} /\ best' = Nothing /\ differences = Gone \cup Worse
    BY MatchingStep
<1>a. TypeInv /\ DOMAIN current \subseteq Nat
    BY Lists DEF IInv, TypeInv
<1>b. Nearest(next) \in Candidates(next)
    BY <1>1, <1>a, NearestIs DEF Matched
<1>c. PICK n \in DOMAIN baseline : n = next
    BY <1>1
<1>d. PICK j \in DOMAIN current : j = Nearest(next)
    BY <1>b DEF Candidates
<1>2. /\ match' = [match EXCEPT ![n] = j]
      /\ differences' = IF current[j].loss - baseline[n].loss >= LossIncrease
             THEN differences \cup {[kind |-> "loss_increased", baseline |-> n, current |-> j]}
             ELSE differences
    BY <1>c, <1>d DEF Matched
<1>3. /\ match'[n] = j /\ \A i \in DOMAIN baseline : i # n => match'[i] = match[i]
      /\ match' \in [DOMAIN baseline -> DOMAIN current \cup {NoMatch}]
    BY <1>a, <1>2 DEF TypeInv
<1>4. j # NoMatch /\ j \notin Used /\ Delta(n, j) <= Tolerance
    <2>1. DOMAIN current = 1 .. Len(current) /\ Len(current) \in Nat
        BY <1>a, Lists DEF TypeInv
    <2>2. j # NoMatch
        BY <2>1 DEF NoMatch
    <2> QED
        BY <1>b, <1>c, <1>d, <2>2 DEF Candidates
<1>5. Used' = Used \cup {j}
    <2>1. DOMAIN match = DOMAIN baseline /\ DOMAIN match' = DOMAIN baseline
        BY <1>a, <1>3 DEF TypeInv
    <2>2. match[n] = NoMatch
        BY <1>1, <1>c
    <2>3. ASSUME NEW x PROVE x \in Used' <=> x \in Used \cup {j}
        <3>1. x \in Used <=> x # NoMatch /\ \E i \in DOMAIN baseline : match[i] = x
            BY <2>1 DEF Used
        <3>2. x \in Used' <=> x # NoMatch /\ \E i \in DOMAIN baseline : match'[i] = x
            BY <2>1 DEF Used
        <3> QED
            BY <1>3, <1>4, <2>2, <3>1, <3>2
    <2> QED
        BY <2>3
<1>6. TypeInv'
    BY <1>1, <1>3, <1>a DEF TypeInv
<1>7. Partners'
    <2>1. \A i \in DOMAIN baseline : i >= next' => match'[i] = NoMatch
        BY <1>1, <1>3, <1>c DEF IInv, Partners
    <2>2. \A i \in DOMAIN baseline : match'[i] # NoMatch => Delta(i, match'[i]) <= Tolerance
        BY <1>3, <1>4 DEF IInv, Partners
    <2>3. \A i \in DOMAIN baseline : match[i] # j
        BY <1>4, <1>a DEF Used, TypeInv
    <2>4. \A i, k \in DOMAIN baseline : i # k /\ match'[i] # NoMatch => match'[i] # match'[k]
        BY <1>3, <2>3 DEF IInv, Partners
    <2> QED
        BY <1>1, <2>1, <2>2, <2>4 DEF Partners, Delta
<1>8. Leftover'
    BY <1>1, <1>3, <1>4, <1>5, <1>c DEF IInv, Leftover, Delta
<1>9. Copies'
    <2>1. ASSUME baseline = current PROVE j = n
        <3>1. \A i \in DOMAIN baseline : i < n => match[i] = i
            BY <1>c, <2>1 DEF IInv, Copies
        <3>2. n \in Nat /\ j \in Nat /\ Delta(n, n) = 0 /\ Delta(n, j) \in Nat
            BY <1>1, <1>a, <1>c, <2>1, Deltas
        <3>3. ~ (j < n)
            <4>1. j < n => match[j] = j
                BY <2>1, <3>1
            <4>2. \A i \in DOMAIN baseline : match[i] # j
                BY <1>4, <1>a DEF Used, TypeInv
            <4> QED
                BY <2>1, <4>1, <4>2
        <3>4. n \in Candidates(n)
            <4>1. n \notin Used
                <5>1. \A i \in DOMAIN baseline : match[i] # NoMatch => match[i] = i /\ i # n
                    <6> TAKE i \in DOMAIN baseline
                    <6>1. i \in Nat
                        BY <1>a, Lists DEF TypeInv
                    <6>2. match[i] # NoMatch => i < n
                        BY <1>1, <1>c, <3>2, <6>1 DEF IInv, Partners
                    <6> QED
                        BY <3>1, <3>2, <6>1, <6>2
                <5> QED
                    BY <5>1, <1>a DEF Used, TypeInv
            <4> QED
                BY <2>1, <3>2, <4>1, CompareAssumption DEF Candidates
        <3>5. Delta(n, j) < Delta(n, n) \/ (Delta(n, j) = Delta(n, n) /\ j <= n)
            BY <1>a, <1>c, <1>d, <3>4, NearestIs
        <3> QED
            BY <3>2, <3>3, <3>5
    <2> QED
        BY <1>1, <1>3, <1>c, <2>1 DEF IInv, Copies
<1>10. Found'
    <2>1. Gone' = Gone
        <3>1. \A i \in DOMAIN baseline :
                  i < next' /\ match'[i] = NoMatch <=> i < next /\ match[i] = NoMatch
            BY <1>1, <1>3, <1>4, <1>c
        <3> QED
            BY <1>1, <3>1 DEF Gone
    <2>2. Worse' = IF current[j].loss - baseline[n].loss >= LossIncrease
                   THEN Worse \cup {[kind |-> "loss_increased", baseline |-> n, current |-> j]}
                   ELSE Worse
        <3> DEFINE grown == current[j].loss - baseline[n].loss >= LossIncrease
        <3>1. \A i \in DOMAIN baseline : i # n => (Grown(i)' <=> Grown(i))
            BY <1>1, <1>3 DEF Grown
        <3>2. ~ Grown(n)
            BY <1>1, <1>c DEF Grown
        <3>3. (match'[n] # NoMatch /\ current[match'[n]].loss - baseline[n].loss >= LossIncrease) <=> grown
            BY <1>3, <1>4
        <3>4. Worse' = {[kind |-> "loss_increased", baseline |-> i, current |-> match'[i]] :
                            i \in {k \in DOMAIN baseline : Grown(k)'}}
            BY <1>1 DEF Worse
        <3>5. Grown(n)' <=> grown
            BY <1>1, <3>3 DEF Grown
        <3> HIDE DEF grown
        <3>6. CASE grown
            <4>1. {k \in DOMAIN baseline : Grown(k)'} = {k \in DOMAIN baseline : Grown(k)} \cup {n}
                BY <3>1, <3>5, <3>6
            <4> QED
                BY <1>3, <3>2, <3>4, <3>6, <4>1 DEF Worse, grown
        <3>7. CASE ~ grown
            <4>1. {k \in DOMAIN baseline : Grown(k)'} = {k \in DOMAIN baseline : Grown(k)}
                BY <3>1, <3>2, <3>5, <3>7
            <4> QED
                BY <1>3, <3>2, <3>4, <3>7, <4>1 DEF Worse, grown
        <3> QED
            BY <3>6, <3>7
    <2> QED
        BY <1>1, <1>2, <2>1, <2>2 DEF Found
<1>11. Chosen'
    BY <1>1 DEF Chosen
<1> QED
    BY <1>6, <1>7, <1>8, <1>9, <1>10, <1>11 DEF IInv

LEMMA UnmatchedKeeps ==
    ASSUME IInv, Unmatched
    PROVE  IInv'
<1>1. /\ next = Len(baseline) + 1 /\ next' = next + 1 /\ unseen' = differences'
      /\ UNCHANGED <<baseline, current, match, best>>
      /\ differences' = differences \cup Fresh
    BY DEF Unmatched, lists, Fresh
<1>2. TypeInv /\ Len(baseline) \in Nat /\ DOMAIN baseline = 1 .. Len(baseline)
    BY Lists DEF IInv, TypeInv
<1>3. /\ ~ Compared /\ Compared' /\ next' \in 1 .. Len(baseline) + 2
      /\ \A i \in DOMAIN baseline : i < next' /\ i < next /\ ~ (i >= next')
    BY <1>1, <1>2 DEF Compared
<1>4. TypeInv'
    BY <1>1, <1>2, <1>3 DEF TypeInv
<1>5. Partners' /\ Leftover' /\ Copies'
    BY <1>1, <1>3 DEF IInv, Partners, Leftover, Copies, Used, Delta
<1>6. Found'
    <2>1. Gone' = Gone
        BY <1>1, <1>3 DEF Gone
    <2>2. Worse' = Worse /\ Fresh' = Fresh
        BY <1>1 DEF Worse, Grown, Fresh, Used
    <2> QED
        BY <1>1, <1>3, <2>1, <2>2 DEF IInv, Found
<1>7. Chosen'
    <2>1. Seen' = {} /\ best' = Nothing
        BY <1>1, <1>3 DEF IInv, Chosen, Seen
    <2> QED
        BY <1>1, <1>3, <2>1 DEF Chosen, JustifiedIn
<1> QED
    BY <1>4, <1>5, <1>6, <1>7 DEF IInv

\* The pass over the differences: with the next one the choice still is what it is to be.
LEMMA PreferKeeps ==
    ASSUME IInv, NEW x \in unseen, Prefer(x)
    PROVE  IInv'
<1>1. /\ Compared /\ Compared' /\ unseen' = unseen \ {x}
      /\ UNCHANGED <<baseline, current, next, match, differences>>
      /\ best' = IF best = Nothing THEN x ELSE IF Preferred(x) THEN x ELSE best
    BY DEF Prefer, lists, Compared
<1>2. TypeInv' /\ Partners' /\ Leftover' /\ Copies' /\ Found'
    BY <1>1 DEF IInv, TypeInv, Partners, Leftover, Copies, Found, Gone, Worse, Fresh, Grown, Used, Delta
<1>3. \A d : Confidence(d)' = Confidence(d)
    BY <1>1 DEF Confidence
<1>4. Seen' = Seen \cup {x} /\ x \notin Seen
    BY <1>1 DEF IInv, Chosen, Seen
<1>5. Seen \cup {x} \subseteq Gone \cup Worse \cup Fresh
    BY <1>1 DEF IInv, Chosen, Found, Seen
<1>6. \A d \in Seen \cup {x} : Confidence(d) \in Int /\ d # Nothing
    BY <1>5, Confidences DEF IInv
<1>7. /\ best = Nothing <=> Seen = {}
      /\ best # Nothing => best \in Seen
      /\ \A d \in Seen : ~ Before(x, d)
      /\ JustifiedIn(Seen, best)
    BY <1>1 DEF IInv, Chosen
<1>8. JustifiedIn(Seen \cup {x}, best')
    <2>1. CASE best = Nothing
        <3>1. Seen \cup {x} = {x} /\ best' = x
            BY <1>1, <1>7, <2>1
        <3>2. Confidence(x) <= Confidence(x) /\ ~ Before(x, x)
            BY <1>1, <1>6, <1>5, WeakOrder DEF IInv
        <3> QED
            BY <3>1, <3>2 DEF JustifiedIn
    <2>2. CASE best # Nothing
        <3>1. best' = IF Confidence(x) > Confidence(best) \/ (Increase(x) /\ ~ Increase(best))
                      THEN x ELSE best
            BY <1>1, <2>2 DEF Preferred, Increase
        <3> QED
            BY <1>7, <1>5, <2>2, <3>1, JustifiedStill DEF IInv
    <2> QED
        BY <2>1, <2>2
<1>9. \A d \in Seen', y \in unseen' : ~ Before(y, d)
    <2>1. \A y \in unseen : ~ Before(y, x)
        BY DEF Prefer
    <2> QED
        BY <1>1, <1>4, <2>1 DEF IInv, Chosen
<1>10. Chosen'
    <2>1. \A d, e : Before(d, e)' = Before(d, e)
        BY <1>1 DEF Before, DistanceOf, Rank
    <2>2. best' # Nothing /\ best' \in Seen \cup {x}
        BY <1>1, <1>6, <1>7
    <2>3. JustifiedIn(Seen, best)'
        BY <1>3, <1>4, <1>8, <2>1 DEF JustifiedIn, DisplacedIn, Increase
    <2>4. \A d \in Seen', y \in unseen' : ~ Before(y, d)'
        BY <1>9, <2>1
    <2> QED
        BY <1>1, <1>4, <2>2, <2>3, <2>4 DEF IInv, Chosen
<1> QED
    BY <1>2, <1>10 DEF IInv

\* The invariant of every reachable state.
THEOREM Invariance == Spec => []IInv
<1>1. ASSUME IInv, UNCHANGED vars PROVE IInv'
    <2>1. UNCHANGED <<baseline, current, next, match, differences, unseen, best>>
        BY <1>1 DEF vars, lists, choice
    <2>2. TypeInv' /\ Partners' /\ Leftover' /\ Copies' /\ Found'
        BY <1>1, <2>1 DEF IInv, TypeInv, Partners, Leftover, Copies, Found, Gone, Worse, Fresh, Grown,
                          Used, Delta, Compared
    <2>3. /\ \A d : Confidence(d)' = Confidence(d)
          /\ \A d, e : Before(d, e)' = Before(d, e)
          /\ Compared' = Compared /\ Seen' = Seen
        BY <2>1 DEF Confidence, Before, DistanceOf, Rank, Compared, Seen
    <2>4. JustifiedIn(Seen, best)' = JustifiedIn(Seen, best)
        BY <2>1, <2>3 DEF JustifiedIn, DisplacedIn, Increase
    <2>5. Chosen'
        BY <1>1, <2>1, <2>3, <2>4 DEF IInv, Chosen
    <2> QED
        BY <2>2, <2>5 DEF IInv
<1>2. IInv /\ [Next]_vars => IInv'
    BY <1>1, DisappearedKeeps, MatchedKeeps, UnmatchedKeeps, PreferKeeps DEF Next
<1> QED
    BY InitIInv, <1>2, PTL DEF Spec
----------------------------------------------------------------------------
(* What follows for a comparison.                                          *)

\* When the comparison is done its differences are those of the partners.
LEMMA AllFound ==
    ASSUME IInv, Done
    PROVE  /\ \A i \in DOMAIN baseline : Reported("disappeared", i, NoMatch) <=> match[i] = NoMatch
           /\ \A j \in DOMAIN current : Reported("new", NoMatch, j) <=> j \notin Used
           /\ \A i \in DOMAIN baseline, j \in DOMAIN current :
                 Reported("loss_increased", i, j) <=>
                     match[i] = j /\ current[j].loss - baseline[i].loss >= LossIncrease
           /\ \A i \in DOMAIN baseline : i < next
           /\ differences = Gone \cup Worse \cup Fresh
<1>1. /\ Compared /\ differences = Gone \cup Worse \cup Fresh
      /\ \A i \in DOMAIN baseline : i < next
    BY Lists DEF IInv, TypeInv, Found, Done, Compared
<1>2. NoMatch \notin DOMAIN current
    BY Lists DEF IInv, TypeInv, NoMatch
<1>3. ASSUME NEW i \in DOMAIN baseline
      PROVE  Reported("disappeared", i, NoMatch) <=> match[i] = NoMatch
    BY <1>1 DEF Reported, Gone, Worse, Fresh
<1>4. ASSUME NEW j \in DOMAIN current
      PROVE  Reported("new", NoMatch, j) <=> j \notin Used
    BY <1>1 DEF Reported, Gone, Worse, Fresh
<1>5. ASSUME NEW i \in DOMAIN baseline, NEW j \in DOMAIN current
      PROVE  Reported("loss_increased", i, j) <=>
                 match[i] = j /\ current[j].loss - baseline[i].loss >= LossIncrease
    BY <1>1, <1>2 DEF Reported, Gone, Worse, Fresh, Grown
<1> QED
    BY <1>1, <1>3, <1>4, <1>5

\* However the events of two traces lie, none is lost or counted twice: partners are one to
\* one, whatever has none is reported, and a loss increase is reported exactly where it is.
THEOREM Accounting == Spec => []EveryEventAccounted
<1>1. ASSUME IInv PROVE EveryEventAccounted
    <2>1. SUFFICES ASSUME Done PROVE EveryEventAccounted
        BY DEF EveryEventAccounted
    <2>2. NoMatch \notin DOMAIN current
        BY <1>1, Lists DEF IInv, TypeInv, NoMatch
    <2>3. \A i, k \in DOMAIN baseline : i # k /\ match[i] # NoMatch => match[i] # match[k]
        BY <1>1 DEF IInv, Partners
    <2>4. \A i \in DOMAIN baseline, j \in DOMAIN current : match[i] = j => Delta(i, j) <= Tolerance
        BY <1>1, <2>2 DEF IInv, Partners
    <2> QED
        BY <1>1, <2>1, <2>3, <2>4, AllFound DEF EveryEventAccounted
<1> QED
    BY Invariance, <1>1, PTL

\* The greedy matching leaves no two events over that would have made a pair: what has been
\* taken stays taken, so whatever is left at the end was left when the pair was refused.
THEOREM Maximality == Spec => []NoMissedPair
<1>1. ASSUME IInv PROVE NoMissedPair
    <2>1. SUFFICES ASSUME Done PROVE NoMissedPair
        BY DEF NoMissedPair
    <2> QED
        BY <1>1, <2>1, AllFound DEF NoMissedPair, IInv, Leftover
<1> QED
    BY Invariance, <1>1, PTL

\* A trace compared with an equal one has no differences, also where several of its events lie
\* within the tolerance of each other: each event finds its own copy.
THEOREM Reflexivity == Spec => []EqualTracesEqual
<1>1. ASSUME IInv PROVE EqualTracesEqual
    <2>1. SUFFICES ASSUME Done, baseline = current PROVE differences = {}
        BY DEF EqualTracesEqual
    <2>2. \A i \in DOMAIN baseline : match[i] = i /\ match[i] # NoMatch
        BY <1>1, <2>1, AllFound, Lists DEF IInv, TypeInv, Copies, NoMatch
    <2>3. Gone = {}
        BY <2>2 DEF Gone
    <2>4. Fresh = {}
        <3>1. DOMAIN match = DOMAIN baseline
            BY <1>1 DEF IInv, TypeInv
        <3> QED
            BY <2>1, <2>2, <3>1 DEF Fresh, Used
    <2>5. \A i \in DOMAIN baseline : ~ Grown(i)
        BY <1>1, <2>1, <2>2, Deltas, CompareAssumption DEF Grown, IInv
    <2>6. Worse = {}
        BY <2>5 DEF Worse
    <2> QED
        BY <1>1, <2>1, <2>3, <2>4, <2>6, AllFound
<1> QED
    BY Invariance, <1>1, PTL

\* Of the one pass over the differences: none behind the fault beats it in either respect, and
\* one before it is less sure or was displaced by a loss increase no surer than the fault.
THEOREM Preference == Spec => []FaultJustified
<1>1. ASSUME IInv PROVE FaultJustified
    <2>1. SUFFICES ASSUME Done PROVE FaultJustified
        BY DEF FaultJustified
    <2>2. Compared /\ Seen = differences
        BY <1>1, <2>1 DEF Done, Seen
    <2>3. (best = Nothing <=> differences = {}) /\ JustifiedIn(differences, best)
        BY <1>1, <2>2 DEF IInv, Chosen
    <2> QED
        BY <2>3 DEF FaultJustified, Displaced, JustifiedIn, DisplacedIn, Increase
<1> QED
    BY Invariance, <1>1, PTL
=============================================================================
