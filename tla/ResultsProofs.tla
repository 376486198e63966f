----------------------------- MODULE ResultsProofs -----------------------------
(***************************************************************************)
(* Proofs about Results and Scoring: for every number of participants, any *)
(* answers, rounds, replays and tie-breaks, revealed rounds are scored     *)
(* fairly, a replay starts from the points before it, a tie-break stays in *)
(* its group and the podium shows the top three.                           *)
(***************************************************************************)
EXTENDS Results, FiniteSetTheorems, SequenceTheorems, TLAPS

--------------------------------------------------------------------------------
(***************************************************************************)
(* Scores of a round.                                                      *)
(***************************************************************************)

\* Division by a positive number, as the provers use it.
LEMMA Division ==
  ASSUME NEW a \in Int, NEW w \in Nat \ {0}
  PROVE  /\ a \div w \in Int /\ w * (a \div w) <= a /\ a < w * (a \div w) + w
         /\ a >= 0 => a \div w \in Nat
OBVIOUS

\* Dividing keeps the order; so do cutting a time to its bucket and storing a score.
LEMMA DivisionKeepsOrder ==
  ASSUME NEW a \in Int, NEW b \in Int, a <= b, NEW w \in Nat \ {0}
  PROVE  a \div w <= b \div w
<1> DEFINE q == a \div w
           r == b \div w
<1>1. q \in Int /\ r \in Int /\ w * q <= a /\ b < w * r + w
  BY Division
<1>2. SUFFICES ASSUME q >= r + 1 PROVE FALSE
  BY <1>1
<1> HIDE DEF q, r
<1>3. w * q >= w * (r + 1)
  BY <1>1, <1>2
<1>4. w * (r + 1) = w * r + w
  BY <1>1
<1>5. w * q \in Int /\ w * r \in Int /\ w * (r + 1) \in Int
  BY <1>1
<1>6. QED
  BY <1>1, <1>3, <1>4, <1>5

\* A time's 100 ms bucket.
LEMMA Buckets ==
  ASSUME NEW m \in Nat \cup {None}, NEW n \in Nat \cup {None}, m <= n
  PROVE  bucketMs(m) \in Nat /\ bucketMs(m) <= bucketMs(n)
BY DEF bucketMs, SPEED_BUCKET_MS, None

\* A speed bonus lies between nothing and SPEED_MAX and never grows with the time.
LEMMA Fades ==
  ASSUME NEW m \in Nat, NEW n \in Nat, m <= n, NEW w \in Nat \ {0}
  PROVE  Fading(m, w) \in Nat /\ Fading(n, w) <= Fading(m, w)
<1>1. SPEED_MAX * m \in Nat /\ SPEED_MAX * n \in Nat /\ SPEED_MAX * m <= SPEED_MAX * n
  BY DEF SPEED_MAX, POINT
<1>2. (SPEED_MAX * m) \div w \in Nat /\ (SPEED_MAX * n) \div w \in Nat
  BY <1>1, Division
<1>3. (SPEED_MAX * m) \div w <= (SPEED_MAX * n) \div w
  BY <1>1, DivisionKeepsOrder
<1>4. QED
  BY <1>2, <1>3 DEF Fading, AtLeast, SPEED_MAX, POINT

\* Rounding to what the column keeps never turns two scores around, and tells half a point apart.
LEMMA StoredKeepsOrder ==
  ASSUME NEW a \in Int, NEW b \in Int
  PROVE  /\ Stored(a) \in Int /\ (a >= 0 => Stored(a) \in Nat)
         /\ a <= b => Stored(a) <= Stored(b)
         /\ a < b => Stored(a) < Stored(b)
BY DEF Stored

\* Rows of a race.
LEMMA RaceRow ==
  ASSUME NEW r \in RaceRows
  PROVE  /\ r.state \in {"alive", "eliminated", "finished"}
         /\ r.progress \in 0..100 /\ (r.state = "alive" => r.progress <= 99)
         /\ r.finishActiveMs \in Nat \cup {None} /\ (r.state = "finished" => r.finishActiveMs \in Nat)
BY DEF RaceRows, RLGL_TRACK_LENGTH, None

\* finishRank is a place among the finishers: a later bucket never has a better one.
LEMMA Ranks ==
  ASSUME NEW S, IsFiniteSet(S), NEW rows \in [S -> RaceRows], NEW p \in Finishers(rows)
  PROVE  /\ finishRank(rows, p) \in 1..Cardinality(S)
         /\ \A q \in Finishers(rows) : rows[p].finishActiveMs <= rows[q].finishActiveMs
                                         => finishRank(rows, p) <= finishRank(rows, q)
<1> DEFINE Before(q) == {x \in Finishers(rows) :
                           bucketMs(rows[x].finishActiveMs) < bucketMs(rows[q].finishActiveMs)}
<1>0. Finishers(rows) \subseteq S /\ p \in S /\ \A q \in Finishers(rows) : rows[q].finishActiveMs \in Nat
  BY RaceRow DEF Finishers, None
<1>1. ASSUME NEW q \in Finishers(rows)
      PROVE  Before(q) \subseteq S \ {q} /\ IsFiniteSet(Before(q)) /\ Cardinality(Before(q)) \in Nat
             /\ bucketMs(rows[q].finishActiveMs) \in Nat
  <2>1. rows[q].finishActiveMs \in Nat \cup {None} /\ rows[q].finishActiveMs <= rows[q].finishActiveMs
    BY <1>0
  <2>2. bucketMs(rows[q].finishActiveMs) \in Nat
    BY <2>1, Buckets
  <2>3. Before(q) \subseteq S \ {q}
    BY <1>0, <2>2
  <2>4. IsFiniteSet(S \ {q})
    BY FS_RemoveElement
  <2>5. IsFiniteSet(Before(q)) /\ Cardinality(Before(q)) \in Nat
    BY <2>3, <2>4, FS_Subset, FS_CardinalityType
  <2>6. QED
    BY <2>2, <2>3, <2>5
<1>2. \A q \in Finishers(rows) : finishRank(rows, q) = 1 + Cardinality(Before(q))
  BY DEF finishRank
<1>3. finishRank(rows, p) \in 1..Cardinality(S)
  <2>1. IsFiniteSet(S \ {p}) /\ Cardinality(S \ {p}) = Cardinality(S) - 1 /\ Cardinality(S) \in Nat
    BY <1>0, FS_RemoveElement, FS_CardinalityType
  <2>2. Cardinality(Before(p)) <= Cardinality(S \ {p}) /\ Cardinality(Before(p)) \in Nat
    BY <1>1, <2>1, FS_Subset
  <2> HIDE DEF Before
  <2>3. QED
    BY <1>2, <2>1, <2>2
<1>4. ASSUME NEW q \in Finishers(rows), rows[p].finishActiveMs <= rows[q].finishActiveMs
      PROVE  finishRank(rows, p) <= finishRank(rows, q)
  <2>1. bucketMs(rows[p].finishActiveMs) <= bucketMs(rows[q].finishActiveMs)
    BY <1>0, <1>4, Buckets
  <2>2. \A x \in Finishers(rows) : bucketMs(rows[x].finishActiveMs) \in Nat
    BY <1>1
  <2>3. Before(p) \subseteq Before(q)
    BY <2>1, <2>2
  <2>4. Cardinality(Before(p)) <= Cardinality(Before(q)) /\ Cardinality(Before(p)) \in Nat /\ Cardinality(Before(q)) \in Nat
    BY <1>1, <2>3, FS_Subset
  <2> HIDE DEF Before
  <2>5. QED
    BY <1>2, <2>4
<1>5. QED
  BY <1>3, <1>4

\* Whoever finished is ahead of whoever did not; among finishers time decides.
FairRace(rows, s) ==
  \A p, q \in DOMAIN rows : rows[p].state = "finished" =>
    /\ rows[q].state # "finished" => s[p] > s[q]
    /\ rows[q].state = "finished" /\ rows[p].finishActiveMs <= rows[q].finishActiveMs => s[p] >= s[q]

\* Rules 1.2.0 of the race are fair: finishing beats not finishing, earlier beats later.
LEMMA RaceFirstRules ==
  ASSUME NEW S, IsFiniteSet(S), NEW rows \in [S -> RaceRows], NEW n \in Nat, Cardinality(S) <= n
  PROVE  scoreRace(rows, n) \in [S -> Nat] /\ FairRace(rows, scoreRace(rows, n))
<1> DEFINE s == scoreRace(rows, n)
           Share(p) == (SPEED_MAX * (n - finishRank(rows, p))) \div (n - 1)
<1>0. ASSUME NEW p \in S
      PROVE  /\ rows[p].state \in {"alive", "eliminated", "finished"}
             /\ rows[p].progress \in 0..100 /\ (rows[p].state = "alive" => rows[p].progress <= 99)
             /\ rows[p].finishActiveMs \in Nat \cup {None}
             /\ (rows[p].state = "finished" => p \in Finishers(rows) /\ rows[p].finishActiveMs \in Nat)
  BY RaceRow DEF Finishers, None
<1>1. ASSUME NEW p \in S
      PROVE  s[p] = CASE rows[p].state = "eliminated" -> 0
                      [] rows[p].state = "finished" -> IF n > 1 THEN BASE_MAX + Share(p) ELSE 100 * POINT
                      [] OTHER -> (BASE_MAX * rows[p].progress) \div 100
  BY <1>0, n # None DEF scoreRace, RLGL_TRACK_LENGTH, None
<1>2. ASSUME NEW p \in S, rows[p].state = "finished", n > 1
      PROVE  /\ Share(p) \in Nat
             /\ \A q \in S : rows[q].state = "finished" /\ rows[p].finishActiveMs <= rows[q].finishActiveMs
                               => Share(q) <= Share(p)
  <2>1. \A q \in S : rows[q].state = "finished" => finishRank(rows, q) \in 1..n
    BY <1>0, Ranks, FS_CardinalityType
  <2>2. ASSUME NEW q \in S, rows[q].state = "finished"
        PROVE  SPEED_MAX * (n - finishRank(rows, q)) \in Nat
    BY <2>1, <2>2 DEF SPEED_MAX, POINT
  <2>3. n - 1 \in Nat \ {0}
    BY <1>2
  <2>4. Share(p) \in Nat
    BY <1>2, <2>2, <2>3, Division
  <2>5. ASSUME NEW q \in S, rows[q].state = "finished", rows[p].finishActiveMs <= rows[q].finishActiveMs
        PROVE  Share(q) <= Share(p)
    <3>1. finishRank(rows, p) <= finishRank(rows, q)
      BY <1>0, <1>2, <2>5, Ranks
    <3>2. SPEED_MAX * (n - finishRank(rows, q)) <= SPEED_MAX * (n - finishRank(rows, p))
      BY <1>2, <2>1, <2>5, <3>1 DEF SPEED_MAX, POINT
    <3>3. QED
      BY <1>2, <2>2, <2>3, <2>5, <3>2, DivisionKeepsOrder
  <2>6. QED
    BY <2>4, <2>5
<1>3. ASSUME NEW p \in S
      PROVE  /\ s[p] \in Nat
             /\ rows[p].state = "finished" => s[p] >= BASE_MAX
             /\ rows[p].state # "finished" => s[p] < BASE_MAX
  <2>1. CASE rows[p].state = "finished"
    <3> HIDE DEF s
    <3>1. n > 1 => Share(p) \in Nat
      BY <1>2, <2>1
    <3> HIDE DEF Share
    <3>2. QED
      BY <1>1, <2>1, <3>1 DEF BASE_MAX, POINT
  <2>2. CASE rows[p].state # "finished"
    <3> HIDE DEF s, Share
    <3>1. QED
      BY <1>0, <1>1, <2>2 DEF BASE_MAX, POINT
  <2>3. QED
    BY <2>1, <2>2
<1>4. s \in [S -> Nat]
  <2>1. s = [p \in S |-> s[p]]
    BY DEF scoreRace
  <2> HIDE DEF s
  <2>2. QED
    BY <1>3, <2>1
<1>5. FairRace(rows, s)
  <2>1. SUFFICES ASSUME NEW p \in S, NEW q \in S, rows[p].state = "finished"
                 PROVE  /\ rows[q].state # "finished" => s[p] > s[q]
                        /\ rows[q].state = "finished" /\ rows[p].finishActiveMs <= rows[q].finishActiveMs => s[p] >= s[q]
    <3> HIDE DEF s
    <3>1. QED
      BY DEF FairRace
  <2> HIDE DEF s
  <2>2. ASSUME rows[q].state # "finished" PROVE s[p] > s[q]
    BY <1>3, <2>1, <2>2 DEF BASE_MAX, POINT
  <2>3. ASSUME rows[q].state = "finished", rows[p].finishActiveMs <= rows[q].finishActiveMs PROVE s[p] >= s[q]
    <3>1. n > 1 => Share(p) \in Nat /\ Share(q) \in Nat /\ Share(q) <= Share(p)
      BY <1>2, <2>1, <2>3
    <3> HIDE DEF Share
    <3>2. QED
      BY <1>1, <2>1, <2>3, <3>1 DEF BASE_MAX, POINT
  <2>4. QED
    BY <2>2, <2>3
<1>6. QED
  BY <1>4, <1>5

\* The image of a finite set is finite.
LEMMA ImageFinite ==
  ASSUME NEW S, IsFiniteSet(S), NEW f
  PROVE  IsFiniteSet({f[x] : x \in S})
<1> DEFINE T == {f[x] : x \in S}
           g == [x \in S |-> f[x]]
<1>1. g \in Surjection(S, T)
  BY DEF Surjection
<1>2. QED
  BY <1>1, FS_Surjection

\* A finite set of numbers that is not empty has a least one.
LEMMA Least ==
  ASSUME NEW B, IsFiniteSet(B), B \subseteq Int, B # {}
  PROVE  \E b \in B : \A c \in B : b <= c
<1> DEFINE Below(x) == {y \in B : y < x}
           Family == {Below(x) : x \in B}
           R == StrictSubsetOrdering(B)
<1>1. Family \subseteq FiniteSubsetsOf(B) /\ Family # {}
  <2>1. FiniteSubsetsOf(B) = SUBSET B
    BY FS_FiniteSubsetsOfFinite
  <2>2. \A x \in B : Below(x) \in SUBSET B
    OBVIOUS
  <2> HIDE DEF Below
  <2>3. Family \subseteq SUBSET B /\ Family # {}
    BY <2>2
  <2>4. QED
    BY <2>1, <2>3
<1>2. PICK A \in Family : \A C \in Family : ~(<<C, A>> \in R)
  <2> HIDE DEF Family, R
  <2>1. IsWellFoundedOn(R, FiniteSubsetsOf(B))
    BY FS_StrictSubsetOrderingWellFounded DEF R
  <2>2. QED
    BY <1>1, <2>1, WFMin
<1>3. PICK b \in B : A = Below(b)
  OBVIOUS
<1>4. ASSUME NEW c \in B, c < b PROVE FALSE
  <2>0. \A x \in B : x \in Int
    OBVIOUS
  <2>1. Below(c) \in SUBSET B /\ Below(b) \in SUBSET B /\ Below(c) \subseteq Below(b)
    <3>1. ASSUME NEW y \in Below(c) PROVE y \in Below(b)
      <4>1. y \in Int /\ c \in Int /\ b \in Int /\ y \in B /\ y < c
        BY <2>0, <3>1
      <4>2. y < b
        BY <1>4, <4>1
      <4>3. QED
        BY <4>1, <4>2
    <3>2. QED
      BY <3>1
  <2>2. c \in Below(b) /\ c \notin Below(c)
    BY <1>4
  <2>3. <<Below(c), Below(b)>> \in R
    BY <2>1, <2>2 DEF StrictSubsetOrdering
  <2>4. QED
    BY <1>2, <1>3, <2>3
<1>5. QED
  BY <1>4

\* So are rules 2.0.0.
LEMMA RaceSecondRules ==
  ASSUME NEW S, IsFiniteSet(S), NEW rows \in [S -> RaceRows]
  PROVE  scoreRaceV2(rows) \in [S -> Nat] /\ FairRace(rows, scoreRaceV2(rows))
<1> DEFINE s == scoreRaceV2(rows)
           buckets == {bucketMs(rows[p].finishActiveMs) : p \in Finishers(rows)}
           first == CHOOSE b \in buckets : \A c \in buckets : b <= c
           Bonus(p) == Fading(bucketMs(rows[p].finishActiveMs) - first, RLGL_SPEED_WINDOW_MS)
<1>0. ASSUME NEW p \in S
      PROVE  /\ rows[p].state \in {"alive", "eliminated", "finished"}
             /\ rows[p].progress \in 0..100
             /\ rows[p].finishActiveMs \in Nat \cup {None}
             /\ (rows[p].state = "finished" <=> p \in Finishers(rows))
             /\ (rows[p].state = "finished" => rows[p].finishActiveMs \in Nat)
  BY RaceRow DEF Finishers, None
<1>1. ASSUME NEW p \in S
      PROVE  s[p] = CASE rows[p].state = "eliminated" -> 0
                      [] rows[p].state = "finished" -> BASE_MAX + Bonus(p)
                      [] OTHER -> (RLGL_TIMEOUT_MAX * rows[p].progress) \div 100
  <2>1. s[p] = CASE rows[p].state = "eliminated" -> 0
                 [] p \in Finishers(rows) -> BASE_MAX + Bonus(p)
                 [] OTHER -> (RLGL_TIMEOUT_MAX * rows[p].progress) \div 100
    BY DEF scoreRaceV2, RLGL_TRACK_LENGTH
  <2> HIDE DEF s, Bonus
  <2>2. QED
    BY <1>0, <2>1
<1>2. ASSUME NEW p \in S, rows[p].state = "finished"
      PROVE  /\ Bonus(p) \in Nat
             /\ \A q \in S : rows[q].state = "finished" /\ rows[p].finishActiveMs <= rows[q].finishActiveMs
                               => Bonus(q) <= Bonus(p)
  <2>1. ASSUME NEW q \in S, rows[q].state = "finished"
        PROVE  bucketMs(rows[q].finishActiveMs) \in buckets /\ bucketMs(rows[q].finishActiveMs) \in Nat
    <3>1. rows[q].finishActiveMs \in Nat \cup {None} /\ rows[q].finishActiveMs <= rows[q].finishActiveMs /\ q \in Finishers(rows)
      BY <1>0, <2>1
    <3>2. QED
      BY <3>1, Buckets
  <2>2. buckets \subseteq Nat
    BY <2>1, <1>0 DEF Finishers
  <2>3. first \in Nat /\ \A c \in buckets : first <= c
    <3>1. buckets # {}
      BY <1>2, <2>1
    <3>2. IsFiniteSet(buckets)
      <4> DEFINE f == [x \in Finishers(rows) |-> bucketMs(rows[x].finishActiveMs)]
      <4>1. IsFiniteSet(Finishers(rows))
        BY FS_Subset DEF Finishers
      <4>2. IsFiniteSet({f[x] : x \in Finishers(rows)})
        BY <4>1, ImageFinite
      <4>3. QED
        BY <4>2
    <3> HIDE DEF buckets
    <3>3. \E b \in buckets : \A c \in buckets : b <= c
      <4>1. buckets \subseteq Int
        BY <2>2
      <4>2. QED
        BY <4>1, <3>1, <3>2, Least
    <3>4. QED
      BY <2>2, <3>3
  <2> HIDE DEF first, buckets
  <2>4. ASSUME NEW q \in S, rows[q].state = "finished"
        PROVE  bucketMs(rows[q].finishActiveMs) - first \in Nat
    BY <2>1, <2>3, <2>4
  <2>5. Bonus(p) \in Nat
    <3> DEFINE gap == bucketMs(rows[p].finishActiveMs) - first
    <3>1. gap \in Nat /\ gap <= gap /\ RLGL_SPEED_WINDOW_MS \in Nat \ {0}
      BY <1>2, <2>4 DEF RLGL_SPEED_WINDOW_MS
    <3> HIDE DEF gap
    <3>2. Fading(gap, RLGL_SPEED_WINDOW_MS) \in Nat
      BY <3>1, Fades
    <3>3. QED
      BY <3>2 DEF gap
  <2>6. ASSUME NEW q \in S, rows[q].state = "finished", rows[p].finishActiveMs <= rows[q].finishActiveMs
        PROVE  Bonus(q) <= Bonus(p)
    <3>1. bucketMs(rows[p].finishActiveMs) <= bucketMs(rows[q].finishActiveMs)
      BY <1>0, <1>2, <2>6, Buckets
    <3>2. /\ bucketMs(rows[p].finishActiveMs) - first \in Nat /\ bucketMs(rows[q].finishActiveMs) - first \in Nat
          /\ bucketMs(rows[p].finishActiveMs) - first <= bucketMs(rows[q].finishActiveMs) - first
      BY <1>2, <2>1, <2>3, <2>4, <2>6, <3>1
    <3>3. RLGL_SPEED_WINDOW_MS \in Nat \ {0}
      BY DEF RLGL_SPEED_WINDOW_MS
    <3>4. QED
      BY <3>2, <3>3, Fades
  <2>7. QED
    BY <2>5, <2>6
<1> HIDE DEF s, Bonus
<1>3. ASSUME NEW p \in S
      PROVE  /\ s[p] \in Nat
             /\ rows[p].state = "finished" => s[p] >= BASE_MAX
             /\ rows[p].state # "finished" => s[p] < BASE_MAX
  BY <1>0, <1>1, <1>2 DEF BASE_MAX, POINT, RLGL_TIMEOUT_MAX
<1>4. s \in [S -> Nat]
  <2>1. s = [p \in S |-> s[p]]
    BY DEF scoreRaceV2, s
  <2>2. QED
    BY <1>3, <2>1
<1>5. FairRace(rows, s)
  <2>1. SUFFICES ASSUME NEW p \in S, NEW q \in S, rows[p].state = "finished"
                 PROVE  /\ rows[q].state # "finished" => s[p] > s[q]
                        /\ rows[q].state = "finished" /\ rows[p].finishActiveMs <= rows[q].finishActiveMs => s[p] >= s[q]
    BY DEF FairRace
  <2>2. ASSUME rows[q].state # "finished" PROVE s[p] > s[q]
    BY <1>3, <2>1, <2>2 DEF BASE_MAX, POINT
  <2>3. ASSUME rows[q].state = "finished", rows[p].finishActiveMs <= rows[q].finishActiveMs PROVE s[p] >= s[q]
    <3>1. Bonus(p) \in Nat /\ Bonus(q) \in Nat /\ Bonus(q) <= Bonus(p)
      BY <1>2, <2>1, <2>3
    <3>2. QED
      BY <1>1, <2>1, <2>3, <3>1 DEF BASE_MAX, POINT
  <2>4. QED
    BY <2>2, <2>3
<1>6. QED
  BY <1>4, <1>5 DEF s

\* An earlier lock is worth at least as much, and no lock nothing.
LEMMA Bonuses ==
  ASSUME NEW s \in Nat \cup {None}, NEW t \in Nat \cup {None}, NEW w \in Nat
  PROVE  /\ speedBonus(s, w) \in Nat /\ speedBonus(None, w) = 0
         /\ s # None /\ (t = None \/ s <= t) => speedBonus(t, w) <= speedBonus(s, w)
<1>1. speedBonus(None, w) = 0
  BY DEF speedBonus
<1>2. CASE w = 0
  BY <1>2 DEF speedBonus
<1>3. CASE w # 0
  <2>1. ASSUME NEW x \in Nat PROVE speedBonus(x, w) = Fading(bucketMs(x), w) /\ speedBonus(x, w) \in Nat
    <3>1. speedBonus(x, w) = Fading(bucketMs(x), w)
      BY <1>3 DEF speedBonus, None
    <3> DEFINE b == bucketMs(x)
    <3>2. b \in Nat /\ b <= b
      BY Buckets
    <3> HIDE DEF b
    <3>3. Fading(b, w) \in Nat
      BY <1>3, <3>2, Fades
    <3>4. QED
      BY <3>1, <3>3 DEF b
  <2>2. ASSUME NEW x \in Nat, NEW y \in Nat, x <= y PROVE speedBonus(y, w) <= speedBonus(x, w)
    <3>1. bucketMs(x) \in Nat /\ bucketMs(y) \in Nat /\ bucketMs(x) <= bucketMs(y)
      <4>1. x <= x /\ y <= y
        OBVIOUS
      <4>2. QED
        BY <2>2, <4>1, Buckets
    <3>2. Fading(bucketMs(y), w) <= Fading(bucketMs(x), w)
      BY <1>3, <3>1, Fades
    <3>3. QED
      BY <2>1, <3>2
  <2>3. QED
    BY <1>1, <2>1, <2>2 DEF None
<1>4. QED
  BY <1>2, <1>3

\* Whoever has the full answer is ahead of whoever has not, or did not answer; among
\* those who have it the earlier lock is never behind.
Earlier(r, t) == r.time_ms # None /\ (t.time_ms = None \/ r.time_ms <= t.time_ms)

LockBonus(r) == IF LockedManually(r) THEN speedBonus(r.time_ms, WindowMs) ELSE 0
HasTime(r) == r.time_ms \in Nat \cup {None} /\ (r.time_ms # None <=> LockedManually(r))

\* The bonus of a manual lock.
LEMMA LockBonuses ==
  ASSUME ResultsAssumption, NEW r, HasTime(r)
  PROVE  LockBonus(r) \in Nat /\ (r.time_ms = None => LockBonus(r) = 0)
<1>1. WindowMs \in Nat
  BY DEF ResultsAssumption
<1>2. speedBonus(r.time_ms, WindowMs) \in Nat
  BY <1>1, Bonuses DEF HasTime
<1>3. QED
  BY <1>2 DEF LockBonus, HasTime

\* Locking earlier never earns less.
LEMMA EarlierEarnsMore ==
  ASSUME ResultsAssumption, NEW r, NEW t, HasTime(r), HasTime(t), Earlier(r, t)
  PROVE  LockBonus(r) >= LockBonus(t)
<1>1. WindowMs \in Nat /\ LockBonus(r) \in Nat
  BY LockBonuses DEF ResultsAssumption
<1>2. CASE t.time_ms = None
  BY <1>1, <1>2, LockBonuses
<1>3. CASE t.time_ms # None
  <2>1. r.time_ms # None /\ r.time_ms <= t.time_ms /\ r.time_ms \in Nat \cup {None} /\ t.time_ms \in Nat \cup {None}
    BY <1>3 DEF Earlier, HasTime
  <2>2. LockBonus(r) = speedBonus(r.time_ms, WindowMs) /\ LockBonus(t) = speedBonus(t.time_ms, WindowMs)
    BY <1>3, <2>1 DEF LockBonus, HasTime
  <2>3. speedBonus(t.time_ms, WindowMs) <= speedBonus(r.time_ms, WindowMs) /\ speedBonus(r.time_ms, WindowMs) \in Nat
    BY <1>1, <2>1, Bonuses
  <2>4. speedBonus(t.time_ms, WindowMs) \in Nat
    BY <1>1, <2>1, Bonuses
  <2>5. QED
    BY <2>2, <2>3, <2>4
<1>4. QED
  BY <1>2, <1>3

GeoPoints(v, r) == geoRule(v, r.distanceKm, r.inside, r.time_ms, LockedManually(r), WindowMs)

\* What a pin earns: 80 points and a bonus inside the country, less than 80 outside.
LEMMA GeoValue ==
  ASSUME ResultsAssumption, NEW v \in BOOLEAN, NEW r \in GeoRows
  PROVE  /\ r.inside \in BOOLEAN /\ HasTime(r) /\ GeoPoints(v, r) \in Nat
         /\ r.inside => GeoPoints(v, r) = IF v THEN BASE_MAX + LockBonus(r) ELSE 100 * POINT
         /\ ~r.inside => GeoPoints(v, r) < IF v THEN BASE_MAX ELSE 100 * POINT
<1> DEFINE d == r.distanceKm
<1>1. /\ d \in Nat \cup {None} /\ r.inside \in BOOLEAN /\ (r.inside <=> d = 0) /\ HasTime(r)
  BY DEF GeoRows, Timed, LockedManually, HasTime
<1>2. LockBonus(r) \in Nat
  BY <1>1, LockBonuses
<1>3. CASE r.inside
  <2>1. d = 0
    BY <1>1, <1>3
  <2>2. v => GeoPoints(v, r) = BASE_MAX + LockBonus(r)
    BY <1>3, <2>1 DEF GeoPoints, geoRule, geoRoundScoreV2, LockBonus, None
  <2>3. ~v => GeoPoints(v, r) = 100 * POINT
    BY <2>1 DEF GeoPoints, geoRule, geoRoundScore, AtLeast, None, POINT, GEO_ZERO_DISTANCE_KM
  <2>4. QED
    BY <1>1, <1>2, <1>3, <2>2, <2>3 DEF BASE_MAX, POINT
<1>4. CASE ~r.inside
  <2>1. d = None \/ d \in Nat \ {0}
    BY <1>1, <1>4
  <2>2. v => GeoPoints(v, r) = IF d = None THEN 0 ELSE AtLeast(0, BASE_MAX - (POINT * AtLeast(0, d)) \div GEO_KM_PER_POINT)
    <3>1. d # None => ~(d <= 0)
      BY <2>1 DEF None
    <3>2. QED
      BY <1>4, <3>1 DEF GeoPoints, geoRule, geoRoundScoreV2
  <2>3. ~v => GeoPoints(v, r) = IF d = None THEN 0 ELSE AtLeast(0, 100 * POINT - (100 * POINT * AtLeast(0, d)) \div GEO_ZERO_DISTANCE_KM)
    BY DEF GeoPoints, geoRule, geoRoundScore
  <2> DEFINE points == GeoPoints(v, r)
  <2> HIDE DEF d, points
  <2>4. v => points \in Nat /\ points < BASE_MAX
    <3>1. ASSUME d \in Nat \ {0} PROVE AtLeast(0, BASE_MAX - (POINT * AtLeast(0, d)) \div GEO_KM_PER_POINT) \in Nat
          /\ AtLeast(0, BASE_MAX - (POINT * AtLeast(0, d)) \div GEO_KM_PER_POINT) < BASE_MAX
      <4>1. AtLeast(0, d) = d /\ POINT = 300 /\ GEO_KM_PER_POINT = 50 /\ BASE_MAX = 24000
        BY <3>1 DEF AtLeast, POINT, GEO_KM_PER_POINT, BASE_MAX
      <4>2. (300 * d) \div 50 = 6 * d
        BY <3>1
      <4>3. BASE_MAX - (POINT * AtLeast(0, d)) \div GEO_KM_PER_POINT = 24000 - 6 * d
        BY <4>1, <4>2
      <4>4. 24000 - 6 * d \in Int /\ 24000 - 6 * d < 24000
        BY <3>1
      <4>5. QED
        BY <4>1, <4>3, <4>4 DEF AtLeast
    <3>2. CASE d = None
      <4>1. 0 < BASE_MAX
        BY DEF BASE_MAX, POINT
      <4>2. v => points = 0
        BY <2>2, <3>2 DEF points
      <4>3. QED
        BY <4>1, <4>2
    <3>3. CASE d # None
      BY <2>1, <2>2, <3>1, <3>3 DEF points
    <3>4. QED
      BY <3>2, <3>3
  <2>5. ~v => GeoPoints(v, r) \in Nat /\ GeoPoints(v, r) < 100 * POINT
    BY <2>1, <2>3 DEF AtLeast, GEO_ZERO_DISTANCE_KM, None, POINT
  <2>6. QED
    BY <1>1, <1>4, <2>4, <2>5 DEF points
<1>5. QED
  BY <1>1, <1>3, <1>4

\* Both rule sets of the globe are fair.
LEMMA GeoFair ==
  ASSUME ResultsAssumption, NEW v \in BOOLEAN, NEW r \in GeoRows, NEW t \in GeoRows, r.inside
  PROVE  /\ GeoPoints(v, r) > 0
         /\ ~t.inside => GeoPoints(v, r) > GeoPoints(v, t)
         /\ t.inside /\ Earlier(r, t) => GeoPoints(v, r) >= GeoPoints(v, t)
<1>1. HasTime(r) /\ HasTime(t) /\ GeoPoints(v, t) \in Nat
      /\ GeoPoints(v, r) = IF v THEN BASE_MAX + LockBonus(r) ELSE 100 * POINT
  BY GeoValue
<1>2. /\ t.inside => GeoPoints(v, t) = IF v THEN BASE_MAX + LockBonus(t) ELSE 100 * POINT
      /\ ~t.inside => GeoPoints(v, t) < IF v THEN BASE_MAX ELSE 100 * POINT
  BY GeoValue
<1>3. LockBonus(r) \in Nat /\ LockBonus(t) \in Nat /\ (Earlier(r, t) => LockBonus(r) >= LockBonus(t))
  BY <1>1, LockBonuses, EarlierEarnsMore
<1>4. QED
  BY <1>1, <1>2, <1>3 DEF BASE_MAX, POINT

\* Every card is in its place only in the correct order.
LEMMA Positions ==
  ASSUME AnswersAssumption, NEW order \in Seq(Nat)
  PROVE  /\ correctPositions(CorrectOrder, order) \in 0..Len(CorrectOrder)
         /\ order = CorrectOrder => correctPositions(CorrectOrder, order) = Len(CorrectOrder)
         /\ order # CorrectOrder => correctPositions(CorrectOrder, order) < Len(CorrectOrder)
         /\ Len(CorrectOrder) \in Nat \ {0}
<1> DEFINE N == Len(CorrectOrder)
           Right == {i \in 1..N : order[i] = CorrectOrder[i]}
<1>1. CorrectOrder \in Seq(Nat) /\ N \in Nat \ {0} /\ Len(order) \in Nat
  BY DEF AnswersAssumption
<1>2. IsFiniteSet(1..N) /\ Cardinality(1..N) = N
  BY <1>1, FS_Interval
<1>3. IsFiniteSet(Right) /\ Cardinality(Right) \in Nat /\ Cardinality(Right) <= N
      /\ (Cardinality(Right) = N => Right = 1..N)
  BY <1>2, FS_Subset, FS_CardinalityType
<1>4. ASSUME order = CorrectOrder PROVE Right = 1..N /\ Len(order) = N
  BY <1>4
<1>5. ASSUME Right = 1..N, Len(order) = N PROVE order = CorrectOrder
  <2>1. order = [i \in 1..N |-> order[i]] /\ CorrectOrder = [i \in 1..N |-> CorrectOrder[i]]
    BY <1>1, <1>5
  <2>2. \A i \in 1..N : order[i] = CorrectOrder[i]
    BY <1>5
  <2>3. QED
    BY <2>1, <2>2
<1>6. correctPositions(CorrectOrder, order) = IF Len(order) # N THEN 0 ELSE Cardinality(Right)
  BY DEF correctPositions
<1> HIDE DEF Right, N
<1>7. QED
  BY <1>1, <1>2, <1>3, <1>4, <1>5, <1>6 DEF N

OrderPoints(v, r) == orderRule(v, CorrectOrder, r.order, r.time_ms, LockedManually(r), WindowMs)

\* What an order earns.
LEMMA OrderValue ==
  ASSUME ResultsAssumption, AnswersAssumption, NEW v \in BOOLEAN, NEW r \in OrderRows
  PROVE  /\ HasTime(r) /\ OrderPoints(v, r) \in Nat
         /\ r.order = CorrectOrder
              => OrderPoints(v, r) = IF v THEN 20 * POINT * Len(CorrectOrder) + LockBonus(r)
                                     ELSE 25 * POINT * Len(CorrectOrder)
         /\ r.order # CorrectOrder
              => OrderPoints(v, r) < IF v THEN 20 * POINT * Len(CorrectOrder) ELSE 25 * POINT * Len(CorrectOrder)
<1> DEFINE N == Len(CorrectOrder)
           place == correctPositions(CorrectOrder, r.order)
<1>1. r.order \in Seq(Nat) /\ HasTime(r)
  BY DEF OrderRows, Timed, LockedManually, HasTime
<1>2. /\ place \in 0..N /\ N \in Nat \ {0}
      /\ r.order = CorrectOrder => place = N
      /\ r.order # CorrectOrder => place < N
  BY <1>1, Positions
<1>3. LockBonus(r) \in Nat
  BY <1>1, LockBonuses
<1>4. v => OrderPoints(v, r) = 20 * POINT * place + (IF place = N THEN LockBonus(r) ELSE 0)
  <2>1. v => OrderPoints(v, r) = 20 * POINT * place + (IF place = N /\ N > 0 /\ LockedManually(r) THEN speedBonus(r.time_ms, WindowMs) ELSE 0)
    BY DEF OrderPoints, orderRule, scoreOrderV2
  <2>2. (IF place = N /\ N > 0 /\ LockedManually(r) THEN speedBonus(r.time_ms, WindowMs) ELSE 0)
          = IF place = N THEN LockBonus(r) ELSE 0
    BY <1>2 DEF LockBonus
  <2> HIDE DEF place, N
  <2>3. QED
    BY <2>1, <2>2
<1>5. ~v => OrderPoints(v, r) = 25 * POINT * place
  BY DEF OrderPoints, orderRule, scoreOrder
<1> HIDE DEF place, N
<1>6. QED
  BY <1>1, <1>2, <1>3, <1>4, <1>5 DEF N, POINT

\* Both rule sets of the ordering game are fair.
LEMMA OrderFair ==
  ASSUME ResultsAssumption, AnswersAssumption, NEW v \in BOOLEAN,
         NEW r \in OrderRows, NEW t \in OrderRows, r.order = CorrectOrder
  PROVE  /\ OrderPoints(v, r) > 0
         /\ t.order # CorrectOrder => OrderPoints(v, r) > OrderPoints(v, t)
         /\ t.order = CorrectOrder /\ Earlier(r, t) => OrderPoints(v, r) >= OrderPoints(v, t)
<1> DEFINE full == IF v THEN 20 * POINT * Len(CorrectOrder) ELSE 25 * POINT * Len(CorrectOrder)
<1>1. HasTime(r) /\ HasTime(t) /\ OrderPoints(v, t) \in Nat
      /\ OrderPoints(v, r) = full + (IF v THEN LockBonus(r) ELSE 0)
      /\ full \in Nat /\ full > 0
  <2>1. Len(CorrectOrder) \in Nat \ {0}
    BY DEF AnswersAssumption
  <2>2. QED
    BY <2>1, OrderValue DEF POINT
<1>2. /\ t.order = CorrectOrder => OrderPoints(v, t) = full + (IF v THEN LockBonus(t) ELSE 0)
      /\ t.order # CorrectOrder => OrderPoints(v, t) < full
  <2>1. Len(CorrectOrder) \in Nat \ {0}
    BY DEF AnswersAssumption
  <2>2. QED
    BY <2>1, OrderValue DEF POINT
<1>3. LockBonus(r) \in Nat /\ LockBonus(t) \in Nat /\ (Earlier(r, t) => LockBonus(r) >= LockBonus(t))
  BY <1>1, LockBonuses, EarlierEarnsMore
<1> HIDE DEF full
<1>4. QED
  BY <1>1, <1>2, <1>3

\* The rows of a game, and an attempt whose answers are rows of its own game.
Answered(g) == CASE g = "RLGL" -> RaceRows [] g = "GEO" -> GeoRows [] OTHER -> OrderRows

Attempts ==
  {a \in [game : Games, roundIndex : Nat, tie : BOOLEAN, among : SUBSET People, no : Nat \ {0},
          count : Nat \cup {None}, answers : UNION {[S -> RaceRows \cup GeoRows \cup OrderRows] : S \in SUBSET People},
          raw : UNION {[S -> Int] : S \in SUBSET People}, revealed : BOOLEAN, voided : BOOLEAN] :
     a.answers \in [DOMAIN a.answers -> Answered(a.game)]}

\* The scores s put whoever has the full answer first, and among those the earlier.
FairTo(a, p, q, s) ==
  Full(a, p) =>
    IF Full(a, q)
      THEN TimeOf(a, p) # None /\ (TimeOf(a, q) = None \/ TimeOf(a, p) <= TimeOf(a, q)) => s[p] >= s[q]
      ELSE s[p] > s[q]

FairScores(a, s) == \A p, q \in DOMAIN s : FairTo(a, p, q, s)

\* A race's scores, rows made up for those without one included.
LEMMA RaceRoundFair ==
  ASSUME NEW a \in Attempts, a.game = "RLGL", NEW scope, IsFiniteSet(scope), v2 \in BOOLEAN,
         a.count \in Nat, Cardinality(scope) <= a.count
  PROVE  score(a, scope) \in [scope -> Nat] /\ FairScores(a, score(a, scope))
<1> DEFINE rows == [p \in scope |-> IF p \in DOMAIN a.answers THEN a.answers[p]
                                    ELSE [state |-> "alive", progress |-> 0, finishActiveMs |-> None]]
           s == score(a, scope)
<1>1. a.answers \in [DOMAIN a.answers -> RaceRows]
  BY DEF Attempts, Answered
<1>2. [state |-> "alive", progress |-> 0, finishActiveMs |-> None] \in RaceRows
  BY DEF RaceRows, RLGL_TRACK_LENGTH
<1>3. rows \in [scope -> RaceRows]
  BY <1>1, <1>2
<1>4. s = IF v2 THEN scoreRaceV2(rows) ELSE scoreRace(rows, a.count)
  BY DEF score, scoreRaceRound, raceRule
<1>5. s \in [scope -> Nat] /\ FairRace(rows, s)
  <2> HIDE DEF rows, s
  <2>1. CASE v2
    BY <1>3, <1>4, <2>1, RaceSecondRules
  <2>2. CASE ~v2
    BY <1>3, <1>4, <2>2, RaceFirstRules
  <2>3. QED
    BY <2>1, <2>2
<1>6. ASSUME NEW p \in scope
      PROVE  /\ rows[p].state = "finished" <=> Full(a, p)
             /\ Full(a, p) => TimeOf(a, p) = rows[p].finishActiveMs /\ TimeOf(a, p) # None
  <2>1. rows[p] = IF p \in DOMAIN a.answers THEN a.answers[p]
                  ELSE [state |-> "alive", progress |-> 0, finishActiveMs |-> None]
    OBVIOUS
  <2>2. rows[p].state = "finished" => rows[p].finishActiveMs # None
    BY <1>3, RaceRow DEF None
  <2> HIDE DEF rows
  <2>3. CASE p \in DOMAIN a.answers
    BY <2>1, <2>2, <2>3 DEF Full, TimeOf
  <2>4. CASE p \notin DOMAIN a.answers
    BY <2>1, <2>4 DEF Full
  <2>5. QED
    BY <2>3, <2>4
<1> HIDE DEF rows, s
<1>7. ASSUME NEW p \in scope, NEW q \in scope PROVE FairTo(a, p, q, s)
  BY <1>3, <1>5, <1>6 DEF FairRace, FairTo
<1>8. FairScores(a, s)
  BY <1>5, <1>7 DEF FairScores
<1>9. QED
  BY <1>5, <1>8 DEF s

\* A globe round's scores.
LEMMA GeoRoundFair ==
  ASSUME ResultsAssumption, NEW a \in Attempts, a.game = "GEO", NEW scope, v2 \in BOOLEAN
  PROVE  score(a, scope) \in [scope -> Nat] /\ FairScores(a, score(a, scope))
<1> DEFINE s == score(a, scope)
<1>1. a.answers \in [DOMAIN a.answers -> GeoRows]
  BY DEF Attempts, Answered
<1>2. s = [p \in scope |-> IF p \notin DOMAIN a.answers THEN 0 ELSE GeoPoints(v2, a.answers[p])]
  BY DEF score, scoreGeoRound, GeoPoints
<1> HIDE DEF s
<1>3. ASSUME NEW p \in DOMAIN a.answers PROVE a.answers[p] \in GeoRows /\ GeoPoints(v2, a.answers[p]) \in Nat
  BY <1>1, GeoValue
<1>4. s \in [scope -> Nat]
  BY <1>2, <1>3
<1>5. ASSUME NEW p \in scope, NEW q \in scope PROVE FairTo(a, p, q, s)
  <2>1. SUFFICES ASSUME Full(a, p)
                 PROVE  /\ ~Full(a, q) => s[p] > s[q]
                        /\ Full(a, q) /\ TimeOf(a, p) # None /\ (TimeOf(a, q) = None \/ TimeOf(a, p) <= TimeOf(a, q)) => s[p] >= s[q]
    BY DEF FairTo
  <2>2. p \in DOMAIN a.answers /\ a.answers[p].inside /\ a.answers[p] \in GeoRows /\ s[p] = GeoPoints(v2, a.answers[p])
        /\ TimeOf(a, p) = a.answers[p].time_ms
    BY <1>2, <1>3, <2>1 DEF Full, TimeOf
  <2>3. CASE q \notin DOMAIN a.answers
    <3>1. s[q] = 0 /\ ~Full(a, q)
      BY <1>2, <2>3 DEF Full
    <3>2. QED
      BY <2>2, <3>1, GeoFair
  <2>4. CASE q \in DOMAIN a.answers
    <3>1. /\ s[q] = GeoPoints(v2, a.answers[q]) /\ (Full(a, q) <=> a.answers[q].inside)
          /\ TimeOf(a, q) = a.answers[q].time_ms /\ a.answers[q] \in GeoRows
      BY <1>2, <1>3, <2>4 DEF Full, TimeOf
    <3>2. QED
      BY <2>2, <3>1, GeoFair DEF Earlier
  <2>5. QED
    BY <2>3, <2>4
<1>6. FairScores(a, s)
  BY <1>4, <1>5 DEF FairScores
<1>7. QED
  BY <1>4, <1>6 DEF s

\* An ordering round's scores.
LEMMA OrderRoundFair ==
  ASSUME ResultsAssumption, AnswersAssumption, NEW a \in Attempts, a.game = "ORDER", NEW scope, v2 \in BOOLEAN
  PROVE  score(a, scope) \in [scope -> Nat] /\ FairScores(a, score(a, scope))
<1> DEFINE s == score(a, scope)
<1>1. a.answers \in [DOMAIN a.answers -> OrderRows]
  BY DEF Attempts, Answered
<1>2. s = [p \in scope |-> IF p \notin DOMAIN a.answers THEN 0 ELSE OrderPoints(v2, a.answers[p])]
  BY DEF score, scoreOrderRound, OrderPoints
<1> HIDE DEF s
<1>3. ASSUME NEW p \in DOMAIN a.answers PROVE a.answers[p] \in OrderRows /\ OrderPoints(v2, a.answers[p]) \in Nat
  BY <1>1, OrderValue
<1>4. s \in [scope -> Nat]
  BY <1>2, <1>3
<1>5. ASSUME NEW p \in scope, NEW q \in scope PROVE FairTo(a, p, q, s)
  <2>1. SUFFICES ASSUME Full(a, p)
                 PROVE  /\ ~Full(a, q) => s[p] > s[q]
                        /\ Full(a, q) /\ TimeOf(a, p) # None /\ (TimeOf(a, q) = None \/ TimeOf(a, p) <= TimeOf(a, q)) => s[p] >= s[q]
    BY DEF FairTo
  <2>2. p \in DOMAIN a.answers /\ a.answers[p].order = CorrectOrder /\ a.answers[p] \in OrderRows /\ s[p] = OrderPoints(v2, a.answers[p])
        /\ TimeOf(a, p) = a.answers[p].time_ms
    BY <1>2, <1>3, <2>1 DEF Full, TimeOf
  <2>3. CASE q \notin DOMAIN a.answers
    <3>1. s[q] = 0 /\ ~Full(a, q)
      BY <1>2, <2>3 DEF Full
    <3>2. QED
      BY <2>2, <3>1, OrderFair
  <2>4. CASE q \in DOMAIN a.answers
    <3>1. /\ s[q] = OrderPoints(v2, a.answers[q]) /\ (Full(a, q) <=> a.answers[q].order = CorrectOrder)
          /\ TimeOf(a, q) = a.answers[q].time_ms /\ a.answers[q] \in OrderRows
      BY <1>2, <1>3, <2>4 DEF Full, TimeOf
    <3>2. QED
      BY <2>2, <3>1, OrderFair DEF Earlier
  <2>5. QED
    BY <2>3, <2>4
<1>6. FairScores(a, s)
  BY <1>4, <1>5 DEF FairScores
<1>7. QED
  BY <1>4, <1>6 DEF s

\* What REVEAL_RESULTS writes is fair, in each game and under both rule sets.
LEMMA ScoresFair ==
  ASSUME ResultsAssumption, AnswersAssumption, NEW a \in Attempts, NEW scope, IsFiniteSet(scope), v2 \in BOOLEAN,
         a.count \in Nat, Cardinality(scope) <= a.count,
         NEW raw, raw = [p \in scope |-> Stored(score(a, scope)[p])]
  PROVE  raw \in [scope -> Int] /\ FairScores(a, raw)
<1> DEFINE s == score(a, scope)
<1>1. s \in [scope -> Nat] /\ FairScores(a, s)
  <2>1. a.game \in {"RLGL", "GEO", "ORDER"}
    BY DEF Attempts, Games
  <2>2. CASE a.game = "RLGL"
    BY <2>2, RaceRoundFair
  <2>3. CASE a.game = "GEO"
    BY <2>3, GeoRoundFair
  <2>4. CASE a.game = "ORDER"
    BY <2>4, OrderRoundFair
  <2> HIDE DEF s
  <2>5. QED
    BY <2>1, <2>2, <2>3, <2>4
<1> HIDE DEF s
<1>2. raw = [p \in scope |-> Stored(s[p])]
  BY DEF s
<1>3. ASSUME NEW p \in scope PROVE raw[p] \in Int /\ s[p] \in Int
  BY <1>1, <1>2, StoredKeepsOrder
<1>4. ASSUME NEW p \in scope, NEW q \in scope PROVE FairTo(a, p, q, raw)
  <2>1. raw[p] = Stored(s[p]) /\ raw[q] = Stored(s[q]) /\ s[p] \in Int /\ s[q] \in Int /\ raw[p] \in Int /\ raw[q] \in Int
    BY <1>2, <1>3
  <2>2. FairTo(a, p, q, s)
    BY <1>1 DEF FairScores
  <2>3. (s[p] > s[q] => raw[p] > raw[q]) /\ (s[p] >= s[q] => raw[p] >= raw[q])
    BY <2>1, StoredKeepsOrder
  <2>4. QED
    BY <2>2, <2>3 DEF FairTo
<1>5. raw \in [scope -> Int]
  BY <1>2, <1>3
<1>6. QED
  BY <1>4, <1>5 DEF FairScores

--------------------------------------------------------------------------------
(***************************************************************************)
(* Sums over a finite set: what the fold of the model computes.            *)
(***************************************************************************)

\* Induction over the subsets of a finite set, for the set of those that have a property.
LEMMA SubsetInduction ==
  ASSUME NEW S, IsFiniteSet(S), NEW Good, {} \in Good,
         \A T \in SUBSET S : T # {} /\ (\A a \in T : T \ {a} \in Good) => T \in Good
  PROVE  \A T \in SUBSET S : T \in Good
<1> DEFINE Bad == {T \in SUBSET S : T \notin Good}
           R == StrictSubsetOrdering(S)
<1>1. SUFFICES ASSUME Bad # {} PROVE FALSE
  OBVIOUS
<1>2. PICK T \in Bad : \A U \in Bad : ~(<<U, T>> \in R)
  <2>1. IsWellFoundedOn(R, FiniteSubsetsOf(S)) /\ Bad \subseteq FiniteSubsetsOf(S)
    BY FS_StrictSubsetOrderingWellFounded, FS_FiniteSubsetsOfFinite
  <2> HIDE DEF Bad, R
  <2>2. QED
    BY <1>1, <2>1, WFMin
<1>3. ASSUME NEW a \in T PROVE T \ {a} \in Good
  <2>1. T \ {a} \in SUBSET S /\ <<T \ {a}, T>> \in R
    BY <1>2 DEF StrictSubsetOrdering
  <2>2. QED
    BY <1>2, <2>1
<1>4. QED
  BY <1>2, <1>3

\* The sums of f over the subsets of S, whichever element is added last.
IsSumTable(C, f, S) ==
  /\ C \in [SUBSET S -> Int] /\ C[{}] = 0
  /\ \A T \in SUBSET S : \A x \in T : C[T] = f[x] + C[T \ {x}]

\* A table of sums with one element more.
LEMMA TableGrows ==
  ASSUME NEW S, NEW f, NEW a \in S, f[a] \in Int, \A x \in S : f[x] \in Int, NEW C, IsSumTable(C, f, S \ {a})
  PROVE  \E D : IsSumTable(D, f, S)
<1> DEFINE D == [T \in SUBSET S |-> IF a \in T THEN f[a] + C[T \ {a}] ELSE C[T]]
<1>1. \A T \in SUBSET S : T \ {a} \in SUBSET (S \ {a}) /\ (a \notin T => T \in SUBSET (S \ {a}))
  OBVIOUS
<1>2. D \in [SUBSET S -> Int] /\ D[{}] = 0
  BY <1>1 DEF IsSumTable
<1>3. ASSUME NEW T \in SUBSET S, NEW x \in T PROVE D[T] = f[x] + D[T \ {x}]
  <2>0. T \ {x} \in SUBSET S
    OBVIOUS
  <2>1. CASE x = a
    BY <2>0, <2>1
  <2>2. CASE x # a /\ a \notin T
    <3>1. C[T] = f[x] + C[T \ {x}]
      BY <2>2 DEF IsSumTable
    <3>2. QED
      BY <2>0, <2>2, <3>1
  <2>3. CASE x # a /\ a \in T
    <3>1. T \ {a} \in SUBSET (S \ {a}) /\ x \in T \ {a} /\ (T \ {a}) \ {x} = (T \ {x}) \ {a}
      BY <2>3
    <3>2. C[T \ {a}] = f[x] + C[(T \ {x}) \ {a}]
      <4>1. \A U \in SUBSET (S \ {a}) : \A y \in U : C[U] = f[y] + C[U \ {y}]
        BY DEF IsSumTable
      <4>2. C[T \ {a}] = f[x] + C[(T \ {a}) \ {x}]
        <5> DEFINE U == T \ {a}
        <5>1. U \in SUBSET (S \ {a}) /\ x \in U
          BY <3>1
        <5> HIDE DEF U, D
        <5>2. C[U] = f[x] + C[U \ {x}]
          BY <4>1, <5>1
        <5>3. QED
          BY <5>2 DEF U
      <4>3. QED
        BY <3>1, <4>2
    <3>3. (T \ {x}) \ {a} \in SUBSET (S \ {a}) /\ C[(T \ {x}) \ {a}] \in Int /\ f[x] \in Int
      BY <3>1 DEF IsSumTable
    <3>4. D[T] = f[a] + C[T \ {a}] /\ D[T \ {x}] = f[a] + C[(T \ {x}) \ {a}]
      BY <2>0, <2>3
    <3> HIDE DEF D
    <3>5. QED
      BY <3>2, <3>3, <3>4
  <2>4. QED
    BY <2>1, <2>2, <2>3
<1>4. IsSumTable(D, f, S)
  <2> HIDE DEF D
  <2>1. QED
    BY <1>2, <1>3 DEF IsSumTable
<1>5. QED
  BY <1>4

\* There is such a table, built one element at a time.
LEMMA TableExists ==
  ASSUME NEW S, IsFiniteSet(S), NEW f, \A x \in S : f[x] \in Int
  PROVE  \E C : IsSumTable(C, f, S)
<1> DEFINE Good == {T \in SUBSET S : \E C : IsSumTable(C, f, T)}
<1>1. {} \in Good
  <2>1. IsSumTable([T \in SUBSET {} |-> 0], f, {})
    BY DEF IsSumTable
  <2>2. QED
    BY <2>1
<1>2. ASSUME NEW T \in SUBSET S, NEW a \in T, T \ {a} \in Good PROVE T \in Good
  <2>1. PICK C : IsSumTable(C, f, T \ {a})
    BY <1>2
  <2>2. \E D : IsSumTable(D, f, T)
    BY <2>1, TableGrows
  <2>3. QED
    BY <2>2
<1>3. ASSUME NEW T \in SUBSET S, T # {}, \A a \in T : T \ {a} \in Good PROVE T \in Good
  <2>1. PICK a \in T : T \ {a} \in Good
    BY <1>3
  <2> HIDE DEF Good
  <2>2. QED
    BY <1>2, <2>1
<1>4. S \in Good
  <2> HIDE DEF Good
  <2>1. S \in SUBSET S
    OBVIOUS
  <2>2. QED
    BY <1>1, <1>3, <2>1, SubsetInduction
<1>5. QED
  BY <1>4

\* What the fold computes: an element of its choice is added last.
IsFold(g, f, S) ==
  g = [T \in SUBSET S |-> IF T = {} THEN 0
                          ELSE f[CHOOSE x \in T : TRUE] + g[T \ {CHOOSE x \in T : TRUE}]]

\* The fold is the table.
LEMMA FoldIsTable ==
  ASSUME NEW S, IsFiniteSet(S), NEW f, NEW C, IsSumTable(C, f, S), NEW g, IsFold(g, f, S)
  PROVE  g = C
<1> DEFINE Good == {T \in SUBSET S : g[T] = C[T]}
           Pick(T) == CHOOSE x \in T : TRUE
<1>1. {} \in Good
  BY DEF IsSumTable, IsFold
<1>2. ASSUME NEW T \in SUBSET S, T # {}, \A b \in T : T \ {b} \in Good PROVE T \in Good
  <2>1. Pick(T) \in T
    BY <1>2
  <2>2. g[T] = f[Pick(T)] + g[T \ {Pick(T)}]
    BY <1>2 DEF IsFold
  <2> HIDE DEF Pick
  <2>3. QED
    BY <1>2, <2>1, <2>2 DEF IsSumTable
<1>3. \A T \in SUBSET S : g[T] = C[T]
  <2>1. \A T \in SUBSET S : T \in Good
    <3> HIDE DEF Good
    <3>1. QED
      BY <1>1, <1>2, SubsetInduction
  <2>2. QED
    BY <2>1
<1>4. g = [T \in SUBSET S |-> g[T]] /\ C = [T \in SUBSET S |-> C[T]]
  BY DEF IsSumTable, IsFold
<1>5. QED
  BY <1>3, <1>4

\* The sum of f over S, as the model writes it.
SumOver(f, S) == MapThenSumSet(LAMBDA i : f[i], S)

\* The fold adds up a function on a finite set, in whatever order it takes them.
LEMMA SumIsTable ==
  ASSUME NEW S, IsFiniteSet(S), NEW f, NEW C, IsSumTable(C, f, S)
  PROVE  SumOver(f, S) = C[S]
<1>1. IsFold(C, f, S)
  <2>1. ASSUME NEW T \in SUBSET S, T # {} PROVE (CHOOSE x \in T : TRUE) \in T
    BY <2>1
  <2>2. C = [T \in SUBSET S |-> C[T]]
    BY DEF IsSumTable
  <2>3. \A T \in SUBSET S : C[T] = IF T = {} THEN 0
                                ELSE f[CHOOSE x \in T : TRUE] + C[T \ {CHOOSE x \in T : TRUE}]
    BY <2>1 DEF IsSumTable
  <2>4. QED
    BY <2>2, <2>3 DEF IsFold
<1>2. IsFold(CHOOSE g : IsFold(g, f, S), f, S)
  BY <1>1
<1>3. (CHOOSE g : IsFold(g, f, S)) = C
  BY <1>2, FoldIsTable
<1>4. SumOver(f, S) = (CHOOSE g : IsFold(g, f, S))[S]
  BY DEF IsFold, SumOver, MapThenSumSet, MapThenFoldSet
<1>5. QED
  BY <1>3, <1>4

\* A sum over a finite set is an integer, and one element more adds its value.
LEMMA SumAdd ==
  ASSUME NEW S, IsFiniteSet(S), NEW f, \A x \in S : f[x] \in Int, NEW a, a \notin S, f[a] \in Int
  PROVE  SumOver(f, S \cup {a}) = f[a] + SumOver(f, S) /\ SumOver(f, S) \in Int
<1> DEFINE T == S \cup {a}
<1>1. IsFiniteSet(T) /\ \A x \in T : f[x] \in Int
  BY FS_AddElement
<1>2. PICK C : IsSumTable(C, f, T)
  <2> HIDE DEF T
  <2>1. QED
    BY <1>1, TableExists
<1>3. IsSumTable([U \in SUBSET S |-> C[U]], f, S)
  BY <1>2 DEF IsSumTable
<1>4. SumOver(f, S) = C[S]
  BY <1>3, SumIsTable
<1>5. SumOver(f, T) = C[T]
  <2> HIDE DEF T
  <2>1. QED
    BY <1>1, <1>2, SumIsTable
<1>6. C[T] = f[a] + C[S] /\ C[S] \in Int
  <2>1. T \ {a} = S /\ a \in T /\ T \in SUBSET T /\ S \in SUBSET T
    OBVIOUS
  <2> HIDE DEF T
  <2>2. QED
    BY <1>2, <2>1 DEF IsSumTable
<1>7. QED
  BY <1>4, <1>5, <1>6

\* Nothing adds up to 0.
LEMMA SumEmpty == ASSUME NEW f PROVE SumOver(f, {}) = 0
<1>1. IsSumTable([T \in SUBSET {} |-> 0], f, {})
  BY DEF IsSumTable
<1>2. QED
  BY <1>1, SumIsTable, FS_EmptySet

\* Only the values on the set matter.
LEMMA SumSame ==
  ASSUME NEW S, IsFiniteSet(S), NEW f, NEW h, \A x \in S : f[x] \in Int /\ h[x] = f[x]
  PROVE  SumOver(h, S) = SumOver(f, S)
<1>1. PICK C : IsSumTable(C, f, S)
  BY TableExists
<1>2. IsSumTable(C, h, S)
  BY <1>1 DEF IsSumTable
<1>3. QED
  BY <1>1, <1>2, SumIsTable

Gains(rows, C, p) == [i \in C |-> IF p \in DOMAIN rows[i].raw THEN rows[i].raw[p] ELSE 0]

\* gameRawTotal adds up the points of the rows that count.
LEMMA RawIsSum == \A g, p : gameRawTotal(g, p) = SumOver(Gains(attempts, Counted(g), p), Counted(g))
<1> SUFFICES ASSUME NEW g, NEW p
             PROVE  gameRawTotal(g, p) = SumOver(Gains(attempts, Counted(g), p), Counted(g))
  OBVIOUS
<1> DEFINE C == Counted(g)
           f == Gains(attempts, C, p)
           Sums(h) == h = [T \in SUBSET C |-> IF T = {} THEN 0
                             ELSE (IF p \in DOMAIN attempts[CHOOSE x \in T : TRUE].raw
                                     THEN attempts[CHOOSE x \in T : TRUE].raw[p] ELSE 0)
                                  + h[T \ {CHOOSE x \in T : TRUE}]]
<1>1. \A h : Sums(h) <=> IsFold(h, f, C)
  <2>1. ASSUME NEW T \in SUBSET C, T # {} PROVE (CHOOSE x \in T : TRUE) \in C
    BY <2>1
  <2>2. ASSUME NEW x \in C PROVE f[x] = IF p \in DOMAIN attempts[x].raw THEN attempts[x].raw[p] ELSE 0
    BY DEF Gains
  <2> HIDE DEF C, f
  <2>3. ASSUME NEW h, NEW T \in SUBSET C
        PROVE  (IF T = {} THEN 0
                ELSE (IF p \in DOMAIN attempts[CHOOSE x \in T : TRUE].raw
                        THEN attempts[CHOOSE x \in T : TRUE].raw[p] ELSE 0)
                     + h[T \ {CHOOSE x \in T : TRUE}])
               = (IF T = {} THEN 0 ELSE f[CHOOSE x \in T : TRUE] + h[T \ {CHOOSE x \in T : TRUE}])
    BY <2>1, <2>2
  <2>4. QED
    BY <2>3 DEF IsFold
<1>2. (CHOOSE h : Sums(h)) = (CHOOSE h : IsFold(h, f, C))
  <2> HIDE DEF Sums, f, C
  <2>1. QED
    BY <1>1
<1>3. SumOver(f, C) = (CHOOSE h : IsFold(h, f, C))[C]
  BY DEF IsFold, SumOver, MapThenSumSet, MapThenFoldSet
<1>4. gameRawTotal(g, p) = (CHOOSE h : Sums(h))[C]
  BY DEF gameRawTotal, MapThenSumSet, MapThenFoldSet
<1>5. QED
  BY <1>2, <1>3, <1>4

\* A total adds up the scores of the games.
LEMMA TotalIsSum == \A p : Total(p) = SumOver([g \in Games |-> gameScoreOf(g, p)], Games)
<1> SUFFICES ASSUME NEW p PROVE Total(p) = SumOver([g \in Games |-> gameScoreOf(g, p)], Games)
  OBVIOUS
<1> DEFINE f == [g \in Games |-> gameScoreOf(g, p)]
           Sums(h) == h = [T \in SUBSET Games |-> IF T = {} THEN 0
                             ELSE gameScoreOf(CHOOSE x \in T : TRUE, p) + h[T \ {CHOOSE x \in T : TRUE}]]
<1>1. \A h : Sums(h) <=> IsFold(h, f, Games)
  <2>1. ASSUME NEW T \in SUBSET Games, T # {} PROVE (CHOOSE x \in T : TRUE) \in Games
    BY <2>1
  <2>2. ASSUME NEW x \in Games PROVE f[x] = gameScoreOf(x, p)
    OBVIOUS
  <2> HIDE DEF f
  <2>3. ASSUME NEW h, NEW T \in SUBSET Games
        PROVE  (IF T = {} THEN 0 ELSE gameScoreOf(CHOOSE x \in T : TRUE, p) + h[T \ {CHOOSE x \in T : TRUE}])
               = (IF T = {} THEN 0 ELSE f[CHOOSE x \in T : TRUE] + h[T \ {CHOOSE x \in T : TRUE}])
    BY <2>1, <2>2
  <2>4. QED
    BY <2>3 DEF IsFold
<1>2. (CHOOSE h : Sums(h)) = (CHOOSE h : IsFold(h, f, Games))
  <2> HIDE DEF Sums, f
  <2>1. QED
    BY <1>1
<1>3. SumOver(f, Games) = (CHOOSE h : IsFold(h, f, Games))[Games]
  BY DEF IsFold, SumOver, MapThenSumSet, MapThenFoldSet
<1>4. Total(p) = (CHOOSE h : Sums(h))[Games]
  BY DEF Total, MapThenSumSet, MapThenFoldSet
<1>5. QED
  BY <1>2, <1>3, <1>4

--------------------------------------------------------------------------------
(***************************************************************************)
(* Attempts and what the actions do to them.                               *)
(***************************************************************************)

\* The stages of a round in play; an attempt that may count; those that count.
Shown == {"Ready", "InputLocked", "Reveal"}
Standing(a) == ~a.tie /\ ~a.voided
Counting(g) == {i \in DOMAIN attempts : Counts(attempts[i], g)}

\* What the rows hold.
ResultsTypes ==
  /\ v2 \in BOOLEAN /\ game \in Games /\ present \subseteq People
  /\ tie_break \in [People -> Int]
  /\ attempts \in Seq(Attempts) /\ Len(attempts) >= 2

\* At most one attempt of a round stands, and in a round the current one is the latest of
\* the game in play, standing, not revealed before REVEAL_RESULTS, and raced by no more
\* than were there at its start.
RoundsInv ==
  /\ \A i \in DOMAIN attempts : attempts[i].tie => attempts[i].game = "ORDER"
  /\ \A i, j \in DOMAIN attempts :
       Standing(attempts[i]) /\ Standing(attempts[j]) /\ attempts[i].game = attempts[j].game
         /\ attempts[i].roundIndex = attempts[j].roundIndex => i = j
  /\ state \in Shown /\ ~Current.tie =>
       /\ Current.game = game /\ ~Current.voided
       /\ \A i \in DOMAIN attempts : ~attempts[i].tie /\ attempts[i].game = game
                                       => attempts[i].roundIndex <= Current.roundIndex
  /\ state \in {"Ready", "InputLocked"} => ~Current.revealed
  /\ state = "Reveal" => ~Current.tie
  /\ state = "InputLocked" => Current.count \in Nat /\ Cardinality(present) <= Current.count

ResultsInv == ResultsTypes /\ RoundsInv

\* The columns of an attempt.
LEMMA AttemptFields ==
  ASSUME NEW a \in Attempts
  PROVE  /\ a.game \in Games /\ a.roundIndex \in Nat /\ a.tie \in BOOLEAN /\ a.among \in SUBSET People
         /\ a.no \in Nat \ {0} /\ a.count \in Nat \cup {None} /\ a.revealed \in BOOLEAN /\ a.voided \in BOOLEAN
         /\ a.answers \in [DOMAIN a.answers -> Answered(a.game)] /\ DOMAIN a.answers \subseteq People
         /\ a.raw \in [DOMAIN a.raw -> Int] /\ DOMAIN a.raw \subseteq People
BY DEF Attempts

\* Storing answers leaves an attempt an attempt.
LEMMA AnsweredAttempt ==
  ASSUME NEW a \in Attempts, NEW S \in SUBSET People, NEW got \in [S -> Answered(a.game)], NEW c \in Nat
  PROVE  [a EXCEPT !.answers = got, !.count = c] \in Attempts
<1>1. got \in UNION {[P -> RaceRows \cup GeoRows \cup OrderRows] : P \in SUBSET People}
  BY DEF Answered
<1>2. got \in [DOMAIN got -> Answered(a.game)]
  OBVIOUS
<1>3. QED
  BY <1>1, <1>2 DEF Attempts

\* So does storing its scores,
LEMMA ScoredAttempt ==
  ASSUME NEW a \in Attempts, NEW S \in SUBSET People, NEW raw \in [S -> Int]
  PROVE  [a EXCEPT !.revealed = TRUE, !.raw = raw] \in Attempts
<1>1. raw \in UNION {[P -> Int] : P \in SUBSET People} /\ TRUE \in BOOLEAN
  OBVIOUS
<1>2. QED
  BY <1>1 DEF Attempts

\* and voiding it.
LEMMA VoidedAttempt ==
  ASSUME NEW a \in Attempts
  PROVE  [a EXCEPT !.voided = TRUE] \in Attempts
<1>1. TRUE \in BOOLEAN
  OBVIOUS
<1>2. QED
  BY <1>1 DEF Attempts

\* What repo.create inserts is an attempt.
LEMMA PreparedIsAttempt ==
  ASSUME attempts \in Seq(Attempts), NEW g \in Games, NEW k \in Nat, NEW tie \in BOOLEAN, NEW among \in SUBSET People
  PROVE  Prepared(g, k, tie, among) \in Attempts
<1> DEFINE no == 1 + Cardinality({i \in DOMAIN attempts : attempts[i].game = g /\ attempts[i].roundIndex = k})
<1>1. no \in Nat \ {0}
  <2>1. IsFiniteSet(DOMAIN attempts)
    BY FS_Interval
  <2>2. IsFiniteSet({i \in DOMAIN attempts : attempts[i].game = g /\ attempts[i].roundIndex = k})
    BY <2>1, FS_Subset
  <2>3. QED
    BY <2>2, FS_CardinalityType
<1>2. NoScores \in UNION {[P -> RaceRows \cup GeoRows \cup OrderRows] : P \in SUBSET People}
      /\ NoScores \in UNION {[P -> Int] : P \in SUBSET People} /\ NoScores \in [DOMAIN NoScores -> Answered(g)]
  <2>1. \A X : NoScores \in [{} -> X] /\ DOMAIN NoScores = {}
    BY DEF NoScores
  <2>2. {} \in SUBSET People
    OBVIOUS
  <2>3. QED
    BY <2>1, <2>2
<1>3. Prepared(g, k, tie, among) =
        [game |-> g, roundIndex |-> k, tie |-> tie, among |-> among, no |-> no,
         count |-> None, answers |-> NoScores, raw |-> NoScores, revealed |-> FALSE, voided |-> FALSE]
  BY DEF Prepared
<1> HIDE DEF no
<1>4. QED
  BY <1>1, <1>2, <1>3 DEF Attempts

\* It is neither revealed nor voided.
LEMMA PreparedFields ==
  ASSUME NEW g, NEW k, NEW tie, NEW among
  PROVE  /\ Prepared(g, k, tie, among).game = g /\ Prepared(g, k, tie, among).roundIndex = k
         /\ Prepared(g, k, tie, among).tie = tie
         /\ ~Prepared(g, k, tie, among).revealed /\ ~Prepared(g, k, tie, among).voided
BY DEF Prepared

\* A table of attempts with one replaced.
LEMMA OneChanged ==
  ASSUME NEW old \in Seq(Attempts), NEW n \in DOMAIN old, NEW b \in Attempts,
         NEW new, new = [old EXCEPT ![n] = b]
  PROVE  /\ new \in Seq(Attempts) /\ Len(new) = Len(old) /\ DOMAIN new = DOMAIN old
         /\ new[n] = b /\ \A i \in DOMAIN old : i # n => new[i] = old[i]
<1>1. Len(old) \in Nat /\ DOMAIN old = 1..Len(old) /\ n \in 1..Len(old)
  BY LenProperties
<1>2. /\ new \in Seq(Attempts) /\ Len(new) = Len(old)
      /\ \A j \in 1..Len(old) : new[j] = IF j = n THEN b ELSE old[j]
  BY <1>1, ExceptSeq
<1>3. DOMAIN new = 1..Len(new)
  BY <1>2, LenProperties
<1>4. QED
  BY <1>1, <1>2, <1>3

\* A table of attempts with one more.
LEMMA OneAdded ==
  ASSUME NEW old \in Seq(Attempts), NEW b \in Attempts, NEW new, new = Append(old, b)
  PROVE  /\ new \in Seq(Attempts) /\ Len(new) = Len(old) + 1 /\ Len(new) \in Nat /\ DOMAIN new = DOMAIN old \cup {Len(new)}
         /\ Len(new) \notin DOMAIN old /\ new[Len(new)] = b /\ \A i \in DOMAIN old : new[i] = old[i]
<1>1. Len(old) \in Nat /\ DOMAIN old = 1..Len(old)
  BY LenProperties
<1>2. /\ Append(old, b) \in Seq(Attempts) /\ Len(Append(old, b)) = Len(old) + 1
      /\ (\A i \in 1..Len(old) : Append(old, b)[i] = old[i]) /\ Append(old, b)[Len(old) + 1] = b
  BY AppendProperties
<1>3. DOMAIN Append(old, b) = 1..Len(Append(old, b))
  BY <1>2, LenProperties
<1>4. new \in Seq(Attempts) /\ Len(new) = Len(old) + 1 /\ DOMAIN new = 1..Len(old) + 1 /\ new[Len(old) + 1] = b
  BY <1>2, <1>3
<1>5. \A i \in DOMAIN old : new[i] = old[i]
  BY <1>1, <1>2
<1> DEFINE n == Len(old)
<1>6. n \in Nat => 1..n + 1 = 1..n \cup {n + 1} /\ n + 1 \notin 1..n
  OBVIOUS
<1> HIDE DEF n
<1>7. QED
  BY <1>1, <1>4, <1>5, <1>6 DEF n

\* There is always a current attempt.
LEMMA CurrentIsAttempt ==
  ASSUME ResultsTypes
  PROVE  /\ Len(attempts) \in DOMAIN attempts /\ Current \in Attempts /\ DOMAIN attempts = 1..Len(attempts)
         /\ \A i \in DOMAIN attempts : attempts[i] \in Attempts
BY DEF ResultsTypes, Current

\* What the actions do to the attempts.
LEMMA PlayedAttempts ==
  ASSUME ResultsAssumption, AnswersAssumption, ResultsInv, RoundPlayed
  PROVE  \E b \in Attempts :
           /\ attempts' = [attempts EXCEPT ![Len(attempts)] = b]
           /\ b.game = Current.game /\ b.roundIndex = Current.roundIndex /\ b.tie = Current.tie
           /\ b.revealed = Current.revealed /\ b.voided = Current.voided /\ b.raw = Current.raw
           /\ b.count = Cardinality(present) /\ b.count \in Nat
<1> DEFINE n == Len(attempts)
           rows == CASE Current.tie -> TieRows
                     [] ~Current.tie /\ Current.no = 1 /\ Current.roundIndex = 0 -> OutcomesOf[game]
                     [] OTHER -> ReplayOf[game]
<1>1. Current \in Attempts /\ n \in DOMAIN attempts
  BY CurrentIsAttempt DEF ResultsInv
<1>2. IsFiniteSet(present) /\ Cardinality(present) \in Nat
  BY FS_Subset, FS_CardinalityType DEF ResultsInv, ResultsTypes, ResultsAssumption
<1>3. rows \subseteq Answered(Current.game)
  <2>1. Current.tie => Current.game = "ORDER"
    BY <1>1 DEF ResultsInv, RoundsInv, Current
  <2>2. ~Current.tie => Current.game = game
    BY DEF ResultsInv, RoundsInv, RoundPlayed, Shown
  <2>3. Current.game \in {"RLGL", "GEO", "ORDER"} /\ Current.tie \in BOOLEAN
    BY <1>1, AttemptFields DEF Games
  <2>4. TieRows \subseteq OrderRows
    BY DEF AnswersAssumption
  <2>5. \A f \in {OutcomesOf, ReplayOf} : f["RLGL"] \subseteq RaceRows /\ f["GEO"] \subseteq GeoRows /\ f["ORDER"] \subseteq OrderRows
    BY DEF AnswersAssumption
  <2>6. CASE Current.tie
    BY <2>1, <2>4, <2>6 DEF Answered
  <2>7. CASE ~Current.tie
    <3>1. rows = OutcomesOf[game] \/ rows = ReplayOf[game]
      BY <2>7
    <3> HIDE DEF rows
    <3>2. QED
      BY <2>2, <2>3, <2>5, <2>7, <3>1 DEF Answered
  <2>8. QED
    BY <2>6, <2>7
<1>4. PICK S \in SUBSET present : \E got \in [S -> rows] :
        attempts' = [attempts EXCEPT ![n].answers = got, ![n].count = Cardinality(present)]
  <2>1. Current.among \cap present \subseteq present
    OBVIOUS
  <2> HIDE DEF rows
  <2>2. QED
    BY <2>1 DEF RoundPlayed, rows
<1>9. PICK got \in [S -> rows] :
        attempts' = [attempts EXCEPT ![n].answers = got, ![n].count = Cardinality(present)]
  BY <1>4
<1> DEFINE b == [Current EXCEPT !.answers = got, !.count = Cardinality(present)]
<1>5. b \in Attempts
  <2>1. got \in [S -> Answered(Current.game)] /\ S \in SUBSET People
    BY <1>3, <1>9 DEF ResultsInv, ResultsTypes
  <2>2. QED
    BY <1>1, <1>2, <2>1, AnsweredAttempt
<1>6. attempts' = [attempts EXCEPT ![n] = b]
  BY <1>1, <1>9 DEF Current, ResultsInv, ResultsTypes
<1>7. /\ b.game = Current.game /\ b.roundIndex = Current.roundIndex /\ b.tie = Current.tie
      /\ b.revealed = Current.revealed /\ b.voided = Current.voided /\ b.raw = Current.raw
      /\ b.count = Cardinality(present)
  BY <1>1 DEF Attempts
<1> HIDE DEF b
<1>8. QED
  BY <1>2, <1>5, <1>6, <1>7

\* tieBreakValues gives everybody a number, however the tiers fall.
LEMMA TierValues ==
  ASSUME NEW answers, IsFiniteSet(DOMAIN answers), \A p \in DOMAIN answers : answers[p].correctPositions \in Nat
  PROVE  tieBreakValues(answers) \in [DOMAIN answers -> Int]
<1> DEFINE tiers == speedTier(answers)
           most == 1 + Cardinality({tiers[p] : p \in DOMAIN tiers})
           timed == {p \in DOMAIN answers : answers[p].correctPositions = 4 /\ answers[p].timeMs # None}
<1>1. IsFiniteSet(timed) /\ Cardinality(timed) \in Nat
  BY FS_Subset, FS_CardinalityType
<1>2. DOMAIN tiers = timed /\ \A p \in timed : tiers[p] \in Nat
  <2> DEFINE n == Cardinality(timed)
             rest == CHOOSE rest : rest = [k \in 0..n |->
                       IF k = 0 THEN timed
                       ELSE {p \in rest[k - 1] : \E q \in rest[k - 1] :
                               answers[p].timeMs - answers[q].timeMs >= TIEBREAK_LOCK_EPSILON_MS}]
  <2>1. tiers = [p \in timed |-> 1 + Cardinality({k \in 1..n : p \in rest[k]})]
    BY DEF speedTier
  <2> HIDE DEF rest, timed, tiers
  <2>2. ASSUME NEW p PROVE Cardinality({k \in 1..n : p \in rest[k]}) \in Nat
    <3>1. 1 \in Int /\ n \in Int /\ {k \in 1..n : p \in rest[k]} \subseteq 1..n
      BY <1>1
    <3> HIDE DEF n
    <3>2. IsFiniteSet(1..n)
      BY <3>1, FS_Interval
    <3>3. QED
      BY <3>1, <3>2, FS_Subset, FS_CardinalityType
  <2> DEFINE c == [p \in timed |-> Cardinality({k \in 1..n : p \in rest[k]})]
  <2>3. \A p \in timed : c[p] \in Nat
    BY <2>2
  <2>4. tiers = [p \in timed |-> 1 + c[p]]
    BY <2>1
  <2> HIDE DEF c
  <2>5. QED
    BY <2>3, <2>4
<1> HIDE DEF tiers
<1>3. most \in Nat
  <2> HIDE DEF timed
  <2>1. IsFiniteSet({tiers[p] : p \in timed})
    BY <1>1, ImageFinite
  <2>2. QED
    BY <1>2, <2>1, FS_CardinalityType
<1>4. tieBreakValues(answers) = [p \in DOMAIN answers |-> answers[p].correctPositions * 1000 +
                                   (IF p \in DOMAIN tiers THEN most - tiers[p] ELSE 0)]
  BY DEF tieBreakValues, tiers
<1> HIDE DEF most, timed
<1>5. \A p \in DOMAIN answers : answers[p].correctPositions * 1000 + (IF p \in DOMAIN tiers THEN most - tiers[p] ELSE 0) \in Int
  BY <1>2, <1>3
<1>6. QED
  BY <1>4, <1>5

\* REVEAL_RESULTS marks the current attempt revealed and stores fair scores.
LEMMA ScoredAttempts ==
  ASSUME ResultsAssumption, AnswersAssumption, ResultsInv, reveal
  PROVE  \E b \in Attempts :
           /\ attempts' = [attempts EXCEPT ![Len(attempts)] = b]
           /\ b.game = Current.game /\ b.roundIndex = Current.roundIndex /\ b.tie = Current.tie
           /\ b.voided = Current.voided /\ b.revealed /\ FairScores(b, b.raw)
<1> DEFINE n == Len(attempts)
           scope == IF Current.tie THEN present \cap Current.among ELSE present
           raw == [p \in scope |-> Stored(score(Current, scope)[p])]
           b == [Current EXCEPT !.revealed = TRUE, !.raw = raw]
<1>1. Current \in Attempts /\ n \in DOMAIN attempts /\ v2 \in BOOLEAN
  BY CurrentIsAttempt DEF ResultsInv, ResultsTypes
<1>2. /\ scope \subseteq present /\ scope \in SUBSET People /\ IsFiniteSet(scope)
      /\ Current.count \in Nat /\ Cardinality(scope) <= Current.count
  <2>1. scope \subseteq present /\ present \subseteq People /\ IsFiniteSet(People)
    BY DEF ResultsInv, ResultsTypes, ResultsAssumption
  <2>2. Current.count \in Nat /\ Cardinality(present) <= Current.count
    BY DEF ResultsInv, RoundsInv, reveal
  <2> HIDE DEF scope
  <2>3. IsFiniteSet(present) /\ IsFiniteSet(scope) /\ Cardinality(scope) <= Cardinality(present)
        /\ Cardinality(scope) \in Nat /\ Cardinality(present) \in Nat
    BY <2>1, FS_Subset, FS_CardinalityType
  <2>4. QED
    BY <2>1, <2>2, <2>3
<1>3. raw \in [scope -> Int] /\ FairScores(Current, raw)
  <2> HIDE DEF scope
  <2>1. raw = [p \in scope |-> Stored(score(Current, scope)[p])]
    OBVIOUS
  <2> HIDE DEF raw
  <2>2. QED
    BY <1>1, <1>2, <2>1, ScoresFair
<1>4. attempts' = [attempts EXCEPT ![n] = b]
  <2>1. attempts' = [attempts EXCEPT ![n].revealed = TRUE, ![n].raw = raw]
    BY DEF reveal
  <2> HIDE DEF raw
  <2>2. QED
    BY <1>1, <2>1 DEF Current, ResultsInv, ResultsTypes
<1> HIDE DEF scope, raw
<1>5. b \in Attempts
  BY <1>1, <1>2, <1>3, ScoredAttempt
<1>6. /\ b.game = Current.game /\ b.roundIndex = Current.roundIndex /\ b.tie = Current.tie
      /\ b.voided = Current.voided /\ b.revealed /\ b.raw = raw /\ b.answers = Current.answers
  BY <1>1 DEF Attempts
<1> HIDE DEF b
<1>7. FairScores(b, b.raw)
  <2>1. \A p : (Full(b, p) <=> Full(Current, p)) /\ TimeOf(b, p) = TimeOf(Current, p)
    BY <1>6 DEF Full, TimeOf
  <2>2. QED
    BY <1>3, <1>6, <2>1 DEF FairScores, FairTo
<1>8. QED
  BY <1>4, <1>5, <1>6, <1>7

\* VOID_ROUND voids the current attempt, scores and all, and prepares another like it.
LEMMA VoidedAttempts ==
  ASSUME ResultsInv, VoidRound
  PROVE  LET n == Len(attempts)
             b == [Current EXCEPT !.voided = TRUE]
             next == Prepared(Current.game, Current.roundIndex, Current.tie, Current.among)
         IN /\ attempts' \in Seq(Attempts) /\ Len(attempts') = n + 1 /\ DOMAIN attempts' = DOMAIN attempts \cup {n + 1}
            /\ n + 1 \notin DOMAIN attempts /\ n \in Nat /\ n \in DOMAIN attempts
            /\ \A i \in DOMAIN attempts : i # n => attempts'[i] = attempts[i]
            /\ attempts'[n] = b /\ attempts'[n + 1] = next /\ b \in Attempts /\ next \in Attempts
            /\ b.game = Current.game /\ b.roundIndex = Current.roundIndex /\ b.tie = Current.tie /\ b.voided = TRUE
            /\ b.revealed = Current.revealed /\ b.answers = Current.answers /\ b.raw = Current.raw
            /\ next.game = Current.game /\ next.roundIndex = Current.roundIndex /\ next.tie = Current.tie
            /\ ~next.revealed /\ ~next.voided
<1> DEFINE n == Len(attempts)
           b == [Current EXCEPT !.voided = TRUE]
           next == Prepared(Current.game, Current.roundIndex, Current.tie, Current.among)
           mid == [attempts EXCEPT ![n] = b]
<1>1. Current \in Attempts /\ n \in DOMAIN attempts /\ attempts \in Seq(Attempts) /\ n \in Nat
  BY CurrentIsAttempt DEF ResultsInv, ResultsTypes
<1>2. b \in Attempts
  BY <1>1, VoidedAttempt
<1>3. /\ b.game = Current.game /\ b.roundIndex = Current.roundIndex /\ b.tie = Current.tie /\ b.voided = TRUE
      /\ b.revealed = Current.revealed /\ b.answers = Current.answers /\ b.raw = Current.raw
  BY <1>1 DEF Attempts
<1>4. /\ Current.game \in Games /\ Current.roundIndex \in Nat /\ Current.tie \in BOOLEAN /\ Current.among \in SUBSET People
  BY <1>1, AttemptFields
<1>5. /\ next \in Attempts
      /\ next.game = Current.game /\ next.roundIndex = Current.roundIndex /\ next.tie = Current.tie
      /\ ~next.revealed /\ ~next.voided
  BY <1>1, <1>4, PreparedIsAttempt, PreparedFields
<1>6. attempts' = Append(mid, next)
  BY <1>1 DEF VoidRound, Current
<1> HIDE DEF b, next
<1>7. mid \in Seq(Attempts) /\ Len(mid) = n /\ DOMAIN mid = DOMAIN attempts /\ mid[n] = b
      /\ \A i \in DOMAIN attempts : i # n => mid[i] = attempts[i]
  BY <1>1, <1>2, OneChanged
<1> HIDE DEF mid
<1>8. /\ attempts' \in Seq(Attempts) /\ Len(attempts') = Len(mid) + 1 /\ DOMAIN attempts' = DOMAIN mid \cup {Len(attempts')}
      /\ Len(attempts') \notin DOMAIN mid /\ attempts'[Len(attempts')] = next /\ \A i \in DOMAIN mid : attempts'[i] = mid[i]
  BY <1>5, <1>6, <1>7, OneAdded
<1>9. QED
  BY <1>1, <1>2, <1>3, <1>5, <1>7, <1>8 DEF b, next

\* A new attempt goes to the end of the table.
LEMMA NextAttempts ==
  ASSUME ResultsInv, NEW next \in Attempts, attempts' = Append(attempts, next)
  PROVE  /\ attempts' \in Seq(Attempts) /\ Len(attempts') = Len(attempts) + 1
         /\ DOMAIN attempts' = DOMAIN attempts \cup {Len(attempts) + 1}
         /\ Len(attempts) + 1 \notin DOMAIN attempts /\ Len(attempts) \in Nat
         /\ \A i \in DOMAIN attempts : attempts'[i] = attempts[i]
         /\ attempts'[Len(attempts) + 1] = next
<1>1. attempts \in Seq(Attempts) /\ Len(attempts) \in Nat
  BY DEF ResultsInv, ResultsTypes
<1>2. /\ attempts' \in Seq(Attempts) /\ Len(attempts') = Len(attempts) + 1 /\ DOMAIN attempts' = DOMAIN attempts \cup {Len(attempts')}
      /\ Len(attempts') \notin DOMAIN attempts /\ attempts'[Len(attempts')] = next /\ \A i \in DOMAIN attempts : attempts'[i] = attempts[i]
  BY <1>1, OneAdded
<1>3. QED
  BY <1>1, <1>2

\* A row of the standings is a participant's row with a rank.
LEMMA StandingsRow ==
  ASSUME ResultsAssumption, ResultsTypes, NEW r \in tournament
  PROVE  r.id \in present /\ r.rank \in Nat
<1> DEFINE rows == {Row(p) : p \in present}
           above == {x \in rows \X rows : Ahead(x[1], x[2])}
           Before(x) == {q \in rows : <<q, x>> \in above \/ (~(<<x, q>> \in above) /\ q.id < x.id)}
<1>1. IsFiniteSet(rows)
  <2>1. IsFiniteSet(present)
    BY FS_Subset DEF ResultsTypes, ResultsAssumption
  <2> DEFINE f == [p \in present |-> Row(p)]
  <2>2. IsFiniteSet({f[p] : p \in present})
    BY <2>1, ImageFinite
  <2>3. QED
    BY <2>2
<1>2. PICK q \in rows : \E x : r = [id |-> q.id, total |-> q.total, perfectGames |-> q.perfectGames,
                                    tieBreak |-> q.tieBreak, rank |-> 1 + Cardinality(Before(x))]
  BY DEF tournament, buildStandings, Ranked
<1>3. PICK x : r = [id |-> q.id, total |-> q.total, perfectGames |-> q.perfectGames,
                    tieBreak |-> q.tieBreak, rank |-> 1 + Cardinality(Before(x))]
  BY <1>2
<1>4. Cardinality(Before(x)) \in Nat
  <2>1. Before(x) \subseteq rows
    OBVIOUS
  <2> HIDE DEF Before, rows
  <2>2. QED
    BY <1>1, <2>1, FS_Subset, FS_CardinalityType
<1>7. PICK p \in present : q = Row(p)
  OBVIOUS
<1>5. q.id \in present
  BY <1>7 DEF Row
<1> HIDE DEF Before, rows
<1>6. QED
  BY <1>3, <1>4, <1>5

\* The group a tie-break is prepared for is one of the tied groups.
BestTied(ties) ==
  CHOOSE g \in ties : \A h \in ties :
    (CHOOSE r \in tournament : r.id \in g).rank <= (CHOOSE r \in tournament : r.id \in h).rank

\* It is a group of participants.
LEMMA TieIds ==
  ASSUME ResultsAssumption, ResultsTypes, topThreeTies(tournament) # {}
  PROVE  BestTied(topThreeTies(tournament)) \in SUBSET People
<1> DEFINE ties == topThreeTies(tournament)
           ids == BestTied(ties)
           RankIn(g) == (CHOOSE r \in tournament : r.id \in g).rank
           f == [g \in ties |-> RankIn(g)]
           B == {f[g] : g \in ties}
<1>1. ASSUME NEW g \in ties
      PROVE  RankIn(g) \in Nat /\ g \in SUBSET People
  <2>1. PICK k \in 1..3 : g = {r.id : r \in {x \in tournament : x.rank = k}} /\ Cardinality(g) > 1
    BY DEF topThreeTies
  <2>2. g # {}
    <3>1. Cardinality({}) = 0
      BY FS_EmptySet
    <3> DEFINE c == Cardinality(g)
    <3>2. g = {} => c = 0
      BY <3>1
    <3>3. c > 1
      BY <2>1
    <3> HIDE DEF c
    <3>4. QED
      BY <3>2, <3>3
  <2>3. \E r \in tournament : r.id \in g
    BY <2>1, <2>2
  <2>4. RankIn(g) \in Nat
    BY <2>3, StandingsRow
  <2>5. g \in SUBSET People
    BY <2>1, StandingsRow DEF ResultsTypes
  <2>6. QED
    BY <2>4, <2>5
<1>2. IsFiniteSet(ties)
  <2>1. IsFiniteSet(1..3)
    <3>1. 1 \in Int /\ 3 \in Int
      OBVIOUS
    <3>2. QED
      BY <3>1, FS_Interval
  <2> DEFINE h == [k \in 1..3 |-> {r.id : r \in {x \in tournament : x.rank = k}}]
  <2>2. IsFiniteSet({h[k] : k \in 1..3})
    BY <2>1, ImageFinite
  <2>3. ties \subseteq {h[k] : k \in 1..3}
    BY DEF topThreeTies
  <2> HIDE DEF h
  <2>4. QED
    BY <2>2, <2>3, FS_Subset
<1>3. IsFiniteSet(B) /\ B \subseteq Int /\ B # {}
  <2>1. IsFiniteSet(B)
    <3> HIDE DEF f
    <3>1. QED
      BY <1>2, ImageFinite
  <2>2. \A g \in ties : f[g] \in Int
    BY <1>1
  <2> HIDE DEF f
  <2>3. QED
    BY <2>1, <2>2
<1>4. PICK b \in B : \A c \in B : b <= c
  <2> HIDE DEF B
  <2>1. QED
    BY <1>3, Least
<1>5. \E g \in ties : \A h \in ties : RankIn(g) <= RankIn(h)
  <2>1. PICK g \in ties : b = f[g]
    OBVIOUS
  <2>2. \A h \in ties : f[h] \in B
    OBVIOUS
  <2>3. \A h \in ties : f[h] = RankIn(h)
    OBVIOUS
  <2> HIDE DEF B, RankIn, f
  <2>4. QED
    BY <1>4, <2>1, <2>2, <2>3
<1>6. ids = CHOOSE g \in ties : \A h \in ties : RankIn(g) <= RankIn(h)
  BY DEF BestTied
<1> HIDE DEF RankIn, ids
<1>7. ids \in ties
  BY <1>5, <1>6
<1>8. QED
  BY <1>1, <1>7 DEF ids, ties

\* Of each attempt only what it brought may change, or that it is revealed.
SameKeys(a, b) == b.game = a.game /\ b.roundIndex = a.roundIndex /\ b.tie = a.tie /\ b.voided = a.voided

\* Only the last row changes, and no key of it.
LEMMA KeysKept ==
  ASSUME ResultsInv, NEW b \in Attempts, attempts' = [attempts EXCEPT ![Len(attempts)] = b], SameKeys(Current, b)
  PROVE  /\ attempts' \in Seq(Attempts) /\ Len(attempts') = Len(attempts) /\ DOMAIN attempts' = DOMAIN attempts
         /\ Current' = b /\ attempts'[Len(attempts)] = b
         /\ \A i \in DOMAIN attempts : SameKeys(attempts[i], attempts'[i])
         /\ \A i \in DOMAIN attempts : i # Len(attempts) => attempts'[i] = attempts[i]
<1>1. Len(attempts) \in DOMAIN attempts /\ attempts \in Seq(Attempts)
  BY CurrentIsAttempt DEF ResultsInv, ResultsTypes
<1>2. /\ attempts' \in Seq(Attempts) /\ Len(attempts') = Len(attempts) /\ DOMAIN attempts' = DOMAIN attempts
      /\ attempts'[Len(attempts)] = b /\ \A i \in DOMAIN attempts : i # Len(attempts) => attempts'[i] = attempts[i]
  BY <1>1, OneChanged
<1>3. \A i \in DOMAIN attempts : SameKeys(attempts[i], attempts'[i])
  BY <1>2 DEF SameKeys, Current
<1>4. Current' = b
  BY <1>2 DEF Current
<1>5. QED
  BY <1>2, <1>3, <1>4

\* Then the rounds are what they were.
LEMMA RoundsKept ==
  ASSUME RoundsInv, DOMAIN attempts' = DOMAIN attempts, \A i \in DOMAIN attempts : SameKeys(attempts[i], attempts'[i])
  PROVE  /\ \A i \in DOMAIN attempts' : attempts'[i].tie => attempts'[i].game = "ORDER"
         /\ \A i, j \in DOMAIN attempts' :
              Standing(attempts'[i]) /\ Standing(attempts'[j]) /\ attempts'[i].game = attempts'[j].game
                /\ attempts'[i].roundIndex = attempts'[j].roundIndex => i = j
BY DEF RoundsInv, SameKeys, Standing

\* The session starts with its rounds in order.
LEMMA ResultsInit == ResultsAssumption /\ AnswersAssumption /\ Init => ResultsInv
<1> SUFFICES ASSUME ResultsAssumption, AnswersAssumption, Init PROVE ResultsInv
  OBVIOUS
<1> DEFINE Blank(x) == [game |-> x, roundIndex |-> 0, tie |-> FALSE, among |-> {}, no |-> 1,
                        count |-> None, answers |-> NoScores, raw |-> NoScores,
                        revealed |-> FALSE, voided |-> FALSE]
           Other(g) == IF g = "GEO" THEN "RLGL" ELSE "GEO"
<1>1. PICK g \in Games, start \in Starts :
        /\ game = g /\ attempts = << [Blank(Other(g)) EXCEPT !.revealed = TRUE, !.raw = start.raw], Blank(g) >>
        /\ v2 = start.v2 /\ present = DOMAIN start.raw
  BY DEF Init
<1>2. start.v2 \in BOOLEAN /\ DOMAIN start.raw \subseteq People /\ start.raw \in [DOMAIN start.raw -> Int]
  BY DEF AnswersAssumption
<1>3. ASSUME NEW x \in Games PROVE Blank(x) \in Attempts
  <2>1. \A X : NoScores \in [{} -> X] /\ DOMAIN NoScores = {}
    BY DEF NoScores
  <2>2. {} \in SUBSET People /\ FALSE \in BOOLEAN
    OBVIOUS
  <2>3. NoScores \in UNION {[P -> RaceRows \cup GeoRows \cup OrderRows] : P \in SUBSET People}
        /\ NoScores \in UNION {[P -> Int] : P \in SUBSET People} /\ NoScores \in [DOMAIN NoScores -> Answered(x)]
    BY <2>1, <2>2
  <2>4. QED
    BY <2>2, <2>3 DEF Attempts
<1>4. Other(g) \in Games /\ Other(g) # g /\ g \in Games
  BY DEF Games
<1> DEFINE a1 == [Blank(Other(g)) EXCEPT !.revealed = TRUE, !.raw = start.raw]
           a2 == Blank(g)
<1>5. a2 \in Attempts
  BY <1>3, <1>4
<1>6. a1 \in Attempts
  <2> DEFINE c == Blank(Other(g))
  <2>1. c \in Attempts
    BY <1>3, <1>4
  <2> HIDE DEF c
  <2>2. [c EXCEPT !.revealed = TRUE, !.raw = start.raw] \in Attempts
    BY <1>2, <2>1, ScoredAttempt
  <2>3. QED
    BY <2>2 DEF c
<1>7. a1.game = Other(g) /\ ~a1.tie /\ ~a2.tie /\ a2.game = g /\ a2.roundIndex = 0 /\ ~a2.revealed /\ ~a2.voided
  OBVIOUS
<1> HIDE DEF a1, a2, Other
<1>8. attempts = <<a1, a2>>
  BY <1>1 DEF a1, a2
<1>9. attempts \in Seq(Attempts) /\ Len(attempts) = 2 /\ attempts[1] = a1 /\ attempts[2] = a2 /\ DOMAIN attempts = {1, 2}
      /\ Current = a2
  BY <1>5, <1>6, <1>8 DEF Current
<1>10. ResultsTypes
  <2>1. tie_break \in [People -> Int]
    BY DEF Init, None
  <2>2. QED
    BY <1>1, <1>2, <1>9, <2>1 DEF ResultsTypes
<1>11. RoundsInv
  <2>1. state = "Ready"
    BY DEF Init
  <2>2. \A i \in DOMAIN attempts : ~attempts[i].tie
    BY <1>7, <1>9
  <2>3. \A i, j \in DOMAIN attempts : attempts[i].game = attempts[j].game => i = j
    BY <1>4, <1>7, <1>9
  <2>4. ASSUME NEW i \in DOMAIN attempts, attempts[i].game = game PROVE attempts[i] = a2
    <3>1. CASE i = 1
      BY <1>1, <1>4, <1>7, <1>9, <2>4, <3>1
    <3>2. CASE i = 2
      BY <1>9, <3>2
    <3>3. QED
      BY <1>9, <3>1, <3>2
  <2>5. Current.game = game /\ ~Current.voided /\ ~Current.tie /\ ~Current.revealed /\ Current.roundIndex = 0 /\ a2.roundIndex = 0
    BY <1>1, <1>7, <1>9
  <2>6. \A i \in DOMAIN attempts : attempts[i].game = game => attempts[i].roundIndex <= Current.roundIndex
    BY <2>4, <2>5
  <2>7. QED
    BY <2>1, <2>2, <2>3, <2>5, <2>6 DEF RoundsInv
<1>12. QED
  BY <1>10, <1>11 DEF ResultsInv

\* What the tie-break button prepares,
LEMMA TiePrepared ==
  ASSUME ResultsAssumption, ResultsTypes, StartTiebreak
  PROVE  \E next \in Attempts :
           /\ attempts' = Append(attempts, next) /\ next.game = "ORDER" /\ next.roundIndex = 900
           /\ next.tie /\ ~next.revealed /\ ~next.voided
<1> DEFINE ids == BestTied(topThreeTies(tournament))
<1>1. topThreeTies(tournament) # {} /\ attempts' = Append(attempts, Prepared("ORDER", 900, TRUE, ids))
  BY DEF StartTiebreak, BestTied
<1>2. ids \in SUBSET People /\ "ORDER" \in Games /\ 900 \in Nat /\ attempts \in Seq(Attempts)
  BY <1>1, TieIds DEF ResultsTypes, Games
<1> HIDE DEF ids
<1> DEFINE next == Prepared("ORDER", 900, TRUE, ids)
<1>3. attempts' = Append(attempts, next)
  BY <1>1
<1>4. \A t \in BOOLEAN : Prepared("ORDER", 900, t, ids) \in Attempts
  BY <1>2, PreparedIsAttempt
<1>5. next \in Attempts
  BY <1>4, TRUE \in BOOLEAN, Zenon
<1>6. next.game = "ORDER" /\ next.roundIndex = 900 /\ next.tie /\ ~next.revealed /\ ~next.voided
  BY DEF Prepared
<1> HIDE DEF next
<1>7. QED
  BY <1>3, <1>5, <1>6

\* and what NEXT_ROUND does.
LEMMA RoundPrepared ==
  ASSUME ResultsAssumption, ResultsTypes, NextRound
  PROVE  \E next \in Attempts :
           /\ attempts' = Append(attempts, next) /\ next.game = game /\ next.roundIndex = Current.roundIndex + 1
           /\ ~next.tie /\ ~next.revealed /\ ~next.voided
<1> DEFINE r == Current.roundIndex + 1
<1>1. attempts' = Append(attempts, Prepared(game, r, FALSE, {}))
  BY DEF NextRound
<1>2. r \in Nat /\ game \in Games /\ {} \in SUBSET People /\ attempts \in Seq(Attempts)
  BY CurrentIsAttempt, AttemptFields DEF ResultsTypes
<1> HIDE DEF r
<1> DEFINE next == Prepared(game, r, FALSE, {})
<1>3. attempts' = Append(attempts, next)
  BY <1>1
<1>4. \A t \in BOOLEAN : Prepared(game, r, t, {}) \in Attempts
  BY <1>2, PreparedIsAttempt
<1>5. next \in Attempts
  BY <1>4, FALSE \in BOOLEAN, Zenon
<1>6. next.game = game /\ next.roundIndex = r /\ ~next.tie /\ ~next.revealed /\ ~next.voided
  BY DEF Prepared
<1> HIDE DEF next
<1>7. QED
  BY <1>3, <1>5, <1>6 DEF r

\* A tie-break leaves everybody a number.
LEMMA TieValues ==
  ASSUME ResultsAssumption, AnswersAssumption, ResultsInv, reveal, Current.tie
  PROVE  tie_break' \in [People -> Int]
<1> DEFINE scope == present \cap Current.among
           got == tieAnswers(Current, scope)
           values == tieBreakValues(got)
<1>1. tie_break' = [p \in People |-> IF p \in scope THEN values[p] ELSE tie_break[p]]
  BY DEF reveal
<1>2. IsFiniteSet(scope) /\ DOMAIN got = scope
  BY FS_Subset DEF tieAnswers, ResultsInv, ResultsTypes, ResultsAssumption
<1>3. Current \in Attempts /\ Current.game = "ORDER"
  BY CurrentIsAttempt DEF ResultsInv, RoundsInv, Current
<1>4. ASSUME NEW p \in scope PROVE got[p].correctPositions \in Nat
  <2>1. CASE p \in DOMAIN Current.answers
    <3>1. Current.answers[p].order \in Seq(Nat) /\ CorrectOrder \in Seq(Nat)
      BY <1>3, <2>1, AttemptFields DEF Answered, OrderRows, AnswersAssumption
    <3>2. correctPositions(CorrectOrder, Current.answers[p].order) \in Nat
      BY <3>1, Positions
    <3>3. QED
      BY <2>1, <3>2 DEF tieAnswers
  <2>2. CASE p \notin DOMAIN Current.answers
    BY <2>2 DEF tieAnswers
  <2>3. QED
    BY <2>1, <2>2
<1> HIDE DEF got
<1>5. values \in [scope -> Int]
  BY <1>2, <1>4, TierValues
<1>6. tie_break \in [People -> Int]
  BY DEF ResultsInv, ResultsTypes
<1> HIDE DEF values, scope
<1>7. QED
  BY <1>1, <1>5, <1>6

\* No step puts two attempts of one round up for counting or loses the current round.
LEMMA ResultsStep ==
  ASSUME ResultsAssumption, AnswersAssumption, ResultsInv, [Next]_vars
  PROVE  ResultsInv'
<1> USE DEF Shown
<1>0. ResultsTypes /\ RoundsInv /\ attempts \in Seq(Attempts) /\ Len(attempts) \in Nat /\ Len(attempts) >= 2
  BY DEF ResultsInv, ResultsTypes
<1>1. CASE RoundPlayed
  <2>1. PICK b \in Attempts :
           /\ attempts' = [attempts EXCEPT ![Len(attempts)] = b]
           /\ b.game = Current.game /\ b.roundIndex = Current.roundIndex /\ b.tie = Current.tie
           /\ b.revealed = Current.revealed /\ b.voided = Current.voided /\ b.raw = Current.raw
           /\ b.count = Cardinality(present) /\ b.count \in Nat
    BY <1>1, PlayedAttempts
  <2>2. SameKeys(Current, b)
    BY <2>1 DEF SameKeys
  <2>3. /\ attempts' \in Seq(Attempts) /\ Len(attempts') = Len(attempts) /\ DOMAIN attempts' = DOMAIN attempts
        /\ Current' = b
        /\ \A i \in DOMAIN attempts : SameKeys(attempts[i], attempts'[i])
    BY <2>1, <2>2, KeysKept
  <2>4. /\ state = "Ready" /\ state' = "InputLocked" /\ v2' = v2 /\ game' = game /\ present' = present
        /\ tie_break' = tie_break
    BY <1>1 DEF RoundPlayed
  <2>5. ResultsTypes'
    BY <1>0, <2>3, <2>4 DEF ResultsTypes
  <2>6. RoundsInv'
    <3>1. ~b.revealed /\ (~b.tie => b.game = game /\ ~b.voided)
      BY <1>0, <2>1, <2>4 DEF RoundsInv
    <3>2. ASSUME ~b.tie, NEW i \in DOMAIN attempts, ~attempts'[i].tie, attempts'[i].game = game
          PROVE  attempts'[i].roundIndex <= b.roundIndex
      BY <1>0, <2>1, <2>3, <2>4, <3>2 DEF RoundsInv, SameKeys
    <3>3. b.count \in Nat /\ Cardinality(present) <= b.count
      BY <2>1
    <3>4. QED
      BY <1>0, <2>3, <2>4, <3>1, <3>2, <3>3, RoundsKept DEF RoundsInv
  <2>7. QED
    BY <2>5, <2>6 DEF ResultsInv
<1>2. CASE reveal
  <2>1. PICK b \in Attempts :
           /\ attempts' = [attempts EXCEPT ![Len(attempts)] = b]
           /\ b.game = Current.game /\ b.roundIndex = Current.roundIndex /\ b.tie = Current.tie
           /\ b.voided = Current.voided /\ b.revealed
    BY <1>2, ScoredAttempts
  <2>2. SameKeys(Current, b)
    BY <2>1 DEF SameKeys
  <2>3. /\ attempts' \in Seq(Attempts) /\ Len(attempts') = Len(attempts) /\ DOMAIN attempts' = DOMAIN attempts
        /\ Current' = b
        /\ \A i \in DOMAIN attempts : SameKeys(attempts[i], attempts'[i])
    BY <2>1, <2>2, KeysKept
  <2>4. /\ state = "InputLocked" /\ state' = IF Current.tie THEN "TournamentResults" ELSE "Reveal"
        /\ v2' = v2 /\ game' = game /\ present' = present
    BY <1>2 DEF reveal
  <2>5. tie_break' \in [People -> Int]
    <3>1. tie_break \in [People -> Int]
      BY <1>0 DEF ResultsTypes
    <3>2. CASE Current.tie
      BY <1>2, <3>2, TieValues
    <3>3. CASE ~Current.tie
      BY <1>2, <3>1, <3>3 DEF reveal
    <3>4. QED
      BY <3>2, <3>3
  <2>6. ResultsTypes'
    BY <1>0, <2>3, <2>4, <2>5 DEF ResultsTypes
  <2>7. RoundsInv'
    <3>1. ~b.tie => b.game = game /\ ~b.voided
      BY <1>0, <2>1, <2>4 DEF RoundsInv
    <3>2. ASSUME ~b.tie, NEW i \in DOMAIN attempts, ~attempts'[i].tie, attempts'[i].game = game
          PROVE  attempts'[i].roundIndex <= b.roundIndex
      BY <1>0, <2>1, <2>3, <2>4, <3>2 DEF RoundsInv, SameKeys
    <3>3. state' = "Reveal" => ~b.tie
      BY <2>1, <2>4
    <3>4. state' \notin {"Ready", "InputLocked"}
      BY <2>4
    <3>5. QED
      BY <1>0, <2>3, <2>4, <3>1, <3>2, <3>3, <3>4, RoundsKept DEF RoundsInv
  <2>8. QED
    BY <2>6, <2>7 DEF ResultsInv
<1>3. CASE VoidRound
  <2> DEFINE n == Len(attempts)
             b == [Current EXCEPT !.voided = TRUE]
             next == Prepared(Current.game, Current.roundIndex, Current.tie, Current.among)
  <2>1. /\ attempts' \in Seq(Attempts) /\ Len(attempts') = n + 1 /\ DOMAIN attempts' = DOMAIN attempts \cup {n + 1}
        /\ n + 1 \notin DOMAIN attempts /\ n \in Nat /\ n \in DOMAIN attempts
        /\ \A i \in DOMAIN attempts : i # n => attempts'[i] = attempts[i]
        /\ attempts'[n] = b /\ attempts'[n + 1] = next
        /\ b.game = Current.game /\ b.roundIndex = Current.roundIndex /\ b.tie = Current.tie /\ b.voided = TRUE
        /\ next.game = Current.game /\ next.roundIndex = Current.roundIndex /\ next.tie = Current.tie
        /\ ~next.revealed /\ ~next.voided
    BY <1>3, VoidedAttempts
  <2> HIDE DEF b, next
  <2>2. /\ state \in {"InputLocked", "Reveal"} /\ state' = "Ready" /\ v2' = v2 /\ game' = game /\ present' = present
        /\ tie_break' = IF Current.tie THEN [p \in People |-> None] ELSE tie_break
    BY <1>3 DEF VoidRound
  <2>3. tie_break' \in [People -> Int]
    BY <1>0, <2>2 DEF ResultsTypes, None
  <2>4. ResultsTypes'
    BY <1>0, <2>1, <2>2, <2>3 DEF ResultsTypes
  <2>5. Current' = next /\ Current = attempts[n]
    BY <2>1 DEF Current
  <2>6. RoundsInv'
    <3>0. Current.tie => Current.game = "ORDER"
      BY <1>0, <2>1, <2>5 DEF RoundsInv
    <3>1. \A i \in DOMAIN attempts' : attempts'[i].tie => attempts'[i].game = "ORDER"
      BY <1>0, <2>1, <2>5, <3>0 DEF RoundsInv
    <3>2. ASSUME NEW i \in DOMAIN attempts', NEW j \in DOMAIN attempts',
                 Standing(attempts'[i]), Standing(attempts'[j]), attempts'[i].game = attempts'[j].game,
                 attempts'[i].roundIndex = attempts'[j].roundIndex
          PROVE  i = j
      <4>1. i # n /\ j # n
        BY <2>1, <3>2 DEF Standing
      <4>2. CASE i = n + 1 /\ j # n + 1
        <5>1. j \in DOMAIN attempts /\ attempts'[j] = attempts[j] /\ Standing(attempts[n])
          BY <2>1, <2>2, <2>5, <3>2, <4>1, <4>2, <1>0 DEF Standing, RoundsInv
        <5>2. QED
          BY <1>0, <2>1, <2>5, <3>2, <4>1, <4>2, <5>1 DEF RoundsInv
      <4>3. CASE j = n + 1 /\ i # n + 1
        <5>1. i \in DOMAIN attempts /\ attempts'[i] = attempts[i] /\ Standing(attempts[n])
          BY <2>1, <2>2, <2>5, <3>2, <4>1, <4>3, <1>0 DEF Standing, RoundsInv
        <5>2. QED
          BY <1>0, <2>1, <2>5, <3>2, <4>1, <4>3, <5>1 DEF RoundsInv
      <4>4. CASE i # n + 1 /\ j # n + 1
        BY <1>0, <2>1, <3>2, <4>1, <4>4 DEF RoundsInv
      <4>5. QED
        BY <4>2, <4>3, <4>4
    <3>3. ~next.tie => next.game = game /\ ~next.voided
      BY <1>0, <2>1, <2>2 DEF RoundsInv
    <3>4. ASSUME ~next.tie, NEW i \in DOMAIN attempts', ~attempts'[i].tie, attempts'[i].game = game
          PROVE  attempts'[i].roundIndex <= next.roundIndex
      <4>1. \A k \in DOMAIN attempts : ~attempts[k].tie /\ attempts[k].game = game => attempts[k].roundIndex <= Current.roundIndex
        BY <1>0, <2>1, <2>2, <3>4 DEF RoundsInv
      <4>2. Current.roundIndex \in Nat
        BY <1>0, CurrentIsAttempt, AttemptFields
      <4>3. QED
        BY <2>1, <2>5, <3>4, <4>1, <4>2
    <3>5. QED
      BY <2>1, <2>2, <2>5, <3>1, <3>2, <3>3, <3>4 DEF RoundsInv
  <2>7. QED
    BY <2>4, <2>6 DEF ResultsInv
<1>4. CASE NextRound
  <2> DEFINE n == Len(attempts)
  <2>0. /\ Current.roundIndex \in Nat /\ game \in Games
        /\ state = "Reveal" /\ state' = "Ready" /\ v2' = v2 /\ game' = game /\ present' = present /\ tie_break' = tie_break
    BY <1>0, <1>4, CurrentIsAttempt, AttemptFields DEF NextRound, ResultsTypes
  <2>8. PICK next \in Attempts :
          /\ attempts' = Append(attempts, next) /\ next.game = game /\ next.roundIndex = Current.roundIndex + 1
          /\ ~next.tie /\ ~next.revealed /\ ~next.voided
    BY <1>0, <1>4, RoundPrepared
  <2>9. /\ attempts' \in Seq(Attempts) /\ Len(attempts') = Len(attempts) + 1
        /\ DOMAIN attempts' = DOMAIN attempts \cup {Len(attempts) + 1}
        /\ Len(attempts) + 1 \notin DOMAIN attempts /\ Len(attempts) \in Nat
        /\ \A i \in DOMAIN attempts : attempts'[i] = attempts[i]
        /\ attempts'[Len(attempts) + 1] = next
    BY <2>8, NextAttempts
  <2>1. /\ attempts' \in Seq(Attempts) /\ Len(attempts') = n + 1 /\ DOMAIN attempts' = DOMAIN attempts \cup {n + 1}
        /\ n + 1 \notin DOMAIN attempts /\ n \in Nat
        /\ \A i \in DOMAIN attempts : attempts'[i] = attempts[i]
        /\ attempts'[n + 1] = next
        /\ next.game = game /\ next.roundIndex = Current.roundIndex + 1 /\ ~next.tie
        /\ ~next.revealed /\ ~next.voided
    BY <2>8, <2>9
  <2>2. ResultsTypes'
    BY <1>0, <2>0, <2>1 DEF ResultsTypes
  <2>3. Current' = next /\ ~Current.tie /\ Current.roundIndex < next.roundIndex
    BY <1>0, <2>0, <2>1 DEF Current, RoundsInv
  <2>4. \A i \in DOMAIN attempts : ~attempts[i].tie /\ attempts[i].game = game => attempts[i].roundIndex < next.roundIndex
    <3>1. ASSUME NEW i \in DOMAIN attempts PROVE attempts[i].roundIndex \in Nat
      BY <1>0, CurrentIsAttempt, AttemptFields
    <3>2. \A i \in DOMAIN attempts : ~attempts[i].tie /\ attempts[i].game = game => attempts[i].roundIndex <= Current.roundIndex
      BY <1>0, <2>0, <2>3 DEF RoundsInv
    <3>3. QED
      BY <2>0, <2>1, <3>1, <3>2
  <2>5. RoundsInv'
    <3>1. \A i \in DOMAIN attempts' : attempts'[i].tie => attempts'[i].game = "ORDER"
      BY <1>0, <2>1 DEF RoundsInv
    <3>2. ASSUME NEW i \in DOMAIN attempts', NEW j \in DOMAIN attempts',
                 Standing(attempts'[i]), Standing(attempts'[j]), attempts'[i].game = attempts'[j].game,
                 attempts'[i].roundIndex = attempts'[j].roundIndex
          PROVE  i = j
      <4>0. \A k \in DOMAIN attempts : attempts[k].roundIndex \in Nat
        BY <1>0, CurrentIsAttempt, AttemptFields
      <4>1. CASE i = n + 1 /\ j # n + 1
        BY <2>1, <2>4, <3>2, <4>0, <4>1 DEF Standing
      <4>2. CASE j = n + 1 /\ i # n + 1
        BY <2>1, <2>4, <3>2, <4>0, <4>2 DEF Standing
      <4>3. CASE i # n + 1 /\ j # n + 1
        BY <1>0, <2>1, <3>2, <4>3 DEF RoundsInv
      <4>4. QED
        BY <4>1, <4>2, <4>3
    <3>3. ASSUME NEW i \in DOMAIN attempts', ~attempts'[i].tie, attempts'[i].game = game
          PROVE  attempts'[i].roundIndex <= next.roundIndex
      <4>1. \A k \in DOMAIN attempts : attempts[k].roundIndex \in Nat
        BY <1>0, CurrentIsAttempt, AttemptFields
      <4>2. QED
        BY <2>0, <2>1, <2>4, <3>3, <4>1
    <3>4. QED
      BY <2>0, <2>1, <2>3, <3>1, <3>2, <3>3 DEF RoundsInv
  <2>6. QED
    BY <2>2, <2>5 DEF ResultsInv
<1>5. CASE StartTiebreak
  <2> DEFINE n == Len(attempts)
  <2>0. /\ Current.roundIndex \in Nat /\ game \in Games
        /\ state' = "Ready" /\ v2' = v2 /\ game' = game /\ present' = present /\ tie_break' = tie_break
    BY <1>0, <1>5, CurrentIsAttempt, AttemptFields DEF StartTiebreak, ResultsTypes
  <2>8. PICK next \in Attempts :
          /\ attempts' = Append(attempts, next) /\ next.game = "ORDER" /\ next.roundIndex = 900
          /\ next.tie /\ ~next.revealed /\ ~next.voided
    BY <1>0, <1>5, TiePrepared
  <2>9. /\ attempts' \in Seq(Attempts) /\ Len(attempts') = Len(attempts) + 1
        /\ DOMAIN attempts' = DOMAIN attempts \cup {Len(attempts) + 1}
        /\ Len(attempts) + 1 \notin DOMAIN attempts /\ Len(attempts) \in Nat
        /\ \A i \in DOMAIN attempts : attempts'[i] = attempts[i]
        /\ attempts'[Len(attempts) + 1] = next
    BY <2>8, NextAttempts
  <2>1. /\ attempts' \in Seq(Attempts) /\ Len(attempts') = n + 1 /\ DOMAIN attempts' = DOMAIN attempts \cup {n + 1}
        /\ n + 1 \notin DOMAIN attempts /\ n \in Nat
        /\ \A i \in DOMAIN attempts : attempts'[i] = attempts[i]
        /\ attempts'[n + 1] = next
        /\ next.game = "ORDER" /\ next.roundIndex = 900 /\ next.tie
        /\ ~next.revealed /\ ~next.voided
    BY <2>8, <2>9
  <2>2. ResultsTypes'
    BY <1>0, <2>0, <2>1 DEF ResultsTypes
  <2>3. Current' = next
    BY <2>1 DEF Current
  <2>4. RoundsInv'
    <3>1. \A i \in DOMAIN attempts' : attempts'[i].tie => attempts'[i].game = "ORDER"
      BY <1>0, <2>1 DEF RoundsInv
    <3>2. \A i \in DOMAIN attempts' : Standing(attempts'[i]) => i \in DOMAIN attempts
      BY <2>1 DEF Standing
    <3>3. \A i, j \in DOMAIN attempts' :
            Standing(attempts'[i]) /\ Standing(attempts'[j]) /\ attempts'[i].game = attempts'[j].game
              /\ attempts'[i].roundIndex = attempts'[j].roundIndex => i = j
      BY <1>0, <2>1, <3>2 DEF RoundsInv
    <3>4. QED
      BY <2>0, <2>1, <2>3, <3>1, <3>3 DEF RoundsInv
  <2>5. QED
    BY <2>2, <2>4 DEF ResultsInv
<1>6. CASE ShowGameResults \/ ShowFinalResults \/ UNCHANGED vars
  <2>1. UNCHANGED <<v2, game, present, tie_break, attempts>>
        /\ (state' = state \/ state' \in {"GameResults", "TournamentResults"})
    BY <1>6 DEF ShowGameResults, ShowFinalResults, vars
  <2>2. QED
    BY <1>0, <2>1 DEF ResultsInv, ResultsTypes, RoundsInv, Current
<1>7. ASSUME NEW p \in Removable, RemoveParticipant(p) PROVE ResultsInv'
  <2>1. UNCHANGED <<v2, game, tie_break, attempts, state>> /\ present' = present \ {p}
    BY <1>7 DEF RemoveParticipant
  <2>2. present' \subseteq present /\ present' \subseteq People
    BY <1>0, <2>1 DEF ResultsTypes
  <2>3. Cardinality(present') <= Cardinality(present) /\ Cardinality(present') \in Nat /\ Cardinality(present) \in Nat
    <3>1. IsFiniteSet(present)
      BY <1>0, FS_Subset DEF ResultsTypes, ResultsAssumption
    <3>2. QED
      BY <2>2, <3>1, FS_Subset, FS_CardinalityType
  <2>4. ResultsTypes'
    BY <1>0, <2>1, <2>2 DEF ResultsTypes
  <2>5. RoundsInv'
    BY <1>0, <2>1, <2>3 DEF RoundsInv, Current
  <2>6. QED
    BY <2>4, <2>5 DEF ResultsInv
<1>8. QED
  BY <1>1, <1>2, <1>3, <1>4, <1>5, <1>6, <1>7 DEF Next

--------------------------------------------------------------------------------
(***************************************************************************)
(* Fair scores.                                                            *)
(***************************************************************************)

\* Every revealed round, voided or not, has fair scores.
FairInv == \A i \in DOMAIN attempts : attempts[i].revealed => FairScores(attempts[i], attempts[i].raw)

\* Of every round of the last game and the earlier one at most one attempt stands, the
\* current one is the latest, and it is not revealed before REVEAL_RESULTS (round-repo.ts,
\* rounds.service.ts); this is what the other theorems rest on.
THEOREM ResultsInvariant == Spec => []ResultsInv
<1>1. Init => ResultsInv
  BY ResultsInit, ResultsAssumption, AnswersAssumption
<1>2. ResultsInv /\ [Next]_vars => ResultsInv'
  BY ResultsStep, ResultsAssumption, AnswersAssumption
<1>3. QED
  BY <1>1, <1>2, PTL DEF Spec

\* Whether scores are fair depends on the game and the answers of an attempt only.
LEMMA FairSame ==
  ASSUME NEW a, NEW b, b.game = a.game, b.answers = a.answers, b.raw = a.raw, FairScores(a, a.raw)
  PROVE  FairScores(b, b.raw)
<1>1. \A p : (Full(b, p) <=> Full(a, p)) /\ TimeOf(b, p) = TimeOf(a, p)
  BY DEF Full, TimeOf
<1>2. QED
  BY <1>1 DEF FairScores, FairTo

\* Nobody has a full answer in the row the earlier game is started with.
LEMMA FairStart == ASSUME ResultsAssumption, AnswersAssumption, Init PROVE FairInv
<1> DEFINE earlier(g) == IF g = "GEO" THEN "RLGL" ELSE "GEO"
           Blank(x) == [game |-> x, roundIndex |-> 0, tie |-> FALSE, among |-> {}, no |-> 1,
                        count |-> None, answers |-> NoScores, raw |-> NoScores,
                        revealed |-> FALSE, voided |-> FALSE]
<1>1. PICK g \in Games, start \in Starts :
        attempts = << [Blank(earlier(g)) EXCEPT !.revealed = TRUE, !.raw = start.raw], Blank(g) >>
  BY DEF Init
<1> DEFINE a1 == [Blank(earlier(g)) EXCEPT !.revealed = TRUE, !.raw = start.raw]
           a2 == Blank(g)
<1>2. DOMAIN a1.answers = {} /\ ~a2.revealed
  BY DEF NoScores
<1>3. \A p : ~Full(a1, p)
  BY <1>2 DEF Full
<1> HIDE DEF a1, a2
<1>4. attempts = <<a1, a2>>
  BY <1>1 DEF a1, a2
<1>5. DOMAIN attempts = {1, 2} /\ attempts[1] = a1 /\ attempts[2] = a2
  BY <1>4
<1>6. QED
  BY <1>2, <1>3, <1>5 DEF FairInv, FairScores, FairTo

\* Only REVEAL_RESULTS writes scores, and the answers stay as they were scored.
LEMMA FairStep ==
  ASSUME ResultsAssumption, AnswersAssumption, ResultsInv, FairInv, [Next]_vars
  PROVE  FairInv'
<1>0. ResultsTypes /\ RoundsInv /\ attempts \in Seq(Attempts) /\ Len(attempts) \in DOMAIN attempts
      /\ Current = attempts[Len(attempts)]
  BY CurrentIsAttempt DEF ResultsInv, ResultsTypes, Current
<1>1. ASSUME NEW b \in Attempts, attempts' = [attempts EXCEPT ![Len(attempts)] = b],
             b.revealed => FairScores(b, b.raw)
      PROVE  FairInv'
  <2>1. /\ DOMAIN attempts' = DOMAIN attempts /\ attempts'[Len(attempts)] = b
        /\ \A i \in DOMAIN attempts : i # Len(attempts) => attempts'[i] = attempts[i]
    BY <1>0, <1>1, OneChanged
  <2>2. QED
    BY <1>1, <2>1 DEF FairInv
<1>2. ASSUME NEW next \in Attempts, attempts' = Append(attempts, next), ~next.revealed
      PROVE  FairInv'
  <2>1. /\ DOMAIN attempts' = DOMAIN attempts \cup {Len(attempts) + 1}
        /\ \A i \in DOMAIN attempts : attempts'[i] = attempts[i]
        /\ attempts'[Len(attempts) + 1] = next
    BY <1>2, NextAttempts
  <2>2. QED
    BY <1>2, <2>1 DEF FairInv
<1>3. CASE RoundPlayed
  <2>1. PICK b \in Attempts : attempts' = [attempts EXCEPT ![Len(attempts)] = b] /\ b.revealed = Current.revealed
    BY <1>3, PlayedAttempts
  <2>2. ~Current.revealed
    BY <1>0, <1>3 DEF RoundPlayed, RoundsInv
  <2>3. QED
    BY <1>1, <2>1, <2>2
<1>4. CASE reveal
  BY <1>1, <1>4, ScoredAttempts
<1>5. CASE VoidRound
  <2> DEFINE n == Len(attempts)
             b == [Current EXCEPT !.voided = TRUE]
             next == Prepared(Current.game, Current.roundIndex, Current.tie, Current.among)
  <2>1. /\ DOMAIN attempts' = DOMAIN attempts \cup {n + 1} /\ n \in DOMAIN attempts
        /\ \A i \in DOMAIN attempts : i # n => attempts'[i] = attempts[i]
        /\ attempts'[n] = b /\ attempts'[n + 1] = next
        /\ b.game = Current.game /\ b.revealed = Current.revealed /\ b.answers = Current.answers
        /\ b.raw = Current.raw /\ ~next.revealed
    BY <1>5, VoidedAttempts
  <2> HIDE DEF b, next
  <2>2. Current.revealed => FairScores(Current, Current.raw)
    BY <1>0 DEF FairInv
  <2>3. b.revealed => FairScores(b, b.raw)
    BY <2>1, <2>2, FairSame
  <2>4. \A i \in DOMAIN attempts : attempts'[i].revealed => FairScores(attempts'[i], attempts'[i].raw)
    BY <2>1, <2>3 DEF FairInv
  <2>5. QED
    BY <2>1, <2>4 DEF FairInv
<1>6. CASE NextRound
  BY <1>0, <1>2, <1>6, RoundPrepared
<1>7. CASE StartTiebreak
  BY <1>0, <1>2, <1>7, TiePrepared
<1>8. CASE ShowGameResults \/ ShowFinalResults \/ UNCHANGED vars \/ \E p \in Removable : RemoveParticipant(p)
  <2>1. attempts' = attempts
    BY <1>8 DEF ShowGameResults, ShowFinalResults, vars, RemoveParticipant
  <2>2. QED
    BY <2>1 DEF FairInv
<1>9. QED
  BY <1>3, <1>4, <1>5, <1>6, <1>7, <1>8 DEF Next

\* In a revealed round, of any number of players and with either rule set, whoever finished,
\* pinned inside the country or ordered all cards has more points than anybody who did not,
\* and an earlier lock never has less than a later one, after rounding for the column
\* (scoring.ts, round-scoring.ts, REVEAL_RESULTS).
THEOREM FairRoundThm == Spec => []FairRound
<1>1. Init => FairInv
  BY FairStart, ResultsAssumption, AnswersAssumption
<1>2. ResultsInv /\ FairInv /\ [Next]_vars => FairInv'
  BY FairStep, ResultsAssumption, AnswersAssumption
<1>3. FairInv => FairRound
  BY DEF FairInv, FairRound, FairScores, FairTo
<1>4. QED
  BY <1>1, <1>2, <1>3, ResultsInvariant, PTL DEF Spec

--------------------------------------------------------------------------------
(***************************************************************************)
(* Tie-breaks.                                                             *)
(***************************************************************************)

\* As long as the same rows count, with the same points, everybody's scores stay.
LEMMA TotalsSame ==
  ASSUME game' = game, \A g : Counted(g)' = Counted(g),
         \A g : \A i \in Counted(g) : attempts'[i].raw = attempts[i].raw
  PROVE  \A p : (\A g : gameScoreOf(g, p)' = gameScoreOf(g, p)) /\ Total(p)' = Total(p)
<1>1. \A g, p : gameRawTotal(g, p) = SumOver(Gains(attempts, Counted(g), p), Counted(g))
  BY RawIsSum
<1>2. (\A g, p : gameRawTotal(g, p) = SumOver(Gains(attempts, Counted(g), p), Counted(g)))'
  BY RawIsSum, PTL
<1>3. \A p : Total(p) = SumOver([g \in Games |-> gameScoreOf(g, p)], Games)
  BY TotalIsSum
<1>4. (\A p : Total(p) = SumOver([g \in Games |-> gameScoreOf(g, p)], Games))'
  BY TotalIsSum, PTL
<1>5. ASSUME NEW g, NEW p PROVE gameScoreOf(g, p)' = gameScoreOf(g, p)
  <2>1. Gains(attempts', Counted(g)', p) = Gains(attempts, Counted(g), p)
    BY DEF Gains
  <2>2. gameRawTotal(g, p)' = SumOver(Gains(attempts', Counted(g)', p), Counted(g)')
    BY <1>2
  <2>3. gameRawTotal(g, p)' = gameRawTotal(g, p)
    BY <1>1, <2>1, <2>2
  <2>4. QED
    BY <2>3 DEF gameScoreOf, plannedRounds
<1>6. ASSUME NEW p PROVE Total(p)' = Total(p)
  <2>1. [g \in Games |-> gameScoreOf(g, p)'] = [g \in Games |-> gameScoreOf(g, p)]
    BY <1>5
  <2>2. Total(p)' = SumOver([g \in Games |-> gameScoreOf(g, p)'], Games)
    BY <1>4
  <2>3. QED
    BY <1>3, <2>1, <2>2
<1>7. QED
  BY <1>5, <1>6

\* Revealing a tie-break leaves what counts alone, and the values of all who were not in it.
LEMMA TieReveal ==
  ASSUME ResultsAssumption, AnswersAssumption, ResultsInv, reveal, Current.tie
  PROVE  /\ game' = game /\ present' = present /\ present \subseteq People
         /\ \A g : Counted(g)' = Counted(g)
         /\ \A g : \A i \in Counted(g) : attempts'[i].raw = attempts[i].raw
         /\ \A p \in People : p \notin Current.among => tie_break'[p] = tie_break[p]
<1>1. PICK b \in Attempts :
        attempts' = [attempts EXCEPT ![Len(attempts)] = b] /\ b.tie = Current.tie
  BY ScoredAttempts
<1>2. Len(attempts) \in DOMAIN attempts /\ attempts \in Seq(Attempts) /\ Current = attempts[Len(attempts)]
  BY CurrentIsAttempt DEF ResultsInv, ResultsTypes, Current
<1>3. /\ DOMAIN attempts' = DOMAIN attempts /\ attempts'[Len(attempts)] = b
      /\ \A i \in DOMAIN attempts : i # Len(attempts) => attempts'[i] = attempts[i]
  BY <1>1, <1>2, OneChanged
<1>4. ASSUME NEW g, NEW i \in DOMAIN attempts
      PROVE  /\ Counts(attempts'[i], g) <=> Counts(attempts[i], g)
             /\ Counts(attempts[i], g) => attempts'[i] = attempts[i]
  <2>1. CASE i = Len(attempts)
    BY <1>1, <1>2, <1>3, <2>1 DEF Counts
  <2>2. CASE i # Len(attempts)
    BY <1>3, <2>2
  <2>3. QED
    BY <2>1, <2>2
<1>5. ASSUME NEW g PROVE Counted(g)' = Counted(g)
  BY <1>3, <1>4 DEF Counted
<1>6. \A g : \A i \in Counted(g) : attempts'[i].raw = attempts[i].raw
  BY <1>4 DEF Counted
<1>7. game' = game /\ present' = present /\ present \subseteq People
  BY DEF reveal, ResultsInv, ResultsTypes
<1>8. \A p \in People : p \notin Current.among => tie_break'[p] = tie_break[p]
  BY DEF reveal
<1>9. QED
  BY <1>5, <1>6, <1>7, <1>8

\* A tie-break moves no total and only orders players it was run for who were still equal
\* (rounds.service.ts reveal, compareStanding).
THEOREM TieBreakStaysInGroupThm == Spec => TieBreakStaysInGroup
<1> DEFINE Rows == {<<Row(p), Row(p)'>> : p \in present}
           Kept == state = "InputLocked" /\ state' = "TournamentResults" =>
                     /\ \A x \in Rows : x[1].total = x[2].total
                     /\ \A x, y \in Rows :
                          LET p == x[1]
                              q == y[1]
                          IN (\/ p.total # q.total \/ p.perfectGames # q.perfectGames
                              \/ {p.id, q.id} \cap Current.among = {})
                             => Ahead(p, q) = Ahead(x[2], y[2])
<1>1. ASSUME ResultsInv, [Next]_vars, state = "InputLocked", state' = "TournamentResults"
      PROVE  Kept
  <2>1. reveal /\ Current.tie
    <3>1. reveal
      BY <1>1 DEF Next, vars, RoundPlayed, VoidRound, NextRound, ShowGameResults, ShowFinalResults,
        StartTiebreak, RemoveParticipant
    <3>2. QED
      BY <1>1, <3>1 DEF reveal
  <2>2. /\ game' = game /\ present' = present /\ present \subseteq People
        /\ \A g : Counted(g)' = Counted(g)
        /\ \A g : \A i \in Counted(g) : attempts'[i].raw = attempts[i].raw
        /\ \A p \in People : p \notin Current.among => tie_break'[p] = tie_break[p]
    BY <1>1, <2>1, TieReveal, ResultsAssumption, AnswersAssumption
  <2>3. \A p : (\A g : gameScoreOf(g, p)' = gameScoreOf(g, p)) /\ Total(p)' = Total(p)
    BY <2>2, TotalsSame
  <2>4. ASSUME NEW p
        PROVE  /\ Row(p).id = p /\ Row(p)'.total = Row(p).total
               /\ Row(p)'.perfectGames = Row(p).perfectGames
               /\ p \in present /\ p \notin Current.among => Row(p)'.tieBreak = Row(p).tieBreak
    BY <2>2, <2>3 DEF Row
  <2>5. ASSUME NEW p \in present, NEW q \in present,
               \/ Row(p).total # Row(q).total \/ Row(p).perfectGames # Row(q).perfectGames
               \/ {Row(p).id, Row(q).id} \cap Current.among = {}
        PROVE  Ahead(Row(p), Row(q)) <=> Ahead(Row(p)', Row(q)')
    BY <2>4, <2>5 DEF Ahead
  <2>6. \A a, b : Ahead(a, b) \in BOOLEAN
    BY DEF Ahead
  <2>7. ASSUME NEW x \in Rows PROVE x[1].total = x[2].total
    <3>1. PICK p \in present : x = <<Row(p), Row(p)'>>
      BY <2>7
    <3>2. QED
      BY <2>4, <3>1
  <2>8. ASSUME NEW x \in Rows, NEW y \in Rows,
               \/ x[1].total # y[1].total \/ x[1].perfectGames # y[1].perfectGames
               \/ {x[1].id, y[1].id} \cap Current.among = {}
        PROVE  Ahead(x[1], y[1]) = Ahead(x[2], y[2])
    <3>1. PICK p \in present : x = <<Row(p), Row(p)'>>
      BY <2>8
    <3>2. PICK q \in present : y = <<Row(q), Row(q)'>>
      BY <2>8
    <3>3. x[1] = Row(p) /\ x[2] = Row(p)' /\ y[1] = Row(q) /\ y[2] = Row(q)'
      BY <3>1, <3>2
    <3>4. Ahead(Row(p), Row(q)) <=> Ahead(Row(p)', Row(q)')
      BY <2>5, <2>8, <3>3
    <3>5. Ahead(Row(p), Row(q)) = Ahead(Row(p)', Row(q)')
      BY <2>6, <3>4, Zenon
    <3>6. QED
      BY <3>3, <3>5
  <2>9. QED
    BY <2>7, <2>8
<1>3. QED
  BY <1>1, ResultsInvariant, PTL DEF Spec, TieBreakStaysInGroup

--------------------------------------------------------------------------------
(***************************************************************************)
(* Replays.                                                                *)
(***************************************************************************)

\* What counts besides the current attempt, and the totals it makes.
RestOf(g) == Counting(g) \ {Len(attempts)}
RestScore(g, p) == gameScore(SumOver(Gains(attempts, RestOf(g), p), RestOf(g)), plannedRounds(g))
RestTotal(p) == SumOver([g \in Games |-> RestScore(g, p)], Games)

\* Without the current round everybody has what they had before its first attempt.
BeforeInv == state \in Shown => \A p \in present : RestTotal(p) = before[p]

\* At most one attempt of a round stands, so the latest one that counts is the only one.
LEMMA CountedIsCounting ==
  ASSUME ResultsInv
  PROVE  \A g : Counted(g) = Counting(g)
<1>1. \A i \in DOMAIN attempts : attempts[i] \in Attempts
  BY CurrentIsAttempt DEF ResultsInv
<1>2. ASSUME NEW i \in DOMAIN attempts PROVE attempts[i].no \in Nat
  BY <1>1, AttemptFields
<1>3. ASSUME NEW g, NEW i \in DOMAIN attempts, NEW j \in DOMAIN attempts,
             Counts(attempts[i], g), Counts(attempts[j], g), attempts[j].roundIndex = attempts[i].roundIndex
      PROVE  attempts[j].no <= attempts[i].no
  <2>1. i = j
    BY <1>3 DEF ResultsInv, RoundsInv, Standing, Counts
  <2>2. QED
    BY <1>2, <2>1
<1>4. QED
  BY <1>3 DEF Counted, Counting

\* The rest's totals change only with the rest.
LEMMA RestSame ==
  ASSUME game' = game, \A g : RestOf(g)' = RestOf(g),
         \A g : \A i \in RestOf(g) : attempts'[i].raw = attempts[i].raw
  PROVE  \A p : RestTotal(p)' = RestTotal(p)
<1> SUFFICES ASSUME NEW p PROVE RestTotal(p)' = RestTotal(p)
  OBVIOUS
<1>1. ASSUME NEW g PROVE RestScore(g, p)' = RestScore(g, p)
  <2>1. Gains(attempts', RestOf(g)', p) = Gains(attempts, RestOf(g), p)
    BY DEF Gains
  <2>2. QED
    BY <2>1 DEF RestScore, plannedRounds
<1>2. QED
  BY <1>1 DEF RestTotal

\* While the current attempt counts nothing, the totals are those of the rest.
LEMMA TotalIsRest ==
  ASSUME ResultsInv, \A g : RestOf(g) = Counting(g)
  PROVE  \A p : RestTotal(p) = Total(p)
<1> SUFFICES ASSUME NEW p PROVE RestTotal(p) = Total(p)
  OBVIOUS
<1>1. ASSUME NEW g PROVE RestScore(g, p) = gameScoreOf(g, p)
  <2>1. RestOf(g) = Counted(g)
    BY CountedIsCounting
  <2>2. gameRawTotal(g, p) = SumOver(Gains(attempts, Counted(g), p), Counted(g))
    BY RawIsSum
  <2>3. QED
    BY <2>1, <2>2 DEF RestScore, gameScoreOf
<1>2. Total(p) = SumOver([g \in Games |-> gameScoreOf(g, p)], Games)
  BY TotalIsSum
<1>3. QED
  BY <1>1, <1>2 DEF RestTotal

\* A new attempt leaves everything that counted as the rest.
LEMMA RestAfterAppend ==
  ASSUME ResultsInv, NEW next \in Attempts, attempts' = Append(attempts, next), ~next.revealed, game' = game
  PROVE  \A p : RestTotal(p)' = Total(p)
<1>1. /\ DOMAIN attempts' = DOMAIN attempts \cup {Len(attempts) + 1} /\ Len(attempts') = Len(attempts) + 1
      /\ Len(attempts) + 1 \notin DOMAIN attempts
      /\ \A i \in DOMAIN attempts : attempts'[i] = attempts[i]
      /\ attempts'[Len(attempts) + 1] = next
  BY NextAttempts
<1>2. ASSUME NEW g PROVE RestOf(g)' = Counted(g)
  <2>1. RestOf(g)' = {i \in DOMAIN attempts' : Counts(attempts'[i], g)} \ {Len(attempts')}
    BY DEF RestOf, Counting
  <2>2. Counting(g) = {i \in DOMAIN attempts : Counts(attempts[i], g)}
    BY DEF Counting
  <2>3. RestOf(g)' = Counting(g)
    BY <1>1, <2>1, <2>2
  <2>4. QED
    BY <2>3, CountedIsCounting
<1>3. ASSUME NEW g, NEW p PROVE RestScore(g, p)' = gameScoreOf(g, p)
  <2>1. Gains(attempts', RestOf(g)', p) = Gains(attempts, Counted(g), p)
    <3>1. Counted(g) \subseteq DOMAIN attempts
      BY DEF Counted
    <3>2. QED
      BY <1>1, <1>2, <3>1 DEF Gains
  <2>2. gameRawTotal(g, p) = SumOver(Gains(attempts, Counted(g), p), Counted(g))
    BY RawIsSum
  <2>3. QED
    BY <1>2, <2>1, <2>2 DEF RestScore, gameScoreOf, plannedRounds
<1>4. ASSUME NEW p PROVE RestTotal(p)' = Total(p)
  <2>1. Total(p) = SumOver([g \in Games |-> gameScoreOf(g, p)], Games)
    BY TotalIsSum
  <2>2. QED
    BY <1>3, <2>1 DEF RestTotal
<1>5. QED
  BY <1>4

\* A sum with one term.
LEMMA SumSingle ==
  ASSUME NEW S, IsFiniteSet(S), NEW f, NEW a \in S, f[a] \in Int, \A x \in S : x # a => f[x] = 0
  PROVE  SumOver(f, S) = f[a]
<1> DEFINE R == S \ {a}
<1>1. IsFiniteSet(R) /\ a \notin R /\ S = R \cup {a} /\ \A x \in R : f[x] = 0
  BY FS_Subset
<1> HIDE DEF R
<1>2. IsSumTable([T \in SUBSET R |-> 0], f, R)
  BY <1>1 DEF IsSumTable
<1>3. SumOver(f, R) = 0
  BY <1>1, <1>2, SumIsTable
<1>4. SumOver(f, R \cup {a}) = f[a] + SumOver(f, R)
  <2>1. \A x \in R : f[x] \in Int
    BY <1>1
  <2>2. QED
    BY <1>1, <2>1, SumAdd
<1>5. QED
  BY <1>1, <1>3, <1>4

\* There are three games.
LEMMA GamesFinite == IsFiniteSet(Games)
<1>1. IsFiniteSet({"RLGL"})
  BY FS_Singleton
<1>2. IsFiniteSet({"RLGL"} \cup {"GEO"})
  BY <1>1, FS_AddElement
<1>3. IsFiniteSet(({"RLGL"} \cup {"GEO"}) \cup {"ORDER"})
  BY <1>2, FS_AddElement
<1>4. Games = ({"RLGL"} \cup {"GEO"}) \cup {"ORDER"}
  BY DEF Games
<1>5. QED
  BY <1>3, <1>4

\* No points make a score of 0.
LEMMA NothingIsZero ==
  ASSUME NEW k \in Nat \ {0}
  PROVE  gameScore(0, k) = 0
<1> DEFINE d == (100 * 1000 * k) \div 1000
<1>1. d \in Nat /\ d > 0
  OBVIOUS
<1> HIDE DEF d
<1>2. (2 * 0 + d) \div (2 * d) = 0
  <2>1. 2 * d \in Nat \ {0} /\ 2 * 0 + d = d /\ d < 2 * d
    BY <1>1
  <2> DEFINE e == 2 * d
  <2> HIDE DEF e
  <2>2. e \in Nat \ {0} /\ d < e
    BY <2>1 DEF e
  <2>3. d \div e = 0
    BY <1>1, <2>2
  <2>4. QED
    BY <2>1, <2>3 DEF e
<1>3. QED
  BY <1>2 DEF gameScore, GAME_MAX, d

\* At the start everybody has what the earlier game gave them.
LEMMA BeforeStart == ASSUME ResultsAssumption, AnswersAssumption, Init PROVE BeforeInv
<1> DEFINE Other(g) == IF g = "GEO" THEN "RLGL" ELSE "GEO"
           Blank(x) == [game |-> x, roundIndex |-> 0, tie |-> FALSE, among |-> {}, no |-> 1,
                        count |-> None, answers |-> NoScores, raw |-> NoScores,
                        revealed |-> FALSE, voided |-> FALSE]
<1>1. PICK g \in Games, start \in Starts :
        /\ attempts = << [Blank(Other(g)) EXCEPT !.revealed = TRUE, !.raw = start.raw], Blank(g) >>
        /\ game = g /\ present = DOMAIN start.raw
        /\ before = [p \in DOMAIN start.raw |-> gameScore(start.raw[p], 1)]
  BY DEF Init
<1> DEFINE e == Other(g)
           a1 == [Blank(e) EXCEPT !.revealed = TRUE, !.raw = start.raw]
           a2 == Blank(g)
<1>2. a1.game = e /\ ~a1.tie /\ ~a1.voided /\ a1.revealed /\ a1.raw = start.raw
  OBVIOUS
<1>3. e \in Games /\ e # g
  BY DEF Games
<1> HIDE DEF a1, a2, e
<1>4. DOMAIN attempts = {1, 2} /\ attempts[1] = a1 /\ Len(attempts) = 2
  BY <1>1 DEF a1, a2, e
<1>5. ASSUME NEW x PROVE RestOf(x) = IF x = e THEN {1} ELSE {}
  <2>1. RestOf(x) = {i \in {1} : Counts(attempts[i], x)}
    BY <1>4 DEF RestOf, Counting
  <2>2. Counts(a1, x) <=> x = e
    BY <1>2 DEF Counts
  <2>3. CASE x = e
    BY <1>4, <2>1, <2>2, <2>3
  <2>4. CASE x # e
    BY <1>4, <2>1, <2>2, <2>4
  <2>5. QED
    BY <2>3, <2>4
<1>6. \A p \in present : start.raw[p] \in Int
  BY <1>1 DEF AnswersAssumption
<1>7. ASSUME NEW p \in present PROVE RestTotal(p) = before[p]
  <2> DEFINE f == [x \in Games |-> RestScore(x, p)]
  <2>1. RestScore(e, p) = before[p]
    <3>1. RestOf(e) = {1} /\ plannedRounds(e) = 1
      BY <1>1, <1>3, <1>5 DEF plannedRounds
    <3> DEFINE h == Gains(attempts, {1}, p)
    <3>2. h[1] = start.raw[p]
      BY <1>1, <1>2, <1>4, <1>7 DEF Gains
    <3> HIDE DEF h
    <3>3. SumOver(h, {1}) = h[1]
      <4>1. IsFiniteSet({1}) /\ 1 \in {1} /\ h[1] \in Int /\ \A x \in {1} : x # 1 => h[x] = 0
        BY <1>6, <1>7, <3>2, FS_Singleton
      <4>2. QED
        BY <4>1, SumSingle
    <3>4. RestScore(e, p) = gameScore(SumOver(h, {1}), 1)
      BY <3>1 DEF RestScore, h
    <3>5. QED
      BY <1>1, <1>7, <3>2, <3>3, <3>4
  <2>2. ASSUME NEW x \in Games, x # e PROVE RestScore(x, p) = 0
    <3>1. RestOf(x) = {}
      BY <1>5, <2>2
    <3>2. SumOver(Gains(attempts, {}, p), {}) = 0
      BY SumEmpty
    <3>3. plannedRounds(x) \in Nat \ {0}
      BY DEF plannedRounds, ResultsAssumption
    <3>4. QED
      BY <3>1, <3>2, <3>3, NothingIsZero DEF RestScore
  <2>3. before[p] \in Int
    <3>1. before[p] = gameScore(start.raw[p], 1)
      BY <1>1, <1>7
    <3>2. start.raw[p] \in Int
      BY <1>6, <1>7
    <3>3. QED
      BY <3>1, <3>2 DEF gameScore, GAME_MAX
  <2>4. IsFiniteSet(Games)
    BY GamesFinite
  <2>5. f[e] = before[p] /\ f[e] \in Int /\ \A x \in Games : x # e => f[x] = 0
    BY <1>3, <2>1, <2>2, <2>3
  <2> HIDE DEF f
  <2>6. SumOver(f, Games) = f[e]
    BY <1>3, <2>4, <2>5, SumSingle
  <2>7. QED
    BY <2>5, <2>6 DEF RestTotal, f
<1>8. QED
  BY <1>7 DEF BeforeInv

\* Playing, revealing and voiding the current round leave the rest alone; the next round
\* and a tie-break start from all that counts.
LEMMA BeforeStep ==
  ASSUME ResultsAssumption, AnswersAssumption, ResultsInv, BeforeInv, [Next]_vars
  PROVE  BeforeInv'
<1>0. /\ ResultsTypes /\ attempts \in Seq(Attempts) /\ Len(attempts) \in DOMAIN attempts
      /\ Current = attempts[Len(attempts)] /\ present \subseteq People
  BY CurrentIsAttempt DEF ResultsInv, ResultsTypes, Current
<1>1. ASSUME NEW b \in Attempts, attempts' = [attempts EXCEPT ![Len(attempts)] = b],
             game' = game, present' = present, before' = before, state \in Shown
      PROVE  BeforeInv'
  <2>1. /\ DOMAIN attempts' = DOMAIN attempts /\ Len(attempts') = Len(attempts)
        /\ \A i \in DOMAIN attempts : i # Len(attempts) => attempts'[i] = attempts[i]
    BY <1>0, <1>1, OneChanged
  <2>2. ASSUME NEW g PROVE RestOf(g)' = RestOf(g)
    BY <2>1 DEF RestOf, Counting
  <2>3. \A g : \A i \in RestOf(g) : attempts'[i].raw = attempts[i].raw
    BY <2>1 DEF RestOf, Counting
  <2>4. \A p : RestTotal(p)' = RestTotal(p)
    BY <1>1, <2>2, <2>3, RestSame
  <2>5. QED
    BY <1>1, <2>4 DEF BeforeInv
<1>2. ASSUME NEW next \in Attempts, attempts' = Append(attempts, next), ~next.revealed, game' = game,
             present' = present, before' = [p \in People |-> Total(p)]
      PROVE  BeforeInv'
  <2>1. \A p : RestTotal(p)' = Total(p)
    BY <1>2, RestAfterAppend
  <2>2. \A p \in present : before'[p] = Total(p)
    BY <1>0, <1>2
  <2>3. QED
    BY <1>2, <2>1, <2>2 DEF BeforeInv
<1>3. CASE RoundPlayed
  <2>1. PICK b \in Attempts : attempts' = [attempts EXCEPT ![Len(attempts)] = b]
    BY <1>3, PlayedAttempts
  <2>2. game' = game /\ present' = present /\ before' = before /\ state \in Shown
    BY <1>3 DEF RoundPlayed, Shown
  <2>3. QED
    BY <1>1, <2>1, <2>2
<1>4. CASE reveal
  <2>1. PICK b \in Attempts : attempts' = [attempts EXCEPT ![Len(attempts)] = b]
    BY <1>4, ScoredAttempts
  <2>2. game' = game /\ present' = present /\ before' = before /\ state \in Shown
    BY <1>4 DEF reveal, Shown
  <2>3. QED
    BY <1>1, <2>1, <2>2
<1>5. CASE VoidRound
  <2> DEFINE n == Len(attempts)
             b == [Current EXCEPT !.voided = TRUE]
             next == Prepared(Current.game, Current.roundIndex, Current.tie, Current.among)
  <2>1. /\ Len(attempts') = n + 1 /\ DOMAIN attempts' = DOMAIN attempts \cup {n + 1} /\ n \in DOMAIN attempts
        /\ n + 1 \notin DOMAIN attempts /\ n \in Nat
        /\ \A i \in DOMAIN attempts : i # n => attempts'[i] = attempts[i]
        /\ attempts'[n] = b /\ b.voided
    BY <1>5, VoidedAttempts
  <2> HIDE DEF b, next
  <2>2. ASSUME NEW g PROVE RestOf(g)' = RestOf(g)
    <3>1. RestOf(g)' = {i \in DOMAIN attempts' : Counts(attempts'[i], g)} \ {Len(attempts')}
      BY DEF RestOf, Counting
    <3>2. RestOf(g) = {i \in DOMAIN attempts : Counts(attempts[i], g)} \ {n}
      BY DEF RestOf, Counting
    <3>3. ~Counts(attempts'[n], g)
      BY <2>1 DEF Counts
    <3>4. QED
      BY <2>1, <3>1, <3>2, <3>3
  <2>3. \A g : \A i \in RestOf(g) : attempts'[i].raw = attempts[i].raw
    BY <2>1 DEF RestOf, Counting
  <2>4. game' = game /\ present' = present /\ before' = before /\ state \in Shown
    BY <1>5 DEF VoidRound, Shown
  <2>5. \A p : RestTotal(p)' = RestTotal(p)
    BY <2>2, <2>3, <2>4, RestSame
  <2>6. QED
    BY <2>4, <2>5 DEF BeforeInv
<1>6. CASE NextRound
  <2>1. PICK next \in Attempts : attempts' = Append(attempts, next) /\ ~next.revealed
    BY <1>0, <1>6, RoundPrepared
  <2>2. game' = game /\ present' = present /\ before' = [p \in People |-> Total(p)]
    BY <1>6 DEF NextRound
  <2>3. QED
    BY <1>2, <2>1, <2>2
<1>7. CASE StartTiebreak
  <2>1. PICK next \in Attempts : attempts' = Append(attempts, next) /\ ~next.revealed
    BY <1>0, <1>7, TiePrepared
  <2>2. game' = game /\ present' = present /\ before' = [p \in People |-> Total(p)]
    BY <1>7 DEF StartTiebreak
  <2>3. QED
    BY <1>2, <2>1, <2>2
<1>8. CASE ShowGameResults \/ ShowFinalResults
  BY <1>8 DEF ShowGameResults, ShowFinalResults, BeforeInv, Shown
<1>9. CASE UNCHANGED vars \/ \E p \in Removable : RemoveParticipant(p)
  <2>1. /\ state' = state /\ game' = game /\ attempts' = attempts /\ before' = before /\ present' \subseteq present
    BY <1>9 DEF RemoveParticipant, vars
  <2>2. ASSUME NEW g PROVE RestOf(g)' = RestOf(g)
    BY <2>1 DEF RestOf, Counting
  <2>3. \A p : RestTotal(p)' = RestTotal(p)
    BY <2>1, <2>2, RestSame
  <2>4. QED
    BY <2>1, <2>3 DEF BeforeInv
<1>10. QED
  BY <1>3, <1>4, <1>5, <1>6, <1>7, <1>8, <1>9 DEF Next

\* However often a round is voided and replayed, everybody's total while it is prepared or
\* played is what it was before its first attempt (VOID_ROUND, gameRawTotals).
THEOREM ReplayStartsCleanThm == Spec => []ReplayStartsClean
<1>1. Init => BeforeInv
  BY BeforeStart, ResultsAssumption, AnswersAssumption
<1>2. ResultsInv /\ BeforeInv /\ [Next]_vars => BeforeInv'
  BY BeforeStep, ResultsAssumption, AnswersAssumption
<1>3. ResultsInv /\ BeforeInv => ReplayStartsClean
  <2>1. SUFFICES ASSUME ResultsInv, BeforeInv, state \in {"Ready", "InputLocked"}, NEW p \in present
                 PROVE  Total(p) = before[p]
    BY DEF ReplayStartsClean
  <2>2. ~attempts[Len(attempts)].revealed
    BY <2>1 DEF ResultsInv, RoundsInv, Current
  <2>3. \A g : RestOf(g) = Counting(g)
    BY <2>2 DEF RestOf, Counting, Counts
  <2>4. RestTotal(p) = Total(p)
    BY <2>1, <2>3, TotalIsRest
  <2>5. QED
    BY <2>1, <2>4 DEF BeforeInv, Shown
<1>4. QED
  BY <1>1, <1>2, <1>3, ResultsInvariant, PTL DEF Spec

--------------------------------------------------------------------------------
(***************************************************************************)
(* Standings and the podium.                                               *)
(***************************************************************************)

\* Who is tied with whom is an equivalence that "above" respects.
WeakOrder(rows, above) ==
  /\ \A r \in rows : <<r, r>> \notin above
  /\ \A q, r, s \in rows : <<q, r>> \in above /\ <<r, s>> \notin above /\ <<s, r>> \notin above => <<q, s>> \in above
  /\ \A q, r, s \in rows :
       <<q, r>> \notin above /\ <<r, q>> \notin above /\ <<r, s>> \notin above /\ <<s, r>> \notin above
         => <<q, s>> \notin above /\ <<s, q>> \notin above

Placed(r, n) == [id |-> r.id, total |-> r.total, perfectGames |-> r.perfectGames, tieBreak |-> r.tieBreak,
                 rank |-> n]
Better(rows, above, r) == {q \in rows : <<q, r>> \in above}

\* A finite table in which the ids tell the rows apart.
Rankable(rows) ==
  /\ IsFiniteSet(rows) /\ \A r \in rows : r.id \in Nat
  /\ \A q, r \in rows : q.id = r.id => q = r

\* "beats" orders the ranked rows as "above" orders the rows.
SameOrder(rows, above, beats) ==
  \A q, r \in rows : \A m, n \in Nat : <<Placed(q, m), Placed(r, n)>> \in beats <=> <<q, r>> \in above

Numbered(table, ahead) == \A x \in table : ahead[x] \in Nat /\ x.rank = 1 + ahead[x]

\* The rank is one more than the number of rows above: all of a tie share it.
LEMMA RankIsPlace ==
  ASSUME NEW rows, Rankable(rows), NEW above, WeakOrder(rows, above)
  PROVE  Ranked(rows, above) = {Placed(r, 1 + Cardinality(Better(rows, above, r))) : r \in rows}
<1> DEFINE Above(q, r) == <<q, r>> \in above
           First(r) == CHOOSE q \in rows :
                         /\ ~Above(q, r) /\ ~Above(r, q)
                         /\ \A x \in rows : ~Above(x, r) /\ ~Above(r, x) => q.id <= x.id
           In(r) == {q \in rows : Above(q, r) \/ (~Above(r, q) /\ q.id < r.id)}
<1>1. ASSUME NEW r \in rows
      PROVE  /\ First(r) \in rows /\ ~Above(First(r), r) /\ ~Above(r, First(r))
             /\ \A x \in rows : ~Above(x, r) /\ ~Above(r, x) => First(r).id <= x.id
  <2> DEFINE Eq == {q \in rows : ~Above(q, r) /\ ~Above(r, q)}
             f == [q \in Eq |-> q.id]
             B == {f[q] : q \in Eq}
  <2>1. IsFiniteSet(Eq) /\ r \in Eq
    BY FS_Subset DEF WeakOrder, Rankable
  <2>2. IsFiniteSet(B)
    <3> HIDE DEF f, Eq
    <3>1. QED
      BY <2>1, ImageFinite
  <2>3. B \subseteq Int /\ B # {}
    <3>1. \A q \in Eq : f[q] \in Int
      BY DEF Rankable
    <3> HIDE DEF f, Eq
    <3>2. QED
      BY <2>1, <3>1
  <2>4. PICK b \in B : \A c \in B : b <= c
    <3> HIDE DEF B
    <3>1. QED
      BY <2>2, <2>3, Least
  <2>5. PICK q \in Eq : b = q.id
    OBVIOUS
  <2>6. \A x \in Eq : x.id \in B
    OBVIOUS
  <2>7. \A x \in rows : ~Above(x, r) /\ ~Above(r, x) => q.id <= x.id
    BY <2>4, <2>5, <2>6
  <2>8. QED
    BY <2>5, <2>7
<1>2. ASSUME NEW r \in rows PROVE In(First(r)) = Better(rows, above, r)
  <2> DEFINE q == First(r)
  <2>1. q \in rows /\ ~Above(q, r) /\ ~Above(r, q)
        /\ \A x \in rows : ~Above(x, r) /\ ~Above(r, x) => q.id <= x.id
    BY <1>1
  <2> HIDE DEF q
  <2>2. ASSUME NEW x \in rows PROVE Above(x, q) \/ (~Above(q, x) /\ x.id < q.id) <=> Above(x, r)
    <3>1. CASE Above(x, q)
      BY <2>1, <3>1 DEF WeakOrder
    <3>2. CASE ~Above(x, q)
      <4>1. ~Above(x, r)
        BY <2>1, <3>2 DEF WeakOrder
      <4>2. ~(~Above(q, x) /\ x.id < q.id)
        <5>1. SUFFICES ASSUME ~Above(q, x), x.id < q.id PROVE FALSE
          OBVIOUS
        <5>2. ~Above(x, r) /\ ~Above(r, x)
          BY <2>1, <3>2, <5>1 DEF WeakOrder
        <5>3. QED
          BY <2>1, <5>1, <5>2 DEF Rankable
      <4>3. QED
        BY <3>2, <4>1, <4>2
    <3>3. QED
      BY <3>1, <3>2
  <2>3. In(q) = Better(rows, above, r)
    BY <2>2 DEF Better
  <2>4. QED
    BY <2>3 DEF q
<1>3. Ranked(rows, above) = {Placed(r, 1 + Cardinality(In(First(r)))) : r \in rows}
  BY DEF Ranked, Placed
<1> HIDE DEF In, First
<1>4. QED
  BY <1>2, <1>3

\* So a row's rank counts the rows before it in the table itself.
LEMMA RankCounts ==
  ASSUME NEW rows, Rankable(rows), NEW above, WeakOrder(rows, above), NEW table, table = Ranked(rows, above),
         NEW beats, SameOrder(rows, above, beats), NEW x \in table
  PROVE  x.rank = 1 + Cardinality({y \in table : <<y, x>> \in beats}) /\ x.rank \in Nat
<1> DEFINE Num(r) == 1 + Cardinality(Better(rows, above, r))
<1>1. table = {Placed(r, Num(r)) : r \in rows}
  BY RankIsPlace
<1>2. PICK r \in rows : x = Placed(r, Num(r))
  BY <1>1
<1>3. ASSUME NEW q \in rows PROVE Num(q) \in Nat /\ IsFiniteSet(Better(rows, above, q)) /\ Cardinality(Better(rows, above, q)) \in Nat
  <2>1. IsFiniteSet(Better(rows, above, q))
    BY FS_Subset DEF Better, Rankable
  <2>2. QED
    BY <2>1, FS_CardinalityType
<1> DEFINE A == Better(rows, above, r)
           B == {y \in table : <<y, x>> \in beats}
           f == [q \in A |-> Placed(q, Num(q))]
<1>4. f \in Bijection(A, B)
  <2>1. ASSUME NEW q \in A PROVE f[q] \in B
    <3>1. q \in rows /\ <<q, r>> \in above
      BY DEF Better
    <3>2. Placed(q, Num(q)) \in table
      BY <1>1, <3>1
    <3>3. <<Placed(q, Num(q)), x>> \in beats
      <4> HIDE DEF Num
      <4>1. QED
        BY <1>2, <1>3, <3>1 DEF SameOrder
    <3>4. QED
      BY <3>2, <3>3
  <2>2. ASSUME NEW y \in B PROVE \E q \in A : f[q] = y
    <3>1. PICK q \in rows : y = Placed(q, Num(q))
      BY <1>1
    <3>2. <<y, x>> \in beats
      OBVIOUS
    <3>3. <<q, r>> \in above
      <4> HIDE DEF Num
      <4>1. QED
        BY <1>2, <1>3, <3>1, <3>2 DEF SameOrder
    <3>4. QED
      BY <3>1, <3>3 DEF Better
  <2>3. ASSUME NEW q \in A, NEW s \in A, f[q] = f[s] PROVE q = s
    <3>1. q \in rows /\ s \in rows
      BY DEF Better
    <3>2. q.id = s.id
      BY <2>3 DEF Placed
    <3>3. QED
      BY <3>1, <3>2 DEF Rankable
  <2> HIDE DEF A, B
  <2>4. f \in [A -> B]
    BY <2>1
  <2> HIDE DEF f
  <2>5. QED
    BY <2>2, <2>3, <2>4 DEF Bijection, Injection, Surjection, IsInjective
<1>5. Cardinality(A) = Cardinality(B)
  <2>1. IsFiniteSet(A)
    BY <1>3
  <2> HIDE DEF A, B, f
  <2>2. QED
    BY <1>4, <2>1, FS_Bijection DEF ExistsBijection
<1>6. x.rank = Num(r)
  BY <1>2 DEF Placed
<1>7. QED
  BY <1>3, <1>5, <1>6

\* What the podium shows of a table whose ranks count the rows before.
LEMMA BandsShow ==
  ASSUME NEW table, NEW ahead, Numbered(table, ahead), NEW step \in 1..4
  PROVE  UNION {b.ids : b \in podiumBands(table, step)} =
           {r.id : r \in {x \in table : ahead[x] < 3 /\ ahead[x] >= 3 - step}}
<1> DEFINE Ids(k) == {r.id : r \in {x \in table : x.rank = k}}
           ranks == podiumRevealRanks(table, step)
<1>1. UNION {b.ids : b \in podiumBands(table, step)} = UNION {Ids(k) : k \in ranks}
  <2>1. podiumBands(table, step) = {[rank |-> k, ids |-> Ids(k)] : k \in ranks}
    BY DEF podiumBands
  <2> HIDE DEF Ids, ranks
  <2>2. ASSUME NEW v, v \in UNION {b.ids : b \in podiumBands(table, step)} PROVE v \in UNION {Ids(k) : k \in ranks}
    <3>1. PICK b \in podiumBands(table, step) : v \in b.ids
      BY <2>2
    <3>2. PICK k \in ranks : b = [rank |-> k, ids |-> Ids(k)]
      BY <2>1
    <3>3. v \in Ids(k)
      BY <3>1, <3>2
    <3>4. QED
      BY <3>3
  <2>3. ASSUME NEW v, v \in UNION {Ids(k) : k \in ranks} PROVE v \in UNION {b.ids : b \in podiumBands(table, step)}
    <3>1. PICK k \in ranks : v \in Ids(k)
      BY <2>3
    <3>2. [rank |-> k, ids |-> Ids(k)] \in podiumBands(table, step) /\ [rank |-> k, ids |-> Ids(k)].ids = Ids(k)
      BY <2>1
    <3>3. QED
      BY <3>1, <3>2
  <2>4. QED
    BY <2>2, <2>3
<1>2. ASSUME NEW x \in table PROVE x.rank \in ranks <=> ahead[x] < 3 /\ ahead[x] >= 3 - step
  BY DEF podiumRevealRanks, podiumRanks, Numbered
<1>3. \A k : k \in ranks => \E x \in table : x.rank = k
  BY DEF podiumRevealRanks, podiumRanks
<1> HIDE DEF ranks
<1>4. UNION {Ids(k) : k \in ranks} = {r.id : r \in {x \in table : x.rank \in ranks}}
  OBVIOUS
<1>5. QED
  BY <1>1, <1>2, <1>4

\* A sum of integers over a finite set is an integer.
LEMMA SumInt ==
  ASSUME NEW S, IsFiniteSet(S), NEW f, \A x \in S : f[x] \in Int
  PROVE  SumOver(f, S) \in Int
<1>1. PICK C : IsSumTable(C, f, S)
  BY TableExists
<1>2. SumOver(f, S) = C[S]
  BY <1>1, SumIsTable
<1>3. QED
  BY <1>1, <1>2 DEF IsSumTable

\* A game's score is an integer.
LEMMA GameScoreInt ==
  ASSUME NEW x \in Int, NEW k \in Nat \ {0}
  PROVE  gameScore(x, k) \in Int
<1> DEFINE d == (100 * 1000 * k) \div 1000
<1>1. d \in Nat /\ d > 0
  OBVIOUS
<1> HIDE DEF d
<1>2. gameScore(x, k) = (2 * x + d) \div (2 * d)
  BY DEF gameScore, GAME_MAX, d
<1> DEFINE e == 2 * d
           y == 2 * x + d
<1>3. e \in Nat \ {0} /\ y \in Int
  BY <1>1
<1> HIDE DEF e, y
<1>4. y \div e \in Int
  BY <1>3
<1>5. QED
  BY <1>2, <1>4 DEF e, y

\* The standings compare numbers.
LEMMA RowTyped ==
  ASSUME ResultsAssumption, ResultsInv, NEW p \in present
  PROVE  /\ \A g \in Games : gameScoreOf(g, p) \in Int
         /\ Row(p).id = p /\ p \in Nat /\ Row(p).total \in Int /\ Row(p).perfectGames \in Nat /\ Row(p).tieBreak \in Int
<1>1. p \in People /\ p \in Nat /\ tie_break[p] \in Int
  BY DEF ResultsInv, ResultsTypes, ResultsAssumption
<1>2. ASSUME NEW g \in Games PROVE gameScoreOf(g, p) \in Int
  <2> DEFINE f == Gains(attempts, Counted(g), p)
  <2>1. IsFiniteSet(Counted(g)) /\ Counted(g) \subseteq DOMAIN attempts
    <3>1. DOMAIN attempts = 1..Len(attempts) /\ 1 \in Int /\ Len(attempts) \in Int
      BY CurrentIsAttempt DEF ResultsInv, ResultsTypes
    <3>2. IsFiniteSet(DOMAIN attempts)
      BY <3>1, FS_Interval
    <3>3. Counted(g) \subseteq DOMAIN attempts
      BY DEF Counted
    <3>4. QED
      BY <3>2, <3>3, FS_Subset
  <2>2. ASSUME NEW i \in Counted(g) PROVE f[i] \in Int
    <3>1. attempts[i] \in Attempts
      BY <2>1, CurrentIsAttempt DEF ResultsInv
    <3>2. attempts[i].raw \in [DOMAIN attempts[i].raw -> Int]
      BY <3>1, AttemptFields
    <3>3. QED
      BY <3>2 DEF Gains
  <2> HIDE DEF f
  <2>3. SumOver(f, Counted(g)) \in Int
    BY <2>1, <2>2, SumInt
  <2>4. gameRawTotal(g, p) \in Int
    BY <2>3, RawIsSum DEF f
  <2>5. plannedRounds(g) \in Nat \ {0}
    BY DEF plannedRounds, ResultsAssumption
  <2>6. QED
    BY <2>4, <2>5, GameScoreInt DEF gameScoreOf
<1>3. Total(p) \in Int
  <2> DEFINE f == [g \in Games |-> gameScoreOf(g, p)]
  <2>1. \A g \in Games : f[g] \in Int
    BY <1>2
  <2> HIDE DEF f
  <2>2. SumOver(f, Games) \in Int
    BY <2>1, GamesFinite, SumInt
  <2>3. QED
    BY <2>2, TotalIsSum DEF f
<1>4. Cardinality({g \in Games : gameScoreOf(g, p) = GAME_MAX}) \in Nat
  BY GamesFinite, FS_Subset, FS_CardinalityType
<1>5. QED
  BY <1>1, <1>2, <1>3, <1>4 DEF Row

\* The two orders of the standings are weak orders of rows with numbers in them.
LEMMA AheadWeak ==
  ASSUME NEW rows, \A r \in rows : r.total \in Int /\ r.perfectGames \in Int /\ r.tieBreak \in Int
  PROVE  /\ WeakOrder(rows, {x \in rows \X rows : Ahead(x[1], x[2])})
         /\ WeakOrder(rows, {x \in rows \X rows : AheadInGame(x[1], x[2])})
<1> DEFINE A == {x \in rows \X rows : Ahead(x[1], x[2])}
           B == {x \in rows \X rows : AheadInGame(x[1], x[2])}
<1>1. ASSUME NEW q \in rows, NEW r \in rows
      PROVE  (<<q, r>> \in A <=> Ahead(q, r)) /\ (<<q, r>> \in B <=> AheadInGame(q, r))
  OBVIOUS
<1> HIDE DEF A, B
<1>2. ASSUME NEW r \in rows PROVE ~Ahead(r, r) /\ ~AheadInGame(r, r)
  BY DEF Ahead, AheadInGame
<1>3. ASSUME NEW q \in rows, NEW r \in rows, NEW s \in rows
      PROVE  /\ Ahead(q, r) /\ ~Ahead(r, s) /\ ~Ahead(s, r) => Ahead(q, s)
             /\ AheadInGame(q, r) /\ ~AheadInGame(r, s) /\ ~AheadInGame(s, r) => AheadInGame(q, s)
             /\ ~Ahead(q, r) /\ ~Ahead(r, q) /\ ~Ahead(r, s) /\ ~Ahead(s, r) => ~Ahead(q, s) /\ ~Ahead(s, q)
             /\ ~AheadInGame(q, r) /\ ~AheadInGame(r, q) /\ ~AheadInGame(r, s) /\ ~AheadInGame(s, r)
                  => ~AheadInGame(q, s) /\ ~AheadInGame(s, q)
  <2>1. ASSUME NEW x \in rows, NEW y \in rows
        PROVE  /\ ~Ahead(x, y) /\ ~Ahead(y, x) <=>
                    x.total = y.total /\ x.perfectGames = y.perfectGames /\ x.tieBreak = y.tieBreak
               /\ ~AheadInGame(x, y) /\ ~AheadInGame(y, x) <=> x.total = y.total
    BY DEF Ahead, AheadInGame
  <2>2. QED
    BY <2>1 DEF Ahead, AheadInGame
<1>4. WeakOrder(rows, A)
  BY <1>1, <1>2, <1>3 DEF WeakOrder
<1>5. WeakOrder(rows, B)
  BY <1>1, <1>2, <1>3 DEF WeakOrder
<1>6. QED
  BY <1>4, <1>5 DEF A, B

\* There is a row for each participant.
LEMMA RowsFinite ==
  ASSUME ResultsAssumption, ResultsInv, NEW f, DOMAIN f = present
  PROVE  IsFiniteSet({f[p] : p \in present})
<1>1. IsFiniteSet(present)
  BY FS_Subset DEF ResultsInv, ResultsTypes, ResultsAssumption
<1>2. QED
  BY <1>1, ImageFinite

\* Whom a step of the podium shows, and whom it should.
InBands(table, step) == UNION {b.ids : b \in podiumBands(table, step)}
InPlace(table, beats, step) ==
  {r.id : r \in {x \in table : Cardinality({y \in table : <<y, x>> \in beats}) < 3
                               /\ Cardinality({y \in table : <<y, x>> \in beats}) >= 3 - step}}

\* In a table ranked by such an order a step of the podium shows whom it should.
LEMMA StepShows ==
  ASSUME NEW rows, Rankable(rows), NEW above, WeakOrder(rows, above), NEW table, table = Ranked(rows, above),
         NEW beats, SameOrder(rows, above, beats), NEW step \in 1..4
  PROVE  InBands(table, step) = InPlace(table, beats, step)
<1> DEFINE Num(x) == Cardinality({y \in table : <<y, x>> \in beats})
           ahead == [x \in table |-> Num(x)]
<1>1. ASSUME NEW x \in table PROVE Num(x) \in Nat /\ x.rank = 1 + Num(x)
  <2>1. x.rank = 1 + Num(x) /\ x.rank \in Nat
    BY RankCounts
  <2>2. IsFiniteSet(table)
    <3> DEFINE f == [r \in rows |-> Placed(r, 1 + Cardinality(Better(rows, above, r)))]
    <3>1. table = {f[r] : r \in rows}
      BY RankIsPlace
    <3> HIDE DEF f
    <3>2. QED
      BY <3>1, ImageFinite DEF Rankable
  <2>3. Num(x) \in Nat
    BY <2>2, FS_Subset, FS_CardinalityType
  <2>4. QED
    BY <2>1, <2>3
<1> HIDE DEF Num
<1>2. Numbered(table, ahead)
  BY <1>1 DEF Numbered
<1>3. \A x \in table : ahead[x] = Num(x)
  OBVIOUS
<1> HIDE DEF ahead
<1>4. UNION {b.ids : b \in podiumBands(table, step)} = {r.id : r \in {x \in table : ahead[x] < 3 /\ ahead[x] >= 3 - step}}
  BY <1>2, BandsShow
<1>5. {x \in table : ahead[x] < 3 /\ ahead[x] >= 3 - step} = {x \in table : Num(x) < 3 /\ Num(x) >= 3 - step}
  BY <1>3
<1>6. QED
  BY <1>4, <1>5 DEF Num, InBands, InPlace

\* Every row of a ranked table is a row with a rank.
LEMMA TablePlaced ==
  ASSUME NEW rows, Rankable(rows), NEW above, WeakOrder(rows, above)
  PROVE  \A x \in Ranked(rows, above) : \E r \in rows : \E n \in Nat : x = Placed(r, n)
<1>1. ASSUME NEW r \in rows PROVE 1 + Cardinality(Better(rows, above, r)) \in Nat
  <2>1. IsFiniteSet(Better(rows, above, r))
    BY FS_Subset DEF Better, Rankable
  <2>2. QED
    BY <2>1, FS_CardinalityType
<1>2. Ranked(rows, above) = {Placed(r, 1 + Cardinality(Better(rows, above, r))) : r \in rows}
  BY RankIsPlace
<1>3. QED
  BY <1>1, <1>2

\* A step of the podium of a game shows whom it should,
LEMMA GameStep ==
  ASSUME ResultsAssumption, ResultsInv, NEW step \in 1..4
  PROVE  UNION {b.ids : b \in podiumBands(forGame(game), step)} =
           {r.id : r \in {x \in forGame(game) :
              Cardinality({y \in forGame(game) : AheadInGame(y, x)}) < 3
              /\ Cardinality({y \in forGame(game) : AheadInGame(y, x)}) >= 3 - step}}
<1> DEFINE Own(p) == [Row(p) EXCEPT !.total = gameScoreOf(game, p)]
           f == [p \in present |-> Own(p)]
           rows == {Own(p) : p \in present}
           above == {x \in rows \X rows : AheadInGame(x[1], x[2])}
           table == forGame(game)
           S == {Placed(r, n) : r \in rows, n \in Nat}
           beats == {z \in S \X S : AheadInGame(z[1], z[2])}
<1>1. ASSUME NEW p \in present
      PROVE  /\ Own(p).id = p /\ p \in Nat /\ Own(p).total \in Int /\ Own(p).perfectGames \in Int
             /\ Own(p).tieBreak \in Int
  <2>1. /\ Row(p).id = p /\ p \in Nat /\ Row(p).perfectGames \in Nat /\ Row(p).tieBreak \in Int
        /\ gameScoreOf(game, p) \in Int
    BY RowTyped DEF ResultsInv, ResultsTypes
  <2>2. /\ Own(p).id = Row(p).id /\ Own(p).total = gameScoreOf(game, p) /\ Own(p).tieBreak = Row(p).tieBreak
        /\ Own(p).perfectGames = Row(p).perfectGames
    BY DEF Row
  <2> HIDE DEF Own
  <2>3. QED
    BY <2>1, <2>2
<1>2. \A r \in rows : r.id \in Nat /\ r.total \in Int /\ r.perfectGames \in Int /\ r.tieBreak \in Int
  BY <1>1
<1>3. Rankable(rows)
  <2>1. \A q, r \in rows : q.id = r.id => q = r
    BY <1>1
  <2>2. IsFiniteSet({f[p] : p \in present})
    <3> HIDE DEF f
    <3>1. DOMAIN f = present
      BY DEF f
    <3>2. QED
      BY <3>1, RowsFinite
  <2>3. {f[p] : p \in present} = rows
    OBVIOUS
  <2> HIDE DEF rows, f, Own
  <2>4. QED
    BY <1>2, <2>1, <2>2, <2>3 DEF Rankable
<1>4. table = Ranked(rows, above)
  BY DEF forGame
<1> HIDE DEF Own, f, rows, table
<1>5. WeakOrder(rows, above)
  BY <1>2, AheadWeak
<1> HIDE DEF above
<1>6. \A x \in table : x \in S
  <2>1. \A x \in table : \E r \in rows : \E n \in Nat : x = Placed(r, n)
    BY <1>3, <1>4, <1>5, TablePlaced
  <2>2. QED
    BY <2>1
<1>7. SameOrder(rows, above, beats)
  <2>1. ASSUME NEW q \in rows, NEW r \in rows, NEW m \in Nat, NEW n \in Nat
        PROVE  <<Placed(q, m), Placed(r, n)>> \in beats <=> <<q, r>> \in above
    <3>1. Placed(q, m) \in S /\ Placed(r, n) \in S
      OBVIOUS
    <3>2. AheadInGame(Placed(q, m), Placed(r, n)) <=> AheadInGame(q, r)
      BY DEF Placed, AheadInGame
    <3> HIDE DEF S
    <3>3. <<q, r>> \in above <=> AheadInGame(q, r)
      BY DEF above
    <3>4. \A y, z \in S : <<y, z>> \in beats <=> AheadInGame(y, z)
      OBVIOUS
    <3> HIDE DEF beats
    <3>5. <<Placed(q, m), Placed(r, n)>> \in beats <=> AheadInGame(Placed(q, m), Placed(r, n))
      BY <3>1, <3>4
    <3>6. QED
      BY <3>2, <3>3, <3>5
  <2> HIDE DEF beats
  <2>2. QED
    BY <2>1 DEF SameOrder
<1>8. \A x, y \in table : <<y, x>> \in beats <=> AheadInGame(y, x)
  <2> HIDE DEF S
  <2>1. QED
    BY <1>6
<1> HIDE DEF beats, S
<1>9. InBands(table, step) = InPlace(table, beats, step)
  BY <1>3, <1>4, <1>5, <1>7, StepShows
<1>10. \A x \in table : {y \in table : <<y, x>> \in beats} = {y \in table : AheadInGame(y, x)}
  BY <1>8
<1>11. {x \in table : Cardinality({y \in table : <<y, x>> \in beats}) < 3
                      /\ Cardinality({y \in table : <<y, x>> \in beats}) >= 3 - step}
       = {x \in table : Cardinality({y \in table : AheadInGame(y, x)}) < 3
                        /\ Cardinality({y \in table : AheadInGame(y, x)}) >= 3 - step}
  BY <1>10
<1>12. QED
  BY <1>9, <1>11 DEF table, InBands, InPlace

\* and so does one of the final ceremony.
LEMMA TournamentStep ==
  ASSUME ResultsAssumption, ResultsInv, NEW step \in 1..4
  PROVE  UNION {b.ids : b \in podiumBands(tournament, step)} =
           {r.id : r \in {x \in tournament :
              Cardinality({y \in tournament : Ahead(y, x)}) < 3
              /\ Cardinality({y \in tournament : Ahead(y, x)}) >= 3 - step}}
<1> DEFINE Own(p) == Row(p)
           f == [p \in present |-> Own(p)]
           rows == {Own(p) : p \in present}
           above == {x \in rows \X rows : Ahead(x[1], x[2])}
           table == tournament
           S == {Placed(r, n) : r \in rows, n \in Nat}
           beats == {z \in S \X S : Ahead(z[1], z[2])}
<1>1. ASSUME NEW p \in present
      PROVE  /\ Own(p).id = p /\ p \in Nat /\ Own(p).total \in Int /\ Own(p).perfectGames \in Int
             /\ Own(p).tieBreak \in Int
  BY RowTyped
<1>2. \A r \in rows : r.id \in Nat /\ r.total \in Int /\ r.perfectGames \in Int /\ r.tieBreak \in Int
  BY <1>1
<1>3. Rankable(rows)
  <2>1. \A q, r \in rows : q.id = r.id => q = r
    BY <1>1
  <2>2. IsFiniteSet({f[p] : p \in present})
    <3> HIDE DEF f
    <3>1. DOMAIN f = present
      BY DEF f
    <3>2. QED
      BY <3>1, RowsFinite
  <2>3. {f[p] : p \in present} = rows
    OBVIOUS
  <2> HIDE DEF rows, f, Own
  <2>4. QED
    BY <1>2, <2>1, <2>2, <2>3 DEF Rankable
<1>4. table = Ranked(rows, above)
  BY DEF tournament, buildStandings
<1> HIDE DEF Own, f, rows, table
<1>5. WeakOrder(rows, above)
  BY <1>2, AheadWeak
<1> HIDE DEF above
<1>6. \A x \in table : x \in S
  <2>1. \A x \in table : \E r \in rows : \E n \in Nat : x = Placed(r, n)
    BY <1>3, <1>4, <1>5, TablePlaced
  <2>2. QED
    BY <2>1
<1>7. SameOrder(rows, above, beats)
  <2>1. ASSUME NEW q \in rows, NEW r \in rows, NEW m \in Nat, NEW n \in Nat
        PROVE  <<Placed(q, m), Placed(r, n)>> \in beats <=> <<q, r>> \in above
    <3>1. Placed(q, m) \in S /\ Placed(r, n) \in S
      OBVIOUS
    <3>2. Ahead(Placed(q, m), Placed(r, n)) <=> Ahead(q, r)
      BY DEF Placed, Ahead
    <3> HIDE DEF S
    <3>3. <<q, r>> \in above <=> Ahead(q, r)
      BY DEF above
    <3>4. \A y, z \in S : <<y, z>> \in beats <=> Ahead(y, z)
      OBVIOUS
    <3> HIDE DEF beats
    <3>5. <<Placed(q, m), Placed(r, n)>> \in beats <=> Ahead(Placed(q, m), Placed(r, n))
      BY <3>1, <3>4
    <3>6. QED
      BY <3>2, <3>3, <3>5
  <2> HIDE DEF beats
  <2>2. QED
    BY <2>1 DEF SameOrder
<1>8. \A x, y \in table : <<y, x>> \in beats <=> Ahead(y, x)
  <2> HIDE DEF S
  <2>1. QED
    BY <1>6
<1> HIDE DEF beats, S
<1>9. InBands(table, step) = InPlace(table, beats, step)
  BY <1>3, <1>4, <1>5, <1>7, StepShows
<1>10. \A x \in table : {y \in table : <<y, x>> \in beats} = {y \in table : Ahead(y, x)}
  BY <1>8
<1>11. {x \in table : Cardinality({y \in table : <<y, x>> \in beats}) < 3
                      /\ Cardinality({y \in table : <<y, x>> \in beats}) >= 3 - step}
       = {x \in table : Cardinality({y \in table : Ahead(y, x)}) < 3
                        /\ Cardinality({y \in table : Ahead(y, x)}) >= 3 - step}
  BY <1>10
<1>12. QED
  BY <1>9, <1>11 DEF table, InBands, InPlace

\* Whatever the ties, a step of the podium or of the ceremony shows exactly the participants
\* with fewer than three before them and at least three less the step (standings.service.ts,
\* podium.ts).
THEOREM PodiumIsTopThreeThm == Spec => []PodiumIsTopThree
<1>1. ResultsInv => PodiumIsTopThree
  BY GameStep, TournamentStep, ResultsAssumption DEF PodiumIsTopThree
<1>2. QED
  BY <1>1, ResultsInvariant, PTL

================================================================================
