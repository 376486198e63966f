---------------------------- MODULE PagesProofs ----------------------------
(***************************************************************************)
(* Proofs about the three pages: the display announces every death once,   *)
(* the last tap of a phone is kept, of the host's presses the next one is  *)
(* accepted and a late one moves nothing on, and all pages make the same   *)
(* thing of the room.                                                      *)
(*                                                                         *)
(* The pages share no state, so each part has an invariant of its own; the *)
(* last section joins them to theorems about the whole specification.      *)
(***************************************************************************)
EXTENDS Pages, TLAPS, FiniteSetTheorems, SequenceTheorems

------------------------------------------------------------------------------
\* The display.

IsSnapshot(m) == m.op = "snapshot"
IsDeath(m) == m.op = "eliminated"

ToDisplay ==
  [op : {"snapshot"}, attempt : Nat, stage : {"Ready", "RoundActive"}, dead : SUBSET Racers]
    \cup [op : {"eliminated"}, id : Nat \ {0}, count : Nat]

\* The page takes what stands at place i of the queue q for news of attempt n: that of
\* the last snapshot before it, or the one the page has seen last.
Under(q, a, i, n) ==
  \/ n = a /\ \A j \in DOMAIN q : j < i => ~IsSnapshot(q[j])
  \/ \E j \in DOMAIN q :
       /\ j < i /\ IsSnapshot(q[j]) /\ q[j].attempt = n
       /\ \A k \in DOMAIN q : j < k /\ k < i => ~IsSnapshot(q[k])

ScreenRecords == [lastElimEvent : Int, pendingBurst : Nat, burst : Nat]

DisplayTypes ==
  /\ race \in [attempt : Nat \ {0}, stage : {"Ready", "RoundActive"}, dead : SUBSET Racers,
               nextElimId : Nat \ {0}]
  /\ toScreen \in Seq(ToDisplay)
  /\ rt \in [attempt : Nat, elimination : [id : Nat, count : Nat]]
  /\ screen \in ScreenRecords
  /\ arena \in [primed : BOOLEAN, seenOut : SUBSET Racers, freshOut : SUBSET Racers]
  /\ heard \in Nat /\ announced \in Nat

\* Nothing on its way, seen or counted is of an attempt that is yet to come.
NoLaterAttempt(q, a, att, S) ==
  /\ a <= att /\ S \subseteq 0..att /\ a \in Nat /\ att \in Nat \ {0}
  /\ \A i \in DOMAIN q : IsSnapshot(q[i]) => q[i].attempt \in 1..att

\* The ids of one race go up, from what the page has announced by what is on its way
\* to what the engine gives next; S are the races of which the page heard a death.
IdsGoUp(q, a, att, next, S, last) ==
  /\ Under(q, a, Len(q) + 1, att)
  /\ \A i \in DOMAIN q : \A n \in Nat : IsDeath(q[i]) /\ Under(q, a, i, n) =>
       /\ n = att => q[i].id < next
       /\ S \subseteq {n} => last < q[i].id
       /\ \A k \in DOMAIN q : IsDeath(q[k]) /\ Under(q, a, k, n) /\ i < k => q[i].id < q[k].id
  /\ S \subseteq {att} => last < next
  /\ S = {} => last = -1

\* What was heard last has been announced, or is to be.
AnnounceInv ==
  /\ rt.elimination = NoEvent \/ rt.elimination.id = screen.lastElimEvent
  /\ announced + screen.pendingBurst <= heard
  /\ \A n \in Nat : races \subseteq {n} => announced + screen.pendingBurst = heard

\* Who was not out at the last snapshot of this arena was shown alive in it.
FlashInv ==
  /\ arena.primed => Racers \ arena.seenOut \subseteq seenAlive
  /\ arena.freshOut \subseteq seenAlive

DisplayInv ==
  /\ DisplayTypes
  /\ NoLaterAttempt(toScreen, rt.attempt, race.attempt, races)
  /\ IdsGoUp(toScreen, rt.attempt, race.attempt, race.nextElimId, races, screen.lastElimEvent)
  /\ AnnounceInv /\ FlashInv

\* A place of the queue is news of one attempt at most.
LEMMA OneAttempt ==
  ASSUME NEW M, NEW q \in Seq(M), NEW a, NEW i \in Nat, NEW n, NEW p,
         Under(q, a, i, n), Under(q, a, i, p)
  PROVE  n = p
<1>1. DOMAIN q \subseteq Nat
  OBVIOUS
<1>2. CASE \E j \in DOMAIN q : j < i /\ IsSnapshot(q[j])
  <2>1. PICK j \in DOMAIN q : /\ j < i /\ IsSnapshot(q[j]) /\ q[j].attempt = n
                              /\ \A k \in DOMAIN q : j < k /\ k < i => ~IsSnapshot(q[k])
    BY <1>2 DEF Under
  <2>2. PICK l \in DOMAIN q : /\ l < i /\ IsSnapshot(q[l]) /\ q[l].attempt = p
                              /\ \A k \in DOMAIN q : l < k /\ k < i => ~IsSnapshot(q[k])
    BY <1>2 DEF Under
  <2>3. ~(j < l) /\ ~(l < j)
    BY <2>1, <2>2
  <2>4. j = l
    BY <1>1, <2>3
  <2>5. QED
    BY <2>1, <2>2, <2>4
<1>3. CASE ~\E j \in DOMAIN q : j < i /\ IsSnapshot(q[j])
  BY <1>3 DEF Under
<1>4. QED
  BY <1>2, <1>3

\* What the page hears first leaves the queue; a snapshot says which attempt it is.
LEMMA HeardFirst ==
  ASSUME NEW M, NEW q \in Seq(M), q # <<>>, NEW a, NEW b, NEW n,
         b = IF IsSnapshot(q[1]) THEN q[1].attempt ELSE a,
         NEW i \in 1..Len(q)
  PROVE  Under(Tail(q), b, i, n) <=> Under(q, a, i + 1, n)
<1> DEFINE t == Tail(q)
<1>1. /\ Len(t) = Len(q) - 1 /\ Len(q) \in Nat \ {0} /\ Len(t) \in Nat
      /\ DOMAIN t = 1..Len(t) /\ DOMAIN q = 1..Len(q)
      /\ \A j \in DOMAIN t : t[j] = q[j + 1]
  OBVIOUS
<1> HIDE DEF t
<1>2. \A j \in DOMAIN t : j + 1 \in DOMAIN q /\ j + 1 > 1
  BY <1>1
<1>3. \A j \in DOMAIN q : j = 1 \/ (j - 1 \in DOMAIN t /\ t[j - 1] = q[j])
  BY <1>1
<1>4. ASSUME Under(t, b, i, n) PROVE Under(q, a, i + 1, n)
  <2>1. CASE \E j \in DOMAIN t : /\ j < i /\ IsSnapshot(t[j]) /\ t[j].attempt = n
                                 /\ \A k \in DOMAIN t : j < k /\ k < i => ~IsSnapshot(t[k])
    <3>1. PICK j \in DOMAIN t : /\ j < i /\ IsSnapshot(t[j]) /\ t[j].attempt = n
                                /\ \A k \in DOMAIN t : j < k /\ k < i => ~IsSnapshot(t[k])
      BY <2>1
    <3>2. j + 1 \in DOMAIN q /\ j + 1 < i + 1 /\ IsSnapshot(q[j + 1]) /\ q[j + 1].attempt = n
      BY <1>1, <1>2, <3>1
    <3>3. ASSUME NEW k \in DOMAIN q, j + 1 < k, k < i + 1 PROVE ~IsSnapshot(q[k])
      <4>1. k - 1 \in DOMAIN t /\ t[k - 1] = q[k]
        BY <1>1, <1>3, <3>3
      <4>2. j < k - 1 /\ k - 1 < i
        BY <1>1, <3>3
      <4>3. QED
        BY <3>1, <4>1, <4>2
    <3>4. QED
      BY <3>2, <3>3 DEF Under
  <2>2. CASE n = b /\ \A j \in DOMAIN t : j < i => ~IsSnapshot(t[j])
    <3>1. ASSUME NEW j \in DOMAIN q, 1 < j, j < i + 1 PROVE ~IsSnapshot(q[j])
      <4>1. j - 1 \in DOMAIN t /\ t[j - 1] = q[j]
        BY <1>1, <1>3, <3>1
      <4>2. j - 1 < i
        BY <1>1, <3>1
      <4>3. QED
        BY <2>2, <4>1, <4>2
    <3>2. 1 \in DOMAIN q /\ 1 < i + 1
      BY <1>1
    <3>3. CASE IsSnapshot(q[1])
      BY <2>2, <3>1, <3>2, <3>3 DEF Under
    <3>4. CASE ~IsSnapshot(q[1])
      <4>1. \A j \in DOMAIN q : j < i + 1 => ~IsSnapshot(q[j])
        BY <1>3, <3>1, <3>4, <1>1
      <4>2. n = a
        BY <2>2, <3>4
      <4>3. QED
        BY <4>1, <4>2 DEF Under
    <3>5. QED
      BY <3>3, <3>4
  <2>3. QED
    BY <1>4, <2>1, <2>2 DEF Under
<1>5. ASSUME Under(q, a, i + 1, n) PROVE Under(t, b, i, n)
  <2>1. CASE \E j \in DOMAIN q : /\ j < i + 1 /\ IsSnapshot(q[j]) /\ q[j].attempt = n
                                 /\ \A k \in DOMAIN q : j < k /\ k < i + 1 => ~IsSnapshot(q[k])
    <3>1. PICK j \in DOMAIN q : /\ j < i + 1 /\ IsSnapshot(q[j]) /\ q[j].attempt = n
                                /\ \A k \in DOMAIN q : j < k /\ k < i + 1 => ~IsSnapshot(q[k])
      BY <2>1
    <3>2. ASSUME NEW k \in DOMAIN t, j < k + 1, k < i PROVE ~IsSnapshot(t[k])
      BY <1>1, <1>2, <3>1, <3>2
    <3>3. CASE j = 1
      <4>1. \A k \in DOMAIN t : k < i => ~IsSnapshot(t[k])
        BY <1>1, <3>2, <3>3
      <4>2. n = b
        BY <3>1, <3>3
      <4>3. QED
        BY <4>1, <4>2 DEF Under
    <3>4. CASE j # 1
      <4>1. j - 1 \in DOMAIN t /\ t[j - 1] = q[j] /\ j - 1 < i
        BY <1>1, <1>3, <3>1, <3>4
      <4>2. \A k \in DOMAIN t : j - 1 < k /\ k < i => ~IsSnapshot(t[k])
        BY <1>1, <3>2
      <4>3. QED
        BY <3>1, <4>1, <4>2 DEF Under
    <3>5. QED
      BY <3>3, <3>4
  <2>2. CASE n = a /\ \A j \in DOMAIN q : j < i + 1 => ~IsSnapshot(q[j])
    <3>1. ~IsSnapshot(q[1])
      BY <1>1, <2>2
    <3>2. \A j \in DOMAIN t : j < i => ~IsSnapshot(t[j])
      BY <1>1, <1>2, <2>2
    <3>3. QED
      BY <2>2, <3>1, <3>2 DEF Under
  <2>3. QED
    BY <1>5, <2>1, <2>2 DEF Under
<1>6. QED
  BY <1>4, <1>5 DEF t

\* What is told last changes nothing for what stands before it.
LEMMA ToldLast ==
  ASSUME NEW M, NEW q \in Seq(M), NEW m \in M, NEW a, NEW n, NEW i \in 1..Len(q) + 1
  PROVE  /\ Under(Append(q, m), a, i, n) <=> Under(q, a, i, n)
         /\ IsSnapshot(m) => (Under(Append(q, m), a, Len(q) + 2, n) <=> n = m.attempt)
         /\ ~IsSnapshot(m) => (Under(Append(q, m), a, Len(q) + 2, n) <=> Under(q, a, Len(q) + 1, n))
<1> DEFINE w == Append(q, m)
<1>1. /\ Len(q) \in Nat /\ DOMAIN q = 1..Len(q) /\ DOMAIN w = 1..Len(q) + 1
      /\ \A j \in DOMAIN q : w[j] = q[j]
      /\ w[Len(q) + 1] = m
  OBVIOUS
<1> HIDE DEF w
<1>2. \A j \in DOMAIN w : j < Len(q) + 1 => j \in DOMAIN q
  BY <1>1
<1>3. \A j \in DOMAIN q : j \in DOMAIN w /\ j < Len(q) + 1
  BY <1>1
<1>4. \A j \in DOMAIN w : j < i => j \in DOMAIN q
  BY <1>1
<1>5. Under(w, a, i, n) <=> Under(q, a, i, n)
  BY <1>1, <1>3, <1>4 DEF Under
<1>6. ASSUME IsSnapshot(m) PROVE Under(w, a, Len(q) + 2, n) <=> n = m.attempt
  <2>1. Len(q) + 1 \in DOMAIN w /\ Len(q) + 1 < Len(q) + 2 /\ IsSnapshot(w[Len(q) + 1])
    BY <1>1, <1>6
  <2>2. \A k \in DOMAIN w : ~(Len(q) + 1 < k)
    BY <1>1
  <2>3. \A j \in DOMAIN w : j = Len(q) + 1 \/ j < Len(q) + 1
    BY <1>1
  <2>4. QED
    BY <1>1, <2>1, <2>2, <2>3 DEF Under
<1>7. ASSUME ~IsSnapshot(m) PROVE Under(w, a, Len(q) + 2, n) <=> Under(q, a, Len(q) + 1, n)
  <2>1. \A j \in DOMAIN w : IsSnapshot(w[j]) => j \in DOMAIN q
    BY <1>1, <1>7
  <2>2. \A j \in DOMAIN q : j < Len(q) + 1 /\ j < Len(q) + 2 /\ j \in DOMAIN w /\ w[j] = q[j]
    BY <1>1
  <2>3. QED
    BY <2>1, <2>2 DEF Under
<1>8. QED
  BY <1>5, <1>6, <1>7 DEF w

LEMMA DeathTold ==
  ASSUME NEW q \in Seq(ToDisplay), NEW m \in ToDisplay, NEW a, NEW att, NEW next \in Nat \ {0}, NEW S,
         NEW last \in Int, NoLaterAttempt(q, a, att, S), IdsGoUp(q, a, att, next, S, last),
         IsDeath(m), m.id = next
  PROVE  /\ NoLaterAttempt(Append(q, m), a, att, S)
         /\ IdsGoUp(Append(q, m), a, att, next + 1, S, last)
<1> DEFINE w == Append(q, m)
<1>1. /\ Len(q) \in Nat /\ DOMAIN q = 1..Len(q) /\ DOMAIN w = 1..Len(q) + 1 /\ Len(w) = Len(q) + 1
      /\ \A j \in DOMAIN q : w[j] = q[j]
      /\ w[Len(q) + 1] = m
  OBVIOUS
<1>2. ~IsSnapshot(m)
  BY DEF IsDeath, IsSnapshot
<1>3. /\ \A i \in 1..Len(q) + 1, n \in Nat : Under(w, a, i, n) <=> Under(q, a, i, n)
      /\ \A n \in Nat : Under(w, a, Len(q) + 2, n) <=> Under(q, a, Len(q) + 1, n)
  BY <1>2, ToldLast
<1>4. att \in Nat
  BY DEF NoLaterAttempt
<1>5. \A i \in DOMAIN q : IsDeath(q[i]) => q[i].id \in Nat
  <2>1. \A i \in DOMAIN q : q[i] \in ToDisplay
    OBVIOUS
  <2>2. QED
    BY <2>1 DEF ToDisplay, IsDeath
<1>6. Under(q, a, Len(q) + 1, att)
  BY DEF IdsGoUp
<1> HIDE DEF w
<1>7. NoLaterAttempt(w, a, att, S)
  <2>1. \A i \in DOMAIN w : IsSnapshot(w[i]) => i \in DOMAIN q /\ IsSnapshot(q[i])
    BY <1>1, <1>2
  <2>2. QED
    BY <1>1, <2>1 DEF NoLaterAttempt
<1>8. Under(w, a, Len(w) + 1, att)
  BY <1>1, <1>3, <1>4, <1>6
<1>9. ASSUME NEW i \in DOMAIN w, NEW n \in Nat, IsDeath(w[i]), Under(w, a, i, n)
      PROVE  /\ n = att => w[i].id < next + 1
             /\ S \subseteq {n} => last < w[i].id
             /\ \A k \in DOMAIN w : IsDeath(w[k]) /\ Under(w, a, k, n) /\ i < k => w[i].id < w[k].id
  <2>1. CASE i \in DOMAIN q
    <3>1. IsDeath(q[i]) /\ Under(q, a, i, n) /\ w[i] = q[i] /\ q[i].id \in Nat
      BY <1>1, <1>3, <1>5, <1>9, <2>1
    <3>2. /\ n = att => q[i].id < next
          /\ S \subseteq {n} => last < q[i].id
          /\ \A k \in DOMAIN q : IsDeath(q[k]) /\ Under(q, a, k, n) /\ i < k => q[i].id < q[k].id
      BY <2>1, <3>1 DEF IdsGoUp
    <3>3. ASSUME NEW k \in DOMAIN w, IsDeath(w[k]), Under(w, a, k, n), i < k PROVE w[i].id < w[k].id
      <4>1. CASE k \in DOMAIN q
        BY <1>1, <1>3, <3>1, <3>2, <3>3, <4>1
      <4>2. CASE k = Len(q) + 1
        <5>1. Under(q, a, k, n)
          BY <1>1, <1>3, <3>3
        <5>2. n = att
          BY <1>1, <1>6, <4>2, <5>1, OneAttempt
        <5>3. QED
          BY <1>1, <3>1, <3>2, <4>2, <5>2
      <4>3. QED
        BY <1>1, <4>1, <4>2
    <3>4. QED
      BY <3>1, <3>2, <3>3
  <2>2. CASE i = Len(q) + 1
    <3>1. Under(q, a, i, n)
      BY <1>1, <1>3, <1>9
    <3>2. n = att
      BY <1>1, <1>6, <2>2, <3>1, OneAttempt
    <3>3. S \subseteq {att} => last < next
      BY DEF IdsGoUp
    <3>4. \A k \in DOMAIN w : ~(i < k)
      BY <1>1, <2>2
    <3>5. QED
      BY <1>1, <2>2, <3>2, <3>3, <3>4
  <2>3. QED
    BY <1>1, <2>1, <2>2
<1>10. (S \subseteq {att} => last < next + 1) /\ (S = {} => last = -1)
  BY DEF IdsGoUp
<1>11. IdsGoUp(w, a, att, next + 1, S, last)
  BY <1>8, <1>9, <1>10 DEF IdsGoUp
<1>12. QED
  BY <1>7, <1>11 DEF w

\* A snapshot of the attempt on stage, or of the next one, whose ids begin again.
LEMMA SnapshotTold ==
  ASSUME NEW q \in Seq(ToDisplay), NEW m \in ToDisplay, NEW a, NEW att, NEW next \in Nat \ {0}, NEW S,
         NEW last \in Int, NoLaterAttempt(q, a, att, S), IdsGoUp(q, a, att, next, S, last),
         NEW later, NEW first \in Nat \ {0}, IsSnapshot(m), m.attempt = later,
         (later = att /\ first = next) \/ (later = att + 1 /\ first = 1)
  PROVE  /\ NoLaterAttempt(Append(q, m), a, later, S)
         /\ IdsGoUp(Append(q, m), a, later, first, S, last)
<1> DEFINE w == Append(q, m)
<1>1. /\ Len(q) \in Nat /\ DOMAIN q = 1..Len(q) /\ DOMAIN w = 1..Len(q) + 1 /\ Len(w) = Len(q) + 1
      /\ \A j \in DOMAIN q : w[j] = q[j]
      /\ w[Len(q) + 1] = m
  OBVIOUS
<1>2. ~IsDeath(m)
  BY DEF IsDeath, IsSnapshot
<1>3. att \in Nat \ {0} /\ later \in Nat \ {0} /\ att <= later
  BY DEF NoLaterAttempt
<1>4. /\ \A i \in 1..Len(q) + 1, n \in Nat : Under(w, a, i, n) <=> Under(q, a, i, n)
      /\ Under(w, a, Len(q) + 2, later)
  <2>1. \A i \in 1..Len(q) + 1, n \in Nat : Under(w, a, i, n) <=> Under(q, a, i, n)
    BY ToldLast
  <2>2. Len(q) + 1 \in 1..Len(q) + 1
    BY <1>1
  <2>3. Under(w, a, Len(q) + 2, later) <=> later = m.attempt
    BY <2>2, ToldLast
  <2>4. QED
    BY <2>1, <2>3
<1> HIDE DEF w
<1>5. NoLaterAttempt(w, a, later, S)
  <2>1. ASSUME NEW i \in DOMAIN w, IsSnapshot(w[i]) PROVE w[i].attempt \in 1..later
    <3>1. CASE i \in DOMAIN q
      BY <1>1, <1>3, <2>1, <3>1 DEF NoLaterAttempt
    <3>2. CASE i = Len(q) + 1
      BY <1>1, <1>3, <3>2
    <3>3. QED
      BY <1>1, <3>1, <3>2
  <2>2. QED
    BY <1>3, <2>1 DEF NoLaterAttempt
<1>6. \A i \in DOMAIN w : IsDeath(w[i]) => i \in DOMAIN q /\ IsDeath(q[i])
  BY <1>1, <1>2
\* No news of the next attempt is on its way, and none of it has been heard.
<1>7. ASSUME NEW i \in DOMAIN q, NEW n \in Nat, Under(q, a, i, n) PROVE n <= att
  BY <1>7 DEF Under, NoLaterAttempt
<1>8. S \subseteq 0..att
  BY DEF NoLaterAttempt
<1>9. ASSUME NEW i \in DOMAIN w, NEW n \in Nat, IsDeath(w[i]), Under(w, a, i, n)
      PROVE  /\ n = later => w[i].id < first
             /\ S \subseteq {n} => last < w[i].id
             /\ \A k \in DOMAIN w : IsDeath(w[k]) /\ Under(w, a, k, n) /\ i < k => w[i].id < w[k].id
  <2>1. i \in DOMAIN q /\ IsDeath(q[i]) /\ Under(q, a, i, n) /\ w[i] = q[i]
    BY <1>1, <1>4, <1>6, <1>9
  <2>2. /\ n = att => q[i].id < next
        /\ S \subseteq {n} => last < q[i].id
        /\ \A k \in DOMAIN q : IsDeath(q[k]) /\ Under(q, a, k, n) /\ i < k => q[i].id < q[k].id
    BY <2>1 DEF IdsGoUp
  <2>3. n = later => w[i].id < first
    BY <1>3, <1>7, <2>1, <2>2
  <2>4. \A k \in DOMAIN w : IsDeath(w[k]) /\ Under(w, a, k, n) /\ i < k => w[i].id < w[k].id
    BY <1>1, <1>4, <1>6, <2>1, <2>2
  <2>5. QED
    BY <2>1, <2>2, <2>3, <2>4
<1>10. S = {} => last = -1
  BY DEF IdsGoUp
<1>11. S \subseteq {later} => last < first
  <2>1. CASE later = att
    BY <1>3, <2>1 DEF IdsGoUp
  <2>2. CASE later = att + 1
    <3>1. S \subseteq {later} => S = {}
      BY <1>3, <1>8, <2>2
    <3>2. QED
      BY <1>10, <3>1
  <2>3. QED
    BY <2>1, <2>2
<1>12. IdsGoUp(w, a, later, first, S, last)
  BY <1>1, <1>4, <1>9, <1>10, <1>11 DEF IdsGoUp
<1>13. QED
  BY <1>5, <1>12 DEF w

\* The page hears a death or sees a snapshot.
LEMMA Heard ==
  ASSUME NEW q \in Seq(ToDisplay), q # <<>>, NEW a, NEW att, NEW next \in Nat \ {0}, NEW S,
         NEW last \in Int, NoLaterAttempt(q, a, att, S), IdsGoUp(q, a, att, next, S, last),
         NEW b, NEW T, NEW new,
         b = IF IsSnapshot(q[1]) THEN q[1].attempt ELSE a,
         T = IF IsSnapshot(q[1]) THEN S ELSE S \cup {a},
         new = IF IsSnapshot(q[1]) THEN last ELSE q[1].id
  PROVE  /\ NoLaterAttempt(Tail(q), b, att, T)
         /\ IdsGoUp(Tail(q), b, att, next, T, new)
<1> DEFINE t == Tail(q)
<1>1. /\ Len(t) = Len(q) - 1 /\ Len(q) \in Nat \ {0} /\ Len(t) \in Nat
      /\ DOMAIN t = 1..Len(t) /\ DOMAIN q = 1..Len(q)
      /\ \A j \in DOMAIN t : t[j] = q[j + 1]
  OBVIOUS
<1>2. \A j \in DOMAIN t : j + 1 \in DOMAIN q
  BY <1>1
<1>3. \A i \in 1..Len(t) + 1, n \in Nat : Under(t, b, i, n) <=> Under(q, a, i + 1, n)
  BY <1>1, HeardFirst
<1>4. 1 \in DOMAIN q /\ q[1] \in ToDisplay
  BY <1>1
<1>5. IsSnapshot(q[1]) \/ (IsDeath(q[1]) /\ q[1].id \in Nat \ {0})
  BY <1>4 DEF ToDisplay, IsSnapshot, IsDeath
<1>6. a \in Nat /\ att \in Nat /\ a <= att /\ S \subseteq 0..att
  BY DEF NoLaterAttempt
<1> HIDE DEF t
<1>7. NoLaterAttempt(t, b, att, T)
  <2>1. b \in Nat /\ b <= att /\ T \subseteq 0..att
    BY <1>4, <1>6 DEF NoLaterAttempt
  <2>2. \A i \in DOMAIN t : IsSnapshot(t[i]) => t[i].attempt \in 1..att
    BY <1>1, <1>2 DEF NoLaterAttempt
  <2>3. QED
    BY <2>1, <2>2 DEF NoLaterAttempt
<1>8. Under(t, b, Len(t) + 1, att)
  <2>1. Under(q, a, Len(q) + 1, att)
    BY DEF IdsGoUp
  <2>2. Under(q, a, (Len(t) + 1) + 1, att)
    BY <1>1, <2>1
  <2>3. QED
    BY <1>1, <1>3, <1>6, <2>2
\* A death that is heard is of the attempt the page knows.
<1>9. Under(q, a, 1, a)
  BY <1>1 DEF Under
<1>10. ASSUME NEW i \in DOMAIN t, NEW n \in Nat, IsDeath(t[i]), Under(t, b, i, n)
       PROVE  /\ n = att => t[i].id < next
              /\ T \subseteq {n} => new < t[i].id
              /\ \A k \in DOMAIN t : IsDeath(t[k]) /\ Under(t, b, k, n) /\ i < k => t[i].id < t[k].id
  <2>1. i + 1 \in DOMAIN q /\ IsDeath(q[i + 1]) /\ Under(q, a, i + 1, n) /\ t[i] = q[i + 1]
    BY <1>1, <1>2, <1>3, <1>10
  <2>2. /\ n = att => q[i + 1].id < next
        /\ S \subseteq {n} => last < q[i + 1].id
        /\ \A k \in DOMAIN q : IsDeath(q[k]) /\ Under(q, a, k, n) /\ i + 1 < k => q[i + 1].id < q[k].id
    BY <2>1 DEF IdsGoUp
  <2>3. \A k \in DOMAIN t : IsDeath(t[k]) /\ Under(t, b, k, n) /\ i < k => t[i].id < t[k].id
    <3>1. ASSUME NEW k \in DOMAIN t, IsDeath(t[k]), Under(t, b, k, n), i < k PROVE t[i].id < t[k].id
      <4>1. k + 1 \in DOMAIN q /\ IsDeath(q[k + 1]) /\ t[k] = q[k + 1]
        BY <1>1, <1>2, <3>1
      <4>2. k \in 1..Len(t) + 1 /\ i + 1 < k + 1
        BY <1>1, <3>1
      <4>3. Under(q, a, k + 1, n)
        BY <1>3, <3>1, <4>2
      <4>4. QED
        BY <2>1, <2>2, <4>1, <4>2, <4>3
    <3>2. QED
      BY <3>1
  <2>4. ASSUME T \subseteq {n} PROVE new < t[i].id
    <3>1. CASE IsSnapshot(q[1])
      BY <2>1, <2>2, <2>4, <3>1
    <3>2. CASE ~IsSnapshot(q[1])
      <4>1. a = n /\ new = q[1].id /\ IsDeath(q[1])
        BY <1>5, <2>4, <3>2
      <4>2. Under(q, a, 1, n) /\ 1 < i + 1
        BY <1>1, <1>9, <4>1
      <4>3. \A k \in DOMAIN q : IsDeath(q[k]) /\ Under(q, a, k, n) /\ 1 < k => q[1].id < q[k].id
        BY <1>4, <4>1, <4>2 DEF IdsGoUp
      <4>4. QED
        BY <2>1, <4>1, <4>2, <4>3
    <3>3. QED
      BY <3>1, <3>2
  <2>5. QED
    BY <2>1, <2>2, <2>3, <2>4
<1>11. T \subseteq {att} => new < next
  <2>1. CASE IsSnapshot(q[1])
    BY <2>1 DEF IdsGoUp
  <2>2. CASE ~IsSnapshot(q[1])
    <3>1. ASSUME T \subseteq {att} PROVE new < next
      <4>1. a = att /\ new = q[1].id /\ IsDeath(q[1])
        BY <1>5, <2>2, <3>1
      <4>2. Under(q, a, 1, att)
        BY <1>9, <4>1
      <4>3. q[1].id < next
        BY <1>4, <1>6, <4>1, <4>2 DEF IdsGoUp
      <4>4. QED
        BY <4>1, <4>3
    <3>2. QED
      BY <3>1
  <2>3. QED
    BY <2>1, <2>2
<1>12. T = {} => new = -1
  BY DEF IdsGoUp
<1>13. IdsGoUp(t, b, att, next, T, new)
  BY <1>8, <1>10, <1>11, <1>12 DEF IdsGoUp
<1>14. QED
  BY <1>7, <1>13 DEF t

\* One snapshot is all that is on its way to a page that has just been loaded.
LEMMA Loaded ==
  ASSUME NEW m \in ToDisplay, IsSnapshot(m), NEW att \in Nat \ {0}, m.attempt = att, NEW next \in Nat \ {0}
  PROVE  NoLaterAttempt(<<m>>, 0, att, {}) /\ IdsGoUp(<<m>>, 0, att, next, {}, -1)
<1>1. Len(<<m>>) = 1 /\ DOMAIN <<m>> = {1} /\ <<m>>[1] = m
  OBVIOUS
<1>2. ~IsDeath(m)
  BY DEF IsDeath, IsSnapshot
<1>3. \A k \in {1} : ~(1 < k)
  OBVIOUS
<1>4. Under(<<m>>, 0, 2, att)
  <2>1. 1 < 2
    OBVIOUS
  <2>2. QED
    BY <1>1, <1>3, <2>1 DEF Under
<1>5. NoLaterAttempt(<<m>>, 0, att, {})
  BY <1>1 DEF NoLaterAttempt
<1>6. QED
  BY <1>1, <1>2, <1>4, <1>5 DEF IdsGoUp

\* A death is announced unless it was the last one to be.
LEMMA AnnouncesNew ==
  ASSUME NEW s \in ScreenRecords, NEW ev \in [id : Nat, count : Nat], ev # NoEvent
  PROVE  /\ Announce(ev, s) \in ScreenRecords
         /\ Announce(ev, s).lastElimEvent = ev.id
         /\ ev.id = s.lastElimEvent => Announce(ev, s).pendingBurst = s.pendingBurst
         /\ ev.id # s.lastElimEvent => Announce(ev, s).pendingBurst = s.pendingBurst + ev.count
<1>1. CASE ev.id = s.lastElimEvent
  BY <1>1 DEF Announce
<1>2. CASE ev.id # s.lastElimEvent
  <2>1. Announce(ev, s) = [s EXCEPT !.lastElimEvent = ev.id, !.pendingBurst = s.pendingBurst + ev.count]
    BY <1>2 DEF Announce
  <2>2. ev.id \in Int /\ s.pendingBurst + ev.count \in Nat
    BY DEF ScreenRecords
  <2>3. \A i \in Int, n \in Nat :
          LET t == [s EXCEPT !.lastElimEvent = i, !.pendingBurst = n]
          IN  t \in ScreenRecords /\ t.lastElimEvent = i /\ t.pendingBurst = n
    BY DEF ScreenRecords
  <2>4. PICK i \in Int, n \in Nat : i = ev.id /\ n = s.pendingBurst + ev.count
    BY <2>2
  <2> DEFINE t == [s EXCEPT !.lastElimEvent = i, !.pendingBurst = n]
  <2>5. Announce(ev, s) = t
    BY <2>1, <2>4
  <2>6. t \in ScreenRecords /\ t.lastElimEvent = i /\ t.pendingBurst = n
    BY <2>3
  <2> HIDE DEF t
  <2>7. QED
    BY <1>2, <2>4, <2>5, <2>6
<1>3. QED
  BY <1>1, <1>2

LEMMA Bursts ==
  ASSUME NEW s \in ScreenRecords, NEW n \in Nat
  PROVE  LET t == [s EXCEPT !.pendingBurst = 0, !.burst = n]
         IN  t \in ScreenRecords /\ t.lastElimEvent = s.lastElimEvent /\ t.pendingBurst = 0
BY DEF ScreenRecords

LEMMA BurstEnds ==
  ASSUME NEW s \in ScreenRecords
  PROVE  LET t == [s EXCEPT !.burst = 0]
         IN  /\ t \in ScreenRecords /\ t.lastElimEvent = s.lastElimEvent
             /\ t.pendingBurst = s.pendingBurst
BY DEF ScreenRecords

LEMMA FlashEnds ==
  ASSUME NEW a \in [primed : BOOLEAN, seenOut : SUBSET Racers, freshOut : SUBSET Racers]
  PROVE  LET b == [a EXCEPT !.freshOut = {}]
         IN  /\ b \in [primed : BOOLEAN, seenOut : SUBSET Racers, freshOut : SUBSET Racers]
             /\ b.freshOut \subseteq a.freshOut /\ b.primed = a.primed /\ b.seenOut = a.seenOut
OBVIOUS

LEMMA DisplayStart == ASSUME DisplayInit PROVE DisplayInv
<1>1. Snapshot \in ToDisplay /\ IsSnapshot(Snapshot) /\ Snapshot.attempt = 1
  BY DEF DisplayInit, Snapshot, ToDisplay, IsSnapshot
<1>2. DisplayTypes
  <2>1. toScreen \in Seq(ToDisplay)
    BY <1>1 DEF DisplayInit
  <2>2. QED
    BY <2>1 DEF DisplayInit, DisplayTypes, ScreenRecords, NewScreen, NewArena, NoEvent
<1>3. /\ NoLaterAttempt(<<Snapshot>>, 0, 1, {})
      /\ IdsGoUp(<<Snapshot>>, 0, 1, 1, {}, -1)
  BY <1>1, Loaded
<1>4. /\ NoLaterAttempt(toScreen, rt.attempt, race.attempt, races)
      /\ IdsGoUp(toScreen, rt.attempt, race.attempt, race.nextElimId, races, screen.lastElimEvent)
  <2>1. /\ toScreen = <<Snapshot>> /\ rt.attempt = 0 /\ race.attempt = 1 /\ race.nextElimId = 1
        /\ races = {} /\ screen.lastElimEvent = -1
    BY DEF DisplayInit, NewScreen
  <2>2. QED
    BY <1>3, <2>1
<1>5. AnnounceInv /\ FlashInv
  BY DEF DisplayInit, NewScreen, NewArena, NoEvent, AnnounceInv, FlashInv
<1>6. QED
  BY <1>2, <1>4, <1>5 DEF DisplayInv

\* The server's steps: the page has not heard yet.
LEMMA RaceGoesOn ==
  ASSUME DisplayInv,
         (\E S \in (SUBSET (Racers \ race.dead)) \ {{}} : Eliminate(S)) \/ Publish \/ Prepare \/ StartRace
  PROVE  DisplayInv'
<1> USE DEF DisplayInv
<1>1. UNCHANGED pageVars
  BY DEF Eliminate, Publish, Prepare, StartRace
<1>2. AnnounceInv' /\ FlashInv'
  BY <1>1 DEF pageVars, AnnounceInv, FlashInv
<1>3. rt' = rt /\ screen' = screen /\ arena' = arena /\ heard' = heard /\ announced' = announced /\ races' = races
  BY <1>1 DEF pageVars
<1>4. screen.lastElimEvent \in Int /\ race.nextElimId \in Nat \ {0} /\ race.attempt \in Nat \ {0}
  BY DEF DisplayTypes, ScreenRecords
<1>5. CASE \E S \in (SUBSET (Racers \ race.dead)) \ {{}} : Eliminate(S)
  <2>1. PICK S \in SUBSET (Racers \ race.dead) : Eliminate(S)
    BY <1>5
  <2> DEFINE m == [op |-> "eliminated", id |-> race.nextElimId, count |-> Cardinality(S)]
  <2>2. Cardinality(S) \in Nat
    BY DisplayAssumption, FS_Subset, FS_CardinalityType
  <2>3. m \in ToDisplay /\ IsDeath(m) /\ m.id = race.nextElimId
    BY <1>4, <2>2 DEF ToDisplay, IsDeath
  <2>4. toScreen' = Append(toScreen, m)
    BY <2>1 DEF Eliminate
  <2> HIDE DEF m
  <2>5. /\ race' \in [attempt : Nat \ {0}, stage : {"Ready", "RoundActive"}, dead : SUBSET Racers,
                      nextElimId : Nat \ {0}]
        /\ race'.attempt = race.attempt /\ race'.nextElimId = race.nextElimId + 1
    <3>1. race \in [attempt : Nat \ {0}, stage : {"Ready", "RoundActive"}, dead : SUBSET Racers,
                   nextElimId : Nat \ {0}]
      BY DEF DisplayTypes
    <3>2. race' = [race EXCEPT !.dead = race.dead \cup S, !.nextElimId = race.nextElimId + 1]
      BY <2>1 DEF Eliminate
    <3>3. \A D \in SUBSET Racers, n \in Nat \ {0} :
            LET t == [race EXCEPT !.dead = D, !.nextElimId = n]
            IN  /\ t \in [attempt : Nat \ {0}, stage : {"Ready", "RoundActive"}, dead : SUBSET Racers,
                           nextElimId : Nat \ {0}]
                /\ t.attempt = race.attempt /\ t.nextElimId = n
      BY <3>1
    <3>4. PICK D \in SUBSET Racers, n \in Nat \ {0} : D = race.dead \cup S /\ n = race.nextElimId + 1
      <4>1. race.dead \subseteq Racers
        BY <3>1
      <4>2. race.dead \cup S \in SUBSET Racers
        BY <4>1
      <4>3. race.nextElimId + 1 \in Nat \ {0}
        BY <1>4
      <4>4. QED
        BY <4>2, <4>3, Zenon
    <3>5. race' = [race EXCEPT !.dead = D, !.nextElimId = n]
      BY <3>2, <3>4
    <3>6. QED
      BY <3>3, <3>4, <3>5
  <2>6. toScreen \in Seq(ToDisplay) /\ toScreen' \in Seq(ToDisplay)
    BY <2>3, <2>4 DEF DisplayTypes
  <2>7. DisplayTypes'
    BY <1>3, <2>5, <2>6 DEF DisplayTypes
  <2>8. /\ NoLaterAttempt(Append(toScreen, m), rt.attempt, race.attempt, races)
        /\ IdsGoUp(Append(toScreen, m), rt.attempt, race.attempt, race.nextElimId + 1, races,
                   screen.lastElimEvent)
    BY <1>4, <2>3, <2>6, DeathTold
  <2>9. QED
    BY <1>2, <1>3, <2>4, <2>5, <2>7, <2>8
<1>6. CASE Publish \/ Prepare
  <2> DEFINE m == [op |-> "snapshot", attempt |-> race'.attempt, stage |-> race'.stage, dead |-> race'.dead]
  <2>1. /\ race' \in [attempt : Nat \ {0}, stage : {"Ready", "RoundActive"}, dead : SUBSET Racers,
                      nextElimId : Nat \ {0}]
        /\ \/ race'.attempt = race.attempt /\ race'.nextElimId = race.nextElimId
           \/ race'.attempt = race.attempt + 1 /\ race'.nextElimId = 1
    BY <1>6 DEF Publish, Prepare, DisplayTypes
  <2>2. toScreen' = Append(toScreen, m)
    BY <1>6 DEF Publish, Prepare, Snapshot
  <2>3. m \in ToDisplay /\ IsSnapshot(m) /\ m.attempt = race'.attempt
    BY <2>1 DEF ToDisplay, IsSnapshot
  <2> HIDE DEF m
  <2>4. toScreen \in Seq(ToDisplay) /\ toScreen' \in Seq(ToDisplay)
    BY <2>2, <2>3 DEF DisplayTypes
  <2>5. DisplayTypes'
    BY <1>3, <2>1, <2>4 DEF DisplayTypes
  <2>6. race'.nextElimId \in Nat \ {0}
    BY <2>1
  <2>7. /\ NoLaterAttempt(Append(toScreen, m), rt.attempt, race'.attempt, races)
        /\ IdsGoUp(Append(toScreen, m), rt.attempt, race'.attempt, race'.nextElimId, races,
                   screen.lastElimEvent)
    BY <1>4, <2>1, <2>3, <2>4, <2>6, SnapshotTold
  <2>8. QED
    BY <1>2, <1>3, <2>2, <2>5, <2>7
<1>7. CASE StartRace
  <2>1. toScreen' = toScreen /\ race'.attempt = race.attempt /\ race'.nextElimId = race.nextElimId
    BY <1>7 DEF StartRace, DisplayTypes
  <2>2. race' \in [attempt : Nat \ {0}, stage : {"Ready", "RoundActive"}, dead : SUBSET Racers,
                   nextElimId : Nat \ {0}]
    BY <1>7 DEF StartRace, DisplayTypes
  <2>3. DisplayTypes'
    BY <1>3, <2>1, <2>2 DEF DisplayTypes
  <2>4. QED
    BY <1>2, <1>3, <2>1, <2>3
<1>8. QED
  BY <1>5, <1>6, <1>7

\* The page hears of a death: it is announced unless its id is the one announced last,
\* which can only be in a second race.
LEMMA DeathHeard ==
  ASSUME DisplayInv, Hear, HearElimination
  PROVE  DisplayInv'
<1> USE DEF DisplayInv
<1> DEFINE m == toScreen[1]
<1>1. toScreen # <<>> /\ toScreen \in Seq(ToDisplay) /\ toScreen' = Tail(toScreen) /\ m \in ToDisplay
  BY DEF Hear, DisplayTypes
<1>2. Head(toScreen) = m
  BY <1>1
<1>3. /\ IsDeath(m) /\ ~IsSnapshot(m) /\ m.id \in Nat \ {0} /\ m.count \in Nat
      /\ race' = race /\ rt' = [rt EXCEPT !.elimination = [id |-> m.id, count |-> m.count]]
      /\ screen' = Announce(rt'.elimination, screen)
      /\ heard' = heard + m.count /\ races' = races \cup {rt.attempt}
      /\ UNCHANGED <<arena, seenAlive, announced>>
  BY <1>1, <1>2 DEF Hear, HearElimination, ToDisplay, IsDeath, IsSnapshot
<1> HIDE DEF m
<1>4. toScreen' \in Seq(ToDisplay)
  BY <1>1
<1>5. /\ rt'.elimination = [id |-> m.id, count |-> m.count] /\ rt'.attempt = rt.attempt
      /\ rt' \in [attempt : Nat, elimination : [id : Nat, count : Nat]]
  BY <1>3 DEF DisplayTypes
<1>6. rt'.elimination # NoEvent /\ rt'.elimination.id = m.id /\ rt'.elimination.count = m.count
  BY <1>3, <1>5 DEF NoEvent
<1>7. /\ screen' \in ScreenRecords
      /\ screen'.lastElimEvent = m.id
      /\ m.id = screen.lastElimEvent => screen'.pendingBurst = screen.pendingBurst
      /\ m.id # screen.lastElimEvent => screen'.pendingBurst = screen.pendingBurst + m.count
  <2>1. rt'.elimination \in [id : Nat, count : Nat] /\ screen \in ScreenRecords
    BY <1>5 DEF DisplayTypes
  <2>2. PICK ev : ev = rt'.elimination
    OBVIOUS
  <2>3. QED
    BY <1>3, <1>6, <2>1, <2>2, AnnouncesNew
<1>8. DisplayTypes'
  BY <1>3, <1>4, <1>5, <1>7 DEF DisplayTypes
<1>9. /\ race.nextElimId \in Nat \ {0} /\ screen.lastElimEvent \in Int /\ screen.pendingBurst \in Nat
      /\ announced \in Nat /\ heard \in Nat
  BY DEF DisplayTypes, ScreenRecords
<1>10. /\ NoLaterAttempt(Tail(toScreen), rt.attempt, race.attempt, races \cup {rt.attempt})
       /\ IdsGoUp(Tail(toScreen), rt.attempt, race.attempt, race.nextElimId, races \cup {rt.attempt}, m.id)
  BY <1>1, <1>3, <1>9, Heard DEF m
<1>11. /\ NoLaterAttempt(toScreen, rt.attempt, race.attempt, races)'
       /\ IdsGoUp(toScreen, rt.attempt, race.attempt, race.nextElimId, races, screen.lastElimEvent)'
  BY <1>1, <1>3, <1>5, <1>7, <1>10
<1>12. ASSUME NEW n \in Nat, races' \subseteq {n} PROVE m.id # screen.lastElimEvent
  <2>1. rt.attempt = n /\ races \subseteq {n}
    BY <1>3, <1>12
  <2>2. 1 \in DOMAIN toScreen
    BY <1>1
  <2>3. Under(toScreen, rt.attempt, 1, n)
    <3>1. \A j \in DOMAIN toScreen : ~(j < 1)
      BY <1>1
    <3>2. QED
      BY <2>1, <3>1 DEF Under
  <2>4. screen.lastElimEvent < m.id
    BY <1>3, <2>1, <2>2, <2>3 DEF IdsGoUp, m
  <2>5. QED
    BY <1>3, <1>9, <2>4
<1>13. AnnounceInv'
  <2>1. announced' + screen'.pendingBurst <= heard'
    BY <1>3, <1>7, <1>9 DEF AnnounceInv
  <2>2. ASSUME NEW n \in Nat, races' \subseteq {n} PROVE announced' + screen'.pendingBurst = heard'
    <3>1. announced + screen.pendingBurst = heard
      BY <1>3, <2>2 DEF AnnounceInv
    <3>2. QED
      BY <1>3, <1>7, <1>9, <1>12, <2>2, <3>1
  <2>3. QED
    BY <1>6, <1>7, <2>1, <2>2 DEF AnnounceInv
<1>14. FlashInv'
  BY <1>3 DEF FlashInv
<1>15. QED
  BY <1>8, <1>11, <1>13, <1>14

\* The page sees a snapshot: nothing is announced for it.
LEMMA SnapshotSeen ==
  ASSUME DisplayInv, Hear, SeeSnapshot
  PROVE  DisplayInv'
<1> USE DEF DisplayInv
<1> DEFINE m == toScreen[1]
<1>1. toScreen # <<>> /\ toScreen \in Seq(ToDisplay) /\ toScreen' = Tail(toScreen) /\ m \in ToDisplay
  BY DEF Hear, DisplayTypes
<1>2. Head(toScreen) = m
  BY <1>1
<1>3. /\ IsSnapshot(m) /\ m.attempt \in Nat /\ m.dead \in SUBSET Racers
      /\ race' = race
      /\ rt' = [attempt |-> m.attempt,
                elimination |-> IF m.attempt = rt.attempt THEN rt.elimination ELSE NoEvent]
      /\ screen' = Announce(rt'.elimination, screen)
      /\ \/ arena' = trackEliminations(m.dead, arena) /\ seenAlive' = seenAlive \cup (Racers \ m.dead)
         \/ arena' = NewArena /\ seenAlive' = {}
      /\ UNCHANGED <<heard, races, announced>>
  BY <1>1, <1>2 DEF Hear, SeeSnapshot, ToDisplay, IsSnapshot
<1> HIDE DEF m
<1>4. toScreen' \in Seq(ToDisplay)
  BY <1>1
<1>5. /\ rt'.attempt = m.attempt /\ rt' \in [attempt : Nat, elimination : [id : Nat, count : Nat]]
      /\ rt'.elimination = NoEvent \/ rt'.elimination.id = screen.lastElimEvent
  BY <1>3 DEF DisplayTypes, NoEvent, AnnounceInv
<1>6. screen' = screen
  BY <1>3, <1>5 DEF Announce
<1>7. arena' \in [primed : BOOLEAN, seenOut : SUBSET Racers, freshOut : SUBSET Racers] /\ FlashInv'
  <2>1. CASE arena' = NewArena /\ seenAlive' = {}
    BY <2>1 DEF NewArena, FlashInv
  <2>2. CASE arena' = trackEliminations(m.dead, arena) /\ seenAlive' = seenAlive \cup (Racers \ m.dead)
    <3>1. /\ arena'.seenOut = m.dead
          /\ arena'.freshOut = arena.freshOut \cup IF arena.primed THEN m.dead \ arena.seenOut ELSE {}
          /\ arena' \in [primed : BOOLEAN, seenOut : SUBSET Racers, freshOut : SUBSET Racers]
      BY <1>3, <2>2 DEF trackEliminations, DisplayTypes
    <3>2. arena'.freshOut \subseteq seenAlive'
      BY <1>3, <2>2, <3>1 DEF FlashInv
    <3>3. QED
      BY <2>2, <3>1, <3>2 DEF FlashInv
  <2>3. QED
    BY <1>3, <2>1, <2>2
<1>8. DisplayTypes'
  BY <1>3, <1>4, <1>5, <1>6, <1>7 DEF DisplayTypes
<1>9. race.nextElimId \in Nat \ {0} /\ screen.lastElimEvent \in Int
  BY DEF DisplayTypes, ScreenRecords
<1>10. /\ NoLaterAttempt(Tail(toScreen), m.attempt, race.attempt, races)
       /\ IdsGoUp(Tail(toScreen), m.attempt, race.attempt, race.nextElimId, races, screen.lastElimEvent)
  BY <1>1, <1>3, <1>9, Heard DEF m
<1>11. /\ NoLaterAttempt(toScreen, rt.attempt, race.attempt, races)'
       /\ IdsGoUp(toScreen, rt.attempt, race.attempt, race.nextElimId, races, screen.lastElimEvent)'
  BY <1>1, <1>3, <1>5, <1>6, <1>10
<1>12. AnnounceInv'
  BY <1>3, <1>5, <1>6 DEF AnnounceInv
<1>13. QED
  BY <1>7, <1>8, <1>11, <1>12

LEMMA DisplayStep ==
  ASSUME DisplayInv, DisplayNext \/ UNCHANGED displayVars
  PROVE  DisplayInv'
<1> USE DEF DisplayInv
<1>1. CASE (\E S \in (SUBSET (Racers \ race.dead)) \ {{}} : Eliminate(S)) \/ Publish \/ Prepare \/ StartRace
  BY <1>1, RaceGoesOn
<1>2. CASE Hear
  BY <1>2, DeathHeard, SnapshotSeen DEF Hear
<1>3. CASE Burst
  <2>1. /\ UNCHANGED <<race, toScreen, rt, arena, heard, seenAlive, races>>
        /\ screen'.lastElimEvent = screen.lastElimEvent /\ screen'.pendingBurst = 0
        /\ screen' \in ScreenRecords
        /\ announced' = announced + screen.pendingBurst /\ announced' \in Nat
    <3>1. screen \in ScreenRecords /\ screen.pendingBurst \in Nat /\ announced \in Nat
      BY DEF DisplayTypes, ScreenRecords
    <3>2. /\ screen' \in ScreenRecords /\ screen'.lastElimEvent = screen.lastElimEvent
          /\ screen'.pendingBurst = 0
      BY <1>3, <3>1, Bursts DEF Burst
    <3>3. QED
      BY <1>3, <3>1, <3>2 DEF Burst
  <2>2. DisplayTypes' /\ FlashInv'
    BY <2>1 DEF DisplayTypes, FlashInv
  <2>3. AnnounceInv'
    <3>1. announced' + screen'.pendingBurst = announced + screen.pendingBurst
      BY <2>1 DEF DisplayTypes
    <3>2. QED
      BY <2>1, <3>1 DEF AnnounceInv
  <2>4. QED
    BY <2>1, <2>2, <2>3
<1>4. CASE Settle
  <2>1. /\ UNCHANGED <<race, toScreen, rt, heard, announced, seenAlive, races>>
        /\ screen'.lastElimEvent = screen.lastElimEvent /\ screen'.pendingBurst = screen.pendingBurst
        /\ screen' \in ScreenRecords
        /\ arena' \in [primed : BOOLEAN, seenOut : SUBSET Racers, freshOut : SUBSET Racers]
        /\ arena'.freshOut \subseteq arena.freshOut /\ arena'.primed = arena.primed
        /\ arena'.seenOut = arena.seenOut
    <3>1. /\ screen \in ScreenRecords
          /\ arena \in [primed : BOOLEAN, seenOut : SUBSET Racers, freshOut : SUBSET Racers]
      BY DEF DisplayTypes
    <3>2. CASE screen' = [screen EXCEPT !.burst = 0] /\ UNCHANGED arena
      BY <1>4, <3>1, <3>2, BurstEnds DEF Settle
    <3>3. CASE arena' = [arena EXCEPT !.freshOut = {}] /\ UNCHANGED screen
      BY <1>4, <3>1, <3>3, FlashEnds DEF Settle
    <3>4. QED
      BY <1>4, <3>2, <3>3 DEF Settle
  <2>2. DisplayTypes'
    BY <2>1 DEF DisplayTypes
  <2>3. FlashInv' /\ AnnounceInv'
    BY <2>1 DEF FlashInv, AnnounceInv
  <2>4. QED
    BY <2>1, <2>2, <2>3
<1>5. CASE Reload
  <2> DEFINE m == Snapshot
  <2>1. /\ toScreen' = <<m>> /\ rt' = [attempt |-> 0, elimination |-> NoEvent]
        /\ screen' = NewScreen /\ arena' = NewArena
        /\ heard' = 0 /\ announced' = 0 /\ seenAlive' = {} /\ races' = {} /\ race' = race
    BY <1>5 DEF Reload
  <2>2. m \in ToDisplay /\ IsSnapshot(m) /\ m.attempt = race.attempt
    BY DEF Snapshot, ToDisplay, IsSnapshot, DisplayTypes
  <2> HIDE DEF m
  <2>3. race.attempt \in Nat \ {0} /\ race.nextElimId \in Nat \ {0}
    BY DEF DisplayTypes
  <2>4. /\ NoLaterAttempt(<<m>>, 0, race.attempt, {})
        /\ IdsGoUp(<<m>>, 0, race.attempt, race.nextElimId, {}, -1)
    BY <2>2, <2>3, Loaded
  <2>5. rt'.attempt = 0 /\ screen'.lastElimEvent = -1
    BY <2>1 DEF NewScreen
  <2>6. DisplayTypes'
    <3>1. toScreen' \in Seq(ToDisplay)
      BY <2>1, <2>2
    <3>2. QED
      BY <2>1, <3>1 DEF DisplayTypes, ScreenRecords, NewScreen, NewArena, NoEvent
  <2>7. AnnounceInv' /\ FlashInv'
    BY <2>1 DEF AnnounceInv, FlashInv, NewScreen, NewArena, NoEvent
  <2>8. QED
    BY <2>1, <2>4, <2>5, <2>6, <2>7
<1>6. CASE UNCHANGED displayVars
  BY <1>6 DEF displayVars, DisplayTypes, AnnounceInv, FlashInv
<1>7. QED
  BY <1>1, <1>2, <1>3, <1>4, <1>5, <1>6 DEF DisplayNext

\* No death is announced twice, and none is left out in the first race.
LEMMA EachDeathOnce == ASSUME DisplayInv PROVE AnnouncedOnce
<1>1. ASSUME Cardinality(races) <= 1 PROVE \E n \in Nat : races \subseteq {n}
  <2>1. IsFiniteSet(races) /\ races \subseteq Nat
    <3>1. race.attempt \in Nat /\ races \subseteq 0..race.attempt
      BY DEF DisplayInv, DisplayTypes, NoLaterAttempt
    <3>2. IsFiniteSet(0..race.attempt)
      BY <3>1, FS_Interval
    <3>3. IsFiniteSet(races)
      BY <3>1, <3>2, FS_Subset
    <3>4. QED
      BY <3>1, <3>3
  <2>2. Cardinality(races) = 0 \/ Cardinality(races) = 1
    BY <1>1, <2>1, FS_CardinalityType
  <2>3. races = {} \/ \E x : races = {x}
    BY <2>1, <2>2, FS_EmptySet, FS_Singleton
  <2>4. QED
    BY <2>1, <2>3
<1>2. QED
  BY <1>1 DEF DisplayInv, AnnounceInv, FlashInv, AnnouncedOnce

------------------------------------------------------------------------------
\* A phone.

Orders == Marks \cup {None}
Answers == [draft : Orders, locked : BOOLEAN, life : {"alive", "eliminated", "finished"}]
Saves == [op : {"save", "lock"}, mark : Orders]
Answered == [op : {"save", "lock", "me"}, ok : BOOLEAN, row : Answers]
PageRecords == [conn : BOOLEAN, help : BOOLEAN, localOrder : Orders, saveTimer : Orders, busy : BOOLEAN,
                dragging : BOOLEAN]

PhoneTypes ==
  /\ answer \in Answers /\ me \in Answers /\ phone \in PageRecords /\ tap \in Orders
  /\ toServer \in Seq(Saves) /\ toPhone \in Seq(Answered)
  /\ pad = [holding |-> FALSE, timer |-> FALSE]

\* The last tap is about to be sent, or it is in the last message under way, be that a
\* save or a lock.
TapOnItsWay ==
  \/ phone.saveTimer = tap
  \/ toServer # <<>> /\ toServer[Len(toServer)].mark = tap

\* The server has it, and so will the phone once it has read what is told to it.
ToldTo(q, shown) ==
  IF q = <<>> THEN shown.draft = tap ELSE q[Len(q)].ok = TRUE /\ q[Len(q)].row.draft = tap
TapSaved ==
  /\ phone.saveTimer = None /\ toServer = <<>> /\ answer.draft = tap
  /\ phone.conn = TRUE => ToldTo(toPhone, me)

TapInv ==
  /\ phone.saveTimer # None => phone.saveTimer = tap
  /\ phone.conn = FALSE => toPhone = <<>>
  /\ tap # None /\ ~dropped /\ ~overtaken =>
       /\ kind = "ORDER" => phone.localOrder = tap
       /\ TapOnItsWay \/ TapSaved

PhoneInv ==
  /\ kind \in {"RLGL", "GEO", "ORDER"}
  /\ kind = "RLGL" => tap = None
  /\ kind # "RLGL" => PhoneTypes /\ TapInv

LEMMA PhoneStart == ASSUME PhoneInit PROVE PhoneInv
<1>1. PhoneTypes
  BY PhoneAssumption DEF PhoneInit, PhoneTypes, Row, Answers, PageRecords, Orders
<1>2. TapInv
  BY DEF PhoneInit, TapInv
<1>3. QED
  BY <1>1, <1>2 DEF PhoneInit, PhoneInv

\* What is left of a queue without its head.
LEMMA LastStays ==
  ASSUME NEW M, NEW q \in Seq(M), q # <<>>
  PROVE  /\ Tail(q) \in Seq(M) /\ Head(q) = q[1] /\ q[1] \in M /\ 1 \in DOMAIN q
         /\ Tail(q) # <<>> => Tail(q)[Len(Tail(q))] = q[Len(q)]
         /\ Tail(q) = <<>> => q[Len(q)] = q[1]
         /\ \A i \in DOMAIN q : i # 1 => i - 1 \in DOMAIN Tail(q) /\ Tail(q)[i - 1] = q[i]
         /\ SubSeq(q, 1, 0) \o SubSeq(q, 2, Len(q)) = Tail(q)
OBVIOUS

\* Pads and lost holds are of the race.
LEMMA RaceHasNoTap ==
  ASSUME PhoneInv, kind = "RLGL", PhoneNext \/ UNCHANGED phoneVars
  PROVE  PhoneInv'
<1>1. kind' = kind
  BY DEF PhoneNext, phoneVars, Down, Up, Heartbeat, ToggleHelp, placePin, changeOrder, Drag, Save, Lock,
         Serve, StaleHold, Decided, Pause, Resume, Advance, Receive, Disconnect, Reconnect, GiveUp
<1>2. tap' = tap
  BY DEF PhoneNext, phoneVars, Down, Up, Heartbeat, ToggleHelp, placePin, changeOrder, Drag, Save, Lock,
         Serve, StaleHold, Decided, Pause, Resume, Advance, Receive, Disconnect, Reconnect, GiveUp
<1>3. QED
  BY <1>1, <1>2 DEF PhoneInv


\* A pad that is not pressed is left alone.
LEMMA NoPad ==
  ASSUME pad = [holding |-> FALSE, timer |-> FALSE], Renders
  PROVE  pad' = pad
<1> DEFINE R == [holding : BOOLEAN, timer : BOOLEAN]
<1>1. \A a, b \in R : (a.holding <=> b.holding) /\ (a.timer <=> b.timer) => a = b
  OBVIOUS
<1>2. pad \in R /\ ~pad.holding /\ ~pad.timer
  OBVIOUS
<1>3. stop(pad) \in R /\ ~stop(pad).holding /\ ~stop(pad).timer
  BY <1>2 DEF stop
<1>4. stop(pad) = pad
  BY <1>1, <1>2, <1>3
<1>5. QED
  BY <1>4 DEF Renders

\* Steps that touch neither the tap nor its way.
LEMMA TapUntouched ==
  ASSUME PhoneInv, kind # "RLGL",
         ToggleHelp \/ Drag \/ StaleHold \/ Pause \/ Advance \/ UNCHANGED phoneVars
  PROVE  PhoneInv'
<1>1. PhoneTypes /\ TapInv
  BY DEF PhoneInv
<1>2. pad = [holding |-> FALSE, timer |-> FALSE] /\ phone \in PageRecords
  BY <1>1 DEF PhoneTypes
<1>3. pad' = pad
  BY <1>2, NoPad DEF ToggleHelp, Drag, StaleHold, Pause, Advance, phoneVars
<1>4. UNCHANGED <<kind, answer, me, toServer, toPhone, tap, dropped, overtaken>>
  BY DEF ToggleHelp, Drag, StaleHold, Pause, Advance, phoneVars
<1>5. /\ phone' \in PageRecords /\ phone'.saveTimer = phone.saveTimer
      /\ phone'.localOrder = phone.localOrder /\ phone'.conn = phone.conn
  <2>1. \A p \in PageRecords, b, c \in BOOLEAN :
          LET t == [p EXCEPT !.help = b, !.dragging = c]
          IN  /\ t \in PageRecords /\ t.saveTimer = p.saveTimer /\ t.localOrder = p.localOrder
              /\ t.conn = p.conn
    BY DEF PageRecords
  <2>2. CASE ToggleHelp
    <3>1. phone' = [phone EXCEPT !.help = ~phone.help, !.dragging = FALSE]
      BY <2>2 DEF ToggleHelp
    <3>2. (~phone.help) \in BOOLEAN
      OBVIOUS
    <3>3. QED
      BY <1>2, <2>1, <3>1, <3>2
  <2>3. CASE Drag
    <3>1. phone' = [phone EXCEPT !.dragging = ~phone.dragging]
      BY <2>3 DEF Drag
    <3>2. \A p \in PageRecords, c \in BOOLEAN :
            LET t == [p EXCEPT !.dragging = c]
            IN  /\ t \in PageRecords /\ t.saveTimer = p.saveTimer /\ t.localOrder = p.localOrder
                /\ t.conn = p.conn
      BY DEF PageRecords
    <3>3. (~phone.dragging) \in BOOLEAN
      OBVIOUS
    <3>4. QED
      BY <1>2, <3>1, <3>2, <3>3
  <2>4. CASE StaleHold \/ Pause \/ Advance \/ UNCHANGED phoneVars
    BY <1>2, <2>4 DEF StaleHold, Pause, Advance, phoneVars
  <2>5. QED
    BY <2>2, <2>3, <2>4
<1>6. PhoneTypes'
  BY <1>1, <1>3, <1>4, <1>5 DEF PhoneTypes
<1>7. TapOnItsWay' <=> TapOnItsWay
  BY <1>4, <1>5 DEF TapOnItsWay
<1>8. TapSaved' <=> TapSaved
  BY <1>4, <1>5 DEF TapSaved, ToldTo
<1>9. TapInv'
  BY <1>1, <1>4, <1>5, <1>7, <1>8 DEF TapInv
<1>10. QED
  BY <1>4, <1>6, <1>9 DEF PhoneInv

\* A tap is with the timer at once.
LEMMA TapsAnew ==
  ASSUME PhoneInv, kind # "RLGL", NEW m \in Marks, placePin(m) \/ changeOrder(m)
  PROVE  PhoneInv'
<1>1. PhoneTypes /\ TapInv
  BY DEF PhoneInv
<1>2. UNCHANGED <<kind, answer, pad, toServer, toPhone>> /\ tap' = m /\ m \in Orders
  BY DEF placePin, changeOrder, Tapped, Orders
<1>3. /\ phone' \in PageRecords /\ phone'.saveTimer = m /\ phone'.conn = phone.conn
      /\ kind = "ORDER" => phone'.localOrder = m
  <2>1. phone \in PageRecords
    BY <1>1 DEF PhoneTypes
  <2>2. CASE placePin(m)
    BY <1>2, <2>1, <2>2 DEF placePin, PageRecords
  <2>3. CASE changeOrder(m)
    BY <1>2, <2>1, <2>3 DEF changeOrder, PageRecords
  <2>4. QED
    BY <2>2, <2>3
<1>4. me' \in Answers
  BY <1>1, <1>2 DEF placePin, changeOrder, PhoneTypes, Answers
<1>5. PhoneTypes'
  BY <1>1, <1>2, <1>3, <1>4 DEF PhoneTypes
<1>6. TapOnItsWay'
  BY <1>2, <1>3 DEF TapOnItsWay
<1>7. TapInv'
  BY <1>1, <1>2, <1>3, <1>6 DEF TapInv
<1>8. QED
  BY <1>2, <1>5, <1>7 DEF PhoneInv

\* The timer sends the last tap; so does a lock, unless the page shows an older answer.
LEMMA TapLeaves ==
  ASSUME PhoneInv, kind # "RLGL", Save \/ Lock
  PROVE  PhoneInv'
<1>1. PhoneTypes /\ TapInv
  BY DEF PhoneInv
<1>2. UNCHANGED <<kind, answer, me, pad, toPhone, tap, dropped>>
  BY DEF Save, Lock
<1>3. /\ phone' \in PageRecords /\ phone'.saveTimer = None /\ phone'.conn = phone.conn
      /\ phone'.localOrder = phone.localOrder
  <2>1. phone \in PageRecords /\ None \in Orders
    BY <1>1 DEF PhoneTypes, Orders
  <2>2. CASE Save
    BY <2>1, <2>2 DEF Save, PageRecords
  <2>3. CASE Lock
    BY <2>1, <2>3 DEF Lock, PageRecords
  <2>4. QED
    BY <2>2, <2>3
<1>4. PICK m \in Saves : /\ toServer' = Append(toServer, m)
                         /\ ~overtaken' => ~overtaken /\ m.mark = tap
  <2>1. CASE Save
    <3>1. phone.saveTimer = tap /\ tap \in Orders
      BY <1>1, <2>1 DEF Save, TapInv, PhoneTypes
    <3>2. QED
      BY <2>1, <3>1 DEF Save, Sends, Saves
  <2>2. CASE Lock
    <3>1. Shown \in Orders
      BY <1>1, PhoneAssumption DEF Shown, PhoneTypes, Answers, PageRecords, Orders
    <3>2. PICK x \in Orders : x = Shown
      BY <3>1
    <3>3. [op |-> "lock", mark |-> x] \in Saves
      BY DEF Saves
    <3>4. toServer' = Append(toServer, [op |-> "lock", mark |-> x])
      BY <2>2, <3>2 DEF Lock, Sends
    <3>5. ~overtaken' => ~overtaken /\ x = tap
      BY <2>2, <3>2, Zenon DEF Lock
    <3>6. QED
      BY <3>3, <3>4, <3>5
  <2>3. QED
    BY <2>1, <2>2
<1>5. /\ toServer' \in Seq(Saves) /\ toServer' # <<>> /\ toServer'[Len(toServer')] = m
      /\ Len(toServer') \in DOMAIN toServer'
  BY <1>1, <1>4 DEF PhoneTypes
<1>6. PhoneTypes'
  BY <1>1, <1>2, <1>3, <1>5 DEF PhoneTypes
<1>7. ~overtaken' => TapOnItsWay' /\ ~overtaken
  BY <1>2, <1>4, <1>5 DEF TapOnItsWay
<1>8. TapInv'
  BY <1>1, <1>2, <1>3, <1>7 DEF TapInv
<1>9. QED
  BY <1>2, <1>6, <1>8 DEF PhoneInv

\* The server saves what it takes and tells the phone its row; what it refuses counts
\* as dropped.
LEMMA TapArrives ==
  ASSUME PhoneInv, kind # "RLGL", NEW i \in DOMAIN toServer, Serve(i)
  PROVE  PhoneInv'
<1>1. PhoneTypes /\ TapInv
  BY DEF PhoneInv
<1>2. toServer \in Seq(Saves) /\ toServer # <<>>
  BY <1>1 DEF PhoneTypes
<1> DEFINE m == toServer[1]
<1>3. /\ UNCHANGED <<kind, me, phone, pad, tap, overtaken>> /\ phone.conn /\ i = 1 /\ Answer(m)
      /\ toServer' = SubSeq(toServer, 1, i - 1) \o SubSeq(toServer, i + 1, Len(toServer))
  BY DEF Serve
<1>4. toServer' = SubSeq(toServer, 1, 0) \o SubSeq(toServer, 2, Len(toServer))
  BY <1>3
<1>5. toServer' = Tail(toServer) /\ toServer' \in Seq(Saves) /\ m \in Saves
  BY <1>2, <1>4, LastStays
<1> HIDE DEF m
<1>6. m.mark \in Orders /\ m.op \in {"save", "lock"}
  BY <1>5 DEF Saves
<1>7. CASE dropped' = TRUE /\ UNCHANGED answer /\ Replies(m.op, FALSE)
  <2>1. toPhone' = Append(toPhone, [op |-> m.op, ok |-> FALSE, row |-> Row'])
    BY <1>7 DEF Replies
  <2>2. Row' \in Answers
    BY <1>1, <1>7 DEF Row, PhoneTypes, Answers
  <2>3. [op |-> m.op, ok |-> FALSE, row |-> Row'] \in Answered
    BY <1>6, <2>2 DEF Answered
  <2>4. toPhone' \in Seq(Answered)
    BY <1>1, <2>1, <2>3 DEF PhoneTypes
  <2>5. PhoneTypes'
    BY <1>1, <1>3, <1>5, <1>7, <2>4 DEF PhoneTypes
  <2>6. TapInv'
    BY <1>1, <1>3, <1>7 DEF TapInv
  <2>7. QED
    BY <1>3, <2>5, <2>6 DEF PhoneInv
<1>8. CASE /\ answer' = [answer EXCEPT !.draft = m.mark, !.locked = (m.op = "lock")]
           /\ Replies(m.op, TRUE) /\ dropped' = dropped /\ ~answer.locked
  <2>1. answer' \in Answers /\ answer'.draft = m.mark /\ answer'.locked = (m.op = "lock")
    <3>1. answer \in Answers /\ (m.op = "lock") \in BOOLEAN
      BY <1>1 DEF PhoneTypes
    <3>2. PICK b \in BOOLEAN : b = (m.op = "lock")
      BY <3>1
    <3>3. answer' = [answer EXCEPT !.draft = m.mark, !.locked = b]
      BY <1>8, <3>2, Zenon
    <3>4. answer' \in Answers /\ answer'.draft = m.mark /\ answer'.locked = b
      <4>1. PICK a \in Answers, d \in Orders : a = answer /\ d = m.mark
        BY <1>6, <3>1
      <4> DEFINE t == [a EXCEPT !.draft = d, !.locked = b]
      <4>2. answer' = t
        BY <3>3, <4>1
      <4>3. t \in Answers /\ t.draft = d /\ t.locked = b
        BY DEF Answers
      <4> HIDE DEF t
      <4>4. QED
        BY <4>1, <4>2, <4>3, Zenon
    <3>5. QED
      BY <3>2, <3>4, Zenon
  <2> DEFINE r == [op |-> m.op, ok |-> TRUE, row |-> Row']
  <2>2. toPhone' = Append(toPhone, r)
    BY <1>8 DEF Replies
  <2>3. Row' \in Answers /\ Row'.draft = answer'.draft
    BY <2>1 DEF Row, Answers
  <2>4. r \in Answered /\ r.ok = TRUE /\ r.row.draft = answer'.draft
    BY <1>6, <2>3 DEF Answered
  <2> HIDE DEF r
  <2>5. toPhone' \in Seq(Answered) /\ toPhone' # <<>> /\ toPhone'[Len(toPhone')] = r
    BY <1>1, <2>2, <2>4 DEF PhoneTypes
  <2>6. PhoneTypes'
    BY <1>1, <1>3, <1>5, <2>1, <2>5 DEF PhoneTypes
  <2>7. ASSUME tap' # None, ~dropped', ~overtaken'
        PROVE  TapOnItsWay' \/ TapSaved'
    <3>1. TapOnItsWay
      <4>1. ~TapSaved
        BY <1>2 DEF TapSaved
      <4>2. QED
        BY <1>1, <1>3, <1>8, <2>7, <4>1 DEF TapInv
    <3>2. CASE phone.saveTimer = tap
      BY <1>3, <3>2 DEF TapOnItsWay
    <3>3. CASE phone.saveTimer # tap /\ toServer[Len(toServer)].mark = tap
      <4>1. CASE toServer' = <<>>
        <5>1. m.mark = tap
          BY <1>2, <1>5, <3>3, <4>1, LastStays DEF m
        <5>2. answer'.draft = tap'
          BY <1>3, <2>1, <5>1
        <5>3. phone'.saveTimer = None
          BY <1>1, <1>3, <3>3 DEF TapInv
        <5>4. ToldTo(toPhone, me)'
          BY <2>4, <2>5, <5>2 DEF ToldTo
        <5>5. QED
          BY <4>1, <5>2, <5>3, <5>4 DEF TapSaved
      <4>2. CASE toServer' # <<>>
        <5>1. toServer'[Len(toServer')].mark = tap'
          BY <1>2, <1>3, <1>5, <3>3, <4>2, LastStays
        <5>2. QED
          BY <4>2, <5>1 DEF TapOnItsWay
      <4>3. QED
        BY <4>1, <4>2
    <3>4. QED
      BY <3>1, <3>2, <3>3 DEF TapOnItsWay
  <2>8. TapInv'
    <3>1. phone'.saveTimer # None => phone'.saveTimer = tap'
      BY <1>1, <1>3 DEF TapInv
    <3>2. phone'.conn = FALSE => toPhone' = <<>>
      BY <1>3
    <3>3. tap' # None /\ ~dropped' /\ ~overtaken' => (kind' = "ORDER" => phone'.localOrder = tap')
      BY <1>1, <1>3, <1>8 DEF TapInv
    <3>4. QED
      BY <2>7, <3>1, <3>2, <3>3 DEF TapInv
  <2>9. QED
    BY <1>3, <2>6, <2>8 DEF PhoneInv
<1>9. QED
  BY <1>3, <1>7, <1>8 DEF Answer


\* A message that tells the phone its row.
LEMMA RowTold ==
  ASSUME PhoneTypes, NEW q \in Seq(Answered), answer' = answer,
         toPhone' = Append(q, [op |-> "me", ok |-> TRUE, row |-> Row'])
  PROVE  /\ toPhone' \in Seq(Answered) /\ toPhone' # <<>>
         /\ toPhone'[Len(toPhone')].ok = TRUE /\ toPhone'[Len(toPhone')].row.draft = answer.draft
<1> DEFINE r == [op |-> "me", ok |-> TRUE, row |-> Row']
<1>1. Row' \in Answers /\ Row'.draft = answer.draft
  BY DEF Row, PhoneTypes, Answers
<1>2. r \in Answered /\ r.ok = TRUE /\ r.row.draft = answer.draft
  BY <1>1 DEF Answered
<1>3. toPhone' = Append(q, r)
  OBVIOUS
<1> HIDE DEF r
<1>4. toPhone' \in Seq(Answered) /\ toPhone' # <<>> /\ toPhone'[Len(toPhone')] = r
  BY <1>2, <1>3
<1>5. QED
  BY <1>2, <1>4

\* A round that goes on and a phone that is back are told the row as it is.
LEMMA TapToldAgain ==
  ASSUME PhoneInv, kind # "RLGL", Resume \/ Reconnect
  PROVE  PhoneInv'
<1>1. PhoneTypes /\ TapInv
  BY DEF PhoneInv
<1>2. UNCHANGED <<kind, answer, me, toServer, tap, dropped, overtaken>>
  BY DEF Resume, Reconnect
<1>3. pad' = pad
  BY <1>1, NoPad DEF Resume, Reconnect, PhoneTypes
<1>4. /\ phone' \in PageRecords /\ phone'.saveTimer = phone.saveTimer
      /\ phone'.localOrder = phone.localOrder
  <2>1. phone \in PageRecords
    BY <1>1 DEF PhoneTypes
  <2>2. CASE Resume
    BY <2>1, <2>2 DEF Resume
  <2>3. CASE Reconnect
    BY <2>1, <2>3 DEF Reconnect, PageRecords
  <2>4. QED
    BY <2>2, <2>3
<1>5. \/ phone'.conn = FALSE /\ phone.conn = FALSE /\ toPhone' = toPhone
      \/ toPhone' = Append(toPhone, [op |-> "me", ok |-> TRUE, row |-> Row']) /\ phone'.conn = TRUE
  <2>1. phone \in PageRecords
    BY <1>1 DEF PhoneTypes
  <2>2. CASE Resume
    BY <2>1, <2>2 DEF Resume, Replies, PageRecords
  <2>3. CASE Reconnect
    BY <2>1, <2>3 DEF Reconnect, Replies, PageRecords
  <2>4. QED
    BY <2>2, <2>3
<1>6. toPhone \in Seq(Answered)
  BY <1>1 DEF PhoneTypes
<1>7. \/ phone'.conn = FALSE /\ phone.conn = FALSE /\ toPhone' = toPhone
      \/ /\ phone'.conn = TRUE /\ toPhone' \in Seq(Answered) /\ toPhone' # <<>>
         /\ toPhone'[Len(toPhone')].ok = TRUE /\ toPhone'[Len(toPhone')].row.draft = answer.draft
  BY <1>1, <1>2, <1>5, <1>6, RowTold
<1>8. PhoneTypes'
  BY <1>1, <1>2, <1>3, <1>4, <1>6, <1>7 DEF PhoneTypes
<1>9. TapOnItsWay => TapOnItsWay'
  BY <1>2, <1>4 DEF TapOnItsWay
<1>10. TapSaved => TapSaved'
  BY <1>2, <1>4, <1>7 DEF TapSaved, ToldTo
<1>11. TapInv'
  BY <1>1, <1>2, <1>4, <1>7, <1>9, <1>10 DEF TapInv
<1>12. QED
  BY <1>2, <1>8, <1>11 DEF PhoneInv

\* The phone reads an answer: the last one is that to the last tap.
LEMMA AnswerRead ==
  ASSUME PhoneInv, kind # "RLGL", Receive
  PROVE  PhoneInv'
<1>1. PhoneTypes /\ TapInv
  BY DEF PhoneInv
<1>2. UNCHANGED <<kind, answer, toServer, tap, dropped, overtaken>> /\ toPhone # <<>> /\ toPhone' = Tail(toPhone)
  BY DEF Receive
<1>3. pad' = pad
  BY <1>1, NoPad DEF Receive, PhoneTypes
<1> DEFINE m == toPhone[1]
<1>4. toPhone \in Seq(Answered)
  BY <1>1 DEF PhoneTypes
<1>5. /\ toPhone' \in Seq(Answered) /\ Head(toPhone) = m /\ m \in Answered
      /\ toPhone' # <<>> => toPhone'[Len(toPhone')] = toPhone[Len(toPhone)]
      /\ toPhone' = <<>> => toPhone[Len(toPhone)] = m
  BY <1>2, <1>4, LastStays
<1>6. me' = IF m.ok THEN [m.row EXCEPT !.life = IF me.life = "alive" THEN m.row.life ELSE me.life] ELSE me
  BY <1>5 DEF Receive
<1> HIDE DEF m
<1>7. m.row \in Answers /\ m.ok \in BOOLEAN /\ me \in Answers
  BY <1>1, <1>5 DEF Answered, PhoneTypes
<1>8. me' \in Answers /\ (m.ok = TRUE => me'.draft = m.row.draft)
  <2>1. PICK l : l = IF me.life = "alive" THEN m.row.life ELSE me.life
    OBVIOUS
  <2>2. l \in {"alive", "eliminated", "finished"}
    BY <1>7, <2>1 DEF Answers
  <2>3. me' = IF m.ok THEN [m.row EXCEPT !.life = l] ELSE me
    BY <1>6, <2>1
  <2>4. [m.row EXCEPT !.life = l] \in Answers /\ [m.row EXCEPT !.life = l].draft = m.row.draft
    BY <1>7, <2>2 DEF Answers
  <2>5. QED
    BY <1>7, <2>3, <2>4
<1>9. /\ phone' \in PageRecords /\ phone'.saveTimer = phone.saveTimer
      /\ phone'.localOrder = phone.localOrder /\ phone'.conn = phone.conn
  <2>1. PICK b \in BOOLEAN : phone' = [phone EXCEPT !.busy = b]
    <3>1. phone' = [phone EXCEPT !.busy = phone.busy /\ Head(toPhone).op # "lock"]
      BY DEF Receive
    <3>2. (phone.busy /\ Head(toPhone).op # "lock") \in BOOLEAN
      OBVIOUS
    <3>3. QED
      BY <3>1, <3>2, Zenon
  <2>2. phone \in PageRecords
    BY <1>1 DEF PhoneTypes
  <2>3. QED
    BY <2>1, <2>2 DEF PageRecords
<1>10. PhoneTypes'
  BY <1>1, <1>2, <1>3, <1>5, <1>8, <1>9 DEF PhoneTypes
<1>11. TapOnItsWay => TapOnItsWay'
  BY <1>2, <1>9 DEF TapOnItsWay
<1>12. TapSaved => TapSaved'
  <2>1. ToldTo(toPhone, me) => ToldTo(toPhone, me)'
    BY <1>2, <1>5, <1>8 DEF ToldTo
  <2>2. QED
    BY <1>2, <1>9, <2>1 DEF TapSaved
<1>13. TapInv'
  BY <1>1, <1>2, <1>9, <1>11, <1>12 DEF TapInv
<1>14. QED
  BY <1>2, <1>10, <1>13 DEF PhoneInv

\* What is lost counts as dropped, but for what was told to the phone.
LEMMA TapLost ==
  ASSUME PhoneInv, kind # "RLGL", Disconnect \/ GiveUp
  PROVE  PhoneInv'
<1>1. PhoneTypes /\ TapInv
  BY DEF PhoneInv
<1>2. UNCHANGED <<kind, answer, me, tap, overtaken>>
  BY DEF Disconnect, GiveUp
<1>3. pad' = pad
  BY <1>1, NoPad DEF Disconnect, GiveUp, PhoneTypes
<1>4. phone \in PageRecords /\ toServer \in Seq(Saves) /\ toPhone \in Seq(Answered)
  BY <1>1 DEF PhoneTypes
<1>5. CASE Disconnect
  <2>1. /\ phone' \in PageRecords /\ phone'.saveTimer = phone.saveTimer
        /\ phone'.localOrder = phone.localOrder /\ phone'.conn = FALSE
    BY <1>4, <1>5 DEF Disconnect, PageRecords
  <2>2. toServer' = <<>> /\ toPhone' = <<>>
    BY <1>5 DEF Disconnect
  <2>3. toServer' \in Seq(Saves) /\ toPhone' \in Seq(Answered)
    BY <2>2
  <2>4. PhoneTypes'
    BY <1>1, <1>2, <1>3, <2>1, <2>3 DEF PhoneTypes
  <2>5. ASSUME ~dropped' PROVE ~dropped /\ toServer = <<>>
    <3>1. ~dropped /\ ~\E i \in DOMAIN toServer : toServer[i].op \in {"save", "lock"}
      BY <1>5, <2>5 DEF Disconnect
    <3>2. \A i \in DOMAIN toServer : toServer[i] \in Saves
      BY <1>4
    <3>3. DOMAIN toServer = {}
      BY <3>1, <3>2 DEF Saves
    <3>4. QED
      BY <1>4, <3>1, <3>3
  <2>6. TapOnItsWay /\ toServer = <<>> => TapOnItsWay'
    BY <1>2, <2>1 DEF TapOnItsWay
  <2>7. TapSaved => TapSaved'
    BY <1>2, <2>1, <2>2 DEF TapSaved
  <2>8. TapInv'
    BY <1>1, <1>2, <2>1, <2>2, <2>5, <2>6, <2>7 DEF TapInv
  <2>9. QED
    BY <1>2, <2>4, <2>8 DEF PhoneInv
<1>6. CASE GiveUp
  <2>1. PICK b \in BOOLEAN : phone' = [phone EXCEPT !.busy = b]
    <3>1. phone' = [phone EXCEPT !.busy = phone.busy /\ Head(toServer).op # "lock"]
      BY <1>6 DEF GiveUp
    <3>2. (phone.busy /\ Head(toServer).op # "lock") \in BOOLEAN
      OBVIOUS
    <3>3. QED
      BY <3>1, <3>2, Zenon
  <2>2. /\ phone' \in PageRecords /\ phone'.saveTimer = phone.saveTimer /\ phone'.conn = phone.conn
    BY <1>4, <2>1 DEF PageRecords
  <2>3. dropped' = TRUE /\ toPhone' = toPhone /\ toServer # <<>> /\ toServer' = Tail(toServer)
    BY <1>6 DEF GiveUp
  <2>4. toServer' \in Seq(Saves)
    BY <1>4, <2>3, LastStays
  <2>5. PhoneTypes'
    BY <1>1, <1>2, <1>3, <2>2, <2>3, <2>4 DEF PhoneTypes
  <2>6. TapInv'
    BY <1>1, <1>2, <2>2, <2>3 DEF TapInv
  <2>7. QED
    BY <1>2, <2>5, <2>6 DEF PhoneInv
<1>7. QED
  BY <1>5, <1>6

LEMMA PhoneStep ==
  ASSUME PhoneInv, PhoneNext \/ UNCHANGED phoneVars
  PROVE  PhoneInv'
<1>1. CASE kind = "RLGL"
  BY <1>1, RaceHasNoTap
<1>2. CASE kind # "RLGL"
  <2>1. ~(Down \/ Up \/ Heartbeat \/ Decided)
    <3>1. ~pad.timer
      BY <1>2 DEF PhoneInv, PhoneTypes
    <3>2. QED
      BY <1>2, <3>1 DEF Down, Up, Heartbeat, Decided, padVisible
  <2>2. CASE ToggleHelp \/ Drag \/ StaleHold \/ Pause \/ Advance \/ UNCHANGED phoneVars
    BY <1>2, <2>2, TapUntouched
  <2>3. CASE \E m \in Marks : placePin(m) \/ changeOrder(m)
    BY <1>2, <2>3, TapsAnew
  <2>4. CASE Save \/ Lock
    BY <1>2, <2>4, TapLeaves
  <2>5. CASE \E i \in DOMAIN toServer : Serve(i)
    BY <1>2, <2>5, TapArrives
  <2>6. CASE Resume \/ Reconnect
    BY <1>2, <2>6, TapToldAgain
  <2>7. CASE Receive
    BY <1>2, <2>7, AnswerRead
  <2>8. CASE Disconnect \/ GiveUp
    BY <1>2, <2>8, TapLost
  <2>9. QED
    BY <2>1, <2>2, <2>3, <2>4, <2>5, <2>6, <2>7, <2>8 DEF PhoneNext
<1>3. QED
  BY <1>1, <1>2

\* Once all is quiet the server has the last tap and the phone shows it, unless an older
\* answer was locked over it.
LEMMA TapIsKept == ASSUME PhoneInv PROVE LastTapKept
<1>1. SUFFICES ASSUME Quiet, ~dropped, tap # None, ~overtaken
               PROVE  answer.draft = tap /\ Shown = tap
  BY DEF LastTapKept
<1>2. kind # "RLGL" /\ kind \in {"GEO", "ORDER"} /\ PhoneTypes /\ TapInv
  BY <1>1 DEF PhoneInv
<1>3. phone.conn = TRUE
  BY <1>1, <1>2 DEF PhoneTypes, PageRecords, Quiet
<1>4. phone.saveTimer = None /\ toServer = <<>> /\ toPhone = <<>>
  BY <1>1 DEF Quiet
<1>5. ~TapOnItsWay
  BY <1>1, <1>4 DEF TapOnItsWay
<1>6. TapSaved /\ (kind = "ORDER" => phone.localOrder = tap)
  BY <1>1, <1>2, <1>5 DEF TapInv
<1>7. answer.draft = tap /\ me.draft = tap
  BY <1>3, <1>4, <1>6 DEF TapSaved, ToldTo
<1>8. QED
  BY <1>1, <1>2, <1>6, <1>7 DEF Shown

------------------------------------------------------------------------------
\* The desk.

Rooms == [stage : Stages, paused : BOOLEAN, game : Int, cursor : Int, attempt : Nat, practice : BOOLEAN,
          tie : BOOLEAN, created : Nat, podium : Int, ceremony : Int, page : Int]

\* A round is on stage from its preparation to its reveal; nothing is paused but a live
\* round, or one that was closed in a pause; a tie-break is never revealed round by round.
RoomOK(r) ==
  /\ r.stage \in {"Ready", "Countdown", "RoundActive", "InputLocked", "Reveal"} => r.attempt # 0
  /\ r.paused => r.stage \in LiveStages \cup {"Closed"}
  /\ r.stage = "Reveal" => ~r.tie

\* What a page offers without a question in a stage that is not paused.
MadeFor(stage, a) ==
  /\ a = "SHOW_INSTRUCTIONS" => stage \in {"Lobby", "Instructions", "GameResults"}
  /\ a = "START_PRACTICE" => stage = "Instructions"
  /\ a = "START_GAME" => stage \in {"Instructions", "Reveal"}
  /\ a = "START_ROUND" => stage = "Ready"
  /\ a = "PAUSE" => stage \in LiveStages
  /\ a = "REVEAL" => stage = "InputLocked"
  /\ a \in {"NEXT_ROUND", "SHOW_GAME_RESULTS"} => stage = "Reveal"
  /\ a \in {"NEXT_GAME", "PODIUM_STEP"} => stage = "GameResults"
  /\ a = "SHOW_FINAL_RESULTS" => stage = "GameResults"
  /\ a = "CEREMONY_STEP" => stage = "TournamentResults"
  /\ a = "STANDINGS_PAGE" => stage \in {"GameResults", "TournamentResults"}
  /\ a \notin {"RESUME", "VOID_ROUND", "START_TIEBREAK", "CLOSE_SESSION"}

\* Where the room can be when a press that was made for stage "from" is late: no round
\* counts down and none is voided before such a press is handled or lost.
Beyond(from, to) ==
  /\ from = "Lobby" => to \in {"Instructions", "Ready", "Countdown", "Closed"}
  /\ from = "Instructions" => to \in {"Ready", "Countdown", "Closed"}
  /\ from = "Ready" => to \in {"Countdown", "Closed"}
  /\ from \in {"Countdown", "RoundActive"} => to # "RoundActive"
  /\ from = "InputLocked" => to \notin {"RoundActive", "InputLocked"}
  /\ from = "Reveal" => to \notin {"RoundActive", "InputLocked", "Reveal"}
  /\ from = "GameResults" => to \in {"Instructions", "Ready", "Countdown", "TournamentResults", "Closed"}
  /\ from # "Closed"

\* A press has the stage and the pause it was made for.
MadeInv(s) ==
  /\ s.press.action \in DOMAIN ALLOWED /\ s.press.arg \in Int
  /\ IF s.asked THEN s.press.action \in {"VOID_ROUND", "START_TIEBREAK"}
     ELSE /\ s.for.stage \in Stages
          /\ IF s.for.paused
             THEN s.press.action = "RESUME" /\ s.for.stage \in LiveStages \cup {"Closed"}
             ELSE MadeFor(s.for.stage, s.press.action)

\* A late press: where the room has gone on to, with no attempt in instructions and final
\* standings; the press that ends a practice may meet the instructions of its own game.
LateInv(s, r) ==
  s.for # Moment(r) /\ s.press.action # "PAUSE" =>
    /\ Beyond(s.for.stage, r.stage)
    /\ s.for.stage \in {"Lobby", "GameResults"} /\ r.stage \in {"Instructions", "TournamentResults"} =>
         r.attempt = 0
    /\ s.for.stage = "Reveal" /\ s.press.action = "START_GAME" =>
         r.stage \in {"Instructions", "Ready", "Countdown", "Closed"} /\ r.game = s.for.game

\* A reveal offers to start the game after its practice, and only then.
FreshInv(s, r) ==
  s.for = Moment(r) /\ s.for.stage = "Reveal" => (s.press.action = "START_GAME" <=> r.practice)

PressInv(s, r) == MadeInv(s) /\ (~s.asked => LateInv(s, r) /\ FreshInv(s, r))

DeskInv ==
  /\ room \in Rooms /\ RoomOK(room)
  /\ IsABag(sent) /\ \A s \in BagToSet(sent) : PressInv(s, room)

\* What becomes of the room by an action the server accepts.
Moves(r, q, a) ==
  /\ a \in {"PAUSE", "PODIUM_STEP", "CEREMONY_STEP", "STANDINGS_PAGE"} =>
       /\ q.stage = r.stage /\ q.attempt = r.attempt /\ q.game = r.game
       /\ q.practice = r.practice /\ q.tie = r.tie
  /\ a \in {"PODIUM_STEP", "CEREMONY_STEP", "STANDINGS_PAGE"} => q.paused = r.paused
  /\ a \in {"SHOW_INSTRUCTIONS", "NEXT_GAME"} => q.stage = "Instructions"
  /\ a = "SHOW_INSTRUCTIONS" /\ r.stage # "Lobby" => q.game = r.game
  /\ a \in {"SHOW_INSTRUCTIONS", "NEXT_GAME", "SHOW_GAME_RESULTS", "SHOW_FINAL_RESULTS"} =>
       q.attempt = 0 /\ q.paused = r.paused
  /\ a \in {"START_PRACTICE", "START_ROUND", "RESUME"} =>
       q.stage = "Countdown" /\ ~q.paused /\ q.game = r.game
  /\ a \in {"START_ROUND", "RESUME"} => q.attempt = r.attempt
  /\ a \in {"START_GAME", "NEXT_ROUND", "START_TIEBREAK"} => q.stage = "Ready"
  /\ a = "VOID_ROUND" => q.stage = IF r.practice THEN "Instructions" ELSE "Ready"
  /\ a \in {"START_GAME", "NEXT_ROUND", "START_TIEBREAK", "VOID_ROUND", "START_PRACTICE"} =>
       ~q.paused /\ q.game = r.game /\ q.attempt # 0
  /\ a = "REVEAL" =>
       /\ q.stage = IF r.tie THEN "TournamentResults" ELSE "Reveal"
       /\ q.attempt = r.attempt /\ q.tie = r.tie /\ q.paused = r.paused
  /\ a = "SHOW_GAME_RESULTS" => q.stage = "GameResults"
  /\ a = "SHOW_FINAL_RESULTS" => q.stage = "TournamentResults" /\ q.game = r.game

\* The stages and the pause in which the server accepts an action.
AcceptedIn(r, a) ==
  /\ a = "SHOW_INSTRUCTIONS" => r.stage \in {"Lobby", "GameResults", "Instructions"}
  /\ a = "START_PRACTICE" => r.stage = "Instructions"
  /\ a = "START_GAME" => r.stage \in {"Instructions", "Reveal"}
  /\ a = "START_ROUND" => r.stage = "Ready"
  /\ a \in {"PAUSE", "RESUME"} => r.stage \in LiveStages
  /\ a = "REVEAL" => r.stage = "InputLocked"
  /\ a \in {"NEXT_ROUND", "SHOW_GAME_RESULTS"} => r.stage = "Reveal"
  /\ a \in {"NEXT_GAME", "PODIUM_STEP"} => r.stage = "GameResults"
  /\ a = "SHOW_FINAL_RESULTS" => r.stage \in {"GameResults", "TournamentResults"}
  /\ a = "VOID_ROUND" => r.stage \in LiveStages \cup {"InputLocked", "Reveal"}
  /\ a \in {"START_TIEBREAK", "CEREMONY_STEP"} => r.stage = "TournamentResults"
  /\ a = "STANDINGS_PAGE" => r.stage \in {"Reveal", "GameResults", "TournamentResults"}
  /\ r.stage # "Closed" /\ a \in DOMAIN ALLOWED

\* The names of the host's actions.
LEMMA ActionNames ==
  DOMAIN ALLOWED =
    {"SHOW_INSTRUCTIONS", "START_PRACTICE", "START_GAME", "START_ROUND", "PAUSE", "RESUME",
     "REVEAL", "NEXT_ROUND", "SHOW_GAME_RESULTS", "NEXT_GAME", "SHOW_FINAL_RESULTS",
     "VOID_ROUND", "START_TIEBREAK", "CEREMONY_STEP", "PODIUM_STEP", "STANDINGS_PAGE",
     "CLOSE_SESSION"}
  BY DEF ALLOWED

\* The table of the server, for what a desk can send.
LEMMA Accepts ==
  ASSUME NEW r \in Rooms, NEW a \in DOMAIN ALLOWED, a # "CLOSE_SESSION", Accepted(r, a)
  PROVE  AcceptedIn(r, a)
<1>1. r.stage \in ALLOWED[a]
  BY DEF Accepted, Allowed, canTransition
<1>2. CASE a \in {"SHOW_INSTRUCTIONS", "START_PRACTICE", "START_GAME", "START_ROUND"}
  BY <1>1, <1>2 DEF AcceptedIn, ALLOWED
<1>3. CASE a \in {"PAUSE", "RESUME", "REVEAL", "NEXT_ROUND", "VOID_ROUND"}
  BY <1>1, <1>3 DEF AcceptedIn, ALLOWED, LiveStages
<1>4. CASE a \in {"SHOW_GAME_RESULTS", "NEXT_GAME", "PODIUM_STEP", "SHOW_FINAL_RESULTS"}
  BY <1>1, <1>4 DEF AcceptedIn, ALLOWED
<1>5. CASE a \in {"START_TIEBREAK", "CEREMONY_STEP", "STANDINGS_PAGE"}
  BY <1>1, <1>5 DEF AcceptedIn, ALLOWED
<1>6. QED
  BY <1>2, <1>3, <1>4, <1>5, ActionNames

\* A step of the podium stays on it.
LEMMA ClampInt == ASSUME NEW n \in Int PROVE Clamp(n) \in Int
  BY DeskAssumption DEF Clamp

\* What the server does with an action it accepts.
LEMMA DispatchMoves ==
  ASSUME NEW r \in Rooms, RoomOK(r), NEW p, p.action \in DOMAIN ALLOWED, p.action # "CLOSE_SESSION",
         p.arg \in Int, Accepted(r, p.action), NEW q, q = Dispatched(r, p)
  PROVE  q \in Rooms /\ RoomOK(q) /\ Moves(r, q, p.action)
<1>1. AcceptedIn(r, p.action)
  BY Accepts
<1>2. /\ canTransition(r, p.action)
      /\ p.action \in {"START_ROUND", "PAUSE", "RESUME", "REVEAL", "VOID_ROUND"} => r.attempt # 0
  BY DEF Accepted, Allowed
<1>3. /\ r.stage \in Stages /\ r.paused \in BOOLEAN /\ r.game \in Int /\ r.cursor \in Int /\ r.attempt \in Nat
      /\ r.practice \in BOOLEAN /\ r.tie \in BOOLEAN /\ r.created \in Nat /\ r.podium \in Int
      /\ r.ceremony \in Int /\ r.page \in Int
  BY DEF Rooms
<1>4. /\ "Instructions" \in Stages /\ "Countdown" \in Stages /\ "Ready" \in Stages /\ "GameResults" \in Stages
      /\ "TournamentResults" \in Stages /\ "Reveal" \in Stages /\ 0 \in Int /\ 0 \in Nat
      /\ TRUE \in BOOLEAN /\ FALSE \in BOOLEAN
  BY DEF Stages
<1>0. PICK k \in Nat \ {0} : k = r.created + 1
  BY <1>3
<1>5. CASE p.action = "SHOW_INSTRUCTIONS"
  <2>0. PICK c \in Int : c = -1
    OBVIOUS
  <2>1. PICK g \in Int : g = IF r.stage = "Lobby" THEN 0 ELSE r.game
    BY <1>3
  <2>2. q = [NoAttempt(r, "Instructions") EXCEPT !.game = g, !.cursor = c]
    <3>1. NoAttempt(r, "Instructions").game = r.game
      BY DEF NoAttempt, Rooms
    <3>2. QED
      BY <1>5, <2>0, <2>1, <3>1 DEF Dispatched
  <2>3. q \in Rooms /\ q.stage = "Instructions" /\ q.attempt = 0 /\ q.paused = r.paused /\ q.game = g
    BY <1>3, <1>4, <2>2, Zenon DEF Rooms, NoAttempt
  <2>4. ~r.paused
    BY <1>2, <1>5 DEF canTransition
  <2>5. QED
    BY <1>5, <2>1, <2>3, <2>4 DEF RoomOK, Moves
<1>6. CASE p.action = "START_PRACTICE"
  <2>1. q = [r EXCEPT !.stage = "Countdown", !.cursor = r.cursor, !.practice = TRUE, !.tie = FALSE,
                    !.paused = FALSE, !.attempt = k, !.created = k]
    BY <1>0, <1>6 DEF Dispatched, Prepared
  <2>2. q \in Rooms /\ q.stage = "Countdown" /\ q.attempt # 0 /\ ~q.paused /\ q.game = r.game
    BY <1>3, <1>4, <2>1, Zenon DEF Rooms
  <2>3. QED
    BY <1>6, <2>2 DEF RoomOK, Moves
<1>7. CASE p.action = "START_GAME"
  <2>1. q = [r EXCEPT !.stage = "Ready", !.cursor = 0, !.practice = FALSE, !.tie = FALSE,
                    !.paused = FALSE, !.attempt = k, !.created = k]
    BY <1>0, <1>7 DEF Dispatched, Prepared
  <2>2. q \in Rooms /\ q.stage = "Ready" /\ q.attempt # 0 /\ ~q.paused /\ q.game = r.game
    BY <1>3, <1>4, <2>1, Zenon DEF Rooms
  <2>3. QED
    BY <1>7, <2>2 DEF RoomOK, Moves
<1>8. CASE p.action = "START_ROUND"
  <2>1. q = [r EXCEPT !.stage = "Countdown", !.paused = FALSE]
    BY <1>8 DEF Dispatched
  <2>2. q \in Rooms /\ q.stage = "Countdown" /\ q.paused = FALSE /\ q.attempt = r.attempt /\ q.game = r.game
    BY <1>4, <2>1 DEF Rooms
  <2>3. QED
    BY <1>2, <1>8, <2>2 DEF RoomOK, Moves
<1>9. CASE p.action = "PAUSE"
  <2>1. q = [r EXCEPT !.paused = TRUE]
    BY <1>9 DEF Dispatched
  <2>2. /\ q \in Rooms /\ q.stage = r.stage /\ q.attempt = r.attempt /\ q.game = r.game
        /\ q.practice = r.practice /\ q.tie = r.tie
    BY <2>1 DEF Rooms
  <2>3. QED
    BY <1>1, <1>2, <1>9, <2>2 DEF RoomOK, Moves, AcceptedIn
<1>10. CASE p.action = "RESUME"
  <2>1. q = [r EXCEPT !.paused = FALSE, !.stage = "Countdown"]
    BY <1>10 DEF Dispatched
  <2>2. q \in Rooms /\ q.stage = "Countdown" /\ q.paused = FALSE /\ q.attempt = r.attempt /\ q.game = r.game
    BY <1>4, <2>1 DEF Rooms
  <2>3. QED
    BY <1>2, <1>10, <2>2 DEF RoomOK, Moves
<1>11. CASE p.action = "REVEAL"
  <2>1. PICK st \in Stages : st = IF r.tie THEN "TournamentResults" ELSE "Reveal"
    BY <1>4
  <2>2. q = [r EXCEPT !.stage = st]
    BY <1>11, <2>1 DEF Dispatched
  <2>3. q \in Rooms /\ q.stage = st /\ q.paused = r.paused /\ q.attempt = r.attempt /\ q.tie = r.tie
    BY <2>2 DEF Rooms
  <2>4. ~r.paused
    BY <1>2, <1>11 DEF canTransition
  <2>5. QED
    BY <1>2, <1>11, <2>1, <2>3, <2>4 DEF RoomOK, Moves
<1>12. CASE p.action = "NEXT_ROUND"
  <2>1. PICK d \in Int : d = NextCursor(r)
    BY <1>3 DEF NextCursor
  <2>2. q = [r EXCEPT !.stage = "Ready", !.cursor = d, !.practice = FALSE, !.tie = FALSE,
                    !.paused = FALSE, !.attempt = k, !.created = k]
    BY <1>0, <1>12, <2>1 DEF Dispatched, Prepared
  <2>3. q \in Rooms /\ q.stage = "Ready" /\ q.attempt # 0 /\ ~q.paused /\ q.game = r.game
    BY <1>3, <1>4, <2>2, Zenon DEF Rooms
  <2>4. QED
    BY <1>12, <2>3 DEF RoomOK, Moves
<1>13. CASE p.action = "SHOW_GAME_RESULTS"
  <2>1. q = [NoAttempt(r, "GameResults") EXCEPT !.podium = 0, !.page = 0]
    BY <1>13 DEF Dispatched
  <2>3. q \in Rooms /\ q.stage = "GameResults" /\ q.attempt = 0 /\ q.paused = r.paused
    BY <1>3, <1>4, <2>1, Zenon DEF Rooms, NoAttempt
  <2>4. ~r.paused
    BY <1>2, <1>13 DEF canTransition
  <2>5. QED
    BY <1>13, <2>3, <2>4 DEF RoomOK, Moves
<1>14. CASE p.action = "PODIUM_STEP"
  <2>1. PICK n \in Int : n = Clamp(p.arg)
    BY ClampInt
  <2>2. q = [r EXCEPT !.podium = n]
    BY <1>14, <2>1 DEF Dispatched
  <2>3. QED
    BY <1>14, <2>2 DEF Rooms, RoomOK, Moves
<1>15. CASE p.action = "NEXT_GAME"
  <2>0. PICK c \in Int : c = -1
    OBVIOUS
  <2>1. PICK g \in Int : g = r.game + 1
    BY <1>3
  <2>2. q = [NoAttempt(r, "Instructions") EXCEPT !.game = g, !.cursor = c]
    <3>1. NoAttempt(r, "Instructions").game = r.game
      BY DEF NoAttempt, Rooms
    <3>2. QED
      BY <1>15, <2>0, <2>1, <3>1 DEF Dispatched
  <2>3. q \in Rooms /\ q.stage = "Instructions" /\ q.attempt = 0 /\ q.paused = r.paused
    BY <1>3, <1>4, <2>2, Zenon DEF Rooms, NoAttempt
  <2>4. ~r.paused
    BY <1>2, <1>15 DEF canTransition
  <2>5. QED
    BY <1>15, <2>3, <2>4 DEF RoomOK, Moves
<1>16. CASE p.action = "SHOW_FINAL_RESULTS"
  <2>1. q = [NoAttempt(r, "TournamentResults") EXCEPT !.ceremony = 0, !.page = 0]
    BY <1>16 DEF Dispatched
  <2>3. q \in Rooms /\ q.stage = "TournamentResults" /\ q.attempt = 0 /\ q.paused = r.paused /\ q.game = r.game
    BY <1>3, <1>4, <2>1, Zenon DEF Rooms, NoAttempt
  <2>4. ~r.paused
    BY <1>2, <1>16 DEF canTransition
  <2>5. QED
    BY <1>16, <2>3, <2>4 DEF RoomOK, Moves
<1>17. CASE p.action = "CEREMONY_STEP"
  <2>1. PICK n \in Int : n = Clamp(p.arg)
    BY ClampInt
  <2>2. q = [r EXCEPT !.ceremony = n]
    BY <1>17, <2>1 DEF Dispatched
  <2>3. QED
    BY <1>17, <2>2 DEF Rooms, RoomOK, Moves
<1>18. CASE p.action = "STANDINGS_PAGE"
  <2>1. q = [r EXCEPT !.page = p.arg]
    BY <1>18 DEF Dispatched
  <2>2. QED
    BY <1>18, <2>1 DEF Rooms, RoomOK, Moves
<1>19. CASE p.action = "VOID_ROUND"
  <2>1. PICK st \in Stages : st = IF r.practice THEN "Instructions" ELSE "Ready"
    BY <1>4
  <2>2. q = [r EXCEPT !.stage = st, !.cursor = r.cursor, !.practice = r.practice, !.tie = r.tie,
                    !.paused = FALSE, !.attempt = k, !.created = k]
    BY <1>0, <1>19, <2>1 DEF Dispatched, Prepared
  <2>3. q \in Rooms /\ q.stage = st /\ q.attempt # 0 /\ ~q.paused /\ q.game = r.game
    BY <1>3, <1>4, <2>2, Zenon DEF Rooms
  <2>4. QED
    BY <1>19, <2>1, <2>3 DEF RoomOK, Moves
<1>20. CASE p.action = "START_TIEBREAK"
  <2>1. q = [r EXCEPT !.stage = "Ready", !.cursor = r.cursor, !.practice = FALSE, !.tie = TRUE,
                    !.paused = FALSE, !.attempt = k, !.created = k]
    BY <1>0, <1>20 DEF Dispatched, Prepared
  <2>2. q \in Rooms /\ q.stage = "Ready" /\ q.attempt # 0 /\ ~q.paused /\ q.game = r.game
    BY <1>3, <1>4, <2>1, Zenon DEF Rooms
  <2>3. QED
    BY <1>20, <2>2 DEF RoomOK, Moves
<1>21. QED
  BY <1>5, <1>6, <1>7, <1>8, <1>9, <1>10, <1>11, <1>12, <1>13, <1>14, <1>15, <1>16, <1>17, <1>18,
     <1>19, <1>20, ActionNames

\* A press that was made for a reveal knows no other action than those offered there.
LEMMA MadeForReveal ==
  ASSUME NEW s, MadeInv(s), ~s.asked, s.for.stage \in {"Reveal", "Lobby", "Instructions", "Ready", "GameResults"}
  PROVE  s.press.action # "PAUSE" /\ ~s.for.paused
  BY DEF MadeInv, MadeFor, LiveStages

\* A press under way goes on with the room, whatever the server does with another one.
LEMMA PressGoesOn ==
  ASSUME NEW r \in Rooms, NEW q \in Rooms, RoomOK(r), NEW a, AcceptedIn(r, a), a # "CLOSE_SESSION", Moves(r, q, a),
         a = "PAUSE" => ~r.paused, NEW s, PressInv(s, r), a = "VOID_ROUND" => s.asked \/ s.for = Moment(r),
         a = "SHOW_GAME_RESULTS" => ~r.practice
  PROVE  PressInv(s, q)
<1>1. SUFFICES ASSUME ~s.asked PROVE LateInv(s, q) /\ FreshInv(s, q)
  BY DEF PressInv
<1>2. MadeInv(s) /\ LateInv(s, r) /\ FreshInv(s, r)
  BY <1>1 DEF PressInv
<1>3. /\ Moment(r).stage = r.stage /\ Moment(r).paused = r.paused /\ Moment(r).game = r.game
      /\ Moment(q).stage = q.stage /\ Moment(q).paused = q.paused /\ Moment(q).game = q.game
  BY DEF Moment
<1>4. r.stage \in Stages /\ q.stage \in Stages /\ r.paused \in BOOLEAN /\ q.paused \in BOOLEAN
  BY DEF Rooms
<1>5. ASSUME q.stage = r.stage, q.attempt = r.attempt, q.game = r.game, q.paused = r.paused,
             q.practice = r.practice
      PROVE  LateInv(s, q) /\ FreshInv(s, q)
  <2>1. Moment(q) = Moment(r)
    BY <1>5 DEF Moment
  <2>2. QED
    BY <1>2, <1>5, <2>1 DEF LateInv, FreshInv
<1>6. CASE a \in {"PODIUM_STEP", "CEREMONY_STEP", "STANDINGS_PAGE"}
  BY <1>5, <1>6 DEF Moves
<1>7. SUFFICES ASSUME a \notin {"PODIUM_STEP", "CEREMONY_STEP", "STANDINGS_PAGE"}
               PROVE  LateInv(s, q) /\ FreshInv(s, q)
  BY <1>6
<1>8. a \in {"SHOW_INSTRUCTIONS", "START_PRACTICE", "START_GAME", "START_ROUND", "PAUSE", "RESUME",
             "REVEAL", "NEXT_ROUND", "SHOW_GAME_RESULTS", "NEXT_GAME", "SHOW_FINAL_RESULTS",
             "VOID_ROUND", "START_TIEBREAK"}
  BY <1>7, ActionNames DEF AcceptedIn
<1>9. FreshInv(s, q)
  <2>1. SUFFICES ASSUME s.for = Moment(q), s.for.stage = "Reveal" PROVE FALSE
    BY DEF FreshInv
  <2>2. a = "REVEAL" /\ r.stage = "InputLocked"
    BY <1>3, <1>8, <2>1 DEF Moves, AcceptedIn, LiveStages
  <2>3. s.for # Moment(r)
    BY <1>3, <2>1, <2>2
  <2>4. QED
    BY <1>1, <1>2, <2>1, <2>2, <2>3, MadeForReveal DEF LateInv, Beyond
<1>10. ASSUME s.for # Moment(q), s.press.action # "PAUSE" PROVE Beyond(s.for.stage, q.stage)
  <2>1. CASE s.for # Moment(r)
    <3>1. Beyond(s.for.stage, r.stage)
      BY <1>2, <1>10, <2>1 DEF LateInv
    <3>2. a # "VOID_ROUND"
      BY <1>1, <2>1
    <3>3. CASE a \in {"START_PRACTICE", "START_GAME", "START_ROUND", "RESUME", "NEXT_ROUND", "START_TIEBREAK"}
      BY <3>1, <3>3 DEF Beyond, Moves, AcceptedIn, LiveStages
    <3>4. CASE a \in {"SHOW_INSTRUCTIONS", "SHOW_GAME_RESULTS", "NEXT_GAME", "SHOW_FINAL_RESULTS", "PAUSE"}
      BY <3>1, <3>4 DEF Beyond, Moves, AcceptedIn, LiveStages
    <3>5. CASE a = "REVEAL"
      BY <3>1, <3>5 DEF Beyond, Moves, AcceptedIn, LiveStages
    <3>6. QED
      BY <1>8, <3>2, <3>3, <3>4, <3>5
  <2>2. CASE s.for = Moment(r)
    <3>1. s.for.stage = r.stage /\ s.for.paused = r.paused
      BY <1>3, <2>2
    <3>2. r.stage # "Closed"
      BY DEF AcceptedIn
    <3>3. IF r.paused THEN s.press.action = "RESUME" /\ r.stage \in LiveStages
          ELSE MadeFor(r.stage, s.press.action)
      BY <1>1, <1>2, <3>1, <3>2 DEF MadeInv
    <3>4. a # "PAUSE"
      <4>1. SUFFICES ASSUME a = "PAUSE" PROVE FALSE
        OBVIOUS
      <4>2. ~r.paused /\ r.stage \in LiveStages
        BY <4>1 DEF AcceptedIn
      <4>3. QED
        BY <1>2, <1>1, <1>10, <3>3, <4>2, ActionNames DEF MadeFor, LiveStages, MadeInv
    <3>5. CASE a \in {"START_PRACTICE", "START_GAME", "START_ROUND", "RESUME", "NEXT_ROUND", "START_TIEBREAK"}
      <4>1. CASE r.stage = "Instructions"
        BY <3>1, <3>5, <4>1 DEF Beyond, Moves, AcceptedIn, LiveStages
      <4>2. QED
        BY <1>4, <3>1, <3>2, <3>5, <4>1 DEF Beyond, Moves, AcceptedIn, LiveStages
    <3>6. CASE a \in {"SHOW_GAME_RESULTS", "NEXT_GAME", "VOID_ROUND", "REVEAL"}
      BY <3>1, <3>6 DEF Beyond, Moves, AcceptedIn, LiveStages
    <3>7. CASE a \in {"SHOW_INSTRUCTIONS", "SHOW_FINAL_RESULTS"}
      <4>1. CASE r.stage = q.stage
        BY <3>1, <3>2, <4>1, <1>3, <1>10, <2>2, <3>7 DEF Beyond, Moves, AcceptedIn, Moment
      <4>2. QED
        BY <3>1, <3>7, <4>1 DEF Beyond, Moves, AcceptedIn
    <3>8. QED
      BY <1>8, <3>4, <3>5, <3>6, <3>7
  <2>3. QED
    BY <2>1, <2>2
<1>11. ASSUME s.for # Moment(q), s.press.action # "PAUSE",
              s.for.stage \in {"Lobby", "GameResults"}, q.stage \in {"Instructions", "TournamentResults"}
       PROVE  q.attempt = 0
  <2>1. CASE a \in {"SHOW_INSTRUCTIONS", "NEXT_GAME", "SHOW_FINAL_RESULTS"}
    BY <2>1 DEF Moves
  <2>2. SUFFICES ASSUME a \in {"REVEAL", "VOID_ROUND"} PROVE FALSE
    BY <1>8, <1>11, <2>1 DEF Moves, AcceptedIn, LiveStages
  <2>3. s.for # Moment(r)
    BY <1>3, <1>11, <2>2 DEF AcceptedIn, LiveStages
  <2>4. a = "REVEAL" /\ r.stage = "InputLocked"
    BY <1>1, <2>2, <2>3 DEF AcceptedIn
  <2>5. QED
    BY <1>2, <1>11, <2>3, <2>4 DEF LateInv, Beyond
<1>12. ASSUME s.for # Moment(q), s.for.stage = "Reveal", s.press.action = "START_GAME"
       PROVE  q.stage \in {"Instructions", "Ready", "Countdown", "Closed"} /\ q.game = s.for.game
  <2>1. CASE s.for = Moment(r)
    <3>1. r.stage = "Reveal" /\ r.practice /\ r.game = s.for.game
      BY <1>2, <1>3, <1>12, <2>1 DEF FreshInv
    <3>2. a \in {"START_GAME", "NEXT_ROUND", "VOID_ROUND"}
      BY <1>8, <3>1 DEF AcceptedIn, LiveStages
    <3>3. QED
      BY <3>1, <3>2 DEF Moves
  <2>2. CASE s.for # Moment(r)
    <3>1. r.stage \in {"Instructions", "Ready", "Countdown", "Closed"} /\ r.game = s.for.game
      BY <1>2, <1>12, <2>2 DEF LateInv
    <3>2. a \in {"SHOW_INSTRUCTIONS", "START_PRACTICE", "START_GAME", "START_ROUND", "PAUSE", "RESUME"}
      BY <1>1, <1>8, <2>2, <3>1 DEF AcceptedIn
    <3>3. QED
      BY <3>1, <3>2 DEF Moves
  <2>3. QED
    BY <2>1, <2>2
<1>13. QED
  BY <1>9, <1>10, <1>11, <1>12 DEF LateInv

\* So it does when the round ends, when the countdown ends with no late press under way,
\* and when the session is closed.
LEMMA PressOutlivesRound ==
  ASSUME NEW r \in Rooms, RoomOK(r), NEW s, PressInv(s, r), NEW st, NEW q, q = [r EXCEPT !.stage = st],
         \/ r.stage = "RoundActive" /\ ~r.paused /\ st = "InputLocked"
         \/ r.stage = "Countdown" /\ ~r.paused /\ st = "RoundActive" /\ (s.asked \/ s.for = Moment(r))
         \/ r.stage # "Closed" /\ st = "Closed"
  PROVE  q \in Rooms /\ RoomOK(q) /\ PressInv(s, q)
<1>1. st \in Stages
  BY DEF Stages
<1>2. /\ q \in Rooms /\ q.stage = st
      /\ q.attempt = r.attempt /\ q.game = r.game /\ q.paused = r.paused /\ q.practice = r.practice
      /\ q.tie = r.tie
  BY <1>1 DEF Rooms
<1>3. RoomOK(q)
  BY <1>2 DEF RoomOK, LiveStages
<1>4. SUFFICES ASSUME ~s.asked PROVE LateInv(s, q) /\ FreshInv(s, q)
  BY <1>2, <1>3 DEF PressInv
<1>5. MadeInv(s) /\ LateInv(s, r)
  BY <1>4 DEF PressInv
<1>6. /\ Moment(r).stage = r.stage /\ Moment(r).paused = r.paused
      /\ Moment(q).stage = q.stage
  BY DEF Moment
<1>7. FreshInv(s, q)
  BY <1>2, <1>6 DEF FreshInv
<1>8. SUFFICES ASSUME s.for # Moment(q), s.press.action # "PAUSE" PROVE LateInv(s, q)
  BY <1>7 DEF LateInv
<1>9. CASE s.for # Moment(r)
  BY <1>2, <1>4, <1>5, <1>9 DEF LateInv, Beyond
<1>10. CASE s.for = Moment(r)
  <2>1. s.for.stage = r.stage /\ s.for.paused = r.paused
    BY <1>6, <1>10
  <2>2. s.for.stage # "Reveal" \/ st = "Closed"
    BY <2>1
  <2>3. CASE st = "Closed"
    <3>1. r.stage # "Closed" /\ r.game = s.for.game
      BY <1>10, <2>3 DEF Moment
    <3>2. QED
      BY <1>2, <2>1, <2>3, <3>1 DEF LateInv, Beyond
  <2>4. CASE st # "Closed"
    <3>1. r.stage \in LiveStages /\ ~r.paused
      BY <2>4 DEF LiveStages
    <3>2. MadeFor(r.stage, s.press.action)
      BY <1>4, <1>5, <2>1, <3>1 DEF MadeInv
    <3>3. QED
      BY <1>5, <1>8, <3>1, <3>2, ActionNames DEF MadeFor, MadeInv, LiveStages
  <2>5. QED
    BY <2>3, <2>4
<1>11. QED
  BY <1>9, <1>10

\* Presses are sent one by one and taken one by one, and no other copy goes with them.
LEMMA BagTakesIn ==
  ASSUME NEW bag, IsABag(bag), NEW x
  PROVE  LET more == bag (+) SetToBag({x}) IN
         IsABag(more) /\ \A s \in BagToSet(more) : s \in BagToSet(bag) \/ s = x
<1> DEFINE more == bag (+) SetToBag({x})
<1>1. more = [e \in (DOMAIN bag) \cup {x} |->
                (IF e \in DOMAIN bag THEN bag[e] ELSE 0) + (IF e \in {x} THEN 1 ELSE 0)]
  BY DEF (+), SetToBag
<1>2. DOMAIN more = (DOMAIN bag) \cup {x}
  BY <1>1
<1>3. ASSUME NEW e \in DOMAIN more PROVE more[e] \in {n \in Nat : n > 0}
  <2>1. e \in DOMAIN bag => bag[e] \in Nat /\ bag[e] > 0
    BY DEF IsABag
  <2>2. more[e] = (IF e \in DOMAIN bag THEN bag[e] ELSE 0) + (IF e \in {x} THEN 1 ELSE 0)
    BY <1>1, <1>2, <1>3
  <2>3. QED
    BY <1>2, <1>3, <2>1, <2>2
<1>4. QED
  BY <1>1, <1>2, <1>3 DEF IsABag, BagToSet

LEMMA BagGivesOne ==
  ASSUME NEW bag, IsABag(bag), NEW x
  PROVE  LET less == bag (-) SetToBag({x}) IN
         /\ IsABag(less) /\ BagToSet(less) \subseteq BagToSet(bag)
         /\ \A s \in BagToSet(bag) : s # x => ~(Copies(s, less) < Copies(s, bag))
<1> DEFINE B == [e \in DOMAIN bag |-> IF e \in {x} THEN bag[e] - 1 ELSE bag[e]]
           less == bag (-) SetToBag({x})
<1>1. less = [e \in {d \in DOMAIN bag : B[d] > 0} |-> B[e]]
  <2>1. B = [e \in DOMAIN bag |-> IF e \in DOMAIN SetToBag({x}) THEN bag[e] - SetToBag({x})[e] ELSE bag[e]]
    BY DEF SetToBag
  <2>2. DOMAIN B = DOMAIN bag
    OBVIOUS
  <2> HIDE DEF B
  <2>3. QED
    BY <2>1, <2>2 DEF (-)
<1>2. \A e \in DOMAIN bag : bag[e] \in Nat /\ bag[e] > 0
  BY DEF IsABag
<1>3. \A e \in DOMAIN bag : B[e] \in Int /\ (e # x => B[e] = bag[e])
  BY <1>2
<1> HIDE DEF B, less
<1>4. DOMAIN less = {d \in DOMAIN bag : B[d] > 0} /\ \A e \in DOMAIN less : less[e] = B[e]
  BY <1>1
<1>5. IsABag(less)
  <2>1. \A e \in DOMAIN less : less[e] \in {n \in Nat : n > 0}
    BY <1>3, <1>4
  <2>2. less = [e \in DOMAIN less |-> less[e]]
    BY <1>1, <1>4
  <2>3. QED
    BY <2>1, <2>2 DEF IsABag
<1>6. ASSUME NEW s \in BagToSet(bag), s # x PROVE ~(Copies(s, less) < Copies(s, bag))
  <2>1. bag[s] \in Nat /\ bag[s] > 0 /\ B[s] = bag[s]
    BY <1>2, <1>3, <1>6 DEF BagToSet
  <2>2. s \in DOMAIN less /\ less[s] = bag[s]
    BY <1>4, <1>6, <2>1 DEF BagToSet
  <2>3. Copies(s, less) = bag[s] /\ Copies(s, bag) = bag[s]
    BY <1>6, <2>2 DEF Copies, BagIn, BagToSet
  <2>4. QED
    BY <2>1, <2>3
<1>7. QED
  BY <1>4, <1>5, <1>6 DEF BagToSet, less

\* A press that a page makes is one of what it offers in that stage.
LEMMA PressIsMade ==
  ASSUME NEW r \in Rooms, RoomOK(r), NEW p \in Presses(r)
  PROVE  /\ p.action \in DOMAIN ALLOWED /\ p.arg \in Int
         /\ IF r.paused THEN p.action = "RESUME" /\ r.stage \in LiveStages \cup {"Closed"}
            ELSE MadeFor(r.stage, p.action)
         /\ r.stage = "Reveal" => (p.action = "START_GAME" <=> r.practice)
<1>1. PICK a : a = primaryActionFor(r)
  OBVIOUS
<1>2. /\ r.stage \in Stages /\ r.paused \in BOOLEAN /\ r.podium \in Int /\ r.ceremony \in Int /\ r.page \in Int
      /\ r.practice \in BOOLEAN
  BY DEF Rooms
<1>3. LastStep \in Nat
  BY DeskAssumption
<1>4. r.paused => r.stage \in LiveStages \cup {"Closed"}
  BY DEF RoomOK
<1>5. r.stage = "Reveal" => ~r.paused
  BY <1>4 DEF LiveStages
<1>6. CASE a # "NONE" /\ p = PrimaryPress(r)
  <2>1. p.action = a /\ p.arg \in Int
    <3>1. nextStepFor(r) \in Int
      BY <1>2, <1>3 DEF nextStepFor, Step
    <3>2. QED
      BY <1>1, <1>6, <3>1 DEF PrimaryPress, Plain
  <2>2. CASE r.paused
    BY <1>1, <1>4, <1>5, <2>1, <2>2, ActionNames DEF primaryActionFor
  <2>3. CASE ~r.paused
    <3>1. /\ r.stage = "Lobby" => a = "SHOW_INSTRUCTIONS"
          /\ r.stage = "Instructions" => a = "START_PRACTICE"
          /\ r.stage = "Ready" => a = "START_ROUND"
          /\ r.stage = "InputLocked" => a = "REVEAL"
          /\ r.stage = "Reveal" => IF r.practice THEN a = "START_GAME" ELSE a \in {"SHOW_GAME_RESULTS", "NEXT_ROUND"}
          /\ r.stage = "GameResults" => a \in {"PODIUM_STEP", "SHOW_FINAL_RESULTS", "NEXT_GAME"}
          /\ r.stage = "TournamentResults" => a \in {"CEREMONY_STEP", "NONE"}
          /\ r.stage \in {"Countdown", "RoundActive", "Closed"} => a = "NONE"
      BY <1>1, <2>3 DEF primaryActionFor
    <3>2. QED
      BY <1>2, <1>6, <2>1, <2>3, <3>1, ActionNames DEF MadeFor, Stages
  <2>4. QED
    BY <1>2, <2>2, <2>3
<1>7. CASE \E b \in secondaryActionsFor(r) \cup pauseActionFor(r) : p = Plain(b)
  <2>1. PICK b \in secondaryActionsFor(r) \cup pauseActionFor(r) : p = Plain(b)
    BY <1>7
  <2>2. p.action = b /\ p.arg = 0
    BY <2>1 DEF Plain
  <2>3. CASE b \in pauseActionFor(r)
    BY <1>5, <2>2, <2>3, ActionNames DEF pauseActionFor, Live, MadeFor, LiveStages
  <2>4. CASE b \in secondaryActionsFor(r)
    <3>1. ~r.paused /\ r.stage \in DOMAIN BY_STATE(r) /\ b \in BY_STATE(r)[r.stage]
      BY <2>4 DEF secondaryActionsFor
    <3>2. r.stage \in {"Lobby", "Instructions", "Ready", "InputLocked", "Reveal", "GameResults"}
      BY <3>1 DEF BY_STATE
    <3>3. CASE r.stage \in {"Lobby", "Instructions", "Ready", "InputLocked", "GameResults"}
      BY <2>2, <3>1, <3>3, ActionNames DEF MadeFor, BY_STATE
    <3>4. CASE r.stage = "Reveal"
      <4>1. IF r.practice THEN b = "START_GAME" ELSE b \in {"SHOW_GAME_RESULTS", "NEXT_ROUND"}
        BY <3>1, <3>4 DEF BY_STATE
      <4>2. QED
        BY <2>2, <3>1, <3>4, <4>1, ActionNames DEF MadeFor
    <3>5. QED
      BY <3>2, <3>3, <3>4
  <2>5. QED
    BY <2>1, <2>3, <2>4
<1>8. CASE p \in StepperPresses(r)
  <2>1. OnResults(r) /\ p.action = StepAction(r) /\ p.arg \in Int
    BY <1>3, <1>8 DEF StepperPresses
  <2>2. QED
    BY <1>4, <2>1, ActionNames DEF OnResults, StepAction, MadeFor, LiveStages
<1>9. CASE p \in PagerPresses(r)
  <2>1. OnResults(r) /\ p.action = "STANDINGS_PAGE" /\ p.arg \in Int
    BY <1>2, <1>9 DEF PagerPresses, showPager
  <2>2. QED
    BY <1>4, <2>1, ActionNames DEF OnResults, MadeFor, LiveStages
<1>10. QED
  BY <1>1, <1>6, <1>7, <1>8, <1>9 DEF Presses

\* The next press of the desk is accepted by the server, which derives the same from its rooms.
LEMMA PrimaryIsAccepted == ASSUME DeskInv PROVE PrimaryAccepted
<1>1. SUFFICES ASSUME room.stage # "Closed", primaryActionFor(room) # "NONE"
               PROVE  Allowed(room, primaryActionFor(room))
  BY DEF PrimaryAccepted
<1>2. PICK r \in Rooms : r = room
  BY DEF DeskInv
<1>3. PICK a : a = primaryActionFor(r)
  OBVIOUS
<1>4. /\ RoomOK(r) /\ r.stage # "Closed" /\ a # "NONE"
      /\ r.stage \in Stages /\ r.paused \in BOOLEAN /\ r.attempt \in Nat /\ r.game \in Int /\ r.cursor \in Int
      /\ r.practice \in BOOLEAN
  BY <1>1, <1>2, <1>3 DEF DeskInv, Rooms
<1>5. GameCount \in Nat /\ RoundCount \in Nat \ {0}
  BY DeskAssumption
<1>6. SUFFICES Allowed(r, a)
  BY <1>2, <1>3
<1>7. CASE r.paused
  <2>1. a = "RESUME" /\ r.stage \in LiveStages /\ r.attempt # 0
    BY <1>3, <1>4, <1>7 DEF primaryActionFor, RoomOK, LiveStages
  <2>2. r.stage \in ALLOWED[a]
    BY <2>1 DEF ALLOWED
  <2>3. QED
    BY <1>7, <2>1, <2>2 DEF Allowed, canTransition
<1>8. CASE ~r.paused
  <2>1. CASE r.stage \in {"Lobby", "Instructions", "Ready", "InputLocked", "TournamentResults"}
    <3>1. /\ r.stage = "Lobby" => a = "SHOW_INSTRUCTIONS"
          /\ r.stage = "Instructions" => a = "START_PRACTICE"
          /\ r.stage = "Ready" => a = "START_ROUND"
          /\ r.stage = "InputLocked" => a = "REVEAL"
          /\ r.stage = "TournamentResults" => a = "CEREMONY_STEP"
      BY <1>3, <1>4, <1>8 DEF primaryActionFor
    <3>2. r.stage \in ALLOWED[a]
      BY <2>1, <3>1 DEF ALLOWED
    <3>3. a \in {"START_ROUND", "REVEAL"} => r.attempt # 0
      BY <1>4, <2>1, <3>1 DEF RoomOK
    <3>4. QED
      BY <1>8, <2>1, <3>1, <3>2, <3>3 DEF Allowed, canTransition
  <2>2. CASE r.stage = "Reveal"
    <3>1. IF r.practice THEN a = "START_GAME"
          ELSE IF roundNumber(r) >= RoundCount THEN a = "SHOW_GAME_RESULTS" ELSE a = "NEXT_ROUND"
      BY <1>3, <1>8, <2>2 DEF primaryActionFor
    <3>2. a = "NEXT_ROUND" => ~r.practice /\ r.cursor + 1 < RoundCount
      BY <1>4, <1>5, <2>2, <3>1 DEF RoomOK, roundNumber
    <3>3. r.stage \in ALLOWED[a]
      BY <2>2, <3>1 DEF ALLOWED
    <3>4. QED
      BY <1>4, <1>8, <2>2, <3>1, <3>2, <3>3 DEF Allowed, canTransition, NextCursor
  <2>3. CASE r.stage = "GameResults"
    <3>1. IF r.podium < LastStep THEN a = "PODIUM_STEP"
          ELSE IF LastGame(r) THEN a = "SHOW_FINAL_RESULTS" ELSE a = "NEXT_GAME"
      BY <1>3, <1>8, <2>3 DEF primaryActionFor
    <3>2. a = "NEXT_GAME" => r.game + 1 < GameCount
      BY <1>4, <1>5, <3>1 DEF LastGame
    <3>3. r.stage \in ALLOWED[a]
      BY <2>3, <3>1 DEF ALLOWED
    <3>4. QED
      BY <1>4, <1>8, <2>3, <3>1, <3>2, <3>3 DEF Allowed, canTransition
  <2>4. r.stage \notin {"Countdown", "RoundActive"}
    BY <1>3, <1>4, <1>8 DEF primaryActionFor
  <2>5. QED
    BY <1>4, <2>1, <2>2, <2>3, <2>4 DEF Stages
<1>9. QED
  BY <1>4, <1>7, <1>8

LEMMA DeskStart == DeskInit => DeskInv
<1> SUFFICES ASSUME DeskInit PROVE DeskInv
  OBVIOUS
<1>1. room \in Rooms /\ RoomOK(room)
  BY DEF DeskInit, Rooms, RoomOK, Stages
<1>2. DOMAIN sent = {}
  BY DEF DeskInit, EmptyBag, SetToBag
<1>3. IsABag(sent)
  BY DEF DeskInit, EmptyBag, SetToBag, IsABag
<1>4. QED
  BY <1>1, <1>2, <1>3 DEF DeskInv, BagToSet

\* A press that the server accepts moves the room in its way, and never from a practice to
\* the results of the game.
LEMMA HandledMove ==
  ASSUME DeskInv, NEW s \in BagToSet(sent), Accepted(room, s.press.action),
         NEW q, q = Dispatched(room, s.press)
  PROVE  /\ q \in Rooms /\ RoomOK(q)
         /\ AcceptedIn(room, s.press.action) /\ s.press.action # "CLOSE_SESSION"
         /\ Moves(room, q, s.press.action)
         /\ s.press.action = "PAUSE" => ~room.paused
         /\ s.press.action = "SHOW_GAME_RESULTS" => ~room.practice
<1>1. PressInv(s, room) /\ MadeInv(s) /\ room \in Rooms /\ RoomOK(room)
  BY DEF DeskInv, PressInv
<1>2. s.press.action \in DOMAIN ALLOWED /\ s.press.arg \in Int /\ s.press.action # "CLOSE_SESSION"
  BY <1>1 DEF MadeInv, MadeFor
<1>3. q \in Rooms /\ RoomOK(q) /\ Moves(room, q, s.press.action)
  BY <1>1, <1>2, DispatchMoves
<1>4. AcceptedIn(room, s.press.action)
  BY <1>1, <1>2, Accepts
<1>5. s.press.action = "PAUSE" => ~room.paused
  BY DEF Accepted, Allowed, canTransition
<1>6. ASSUME s.press.action = "SHOW_GAME_RESULTS" PROVE ~room.practice
  <2>1. ~s.asked /\ s.for.stage = "Reveal"
    BY <1>1, <1>6 DEF MadeInv, MadeFor
  <2>2. room.stage = "Reveal"
    BY <1>4, <1>6 DEF AcceptedIn
  <2>3. LateInv(s, room) /\ FreshInv(s, room)
    BY <1>1, <2>1 DEF PressInv
  <2>4. s.for = Moment(room)
    BY <1>6, <2>1, <2>2, <2>3 DEF LateInv, Beyond
  <2>5. QED
    BY <1>6, <2>1, <2>3, <2>4 DEF FreshInv
<1>7. QED
  BY <1>2, <1>3, <1>4, <1>5, <1>6

\* No step of the desks breaks the invariant.
LEMMA DeskStep == ASSUME DeskInv, DeskNext \/ UNCHANGED deskVars PROVE DeskInv'
<1>1. /\ room \in Rooms /\ RoomOK(room) /\ IsABag(sent)
      /\ \A s \in BagToSet(sent) : PressInv(s, room)
  BY DEF DeskInv
<1>2. ASSUME UNCHANGED room, IsABag(sent'), \A s \in BagToSet(sent') : PressInv(s, room) PROVE DeskInv'
  BY <1>1, <1>2 DEF DeskInv
<1>3. ASSUME UNCHANGED sent, NEW q, q = room', q \in Rooms, RoomOK(q), \A s \in BagToSet(sent) : PressInv(s, q)
      PROVE  DeskInv'
  BY <1>1, <1>3 DEF DeskInv
<1>4. CASE UNCHANGED deskVars
  BY <1>1, <1>2, <1>4 DEF deskVars
<1>5. ASSUME NEW p, NEW asked, Send(p, asked),
             p.action \in DOMAIN ALLOWED /\ p.arg \in Int,
             IF asked THEN p.action \in {"VOID_ROUND", "START_TIEBREAK"} ELSE p \in Presses(room)
      PROVE  DeskInv'
  <2>1. PICK x : x = [press |-> p, for |-> Moment(room), asked |-> asked]
    OBVIOUS
  <2>2. x.press = p /\ x.for = Moment(room) /\ x.asked = asked
    BY <2>1
  <2>3. Moment(room).stage = room.stage /\ Moment(room).paused = room.paused
    BY DEF Moment
  <2>4. MadeInv(x)
    <3>1. CASE asked
      BY <1>5, <2>2, <3>1 DEF MadeInv
    <3>2. CASE ~asked
      <4>1. IF room.paused THEN p.action = "RESUME" /\ room.stage \in LiveStages \cup {"Closed"}
            ELSE MadeFor(room.stage, p.action)
        BY <1>1, <1>5, <3>2, PressIsMade
      <4>2. room.stage \in Stages
        BY <1>1 DEF Rooms
      <4>3. QED
        BY <1>5, <2>2, <2>3, <3>2, <4>1, <4>2 DEF MadeInv
    <3>3. QED
      BY <3>1, <3>2
  <2>5. ~asked => LateInv(x, room) /\ FreshInv(x, room)
    <3>1. SUFFICES ASSUME ~asked PROVE FreshInv(x, room)
      BY <2>2 DEF LateInv
    <3>2. room.stage = "Reveal" => (p.action = "START_GAME" <=> room.practice)
      BY <1>1, <1>5, <3>1, PressIsMade
    <3>3. QED
      BY <2>2, <2>3, <3>2 DEF FreshInv
  <2>6. PressInv(x, room)
    BY <2>2, <2>4, <2>5 DEF PressInv
  <2>7. UNCHANGED room /\ sent' = sent (+) SetToBag({x})
    BY <1>5, <2>1 DEF Send
  <2>8. QED
    BY <1>1, <1>2, <2>6, <2>7, BagTakesIn
<1>6. CASE Press
  <2>1. PICK p \in Presses(room) : Send(p, FALSE)
    BY <1>6 DEF Press
  <2>2. p.action \in DOMAIN ALLOWED /\ p.arg \in Int
    BY <1>1, PressIsMade
  <2>3. QED
    BY <1>5, <2>1, <2>2
<1>7. CASE Ask
  <2>1. PICK b \in Questions(room) : Send(Plain(b), TRUE)
    BY <1>7 DEF Ask
  <2>2. Plain(b).action = b /\ Plain(b).arg = 0 /\ b \in {"VOID_ROUND", "START_TIEBREAK"}
    BY DEF Questions, Plain
  <2>3. Plain(b).action \in DOMAIN ALLOWED /\ Plain(b).arg \in Int
    BY <2>2, ActionNames
  <2>4. IF TRUE THEN Plain(b).action \in {"VOID_ROUND", "START_TIEBREAK"} ELSE Plain(b) \in Presses(room)
    BY <2>2
  <2>5. QED
    BY <1>5, <2>1, <2>3, <2>4, Zenon
<1>8. CASE CloseSession
  <2>1. room.stage # "Closed" /\ UNCHANGED sent
    BY <1>8 DEF CloseSession
  <2>2. PICK q : q = [room EXCEPT !.stage = "Closed"] /\ q = room'
    BY <1>8 DEF CloseSession
  <2>3. \A s : PressInv(s, room) => q \in Rooms /\ RoomOK(q) /\ PressInv(s, q)
    BY <1>1, <2>1, <2>2, PressOutlivesRound
  <2>4. q \in Rooms /\ RoomOK(q)
    BY <1>1, <2>2 DEF Rooms, RoomOK, Stages, LiveStages
  <2>5. QED
    BY <1>1, <1>3, <2>1, <2>2, <2>3, <2>4
<1>9. ASSUME NEW s \in BagToSet(sent), Handle(s) PROVE DeskInv'
  <2>1. IsABag(sent') /\ BagToSet(sent') \subseteq BagToSet(sent)
    BY <1>1, <1>9, BagGivesOne DEF Handle, Without
  <2>2. CASE ~Accepted(room, s.press.action)
    <3>1. UNCHANGED room
      BY <1>9, <2>2 DEF Handle
    <3>2. QED
      BY <1>1, <1>2, <2>1, <3>1
  <2>3. CASE Accepted(room, s.press.action)
    <3>1. PICK q : q = Dispatched(room, s.press) /\ q = room'
      BY <1>9, <2>3 DEF Handle
    <3>2. /\ q \in Rooms /\ RoomOK(q)
          /\ AcceptedIn(room, s.press.action) /\ s.press.action # "CLOSE_SESSION"
          /\ Moves(room, q, s.press.action)
          /\ s.press.action = "PAUSE" => ~room.paused
          /\ s.press.action = "SHOW_GAME_RESULTS" => ~room.practice
      BY <2>3, <3>1, HandledMove
    <3>3. ASSUME NEW t \in BagToSet(sent) PROVE PressInv(t, q)
      <4>1. s.press.action = "VOID_ROUND" => t.asked \/ t.for = Moment(room)
        BY <1>9 DEF Handle, Prompt
      <4>2. QED
        BY <1>1, <3>2, <4>1, PressGoesOn
    <3>4. QED
      BY <2>1, <3>1, <3>2, <3>3 DEF DeskInv
  <2>4. QED
    BY <2>2, <2>3
<1>10. ASSUME NEW s \in BagToSet(sent), Lose(s) PROVE DeskInv'
  <2>1. IsABag(sent') /\ BagToSet(sent') \subseteq BagToSet(sent) /\ UNCHANGED room
    BY <1>1, <1>10, BagGivesOne DEF Lose, Without
  <2>2. QED
    BY <1>1, <1>2, <2>1
<1>11. CASE CountdownEnds
  <2>1. room.stage = "Countdown" /\ ~room.paused /\ Prompt /\ UNCHANGED sent
    BY <1>11 DEF CountdownEnds
  <2>2. PICK q : q = [room EXCEPT !.stage = "RoundActive"] /\ q = room'
    BY <1>11 DEF CountdownEnds
  <2>3. \A s \in BagToSet(sent) : PressInv(s, q)
    BY <1>1, <2>1, <2>2, PressOutlivesRound DEF Prompt
  <2>4. q \in Rooms /\ RoomOK(q)
    BY <1>1, <2>1, <2>2 DEF Rooms, RoomOK, Stages, LiveStages
  <2>5. QED
    BY <1>3, <2>1, <2>2, <2>3, <2>4
<1>12. CASE RoundEnds
  <2>1. room.stage = "RoundActive" /\ ~room.paused /\ UNCHANGED sent
    BY <1>12 DEF RoundEnds
  <2>2. PICK q : q = [room EXCEPT !.stage = "InputLocked"] /\ q = room'
    BY <1>12 DEF RoundEnds
  <2>3. \A s \in BagToSet(sent) : PressInv(s, q)
    BY <1>1, <2>1, <2>2, PressOutlivesRound
  <2>4. q \in Rooms /\ RoomOK(q)
    BY <1>1, <2>1, <2>2 DEF Rooms, RoomOK, Stages, LiveStages
  <2>5. QED
    BY <1>3, <2>1, <2>2, <2>3, <2>4
<1>13. CASE HostConnects \/ HostDisconnects \/ GraceOver \/ ReadForPause
  BY <1>1, <1>2, <1>13 DEF HostConnects, HostDisconnects, GraceOver, ReadForPause
<1>14. CASE PauseForHost
  <2>1. UNCHANGED sent
    BY <1>14 DEF PauseForHost
  <2>2. CASE ~Accepted(room, "PAUSE")
    BY <1>1, <1>2, <1>14, <2>1, <2>2 DEF PauseForHost
  <2>3. CASE Accepted(room, "PAUSE")
    <3>1. Plain("PAUSE").action = "PAUSE" /\ Plain("PAUSE").arg \in Int
      BY DEF Plain
    <3>2. PICK q : q = Dispatched(room, Plain("PAUSE")) /\ q = room'
      BY <1>14, <2>3 DEF PauseForHost
    <3>3. "PAUSE" \in DOMAIN ALLOWED /\ "PAUSE" # "CLOSE_SESSION"
      BY ActionNames
    <3>4. q \in Rooms /\ RoomOK(q) /\ Moves(room, q, "PAUSE")
      BY <1>1, <2>3, <3>1, <3>2, <3>3, DispatchMoves
    <3>5. AcceptedIn(room, "PAUSE") /\ ~room.paused
      <4>1. AcceptedIn(room, "PAUSE")
        BY <1>1, <2>3, <3>3, Accepts
      <4>2. QED
        BY <2>3, <4>1 DEF Accepted, Allowed, canTransition
    <3>6. \A s \in BagToSet(sent) : PressInv(s, q)
      BY <1>1, <3>4, <3>5, PressGoesOn
    <3>7. QED
      BY <1>3, <2>1, <3>2, <3>4, <3>6
  <2>4. QED
    BY <2>2, <2>3
<1>15. QED
  BY <1>4, <1>6, <1>7, <1>8, <1>9, <1>10, <1>11, <1>12, <1>13, <1>14 DEF DeskNext, AutoPause

\* A press that is late and accepted, the one exception left out, moves nothing on.
LEMMA LateMovesNothing ==
  ASSUME DeskInv, DeskNext \/ UNCHANGED deskVars,
         NEW s \in BagToSet(sent), HandledLate(s), ~PracticeTakenBack(s)
  PROVE  MovesNothing
<1>1. /\ room \in Rooms /\ RoomOK(room) /\ IsABag(sent)
      /\ PressInv(s, room) /\ ~s.asked /\ s.for # Moment(room)
  BY DEF DeskInv, HandledLate
<1>2. MadeInv(s) /\ LateInv(s, room)
  BY <1>1 DEF PressInv
<1>3. CASE UNCHANGED room
  BY <1>3 DEF MovesNothing
<1>4. ASSUME UNCHANGED sent PROVE FALSE
  <2>1. Copies(s, sent) \in Nat /\ Copies(s, sent') = Copies(s, sent)
    BY <1>1, <1>4 DEF Copies, BagIn, BagToSet, IsABag
  <2>2. QED
    BY <2>1 DEF HandledLate
<1>5. ASSUME NEW t \in BagToSet(sent), Handle(t) PROVE MovesNothing
  <2>1. t = s
    BY <1>1, <1>5, BagGivesOne DEF Handle, Without, HandledLate
  <2>2. SUFFICES ASSUME Accepted(room, s.press.action) PROVE MovesNothing
    BY <1>3, <1>5, <2>1 DEF Handle
  <2>3. PICK q : q = Dispatched(room, s.press) /\ q = room'
    BY <1>5, <2>1, <2>2 DEF Handle
  <2>4. SUFFICES q.stage = room.stage /\ q.game = room.game /\ q.attempt = room.attempt
    BY <2>3 DEF MovesNothing
  <2>5. PICK a : a = s.press.action
    OBVIOUS
  <2>6. AcceptedIn(room, a) /\ a # "CLOSE_SESSION" /\ Moves(room, q, a) /\ room.stage \in Stages
    BY <1>1, <2>2, <2>3, <2>5, HandledMove DEF Rooms
  <2>7. CASE a \in {"PAUSE", "PODIUM_STEP", "CEREMONY_STEP", "STANDINGS_PAGE"}
    BY <2>6, <2>7 DEF Moves
  <2>8. SUFFICES ASSUME a \notin {"PAUSE", "PODIUM_STEP", "CEREMONY_STEP", "STANDINGS_PAGE"}
                 PROVE  q.stage = room.stage /\ q.game = room.game /\ q.attempt = room.attempt
    BY <2>7
  <2>9. /\ Beyond(s.for.stage, room.stage)
        /\ s.for.stage \in {"Lobby", "GameResults"} /\ room.stage \in {"Instructions", "TournamentResults"} =>
             room.attempt = 0
        /\ s.for.stage = "Reveal" /\ a = "START_GAME" =>
             room.stage \in {"Instructions", "Ready", "Countdown", "Closed"} /\ room.game = s.for.game
    BY <1>1, <1>2, <2>5, <2>8 DEF LateInv
  <2>10. s.for.stage \in Stages
         /\ IF s.for.paused THEN a = "RESUME" /\ s.for.stage \in LiveStages \cup {"Closed"}
            ELSE MadeFor(s.for.stage, a)
    BY <1>1, <1>2, <2>5 DEF MadeInv
  <2>11. CASE s.for.paused
    <3>1. a = "RESUME" /\ room.stage = "Countdown"
      BY <2>6, <2>9, <2>10, <2>11 DEF Beyond, AcceptedIn, LiveStages
    <3>2. QED
      BY <2>6, <3>1 DEF Moves
  <2>12. CASE ~s.for.paused
    <3>1. MadeFor(s.for.stage, a)
      BY <2>10, <2>12
    <3>2. a # "START_GAME"
      <4>1. SUFFICES ASSUME a = "START_GAME" PROVE FALSE
        OBVIOUS
      <4>2. s.for.stage = "Reveal" /\ room.stage = "Instructions" /\ room.game = s.for.game
        BY <2>6, <2>9, <3>1, <4>1 DEF MadeFor, AcceptedIn, Beyond
      <4>3. QED
        BY <2>5, <4>1, <4>2 DEF PracticeTakenBack
    <3>3. a \in {"SHOW_INSTRUCTIONS", "SHOW_FINAL_RESULTS"}
      BY <2>6, <2>8, <2>9, <3>1, <3>2, ActionNames DEF MadeFor, AcceptedIn, Beyond
    <3>4. /\ s.for.stage \in {"Lobby", "GameResults"}
          /\ IF a = "SHOW_INSTRUCTIONS" THEN room.stage = "Instructions" ELSE room.stage = "TournamentResults"
      BY <2>6, <2>9, <3>1, <3>3 DEF MadeFor, AcceptedIn, Beyond
    <3>5. QED
      BY <2>6, <2>9, <3>3, <3>4 DEF Moves
  <2>13. QED
    BY <2>11, <2>12
<1>6. CASE Press \/ Ask \/ HostConnects \/ HostDisconnects \/ GraceOver \/ ReadForPause
           \/ (\E t \in BagToSet(sent) : Lose(t)) \/ UNCHANGED deskVars
  BY <1>3, <1>6 DEF Press, Ask, Send, HostConnects, HostDisconnects, GraceOver, ReadForPause, Lose, deskVars
<1>7. CASE CloseSession \/ CountdownEnds \/ RoundEnds \/ PauseForHost
  BY <1>4, <1>7 DEF CloseSession, CountdownEnds, RoundEnds, PauseForHost
<1>8. QED
  BY <1>5, <1>6, <1>7 DEF DeskNext, AutoPause

------------------------------------------------------------------------------
\* What everybody is shown.

\* A room never leaves its games, the pages and the steps of its standings, and nobody
\* practises in the lobby.
RoomShown(r) ==
  /\ r.game \in 0..GameCount - 1 /\ r.page \in 0..PageCount - 1
  /\ r.podium \in Nat /\ r.ceremony \in Nat
  /\ r.stage = "Lobby" => ~r.practice

\* The pager offers pages that there are.
PageThere(p) == p.action = "STANDINGS_PAGE" => p.arg \in 0..PageCount - 1

ShownInv == RoomShown(room) /\ \A s \in BagToSet(sent) : PageThere(s.press)

\* What the server does with an action leaves the room within them.
LEMMA DispatchShows ==
  ASSUME NEW r \in Rooms, RoomShown(r), NEW p, p.action \in DOMAIN ALLOWED,
         p.action # "CLOSE_SESSION", p.arg \in Int, PageThere(p), Accepted(r, p.action),
         NEW q, q = Dispatched(r, p)
  PROVE  RoomShown(q)
<1>1. /\ r.stage \in Stages /\ r.paused \in BOOLEAN /\ r.game \in Int /\ r.cursor \in Int /\ r.attempt \in Nat
      /\ r.practice \in BOOLEAN /\ r.tie \in BOOLEAN /\ r.created \in Nat /\ r.podium \in Int
      /\ r.ceremony \in Int /\ r.page \in Int
  BY DEF Rooms
<1>2. {GameCount, PageCount, LastStep} \subseteq Nat \ {0}
  BY DeskAssumption
<1>3. Clamp(p.arg) \in Nat
  BY <1>2 DEF Clamp
<1>4. CASE p.action = "SHOW_INSTRUCTIONS"
  <2>1. PICK g : g = IF r.stage = "Lobby" THEN 0 ELSE r.game
    OBVIOUS
  <2>2. PICK c : c = -1
    OBVIOUS
  <2>3. q = [NoAttempt(r, "Instructions") EXCEPT !.game = g, !.cursor = c]
    <3>1. NoAttempt(r, "Instructions").game = r.game
      BY DEF NoAttempt, Rooms
    <3>2. QED
      BY <1>4, <2>1, <2>2, <3>1 DEF Dispatched
  <2>4. /\ q.stage = "Instructions" /\ q.game = g /\ q.page = r.page
        /\ q.podium = r.podium /\ q.ceremony = r.ceremony
    BY <2>3 DEF Rooms, NoAttempt
  <2>5. QED
    BY <1>2, <2>1, <2>4 DEF RoomShown
<1>5. CASE p.action \in Prepares
  <2>1. PICK st, c, pr, ti : q = Prepared(r, st, c, pr, ti) /\ st \in {"Countdown", "Ready", "Instructions"}
    <3>1. CASE p.action = "START_PRACTICE"
      BY <3>1, Zenon DEF Dispatched
    <3>2. CASE p.action = "START_GAME"
      BY <3>2, Zenon DEF Dispatched
    <3>3. CASE p.action = "NEXT_ROUND"
      BY <3>3, Zenon DEF Dispatched
    <3>4. CASE p.action = "VOID_ROUND"
      <4>1. q = Prepared(r, IF r.practice THEN "Instructions" ELSE "Ready", r.cursor, r.practice, r.tie)
        BY <3>4 DEF Dispatched
      <4>2. QED
        BY <4>1
    <3>5. CASE p.action = "START_TIEBREAK"
      BY <3>5, Zenon DEF Dispatched
    <3>6. QED
      BY <1>5, <3>1, <3>2, <3>3, <3>4, <3>5 DEF Prepares
  <2>2. /\ q.stage = st /\ q.game = r.game /\ q.page = r.page
        /\ q.podium = r.podium /\ q.ceremony = r.ceremony
    BY <2>1 DEF Rooms, Prepared
  <2>3. QED
    BY <2>1, <2>2 DEF RoomShown
<1>6. CASE p.action \in {"START_ROUND", "PAUSE", "RESUME", "REVEAL"}
  <2>1. q.game = r.game /\ q.page = r.page /\ q.podium = r.podium /\ q.ceremony = r.ceremony
    BY <1>6 DEF Dispatched, Rooms
  <2>2. q.stage # "Lobby" \/ (q.stage = r.stage /\ q.practice = r.practice)
    BY <1>6 DEF Dispatched, Rooms
  <2>3. QED
    BY <2>1, <2>2 DEF RoomShown
<1>7. CASE p.action \in {"SHOW_GAME_RESULTS", "SHOW_FINAL_RESULTS"}
  <2>1. PICK st \in {"GameResults", "TournamentResults"} :
          \/ q = [NoAttempt(r, st) EXCEPT !.podium = 0, !.page = 0]
          \/ q = [NoAttempt(r, st) EXCEPT !.ceremony = 0, !.page = 0]
    BY <1>7 DEF Dispatched
  <2>2. /\ q.stage = st /\ q.game = r.game /\ q.page = 0
        /\ q.podium \in {0, r.podium} /\ q.ceremony \in {0, r.ceremony}
    BY <2>1 DEF Rooms, NoAttempt
  <2>3. QED
    BY <1>2, <2>1, <2>2 DEF RoomShown
<1>8. CASE p.action = "NEXT_GAME"
  <2>1. r.game + 1 < GameCount
    BY <1>8 DEF Accepted, Allowed
  <2>2. PICK g, c : g = r.game + 1 /\ c = -1
    OBVIOUS
  <2>3. q = [NoAttempt(r, "Instructions") EXCEPT !.game = g, !.cursor = c]
    <3>1. NoAttempt(r, "Instructions").game = r.game
      BY DEF NoAttempt, Rooms
    <3>2. QED
      BY <1>8, <2>2, <3>1 DEF Dispatched
  <2>4. /\ q.stage = "Instructions" /\ q.game = g /\ q.page = r.page
        /\ q.podium = r.podium /\ q.ceremony = r.ceremony
    BY <2>3 DEF Rooms, NoAttempt
  <2>5. QED
    BY <1>1, <1>2, <2>1, <2>2, <2>4 DEF RoomShown
<1>9. CASE p.action \in {"PODIUM_STEP", "CEREMONY_STEP", "STANDINGS_PAGE"}
  <2>1. PICK k \in Nat : k = Clamp(p.arg)
    BY <1>3
  <2>2. \/ p.action = "PODIUM_STEP" /\ q = [r EXCEPT !.podium = k]
        \/ p.action = "CEREMONY_STEP" /\ q = [r EXCEPT !.ceremony = k]
        \/ p.action = "STANDINGS_PAGE" /\ q = [r EXCEPT !.page = p.arg]
    BY <1>9, <2>1 DEF Dispatched
  <2>3. /\ q.stage = r.stage /\ q.practice = r.practice /\ q.game = r.game
        /\ q.page = (IF p.action = "STANDINGS_PAGE" THEN p.arg ELSE r.page)
        /\ q.podium \in {k, r.podium} /\ q.ceremony \in {k, r.ceremony}
    BY <2>2 DEF Rooms
  <2>4. QED
    BY <2>3 DEF RoomShown, PageThere
<1>10. QED
  BY <1>4, <1>5, <1>6, <1>7, <1>8, <1>9, ActionNames DEF Prepares

\* No page is offered that is not there.
LEMMA PagesOffered ==
  ASSUME NEW r \in Rooms, NEW p \in Presses(r) PROVE PageThere(p)
<1>1. SUFFICES ASSUME p.action = "STANDINGS_PAGE" PROVE p.arg \in 0..PageCount - 1
  BY DEF PageThere
<1>2. primaryActionFor(r) # "STANDINGS_PAGE"
  BY DEF primaryActionFor
<1>3. secondaryActionsFor(r) \cup pauseActionFor(r) \subseteq
        {"SHOW_INSTRUCTIONS", "START_PRACTICE", "START_GAME", "START_ROUND", "REVEAL",
         "SHOW_GAME_RESULTS", "NEXT_ROUND", "NEXT_GAME", "SHOW_FINAL_RESULTS", "PAUSE"}
  BY DEF secondaryActionsFor, pauseActionFor, BY_STATE
<1>4. PrimaryPress(r).action = primaryActionFor(r)
  BY DEF PrimaryPress, Plain
<1>5. p \notin StepperPresses(r)
  BY <1>1 DEF StepperPresses, StepAction
<1>6. \A a \in secondaryActionsFor(r) \cup pauseActionFor(r) : p # Plain(a)
  BY <1>1, <1>3 DEF Plain
<1>7. p \in PagerPresses(r)
  BY <1>1, <1>2, <1>4, <1>5, <1>6 DEF Presses
<1>8. QED
  BY <1>7 DEF PagerPresses

\* The invariant of what is shown, with that of the desks.
LEMMA ShownStep == ASSUME DeskInv, ShownInv, DeskNext \/ UNCHANGED deskVars PROVE ShownInv'
<1>1. /\ room \in Rooms /\ RoomOK(room) /\ IsABag(sent) /\ RoomShown(room)
      /\ \A s \in BagToSet(sent) : PressInv(s, room) /\ PageThere(s.press)
  BY DEF DeskInv, ShownInv
<1>2. ASSUME UNCHANGED sent, NEW q, q = room', RoomShown(q) PROVE ShownInv'
  BY <1>1, <1>2 DEF ShownInv
<1>3. ASSUME BagToSet(sent') \subseteq BagToSet(sent), NEW q, q = room', RoomShown(q) PROVE ShownInv'
  BY <1>1, <1>3 DEF ShownInv
<1>4. CASE UNCHANGED <<room, sent>>
  BY <1>1, <1>2, <1>4
<1>5. ASSUME NEW p, NEW asked, Send(p, asked), PageThere(p) PROVE ShownInv'
  <2>1. PICK x : x = [press |-> p, for |-> Moment(room), asked |-> asked]
    OBVIOUS
  <2>2. UNCHANGED room /\ sent' = sent (+) SetToBag({x}) /\ PageThere(x.press)
    BY <1>5, <2>1 DEF Send
  <2>3. QED
    BY <1>1, <2>2, BagTakesIn DEF ShownInv
<1>6. CASE Press
  BY <1>1, <1>5, <1>6, PagesOffered DEF Press
<1>7. CASE Ask
  <2>1. PICK b \in Questions(room) : Send(Plain(b), TRUE)
    BY <1>7 DEF Ask
  <2>2. PageThere(Plain(b))
    BY DEF Questions, Plain, PageThere
  <2>3. QED
    BY <1>5, <2>1, <2>2, Zenon
<1>8. CASE CloseSession \/ CountdownEnds \/ RoundEnds
  <2>1. PICK st \in {"Closed", "RoundActive", "InputLocked"} : room' = [room EXCEPT !.stage = st]
    BY <1>8 DEF CloseSession, CountdownEnds, RoundEnds
  <2>2. PICK q : q = [room EXCEPT !.stage = st] /\ q = room'
    BY <2>1
  <2>3. RoomShown(q)
    BY <1>1, <2>2 DEF Rooms, RoomShown
  <2>4. QED
    BY <1>2, <1>8, <2>2, <2>3 DEF CloseSession, CountdownEnds, RoundEnds
<1>9. ASSUME NEW s \in BagToSet(sent), Handle(s) PROVE ShownInv'
  <2>1. BagToSet(sent') \subseteq BagToSet(sent)
    BY <1>1, <1>9, BagGivesOne DEF Handle, Without
  <2>2. CASE ~Accepted(room, s.press.action)
    BY <1>1, <1>3, <1>9, <2>1, <2>2 DEF Handle
  <2>3. CASE Accepted(room, s.press.action)
    <3>1. PICK q : q = Dispatched(room, s.press) /\ q = room'
      BY <1>9, <2>3 DEF Handle
    <3>2. s.press.action \in DOMAIN ALLOWED /\ s.press.arg \in Int /\ s.press.action # "CLOSE_SESSION"
      BY <1>1 DEF PressInv, MadeInv, MadeFor
    <3>3. QED
      BY <1>1, <1>3, <2>1, <2>3, <3>1, <3>2, DispatchShows
  <2>4. QED
    BY <2>2, <2>3
<1>10. ASSUME NEW s \in BagToSet(sent), Lose(s) PROVE ShownInv'
  BY <1>1, <1>3, <1>10, BagGivesOne DEF Lose, Without
<1>11. CASE HostConnects \/ HostDisconnects \/ GraceOver \/ ReadForPause \/ UNCHANGED deskVars
  BY <1>4, <1>11 DEF HostConnects, HostDisconnects, GraceOver, ReadForPause, deskVars
<1>12. CASE PauseForHost
  <2>1. CASE ~Accepted(room, "PAUSE")
    BY <1>4, <1>12, <2>1 DEF PauseForHost
  <2>2. CASE Accepted(room, "PAUSE")
    <3>1. PICK p : p = Plain("PAUSE")
      OBVIOUS
    <3>2. p.action = "PAUSE" /\ p.arg \in Int /\ PageThere(p) /\ p.action \in DOMAIN ALLOWED
      BY <3>1, ActionNames DEF Plain, PageThere
    <3>3. PICK q : q = Dispatched(room, p) /\ q = room'
      BY <1>12, <2>2, <3>1 DEF PauseForHost
    <3>4. RoomShown(q)
      BY <1>1, <2>2, <3>2, <3>3, DispatchShows
    <3>5. QED
      BY <1>2, <1>12, <3>3, <3>4 DEF PauseForHost
  <2>3. QED
    BY <2>1, <2>2
<1>13. QED
  BY <1>6, <1>7, <1>8, <1>9, <1>10, <1>11, <1>12 DEF DeskNext, AutoPause

LEMMA ShownStart == DeskInit => ShownInv
<1> SUFFICES ASSUME DeskInit PROVE ShownInv
  OBVIOUS
<1>1. {GameCount, PageCount} \subseteq Nat \ {0}
  BY DeskAssumption
<1>2. RoomShown(room)
  BY <1>1 DEF DeskInit, RoomShown
<1>3. BagToSet(sent) = {}
  BY DEF DeskInit, EmptyBag, SetToBag, BagToSet
<1>4. QED
  BY <1>2, <1>3 DEF ShownInv

\* What the pages know of a room and of a player, for the sections below.
GameTypes == {"RLGL", "GEO", "ORDER"}

RoomFacts(r) ==
  /\ r.stage \in Stages /\ r.paused \in BOOLEAN /\ r.game \in Int /\ r.cursor \in Int /\ r.attempt \in Nat
  /\ r.practice \in BOOLEAN /\ r.tie \in BOOLEAN /\ r.created \in Nat
  /\ RoomOK(r) /\ RoomShown(r)
  /\ gameType(r) \in GameTypes
  /\ roundPublic(r) = IF r.attempt = 0 THEN "none" ELSE IF r.tie THEN "ORDER" ELSE gameType(r)

PlayerFacts(r, p) ==
  /\ p.life \in {"unknown", "alive", "finished", "eliminated"}
  /\ p.life # "unknown" => roundPublic(r) = "RLGL"
  /\ p.life \in {"finished", "eliminated"} => r.stage \in LiveStages \cup {"InputLocked", "Reveal"}
  /\ p.locked \in BOOLEAN /\ (p.locked => roundPublic(r) \in {"GEO", "ORDER"})
  /\ p.pin \in BOOLEAN /\ p.conn \in BOOLEAN /\ p.holding \in BOOLEAN /\ p.color \in {"GREEN", "RED"}

LEMMA RoomIsKnown == ASSUME NEW r \in Rooms, RoomOK(r), RoomShown(r) PROVE RoomFacts(r)
<1>1. /\ r.stage \in Stages /\ r.paused \in BOOLEAN /\ r.game \in Int /\ r.cursor \in Int /\ r.attempt \in Nat
      /\ r.practice \in BOOLEAN /\ r.tie \in BOOLEAN /\ r.created \in Nat
  BY DEF Rooms
<1>2. r.game \in 0..2
  BY DeskAssumption, GamesAssumption DEF RoomShown, GAME_ORDER
<1>3. gameType(r) \in GameTypes
  BY <1>2 DEF gameType, GAME_ORDER, GameTypes
<1>4. QED
  BY <1>1, <1>3 DEF RoomFacts, roundPublic

LEMMA PlayerIsKnown == ASSUME NEW r, NEW p \in Personal(r) PROVE PlayerFacts(r, p)
<1>1. PICK L, K : /\ L = IF roundPublic(r) # "RLGL" THEN {"unknown"}
                         ELSE {"unknown", "alive"} \cup
                              When(r.stage \in LiveStages \cup {"InputLocked", "Reveal"}, {"finished", "eliminated"})
                  /\ K = IF roundPublic(r) \in {"GEO", "ORDER"} THEN BOOLEAN ELSE {FALSE}
  OBVIOUS
<1>2. /\ p.life \in L /\ p.locked \in K
      /\ p.pin \in BOOLEAN /\ p.conn \in BOOLEAN /\ p.holding \in BOOLEAN /\ p.color \in {"GREEN", "RED"}
  BY <1>1 DEF Personal
<1>3. /\ p.life \in {"unknown", "alive", "finished", "eliminated"}
      /\ p.life # "unknown" => roundPublic(r) = "RLGL"
      /\ p.life \in {"finished", "eliminated"} => r.stage \in LiveStages \cup {"InputLocked", "Reveal"}
  BY <1>1, <1>2 DEF When
<1>4. p.locked \in BOOLEAN /\ (p.locked => roundPublic(r) \in {"GEO", "ORDER"})
  BY <1>1, <1>2
<1>5. QED
  BY <1>2, <1>3, <1>4 DEF PlayerFacts

\* A phone in a race, in words.
LEMMA StatesOfRace ==
  ASSUME NEW r, NEW p, RoomFacts(r), PlayerFacts(r, p)
  PROVE  /\ effectiveState(r, p) \in {"eliminated", "finished", "reconnecting", "paused", "countdown", "timeEnded",
                                      "green", "greenHolding", "red", "redHolding", "ready", "instructions"}
         /\ r.stage = "RoundActive" /\ ~r.paused =>
              /\ p.life \in {"eliminated", "finished"} => effectiveState(r, p) = p.life
              /\ p.life \in {"alive", "unknown"} /\ ~p.conn => effectiveState(r, p) = "reconnecting"
              /\ p.life = "unknown" /\ p.conn => effectiveState(r, p) = "ready"
              /\ p.life = "alive" /\ p.conn /\ p.color = "GREEN" => effectiveState(r, p) \in {"green", "greenHolding"}
              /\ p.life = "alive" /\ p.conn /\ p.color = "RED" => effectiveState(r, p) \in {"red", "redHolding"}
  BY DEF RoomFacts, PlayerFacts, effectiveState

\* What the arena offers, game by game, and when it shows the result.
LEMMA ArenaOffers ==
  ASSUME NEW r, NEW p, RoomFacts(r), PlayerFacts(r, p)
  PROVE  /\ "pad" \in Arena(r, p) <=> roundPublic(r) = "RLGL" /\ PadThere(r, p)
         /\ Offered(r, p) # {} <=>
              /\ roundPublic(r) # "none" /\ r.stage = "RoundActive" /\ ~r.paused
              /\ IF roundPublic(r) = "RLGL" THEN p.conn /\ p.life = "alive" ELSE ~p.locked
         /\ "resultCard" \in Arena(r, p) <=>
              roundPublic(r) # "none" /\ (Revealed(r) \/ p.life \in {"eliminated", "finished"})
<1>1. roundPublic(r) \in GameTypes \cup {"none"} /\ r.stage \in Stages
  BY DEF RoomFacts, GameTypes
<1>2. Offered(r, p) = Arena(r, p) \cap {"pad", "placePin", "moveCards", "lock"}
  BY DEF Offered
<1>3. CASE roundPublic(r) = "none"
  <2>1. Arena(r, p) = {}
    BY <1>3 DEF Arena
  <2>2. QED
    BY <1>2, <1>3, <2>1
<1>4. CASE roundPublic(r) = "RLGL"
  <2>1. PICK state : state = effectiveState(r, p)
    OBVIOUS
  <2>2. state \notin {"pad", "placePin", "moveCards", "lock", "resultCard"}
    BY <2>1, StatesOfRace
  <2>3. Arena(r, p) = {IF p.life = "eliminated" /\ ~Revealed(r) THEN "eliminationPanel" ELSE state}
                        \cup When(~Revealed(r), {"track"}) \cup When(PadThere(r, p), {"pad"})
                        \cup When(Revealed(r) \/ p.life \in {"eliminated", "finished"}, {"resultCard"})
    BY <1>4, <2>1 DEF Arena, raceArena
  <2>4. /\ "pad" \in Arena(r, p) <=> PadThere(r, p)
        /\ "placePin" \notin Arena(r, p) /\ "moveCards" \notin Arena(r, p) /\ "lock" \notin Arena(r, p)
        /\ "resultCard" \in Arena(r, p) <=> Revealed(r) \/ p.life \in {"eliminated", "finished"}
    BY <2>2, <2>3 DEF When
  <2>5. Offered(r, p) # {} <=> PadThere(r, p)
    BY <1>2, <2>4
  <2>6. QED
    BY <1>4, <2>4, <2>5 DEF PadThere
<1>5. CASE roundPublic(r) = "GEO"
  <2>1. Arena(r, p) = When(r.stage = "RoundActive" /\ ~r.paused /\ ~p.locked, {"placePin"})
                        \cup (IF Revealed(r) THEN {"resultCard"}
                              ELSE IF p.locked THEN {"lockedNote"}
                              ELSE When(p.pin /\ r.stage = "RoundActive" /\ ~r.paused, {"lock"}))
    BY <1>5 DEF Arena, geoArena
  <2>2. p.life = "unknown"
    BY <1>5 DEF PlayerFacts
  <2>3. /\ "pad" \notin Arena(r, p)
        /\ "placePin" \in Arena(r, p) <=> r.stage = "RoundActive" /\ ~r.paused /\ ~p.locked
        /\ "lock" \in Arena(r, p) => r.stage = "RoundActive" /\ ~r.paused /\ ~p.locked
        /\ "moveCards" \notin Arena(r, p)
        /\ "resultCard" \in Arena(r, p) <=> Revealed(r)
    BY <2>1 DEF When
  <2>4. Offered(r, p) # {} <=> r.stage = "RoundActive" /\ ~r.paused /\ ~p.locked
    BY <1>2, <2>3
  <2>5. QED
    BY <1>5, <2>2, <2>3, <2>4
<1>6. CASE roundPublic(r) = "ORDER"
  <2>1. Arena(r, p) = When(~(p.locked \/ r.stage # "RoundActive" \/ r.paused), {"moveCards"})
                        \cup (IF Revealed(r) THEN {"resultCard"}
                              ELSE IF p.locked THEN {"lockedNote"}
                              ELSE When(r.stage = "RoundActive" /\ ~r.paused, {"lock"}))
    BY <1>6 DEF Arena, orderArena
  <2>2. p.life = "unknown"
    BY <1>6 DEF PlayerFacts
  <2>3. /\ "pad" \notin Arena(r, p)
        /\ "moveCards" \in Arena(r, p) <=> r.stage = "RoundActive" /\ ~r.paused /\ ~p.locked
        /\ "lock" \in Arena(r, p) => r.stage = "RoundActive" /\ ~r.paused /\ ~p.locked
        /\ "placePin" \notin Arena(r, p)
        /\ "resultCard" \in Arena(r, p) <=> Revealed(r)
    BY <2>1 DEF When
  <2>4. Offered(r, p) # {} <=> r.stage = "RoundActive" /\ ~r.paused /\ ~p.locked
    BY <1>2, <2>3
  <2>5. QED
    BY <1>6, <2>2, <2>3, <2>4
<1>7. QED
  BY <1>1, <1>3, <1>4, <1>5, <1>6 DEF GameTypes

\* What the display says, and when it gives a signal; the preview on the desk says it too.
LEMMA DisplaySays ==
  ASSUME NEW r, NEW p, RoomFacts(r), PlayerFacts(r, p)
  PROVE  /\ previewTells(r, p) = displayTells(r, p)
         /\ displayTells(r, p) =
              IF r.paused THEN "paused"
              ELSE IF r.stage \in {"Lobby", "Instructions", "Ready", "Countdown"} THEN r.stage
              ELSE IF r.stage = "RoundActive" THEN
                (IF roundPublic(r) # "RLGL" THEN "question" ELSE IF p.color = "GREEN" THEN "go" ELSE "stop")
              ELSE IF r.stage = "InputLocked" THEN "closed"
              ELSE IF r.stage = "Reveal" THEN "reveal"
              ELSE IF r.stage = "Closed" THEN "ended"
              ELSE "results"
<1>1. r.stage \in Stages /\ r.paused \in BOOLEAN /\ RoomOK(r)
  BY DEF RoomFacts
<1>2. r.stage = "Reveal" => Revealed(r)
  BY <1>1 DEF RoomOK, Revealed
<1>3. r.stage = "RoundActive" => ~Revealed(r)
  BY DEF Revealed
<1>4. QED
  BY <1>1, <1>2, <1>3
     DEF previewTells, headline, displayTells, OnResults, Question, Signal, Stages

\* What a phone says: what the display does, or what it has to say of its player.
LEMMA PhoneSays ==
  ASSUME NEW r, NEW p, RoomFacts(r), PlayerFacts(r, p)
  PROVE  /\ phoneTells(r, p) \in {displayTells(r, p), "eliminated", "finished", "reconnecting", "ready"}
         /\ phoneTells(r, p) \in {"go", "stop"} <=>
              /\ r.stage = "RoundActive" /\ ~r.paused /\ roundPublic(r) = "RLGL"
              /\ p.conn /\ p.life = "alive"
         /\ phoneTells(r, p) = "reveal" => r.stage = "Reveal"
<1>1. r.stage \in Stages /\ r.paused \in BOOLEAN
  BY DEF RoomFacts
<1>2. CASE r.paused
  BY <1>2, DisplaySays DEF phoneTells
<1>3. CASE ~r.paused /\ r.stage # "RoundActive"
  <2>1. phoneTells(r, p) = displayTells(r, p)
    BY <1>1, <1>3, DisplaySays DEF phoneTells, OnResults, Stages
  <2>2. phoneTells(r, p) \notin {"go", "stop"} /\ (phoneTells(r, p) = "reveal" => r.stage = "Reveal")
    BY <1>1, <1>3, <2>1, DisplaySays DEF Stages
  <2>3. QED
    BY <1>3, <2>1, <2>2
<1>4. CASE ~r.paused /\ r.stage = "RoundActive" /\ roundPublic(r) # "RLGL"
  <2>1. phoneTells(r, p) = "question" /\ displayTells(r, p) = "question"
    BY <1>4, DisplaySays DEF phoneTells, Question
  <2>2. QED
    BY <1>4, <2>1
<1>5. CASE ~r.paused /\ r.stage = "RoundActive" /\ roundPublic(r) = "RLGL"
  <2>1. PICK state : state = effectiveState(r, p)
    OBVIOUS
  <2>2. /\ p.life \in {"eliminated", "finished"} => state = p.life
        /\ p.life \in {"alive", "unknown"} /\ ~p.conn => state = "reconnecting"
        /\ p.life = "unknown" /\ p.conn => state = "ready"
        /\ p.life = "alive" /\ p.conn /\ p.color = "GREEN" => state \in {"green", "greenHolding"}
        /\ p.life = "alive" /\ p.conn /\ p.color = "RED" => state \in {"red", "redHolding"}
    BY <1>5, <2>1, StatesOfRace
  <2>3. phoneTells(r, p) = CASE tone(state) = "green" -> "go"
                             [] state \in {"red", "redHolding"} -> "stop"
                             [] OTHER -> state
    BY <1>5, <2>1 DEF phoneTells, Question
  <2>4. displayTells(r, p) = IF p.color = "GREEN" THEN "go" ELSE "stop"
    BY <1>5, DisplaySays
  <2>5. /\ p.life \in {"unknown", "alive", "finished", "eliminated"} /\ p.conn \in BOOLEAN
        /\ p.color \in {"GREEN", "RED"}
    BY DEF PlayerFacts
  <2>6. CASE p.life = "alive" /\ p.conn /\ p.color = "GREEN"
    <3>1. tone(state) = "green"
      BY <2>2, <2>6 DEF tone
    <3>2. QED
      BY <1>5, <2>2, <2>3, <2>4, <2>6, <3>1
  <2>7. CASE p.life = "alive" /\ p.conn /\ p.color = "RED"
    <3>1. tone(state) # "green"
      BY <2>2, <2>7 DEF tone
    <3>2. QED
      BY <1>5, <2>2, <2>3, <2>4, <2>7, <3>1
  <2>8. CASE ~(p.life = "alive" /\ p.conn)
    <3>1. state \in {"eliminated", "finished", "reconnecting", "ready"}
      BY <2>2, <2>5, <2>8
    <3>2. tone(state) # "green"
      BY <3>1 DEF tone
    <3>3. phoneTells(r, p) = state
      BY <2>3, <3>1, <3>2
    <3>4. QED
      BY <2>8, <3>1, <3>3
  <2>9. QED
    BY <2>5, <2>6, <2>7, <2>8
<1>6. QED
  BY <1>1, <1>2, <1>3, <1>4, <1>5

\* The result card, the chip and the line under the answer.
LEMMA CardSays ==
  ASSUME NEW r, NEW p, RoomFacts(r), PlayerFacts(r, p)
  PROVE  /\ resultCard(r, p) # {} <=> "resultCard" \in Arena(r, p)
         /\ ~r.paused /\ ~r.tie => ("eliminated" \in resultCard(r, p) <=> chip(r, p) = "out")
         /\ r.stage = "Reveal" => "awaitingReveal" \notin resultCard(r, p)
<1>1. /\ p.life \in {"unknown", "alive", "finished", "eliminated"}
      /\ p.life # "unknown" => roundPublic(r) = "RLGL"
  BY DEF PlayerFacts
<1>2. /\ roundPublic(r) \in GameTypes \cup {"none"} /\ (roundPublic(r) = "none" <=> r.attempt = 0)
      /\ gameType(r) \in GameTypes /\ (~r.tie /\ roundPublic(r) # "none" => gameType(r) = roundPublic(r))
  BY DEF RoomFacts, GameTypes
<1>3. PICK o, k, n : o = raceOutcome(r, p) /\ k = outcomeKey(r, p) /\ n = nextText(r)[1]
  OBVIOUS
<1>4. /\ p.life \in {"finished", "eliminated"} => o = p.life
      /\ p.life \notin {"finished", "eliminated"} => o = IF Revealed(r) /\ roundPublic(r) = "RLGL" THEN "timeout" ELSE "none"
  BY <1>3 DEF raceOutcome
<1>5. n \in {"startRound", "gameResults", "round"}
  BY <1>3 DEF nextText
<1>6. /\ roundPublic(r) = "GEO" => k \in {"distance", "noPin"}
      /\ roundPublic(r) = "ORDER" => k = "cards"
      /\ roundPublic(r) \notin {"GEO", "ORDER"} => k = o
  BY <1>3 DEF outcomeKey
<1>7. resultCard(r, p) = IF Revealed(r) THEN {k, "points", n} ELSE IF o # "none" THEN {o, "awaitingReveal"} ELSE {}
  BY <1>3 DEF resultCard
<1>8. Revealed(r) => roundPublic(r) # "none"
  BY <1>2 DEF Revealed
<1>9. resultCard(r, p) # {} <=> Revealed(r) \/ p.life \in {"eliminated", "finished"}
  BY <1>4, <1>7
<1>10. "eliminated" \in resultCard(r, p) <=> p.life = "eliminated"
  BY <1>1, <1>2, <1>4, <1>5, <1>6, <1>7, <1>8 DEF GameTypes
<1>11. ~r.paused /\ ~r.tie => (chip(r, p) = "out" <=> p.life = "eliminated")
  BY <1>1, <1>2 DEF chip
<1>12. r.stage = "Reveal" => "awaitingReveal" \notin resultCard(r, p)
  <2>1. r.stage = "Reveal" => Revealed(r)
    BY DEF RoomFacts, RoomOK, Revealed
  <2>2. QED
    BY <1>1, <1>4, <1>5, <1>6, <1>7, <2>1
<1>13. "resultCard" \in Arena(r, p) <=>
         roundPublic(r) # "none" /\ (Revealed(r) \/ p.life \in {"eliminated", "finished"})
  BY ArenaOffers
<1>14. QED
  BY <1>1, <1>8, <1>9, <1>10, <1>11, <1>12, <1>13

\* The signal panel offers the other colour of the one the display shows, and none else.
LEMMA PanelOffers ==
  ASSUME NEW r, NEW p, RoomFacts(r), PlayerFacts(r, p)
  PROVE  LET shown == displayTells(r, p)
             panel == signalPanel(r, p, "MANUAL")
         IN
         /\ ~r.tie =>
              /\ shown = "go" <=> panel = {"RED"}
              /\ shown = "stop" <=> panel = {"GREEN"}
              /\ ~r.paused => (contextText(r) = "raceActive" <=> shown \in {"go", "stop"})
         /\ "paused" \in panel => shown = "paused"
<1>1. PICK shown, panel : shown = displayTells(r, p) /\ panel = signalPanel(r, p, "MANUAL")
  OBVIOUS
<1>2. /\ r.stage \in Stages /\ r.paused \in BOOLEAN /\ p.color \in {"GREEN", "RED"}
      /\ r.stage = "RoundActive" /\ ~r.tie => roundPublic(r) = gameType(r)
  BY DEF RoomFacts, PlayerFacts, RoomOK
<1>3. panel = IF canSignal(r, "MANUAL") THEN {"RED", "GREEN"} \ {p.color} ELSE {disabledReason(r)}
  BY <1>1 DEF signalPanel
<1>4. disabledReason(r) \in {"notRace", "paused", "notActive"} /\ (disabledReason(r) = "paused" => r.paused)
  BY DEF disabledReason
<1>5. canSignal(r, "MANUAL") <=> r.stage = "RoundActive" /\ gameType(r) = "RLGL" /\ ~r.paused
  BY DEF canSignal
<1>6. /\ panel = {"RED"} <=> canSignal(r, "MANUAL") /\ p.color = "GREEN"
      /\ panel = {"GREEN"} <=> canSignal(r, "MANUAL") /\ p.color = "RED"
      /\ "paused" \in panel => r.paused
  BY <1>2, <1>3, <1>4
<1>7. /\ r.paused => shown = "paused"
      /\ r.stage = "RoundActive" /\ ~r.paused /\ roundPublic(r) = "RLGL" =>
           shown = IF p.color = "GREEN" THEN "go" ELSE "stop"
      /\ shown \in {"go", "stop"} => r.stage = "RoundActive" /\ ~r.paused /\ roundPublic(r) = "RLGL"
  BY <1>1, <1>2, DisplaySays DEF Stages
<1>8. contextText(r) = "raceActive" <=> r.stage = "RoundActive" /\ gameType(r) = "RLGL"
  BY <1>2 DEF contextText
<1>9. QED
  BY <1>1, <1>2, <1>5, <1>6, <1>7, <1>8

\* The clocks count to one end.
LEMMA ClocksAgree ==
  ASSUME NEW r, RoomFacts(r)
  PROVE  displayClock(r) = phoneClock(r) /\ (deskClock(r) = displayClock(r) \/ r.paused)
  BY DEF RoomFacts, displayClock, phoneClock, deskClock, Ending

\* The desk has its pager where the display shows that page of the standings.
LEMMA PagerStands ==
  ASSUME NEW r \in Rooms, RoomFacts(r)
  PROVE  showPager(r) <=> OnResults(r) /\ <<"rows", r.page>> \in DisplayResults(r)
<1>1. r.page \in 0..PageCount - 1 /\ r.podium \in Int /\ r.ceremony \in Int
  BY DEF RoomFacts, RoomShown, Rooms
<1>2. LastStep \in Nat /\ PageCount \in Nat /\ Step(r) \in Int
  BY <1>1, DeskAssumption DEF Step
<1>3. <<"rows", r.page>> \in leaderSummary(r)
  BY <1>1, <1>2 DEF leaderSummary, pageRows
<1>4. <<"rows", r.page>> \notin {"place"} \X podium(r)
  OBVIOUS
<1>5. CASE Step(r) < LastStep
  BY <1>2, <1>4, <1>5 DEF showPager, DisplayResults
<1>6. CASE ~(Step(r) < LastStep)
  BY <1>2, <1>3, <1>6 DEF showPager, DisplayResults
<1>7. QED
  BY <1>5, <1>6

\* The round has one name on every page.
LEMMA RoundNamed ==
  ASSUME NEW r, RoomFacts(r), r.stage \in PHASES[4]
  PROVE  roundLabel(r) \in previewMeta(r) /\ roundLabel(r) \in statusStage(r)
<1>1. r.stage \in {"Ready", "InputLocked", "Reveal", "Countdown", "RoundActive"}
  BY DEF PHASES, LiveStages
<1>2. roundPublic(r) # "none" /\ r.practice \in BOOLEAN
  BY <1>1 DEF RoomFacts, RoomOK, GameTypes
<1>3. RoundCount > 0
  BY DeskAssumption
<1>4. CASE r.practice
  BY <1>4 DEF roundLabel, previewMeta, statusStage, When
<1>5. CASE ~r.practice
  BY <1>2, <1>3, <1>5 DEF roundLabel, previewMeta, statusStage, When
<1>6. QED
  BY <1>2, <1>4, <1>5

\* The desk's two marks of progress agree.
LEMMA ProgressAgrees ==
  ASSUME NEW r, RoomFacts(r)
  PROVE  /\ strip(r) = 0 <=> rail(r) = 0
         /\ strip(r) = 2 /\ r.stage # "Closed" => railDetail(r) \in {"practice", "instructions"}
<1>1. /\ r.stage \in Stages /\ r.game \in 0..GameCount - 1 /\ GameCount \in Nat \ {0}
      /\ r.stage = "Lobby" => ~r.practice
  BY DeskAssumption DEF RoomFacts, RoomShown
<1>2. /\ r.practice \in BOOLEAN
      /\ r.practice /\ ~OnResults(r) => strip(r) = 2
  BY DEF RoomFacts, strip
<1>3. /\ rail(r) = 0 <=> r.stage = "Lobby"
      /\ rail(r) = GameCount + 1 <=> r.stage \in {"TournamentResults", "Closed"}
  BY <1>1 DEF rail
<1>4. PICK i : i = CHOOSE k \in DOMAIN PHASES : r.stage \in PHASES[k]
  OBVIOUS
<1>5. /\ DOMAIN PHASES = 1..5 /\ PHASES[1] = {"Lobby"} /\ PHASES[3] = {}
      /\ \E k \in 1..5 : r.stage \in PHASES[k]
      /\ \A k \in 1..5 : r.stage = "Lobby" /\ r.stage \in PHASES[k] => k = 1
  <2>1. /\ PHASES[1] = {"Lobby"} /\ PHASES[2] = {"Instructions"} /\ PHASES[3] = {}
        /\ PHASES[4] = {"Ready", "InputLocked", "Reveal", "Countdown", "RoundActive"}
        /\ PHASES[5] = {"GameResults", "TournamentResults", "Closed"} /\ DOMAIN PHASES = 1..5
    BY DEF PHASES, LiveStages
  <2>2. \E k \in 1..5 : r.stage \in PHASES[k]
    BY <1>1, <2>1 DEF Stages
  <2>3. \A k \in 1..5 : r.stage = "Lobby" /\ r.stage \in PHASES[k] => k = 1
    BY <2>1
  <2>4. QED
    BY <2>1, <2>2, <2>3
<1>6. i \in 1..5 /\ r.stage \in PHASES[i]
  BY <1>4, <1>5
<1>7. (i = 1 <=> r.stage = "Lobby") /\ i # 3
  BY <1>5, <1>6
<1>8. ~(r.practice /\ ~OnResults(r)) => strip(r) = i - 1
  BY <1>4 DEF strip
<1>9. /\ strip(r) = 0 <=> r.stage = "Lobby"
      /\ strip(r) = 2 <=> r.practice /\ ~OnResults(r)
  BY <1>1, <1>2, <1>6, <1>7, <1>8 DEF OnResults
<1>10. strip(r) = 2 /\ r.stage # "Closed" => railDetail(r) \in {"practice", "instructions"}
  BY <1>1, <1>2, <1>3, <1>9 DEF railDetail, OnResults
<1>11. QED
  BY <1>3, <1>9, <1>10

\* All pages make one thing of the room, whoever looks at it.
LEMMA PagesShowOne == ASSUME DeskInv, ShownInv PROVE SameEverywhere
<1>1. PICK r \in Rooms : r = room
  BY DEF DeskInv
<1>2. RoomFacts(r)
  BY <1>1, RoomIsKnown DEF DeskInv, ShownInv
<1>3. ASSUME NEW p \in Personal(r)
      PROVE  LET said == phoneTells(r, p)
                 shown == displayTells(r, p)
             IN
             /\ p.conn /\ roundPublic(r) # "none" =>
                  /\ Taken(r, p) <=> Offered(r, p) # {}
                  /\ said \in {"go", "stop"} <=> "pad" \in Arena(r, p)
                  /\ chip(r, p) = "alive" /\ r.stage = "RoundActive" => "pad" \in Arena(r, p)
             /\ previewTells(r, p) = shown
             /\ said \in {shown, "eliminated", "finished", "reconnecting", "ready"}
             /\ resultCard(r, p) # {} <=> "resultCard" \in Arena(r, p)
             /\ ~r.paused /\ ~r.tie => ("eliminated" \in resultCard(r, p) <=> chip(r, p) = "out")
             /\ said = "reveal" => "awaitingReveal" \notin resultCard(r, p)
             /\ ~r.tie =>
                  /\ shown = "go" <=> signalPanel(r, p, "MANUAL") = {"RED"}
                  /\ shown = "stop" <=> signalPanel(r, p, "MANUAL") = {"GREEN"}
                  /\ ~r.paused => (contextText(r) = "raceActive" <=> shown \in {"go", "stop"})
             /\ "paused" \in signalPanel(r, p, "MANUAL") => shown = "paused"
             /\ answerStatus(r, p) \in {"acceptedTimeout", "noAnswerTimeout"} => Offered(r, p) = {}
  <2>1. PlayerFacts(r, p)
    BY PlayerIsKnown
  <2>2. Taken(r, p) <=> /\ r.stage = "RoundActive" /\ ~r.paused
                        /\ IF roundPublic(r) = "RLGL" THEN p.life = "alive" ELSE ~p.locked
    BY DEF Taken
  <2>3. p.conn /\ roundPublic(r) # "none" => (Taken(r, p) <=> Offered(r, p) # {})
    BY <1>2, <2>1, <2>2, ArenaOffers
  <2>4. phoneTells(r, p) \in {"go", "stop"} <=> "pad" \in Arena(r, p)
    BY <1>2, <2>1, ArenaOffers, PhoneSays DEF PadThere
  <2>5. p.conn /\ chip(r, p) = "alive" /\ r.stage = "RoundActive" => "pad" \in Arena(r, p)
    <3>1. chip(r, p) = "alive" => ~r.paused /\ p.life = "alive"
      BY DEF chip
    <3>2. p.life = "alive" => roundPublic(r) = "RLGL"
      BY <2>1 DEF PlayerFacts
    <3>3. QED
      BY <1>2, <2>1, <3>1, <3>2, ArenaOffers DEF PadThere
  <2>6. answerStatus(r, p) \in {"acceptedTimeout", "noAnswerTimeout"} => Offered(r, p) = {}
    <3>1. answerStatus(r, p) \in {"acceptedTimeout", "noAnswerTimeout"} => r.stage = "InputLocked"
      BY DEF answerStatus
    <3>2. QED
      BY <1>2, <2>1, <3>1, ArenaOffers
  <2>7. phoneTells(r, p) = "reveal" => "awaitingReveal" \notin resultCard(r, p)
    BY <1>2, <2>1, PhoneSays, CardSays
  <2>8. /\ previewTells(r, p) = displayTells(r, p)
        /\ phoneTells(r, p) \in {displayTells(r, p), "eliminated", "finished", "reconnecting", "ready"}
    BY <1>2, <2>1, DisplaySays, PhoneSays
  <2>9. QED
    BY <1>2, <2>1, <2>3, <2>4, <2>5, <2>6, <2>7, <2>8, CardSays, PanelOffers
<1>4. QED
  BY <1>1, <1>2, <1>3, ClocksAgree, PagerStands, RoundNamed, ProgressAgrees DEF SameEverywhere

\* After a reveal the button brings what the result cards announce.
LEMMA RevealGoesOn ==
  ASSUME NEW r \in Rooms, RoomFacts(r), r.stage = "Reveal", NEW a, a = primaryActionFor(r), Accepted(r, a),
         NEW then, then = Dispatched(r, Plain(a))
  PROVE  CASE nextText(r)[1] = "gameResults" -> then.stage = "GameResults" /\ (isFinalRace(r) \/ r.tie)
           [] OTHER -> then.stage = "Ready" /\ ~then.practice /\ roundNumber(then) = nextText(r)[2]
<1>1. r.cursor \in Int /\ ~r.paused /\ ~r.tie /\ RoundCount \in Nat
  BY DeskAssumption DEF RoomFacts, RoomOK, LiveStages
<1>2. a = IF r.practice THEN "START_GAME"
          ELSE IF roundNumber(r) >= RoundCount THEN "SHOW_GAME_RESULTS" ELSE "NEXT_ROUND"
  BY <1>1 DEF primaryActionFor
<1>3. Plain(a).action = a
  BY DEF Plain
<1>4. CASE r.practice
  <2>1. then = Prepared(r, "Ready", 0, FALSE, FALSE)
    BY <1>2, <1>3, <1>4, Zenon DEF Dispatched
  <2>2. then.stage = "Ready" /\ then.practice = FALSE /\ then.tie = FALSE /\ then.cursor = 0
    BY <2>1, Zenon DEF Prepared, Rooms
  <2>3. roundNumber(then) = 1 /\ nextText(r) = <<"startRound", 1>>
    BY <1>4, <2>2 DEF roundNumber, nextText
  <2>4. QED
    BY <2>2, <2>3
<1>5. CASE ~r.practice /\ roundNumber(r) >= RoundCount
  <2>1. then = [NoAttempt(r, "GameResults") EXCEPT !.podium = 0, !.page = 0]
    BY <1>2, <1>3, <1>5 DEF Dispatched
  <2>2. then.stage = "GameResults" /\ nextText(r)[1] = "gameResults" /\ isFinalRace(r)
    BY <1>5, <2>1 DEF Rooms, NoAttempt, nextText, isFinalRace
  <2>3. QED
    BY <2>2
<1>6. CASE ~r.practice /\ ~(roundNumber(r) >= RoundCount)
  <2>1. then = Prepared(r, "Ready", r.cursor + 1, FALSE, FALSE)
    BY <1>2, <1>3, <1>6, Zenon DEF Dispatched, NextCursor
  <2>2. PICK c : c = r.cursor + 1
    OBVIOUS
  <2>3. then.stage = "Ready" /\ then.practice = FALSE /\ then.tie = FALSE /\ then.cursor = c
    BY <2>1, <2>2, Zenon DEF Prepared, Rooms
  <2>4. roundNumber(then) = r.cursor + 2 /\ nextText(r) = <<"round", r.cursor + 2>>
    BY <1>1, <1>6, <2>2, <2>3 DEF roundNumber, nextText
  <2>5. QED
    BY <2>3, <2>4
<1>7. QED
  BY <1>4, <1>5, <1>6 DEF RoomFacts

\* After the results of a game the button brings the game that its podium announces.
LEMMA GameGoesOn ==
  ASSUME NEW r \in Rooms, RoomFacts(r), NEW a, a = primaryActionFor(r), a \in {"NEXT_GAME", "SHOW_FINAL_RESULTS"},
         NEW then, then = Dispatched(r, Plain(a))
  PROVE  nextGame(r) = IF then.stage = "TournamentResults" THEN then.stage ELSE gameType(then)
<1>1. r.game \in Int /\ ~r.paused /\ r.stage = "GameResults"
      /\ a = (IF LastGame(r) THEN "SHOW_FINAL_RESULTS" ELSE "NEXT_GAME")
  BY DEF RoomFacts, primaryActionFor
<1>2. Plain(a).action = a
  BY DEF Plain
<1>3. CASE LastGame(r)
  <2>1. then = [NoAttempt(r, "TournamentResults") EXCEPT !.ceremony = 0, !.page = 0]
    BY <1>1, <1>2, <1>3 DEF Dispatched
  <2>2. then.stage = "TournamentResults"
    BY <2>1 DEF NoAttempt, Rooms
  <2>3. QED
    BY <1>3, <2>2 DEF nextGame
<1>4. CASE ~LastGame(r)
  <2>1. PICK g, c : g = r.game + 1 /\ c = -1
    OBVIOUS
  <2>2. then = [NoAttempt(r, "Instructions") EXCEPT !.game = g, !.cursor = c]
    <3>1. NoAttempt(r, "Instructions").game = r.game
      BY DEF NoAttempt, Rooms
    <3>2. QED
      BY <1>1, <1>2, <1>4, <2>1, <3>1 DEF Dispatched
  <2>3. then.stage = "Instructions" /\ then.game = g
    BY <2>2 DEF NoAttempt, Rooms
  <2>4. gameType(then) = GAME_ORDER[r.game + 2]
    BY <1>1, <2>1, <2>3 DEF gameType
  <2>5. QED
    BY <1>4, <2>3, <2>4 DEF nextGame
<1>5. QED
  BY <1>3, <1>4

\* A step of the podium shows another place, unless the desk has warned that nobody has it.
LEMMA PodiumGoesOn ==
  ASSUME NEW r \in Rooms, RoomFacts(r), NEW a, a = primaryActionFor(r), a \in {"PODIUM_STEP", "CEREMONY_STEP"},
         NEW then, then = Dispatched(r, [action |-> a, arg |-> nextStepFor(r)])
  PROVE  /\ stepNote(r) <=> podium(then) = podium(r) /\ Step(then) < LastStep
         /\ celebrate(then) => celebrate(r) \/ ~stepNote(r)
<1>1. r.podium \in Nat /\ r.ceremony \in Nat /\ LastStep \in Nat \ {0} /\ EmptySteps \subseteq 1..LastStep - 1
  BY DeskAssumption DEF RoomFacts, RoomShown
<1>2. /\ a = "PODIUM_STEP" => r.stage = "GameResults" /\ r.podium < LastStep
      /\ a = "CEREMONY_STEP" => r.stage = "TournamentResults" /\ r.ceremony < LastStep
  BY DEF primaryActionFor
<1>3. PICK s \in Nat : s = Step(r)
  BY <1>1 DEF Step
<1>4. s < LastStep /\ nextStepFor(r) = s + 1
  BY <1>1, <1>2, <1>3 DEF Step, nextStepFor
<1>5. PICK k \in Nat \ {0} : k = s + 1 /\ k <= LastStep
  BY <1>1, <1>4
<1>6. Clamp(nextStepFor(r)) = k
  BY <1>1, <1>4, <1>5 DEF Clamp
<1>7. Step(then) = k
  <2>1. CASE a = "PODIUM_STEP"
    <3>1. then = [r EXCEPT !.podium = k]
      BY <1>6, <2>1 DEF Dispatched
    <3>2. QED
      BY <1>2, <2>1, <3>1 DEF Step, Rooms
  <2>2. CASE a = "CEREMONY_STEP"
    <3>1. then = [r EXCEPT !.ceremony = k]
      BY <1>6, <2>2 DEF Dispatched
    <3>2. QED
      BY <1>2, <2>2, <3>1 DEF Step, Rooms
  <2>3. QED
    BY <2>1, <2>2
<1>8. stepNote(r) <=> k \in (1..LastStep - 1) \cap EmptySteps
  BY <1>4, <1>5 DEF stepNote
<1>9. CASE k \in EmptySteps \/ k = LastStep
  <2>1. {m \in 1..LastStep - 1 : m <= k /\ m \notin EmptySteps} =
          {m \in 1..LastStep - 1 : m <= s /\ m \notin EmptySteps}
    BY <1>1, <1>5, <1>9
  <2>2. podium(then) = podium(r)
    BY <1>3, <1>7, <2>1 DEF podium
  <2>3. QED
    BY <1>1, <1>5, <1>7, <1>8, <1>9, <2>2 DEF celebrate
<1>10. CASE k \notin EmptySteps /\ k # LastStep
  <2>1. LastStep - k \in podium(then)
    BY <1>1, <1>5, <1>7, <1>10 DEF podium
  <2>2. LastStep - k \notin podium(r)
    BY <1>1, <1>3, <1>5 DEF podium
  <2>3. QED
    BY <1>8, <1>10, <2>1, <2>2
<1>11. QED
  BY <1>9, <1>10

LEMMA PagesTellNext == ASSUME DeskInv, ShownInv PROVE NextAsTold
<1>1. PICK r \in Rooms : r = room
  BY DEF DeskInv
<1>2. RoomFacts(r)
  BY <1>1, RoomIsKnown DEF DeskInv, ShownInv
<1>3. PICK a, press, then : a = primaryActionFor(r) /\ press = PrimaryPress(r) /\ then = Dispatched(r, press)
  OBVIOUS
<1>4. /\ press.action = a
      /\ a \in {"PODIUM_STEP", "CEREMONY_STEP"} => press = [action |-> a, arg |-> nextStepFor(r)]
      /\ a \notin {"PODIUM_STEP", "CEREMONY_STEP"} => press = Plain(a)
  BY <1>3 DEF PrimaryPress, Plain
<1>5. SUFFICES ASSUME a # "NONE", Accepted(r, a)
               PROVE  /\ Revealed(r) /\ r.stage = "Reveal" =>
                           CASE nextText(r)[1] = "gameResults" ->
                                  then.stage = "GameResults" /\ (isFinalRace(r) \/ r.tie)
                             [] OTHER -> then.stage = "Ready" /\ ~then.practice
                                           /\ roundNumber(then) = nextText(r)[2]
                      /\ a \in {"NEXT_GAME", "SHOW_FINAL_RESULTS"} =>
                           nextGame(r) = IF then.stage = "TournamentResults" THEN then.stage ELSE gameType(then)
                      /\ a \in {"PODIUM_STEP", "CEREMONY_STEP"} =>
                           /\ stepNote(r) <=> podium(then) = podium(r) /\ Step(then) < LastStep
                           /\ celebrate(then) => celebrate(r) \/ ~stepNote(r)
  BY <1>1, <1>3, <1>4 DEF NextAsTold
<1>6. CASE r.stage = "Reveal"
  <2>1. a \in {"START_GAME", "SHOW_GAME_RESULTS", "NEXT_ROUND"}
    BY <1>2, <1>3, <1>6 DEF primaryActionFor, RoomFacts, RoomOK, LiveStages
  <2>2. QED
    BY <1>2, <1>3, <1>4, <1>5, <1>6, <2>1, RevealGoesOn
<1>7. CASE r.stage # "Reveal"
  <2>1. a \in {"NEXT_GAME", "SHOW_FINAL_RESULTS"} =>
          nextGame(r) = IF then.stage = "TournamentResults" THEN then.stage ELSE gameType(then)
    BY <1>2, <1>3, <1>4, GameGoesOn
  <2>2. a \in {"PODIUM_STEP", "CEREMONY_STEP"} =>
          /\ stepNote(r) <=> podium(then) = podium(r) /\ Step(then) < LastStep
          /\ celebrate(then) => celebrate(r) \/ ~stepNote(r)
    BY <1>2, <1>3, <1>4, PodiumGoesOn
  <2>3. QED
    BY <1>7, <2>1, <2>2
<1>8. QED
  BY <1>6, <1>7

------------------------------------------------------------------------------
\* The pages together.

PagesInv == DisplayInv /\ PhoneInv /\ DeskInv /\ ShownInv

LEMMA PagesStart == Init => PagesInv
  BY DisplayStart, PhoneStart, DeskStart, ShownStart DEF Init, PagesInv

LEMMA PagesStep == PagesInv /\ [Next]_vars => PagesInv'
<1> SUFFICES ASSUME PagesInv, [Next]_vars PROVE PagesInv'
  OBVIOUS
<1>1. DisplayNext \/ UNCHANGED displayVars
  BY DEF Next, vars
<1>2. PhoneNext \/ UNCHANGED phoneVars
  BY DEF Next, vars
<1>3. DeskNext \/ UNCHANGED deskVars
  BY DEF Next, vars
<1>4. QED
  BY <1>1, <1>2, <1>3, DisplayStep, PhoneStep, DeskStep, ShownStep DEF PagesInv

\* In every state of the pages their invariants hold: the ids the display still has to hear
\* go up, the last tap of a phone is on the page, on its way or saved, a press that is under
\* way was made for the room or for one that it has gone on from, and the room stays within
\* its games and the pages and steps of its standings.
THEOREM PagesInvariant == Spec => []PagesInv
<1>1. Init => PagesInv
  BY PagesStart
<1>2. PagesInv /\ [Next]_vars => PagesInv'
  BY PagesStep
<1>3. QED
  BY <1>1, <1>2, PTL DEF Spec

\* The display never announces a death twice, nor leaves one out while it has heard of one
\* race only, and its cards flash for racers it has shown alive: however many racers, races
\* and reloads there are and however events and snapshots fall together.
THEOREM AnnouncedOnceThm == Spec => []AnnouncedOnce
<1>1. PagesInv => AnnouncedOnce
  BY EachDeathOnce DEF PagesInv
<1>2. QED
  BY <1>1, PagesInvariant, PTL

\* Once all is quiet and nothing was refused or lost, the server has the last answer a player
\* gave, locked or not, and the phone shows it: unless the player locked while the page
\* showed an older answer that a late reply had put back.
THEOREM LastTapKeptThm == Spec => []LastTapKept
<1>1. PagesInv => LastTapKept
  BY TapIsKept DEF PagesInv
<1>2. QED
  BY <1>1, PagesInvariant, PTL

\* The next action that the desk derives from the room is one that the server accepts in it.
THEOREM PrimaryAcceptedThm == Spec => []PrimaryAccepted
<1>1. PagesInv => PrimaryAccepted
  BY PrimaryIsAccepted DEF PagesInv
<1>2. QED
  BY <1>1, PagesInvariant, PTL

\* What the pages, each from its own copy of the rules, make of the room is one thing, now and
\* about the next step: for whatever fate and connection a player has, however many rounds,
\* pages and steps there are and whichever places a tie has left empty.
THEOREM PagesAgreeThm == Spec => []PagesAgree
<1>1. PagesInv => PagesAgree
  BY PagesShowOne, PagesTellNext DEF PagesInv, PagesAgree
<1>2. QED
  BY <1>1, PagesInvariant, PTL

\* A press that was made for another game, attempt or stage than the one it meets moves
\* nothing on, but for the press that ends a practice which has been taken back.
THEOREM StalePressHarmlessThm == Spec => StalePressHarmless
<1>1. PagesInv /\ [Next]_vars =>
        [\A s \in BagToSet(sent) : HandledLate(s) /\ ~PracticeTakenBack(s) => MovesNothing]_deskVars
  <2> SUFFICES ASSUME PagesInv, [Next]_vars, NEW s \in BagToSet(sent), HandledLate(s), ~PracticeTakenBack(s)
               PROVE  MovesNothing
    OBVIOUS
  <2>1. DeskNext \/ UNCHANGED deskVars
    BY DEF Next, vars
  <2>2. QED
    BY <2>1, LateMovesNothing DEF PagesInv
<1>2. QED
  BY <1>1, PagesInvariant, PTL DEF Spec, StalePressHarmless
=============================================================================
