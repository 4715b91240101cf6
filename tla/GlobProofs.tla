----------------------------- MODULE GlobProofs -----------------------------
(***************************************************************************)
(* Proofs about the glob matcher and the hierarchy roots, for every        *)
(* pattern and path: remembering one star at each level answers what the   *)
(* pattern means, and what a pattern matches lies beneath its literal      *)
(* start.                                                                  *)
(***************************************************************************)
EXTENDS MCLeaves, TLAPS, SequenceTheorems, FiniteSetTheorems, WellFoundedInduction

-----------------------------------------------------------------------------
(***************************************************************************)
(* Numbers.                                                                *)
(***************************************************************************)

\* A set of natural numbers has a least element.
LEMMA LeastNumber ==
    ASSUME NEW S \in SUBSET Nat, S # {}
    PROVE  \E m \in S : \A j \in S : m <= j
<1>1. PICK m \in S : \A j \in S : ~(<<j, m>> \in OpToRel(<, Nat))
  BY NatLessThanWellFounded, WFMin
<1>2. ASSUME NEW j \in S, j < m
      PROVE  FALSE
  <2>1. <<j, m>> \in {ss \in Nat \X Nat : ss[1] < ss[2]}
    BY <1>2
  <2>2. <<j, m>> \in OpToRel(<, Nat)
    BY <2>1, Zenon DEF OpToRel
  <2>. QED
    BY <1>1, <2>2
<1>. QED
  BY <1>2

\* What holds at the start of an interval and from each number to the next holds
\* throughout it.
LEMMA Climb ==
    ASSUME NEW lo \in Nat, NEW hi \in Nat, NEW S, lo \in S,
           \A k \in lo .. hi - 1 : k \in S => k + 1 \in S
    PROVE  lo .. hi \subseteq S
<1>. DEFINE T == (lo .. hi) \ S
<1>. SUFFICES ASSUME T # {} PROVE FALSE
  OBVIOUS
<1>1. T \in SUBSET Nat
  OBVIOUS
<1>2. PICK m \in T : \A j \in T : m <= j
  BY <1>1, LeastNumber
<1>3. m # lo /\ m - 1 \in lo .. hi - 1
  BY <1>2
<1>4. m - 1 \in S
  BY <1>2, <1>3
<1>. QED
  BY <1>2, <1>3, <1>4

-----------------------------------------------------------------------------
(***************************************************************************)
(* Laying a pattern over a text, at either level.                          *)
(***************************************************************************)


\* The elements of a pattern from p on can be laid over the text from t on: cut k
\* is where the piece of element k starts, a star takes any piece, every other
\* element one character that it meets.  Of the pattern its length m, the
\* positions of its stars and the pairs that meet are given, of the text its
\* length n.
Fits(m, n, stars, meets, p, t) ==
    \E cut \in [p .. m + 1 -> 1 .. n + 1] :
        /\ cut[p] = t /\ cut[m + 1] = n + 1
        /\ \A k \in p .. m :
              IF k \in stars THEN cut[k] <= cut[k + 1]
              ELSE cut[k + 1] = cut[k] + 1 /\ <<k, cut[k]>> \in meets

\* Nothing is left of the pattern.
LEMMA FitsEnd ==
    ASSUME NEW m \in Nat, NEW n \in Nat, NEW stars, NEW meets, NEW t \in 1 .. n + 1
    PROVE  Fits(m, n, stars, meets, m + 1, t) <=> t = n + 1
<1>1. ASSUME t = n + 1 PROVE Fits(m, n, stars, meets, m + 1, t)
  <2>. DEFINE c == [k \in m + 1 .. m + 1 |-> n + 1]
  <2>1. c \in [m + 1 .. m + 1 -> 1 .. n + 1] /\ c[m + 1] = n + 1 /\ m + 1 .. m = {}
    OBVIOUS
  <2>. HIDE DEF c
  <2>. QED
    BY <1>1, <2>1 DEF Fits
<1>. QED
  BY <1>1 DEF Fits

\* The piece of an element p starts at t and ends before u.
Takes(stars, meets, p, t, u) ==
    IF p \in stars THEN t <= u ELSE u = t + 1 /\ <<p, t>> \in meets

\* Leaving out the first piece.
LEMMA FitsTail ==
    ASSUME NEW m \in Nat, NEW n \in Nat, NEW stars, NEW meets,
           NEW p \in 1 .. m, NEW t \in 1 .. n + 1
    PROVE  Fits(m, n, stars, meets, p, t) <=>
              \E u \in 1 .. n + 1 :
                 /\ Fits(m, n, stars, meets, p + 1, u)
                 /\ Takes(stars, meets, p, t, u)
<1>1. ASSUME Fits(m, n, stars, meets, p, t)
      PROVE  \E u \in 1 .. n + 1 :
                 /\ Fits(m, n, stars, meets, p + 1, u)
                 /\ Takes(stars, meets, p, t, u)
  <2>1. PICK cut \in [p .. m + 1 -> 1 .. n + 1] :
           /\ cut[p] = t /\ cut[m + 1] = n + 1
           /\ \A k \in p .. m :
                 IF k \in stars THEN cut[k] <= cut[k + 1]
                 ELSE cut[k + 1] = cut[k] + 1 /\ <<k, cut[k]>> \in meets
    BY <1>1 DEF Fits
  <2>. DEFINE rest == [k \in p + 1 .. m + 1 |-> cut[k]]
  <2>2. rest \in [p + 1 .. m + 1 -> 1 .. n + 1]
    OBVIOUS
  <2>3. rest[p + 1] = cut[p + 1] /\ rest[m + 1] = n + 1
    BY <2>1
  <2>4. \A k \in p + 1 .. m :
           IF k \in stars THEN rest[k] <= rest[k + 1]
           ELSE rest[k + 1] = rest[k] + 1 /\ <<k, rest[k]>> \in meets
    BY <2>1
  <2>5. Fits(m, n, stars, meets, p + 1, cut[p + 1])
    BY <2>2, <2>3, <2>4 DEF Fits
  <2>6. cut[p + 1] \in 1 .. n + 1
    OBVIOUS
  <2>7. Takes(stars, meets, p, t, cut[p + 1])
    BY <2>1 DEF Takes
  <2>. QED
    BY <2>5, <2>6, <2>7
<1>2. ASSUME NEW u \in 1 .. n + 1, Fits(m, n, stars, meets, p + 1, u),
             Takes(stars, meets, p, t, u)
      PROVE  Fits(m, n, stars, meets, p, t)
  <2>1. PICK rest \in [p + 1 .. m + 1 -> 1 .. n + 1] :
           /\ rest[p + 1] = u /\ rest[m + 1] = n + 1
           /\ \A k \in p + 1 .. m :
                 IF k \in stars THEN rest[k] <= rest[k + 1]
                 ELSE rest[k + 1] = rest[k] + 1 /\ <<k, rest[k]>> \in meets
    BY <1>2 DEF Fits
  <2>. DEFINE cut == [k \in p .. m + 1 |-> IF k = p THEN t ELSE rest[k]]
  <2>2. cut \in [p .. m + 1 -> 1 .. n + 1]
    OBVIOUS
  <2>3. cut[p] = t /\ cut[p + 1] = u /\ cut[m + 1] = n + 1
    BY <2>1
  <2>4. ASSUME NEW k \in p .. m
        PROVE  IF k \in stars THEN cut[k] <= cut[k + 1]
               ELSE cut[k + 1] = cut[k] + 1 /\ <<k, cut[k]>> \in meets
    <3>1. CASE k = p
      BY <1>2, <2>3, <3>1 DEF Takes
    <3>2. CASE k # p
      <4>1. k \in p + 1 .. m /\ k + 1 \in p .. m + 1 /\ k + 1 # p
        BY <3>2
      <4>2. cut[k] = rest[k] /\ cut[k + 1] = rest[k + 1]
        BY <3>2, <4>1
      <4>. HIDE DEF cut
      <4>. QED
        BY <2>1, <4>1, <4>2
    <3>. QED
      BY <3>1, <3>2
  <2>. QED
    BY <2>2, <2>3, <2>4 DEF Fits
<1>. QED
  BY <1>1, <1>2

\* A star takes any piece.
LEMMA FitsStar ==
    ASSUME NEW m \in Nat, NEW n \in Nat, NEW stars, NEW meets,
           NEW p \in 1 .. m, NEW t \in 1 .. n + 1, p \in stars
    PROVE  Fits(m, n, stars, meets, p, t) <=>
              \E u \in t .. n + 1 : Fits(m, n, stars, meets, p + 1, u)
<1>1. Fits(m, n, stars, meets, p, t) <=>
          \E u \in 1 .. n + 1 :
             /\ Fits(m, n, stars, meets, p + 1, u)
             /\ Takes(stars, meets, p, t, u)
  BY FitsTail
<1>2. \A u : u \in t .. n + 1 <=> u \in 1 .. n + 1 /\ Takes(stars, meets, p, t, u)
  BY DEF Takes
<1>. QED
  BY <1>1, <1>2, Zenon

\* Any other element takes one character.
LEMMA FitsOne ==
    ASSUME NEW m \in Nat, NEW n \in Nat, NEW stars, NEW meets,
           NEW p \in 1 .. m, NEW t \in 1 .. n + 1, p \notin stars
    PROVE  Fits(m, n, stars, meets, p, t) <=>
              t <= n /\ <<p, t>> \in meets /\ Fits(m, n, stars, meets, p + 1, t + 1)
<1>1. Fits(m, n, stars, meets, p, t) <=>
          \E u \in 1 .. n + 1 :
             /\ Fits(m, n, stars, meets, p + 1, u)
             /\ Takes(stars, meets, p, t, u)
  BY FitsTail
<1>2. \A u \in 1 .. n + 1 :
         Takes(stars, meets, p, t, u) <=> t <= n /\ u = t + 1 /\ <<p, t>> \in meets
  BY DEF Takes
<1>3. t <= n => t + 1 \in 1 .. n + 1
  OBVIOUS
<1>. QED
  BY <1>1, <1>2, <1>3, Zenon

\* Elements without a star among them take one character each.
LEMMA FitsStraight ==
    ASSUME NEW m \in Nat, NEW n \in Nat, NEW stars, NEW meets,
           NEW p \in 1 .. m + 1, NEW t \in 1 .. n + 1, NEW q \in p .. m + 1,
           \A k \in p .. q - 1 : k \notin stars,
           Fits(m, n, stars, meets, p, t)
    PROVE  /\ t + (q - p) <= n + 1
           /\ Fits(m, n, stars, meets, q, t + (q - p))
           /\ \A k \in p .. q - 1 : <<k, t + (k - p)>> \in meets
<1>. DEFINE S == {k \in Nat : /\ t + (k - p) <= n + 1
                              /\ Fits(m, n, stars, meets, k, t + (k - p))
                              /\ \A j \in p .. k - 1 : <<j, t + (j - p)>> \in meets}
<1>1. p \in S
  BY SMT
<1>2. ASSUME NEW k \in p .. q - 1, k \in S PROVE k + 1 \in S
  <2>1. k \in 1 .. m /\ k \notin stars /\ t + (k - p) \in 1 .. n + 1
    BY <1>2
  <2>2. /\ t + (k - p) <= n /\ <<k, t + (k - p)>> \in meets
        /\ Fits(m, n, stars, meets, k + 1, t + (k - p) + 1)
    BY <1>2, <2>1, FitsOne
  <2>3. t + (k - p) + 1 = t + ((k + 1) - p)
    BY <2>1
  <2>4. \A j \in p .. (k + 1) - 1 : j = k \/ j \in p .. k - 1
    BY <2>1
  <2>. QED
    BY <1>2, <2>1, <2>2, <2>3, <2>4
<1>3. q \in S
  <2>. HIDE DEF S
  <2>1. p \in Nat /\ q \in Nat /\ q \in p .. q
    OBVIOUS
  <2>2. p .. q \subseteq S
    BY <1>1, <1>2, <2>1, Climb
  <2>. QED
    BY <2>1, <2>2
<1>. QED
  BY <1>3

\* At the end of the text only stars may be left.
LEMMA FitsStars ==
    ASSUME NEW m \in Nat, NEW n \in Nat, NEW stars, NEW meets, NEW p \in 1 .. m + 1
    PROVE  Fits(m, n, stars, meets, p, n + 1) <=> \A k \in p .. m : k \in stars
<1>1. ASSUME Fits(m, n, stars, meets, p, n + 1)
      PROVE  \A k \in p .. m : k \in stars
  <2>. DEFINE S == {k \in Nat : /\ Fits(m, n, stars, meets, k, n + 1)
                                /\ \A j \in p .. k - 1 : j \in stars}
  <2>1. p \in S
    BY <1>1
  <2>2. ASSUME NEW k \in p .. (m + 1) - 1, k \in S PROVE k + 1 \in S
    <3>1. k \in 1 .. m /\ n + 1 \in 1 .. n + 1
      BY <2>2
    <3>2. k \in stars
      <4>1. Fits(m, n, stars, meets, k, n + 1)
        BY <2>2
      <4>2. k \notin stars => n + 1 <= n
        BY <3>1, <4>1, FitsOne
      <4>. QED
        BY <4>2
    <3>3. PICK u \in n + 1 .. n + 1 : Fits(m, n, stars, meets, k + 1, u)
      BY <2>2, <3>1, <3>2, FitsStar
    <3>4. Fits(m, n, stars, meets, k + 1, n + 1)
      BY <3>3
    <3>5. \A j \in p .. (k + 1) - 1 : j = k \/ j \in p .. k - 1
      BY <3>1
    <3>. QED
      BY <2>2, <3>1, <3>2, <3>4, <3>5
  <2>3. m + 1 \in S
    <3>. HIDE DEF S
    <3>1. p \in Nat /\ m + 1 \in Nat /\ m + 1 \in p .. m + 1
      OBVIOUS
    <3>2. p .. m + 1 \subseteq S
      BY <2>1, <2>2, <3>1, Climb
    <3>. QED
      BY <3>1, <3>2
  <2>. QED
    BY <2>3
<1>2. ASSUME \A k \in p .. m : k \in stars
      PROVE  Fits(m, n, stars, meets, p, n + 1)
  <2>. DEFINE c == [k \in p .. m + 1 |-> n + 1]
  <2>1. c \in [p .. m + 1 -> 1 .. n + 1] /\ c[p] = n + 1 /\ c[m + 1] = n + 1
    OBVIOUS
  <2>2. \A k \in p .. m : c[k] <= c[k + 1]
    OBVIOUS
  <2>. QED
    BY <1>2, <2>1, <2>2 DEF Fits
<1>. QED
  BY <1>1, <1>2

-----------------------------------------------------------------------------
(***************************************************************************)
(* The cursor of either loop.                                              *)
(***************************************************************************)

\* The cursors over a pattern of length m and a text of length n.
Cursors(m, n) == [p : 1 .. m + 1, t : 1 .. n + 1, sp : 0 .. m, st : 0 .. n + 1]

\* A longer piece for the remembered star would do.
Retry(m, n, stars, meets, c) ==
    c.sp # 0 /\ \E u \in c.st + 1 .. n + 1 : Fits(m, n, stars, meets, c.sp + 1, u)

\* Since the last star no other was met, and the text was consumed in step.
InStep(stars, c) ==
    c.sp # 0 =>
        /\ c.sp \in stars /\ c.sp < c.p /\ 1 <= c.st
        /\ c.p - c.sp - 1 = c.t - c.st
        /\ \A k \in c.sp + 1 .. c.p - 1 : k \notin stars

\* The loops' invariant: the whole pattern fits the whole text exactly when the
\* rest of the one fits the rest of the other or the last star can take more.
\* Stars before the last need not be gone back to.
Sound(m, n, stars, meets, c) ==
    /\ c \in Cursors(m, n)
    /\ InStep(stars, c)
    /\ Fits(m, n, stars, meets, 1, 1) <=>
          Fits(m, n, stars, meets, c.p, c.t) \/ Retry(m, n, stars, meets, c)

\* A loop starts at both beginnings.
LEMMA SoundStart ==
    ASSUME NEW m \in Nat, NEW n \in Nat, NEW stars, NEW meets
    PROVE  Sound(m, n, stars, meets, Glob!Start)
BY DEF Sound, Cursors, InStep, Retry, Glob!Start

\* An element that meets the next of the text is consumed with it.
LEMMA SoundConsume ==
    ASSUME NEW m \in Nat, NEW n \in Nat, NEW stars, NEW meets, NEW c,
           Sound(m, n, stars, meets, c), c.p <= m, c.t <= n,
           c.p \notin stars, <<c.p, c.t>> \in meets
    PROVE  Sound(m, n, stars, meets, Glob!Consume(c))
<1>. DEFINE d == Glob!Consume(c)
<1>1. /\ c \in Cursors(m, n) /\ c.p \in 1 .. m /\ c.t \in 1 .. n + 1
      /\ c.sp \in 0 .. m /\ c.st \in 0 .. n + 1
  BY DEF Sound, Cursors
<1>2. /\ d \in Cursors(m, n) /\ d.p = c.p + 1 /\ d.t = c.t + 1
      /\ d.sp = c.sp /\ d.st = c.st
  <2>1. c.p + 1 \in 1 .. m + 1 /\ c.t + 1 \in 1 .. n + 1
    BY <1>1
  <2>2. d = [c EXCEPT !.p = c.p + 1, !.t = c.t + 1]
    BY DEF Glob!Consume
  <2>. QED
    BY <1>1, <2>1, <2>2 DEF Cursors
<1>3. Fits(m, n, stars, meets, c.p, c.t) <=> Fits(m, n, stars, meets, d.p, d.t)
  BY <1>1, <1>2, FitsOne
<1>4. Retry(m, n, stars, meets, c) <=> Retry(m, n, stars, meets, d)
  BY <1>2 DEF Retry
<1>5. InStep(stars, d)
  <2>. HIDE DEF d
  <2>. SUFFICES ASSUME d.sp # 0
                PROVE  /\ d.sp \in stars /\ d.sp < d.p /\ 1 <= d.st
                       /\ d.p - d.sp - 1 = d.t - d.st
                       /\ \A k \in d.sp + 1 .. d.p - 1 : k \notin stars
    BY DEF InStep
  <2>1. /\ c.sp \in stars /\ c.sp < c.p /\ 1 <= c.st
        /\ c.p - c.sp - 1 = c.t - c.st
        /\ \A k \in c.sp + 1 .. c.p - 1 : k \notin stars
    BY <1>2 DEF Sound, InStep
  <2>2. \A k \in c.sp + 1 .. c.p : k = c.p \/ k \in c.sp + 1 .. c.p - 1
    BY <1>1
  <2>. QED
    BY <1>1, <1>2, <2>1, <2>2
<1>. HIDE DEF d
<1>6. Sound(m, n, stars, meets, d)
  BY <1>2, <1>3, <1>4, <1>5 DEF Sound
<1>. QED
  BY <1>6 DEF d

\* A longer piece for the last star leaves the elements behind it to the later
\* text: they fit in step up to where the cursor is.
LEMMA RetryShifts ==
    ASSUME NEW m \in Nat, NEW n \in Nat, NEW stars, NEW meets,
           NEW c \in Cursors(m, n), InStep(stars, c), Retry(m, n, stars, meets, c)
    PROVE  \E v \in c.t + 1 .. n + 1 : Fits(m, n, stars, meets, c.p, v)
<1>1. /\ c.p \in 1 .. m + 1 /\ c.t \in 1 .. n + 1 /\ c.sp \in 1 .. m /\ c.st \in 1 .. n + 1
      /\ c.sp < c.p /\ c.p - c.sp - 1 = c.t - c.st
      /\ \A k \in c.sp + 1 .. c.p - 1 : k \notin stars
  BY DEF Cursors, InStep, Retry
<1>2. PICK u \in c.st + 1 .. n + 1 : Fits(m, n, stars, meets, c.sp + 1, u)
  BY DEF Retry
<1>3. c.sp + 1 \in 1 .. m + 1 /\ u \in 1 .. n + 1 /\ c.p \in c.sp + 1 .. m + 1
  BY <1>1
<1>4. /\ u + (c.p - (c.sp + 1)) <= n + 1
      /\ Fits(m, n, stars, meets, c.p, u + (c.p - (c.sp + 1)))
  BY <1>1, <1>2, <1>3, FitsStraight
<1>5. u + (c.p - (c.sp + 1)) = u + (c.t - c.st)
  BY <1>1
<1>6. u + (c.t - c.st) \in c.t + 1 .. n + 1
  BY <1>1, <1>4, <1>5
<1>. QED
  BY <1>4, <1>5, <1>6

\* A star is remembered, and the one before it forgotten.
LEMMA SoundRemember ==
    ASSUME NEW m \in Nat, NEW n \in Nat, NEW stars, NEW meets, NEW c,
           Sound(m, n, stars, meets, c), c.p <= m, c.p \in stars
    PROVE  Sound(m, n, stars, meets, Glob!Remember(c))
<1>. DEFINE d == Glob!Remember(c)
<1>1. /\ c \in Cursors(m, n) /\ c.p \in 1 .. m /\ c.t \in 1 .. n + 1
      /\ c.sp \in 0 .. m /\ c.st \in 0 .. n + 1
  BY DEF Sound, Cursors
<1>2. /\ d \in Cursors(m, n) /\ d.p = c.p + 1 /\ d.t = c.t
      /\ d.sp = c.p /\ d.st = c.t
  <2>1. c.p + 1 \in 1 .. m + 1 /\ c.p \in 0 .. m /\ c.t \in 0 .. n + 1
    BY <1>1
  <2>2. d = [c EXCEPT !.p = c.p + 1, !.sp = c.p, !.st = c.t]
    BY DEF Glob!Remember
  <2>. QED
    BY <1>1, <2>1, <2>2 DEF Cursors
<1>. HIDE DEF d
<1>3. InStep(stars, d)
  BY <1>1, <1>2 DEF InStep
<1>4. Fits(m, n, stars, meets, c.p, c.t) <=>
         \E u \in c.t .. n + 1 : Fits(m, n, stars, meets, c.p + 1, u)
  BY <1>1, FitsStar
<1>5. Fits(m, n, stars, meets, d.p, d.t) \/ Retry(m, n, stars, meets, d) <=>
         \E u \in c.t .. n + 1 : Fits(m, n, stars, meets, c.p + 1, u)
  <2>1. d.sp # 0
    BY <1>1, <1>2
  <2>2. \A u : u \in c.t .. n + 1 <=> u = c.t \/ u \in c.t + 1 .. n + 1
    BY <1>1
  <2>3. Retry(m, n, stars, meets, d) <=>
           \E u \in c.t + 1 .. n + 1 : Fits(m, n, stars, meets, c.p + 1, u)
    BY <1>2, <2>1 DEF Retry
  <2>. QED
    BY <1>2, <2>2, <2>3
<1>6. ASSUME Retry(m, n, stars, meets, c)
      PROVE  Fits(m, n, stars, meets, c.p, c.t)
  <2>1. PICK v \in c.t + 1 .. n + 1 : Fits(m, n, stars, meets, c.p, v)
    BY <1>1, <1>6, RetryShifts DEF Sound
  <2>2. v \in 1 .. n + 1
    BY <1>1
  <2>3. PICK u \in v .. n + 1 : Fits(m, n, stars, meets, c.p + 1, u)
    BY <1>1, <2>1, <2>2, FitsStar
  <2>4. u \in c.t .. n + 1
    BY <1>1, <2>1, <2>3
  <2>. QED
    BY <1>4, <2>3, <2>4
<1>7. Sound(m, n, stars, meets, d)
  BY <1>2, <1>3, <1>4, <1>5, <1>6 DEF Sound
<1>. QED
  BY <1>7 DEF d

\* Where nothing fits from here on the last star takes one element more.
LEMMA SoundGoBack ==
    ASSUME NEW m \in Nat, NEW n \in Nat, NEW stars, NEW meets, NEW c,
           Sound(m, n, stars, meets, c), c.sp # 0, c.t <= n,
           ~Fits(m, n, stars, meets, c.p, c.t)
    PROVE  Sound(m, n, stars, meets, Glob!GoBack(c))
<1>. DEFINE d == Glob!GoBack(c)
<1>1. /\ c \in Cursors(m, n) /\ c.p \in 1 .. m + 1 /\ c.t \in 1 .. n
      /\ c.sp \in 1 .. m /\ c.st \in 1 .. n /\ c.sp \in stars
  BY DEF Sound, Cursors, InStep
<1>2. /\ d \in Cursors(m, n) /\ d.p = c.sp + 1 /\ d.t = c.st + 1
      /\ d.sp = c.sp /\ d.st = c.st + 1
  <2>1. c.sp + 1 \in 1 .. m + 1 /\ c.st + 1 \in 0 .. n + 1 /\ c.st + 1 \in 1 .. n + 1
    BY <1>1
  <2>2. d = [c EXCEPT !.p = c.sp + 1, !.st = c.st + 1, !.t = c.st + 1]
    BY DEF Glob!GoBack
  <2>. QED
    BY <1>1, <2>1, <2>2 DEF Cursors
<1>. HIDE DEF d
<1>3. InStep(stars, d)
  BY <1>1, <1>2 DEF InStep
<1>4. Fits(m, n, stars, meets, 1, 1) <=> Retry(m, n, stars, meets, c)
  BY DEF Sound
<1>5. Retry(m, n, stars, meets, c) <=>
         \E u \in c.st + 1 .. n + 1 : Fits(m, n, stars, meets, c.sp + 1, u)
  BY DEF Retry
<1>6. Retry(m, n, stars, meets, d) <=>
         \E u \in c.st + 2 .. n + 1 : Fits(m, n, stars, meets, c.sp + 1, u)
  <2>1. d.sp # 0 /\ d.st + 1 = c.st + 2
    BY <1>1, <1>2
  <2>. QED
    BY <1>2, <2>1 DEF Retry
<1>7. \A u : u \in c.st + 1 .. n + 1 <=> u = c.st + 1 \/ u \in c.st + 2 .. n + 1
  BY <1>1
<1>8. Fits(m, n, stars, meets, 1, 1) <=>
         Fits(m, n, stars, meets, d.p, d.t) \/ Retry(m, n, stars, meets, d)
  BY <1>2, <1>4, <1>5, <1>6, <1>7
<1>9. Sound(m, n, stars, meets, d)
  BY <1>2, <1>3, <1>8 DEF Sound
<1>. QED
  BY <1>9 DEF d

\* A pattern that is exhausted, and an element that does not meet the text, do
\* not fit.
LEMMA Misfit ==
    ASSUME NEW m \in Nat, NEW n \in Nat, NEW stars, NEW meets, NEW c \in Cursors(m, n),
           c.t <= n, c.p <= m => c.p \notin stars /\ <<c.p, c.t>> \notin meets
    PROVE  ~Fits(m, n, stars, meets, c.p, c.t)
<1>1. c.p \in 1 .. m + 1 /\ c.t \in 1 .. n + 1
  BY DEF Cursors
<1>2. CASE c.p = m + 1
  BY <1>1, <1>2, FitsEnd
<1>3. CASE c.p <= m
  <2>1. c.p \in 1 .. m /\ c.p \notin stars /\ <<c.p, c.t>> \notin meets
    BY <1>1, <1>3
  <2>. QED
    BY <1>1, <2>1, FitsOne
<1>. QED
  BY <1>1, <1>2, <1>3

\* Without a star to go back to the answer is no.
LEMMA SoundNo ==
    ASSUME NEW m \in Nat, NEW n \in Nat, NEW stars, NEW meets, NEW c,
           Sound(m, n, stars, meets, c), c.sp = 0,
           ~Fits(m, n, stars, meets, c.p, c.t)
    PROVE  ~Fits(m, n, stars, meets, 1, 1)
BY DEF Sound, Retry

\* When the text is consumed, the pattern fits exactly when stars alone are left.
LEMMA SoundEnd ==
    ASSUME NEW m \in Nat, NEW n \in Nat, NEW stars, NEW meets, NEW c,
           Sound(m, n, stars, meets, c), ~(c.t <= n)
    PROVE  Fits(m, n, stars, meets, 1, 1) <=> \A k \in c.p .. m : k \in stars
<1>1. c \in Cursors(m, n) /\ c.p \in 1 .. m + 1 /\ c.t = n + 1
  BY DEF Sound, Cursors
<1>2. ~Retry(m, n, stars, meets, c)
  <2>. SUFFICES ASSUME Retry(m, n, stars, meets, c) PROVE FALSE
    OBVIOUS
  <2>1. PICK v \in c.t + 1 .. n + 1 : Fits(m, n, stars, meets, c.p, v)
    BY <1>1, RetryShifts DEF Sound
  <2>. QED
    BY <1>1, <2>1
<1>3. Fits(m, n, stars, meets, c.p, n + 1) <=> \A k \in c.p .. m : k \in stars
  BY <1>1, FitsStars
<1>. QED
  BY <1>1, <1>2, <1>3 DEF Sound

-----------------------------------------------------------------------------
(***************************************************************************)
(* Cutting a text into pieces.                                             *)
(***************************************************************************)

\* The members of a set below a number; how many there are is its rank.
Below(C, i) == {j \in C : j < i}

\* Ranks rise with the members.
LEMMA RanksRise ==
    ASSUME NEW C \in SUBSET Nat, IsFiniteSet(C), NEW i \in C, NEW j \in C, i < j
    PROVE  /\ Cardinality(Below(C, i)) \in Nat /\ Cardinality(Below(C, j)) \in Nat
           /\ Cardinality(Below(C, i)) < Cardinality(Below(C, j))
<1>1. Below(C, i) \in SUBSET C /\ Below(C, j) \in SUBSET C
  BY DEF Below
<1>2. IsFiniteSet(Below(C, i)) /\ IsFiniteSet(Below(C, j))
  BY <1>1, FS_Subset
<1>3. Cardinality(Below(C, i)) \in Nat /\ Cardinality(Below(C, j)) \in Nat
  BY <1>2, FS_CardinalityType
<1>4. i \notin Below(C, i)
  BY DEF Below
<1>5. /\ IsFiniteSet(Below(C, i) \cup {i})
      /\ Cardinality(Below(C, i) \cup {i}) = Cardinality(Below(C, i)) + 1
  BY <1>2, <1>4, FS_AddElement
<1>6. Below(C, i) \cup {i} \in SUBSET Below(C, j)
  <2>1. \A x \in C : x \in Nat
    OBVIOUS
  <2>2. \A x \in Below(C, i) \cup {i} : x \in C /\ x <= i
    BY <2>1 DEF Below
  <2>3. \A x \in C : x <= i => x < j
    BY <2>1
  <2>. QED
    BY <2>2, <2>3 DEF Below
<1>7. Cardinality(Below(C, i) \cup {i}) <= Cardinality(Below(C, j))
  BY <1>2, <1>6, FS_Subset
<1>. QED
  BY <1>3, <1>5, <1>7

\* Every rank is taken.
LEMMA RanksTaken ==
    ASSUME NEW C \in SUBSET Nat, IsFiniteSet(C),
           NEW k \in Nat, k < Cardinality(C)
    PROVE  \E i \in C : Cardinality(Below(C, i)) = k
<1>. DEFINE S == {r \in Nat : r < Cardinality(C) => \E i \in C : Cardinality(Below(C, i)) = r}
<1>1. 0 \in S
  <2>. SUFFICES ASSUME 0 < Cardinality(C)
                PROVE  \E i \in C : Cardinality(Below(C, i)) = 0
    OBVIOUS
  <2>1. C # {}
    BY FS_EmptySet
  <2>2. PICK i \in C : \A j \in C : i <= j
    BY <2>1, LeastNumber
  <2>3. \A j \in C : ~(j < i)
    BY <2>2
  <2>4. Below(C, i) = {}
    BY <2>3 DEF Below
  <2>. QED
    BY <2>4, FS_EmptySet
<1>2. ASSUME NEW r \in 0 .. k - 1, r \in S PROVE r + 1 \in S
  <2>. SUFFICES ASSUME r + 1 < Cardinality(C)
                PROVE  \E i \in C : Cardinality(Below(C, i)) = r + 1
    OBVIOUS
  <2>0. Cardinality(C) \in Nat
    BY FS_CardinalityType
  <2>1. PICK i \in C : Cardinality(Below(C, i)) = r
    BY <1>2, <2>0
  <2>2. Below(C, i) \in SUBSET C /\ i \notin Below(C, i)
    BY DEF Below
  <2>3. IsFiniteSet(Below(C, i))
    BY <2>2, FS_Subset
  <2>4. Cardinality(Below(C, i) \cup {i}) = r + 1
    BY <2>1, <2>2, <2>3, FS_AddElement
  <2>. DEFINE Above == {j \in C : i < j}
  <2>5. Above # {}
    <3>. SUFFICES ASSUME Above = {} PROVE FALSE
      OBVIOUS
    <3>1. \A j \in C : j < i \/ j = i
      OBVIOUS
    <3>2. C = Below(C, i) \cup {i}
      BY <3>1 DEF Below
    <3>. QED
      BY <2>4, <3>2
  <2>6. Above \in SUBSET Nat
    OBVIOUS
  <2>7. PICK n \in Above : \A j \in Above : n <= j
    BY <2>5, <2>6, LeastNumber
  <2>8. \A j \in C : j < n <=> j < i \/ j = i
    <3>. SUFFICES ASSUME NEW j \in C PROVE j < n <=> j < i \/ j = i
      OBVIOUS
    <3>1. j \in Nat /\ n \in Nat /\ i \in Nat /\ i < n
      BY <2>7
    <3>2. i < j => n <= j
      BY <2>7
    <3>. QED
      BY <3>1, <3>2
  <2>9. Below(C, n) = Below(C, i) \cup {i}
    <3>. HIDE DEF Above
    <3>. QED
      BY <2>8 DEF Below
  <2>. QED
    BY <2>4, <2>7, <2>9
<1>3. k \in S
  <2>. HIDE DEF S
  <2>1. 0 \in Nat /\ k \in 0 .. k
    OBVIOUS
  <2>2. 0 .. k \subseteq S
    BY <1>1, <1>2, <2>1, Climb
  <2>. QED
    BY <2>1, <2>2
<1>. QED
  BY <1>3

\* Glob counts as this module does.
LEMMA SameCount ==
    \A S : Glob!Cardinality(S) = Cardinality(S)
BY DEF Glob!Cardinality, Cardinality

\* The number of pieces of a text.
Pieces(s) == Cardinality(Glob!Cuts(s)) - 1

\* A text is cut before and behind it, and nowhere beyond.
LEMMA CutsBounded ==
    ASSUME NEW s \in Seq(STRING)
    PROVE  /\ Glob!Cuts(s) \in SUBSET Nat /\ IsFiniteSet(Glob!Cuts(s))
           /\ Glob!Cuts(s) \subseteq 0 .. Len(s) + 1
           /\ 0 \in Glob!Cuts(s) /\ Len(s) + 1 \in Glob!Cuts(s)
           /\ \A i \in 1 .. Len(s) : i \in Glob!Cuts(s) <=> s[i] = Glob!Separator
           /\ Pieces(s) \in Nat \ {0} /\ Cardinality(Glob!Cuts(s)) = Pieces(s) + 1
<1>0. Len(s) \in Nat /\ DOMAIN s = 1 .. Len(s)
  BY LenProperties
<1>1. /\ Glob!Cuts(s) \subseteq 0 .. Len(s) + 1
      /\ 0 \in Glob!Cuts(s) /\ Len(s) + 1 \in Glob!Cuts(s)
      /\ \A i \in 1 .. Len(s) : i \in Glob!Cuts(s) <=> s[i] = Glob!Separator
  BY <1>0 DEF Glob!Cuts
<1>2. IsFiniteSet(0 .. Len(s) + 1)
  BY <1>0, FS_Interval
<1>3. IsFiniteSet(Glob!Cuts(s))
  BY <1>1, <1>2, FS_Subset
<1>4. Cardinality(Glob!Cuts(s)) \in Nat
  BY <1>3, FS_CardinalityType
<1>5. Cardinality({0}) = 1 /\ IsFiniteSet({0})
  BY FS_Singleton
<1>6. Cardinality({0} \cup {Len(s) + 1}) = 2
  <2>. DEFINE Z == {0}
              n == Len(s) + 1
  <2>1. n \notin Z /\ IsFiniteSet(Z) /\ Cardinality(Z) = 1
    BY <1>0, <1>5
  <2>. HIDE DEF Z, n
  <2>2. Cardinality(Z \cup {n}) = Cardinality(Z) + 1
    BY <2>1, FS_AddElement
  <2>. QED
    BY <2>1, <2>2 DEF Z, n
<1>7. {0} \cup {Len(s) + 1} \in SUBSET Glob!Cuts(s)
  BY <1>1
<1>8. 2 <= Cardinality(Glob!Cuts(s))
  BY <1>3, <1>6, <1>7, FS_Subset
<1>. QED
  BY <1>0, <1>1, <1>3, <1>4, <1>8 DEF Pieces

\* The k-th cut is the one of rank k - 1.
LEMMA CutAtRank ==
    ASSUME NEW s \in Seq(STRING), NEW k \in 1 .. Pieces(s) + 1
    PROVE  /\ Glob!CutAt(s, k) \in Glob!Cuts(s)
           /\ Cardinality(Below(Glob!Cuts(s), Glob!CutAt(s, k))) = k - 1
<1>. DEFINE C == Glob!Cuts(s)
<1>1. C \in SUBSET Nat /\ IsFiniteSet(C) /\ Cardinality(C) = Pieces(s) + 1 /\ Pieces(s) \in Nat
  BY CutsBounded
<1>. HIDE DEF C
<1>2. k - 1 \in Nat /\ k - 1 < Cardinality(C)
  BY <1>1
<1>3. \E i \in C : Cardinality(Below(C, i)) = k - 1
  BY <1>1, <1>2, RanksTaken
<1>4. \E i \in Glob!Cuts(s) : Cardinality({j \in Glob!Cuts(s) : j < i}) = k - 1
  BY <1>3 DEF Below, C
<1>5. /\ Glob!CutAt(s, k) \in Glob!Cuts(s)
      /\ Cardinality({j \in Glob!Cuts(s) : j < Glob!CutAt(s, k)}) = k - 1
  <2>1. \E i \in Glob!Cuts(s) : Glob!Cardinality({j \in Glob!Cuts(s) : j < i}) = k - 1
    BY <1>4, SameCount
  <2>2. /\ Glob!CutAt(s, k) \in Glob!Cuts(s)
        /\ Glob!Cardinality({j \in Glob!Cuts(s) : j < Glob!CutAt(s, k)}) = k - 1
    BY <2>1, Zenon DEF Glob!CutAt
  <2>. QED
    BY <2>2, SameCount
<1>. QED
  BY <1>5 DEF Below

\* Cuts are in order, and ranks tell them apart.
LEMMA CutsOrdered ==
    ASSUME NEW s \in Seq(STRING), NEW i \in Glob!Cuts(s), NEW j \in Glob!Cuts(s)
    PROVE  i < j <=> Cardinality(Below(Glob!Cuts(s), i)) < Cardinality(Below(Glob!Cuts(s), j))
<1>1. Glob!Cuts(s) \in SUBSET Nat /\ IsFiniteSet(Glob!Cuts(s))
  BY CutsBounded
<1>2. CASE i < j
  BY <1>1, <1>2, RanksRise
<1>3. CASE j < i
  <2>1. /\ Cardinality(Below(Glob!Cuts(s), j)) \in Nat
        /\ Cardinality(Below(Glob!Cuts(s), i)) \in Nat
        /\ Cardinality(Below(Glob!Cuts(s), j)) < Cardinality(Below(Glob!Cuts(s), i))
    BY <1>1, <1>3, RanksRise
  <2>. QED
    BY <1>1, <1>3, <2>1
<1>4. CASE i = j
  <2>1. Below(Glob!Cuts(s), i) \in SUBSET Glob!Cuts(s)
    BY DEF Below
  <2>2. Cardinality(Below(Glob!Cuts(s), i)) \in Nat
    BY <1>1, <2>1, FS_Subset, FS_CardinalityType
  <2>. QED
    BY <1>1, <1>4, <2>2
<1>. QED
  BY <1>1, <1>2, <1>3, <1>4

\* The k-th cut is left of the l-th.
LEMMA CutAtRises ==
    ASSUME NEW s \in Seq(STRING), NEW k \in 1 .. Pieces(s) + 1, NEW l \in 1 .. Pieces(s) + 1,
           k < l
    PROVE  /\ Glob!CutAt(s, k) \in 0 .. Len(s) + 1 /\ Glob!CutAt(s, l) \in 0 .. Len(s) + 1
           /\ Glob!CutAt(s, k) < Glob!CutAt(s, l)
<1>1. Glob!CutAt(s, k) \in Glob!Cuts(s) /\ Glob!CutAt(s, l) \in Glob!Cuts(s)
  BY CutAtRank
<1>2. Pieces(s) \in Nat
  BY CutsBounded
<1>3. Cardinality(Below(Glob!Cuts(s), Glob!CutAt(s, k))) = k - 1
  BY CutAtRank
<1>4. Cardinality(Below(Glob!Cuts(s), Glob!CutAt(s, l))) = l - 1
  BY CutAtRank
<1>5. k - 1 < l - 1
  BY <1>2
<1>6. Glob!CutAt(s, k) < Glob!CutAt(s, l)
  BY <1>1, <1>3, <1>4, <1>5, CutsOrdered
<1>. QED
  BY <1>1, <1>6, CutsBounded

\* A cut of rank k - 1 is the k-th.
LEMMA CutOfRank ==
    ASSUME NEW s \in Seq(STRING), NEW k \in 1 .. Pieces(s) + 1, NEW i \in Glob!Cuts(s),
           Cardinality(Below(Glob!Cuts(s), i)) = k - 1
    PROVE  Glob!CutAt(s, k) = i
<1>1. /\ Glob!CutAt(s, k) \in Glob!Cuts(s)
      /\ Cardinality(Below(Glob!Cuts(s), Glob!CutAt(s, k))) = k - 1
  BY CutAtRank
<1>2. k - 1 \in Nat /\ ~(k - 1 < k - 1)
  BY CutsBounded
<1>3. ~(Glob!CutAt(s, k) < i) /\ ~(i < Glob!CutAt(s, k))
  BY <1>1, <1>2, CutsOrdered
<1>4. i \in Nat /\ Glob!CutAt(s, k) \in Nat
  BY <1>1, CutsBounded
<1>. QED
  BY <1>3, <1>4

\* There is no cut between two neighbours.
LEMMA CutsAdjacent ==
    ASSUME NEW s \in Seq(STRING), NEW k \in 1 .. Pieces(s), NEW i \in Glob!Cuts(s)
    PROVE  ~(Glob!CutAt(s, k) < i /\ i < Glob!CutAt(s, k + 1))
<1>. DEFINE R(j) == Cardinality(Below(Glob!Cuts(s), j))
<1>0. Pieces(s) \in Nat
  BY CutsBounded
<1>1. k \in 1 .. Pieces(s) + 1 /\ k + 1 \in 1 .. Pieces(s) + 1
  BY <1>0
<1>2. Glob!CutAt(s, k) \in Glob!Cuts(s) /\ R(Glob!CutAt(s, k)) = k - 1
  BY <1>1, CutAtRank
<1>3. Glob!CutAt(s, k + 1) \in Glob!Cuts(s) /\ R(Glob!CutAt(s, k + 1)) = (k + 1) - 1
  BY <1>1, CutAtRank
<1>. SUFFICES ASSUME Glob!CutAt(s, k) < i, i < Glob!CutAt(s, k + 1) PROVE FALSE
  OBVIOUS
<1>4. R(Glob!CutAt(s, k)) < R(i) /\ R(i) < R(Glob!CutAt(s, k + 1))
  BY <1>2, <1>3, CutsOrdered
<1>5. R(i) \in Nat
  <2>1. Below(Glob!Cuts(s), i) \in SUBSET Glob!Cuts(s)
    BY DEF Below
  <2>. QED
    BY <2>1, CutsBounded, FS_Subset, FS_CardinalityType
<1>. HIDE DEF R
<1>. QED
  BY <1>0, <1>2, <1>3, <1>4, <1>5

\* A function on 1 .. n is a sequence of length n.
LEMMA FunctionLen ==
    ASSUME NEW n \in Nat \ {0}, NEW S, NEW f \in [1 .. n -> S]
    PROVE  f \in Seq(S) /\ Len(f) = n
<1>1. f \in Seq(S)
  BY SeqDef
<1>2. Len(f) \in Nat /\ DOMAIN f = 1 .. Len(f)
  BY <1>1, LenProperties
<1>3. 1 .. Len(f) = 1 .. n
  BY <1>2
<1>4. n \in 1 .. Len(f)
  BY <1>3
<1>5. Len(f) \in 1 .. Len(f)
  BY <1>2, <1>4
<1>6. Len(f) \in 1 .. n
  BY <1>3, <1>5
<1>. QED
  BY <1>1, <1>2, <1>4, <1>6

\* A piece is the text between two neighbouring cuts.
LEMMA SplitShape ==
    ASSUME NEW s \in Seq(STRING)
    PROVE  /\ Glob!Split(s) \in Seq(Seq(STRING)) /\ Len(Glob!Split(s)) = Pieces(s)
           /\ \A k \in 1 .. Pieces(s) :
                 LET from == Glob!CutAt(s, k)
                     to   == Glob!CutAt(s, k + 1)
                 IN  /\ from \in 0 .. Len(s) + 1 /\ to \in 0 .. Len(s) + 1 /\ from < to
                     /\ Glob!Split(s)[k] \in Seq(STRING)
                     /\ Len(Glob!Split(s)[k]) = to - from - 1
                     /\ \A i \in 1 .. to - from - 1 : Glob!Split(s)[k][i] = s[from + i]
<1>0. Pieces(s) \in Nat \ {0} /\ Len(s) \in Nat /\ \A i \in 1 .. Len(s) : s[i] \in STRING
  BY CutsBounded, LenProperties
<1>1. ASSUME NEW k \in 1 .. Pieces(s)
      PROVE  LET from == Glob!CutAt(s, k)
                 to   == Glob!CutAt(s, k + 1)
             IN  /\ from \in 0 .. Len(s) + 1 /\ to \in 0 .. Len(s) + 1 /\ from < to
                 /\ SubSeq(s, from + 1, to - 1) \in Seq(STRING)
                 /\ Len(SubSeq(s, from + 1, to - 1)) = to - from - 1
                 /\ \A i \in 1 .. to - from - 1 : SubSeq(s, from + 1, to - 1)[i] = s[from + i]
  <2>. DEFINE from == Glob!CutAt(s, k)
              to   == Glob!CutAt(s, k + 1)
              piece == SubSeq(s, from + 1, to - 1)
  <2>1. k \in 1 .. Pieces(s) + 1 /\ k + 1 \in 1 .. Pieces(s) + 1 /\ k < k + 1
    BY <1>0
  <2>2. from \in 0 .. Len(s) + 1 /\ to \in 0 .. Len(s) + 1 /\ from < to
    BY <2>1, CutAtRises
  <2>. HIDE DEF from, to
  <2>3. from + 1 \in Int /\ to - 1 \in Int /\ \A i \in from + 1 .. to - 1 : s[i] \in STRING
    BY <1>0, <2>2
  <2>4. /\ piece \in Seq(STRING)
        /\ Len(piece) = IF from + 1 <= to - 1 THEN (to - 1) - (from + 1) + 1 ELSE 0
        /\ \A i \in 1 .. (to - 1) - (from + 1) + 1 : piece[i] = s[(from + 1) + i - 1]
    BY <2>3, SubSeqProperties
  <2>. HIDE DEF piece
  <2>5. Len(piece) = to - from - 1
    BY <2>2, <2>4
  <2>6. \A i \in 1 .. to - from - 1 : piece[i] = s[from + i]
    <3>. SUFFICES ASSUME NEW i \in 1 .. to - from - 1 PROVE piece[i] = s[from + i]
      OBVIOUS
    <3>1. i \in 1 .. (to - 1) - (from + 1) + 1 /\ (from + 1) + i - 1 = from + i
      BY <2>2
    <3>. QED
      BY <2>4, <3>1
  <2>. QED
    BY <2>2, <2>4, <2>5, <2>6 DEF piece, from, to
<1>2. Glob!Split(s) =
        [k \in 1 .. Pieces(s) |-> SubSeq(s, Glob!CutAt(s, k) + 1, Glob!CutAt(s, k + 1) - 1)]
  BY SameCount DEF Glob!Split, Pieces
<1>3. /\ \A k \in 1 .. Pieces(s) :
            Glob!Split(s)[k] = SubSeq(s, Glob!CutAt(s, k) + 1, Glob!CutAt(s, k + 1) - 1)
      /\ Glob!Split(s) \in [1 .. Pieces(s) -> Seq(STRING)]
  <2>. DEFINE piece(k) == SubSeq(s, Glob!CutAt(s, k) + 1, Glob!CutAt(s, k + 1) - 1)
  <2>1. \A k \in 1 .. Pieces(s) : piece(k) \in Seq(STRING)
    BY <1>1
  <2>2. Glob!Split(s) = [k \in 1 .. Pieces(s) |-> piece(k)]
    BY <1>2
  <2>3. \A k \in 1 .. Pieces(s) : Glob!Split(s)[k] = piece(k)
    BY <1>2
  <2>. HIDE DEF piece
  <2>4. Glob!Split(s) \in [1 .. Pieces(s) -> Seq(STRING)]
    BY <2>1, <2>2
  <2>. QED
    BY <2>3, <2>4 DEF piece
<1>4. Glob!Split(s) \in Seq(Seq(STRING)) /\ Len(Glob!Split(s)) = Pieces(s)
  BY <1>0, <1>3, FunctionLen
<1>. QED
  BY <1>1, <1>3, <1>4

\* A text that goes on with a separator starts with the same pieces.
LEMMA SplitStart ==
    ASSUME NEW a \in Seq(STRING), NEW s \in Seq(STRING), Len(a) < Len(s),
           \A i \in 1 .. Len(a) : a[i] = s[i], s[Len(a) + 1] = Glob!Separator
    PROVE  /\ Pieces(a) < Pieces(s)
           /\ \A k \in 1 .. Pieces(a) : Glob!Split(a)[k] = Glob!Split(s)[k]
<1>. DEFINE A == Glob!Cuts(a)
            S == Glob!Cuts(s)
<1>0. Len(a) \in Nat /\ Len(s) \in Nat
  BY LenProperties
<1>1. /\ A \in SUBSET Nat /\ IsFiniteSet(A) /\ A \subseteq 0 .. Len(a) + 1
      /\ 0 \in A /\ Len(a) + 1 \in A
      /\ \A i \in 1 .. Len(a) : i \in A <=> a[i] = Glob!Separator
      /\ Pieces(a) \in Nat \ {0} /\ Cardinality(A) = Pieces(a) + 1
  BY CutsBounded
<1>2. /\ S \in SUBSET Nat /\ IsFiniteSet(S) /\ S \subseteq 0 .. Len(s) + 1
      /\ 0 \in S /\ Len(s) + 1 \in S
      /\ \A i \in 1 .. Len(s) : i \in S <=> s[i] = Glob!Separator
      /\ Pieces(s) \in Nat \ {0} /\ Cardinality(S) = Pieces(s) + 1
  BY CutsBounded
<1>. HIDE DEF A, S
<1>3. ASSUME NEW i \in 0 .. Len(a) + 1 PROVE i \in A <=> i \in S
  <2>1. CASE i = 0
    BY <1>1, <1>2, <2>1
  <2>2. CASE i = Len(a) + 1
    BY <1>0, <1>1, <1>2, <2>2
  <2>3. CASE i \in 1 .. Len(a)
    <3>1. i \in 1 .. Len(s)
      BY <1>0, <2>3
    <3>. QED
      BY <1>1, <1>2, <2>3, <3>1
  <2>. QED
    BY <1>0, <2>1, <2>2, <2>3
<1>4. A \in SUBSET S /\ Len(s) + 1 \notin A
  BY <1>0, <1>1, <1>3
<1>5. Pieces(a) < Pieces(s)
  <2>1. Cardinality(A) <= Cardinality(S) /\ Cardinality(S) # Cardinality(A)
    BY <1>2, <1>4, FS_Subset
  <2>. QED
    BY <1>1, <1>2, <2>1
<1>6. ASSUME NEW k \in 1 .. Pieces(a) + 1
      PROVE  Glob!CutAt(s, k) = Glob!CutAt(a, k)
  <2>. DEFINE i == Glob!CutAt(a, k)
  <2>1. i \in A /\ Cardinality(Below(A, i)) = k - 1
    BY CutAtRank DEF A
  <2>. HIDE DEF i
  <2>2. i \in S /\ i \in 0 .. Len(a) + 1
    BY <1>1, <1>4, <2>1
  <2>3. \A j \in S : j < i => j \in A
    <3>. SUFFICES ASSUME NEW j \in S, j < i PROVE j \in A
      OBVIOUS
    <3>1. j \in 0 .. Len(a) + 1
      BY <1>0, <1>2, <2>2
    <3>. QED
      BY <1>3, <3>1
  <2>4. Below(A, i) = Below(S, i)
    BY <1>4, <2>3 DEF Below
  <2>5. k \in 1 .. Pieces(s) + 1
    BY <1>1, <1>2, <1>5
  <2>. QED
    BY <2>1, <2>2, <2>4, <2>5, CutOfRank DEF S, i
<1>7. ASSUME NEW k \in 1 .. Pieces(a) PROVE Glob!Split(a)[k] = Glob!Split(s)[k]
  <2>. DEFINE from == Glob!CutAt(a, k)
              to   == Glob!CutAt(a, k + 1)
  <2>1. k \in 1 .. Pieces(a) + 1 /\ k + 1 \in 1 .. Pieces(a) + 1 /\ k \in 1 .. Pieces(s)
    BY <1>1, <1>2, <1>5
  <2>2. Glob!CutAt(s, k) = from /\ Glob!CutAt(s, k + 1) = to
    BY <1>6, <2>1
  <2>3. /\ from \in 0 .. Len(a) + 1 /\ to \in 0 .. Len(a) + 1 /\ from < to
        /\ Glob!Split(a)[k] \in Seq(STRING)
        /\ Len(Glob!Split(a)[k]) = to - from - 1
        /\ \A i \in 1 .. to - from - 1 : Glob!Split(a)[k][i] = a[from + i]
    BY SplitShape
  <2>4. /\ Glob!Split(s)[k] \in Seq(STRING)
        /\ Len(Glob!Split(s)[k]) = to - from - 1
        /\ \A i \in 1 .. to - from - 1 : Glob!Split(s)[k][i] = s[from + i]
    <3>1. /\ Glob!Split(s)[k] \in Seq(STRING)
          /\ Len(Glob!Split(s)[k]) = Glob!CutAt(s, k + 1) - Glob!CutAt(s, k) - 1
          /\ \A i \in 1 .. Glob!CutAt(s, k + 1) - Glob!CutAt(s, k) - 1 :
                Glob!Split(s)[k][i] = s[Glob!CutAt(s, k) + i]
      BY <2>1, SplitShape
    <3>. QED
      BY <2>2, <3>1
  <2>. HIDE DEF from, to
  <2>5. \A i \in 1 .. to - from - 1 : from + i \in 1 .. Len(a)
    BY <1>0, <2>3
  <2>6. \A i \in 1 .. Len(Glob!Split(a)[k]) : Glob!Split(a)[k][i] = Glob!Split(s)[k][i]
    BY <2>3, <2>4, <2>5
  <2>. QED
    BY <2>3, <2>4, <2>6, SeqEqual
<1>. QED
  BY <1>5, <1>7

\* The first piece starts where the text does.
LEMMA FirstCut ==
    ASSUME NEW s \in Seq(STRING)
    PROVE  Glob!CutAt(s, 1) = 0
<1>1. 0 \in Glob!Cuts(s) /\ Glob!Cuts(s) \in SUBSET Nat /\ Pieces(s) \in Nat
  BY CutsBounded
<1>2. \A j \in Glob!Cuts(s) : ~(j < 0)
  BY <1>1
<1>3. Below(Glob!Cuts(s), 0) = {}
  BY <1>2 DEF Below
<1>4. Cardinality(Below(Glob!Cuts(s), 0)) = 1 - 1
  BY <1>3, FS_EmptySet
<1>5. 1 \in 1 .. Pieces(s) + 1
  BY <1>1
<1>. QED
  BY <1>1, <1>4, <1>5, CutOfRank

-----------------------------------------------------------------------------
(***************************************************************************)
(* What a glob means, as a laying of patterns over texts.                  *)
(***************************************************************************)

UnitStars(u) == {k \in 1 .. Len(u) : u[k] = "*"}
UnitMeets(u, c) ==
    {kj \in (1 .. Len(u)) \X (1 .. Len(c)) : u[kj[1]] \in {"?", c[kj[2]]}}
UnitsFit(u, c) == Fits(Len(u), Len(c), UnitStars(u), UnitMeets(u, c), 1, 1)

SegmentStars(g) == {k \in 1 .. Len(g) : g[k] = Glob!DoubleStar}
SegmentMeets(g, c) ==
    {kj \in (1 .. Len(g)) \X (1 .. Len(c)) : Glob!UnitsMean(g[kj[1]], c[kj[2]])}
SegmentsFit(g, c) == Fits(Len(g), Len(c), SegmentStars(g), SegmentMeets(g, c), 1, 1)

\* The meaning of a segment.
LEMMA UnitsMeanFit ==
    ASSUME NEW u \in Seq(STRING), NEW c \in Seq(STRING)
    PROVE  Glob!UnitsMean(u, c) <=> UnitsFit(u, c)
<1>. DEFINE m == Len(u)
            n == Len(c)
            F(cut) == /\ cut[1] = 1 /\ cut[m + 1] = n + 1
                      /\ \A k \in 1 .. m :
                            IF k \in UnitStars(u) THEN cut[k] <= cut[k + 1]
                            ELSE cut[k + 1] = cut[k] + 1 /\ <<k, cut[k]>> \in UnitMeets(u, c)
            G(cut) == /\ cut[1] = 1 /\ cut[m + 1] = n + 1
                      /\ \A k \in 1 .. m : cut[k] <= cut[k + 1]
                      /\ \A k \in 1 .. m :
                            u[k] # "*" => /\ cut[k + 1] = cut[k] + 1
                                          /\ u[k] \in {"?", c[cut[k]]}
<1>0. m \in Nat /\ n \in Nat /\ DOMAIN u = 1 .. m
  BY LenProperties
<1>1. UnitsFit(u, c) <=> \E cut \in [1 .. m + 1 -> 1 .. n + 1] : F(cut)
  BY DEF UnitsFit, Fits
<1>2. Glob!UnitsMean(u, c) <=> \E cut \in [1 .. m + 1 -> 1 .. n + 1] : G(cut)
  BY <1>0 DEF Glob!UnitsMean, Glob!Cuttings
<1>3. ASSUME NEW cut \in [1 .. m + 1 -> 1 .. n + 1], NEW k \in 1 .. m
      PROVE  /\ cut[k] \in 1 .. n + 1 /\ cut[k + 1] \in 1 .. n + 1
             /\ k \in UnitStars(u) <=> u[k] = "*"
             /\ cut[k + 1] = cut[k] + 1 =>
                   (<<k, cut[k]>> \in UnitMeets(u, c) <=> u[k] \in {"?", c[cut[k]]})
  <2>1. k \in 1 .. m + 1 /\ k + 1 \in 1 .. m + 1
    BY <1>0
  <2>2. cut[k] \in 1 .. n + 1 /\ cut[k + 1] \in 1 .. n + 1
    BY <2>1
  <2>3. cut[k + 1] = cut[k] + 1 => cut[k] \in 1 .. n
    BY <1>0, <2>2
  <2>. QED
    BY <2>2, <2>3 DEF UnitStars, UnitMeets
<1>. HIDE DEF m, n
<1>4. ASSUME NEW cut \in [1 .. m + 1 -> 1 .. n + 1]
      PROVE  F(cut) <=> G(cut)
  <2>1. ASSUME F(cut) PROVE G(cut)
    <3>1. ASSUME NEW k \in 1 .. m
          PROVE  /\ cut[k] <= cut[k + 1]
                 /\ u[k] # "*" => cut[k + 1] = cut[k] + 1 /\ u[k] \in {"?", c[cut[k]]}
      <4>1. IF k \in UnitStars(u) THEN cut[k] <= cut[k + 1]
            ELSE cut[k + 1] = cut[k] + 1 /\ <<k, cut[k]>> \in UnitMeets(u, c)
        BY <2>1
      <4>2. /\ cut[k] \in 1 .. n + 1 /\ cut[k + 1] \in 1 .. n + 1
            /\ k \in UnitStars(u) <=> u[k] = "*"
            /\ cut[k + 1] = cut[k] + 1 =>
                  (<<k, cut[k]>> \in UnitMeets(u, c) <=> u[k] \in {"?", c[cut[k]]})
        BY <1>3
      <4>. QED
        BY <4>1, <4>2
    <3>. QED
      BY <2>1, <3>1
  <2>2. ASSUME G(cut) PROVE F(cut)
    BY <1>3, <2>2
  <2>. QED
    BY <2>1, <2>2
<1>. HIDE DEF F, G
<1>. QED
  BY <1>1, <1>2, <1>4

\* The meaning of a whole pattern.
LEMMA MeansFit ==
    ASSUME NEW g \in Seq(Seq(STRING)), NEW c \in Seq(Seq(STRING))
    PROVE  Glob!Means(g, c) <=> SegmentsFit(g, c)
<1>. DEFINE m == Len(g)
            n == Len(c)
            F(cut) == /\ cut[1] = 1 /\ cut[m + 1] = n + 1
                      /\ \A k \in 1 .. m :
                            IF k \in SegmentStars(g) THEN cut[k] <= cut[k + 1]
                            ELSE cut[k + 1] = cut[k] + 1 /\ <<k, cut[k]>> \in SegmentMeets(g, c)
            G(cut) == /\ cut[1] = 1 /\ cut[m + 1] = n + 1
                      /\ \A k \in 1 .. m : cut[k] <= cut[k + 1]
                      /\ \A k \in 1 .. m :
                            g[k] # Glob!DoubleStar =>
                                /\ cut[k + 1] = cut[k] + 1
                                /\ Glob!UnitsMean(g[k], c[cut[k]])
<1>0. m \in Nat /\ n \in Nat /\ DOMAIN g = 1 .. m
  BY LenProperties
<1>1. SegmentsFit(g, c) <=> \E cut \in [1 .. m + 1 -> 1 .. n + 1] : F(cut)
  BY DEF SegmentsFit, Fits
<1>2. Glob!Means(g, c) <=> \E cut \in [1 .. m + 1 -> 1 .. n + 1] : G(cut)
  BY <1>0 DEF Glob!Means, Glob!Cuttings
<1>3. ASSUME NEW cut \in [1 .. m + 1 -> 1 .. n + 1], NEW k \in 1 .. m
      PROVE  /\ cut[k] \in 1 .. n + 1 /\ cut[k + 1] \in 1 .. n + 1
             /\ k \in SegmentStars(g) <=> g[k] = Glob!DoubleStar
             /\ cut[k + 1] = cut[k] + 1 =>
                   (<<k, cut[k]>> \in SegmentMeets(g, c) <=> Glob!UnitsMean(g[k], c[cut[k]]))
  <2>1. k \in 1 .. m + 1 /\ k + 1 \in 1 .. m + 1
    BY <1>0
  <2>2. cut[k] \in 1 .. n + 1 /\ cut[k + 1] \in 1 .. n + 1
    BY <2>1
  <2>3. cut[k + 1] = cut[k] + 1 => cut[k] \in 1 .. n
    BY <1>0, <2>2
  <2>. QED
    BY <2>2, <2>3 DEF SegmentStars, SegmentMeets
<1>. HIDE DEF m, n
<1>4. ASSUME NEW cut \in [1 .. m + 1 -> 1 .. n + 1]
      PROVE  F(cut) <=> G(cut)
  <2>1. ASSUME F(cut) PROVE G(cut)
    <3>1. ASSUME NEW k \in 1 .. m
          PROVE  /\ cut[k] <= cut[k + 1]
                 /\ g[k] # Glob!DoubleStar => cut[k + 1] = cut[k] + 1 /\ Glob!UnitsMean(g[k], c[cut[k]])
      <4>1. IF k \in SegmentStars(g) THEN cut[k] <= cut[k + 1]
            ELSE cut[k + 1] = cut[k] + 1 /\ <<k, cut[k]>> \in SegmentMeets(g, c)
        BY <2>1
      <4>2. /\ cut[k] \in 1 .. n + 1 /\ cut[k + 1] \in 1 .. n + 1
            /\ k \in SegmentStars(g) <=> g[k] = Glob!DoubleStar
            /\ cut[k + 1] = cut[k] + 1 =>
                  (<<k, cut[k]>> \in SegmentMeets(g, c) <=> Glob!UnitsMean(g[k], c[cut[k]]))
        BY <1>3
      <4>. QED
        BY <4>1, <4>2
    <3>. QED
      BY <2>1, <3>1
  <2>2. ASSUME G(cut) PROVE F(cut)
    BY <1>3, <2>2
  <2>. QED
    BY <2>1, <2>2
<1>. HIDE DEF F, G
<1>. QED
  BY <1>1, <1>2, <1>4

\* Without a metacharacter a text means itself.
Literal(u) == \A i \in 1 .. Len(u) : u[i] \notin {"*", "?"}

\* A segment without a metacharacter fits only itself (units_match).
LEMMA LiteralUnits ==
    ASSUME NEW u \in Seq(STRING), NEW c \in Seq(STRING), Literal(u), Glob!UnitsMean(u, c)
    PROVE  u = c
<1>. DEFINE m == Len(u)
            n == Len(c)
<1>0. m \in Nat /\ n \in Nat
  BY LenProperties
<1>1. Fits(m, n, UnitStars(u), UnitMeets(u, c), 1, 1)
  BY UnitsMeanFit DEF UnitsFit
<1>2. \A k \in 1 .. (m + 1) - 1 : k \notin UnitStars(u)
  BY <1>0 DEF Literal, UnitStars
<1>3. 1 \in 1 .. m + 1 /\ 1 \in 1 .. n + 1 /\ m + 1 \in 1 .. m + 1
  BY <1>0
<1>4. /\ 1 + ((m + 1) - 1) <= n + 1
      /\ Fits(m, n, UnitStars(u), UnitMeets(u, c), m + 1, 1 + ((m + 1) - 1))
      /\ \A k \in 1 .. (m + 1) - 1 : <<k, 1 + (k - 1)>> \in UnitMeets(u, c)
  <2>. HIDE DEF m, n
  <2>. QED
    BY <1>0, <1>1, <1>2, <1>3, FitsStraight
<1>5. 1 + ((m + 1) - 1) = m + 1 /\ m + 1 \in 1 .. n + 1
  BY <1>0, <1>4
<1>6. m = n
  <2>1. Fits(m, n, UnitStars(u), UnitMeets(u, c), m + 1, m + 1)
    BY <1>4, <1>5
  <2>2. m + 1 = n + 1
    <3>. HIDE DEF m, n
    <3>. QED
      BY <1>0, <1>5, <2>1, FitsEnd
  <2>. QED
    BY <1>0, <2>2
<1>7. ASSUME NEW k \in 1 .. Len(u) PROVE u[k] = c[k]
  <2>1. k \in 1 .. (m + 1) - 1 /\ 1 + (k - 1) = k
    BY <1>0
  <2>2. <<k, k>> \in UnitMeets(u, c)
    BY <1>4, <2>1
  <2>3. u[k] \in {"?", c[k]}
    BY <2>2 DEF UnitMeets
  <2>. QED
    BY <2>3 DEF Literal
<1>. QED
  BY <1>6, <1>7, SeqEqual

\* The first segments of a pattern, as long as they are literal, are the first
\* components of what it matches.
LEMMA LiteralStart ==
    ASSUME NEW g \in Seq(Seq(STRING)), NEW c \in Seq(Seq(STRING)), NEW h \in 1 .. Len(g),
           \A k \in 1 .. h : Literal(g[k]), Glob!Means(g, c)
    PROVE  h <= Len(c) /\ \A k \in 1 .. h : g[k] = c[k]
<1>. DEFINE m == Len(g)
            n == Len(c)
<1>0. m \in Nat /\ n \in Nat
  BY LenProperties
<1>1. Fits(m, n, SegmentStars(g), SegmentMeets(g, c), 1, 1)
  BY MeansFit DEF SegmentsFit
<1>2. \A k \in 1 .. (h + 1) - 1 : k \notin SegmentStars(g)
  <2>. SUFFICES ASSUME NEW k \in 1 .. (h + 1) - 1, k \in SegmentStars(g) PROVE FALSE
    OBVIOUS
  <2>1. k \in 1 .. h
    BY <1>0
  <2>2. g[k] = <<"*", "*">>
    BY DEF SegmentStars, Glob!DoubleStar
  <2>3. Len(g[k]) = 2 /\ g[k][1] = "*"
    BY <2>2
  <2>. QED
    BY <2>1, <2>3 DEF Literal
<1>3. 1 \in 1 .. m + 1 /\ 1 \in 1 .. n + 1 /\ h + 1 \in 1 .. m + 1
  BY <1>0
<1>4. /\ 1 + ((h + 1) - 1) <= n + 1
      /\ \A k \in 1 .. (h + 1) - 1 : <<k, 1 + (k - 1)>> \in SegmentMeets(g, c)
  <2>. HIDE DEF m, n
  <2>. QED
    BY <1>0, <1>1, <1>2, <1>3, FitsStraight
<1>5. h <= n
  BY <1>0, <1>4
<1>6. ASSUME NEW k \in 1 .. h PROVE g[k] = c[k]
  <2>1. k \in 1 .. (h + 1) - 1 /\ 1 + (k - 1) = k /\ k \in 1 .. m /\ k \in 1 .. n
    BY <1>0, <1>5
  <2>2. <<k, k>> \in SegmentMeets(g, c)
    BY <1>4, <2>1
  <2>3. Glob!UnitsMean(g[k], c[k])
    BY <2>2 DEF SegmentMeets
  <2>4. g[k] \in Seq(STRING) /\ c[k] \in Seq(STRING)
    BY <2>1, ElementOfSeq
  <2>. QED
    BY <2>3, <2>4, LiteralUnits
<1>. QED
  BY <1>5, <1>6

-----------------------------------------------------------------------------
(***************************************************************************)
(* The matcher.                                                            *)
(***************************************************************************)

\* Expanding a token yields a text.
LEMMA ExpandTokenText ==
    ASSUME NEW s \in Seq(STRING), NEW token, NEW to \in Seq(STRING)
    PROVE  Glob!ExpandToken(s, token, to) \in Seq(STRING)
<1>1. s # <<>> => Tail(s) \in Seq(STRING)
  BY HeadTailProperties
<1>2. s # <<>> => to \o Tail(s) \in Seq(STRING)
  BY <1>1, ConcatProperties
<1>. QED
  BY <1>2 DEF Glob!ExpandToken

\* Expanding the tokens of a text gives a text (Policy::expand).
LEMMA ExpandText ==
    ASSUME NEW s \in Seq(STRING), Glob!expand(s) # Glob!Misplaced
    PROVE  Glob!expand(s) \in Seq(STRING)
<1>1. Workspace \in Seq(STRING) /\ Home \in Seq(STRING)
  BY InputsAssumption
<1>. DEFINE after_ws == Glob!ExpandToken(s, Glob!WS, Workspace)
            expanded == Glob!ExpandToken(after_ws, "~", Home)
<1>2. after_ws \in Seq(STRING)
  BY <1>1, ExpandTokenText
<1>3. expanded \in Seq(STRING)
  <2>. HIDE DEF after_ws
  <2>. QED
    BY <1>1, <1>2, ExpandTokenText
<1>4. Glob!expand(s) = expanded \/ Glob!expand(s) = Glob!Misplaced
  BY DEF Glob!expand
<1>. QED
  BY <1>3, <1>4

\* A pattern that was accepted has been split, and so has the path.
Loaded ==
    /\ raw \in Seq(STRING) /\ path \in Seq(STRING) /\ pattern \in Seq(STRING)
    /\ pattern = Glob!expand(raw) /\ Glob!Accepted(pattern)
    /\ segments = Glob!Split(pattern) /\ text = Glob!Split(path)

OuterFits(p, t) ==
    Fits(Len(segments), Len(text), SegmentStars(segments), SegmentMeets(segments, text), p, t)
OuterSound ==
    Sound(Len(segments), Len(text), SegmentStars(segments), SegmentMeets(segments, text), outer)
InnerSound ==
    Sound(Len(Glob!Units), Len(Glob!Component), UnitStars(Glob!Units),
          UnitMeets(Glob!Units, Glob!Component), inner)

\* The inductive invariant of the matcher: both cursors are sound, and the inner
\* loop runs on a segment that is no double star and a component that is there.
MatchInv ==
    /\ pc \in {"idle", "compile", "rejected", "segments", "units", "done"}
    /\ pc = "compile" =>
          raw \in Seq(STRING) /\ path \in Seq(STRING) /\ outer = Glob!Start
    /\ pc \in {"segments", "units", "done"} => Loaded
    /\ pc \in {"segments", "units"} => OuterSound
    /\ pc = "units" => /\ outer.p <= Len(segments) /\ outer.t <= Len(text)
                       /\ Glob!Units # Glob!DoubleStar /\ InnerSound
    /\ pc = "done" => (result <=> Glob!Means(segments, text))

\* What compile leaves: segments and components that are texts, and a meaning
\* that is a fit from the first of each.
LEMMA LoadedTypes ==
    ASSUME Loaded
    PROVE  /\ segments \in Seq(Seq(STRING)) /\ Len(segments) \in Nat
           /\ text \in Seq(Seq(STRING)) /\ Len(text) \in Nat
           /\ Glob!Means(segments, text) <=> OuterFits(1, 1)
<1>1. segments \in Seq(Seq(STRING)) /\ text \in Seq(Seq(STRING))
  BY SplitShape DEF Loaded
<1>. QED
  BY <1>1, LenProperties, MeansFit DEF SegmentsFit, OuterFits

\* The positions of a cursor that is sound.
LEMMA OuterTypes ==
    ASSUME Loaded, OuterSound
    PROVE  /\ outer \in Cursors(Len(segments), Len(text))
           /\ outer.p \in 1 .. Len(segments) + 1 /\ outer.t \in 1 .. Len(text) + 1
           /\ outer.p <= Len(segments) =>
                 /\ Glob!Units \in Seq(STRING) /\ Len(Glob!Units) \in Nat
                 /\ outer.p \in SegmentStars(segments) <=> Glob!Units = Glob!DoubleStar
           /\ outer.t <= Len(text) =>
                 Glob!Component \in Seq(STRING) /\ Len(Glob!Component) \in Nat
           /\ (outer.p <= Len(segments) /\ outer.t <= Len(text)) =>
                 (<<outer.p, outer.t>> \in SegmentMeets(segments, text)
                     <=> UnitsFit(Glob!Units, Glob!Component))
<1>1. /\ segments \in Seq(Seq(STRING)) /\ Len(segments) \in Nat
      /\ text \in Seq(Seq(STRING)) /\ Len(text) \in Nat
  BY LoadedTypes
<1>2. /\ outer \in Cursors(Len(segments), Len(text))
      /\ outer.p \in 1 .. Len(segments) + 1 /\ outer.t \in 1 .. Len(text) + 1
  BY DEF OuterSound, Sound, Cursors
<1>3. ASSUME outer.p <= Len(segments)
      PROVE  /\ Glob!Units \in Seq(STRING) /\ Len(Glob!Units) \in Nat
             /\ outer.p \in SegmentStars(segments) <=> Glob!Units = Glob!DoubleStar
  <2>1. outer.p \in 1 .. Len(segments)
    BY <1>1, <1>2, <1>3
  <2>2. Glob!Units \in Seq(STRING)
    BY <1>1, <2>1, ElementOfSeq DEF Glob!Units
  <2>3. Len(Glob!Units) \in Nat
    BY <2>2, LenProperties
  <2>4. outer.p \in SegmentStars(segments) <=> Glob!Units = Glob!DoubleStar
    BY <2>1 DEF SegmentStars, Glob!Units
  <2>. QED
    BY <2>2, <2>3, <2>4
<1>4. ASSUME outer.t <= Len(text)
      PROVE  Glob!Component \in Seq(STRING) /\ Len(Glob!Component) \in Nat
  <2>1. outer.t \in 1 .. Len(text)
    BY <1>1, <1>2, <1>4
  <2>2. Glob!Component \in Seq(STRING)
    BY <1>1, <2>1, ElementOfSeq DEF Glob!Component
  <2>. QED
    BY <2>2, LenProperties
<1>5. ASSUME outer.p <= Len(segments), outer.t <= Len(text)
      PROVE  <<outer.p, outer.t>> \in SegmentMeets(segments, text)
                <=> UnitsFit(Glob!Units, Glob!Component)
  <2>1. outer.p \in 1 .. Len(segments) /\ outer.t \in 1 .. Len(text)
    BY <1>1, <1>2, <1>5
  <2>2. <<outer.p, outer.t>> \in SegmentMeets(segments, text)
           <=> Glob!UnitsMean(Glob!Units, Glob!Component)
    BY <2>1 DEF SegmentMeets, Glob!Units, Glob!Component
  <2>. QED
    BY <1>3, <1>4, <1>5, <2>2, UnitsMeanFit
<1>. QED
  BY <1>2, <1>3, <1>4, <1>5

\* What a step that leaves the texts alone keeps.
LEMMA LoadedStays ==
    ASSUME Loaded, UNCHANGED <<raw, path, pattern, segments, text>>
    PROVE  Loaded'
BY DEF Loaded

\* A mismatch of the outer loop: the last double star takes one component more,
\* or there is none and the answer is no (match_segments).
LEMMA OuterMismatch ==
    ASSUME Loaded, OuterSound, outer.t <= Len(text), ~OuterFits(outer.p, outer.t),
           Glob!Mismatch, UNCHANGED <<raw, path, pattern, segments, text>>
    PROVE  MatchInv'
<1>1. Len(segments) \in Nat /\ Len(text) \in Nat
  BY LoadedTypes
<1>2. Loaded'
  BY LoadedStays
<1>3. CASE outer.sp = 0 /\ Glob!Return(FALSE)
  <2>1. ~OuterFits(1, 1)
    BY <1>1, <1>3, SoundNo DEF OuterFits, OuterSound
  <2>2. pc' = "done" /\ result' = FALSE
    BY <1>3 DEF Glob!Return
  <2>3. ~Glob!Means(segments, text)
    BY <2>1, LoadedTypes
  <2>. QED
    BY <1>2, <2>2, <2>3 DEF MatchInv
<1>4. CASE outer.sp # 0 /\ outer' = Glob!GoBack(outer) /\ pc' = "segments"
  <2>1. OuterSound'
    BY <1>1, <1>4, SoundGoBack DEF OuterFits, OuterSound
  <2>. QED
    BY <1>2, <1>4, <2>1 DEF MatchInv
<1>. QED
  BY <1>3, <1>4 DEF Glob!Mismatch

\* The initial states and each step of the machines keep the invariant; only the
\* matcher's own steps touch it (compile, match_segments, units_match).
LEMMA MatchStart == Init => MatchInv
<1>. SUFFICES ASSUME Init PROVE MatchInv
  OBVIOUS
<1>1. CASE leaf = "glob"
  <2>1. Glob!Init
    BY <1>1 DEF Init
  <2>2. PICK input \in Inputs : raw = input[1] /\ path = input[2]
    BY <2>1 DEF Glob!Init
  <2>3. input \in Seq(STRING) \X Seq(STRING)
    BY InputsAssumption
  <2>4. raw \in Seq(STRING) /\ path \in Seq(STRING)
    BY <2>2, <2>3
  <2>5. pc = "compile" /\ outer = Glob!Start
    BY <2>1 DEF Glob!Init
  <2>. QED
    BY <2>4, <2>5 DEF MatchInv
<1>2. CASE leaf # "glob"
  <2>1. pc = "idle"
    BY <1>2 DEF Init, GlobIdle
  <2>. QED
    BY <2>1 DEF MatchInv
<1>. QED
  BY <1>1, <1>2

\* Compiling starts the matching loop with a sound cursor (Glob::compile).
LEMMA CompileKeeps ==
    ASSUME MatchInv, Glob!Compile
    PROVE  MatchInv'
<1>1. /\ raw \in Seq(STRING) /\ path \in Seq(STRING) /\ outer = Glob!Start
      /\ UNCHANGED <<raw, path, outer>> /\ pattern' = Glob!expand(raw)
  BY DEF MatchInv, Glob!Compile
<1>2. CASE ~Glob!Accepted(pattern')
  <2>1. pc' = "rejected"
    BY <1>2 DEF Glob!Compile
  <2>. QED
    BY <2>1 DEF MatchInv
<1>3. CASE Glob!Accepted(pattern')
  <2>1. pc' = "segments" /\ segments' = Glob!Split(pattern') /\ text' = Glob!Split(path)
    BY <1>3 DEF Glob!Compile
  <2>2. pattern' \in Seq(STRING)
    BY <1>1, <1>3, ExpandText DEF Glob!Accepted
  <2>3. Loaded'
    BY <1>1, <1>3, <2>1, <2>2 DEF Loaded
  <2>4. segments' \in Seq(Seq(STRING)) /\ text' \in Seq(Seq(STRING))
    BY <1>1, <2>1, <2>2, SplitShape
  <2>5. Len(segments') \in Nat /\ Len(text') \in Nat
    BY <2>4, LenProperties
  <2>6. Sound(Len(segments'), Len(text'), SegmentStars(segments'),
              SegmentMeets(segments', text'), Glob!Start)
    BY <2>5, SoundStart
  <2>7. OuterSound'
    BY <1>1, <2>6 DEF OuterSound
  <2>. QED
    BY <2>1, <2>3, <2>7 DEF MatchInv
<1>. QED
  BY <1>2, <1>3

\* One turn of the loop over components keeps both cursors sound: a double star
\* is remembered, a segment is handed to the inner loop, or the cursor goes back.
LEMMA SegmentStepKeeps ==
    ASSUME MatchInv, Glob!SegmentStep
    PROVE  MatchInv'
<1>. DEFINE m == Len(segments)
            n == Len(text)
<1>1. /\ Loaded /\ OuterSound /\ outer.t <= n
      /\ UNCHANGED <<raw, path, pattern, segments, text>>
  BY DEF MatchInv, Glob!SegmentStep
<1>2. Loaded' /\ m \in Nat /\ n \in Nat
  BY <1>1, LoadedStays, LoadedTypes
<1>3. /\ outer \in Cursors(m, n) /\ outer.p \in 1 .. m + 1
      /\ outer.p <= m => /\ Glob!Units \in Seq(STRING) /\ Len(Glob!Units) \in Nat
                         /\ outer.p \in SegmentStars(segments) <=> Glob!Units = Glob!DoubleStar
      /\ Glob!Component \in Seq(STRING) /\ Len(Glob!Component) \in Nat
  BY <1>1, OuterTypes
<1>4. CASE outer.p > m /\ Glob!Mismatch
  <2>1. ~(outer.p <= m)
    BY <1>2, <1>3, <1>4
  <2>2. ~OuterFits(outer.p, outer.t)
    BY <1>1, <1>2, <1>3, <2>1, Misfit DEF OuterFits
  <2>. QED
    BY <1>1, <1>4, <2>2, OuterMismatch
<1>5. CASE /\ outer.p <= m /\ Glob!Units = Glob!DoubleStar
           /\ outer' = Glob!Remember(outer) /\ UNCHANGED <<pc, inner, result>>
  <2>1. pc' = "segments"
    BY <1>5 DEF Glob!SegmentStep
  <2>2. OuterSound'
    BY <1>1, <1>2, <1>3, <1>5, SoundRemember DEF OuterSound
  <2>. QED
    BY <1>2, <2>1, <2>2 DEF MatchInv
<1>6. CASE /\ outer.p <= m /\ Glob!Units # Glob!DoubleStar
           /\ pc' = "units" /\ inner' = Glob!Start /\ UNCHANGED <<outer, result>>
  <2>1. OuterSound'
    BY <1>1, <1>6 DEF OuterSound
  <2>2. Glob!Units' = Glob!Units /\ Glob!Component' = Glob!Component
    BY <1>1, <1>6 DEF Glob!Units, Glob!Component
  <2>3. Sound(Len(Glob!Units), Len(Glob!Component), UnitStars(Glob!Units),
              UnitMeets(Glob!Units, Glob!Component), Glob!Start)
    BY <1>3, <1>6, SoundStart
  <2>4. InnerSound'
    BY <1>6, <2>2, <2>3 DEF InnerSound
  <2>. QED
    BY <1>1, <1>2, <1>6, <2>1, <2>2, <2>4 DEF MatchInv
<1>. QED
  BY <1>4, <1>5, <1>6 DEF Glob!SegmentStep

\* At the end of the path the segments left over are double stars or the pattern
\* does not match (the last lines of match_segments).
LEMMA SegmentsEndKeeps ==
    ASSUME MatchInv, Glob!SegmentsEnd
    PROVE  MatchInv'
<1>. DEFINE m == Len(segments)
            n == Len(text)
            left == \A i \in outer.p .. m : segments[i] = Glob!DoubleStar
<1>1. /\ Loaded /\ OuterSound /\ outer.t > n
      /\ UNCHANGED <<raw, path, pattern, segments, text>>
      /\ pc' = "done" /\ result' = left
  BY DEF MatchInv, Glob!SegmentsEnd, Glob!Return
<1>2. Loaded' /\ m \in Nat /\ n \in Nat
  BY <1>1, LoadedStays, LoadedTypes
<1>3. outer.p \in 1 .. m + 1 /\ ~(outer.t <= n)
  BY <1>1, <1>2, OuterTypes
<1>4. OuterFits(1, 1) <=> \A k \in outer.p .. m : k \in SegmentStars(segments)
  BY <1>1, <1>2, <1>3, SoundEnd DEF OuterFits, OuterSound
<1>5. \A k \in outer.p .. m : k \in SegmentStars(segments) <=> segments[k] = Glob!DoubleStar
  BY <1>2, <1>3 DEF SegmentStars
<1>6. Glob!Means(segments, text) <=> left
  BY <1>1, <1>4, <1>5, LoadedTypes
<1>. HIDE DEF left
<1>. QED
  BY <1>1, <1>2, <1>6 DEF MatchInv

\* One turn of the loop over characters keeps both cursors sound, also when the
\* component is given up and the outer cursor goes back (units_match).
LEMMA UnitStepKeeps ==
    ASSUME MatchInv, Glob!UnitStep
    PROVE  MatchInv'
<1>. DEFINE m == Len(Glob!Units)
            n == Len(Glob!Component)
            stars == UnitStars(Glob!Units)
            meets == UnitMeets(Glob!Units, Glob!Component)
<1>1. /\ Loaded /\ OuterSound /\ InnerSound /\ pc = "units" /\ inner.t <= n
      /\ outer.p <= Len(segments) /\ outer.t <= Len(text)
      /\ Glob!Units # Glob!DoubleStar
      /\ UNCHANGED <<raw, path, pattern, segments, text>>
  BY DEF MatchInv, Glob!UnitStep
<1>2. Loaded' /\ Len(segments) \in Nat /\ Len(text) \in Nat
  BY <1>1, LoadedStays, LoadedTypes
<1>3. /\ Glob!Units \in Seq(STRING) /\ m \in Nat
      /\ Glob!Component \in Seq(STRING) /\ n \in Nat
      /\ outer \in Cursors(Len(segments), Len(text))
      /\ outer.p \notin SegmentStars(segments)
      /\ <<outer.p, outer.t>> \in SegmentMeets(segments, text)
            <=> UnitsFit(Glob!Units, Glob!Component)
  BY <1>1, OuterTypes
<1>4. inner \in Cursors(m, n) /\ inner.p \in 1 .. m + 1 /\ inner.t \in 1 .. n
  <2>1. inner \in Cursors(m, n)
    BY <1>1 DEF InnerSound, Sound
  <2>2. inner.p \in 1 .. m + 1 /\ inner.t \in 1 .. n + 1
    BY <2>1 DEF Cursors
  <2>. QED
    BY <1>1, <1>3, <2>1, <2>2
<1>5. inner.p <= m =>
         /\ inner.p \in stars <=> Glob!Units[inner.p] = "*"
         /\ <<inner.p, inner.t>> \in meets
               <=> Glob!Units[inner.p] \in {"?", Glob!Component[inner.t]}
  <2>1. inner.p <= m => inner.p \in 1 .. m
    BY <1>3, <1>4
  <2>. QED
    BY <1>4, <2>1 DEF UnitStars, UnitMeets
<1>6. ASSUME UNCHANGED <<pc, outer, result>>,
             Sound(m, n, stars, meets, inner')
      PROVE  MatchInv'
  <2>1. Glob!Units' = Glob!Units /\ Glob!Component' = Glob!Component
    BY <1>1, <1>6 DEF Glob!Units, Glob!Component
  <2>2. InnerSound'
    BY <1>6, <2>1 DEF InnerSound
  <2>3. OuterSound'
    BY <1>1, <1>6 DEF OuterSound
  <2>. QED
    BY <1>1, <1>2, <1>6, <2>1, <2>2, <2>3 DEF MatchInv
<1>7. CASE /\ inner.p <= m /\ Glob!Units[inner.p] = "*"
           /\ inner' = Glob!Remember(inner) /\ UNCHANGED <<pc, outer, result>>
  <2>1. Sound(m, n, stars, meets, inner')
    BY <1>1, <1>3, <1>5, <1>7, SoundRemember DEF InnerSound
  <2>. QED
    BY <1>6, <1>7, <2>1
<1>8. CASE /\ inner.p <= m /\ Glob!Units[inner.p] # "*"
           /\ Glob!Units[inner.p] \in {"?", Glob!Component[inner.t]}
           /\ inner' = Glob!Consume(inner) /\ UNCHANGED <<pc, outer, result>>
  <2>1. inner.p \notin stars /\ <<inner.p, inner.t>> \in meets
    BY <1>5, <1>8
  <2>2. Sound(m, n, stars, meets, inner')
    BY <1>1, <1>3, <1>8, <2>1, SoundConsume DEF InnerSound
  <2>. QED
    BY <1>6, <1>8, <2>2
<1>9. ASSUME inner.p <= m => Glob!Units[inner.p] \notin {"*", "?", Glob!Component[inner.t]}
      PROVE  ~Fits(m, n, stars, meets, inner.p, inner.t)
  <2>1. inner.p <= m => inner.p \notin stars /\ <<inner.p, inner.t>> \notin meets
    BY <1>5, <1>9
  <2>. HIDE DEF m, n, stars, meets
  <2>. QED
    BY <1>1, <1>3, <1>4, <2>1, Misfit
<1>10. CASE /\ inner.p <= m => Glob!Units[inner.p] \notin {"*", "?", Glob!Component[inner.t]}
            /\ inner.sp = 0 /\ Glob!Mismatch
  <2>1. ~UnitsFit(Glob!Units, Glob!Component)
    BY <1>1, <1>3, <1>9, <1>10, SoundNo DEF InnerSound, UnitsFit
  <2>2. ~OuterFits(outer.p, outer.t)
    BY <1>1, <1>2, <1>3, <2>1, Misfit DEF OuterFits
  <2>. QED
    BY <1>1, <1>10, <2>2, OuterMismatch
<1>11. CASE /\ inner.p <= m => Glob!Units[inner.p] \notin {"*", "?", Glob!Component[inner.t]}
            /\ inner.sp # 0 /\ inner' = Glob!GoBack(inner) /\ UNCHANGED <<pc, outer, result>>
  <2>1. Sound(m, n, stars, meets, inner')
    BY <1>1, <1>3, <1>9, <1>11, SoundGoBack DEF InnerSound
  <2>. QED
    BY <1>6, <1>11, <2>1
<1>. QED
  BY <1>7, <1>8, <1>10, <1>11 DEF Glob!UnitStep

\* At the end of a component the units left over are stars or the component is
\* given up; the outer cursor goes on or back accordingly.
LEMMA UnitsEndKeeps ==
    ASSUME MatchInv, Glob!UnitsEnd
    PROVE  MatchInv'
<1>. DEFINE m == Len(Glob!Units)
            n == Len(Glob!Component)
            left == \A i \in inner.p .. m : Glob!Units[i] = "*"
<1>1. /\ Loaded /\ OuterSound /\ InnerSound /\ pc = "units" /\ inner.t > n
      /\ outer.p <= Len(segments) /\ outer.t <= Len(text)
      /\ Glob!Units # Glob!DoubleStar
      /\ UNCHANGED <<raw, path, pattern, segments, text>>
  BY DEF MatchInv, Glob!UnitsEnd
<1>2. Loaded' /\ Len(segments) \in Nat /\ Len(text) \in Nat
  BY <1>1, LoadedStays, LoadedTypes
<1>3. /\ Glob!Units \in Seq(STRING) /\ m \in Nat
      /\ Glob!Component \in Seq(STRING) /\ n \in Nat
      /\ outer \in Cursors(Len(segments), Len(text))
      /\ outer.p \notin SegmentStars(segments)
      /\ <<outer.p, outer.t>> \in SegmentMeets(segments, text)
            <=> UnitsFit(Glob!Units, Glob!Component)
  BY <1>1, OuterTypes
<1>4. inner.p \in 1 .. m + 1 /\ ~(inner.t <= n)
  <2>1. inner \in Cursors(m, n)
    BY <1>1 DEF InnerSound, Sound
  <2>2. inner.p \in 1 .. m + 1 /\ inner.t \in 1 .. n + 1
    BY <2>1 DEF Cursors
  <2>. QED
    BY <1>1, <1>3, <2>1, <2>2
<1>5. UnitsFit(Glob!Units, Glob!Component) <=> \A k \in inner.p .. m : k \in UnitStars(Glob!Units)
  BY <1>1, <1>3, <1>4, SoundEnd DEF InnerSound, UnitsFit
<1>6. \A k \in inner.p .. m : k \in UnitStars(Glob!Units) <=> Glob!Units[k] = "*"
  BY <1>3, <1>4 DEF UnitStars
<1>7. UnitsFit(Glob!Units, Glob!Component) <=> left
  BY <1>5, <1>6
<1>8. CASE left
  <2>1. outer' = Glob!Consume(outer) /\ pc' = "segments"
    BY <1>8 DEF Glob!UnitsEnd
  <2>2. OuterSound'
    BY <1>1, <1>2, <1>3, <1>7, <1>8, <2>1, SoundConsume DEF OuterSound
  <2>. QED
    BY <1>2, <2>1, <2>2 DEF MatchInv
<1>9. CASE ~left
  <2>1. Glob!Mismatch
    BY <1>9 DEF Glob!UnitsEnd
  <2>2. ~OuterFits(outer.p, outer.t)
    BY <1>1, <1>2, <1>3, <1>7, <1>9, Misfit DEF OuterFits
  <2>. QED
    BY <1>1, <2>1, <2>2, OuterMismatch
<1>. QED
  BY <1>8, <1>9

\* Every step keeps the matcher sound; the other leaves do not touch it.
LEMMA MatchStep ==
    ASSUME MatchInv, [Next]_vars
    PROVE  MatchInv'
<1>1. CASE UNCHANGED globVars
  BY <1>1 DEF globVars, MatchInv, Loaded, OuterSound, InnerSound, Glob!Units, Glob!Component
<1>2. CASE Glob!Next
  BY <1>2, CompileKeeps, SegmentStepKeeps, SegmentsEndKeeps, UnitStepKeeps, UnitsEndKeeps
     DEF Glob!Next
<1>. QED
  BY <1>1, <1>2 DEF Next, vars

\* Both cursors stay sound, for every pattern and every path.
THEOREM MatcherInvariance == Spec => []MatchInv
<1>1. Init => MatchInv
  BY MatchStart
<1>2. MatchInv /\ [Next]_vars => MatchInv'
  BY MatchStep
<1>. QED
  BY <1>1, <1>2, PTL DEF Spec

\* Going back to the last star only, at both levels, loses no match and invents
\* none, whatever the pattern and the path (match_segments, units_match).
THEOREM MatchMeans == Spec => []MatchIsMeaning
<1>1. MatchInv => MatchIsMeaning
  BY DEF MatchInv, MatchIsMeaning
<1>. QED
  BY <1>1, MatcherInvariance, PTL

-----------------------------------------------------------------------------
(***************************************************************************)
(* Runs of stars and pieces.                                               *)
(***************************************************************************)

\* Two adjacent stars belong to a maximal run.
LEMMA RunAround ==
    ASSUME NEW s \in Seq(STRING), NEW x \in 1 .. Len(s), x + 1 <= Len(s),
           s[x] = "*", s[x + 1] = "*"
    PROVE  \E stars \in Glob!StarRuns(s) : stars[1] <= x /\ x + 1 <= stars[2]
<1>0. Len(s) \in Nat /\ DOMAIN s = 1 .. Len(s)
  BY LenProperties
<1>. DEFINE Left == {j \in 1 .. x : \A i \in j .. x : s[i] = "*"}
            Right == {j \in x + 1 .. Len(s) : \A i \in x + 1 .. j : s[i] = "*"}
            Rest == {Len(s) - j : j \in Right}
<1>1. x \in Left /\ Left \in SUBSET Nat
  OBVIOUS
<1>2. PICK lo \in Left : \A j \in Left : lo <= j
  BY <1>1, LeastNumber
<1>3. x + 1 \in Right /\ Right \in SUBSET Nat /\ \A j \in Right : j <= Len(s)
  BY <1>0
<1>4. Rest \in SUBSET Nat /\ Rest # {}
  BY <1>0, <1>3
<1>5. PICK r \in Rest : \A j \in Rest : r <= j
  BY <1>4, LeastNumber
<1>6. PICK hi \in Right : r = Len(s) - hi
  BY <1>5
<1>7. lo \in 1 .. x /\ \A i \in lo .. x : s[i] = "*"
  BY <1>2
<1>8. hi \in x + 1 .. Len(s) /\ \A i \in x + 1 .. hi : s[i] = "*"
  BY <1>6
<1>. HIDE DEF Left, Right, Rest
<1>9. lo = 1 \/ s[lo - 1] # "*"
  <2>. SUFFICES ASSUME lo # 1, s[lo - 1] = "*" PROVE FALSE
    OBVIOUS
  <2>1. lo - 1 \in 1 .. x /\ lo \in Nat
    BY <1>7
  <2>2. \A i \in lo - 1 .. x : i = lo - 1 \/ i \in lo .. x
    BY <2>1
  <2>3. lo - 1 \in Left
    BY <1>7, <2>1, <2>2 DEF Left
  <2>4. lo <= lo - 1
    BY <1>2, <2>3
  <2>. QED
    BY <2>1, <2>4
<1>b. hi \in x + 1 .. Len(s)
  BY <1>8
<1>a. hi # Len(s) => /\ hi + 1 \in x + 1 .. Len(s)
                     /\ ~(Len(s) - hi <= Len(s) - (hi + 1))
                     /\ \A i \in x + 1 .. hi + 1 : i = hi + 1 \/ i \in x + 1 .. hi
  <2>. DEFINE n == Len(s)
  <2>1. n \in Nat /\ x \in Nat /\ hi \in x + 1 .. n
    BY <1>0, <1>b
  <2>. HIDE DEF n
  <2>2. hi # n => /\ hi + 1 \in x + 1 .. n
                  /\ ~(n - hi <= n - (hi + 1))
                  /\ \A i \in x + 1 .. hi + 1 : i = hi + 1 \/ i \in x + 1 .. hi
    BY <2>1
  <2>. QED
    BY <2>2 DEF n
<1>10. hi = Len(s) \/ s[hi + 1] # "*"
  <2>1. ASSUME hi # Len(s), s[hi + 1] = "*" PROVE hi + 1 \in Right
    BY <1>8, <1>a, <2>1 DEF Right
  <2>2. hi + 1 \in Right => Len(s) - (hi + 1) \in Rest
    BY DEF Rest
  <2>. QED
    BY <1>5, <1>6, <1>a, <2>1, <2>2
<1>11. \A i \in lo .. hi : s[i] = "*"
  <2>1. \A i \in lo .. hi : i \in lo .. x \/ i \in x + 1 .. hi
    BY <1>7, <1>8
  <2>. QED
    BY <1>7, <1>8, <2>1
<1>12. lo \in 1 .. Len(s) /\ hi \in 1 .. Len(s) /\ lo <= hi /\ lo <= x /\ x + 1 <= hi
  BY <1>0, <1>7, <1>8
<1>13. <<lo, hi>> \in Glob!StarRuns(s)
  BY <1>0, <1>9, <1>10, <1>11, <1>12 DEF Glob!StarRuns
<1>. QED
  BY <1>12, <1>13

\* In a text with well-formed runs two adjacent stars are a whole piece.
LEMMA StarsArePiece ==
    ASSUME NEW s \in Seq(STRING), Glob!Accepted(s), NEW k \in 1 .. Pieces(s),
           NEW i \in 1 .. Len(Glob!Split(s)[k]) - 1,
           Glob!Split(s)[k][i] = "*", Glob!Split(s)[k][i + 1] = "*"
    PROVE  Glob!Split(s)[k] = Glob!DoubleStar
<1>. DEFINE piece == Glob!Split(s)[k]
            from == Glob!CutAt(s, k)
            to == Glob!CutAt(s, k + 1)
            x == from + i
<1>0. Len(s) \in Nat /\ DOMAIN s = 1 .. Len(s) /\ Pieces(s) \in Nat
  BY LenProperties, CutsBounded
<1>1. /\ from \in 0 .. Len(s) + 1 /\ to \in 0 .. Len(s) + 1 /\ from < to
      /\ piece \in Seq(STRING) /\ Len(piece) = to - from - 1
      /\ \A j \in 1 .. to - from - 1 : piece[j] = s[from + j]
  BY SplitShape
<1>. HIDE DEF piece, from, to
<1>2. i \in Nat /\ i >= 1 /\ i + 1 <= to - from - 1
  BY <1>1 DEF piece
<1>3. piece[i] = s[from + i] /\ piece[i + 1] = s[from + (i + 1)]
  BY <1>1, <1>2
<1>4. /\ x \in 1 .. Len(s) /\ x + 1 <= Len(s) /\ from < x /\ x + 1 < to
      /\ s[x] = "*" /\ s[x + 1] = "*"
  <2>1. from + (i + 1) = x + 1
    BY <1>1, <1>2
  <2>2. s[x] = "*" /\ s[x + 1] = "*"
    BY <1>3, <2>1 DEF piece
  <2>. QED
    BY <1>0, <1>1, <1>2, <2>2
<1>. HIDE DEF x
<1>5. PICK stars \in Glob!StarRuns(s) : stars[1] <= x /\ x + 1 <= stars[2]
  BY <1>4, RunAround
<1>6. /\ stars[1] \in 1 .. Len(s) /\ stars[2] \in 1 .. Len(s)
      /\ Glob!WellFormedRun(s, stars)
  BY <1>0 DEF Glob!StarRuns, Glob!Accepted
<1>7. /\ stars[1] = x /\ stars[2] = x + 1
      /\ x = 1 \/ s[x - 1] = Glob!Separator
      /\ x + 1 = Len(s) \/ s[(x + 1) + 1] = Glob!Separator
  <2>1. stars[2] - stars[1] + 1 <= 2
    BY <1>6 DEF Glob!WellFormedRun
  <2>2. stars[1] = x /\ stars[2] = x + 1 /\ stars[2] - stars[1] + 1 = 2
    BY <1>4, <1>5, <1>6, <2>1
  <2>. QED
    BY <1>6, <2>2 DEF Glob!WellFormedRun
<1>8. x - 1 \in Glob!Cuts(s)
  <2>1. CASE x = 1
    BY <2>1, CutsBounded
  <2>2. CASE x # 1
    <3>1. x - 1 \in 1 .. Len(s)
      BY <1>0, <1>4, <2>2
    <3>. QED
      BY <1>7, <2>2, <3>1, CutsBounded
  <2>. QED
    BY <2>1, <2>2
<1>9. x + 2 \in Glob!Cuts(s)
  <2>1. CASE x + 1 = Len(s)
    <3>1. x + 2 = Len(s) + 1
      BY <1>0, <1>4, <2>1
    <3>. QED
      BY <3>1, CutsBounded
  <2>2. CASE x + 1 # Len(s)
    <3>1. x + 2 \in 1 .. Len(s) /\ (x + 1) + 1 = x + 2
      BY <1>0, <1>4, <2>2
    <3>. QED
      BY <1>7, <2>2, <3>1, CutsBounded
  <2>. QED
    BY <2>1, <2>2
<1>10. from = x - 1
  <2>1. ~(from < x - 1 /\ x - 1 < to)
    BY <1>8, CutsAdjacent DEF from, to
  <2>. QED
    BY <1>0, <1>1, <1>4, <2>1
<1>11. to = x + 2
  <2>1. ~(from < x + 2 /\ x + 2 < to)
    BY <1>9, CutsAdjacent DEF from, to
  <2>. QED
    BY <1>0, <1>1, <1>4, <2>1
<1>12. Len(piece) = 2 /\ i = 1
  BY <1>0, <1>1, <1>2, <1>4, <1>10, <1>11
<1>13. piece[1] = "*" /\ piece[2] = "*"
  BY <1>12 DEF piece
<1>. QED
  <2>1. "*" \in STRING
    <3>1. 1 \in 1 .. Len(piece)
      BY <1>12
    <3>2. piece[1] \in STRING
      BY <1>1, <3>1, ElementOfSeq
    <3>. QED
      BY <1>13, <3>2
  <2>2. \A a \in STRING : <<a, a>> \in Seq(STRING) /\ Len(<<a, a>>) = 2
    OBVIOUS
  <2>3. /\ Glob!DoubleStar \in Seq(STRING) /\ Len(Glob!DoubleStar) = 2
        /\ Glob!DoubleStar[1] = "*" /\ Glob!DoubleStar[2] = "*"
    BY <2>1, <2>2 DEF Glob!DoubleStar
  <2>4. \A j \in 1 .. Len(piece) : piece[j] = Glob!DoubleStar[j]
    BY <1>12, <1>13, <2>3
  <2>. QED
    BY <1>1, <1>12, <2>3, <2>4, SeqEqual DEF piece

\* Two adjacent stars are a segment of their own in every pattern that compiles
\* (Glob::compile).
THEOREM StarsStandAlone == Spec => []DoubleStarStandsAlone
<1>1. ASSUME MatchInv PROVE DoubleStarStandsAlone
  <2>. SUFFICES ASSUME pc \notin {"idle", "compile", "rejected"},
                       NEW k \in DOMAIN segments, segments[k] # Glob!DoubleStar,
                       NEW i \in 1 .. Len(segments[k]) - 1
                PROVE  segments[k][i] # "*" \/ segments[k][i + 1] # "*"
    BY DEF DoubleStarStandsAlone
  <2>1. Loaded
    BY <1>1 DEF MatchInv
  <2>2. /\ pattern \in Seq(STRING) /\ Glob!Accepted(pattern)
        /\ segments = Glob!Split(pattern)
    BY <2>1 DEF Loaded
  <2>3. Len(segments) = Pieces(pattern) /\ DOMAIN segments = 1 .. Len(segments)
    BY <2>2, SplitShape, LenProperties
  <2>4. k \in 1 .. Pieces(pattern)
    BY <2>3
  <2>. QED
    BY <2>2, <2>4, StarsArePiece
<1>. QED
  BY <1>1, MatcherInvariance, PTL

-----------------------------------------------------------------------------
(***************************************************************************)
(* Beneath the literal start of a pattern.                                 *)
(***************************************************************************)

\* A text that another equals, or goes on from with a separator.
Leads(a, s) ==
    \/ a = s
    \/ /\ Len(a) < Len(s) /\ \A i \in 1 .. Len(a) : a[i] = s[i]
       /\ s[Len(a) + 1] = Glob!Separator

\* A pattern matches nothing outside a literal start of it.
LEMMA LiteralBeneath ==
    ASSUME NEW a \in Seq(STRING), NEW s \in Seq(STRING), NEW p \in Seq(STRING),
           Literal(a), Leads(a, s), Glob!Means(Glob!Split(s), Glob!Split(p))
    PROVE  Beneath(a, p) /\ Glob!Split(a)[1] = Glob!Split(p)[1]
<1>. DEFINE h == Pieces(a)
            A == Glob!Split(a)
            S == Glob!Split(s)
            P == Glob!Split(p)
<1>0. /\ Len(a) \in Nat /\ h \in Nat \ {0}
      /\ A \in Seq(Seq(STRING)) /\ Len(A) = h
      /\ S \in Seq(Seq(STRING)) /\ Len(S) = Pieces(s) /\ Pieces(s) \in Nat
      /\ P \in Seq(Seq(STRING)) /\ Len(P) \in Nat
  BY SplitShape, CutsBounded, LenProperties
<1>1. h <= Pieces(s) /\ \A k \in 1 .. h : A[k] = S[k]
  <2>1. CASE a = s
    BY <1>0, <2>1
  <2>2. CASE a # s
    <3>1. /\ Len(a) < Len(s) /\ \A i \in 1 .. Len(a) : a[i] = s[i]
          /\ s[Len(a) + 1] = Glob!Separator
      BY <2>2 DEF Leads
    <3>2. /\ Pieces(a) < Pieces(s)
          /\ \A k \in 1 .. Pieces(a) : Glob!Split(a)[k] = Glob!Split(s)[k]
      BY <3>1, SplitStart
    <3>. QED
      BY <1>0, <3>2
  <2>. QED
    BY <2>1, <2>2
<1>2. ASSUME NEW k \in 1 .. h PROVE Literal(A[k])
  <2>. DEFINE from == Glob!CutAt(a, k)
              to == Glob!CutAt(a, k + 1)
  <2>1. /\ from \in 0 .. Len(a) + 1 /\ to \in 0 .. Len(a) + 1 /\ from < to
        /\ Len(A[k]) = to - from - 1
        /\ \A i \in 1 .. to - from - 1 : A[k][i] = a[from + i]
    BY SplitShape
  <2>. HIDE DEF from, to, A
  <2>2. \A i \in 1 .. to - from - 1 : from + i \in 1 .. Len(a)
    <3>. DEFINE n == Len(a)
    <3>1. n \in Nat /\ from \in 0 .. n + 1 /\ to \in 0 .. n + 1
      BY <1>0, <2>1
    <3>. HIDE DEF n
    <3>2. \A i \in 1 .. to - from - 1 : from + i \in 1 .. n
      BY <3>1
    <3>. QED
      BY <3>2 DEF n
  <2>. QED
    BY <2>1, <2>2 DEF Literal
<1>. HIDE DEF h, A, S, P
<1>3. h \in 1 .. Len(S) /\ \A k \in 1 .. h : Literal(S[k])
  BY <1>0, <1>1, <1>2
<1>4. h <= Len(P) /\ \A k \in 1 .. h : S[k] = P[k]
  BY <1>0, <1>3, LiteralStart DEF S, P
<1>5. \A k \in 1 .. h : A[k] = P[k]
  BY <1>1, <1>4
<1>6. \A k \in 1 .. h : A[k] \in Seq(STRING) /\ P[k] \in Seq(STRING)
  BY <1>0, <1>4, ElementOfSeq
<1>7. /\ SubSeq(A, 1, h) \in Seq(Seq(STRING)) /\ Len(SubSeq(A, 1, h)) = h
      /\ \A i \in 1 .. h : SubSeq(A, 1, h)[i] = A[i]
  BY <1>0, <1>6, SubSeqProperties
<1>8. /\ SubSeq(P, 1, h) \in Seq(Seq(STRING)) /\ Len(SubSeq(P, 1, h)) = h
      /\ \A i \in 1 .. h : SubSeq(P, 1, h)[i] = P[i]
  BY <1>0, <1>6, SubSeqProperties
<1>9. SubSeq(A, 1, h) = SubSeq(P, 1, h)
  BY <1>5, <1>7, <1>8, SeqEqual
<1>10. IsPrefix(A, P)
  BY <1>0, <1>4, <1>9 DEF IsPrefix
<1>11. A[1] = P[1]
  BY <1>0, <1>5
<1>. QED
  BY <1>10, <1>11 DEF Beneath, A, P

\* A text starts with a separator exactly when its first piece is empty.
LEMMA AbsoluteFirst ==
    ASSUME NEW s \in Seq(STRING), s # <<>>
    PROVE  /\ s[1] = Glob!Separator <=> Glob!Split(s)[1] = <<>>
           /\ s[1] # Glob!Separator =>
                 /\ Glob!Split(s)[1] \in Seq(STRING) /\ Len(Glob!Split(s)[1]) \in Nat \ {0}
                 /\ Glob!Split(s)[1][1] = s[1]
<1>. DEFINE to == Glob!CutAt(s, 1 + 1)
            first == Glob!Split(s)[1]
<1>0. Len(s) \in Nat \ {0} /\ Pieces(s) \in Nat \ {0}
  BY CutsBounded, EmptySeq, LenProperties
<1>1. 1 \in 1 .. Pieces(s) /\ 2 \in 1 .. Pieces(s) + 1 /\ Glob!CutAt(s, 1) = 0
  BY <1>0, FirstCut
<1>2. /\ to \in 0 .. Len(s) + 1 /\ 0 < to
      /\ first \in Seq(STRING) /\ Len(first) = to - 0 - 1
      /\ \A i \in 1 .. to - 0 - 1 : first[i] = s[0 + i]
  <2>1. LET from == Glob!CutAt(s, 1)
        IN  /\ to \in 0 .. Len(s) + 1 /\ from < to
            /\ first \in Seq(STRING) /\ Len(first) = to - from - 1
            /\ \A i \in 1 .. to - from - 1 : first[i] = s[from + i]
    BY <1>1, SplitShape
  <2>. QED
    BY <1>1, <2>1
<1>3. to \in Glob!Cuts(s)
  BY <1>1, CutAtRank
<1>4. 1 \in 1 .. Len(s) /\ (1 \in Glob!Cuts(s) <=> s[1] = Glob!Separator)
  BY <1>0, CutsBounded
<1>5. 1 \in Glob!Cuts(s) => ~(0 < 1 /\ 1 < to)
  BY <1>1, CutsAdjacent
<1>. HIDE DEF to, first
<1>6. s[1] = Glob!Separator <=> to = 1
  BY <1>0, <1>2, <1>3, <1>4, <1>5
<1>7. to = 1 <=> Len(first) = 0
  BY <1>2
<1>8. Len(first) = 0 <=> first = <<>>
  BY <1>2, EmptySeq
<1>9. to # 1 => Len(first) \in Nat \ {0} /\ first[1] = s[1]
  BY <1>2
<1>. QED
  BY <1>2, <1>6, <1>7, <1>8, <1>9 DEF first

\* A first segment that is not empty and does not start with a star does not
\* match an empty first component.
LEMMA EmptyFirst ==
    ASSUME NEW g \in Seq(Seq(STRING)), NEW c \in Seq(Seq(STRING)),
           Len(g) >= 1, Len(c) >= 1, c[1] = <<>>,
           g[1] \in Seq(STRING), Len(g[1]) \in Nat \ {0}, g[1][1] # "*",
           Glob!Means(g, c)
    PROVE  FALSE
<1>. DEFINE m == Len(g)
            n == Len(c)
            u == g[1]
<1>0. m \in Nat /\ n \in Nat /\ 1 \in 1 .. m /\ 1 \in 1 .. n + 1 /\ 1 \in 1 .. n
  BY LenProperties
<1>1. Fits(m, n, SegmentStars(g), SegmentMeets(g, c), 1, 1)
  BY MeansFit DEF SegmentsFit
<1>2. 1 \notin SegmentStars(g)
  <2>1. Glob!DoubleStar[1] = "*"
    BY DEF Glob!DoubleStar
  <2>. QED
    BY <2>1 DEF SegmentStars
<1>3. <<1, 1>> \in SegmentMeets(g, c)
  <2>. HIDE DEF m, n
  <2>. QED
    BY <1>0, <1>1, <1>2, FitsOne
<1>4. Glob!UnitsMean(u, <<>>)
  BY <1>3 DEF SegmentMeets
<1>5. <<>> \in Seq(STRING) /\ Len(<<>>) = 0
  BY EmptySeq
<1>6. Fits(Len(u), 0, UnitStars(u), UnitMeets(u, <<>>), 1, 1)
  BY <1>4, <1>5, UnitsMeanFit DEF UnitsFit
<1>7. 1 \notin UnitStars(u) /\ 1 \in 1 .. Len(u) /\ Len(u) \in Nat /\ 1 \in 1 .. 0 + 1
  <2>1. 1 \notin UnitStars(u)
    BY DEF UnitStars
  <2>2. Len(u) \in Nat \ {0}
    OBVIOUS
  <2>. HIDE DEF u
  <2>. QED
    BY <2>1, <2>2
<1>. HIDE DEF u
<1>8. 1 <= 0
  BY <1>6, <1>7, FitsOne
<1>. QED
  BY <1>8

\* A set of positions has a greatest.
LEMMA GreatestNumber ==
    ASSUME NEW n \in Nat, NEW S \in SUBSET (1 .. n), S # {}
    PROVE  \E x \in S : \A y \in S : x >= y
<1>. DEFINE Rest == {n - y : y \in S}
<1>1. Rest \in SUBSET Nat /\ Rest # {}
  <2>1. \A y \in S : y \in 1 .. n
    OBVIOUS
  <2>2. \A y \in 1 .. n : n - y \in Nat
    OBVIOUS
  <2>3. \A y \in S : n - y \in Nat
    BY <2>1, <2>2
  <2>. QED
    BY <2>3
<1>2. PICK r \in Rest : \A j \in Rest : r <= j
  BY <1>1, LeastNumber
<1>3. PICK x \in S : r = n - x
  BY <1>2
<1>4. ASSUME NEW y \in S PROVE x >= y
  <2>1. n - y \in Rest
    OBVIOUS
  <2>2. n - x <= n - y
    BY <1>2, <1>3, <2>1
  <2>3. x \in 1 .. n /\ y \in 1 .. n
    OBVIOUS
  <2>. QED
    BY <2>2, <2>3
<1>. QED
  BY <1>4

\* The literal start that the hierarchy root is cut from (hierarchy_root_from_glob).
LEMMA RootOfGlob ==
    ASSUME NEW s \in Seq(STRING), s # <<>>
    PROVE  LET hull == Landlock!hierarchy_root_from_glob(s)
           IN  \/ hull = <<Glob!Separator>>
               \/ hull \in Seq(STRING) /\ hull # <<>> /\ Literal(hull) /\ Leads(hull, s)
               \/ s[1] \notin {"*", "?", Glob!Separator}
<1>. DEFINE n == Len(s)
            metas == {i \in DOMAIN s : s[i] \in {"*", "?"}}
            mn == Landlock!Min(metas)
            literal == SubSeq(s, 1, mn - 1)
            cuts == {i \in DOMAIN literal : literal[i] = "/"}
            names == DOMAIN literal \ cuts
            mx == Landlock!Max(cuts)
            nm == Landlock!Max(names)
            hull == Landlock!hierarchy_root_from_glob(s)
<1>0. n \in Nat \ {0} /\ DOMAIN s = 1 .. n /\ \A i \in 1 .. n : s[i] \in STRING
  BY EmptySeq, LenProperties
<1>1. hull = IF metas = {} THEN s
             ELSE IF names = {} \/ cuts = {1} THEN <<"/">>
             ELSE IF nm < Len(literal) THEN SubSeq(literal, 1, nm)
             ELSE IF cuts = {} THEN <<".">>
             ELSE SubSeq(literal, 1, mx - 1)
  BY DEF Landlock!hierarchy_root_from_glob
<1>2. CASE metas = {}
  <2>1. hull = s
    BY <1>1, <1>2
  <2>2. Literal(s)
    BY <1>0, <1>2 DEF Literal
  <2>. QED
    BY <2>1, <2>2 DEF Leads
<1>3. CASE metas # {}
  <2>1. mn \in metas /\ \A j \in metas : mn <= j
    <3>1. metas \in SUBSET Nat
      BY <1>0
    <3>2. \E x \in metas : \A j \in metas : x <= j
      <4>. HIDE DEF metas
      <4>. QED
        BY <1>3, <3>1, LeastNumber
    <3>. HIDE DEF metas
    <3>. QED
      BY <3>2, Zenon DEF Landlock!Min
  <2>2. mn \in 1 .. n /\ \A i \in 1 .. mn - 1 : s[i] \notin {"*", "?"} /\ i \in 1 .. n
    <3>1. mn \in 1 .. n
      BY <1>0, <2>1
    <3>2. \A i \in 1 .. mn - 1 : i \in 1 .. n /\ ~(mn <= i)
      BY <1>0, <3>1
    <3>3. \A i \in 1 .. mn - 1 : i \notin metas
      BY <2>1, <3>2
    <3>. QED
      BY <1>0, <3>1, <3>2, <3>3
  <2>. HIDE DEF metas, mn, n
  <2>3. /\ literal \in Seq(STRING) /\ Len(literal) = mn - 1
        /\ \A i \in 1 .. mn - 1 : literal[i] = s[i]
    <3>1. \A i \in 1 .. mn - 1 : s[i] \in STRING
      BY <1>0, <2>2
    <3>2. 1 \in Int /\ mn - 1 \in Int
      BY <2>2
    <3>3. /\ literal \in Seq(STRING) /\ Len(literal) = IF 1 <= mn - 1 THEN (mn - 1) - 1 + 1 ELSE 0
          /\ \A i \in 1 .. (mn - 1) - 1 + 1 : literal[i] = s[1 + i - 1]
      BY <3>1, <3>2, SubSeqProperties
    <3>. HIDE DEF literal
    <3>4. Len(literal) = mn - 1
      BY <2>2, <3>3
    <3>5. \A i \in 1 .. mn - 1 : i \in 1 .. (mn - 1) - 1 + 1 /\ 1 + i - 1 = i
      BY <2>2
    <3>. QED
      BY <3>3, <3>4, <3>5
  <2>. HIDE DEF literal
  <2>4. DOMAIN literal = 1 .. mn - 1
    BY <2>3, LenProperties
  <2>5. CASE names = {} \/ cuts = {1}
    BY <1>1, <1>3, <2>5 DEF Glob!Separator
  <2>6. CASE names # {} /\ cuts = {}
    <3>1. PICK i \in names : TRUE
      BY <2>6
    <3>2. 1 \in 1 .. mn - 1
      BY <2>2, <2>4, <3>1
    <3>3. literal[1] # "/"
      BY <2>4, <2>6, <3>2
    <3>. QED
      BY <2>2, <2>3, <3>2, <3>3 DEF Glob!Separator
  <2>7. CASE names # {} /\ cuts # {} /\ cuts # {1}
    <3>. DEFINE k == IF nm < Len(literal) THEN nm ELSE mx - 1
    <3>1. /\ cuts \in SUBSET (1 .. mn - 1) /\ names \in SUBSET (1 .. mn - 1)
          /\ mn - 1 \in Nat
      BY <2>2, <2>4
    <3>2. mx \in cuts /\ \A j \in cuts : mx >= j
      <4>. HIDE DEF cuts
      <4>1. \E x \in cuts : \A j \in cuts : x >= j
        BY <2>7, <3>1, GreatestNumber
      <4>. QED
        BY <4>1, Zenon DEF Landlock!Max
    <3>3. nm \in names /\ \A j \in names : nm >= j
      <4>. HIDE DEF names
      <4>1. \E x \in names : \A j \in names : x >= j
        BY <2>7, <3>1, GreatestNumber
      <4>. QED
        BY <4>1, Zenon DEF Landlock!Max
    <3>4. hull = SubSeq(literal, 1, k)
      BY <1>1, <1>3, <2>7
    <3>5. k \in 1 .. mn - 1 /\ k + 1 \in 1 .. mn - 1 /\ literal[k + 1] = "/"
      <4>1. CASE nm < Len(literal)
        <5>1. nm \in 1 .. mn - 1 /\ nm + 1 \in 1 .. mn - 1 /\ ~(nm >= nm + 1)
          BY <2>2, <2>3, <3>1, <3>3, <4>1
        <5>2. nm + 1 \notin names
          BY <3>3, <5>1
        <5>. QED
          BY <2>4, <4>1, <5>1, <5>2
      <4>2. CASE ~(nm < Len(literal))
        <5>1. mx \in 1 .. mn - 1 /\ literal[mx] = "/"
          BY <3>1, <3>2
        <5>2. mx # 1
          <6>. SUFFICES ASSUME mx = 1 PROVE FALSE
            OBVIOUS
          <6>1. \A j \in cuts : j \in 1 .. mn - 1 /\ 1 >= j
            BY <3>1, <3>2
          <6>2. \A j \in cuts : j = 1
            BY <2>2, <6>1
          <6>. HIDE DEF cuts
          <6>. QED
            BY <2>7, <3>2, <6>2
        <5>. HIDE DEF mx, nm
        <5>3. mx - 1 \in 1 .. mn - 1 /\ mx - 1 + 1 = mx
          BY <2>2, <5>1, <5>2
        <5>. QED
          BY <4>2, <5>1, <5>3
      <4>. QED
        BY <4>1, <4>2
    <3>. HIDE DEF cuts, names, mx, nm, k, hull
    <3>6. k \in Int /\ \A i \in 1 .. k : i \in 1 .. mn - 1
      BY <2>2, <3>5
    <3>7. \A i \in 1 .. k : literal[i] \in STRING
      BY <1>0, <2>2, <2>3, <3>6
    <3>8. /\ hull \in Seq(STRING) /\ Len(hull) = IF 1 <= k THEN k - 1 + 1 ELSE 0
          /\ \A i \in 1 .. k - 1 + 1 : hull[i] = literal[1 + i - 1]
      BY <3>4, <3>6, <3>7, SubSeqProperties
    <3>9. Len(hull) = k /\ k \in Nat \ {0}
      BY <2>2, <3>5, <3>8
    <3>10. \A i \in 1 .. Len(hull) : hull[i] = s[i] /\ s[i] \notin {"*", "?"}
      <4>1. \A i \in 1 .. k : i \in 1 .. k - 1 + 1 /\ 1 + i - 1 = i
        BY <3>9
      <4>. QED
        BY <2>2, <2>3, <3>6, <3>8, <3>9, <4>1
    <3>11. s[Len(hull) + 1] = "/" /\ k < n
      BY <1>0, <2>2, <2>3, <3>5, <3>9
    <3>12. Leads(hull, s)
      BY <3>9, <3>10, <3>11 DEF Leads, Glob!Separator, n
    <3>13. hull # <<>>
      BY <3>9, EmptySeq
    <3>14. Literal(hull)
      BY <3>10 DEF Literal
    <3>. QED
      BY <3>8, <3>12, <3>13, <3>14 DEF hull
  <2>. QED
    BY <2>5, <2>6, <2>7
<1>. QED
  BY <1>2, <1>3

\* What an accepted pattern matches, it means.
LEMMA MatchedMeans ==
    ASSUME MatchInv, pc = "done", result
    PROVE  /\ Loaded /\ pattern # <<>> /\ pattern # Glob!Misplaced
           /\ Glob!Means(Glob!Split(pattern), Glob!Split(path))
BY DEF MatchInv, Loaded, Glob!Accepted

\* The hull covers the glob: a path that a pattern matches lies at or beneath the
\* pattern's hierarchy root (hierarchy_root_from_glob).
THEOREM RootCovers == Spec => []RootCoversMatches
<1>1. ASSUME MatchInv PROVE RootCoversMatches
  <2>. DEFINE hull == Landlock!hierarchy_root_from_glob(pattern)
  <2>. SUFFICES ASSUME pc = "done", result, Absolute(path)
                PROVE  Absolute(hull) /\ (hull = <<Glob!Separator>> \/ Beneath(hull, path))
    BY DEF RootCoversMatches
  <2>1. /\ pattern \in Seq(STRING) /\ path \in Seq(STRING) /\ pattern # <<>>
        /\ Glob!Means(Glob!Split(pattern), Glob!Split(path))
    BY <1>1, MatchedMeans DEF Loaded
  <2>2. path # <<>> /\ path[1] = Glob!Separator
    BY DEF Absolute
  <2>3. Glob!Split(path)[1] = <<>>
    BY <2>1, <2>2, AbsoluteFirst
  <2>4. \/ hull = <<Glob!Separator>>
        \/ hull \in Seq(STRING) /\ hull # <<>> /\ Literal(hull) /\ Leads(hull, pattern)
        \/ pattern[1] \notin {"*", "?", Glob!Separator}
    BY <2>1, RootOfGlob
  <2>. HIDE DEF hull
  <2>5. CASE hull = <<Glob!Separator>>
    BY <2>5 DEF Absolute
  <2>6. CASE hull \in Seq(STRING) /\ hull # <<>> /\ Literal(hull) /\ Leads(hull, pattern)
    <3>1. Beneath(hull, path) /\ Glob!Split(hull)[1] = <<>>
      BY <2>1, <2>3, <2>6, LiteralBeneath
    <3>2. hull[1] = Glob!Separator
      BY <2>6, <3>1, AbsoluteFirst
    <3>. QED
      BY <2>6, <3>1, <3>2 DEF Absolute
  <2>7. CASE pattern[1] \notin {"*", "?", Glob!Separator}
    <3>. DEFINE g == Glob!Split(pattern)
                c == Glob!Split(path)
    <3>1. /\ g \in Seq(Seq(STRING)) /\ Len(g) >= 1
          /\ c \in Seq(Seq(STRING)) /\ Len(c) >= 1
      <4>1. Pieces(pattern) \in Nat \ {0} /\ Pieces(path) \in Nat \ {0}
        BY <2>1, CutsBounded
      <4>2. /\ g \in Seq(Seq(STRING)) /\ Len(g) = Pieces(pattern)
            /\ c \in Seq(Seq(STRING)) /\ Len(c) = Pieces(path)
        BY <2>1, SplitShape
      <4>. QED
        BY <4>1, <4>2
    <3>2. g[1] \in Seq(STRING) /\ Len(g[1]) \in Nat \ {0} /\ g[1][1] # "*"
      BY <2>1, <2>7, AbsoluteFirst
    <3>. QED
      BY <2>1, <2>3, <3>1, <3>2, EmptyFirst
  <2>. QED
    BY <2>4, <2>5, <2>6, <2>7
<1>. QED
  BY <1>1, MatcherInvariance, PTL

-----------------------------------------------------------------------------
(***************************************************************************)
(* Tokens.                                                                 *)
(***************************************************************************)

\* A token that is the whole pattern or its first component gives way to a start
\* of the pattern.
LEMMA TokenLeads ==
    ASSUME NEW s \in Seq(STRING), s # <<>>, Len(s) = 1 \/ s[2] = Glob!Separator,
           NEW dir \in Seq(STRING), dir # <<>>
    PROVE  /\ Leads(dir, dir \o Tail(s))
           /\ (dir \o Tail(s))[1] = dir[1] /\ dir \o Tail(s) # <<>>
<1>. DEFINE rest == Tail(s)
            all == dir \o rest
<1>0. Len(s) \in Nat \ {0} /\ Len(dir) \in Nat \ {0}
  BY LenProperties, EmptySeq
<1>1. rest \in Seq(STRING) /\ Len(rest) = Len(s) - 1 /\ \A i \in 1 .. Len(rest) : rest[i] = s[i + 1]
  BY HeadTailProperties
<1>2. /\ all \in Seq(STRING) /\ Len(all) = Len(dir) + Len(rest)
      /\ \A i \in 1 .. Len(dir) + Len(rest) :
            all[i] = IF i <= Len(dir) THEN dir[i] ELSE rest[i - Len(dir)]
  BY <1>1, ConcatProperties
<1>. HIDE DEF rest, all
<1>. DEFINE n == Len(dir)
            r == Len(rest)
<1>3. n \in Nat \ {0} /\ r \in Nat /\ Len(all) = n + r
  BY <1>0, <1>1, <1>2
<1>4. \A i \in 1 .. n + r : all[i] = IF i <= n THEN dir[i] ELSE rest[i - n]
  BY <1>2
<1>5. \A i \in 1 .. n : all[i] = dir[i]
  <2>. HIDE DEF n, r
  <2>1. \A i \in 1 .. n : i \in 1 .. n + r /\ i <= n
    BY <1>3
  <2>. QED
    BY <1>4, <2>1
<1>6. CASE r = 0
  <2>1. Len(all) = Len(dir)
    BY <1>3, <1>6
  <2>2. all = dir
    BY <1>2, <1>5, <2>1, SeqEqual
  <2>. QED
    BY <2>2 DEF Leads, all, rest
<1>7. CASE r # 0
  <2>1. s[2] = Glob!Separator /\ rest[1] = s[2]
    <3>1. Len(s) # 1
      BY <1>1, <1>7
    <3>2. 1 \in 1 .. Len(rest)
      BY <1>3, <1>7
    <3>3. rest[1] = s[1 + 1]
      BY <1>1, <3>2
    <3>. QED
      BY <3>1, <3>3
  <2>2. n + 1 \in 1 .. n + r /\ ~(n + 1 <= n) /\ (n + 1) - n = 1 /\ n < n + r /\ 1 \in 1 .. n
    <3>. HIDE DEF n, r
    <3>. QED
      BY <1>3, <1>7
  <2>3. all[n + 1] = Glob!Separator
    BY <1>4, <2>1, <2>2
  <2>4. Leads(dir, all)
    BY <1>3, <1>5, <2>2, <2>3 DEF Leads
  <2>5. all[1] = dir[1] /\ all # <<>>
    BY <1>2, <1>3, <1>5, <2>2, EmptySeq
  <2>. QED
    BY <2>4, <2>5 DEF all, rest
<1>. QED
  BY <1>6, <1>7

\* An accepted pattern that was written with a token starts with the directory the
\* token stands for.
LEMMA ExpandLeads ==
    ASSUME NEW s \in Seq(STRING), Glob!expand(s) \notin {<<>>, Glob!Misplaced},
           s[1] \in {Glob!WS, "~"}
    PROVE  Leads(IF s[1] = Glob!WS THEN Workspace ELSE Home, Glob!expand(s))
<1>. DEFINE after_ws == Glob!ExpandToken(s, Glob!WS, Workspace)
            expanded == Glob!ExpandToken(after_ws, "~", Home)
<1>0. /\ Workspace \in Seq(STRING) /\ Workspace # <<>> /\ Workspace[1] = "/"
      /\ Home \in Seq(STRING) /\ Home # <<>> /\ Home[1] = "/"
  BY InputsAssumption
<1>1. /\ ~(after_ws = s /\ Glob!WS \in Glob!ToSet(s))
      /\ ~(expanded # <<>> /\ expanded[1] = "~")
      /\ Glob!expand(s) = expanded
  BY DEF Glob!expand
<1>2. s # <<>>
  <2>. SUFFICES ASSUME s = <<>> PROVE FALSE
    OBVIOUS
  <2>1. after_ws = <<>>
    BY DEF Glob!ExpandToken
  <2>2. expanded = <<>>
    BY <2>1 DEF Glob!ExpandToken
  <2>. QED
    BY <1>1, <2>2
<1>3. 1 \in DOMAIN s /\ s[1] \in Glob!ToSet(s)
  <2>1. Len(s) \in Nat \ {0} /\ DOMAIN s = 1 .. Len(s)
    BY <1>2, LenProperties, EmptySeq
  <2>2. 1 \in DOMAIN s
    BY <2>1
  <2>. QED
    BY <2>2 DEF Glob!ToSet
<1>4. CASE s[1] = Glob!WS
  <2>1. Len(s) = 1 \/ s[2] = Glob!Separator
    <3>. SUFFICES ASSUME ~(Len(s) = 1 \/ s[2] = Glob!Separator) PROVE FALSE
      OBVIOUS
    <3>1. after_ws = s
      BY DEF Glob!ExpandToken
    <3>. QED
      BY <1>1, <1>3, <1>4, <3>1
  <2>2. after_ws = Workspace \o Tail(s)
    BY <1>2, <1>4, <2>1 DEF Glob!ExpandToken
  <2>3. Leads(Workspace, after_ws) /\ after_ws[1] = "/"
    BY <1>0, <1>2, <2>1, <2>2, TokenLeads
  <2>. HIDE DEF after_ws
  <2>4. expanded = after_ws
    BY <2>3 DEF Glob!ExpandToken
  <2>. QED
    BY <1>1, <1>4, <2>3, <2>4
<1>5. CASE s[1] = "~"
  <2>1. s[1] # Glob!WS
    BY <1>5 DEF Glob!WS
  <2>2. after_ws = s
    BY <2>1 DEF Glob!ExpandToken
  <2>3. expanded = Glob!ExpandToken(s, "~", Home)
    BY <2>2
  <2>4. Len(s) = 1 \/ s[2] = Glob!Separator
    <3>. SUFFICES ASSUME ~(Len(s) = 1 \/ s[2] = Glob!Separator) PROVE FALSE
      OBVIOUS
    <3>1. expanded = s
      BY <2>3 DEF Glob!ExpandToken
    <3>. QED
      BY <1>1, <1>2, <1>5, <3>1
  <2>5. expanded = Home \o Tail(s)
    BY <1>2, <1>5, <2>3, <2>4 DEF Glob!ExpandToken
  <2>6. Leads(Home, Home \o Tail(s))
    BY <1>0, <1>2, <2>4, TokenLeads
  <2>. QED
    BY <1>1, <2>1, <2>5, <2>6
<1>. QED
  BY <1>4, <1>5

\* A pattern written with a token matches nothing outside the directory the token
\* stands for, as long as neither directory's name holds a metacharacter (expand).
THEOREM TokensStayBeneath ==
    (\A dir \in {Workspace, Home} : Literal(dir)) => (Spec => []TokenStaysBeneath)
<1>. SUFFICES ASSUME \A dir \in {Workspace, Home} : Literal(dir)
              PROVE  Spec => []TokenStaysBeneath
  OBVIOUS
<1>1. ASSUME MatchInv PROVE TokenStaysBeneath
  <2>. DEFINE dir == IF raw[1] = Glob!WS THEN Workspace ELSE Home
  <2>. SUFFICES ASSUME pc = "done", result, raw[1] \in {Glob!WS, "~"}
                PROVE  Beneath(dir, path)
    BY DEF TokenStaysBeneath
  <2>1. /\ raw \in Seq(STRING) /\ pattern \in Seq(STRING) /\ path \in Seq(STRING)
        /\ pattern = Glob!expand(raw) /\ pattern \notin {<<>>, Glob!Misplaced}
        /\ Glob!Means(Glob!Split(pattern), Glob!Split(path))
    BY <1>1, MatchedMeans DEF Loaded
  <2>2. Leads(dir, pattern)
    BY <2>1, ExpandLeads
  <2>3. dir \in Seq(STRING) /\ Literal(dir)
    BY InputsAssumption
  <2>. HIDE DEF dir
  <2>. QED
    BY <2>1, <2>2, <2>3, LiteralBeneath
<1>. QED
  BY <1>1, MatcherInvariance, PTL

=============================================================================
