----------------------------- MODULE LimitsProofs -----------------------------
(***************************************************************************)
(* Proofs about the two limits of a long loop: the compacted transcript    *)
(* (Compaction) and the budget ledgers (Ledger).                           *)
(*                                                                         *)
(* The Compactor's loops are recursive functions.  That they exist, and    *)
(* what they compute for every transcript, is shown by induction on the    *)
(* messages read so far, from the well-foundedness of < on Nat.  Pinned    *)
(* and Rest then split a transcript, a compacted one is its pinned         *)
(* messages, a summary and the recent ones, and a second compaction finds  *)
(* nothing older than these.                                               *)
(*                                                                         *)
(* For the ledgers of any widths of the counters, any caps and any         *)
(* sequence of calls: where a cap leaves room above it no sum wraps, the   *)
(* cap holds and the two ledgers count alike; their clocks differ by less  *)
(* than the second a caller rounds.                                        *)
(***************************************************************************)
EXTENDS Compaction, Ledger, SequenceTheorems, WellFoundedInduction, TLAPS

-----------------------------------------------------------------------------
(* Induction and recursion.                                                *)

\* Induction over the naturals, stated of a set.
LEMMA NatInd == ASSUME NEW S \in SUBSET Nat, 0 \in S, \A n \in S : n + 1 \in S
                PROVE  S = Nat
<1> DEFINE R == OpToRel(<, Nat)
           T == Nat \ S
<1>1. IsWellFoundedOn(R, Nat)
  BY NatLessThanWellFounded
<1>2. ASSUME T # {} PROVE FALSE
  <2>1. \E x \in T : \A y \in T : ~(<<y, x>> \in R)
    <3> HIDE DEF R
    <3> QED
      BY <1>1, <1>2, WFMin
  <2>2. PICK x \in T : \A y \in T : ~(<<y, x>> \in R)
    BY <2>1
  <2>3. x \in Nat /\ x # 0 /\ x - 1 \in Nat /\ x - 1 < x
    OBVIOUS
  <2>4. <<x - 1, x>> \in R
    BY <2>3 DEF OpToRel
  <2>5. x - 1 \in S
    BY <2>2, <2>3, <2>4
  <2>6. (x - 1) + 1 \in S
    BY <2>5
  <2> QED
    BY <2>3, <2>6
<1> QED
  BY <1>2

\* Induction up to a bound, as the loops need it.
LEMMA Upto ==
  ASSUME NEW N \in Nat, NEW S \in SUBSET (0 .. N), 0 \in S,
         \A n \in S : n < N => n + 1 \in S
  PROVE  S = 0 .. N
<1> DEFINE T == {n \in Nat : n <= N => n \in S}
<1>1. T = Nat
  <2>1. 0 \in T
    OBVIOUS
  <2>2. \A n \in T : n + 1 \in T
    OBVIOUS
  <2> HIDE DEF T
  <2>3. T \in SUBSET Nat
    BY DEF T
  <2> QED
    BY <2>1, <2>2, <2>3, NatInd
<1>2. ASSUME NEW n \in 0 .. N PROVE n \in S
  <2>1. n \in T
    <3> HIDE DEF T
    <3> QED
      BY <1>1, <1>2
  <2> QED
    BY <2>1, <1>2
<1> QED
  BY <1>2

\* f is what a loop computes that starts from a and takes N steps.
Follows(f, N, a, Step) ==
  f[0] = a /\ \A n \in 1 .. N : f[n] = Step[<<n, f[n - 1]>>]

\* A step function, a start and a bound have a recursive function.
LEMMA Recursion ==
  ASSUME NEW N \in Nat, NEW X, NEW a \in X, NEW Step \in [(1 .. N) \X X -> X]
  PROVE  \E f \in [0 .. N -> X] : Follows(f, N, a, Step)
<1> DEFINE Upon(f, k) == Follows(f, k, a, Step)
           S == {k \in 0 .. N : \E f \in [0 .. k -> X] : Upon(f, k)}
<1>1. 0 \in S
  <2>1. Upon([n \in 0 .. 0 |-> a], 0)
    BY DEF Follows
  <2>2. [n \in 0 .. 0 |-> a] \in [0 .. 0 -> X]
    OBVIOUS
  <2> HIDE DEF Upon
  <2>3. \E f \in [0 .. 0 -> X] : Upon(f, 0)
    BY <2>1, <2>2
  <2> QED
    BY <2>3
<1>2. ASSUME NEW k \in S, k < N PROVE k + 1 \in S
  <2>1. PICK f \in [0 .. k -> X] : Upon(f, k)
    OBVIOUS
  <2> DEFINE g == [n \in 0 .. k + 1 |-> IF n = k + 1 THEN Step[<<k + 1, f[k]>>] ELSE f[n]]
  <2>2. k \in Nat /\ k + 1 \in 0 .. N
    BY <1>2
  <2>3. Step[<<k + 1, f[k]>>] \in X
    BY <1>2, <2>2
  <2>4. g \in [0 .. k + 1 -> X]
    BY <2>2, <2>3
  <2>5. Upon(g, k + 1)
    <3>1. g[0] = a
      BY <2>1, <2>2 DEF Follows
    <3>2. ASSUME NEW n \in 1 .. k + 1 PROVE g[n] = Step[<<n, g[n - 1]>>]
      <4>1. n - 1 \in 0 .. k /\ n - 1 # k + 1
        BY <2>2, <3>2
      <4>2. g[n - 1] = f[n - 1]
        BY <4>1, <2>2
      <4>3. CASE n = k + 1
        BY <4>2, <4>3, <2>2
      <4>4. CASE n # k + 1
        BY <4>2, <4>4, <2>1, <2>2 DEF Follows
      <4> QED
        BY <4>3, <4>4
    <3> QED
      BY <3>1, <3>2 DEF Follows
  <2> QED
    BY <2>2, <2>4, <2>5
<1>3. S = 0 .. N
  <2> HIDE DEF S
  <2>1. S \in SUBSET (0 .. N)
    BY DEF S
  <2> QED
    BY <1>1, <1>2, <2>1, Upto
<1>4. N \in S
  <2> HIDE DEF S
  <2> QED
    BY <1>3
<1>5. PICK f \in [0 .. N -> X] : Upon(f, N)
  <2> HIDE DEF Upon
  <2> QED
    BY <1>4
<1> QED
  BY <1>5

-----------------------------------------------------------------------------
(* The loops of the Compactor.                                             *)

\* One message more is sifted: it is put behind the others, or left out.
LEMMA SiftingIs ==
  ASSUME NEW ms \in Seq(Message), NEW b
  PROVE  /\ Sifting(ms, b) \in [0 .. Len(ms) -> Seq(Message)]
         /\ Sifting(ms, b)[0] = <<>>
         /\ \A n \in 1 .. Len(ms) :
              Sifting(ms, b)[n] = IF ms[n].pinned = b
                                  THEN Append(Sifting(ms, b)[n - 1], ms[n])
                                  ELSE Sifting(ms, b)[n - 1]
<1> DEFINE N == Len(ms)
           X == Seq(Message)
           Put(n, s) == IF ms[n].pinned = b
                        THEN Append(s, ms[n])
                        ELSE s
           Step == [p \in (1 .. N) \X X |-> Put(p[1], p[2])]
           Body(f) == [n \in 0 .. Len(ms) |->
                         IF n = 0 THEN <<>>
                         ELSE Put(n, f[n - 1])]
<1>1. N \in Nat /\ <<>> \in X /\ \A n \in 1 .. N : ms[n] \in Message
  OBVIOUS
<1>2. ASSUME NEW n \in 1 .. N, NEW s \in X
      PROVE  (Put(n, s)) \in X
  BY <1>1
<1>3. Step \in [(1 .. N) \X X -> X]
  BY <1>2
<1>4. PICK f \in [0 .. N -> X] : Follows(f, N, <<>>, Step)
  <2> HIDE DEF N, X, Step
  <2> QED
    BY <1>1, <1>3, Recursion, Zenon
<1>5. \A n \in 1 .. N : f[n] = Put(n, f[n - 1])
  <2>1. ASSUME NEW n \in 1 .. N PROVE f[n - 1] \in X
    <3>1. n - 1 \in 0 .. N
      BY <1>1
    <3> HIDE DEF X, N
    <3> QED
      BY <3>1, <1>4
  <2> QED
    BY <1>4, <2>1 DEF Follows
<1>6. f = Body(f)
  <2>1. ASSUME NEW n \in 0 .. N PROVE f[n] = Body(f)[n]
    <3>1. CASE n = 0
      BY <1>4, <3>1 DEF Follows
    <3>2. CASE n # 0
      <4>1. n \in 1 .. N
        BY <3>2
      <4> QED
        BY <1>1, <1>5, <3>2, <4>1
    <3> QED
      BY <3>1, <3>2
  <2> QED
    BY <1>4, <2>1
<1> DEFINE S == Sifting(ms, b)
<1>7. S = Body(S)
  <2>1. S = CHOOSE g : g = Body(g)
    BY DEF Sifting
  <2> HIDE DEF Body, S
  <2> QED
    BY <1>6, <2>1
<1>8. /\ DOMAIN S = 0 .. N
      /\ S[0] = <<>>
      /\ \A n \in 1 .. N : S[n] = Put(n, S[n - 1])
  <2>1. N \in Nat /\ 0 \in 0 .. N /\ \A n \in 1 .. N : n \in 0 .. N /\ n # 0
    OBVIOUS
  <2> HIDE DEF S
  <2> QED
    BY <1>7, <2>1
<1> DEFINE T == {n \in 0 .. N : S[n] \in X}
<1>9. T = 0 .. N
  <2>1. 0 \in T
    <3> HIDE DEF S, X
    <3> QED
      BY <1>1, <1>8
  <2>2. ASSUME NEW n \in T, n < N PROVE n + 1 \in T
    <3>1. n + 1 \in 1 .. N /\ (n + 1) - 1 = n
      BY <1>1, <2>2
    <3>2. S[n] \in X /\ S[n + 1] = Put(n + 1, S[n])
      BY <1>8, <2>2, <3>1
    <3>3. (Put(n + 1, S[n])) \in X
      <4> HIDE DEF X, N, S
      <4> QED
        BY <1>2, <3>1, <3>2
    <3> HIDE DEF S, X
    <3> QED
      BY <3>1, <3>2, <3>3
  <2>3. T \in SUBSET (0 .. N)
    OBVIOUS
  <2> HIDE DEF T
  <2> QED
    BY <1>1, <2>1, <2>2, <2>3, Upto
<1>10. \A n \in 0 .. N : S[n] \in X
  BY <1>9
<1> HIDE DEF X, N, S
<1>11. S \in [0 .. N -> X]
  BY <1>7, <1>8, <1>10 DEF S
<1> QED
  BY <1>8, <1>11 DEF X, N, S

LEMMA ToSetAppend ==
  ASSUME NEW X, NEW s \in Seq(X), NEW x \in X
  PROVE  ToSet(Append(s, x)) = ToSet(s) \cup {x}
<1>1. ToSet(s) = {s[i] : i \in 1 .. Len(s)}
  BY DEF ToSet
<1>2. /\ DOMAIN Append(s, x) = 1 .. Len(s) + 1 /\ Len(s) \in Nat
      /\ \A i \in 1 .. Len(s) : Append(s, x)[i] = s[i]
      /\ Append(s, x)[Len(s) + 1] = x
  OBVIOUS
<1>3. ToSet(Append(s, x)) = {Append(s, x)[i] : i \in 1 .. Len(s) + 1}
  BY <1>2 DEF ToSet
<1> HIDE DEF ToSet
<1>4. 1 .. Len(s) + 1 = (1 .. Len(s)) \cup {Len(s) + 1}
  BY <1>2
<1> QED
  BY <1>1, <1>2, <1>3, <1>4

\* One line more is read.
LEMMA ReadingIs ==
  ASSUME NEW out \in Seq(Line), NEW lines \in Seq(Line \cup {"noise", "header"})
  PROVE  /\ Reading(out, lines) \in [0 .. Len(lines) -> Seq(Line)]
         /\ Reading(out, lines)[0] = out
         /\ \A n \in 1 .. Len(lines) :
              Reading(out, lines)[n] = IF /\ lines[n] \in Line
                                           /\ lines[n] \notin ToSet(Reading(out, lines)[n - 1])
                                       THEN Append(Reading(out, lines)[n - 1], lines[n])
                                       ELSE Reading(out, lines)[n - 1]
<1> DEFINE N == Len(lines)
           X == Seq(Line)
           Put(n, s) == IF lines[n] \in Line /\ lines[n] \notin ToSet(s)
                        THEN Append(s, lines[n])
                        ELSE s
           Step == [p \in (1 .. N) \X X |-> Put(p[1], p[2])]
           Body(f) == [n \in 0 .. Len(lines) |->
                         IF n = 0 THEN out
                         ELSE Put(n, f[n - 1])]
<1>1. N \in Nat /\ out \in X /\ \A n \in 1 .. N : lines[n] \in Line \cup {"noise", "header"}
  OBVIOUS
<1>2. ASSUME NEW n \in 1 .. N, NEW s \in X
      PROVE  (Put(n, s)) \in X
  BY <1>1
<1>3. Step \in [(1 .. N) \X X -> X]
  BY <1>2
<1>4. PICK f \in [0 .. N -> X] : Follows(f, N, out, Step)
  <2> HIDE DEF N, X, Step
  <2> QED
    BY <1>1, <1>3, Recursion, Zenon
<1>5. \A n \in 1 .. N : f[n] = Put(n, f[n - 1])
  <2>1. ASSUME NEW n \in 1 .. N PROVE f[n - 1] \in X
    <3>1. n - 1 \in 0 .. N
      BY <1>1
    <3> HIDE DEF X, N
    <3> QED
      BY <3>1, <1>4
  <2> QED
    BY <1>4, <2>1 DEF Follows
<1>6. f = Body(f)
  <2>1. ASSUME NEW n \in 0 .. N PROVE f[n] = Body(f)[n]
    <3>1. CASE n = 0
      BY <1>4, <3>1 DEF Follows
    <3>2. CASE n # 0
      <4>1. n \in 1 .. N
        BY <3>2
      <4> QED
        BY <1>1, <1>5, <3>2, <4>1
    <3> QED
      BY <3>1, <3>2
  <2> QED
    BY <1>4, <2>1
<1> DEFINE S == Reading(out, lines)
<1>7. S = Body(S)
  <2>1. S = CHOOSE g : g = Body(g)
    BY DEF Reading
  <2> HIDE DEF Body, S
  <2> QED
    BY <1>6, <2>1
<1>8. /\ DOMAIN S = 0 .. N
      /\ S[0] = out
      /\ \A n \in 1 .. N : S[n] = Put(n, S[n - 1])
  <2>1. N \in Nat /\ 0 \in 0 .. N /\ \A n \in 1 .. N : n \in 0 .. N /\ n # 0
    OBVIOUS
  <2> HIDE DEF S
  <2> QED
    BY <1>7, <2>1
<1> DEFINE T == {n \in 0 .. N : S[n] \in X}
<1>9. T = 0 .. N
  <2>1. 0 \in T
    <3> HIDE DEF S, X
    <3> QED
      BY <1>1, <1>8
  <2>2. ASSUME NEW n \in T, n < N PROVE n + 1 \in T
    <3>1. n + 1 \in 1 .. N /\ (n + 1) - 1 = n
      BY <1>1, <2>2
    <3>2. S[n] \in X /\ S[n + 1] = Put(n + 1, S[n])
      BY <1>8, <2>2, <3>1
    <3>3. (Put(n + 1, S[n])) \in X
      <4> HIDE DEF X, N, S
      <4> QED
        BY <1>2, <3>1, <3>2
    <3> HIDE DEF S, X
    <3> QED
      BY <3>1, <3>2, <3>3
  <2>3. T \in SUBSET (0 .. N)
    OBVIOUS
  <2> HIDE DEF T
  <2> QED
    BY <1>1, <2>1, <2>2, <2>3, Upto
<1>10. \A n \in 0 .. N : S[n] \in X
  BY <1>9
<1> HIDE DEF X, N, S
<1>11. S \in [0 .. N -> X]
  BY <1>7, <1>8, <1>10 DEF S
<1> QED
  BY <1>8, <1>11 DEF X, N, S

\* What is read of a message adds its salient lines and drops none.
LEMMA ReadLines ==
  ASSUME NEW out \in Seq(Line), NEW lines \in Seq(Line \cup {"noise", "header"})
  PROVE  /\ Reading(out, lines)[Len(lines)] \in Seq(Line)
         /\ ToSet(Reading(out, lines)[Len(lines)]) = ToSet(out) \cup (ToSet(lines) \cap Line)
<1> DEFINE N == Len(lines)
           S == Reading(out, lines)
           T == {n \in 0 .. N : ToSet(S[n]) = ToSet(out) \cup ({lines[i] : i \in 1 .. n} \cap Line)}
<1>1. /\ N \in Nat /\ S \in [0 .. N -> Seq(Line)] /\ S[0] = out
      /\ \A n \in 1 .. N : S[n] = IF lines[n] \in Line /\ lines[n] \notin ToSet(S[n - 1])
                                  THEN Append(S[n - 1], lines[n]) ELSE S[n - 1]
  BY ReadingIs
<1> HIDE DEF S
<1>2. T = 0 .. N
  <2>1. 0 \in T
    BY <1>1
  <2>2. ASSUME NEW n \in T, n < N PROVE n + 1 \in T
    <3>1. n + 1 \in 1 .. N /\ (n + 1) - 1 = n /\ n \in 0 .. N
      BY <1>1, <2>2
    <3>2. /\ S[n] \in Seq(Line)
          /\ S[n + 1] = IF lines[n + 1] \in Line /\ lines[n + 1] \notin ToSet(S[n])
                        THEN Append(S[n], lines[n + 1]) ELSE S[n]
      BY <1>1, <3>1
    <3>3. {lines[i] : i \in 1 .. n + 1} = {lines[i] : i \in 1 .. n} \cup {lines[n + 1]}
      <4>1. 1 .. n + 1 = (1 .. n) \cup {n + 1}
        BY <3>1
      <4> QED
        BY <4>1
    <3>4. ToSet(S[n]) = ToSet(out) \cup ({lines[i] : i \in 1 .. n} \cap Line)
      OBVIOUS
    <3>5. CASE lines[n + 1] \in Line /\ lines[n + 1] \notin ToSet(S[n])
      <4>1. ToSet(Append(S[n], lines[n + 1])) = ToSet(S[n]) \cup {lines[n + 1]}
        BY <3>2, <3>5, ToSetAppend
      <4>2. S[n + 1] = Append(S[n], lines[n + 1])
        BY <3>2, <3>5
      <4>3. ToSet(S[n + 1]) = ToSet(out) \cup ({lines[i] : i \in 1 .. n + 1} \cap Line)
        BY <3>3, <3>4, <3>5, <4>1, <4>2
      <4> QED
        BY <3>1, <4>3
    <3>6. CASE ~(lines[n + 1] \in Line /\ lines[n + 1] \notin ToSet(S[n]))
      BY <3>1, <3>2, <3>3, <3>4, <3>6
    <3> QED
      BY <3>5, <3>6
  <2>3. T \in SUBSET (0 .. N)
    OBVIOUS
  <2> HIDE DEF T
  <2> QED
    BY <1>1, <2>1, <2>2, <2>3, Upto
<1>3. N \in T
  <2> HIDE DEF T
  <2> QED
    BY <1>1, <1>2
<1>4. ToSet(lines) = {lines[i] : i \in 1 .. N}
  BY DEF ToSet
<1>5. S[N] \in Seq(Line)
  BY <1>1
<1>6. ToSet(S[N]) = ToSet(out) \cup (ToSet(lines) \cap Line)
  BY <1>3, <1>4
<1> QED
  BY <1>5, <1>6 DEF S

\* One message more is scanned.
LEMMA ScanningIs ==
  ASSUME NEW ms \in Seq(Message)
  PROVE  /\ Scanning(ms) \in [0 .. Len(ms) -> Seq(Line)]
         /\ Scanning(ms)[0] = <<>>
         /\ \A n \in 1 .. Len(ms) :
              Scanning(ms)[n] = IF ms[n].tool
                                THEN Scanning(ms)[n - 1]
                                ELSE Reading(Scanning(ms)[n - 1], ms[n].lines)[Len(ms[n].lines)]
<1> DEFINE N == Len(ms)
           X == Seq(Line)
           Put(n, s) == IF ms[n].tool
                        THEN s
                        ELSE Reading(s, ms[n].lines)[Len(ms[n].lines)]
           Step == [p \in (1 .. N) \X X |-> Put(p[1], p[2])]
           Body(f) == [n \in 0 .. Len(ms) |->
                         IF n = 0 THEN <<>>
                         ELSE Put(n, f[n - 1])]
<1>1. /\ N \in Nat /\ <<>> \in X
      /\ \A n \in 1 .. N : ms[n].lines \in Seq(Line \cup {"noise", "header"})
  <2>1. \A n \in 1 .. N : ms[n] \in Message
    OBVIOUS
  <2>2. \A n \in 1 .. N : ms[n].lines \in Seq(Line \cup {"noise", "header"})
    BY <2>1 DEF Message
  <2> QED
    BY <2>2
<1>2. ASSUME NEW n \in 1 .. N, NEW s \in X
      PROVE  (Put(n, s)) \in X
  BY <1>1, ReadLines
<1>3. Step \in [(1 .. N) \X X -> X]
  BY <1>2
<1>4. PICK f \in [0 .. N -> X] : Follows(f, N, <<>>, Step)
  <2> HIDE DEF N, X, Step
  <2> QED
    BY <1>1, <1>3, Recursion, Zenon
<1>5. \A n \in 1 .. N : f[n] = Put(n, f[n - 1])
  <2>1. ASSUME NEW n \in 1 .. N PROVE f[n - 1] \in X
    <3>1. n - 1 \in 0 .. N
      BY <1>1
    <3> HIDE DEF X, N
    <3> QED
      BY <3>1, <1>4
  <2> QED
    BY <1>4, <2>1 DEF Follows
<1>6. f = Body(f)
  <2>1. ASSUME NEW n \in 0 .. N PROVE f[n] = Body(f)[n]
    <3>1. CASE n = 0
      BY <1>4, <3>1 DEF Follows
    <3>2. CASE n # 0
      <4>1. n \in 1 .. N
        BY <3>2
      <4> QED
        BY <1>1, <1>5, <3>2, <4>1
    <3> QED
      BY <3>1, <3>2
  <2> QED
    BY <1>4, <2>1
<1> DEFINE S == Scanning(ms)
<1>7. S = Body(S)
  <2>1. S = CHOOSE g : g = Body(g)
    BY DEF Scanning
  <2> HIDE DEF Body, S
  <2> QED
    BY <1>6, <2>1
<1>8. /\ DOMAIN S = 0 .. N
      /\ S[0] = <<>>
      /\ \A n \in 1 .. N : S[n] = Put(n, S[n - 1])
  <2>1. N \in Nat /\ 0 \in 0 .. N /\ \A n \in 1 .. N : n \in 0 .. N /\ n # 0
    OBVIOUS
  <2> HIDE DEF S
  <2> QED
    BY <1>7, <2>1
<1> DEFINE T == {n \in 0 .. N : S[n] \in X}
<1>9. T = 0 .. N
  <2>1. 0 \in T
    <3> HIDE DEF S, X
    <3> QED
      BY <1>1, <1>8
  <2>2. ASSUME NEW n \in T, n < N PROVE n + 1 \in T
    <3>1. n + 1 \in 1 .. N /\ (n + 1) - 1 = n
      BY <1>1, <2>2
    <3>2. S[n] \in X /\ S[n + 1] = Put(n + 1, S[n])
      BY <1>8, <2>2, <3>1
    <3>3. (Put(n + 1, S[n])) \in X
      <4> HIDE DEF X, N, S
      <4> QED
        BY <1>2, <3>1, <3>2
    <3> HIDE DEF S, X
    <3> QED
      BY <3>1, <3>2, <3>3
  <2>3. T \in SUBSET (0 .. N)
    OBVIOUS
  <2> HIDE DEF T
  <2> QED
    BY <1>1, <2>1, <2>2, <2>3, Upto
<1>10. \A n \in 0 .. N : S[n] \in X
  BY <1>9
<1> HIDE DEF X, N, S
<1>11. S \in [0 .. N -> X]
  BY <1>7, <1>8, <1>10 DEF S
<1> QED
  BY <1>8, <1>11 DEF X, N, S

\* No salient line of a message that no tool wrote is missed.
LEMMA SalientIs ==
  ASSUME NEW ms \in Seq(Message)
  PROVE  /\ Salient(ms) \in Seq(Line)
         /\ \A i \in 1 .. Len(ms) :
              ~ms[i].tool => ToSet(ms[i].lines) \cap Line \subseteq ToSet(Salient(ms))
<1> DEFINE N == Len(ms)
           S == Scanning(ms)
           L(m) == m.lines
<1>1. /\ N \in Nat /\ S \in [0 .. N -> Seq(Line)] /\ S[0] = <<>>
      /\ \A n \in 1 .. N : S[n] = IF ms[n].tool THEN S[n - 1]
                                  ELSE Reading(S[n - 1], L(ms[n]))[Len(L(ms[n]))]
  BY ScanningIs
<1>2. \A i \in 1 .. N : ms[i] \in Message
  OBVIOUS
<1>3. \A i \in 1 .. N : L(ms[i]) \in Seq(Line \cup {"noise", "header"})
  BY <1>2 DEF Message
<1> HIDE DEF S, L, N
<1>4. ASSUME NEW i \in 1 .. N, ~ms[i].tool, NEW line \in ToSet(L(ms[i])) \cap Line
      PROVE  line \in ToSet(S[N])
  <2> DEFINE T == {n \in 0 .. N : n >= i => line \in ToSet(S[n])}
  <2>1. 0 \in T
    BY <1>1
  <2>2. ASSUME NEW n \in T, n < N PROVE n + 1 \in T
    <3>1. n + 1 \in 1 .. N /\ (n + 1) - 1 = n /\ n \in 0 .. N
      BY <1>1, <2>2
    <3>2. /\ S[n] \in Seq(Line)
          /\ S[n + 1] = IF ms[n + 1].tool THEN S[n]
                        ELSE Reading(S[n], L(ms[n + 1]))[Len(L(ms[n + 1]))]
      BY <1>1, <3>1
    <3>3. L(ms[n + 1]) \in Seq(Line \cup {"noise", "header"})
      BY <1>3, <3>1
    <3>4. ~ms[n + 1].tool =>
            ToSet(S[n + 1]) = ToSet(S[n]) \cup (ToSet(L(ms[n + 1])) \cap Line)
      BY <3>2, <3>3, ReadLines
    <3>5. CASE n + 1 < i
      BY <3>1, <3>5
    <3>6. CASE n + 1 = i
      BY <1>4, <3>1, <3>4, <3>6
    <3>7. CASE n + 1 > i
      <4>1. line \in ToSet(S[n])
        BY <3>1, <3>7
      <4>2. line \in ToSet(S[n + 1])
        BY <3>2, <3>4, <4>1
      <4> QED
        BY <3>1, <4>2
    <3> QED
      BY <3>1, <3>5, <3>6, <3>7
  <2>3. T \in SUBSET (0 .. N)
    OBVIOUS
  <2>4. T = 0 .. N
    <3> HIDE DEF T
    <3> QED
      BY <1>1, <2>1, <2>2, <2>3, Upto
  <2>5. N \in T
    <3> HIDE DEF T
    <3> QED
      BY <1>1, <2>4
  <2> QED
    BY <1>1, <2>5
<1>5. S[N] \in Seq(Line)
  BY <1>1
<1>6. Salient(ms) = S[N]
  BY DEF Salient, S, N
<1>7. \A i \in 1 .. N : ~ms[i].tool => ToSet(L(ms[i])) \cap Line \subseteq ToSet(S[N])
  BY <1>4
<1> QED
  BY <1>5, <1>6, <1>7 DEF N, L

-----------------------------------------------------------------------------
\* Every message is pinned or not, and kept on its side.
LEMMA SiftKeeps ==
  ASSUME NEW ms \in Seq(Message), NEW i \in 1 .. Len(ms)
  PROVE  \E j \in 1 .. Len(Sifting(ms, ms[i].pinned)[Len(ms)]) :
           Sifting(ms, ms[i].pinned)[Len(ms)][j] = ms[i]
<1> DEFINE N == Len(ms)
           S == Sifting(ms, ms[i].pinned)
           In(s) == \E j \in 1 .. Len(s) : s[j] = ms[i]
           T == {n \in 0 .. N : n >= i => In(S[n])}
<1>1. /\ N \in Nat /\ S \in [0 .. N -> Seq(Message)] /\ S[0] = <<>>
      /\ \A n \in 1 .. N : S[n] = IF ms[n].pinned = ms[i].pinned THEN Append(S[n - 1], ms[n])
                                  ELSE S[n - 1]
  BY SiftingIs
<1> HIDE DEF S, In
<1>2. 0 \in T
  BY <1>1
<1>3. ASSUME NEW s \in Seq(Message), NEW m \in Message
      PROVE  (In(s) => In(Append(s, m))) /\ (m = ms[i] => In(Append(s, m)))
  BY DEF In
<1>4. ASSUME NEW n \in T, n < N PROVE n + 1 \in T
  <2>1. n + 1 \in 1 .. N /\ (n + 1) - 1 = n /\ n \in 0 .. N
    BY <1>1, <1>4
  <2>2. /\ S[n] \in Seq(Message)
        /\ S[n + 1] = IF ms[n + 1].pinned = ms[i].pinned THEN Append(S[n], ms[n + 1]) ELSE S[n]
    BY <1>1, <2>1
  <2>3. ms[n + 1] \in Message
    BY <2>1
  <2>4. CASE n + 1 < i
    BY <2>1, <2>4
  <2>5. CASE n + 1 = i
    <3>1. S[n + 1] = Append(S[n], ms[n + 1])
      BY <2>2, <2>5
    <3>2. In(S[n + 1])
      BY <1>3, <2>2, <2>3, <2>5, <3>1
    <3> QED
      BY <2>1, <3>2
  <2>6. CASE n + 1 > i
    <3>1. In(S[n])
      BY <2>1, <2>6
    <3>2. In(S[n + 1])
      BY <1>3, <2>2, <2>3, <3>1
    <3> QED
      BY <2>1, <3>2
  <2> QED
    BY <2>1, <2>4, <2>5, <2>6
<1>5. N \in T
  <2>1. T \in SUBSET (0 .. N)
    OBVIOUS
  <2> HIDE DEF T
  <2> QED
    BY <1>1, <1>2, <1>4, <2>1, Upto
<1>6. In(S[N])
  BY <1>5
<1> QED
  BY <1>6 DEF In, S

\* and no other message is.
LEMMA SiftOnly ==
  ASSUME NEW ms \in Seq(Message), NEW b
  PROVE  /\ Sifting(ms, b)[Len(ms)] \in Seq(Message)
         /\ \A j \in 1 .. Len(Sifting(ms, b)[Len(ms)]) : Sifting(ms, b)[Len(ms)][j].pinned = b
<1> DEFINE N == Len(ms)
           S == Sifting(ms, b)
           Only(s) == \A j \in 1 .. Len(s) : s[j].pinned = b
           T == {n \in 0 .. N : Only(S[n])}
<1>1. /\ N \in Nat /\ S \in [0 .. N -> Seq(Message)] /\ S[0] = <<>>
      /\ \A n \in 1 .. N : S[n] = IF ms[n].pinned = b THEN Append(S[n - 1], ms[n])
                                  ELSE S[n - 1]
  BY SiftingIs
<1> HIDE DEF S
<1>2. 0 \in T
  BY <1>1
<1>3. ASSUME NEW s \in Seq(Message), NEW m \in Message, Only(s), m.pinned = b
      PROVE  Only(Append(s, m))
  <2>1. ASSUME NEW j \in 1 .. Len(Append(s, m)) PROVE Append(s, m)[j].pinned = b
    <3>1. CASE j \in 1 .. Len(s)
      BY <1>3, <3>1
    <3>2. CASE j \notin 1 .. Len(s)
      <4>1. Append(s, m)[j] = m
        BY <3>2
      <4> QED
        BY <1>3, <4>1
    <3> QED
      BY <3>1, <3>2
  <2> QED
    BY <2>1
<1> HIDE DEF Only
<1>4. ASSUME NEW n \in T, n < N PROVE n + 1 \in T
  <2>1. n + 1 \in 1 .. N /\ (n + 1) - 1 = n /\ n \in 0 .. N
    BY <1>1, <1>4
  <2>2. /\ S[n] \in Seq(Message)
        /\ S[n + 1] = IF ms[n + 1].pinned = b THEN Append(S[n], ms[n + 1]) ELSE S[n]
    BY <1>1, <2>1
  <2>3. ms[n + 1] \in Message /\ Only(S[n])
    BY <2>1
  <2>4. Only(S[n + 1])
    BY <1>3, <2>2, <2>3
  <2> QED
    BY <2>1, <2>4
<1>5. N \in T
  <2>1. T \in SUBSET (0 .. N)
    OBVIOUS
  <2> HIDE DEF T
  <2> QED
    BY <1>1, <1>2, <1>4, <2>1, Upto
<1>6. Only(S[N]) /\ S[N] \in Seq(Message)
  BY <1>1, <1>5
<1> QED
  BY <1>6 DEF Only, S

LEMMA SiftSides ==
  ASSUME NEW ms \in Seq(Message)
  PROVE  /\ Sifting(ms, TRUE) \in [0 .. Len(ms) -> Seq(Message)]
         /\ Sifting(ms, TRUE)[0] = <<>>
         /\ \A n \in 1 .. Len(ms) :
              /\ ms[n].pinned => Sifting(ms, TRUE)[n] = Append(Sifting(ms, TRUE)[n - 1], ms[n])
              /\ ~ms[n].pinned => Sifting(ms, TRUE)[n] = Sifting(ms, TRUE)[n - 1]
         /\ Sifting(ms, FALSE) \in [0 .. Len(ms) -> Seq(Message)]
         /\ Sifting(ms, FALSE)[0] = <<>>
         /\ \A n \in 1 .. Len(ms) :
              /\ ~ms[n].pinned => Sifting(ms, FALSE)[n] = Append(Sifting(ms, FALSE)[n - 1], ms[n])
              /\ ms[n].pinned => Sifting(ms, FALSE)[n] = Sifting(ms, FALSE)[n - 1]
<1>1. \A n \in 1 .. Len(ms) : ms[n].pinned \in BOOLEAN
  <2>1. \A n \in 1 .. Len(ms) : ms[n] \in Message
    OBVIOUS
  <2> QED
    BY <2>1 DEF Message
<1> DEFINE P == Sifting(ms, TRUE)
           R == Sifting(ms, FALSE)
<1>2. /\ P \in [0 .. Len(ms) -> Seq(Message)] /\ P[0] = <<>>
      /\ \A n \in 1 .. Len(ms) : P[n] = IF ms[n].pinned = TRUE THEN Append(P[n - 1], ms[n])
                                        ELSE P[n - 1]
  BY SiftingIs
<1>3. /\ R \in [0 .. Len(ms) -> Seq(Message)] /\ R[0] = <<>>
      /\ \A n \in 1 .. Len(ms) : R[n] = IF ms[n].pinned = FALSE THEN Append(R[n - 1], ms[n])
                                        ELSE R[n - 1]
  BY SiftingIs
<1> HIDE DEF P, R
<1> QED
  BY <1>1, <1>2, <1>3 DEF P, R

\* None is on both sides.
LEMMA SiftLength ==
  ASSUME NEW ms \in Seq(Message)
  PROVE  Len(Pinned(ms)) + Len(Rest(ms)) = Len(ms)
<1> DEFINE N == Len(ms)
           P == Sifting(ms, TRUE)
           R == Sifting(ms, FALSE)
           p(n) == Len(P[n])
           r(n) == Len(R[n])
           T == {n \in 0 .. N : p(n) + r(n) = n}
<1>1. /\ N \in Nat /\ P \in [0 .. N -> Seq(Message)] /\ P[0] = <<>>
      /\ \A n \in 1 .. N : P[n] = IF ms[n].pinned = TRUE THEN Append(P[n - 1], ms[n])
                                  ELSE P[n - 1]
  BY SiftingIs
<1>2. /\ R \in [0 .. N -> Seq(Message)] /\ R[0] = <<>>
      /\ \A n \in 1 .. N : R[n] = IF ms[n].pinned = FALSE THEN Append(R[n - 1], ms[n])
                                  ELSE R[n - 1]
  BY SiftingIs
<1> HIDE DEF P, R
<1>3. 0 \in T
  BY <1>1, <1>2
<1>4. ASSUME NEW n \in T, n < N PROVE n + 1 \in T
  <2>1. n + 1 \in 1 .. N /\ (n + 1) - 1 = n /\ n \in 0 .. N /\ p(n) + r(n) = n
    BY <1>1, <1>4
  <2>2. P[n] \in Seq(Message) /\ R[n] \in Seq(Message) /\ ms[n + 1] \in Message
    BY <1>1, <1>2, <2>1
  <2> HIDE DEF p, r, T, N
  <2>3. CASE ms[n + 1].pinned = TRUE
    <3>1. P[n + 1] = Append(P[n], ms[n + 1]) /\ R[n + 1] = R[n]
      BY <1>1, <1>2, <2>1, <2>3
    <3>2. p(n + 1) = p(n) + 1 /\ r(n + 1) = r(n)
      BY <2>2, <3>1 DEF p, r
    <3>3. p(n) \in Nat /\ r(n) \in Nat
      BY <2>2 DEF p, r
    <3>4. p(n + 1) + r(n + 1) = n + 1
      BY <2>1, <3>2, <3>3
    <3> QED
      BY <2>1, <3>4 DEF T
  <2>4. CASE ms[n + 1].pinned = FALSE
    <3>1. R[n + 1] = Append(R[n], ms[n + 1]) /\ P[n + 1] = P[n]
      BY <1>1, <1>2, <2>1, <2>4
    <3>2. r(n + 1) = r(n) + 1 /\ p(n + 1) = p(n)
      BY <2>2, <3>1 DEF p, r
    <3>3. r(n) \in Nat /\ p(n) \in Nat
      BY <2>2 DEF p, r
    <3>4. p(n + 1) + r(n + 1) = n + 1
      BY <2>1, <3>2, <3>3
    <3> QED
      BY <2>1, <3>4 DEF T
  <2> QED
    BY <2>2, <2>3, <2>4 DEF Message
<1>5. N \in T
  <2>1. T \in SUBSET (0 .. N)
    OBVIOUS
  <2> HIDE DEF T
  <2> QED
    BY <1>1, <1>3, <1>4, <2>1, Upto
<1> QED
  BY <1>5 DEF P, R, Pinned, Rest

\* Pinned messages before all others are found as they stand, and so are these.
LEMMA SiftOrdered ==
  ASSUME NEW c \in Seq(Message), NEW K \in 0 .. Len(c),
         \A i \in 1 .. K : c[i].pinned,
         \A i \in K + 1 .. Len(c) : ~c[i].pinned
  PROVE  /\ Len(Pinned(c)) = K /\ Len(Rest(c)) = Len(c) - K
         /\ \A i \in 1 .. K : Pinned(c)[i] = c[i]
         /\ \A i \in 1 .. Len(c) - K : Rest(c)[i] = c[K + i]
<1> DEFINE N == Len(c)
           P == Sifting(c, TRUE)
           R == Sifting(c, FALSE)
           p(n) == Len(P[n])
           r(n) == Len(R[n])
           Left(n) == /\ n < K => p(n) = n
                      /\ n >= K => p(n) = K
                      /\ \A i \in 1 .. p(n) : P[n][i] = c[i]
           Right(n) == /\ n < K => r(n) = 0
                       /\ n >= K => K + r(n) = n
                       /\ \A i \in 1 .. r(n) : R[n][i] = c[K + i]
           T == {n \in 0 .. N : Left(n) /\ Right(n)}
<1>1. N \in Nat /\ K \in 0 .. N /\ \A i \in 1 .. N : c[i] \in Message
  OBVIOUS
<1>2. /\ P \in [0 .. N -> Seq(Message)] /\ P[0] = <<>>
      /\ \A n \in 1 .. N : /\ c[n].pinned => P[n] = Append(P[n - 1], c[n])
                           /\ ~c[n].pinned => P[n] = P[n - 1]
  BY SiftSides
<1>3. /\ R \in [0 .. N -> Seq(Message)] /\ R[0] = <<>>
      /\ \A n \in 1 .. N : /\ ~c[n].pinned => R[n] = Append(R[n - 1], c[n])
                           /\ c[n].pinned => R[n] = R[n - 1]
  BY SiftSides
<1> HIDE DEF P, R, N
<1>4. 0 \in T
  <2>1. p(0) = 0 /\ r(0) = 0
    BY <1>2, <1>3
  <2> HIDE DEF p, r
  <2>2. 0 \in 0 .. N /\ (0 >= K => K = 0) /\ 1 .. p(0) = {} /\ 1 .. r(0) = {}
    BY <1>1, <2>1
  <2>3. Left(0)
    BY <2>1, <2>2
  <2>4. Right(0)
    BY <2>1, <2>2
  <2> QED
    BY <2>2, <2>3, <2>4
<1>5. ASSUME NEW n \in T, n < N PROVE n + 1 \in T
  <2>1. n + 1 \in 1 .. N /\ (n + 1) - 1 = n /\ n \in 0 .. N /\ Left(n) /\ Right(n)
    BY <1>1, <1>5
  <2>2. P[n] \in Seq(Message) /\ R[n] \in Seq(Message) /\ c[n + 1] \in Message
    BY <1>1, <1>2, <1>3, <2>1
  <2>3. p(n) \in Nat /\ r(n) \in Nat
    BY <2>2
  <2> HIDE DEF T, p, r
  <2>4. CASE n < K
    <3>1. c[n + 1].pinned
      <4>1. n + 1 \in 1 .. K
        BY <1>1, <2>1, <2>4
      <4> QED
        BY <4>1
    <3>2. P[n + 1] = Append(P[n], c[n + 1]) /\ R[n + 1] = R[n]
      BY <1>2, <1>3, <2>1, <3>1
    <3>3. /\ p(n + 1) = p(n) + 1 /\ r(n + 1) = r(n)
          /\ \A i \in 1 .. p(n) : P[n + 1][i] = P[n][i]
          /\ P[n + 1][p(n) + 1] = c[n + 1]
      BY <2>2, <3>2, AppendProperties DEF p, r
    <3>4. Left(n + 1)
      <4>1. p(n) = n /\ p(n + 1) = n + 1
        BY <2>1, <2>4, <3>3
      <4>2. ASSUME NEW i \in 1 .. n + 1 PROVE P[n + 1][i] = c[i]
        <5>1. CASE i = n + 1
          BY <3>3, <4>1, <5>1
        <5>2. CASE i # n + 1
          <6>1. i \in 1 .. n
            BY <2>1, <5>2
          <6> QED
            BY <2>1, <3>3, <4>1, <6>1
        <5> QED
          BY <5>1, <5>2
      <4>3. n + 1 >= K => n + 1 = K
        BY <1>1, <2>1, <2>4
      <4> QED
        BY <4>1, <4>2, <4>3
    <3>5. Right(n + 1)
      <4>1. r(n) = 0
        BY <2>1, <2>4
      <4>2. n + 1 >= K => n + 1 = K
        BY <1>1, <2>1, <2>4
      <4>3. r(n + 1) = 0 /\ 1 .. r(n + 1) = {} /\ K + r(n + 1) = K
        BY <1>1, <3>3, <4>1
      <4> QED
        BY <4>2, <4>3
    <3> QED
      BY <2>1, <3>4, <3>5 DEF T
  <2>5. CASE ~(n < K)
    <3>1. ~c[n + 1].pinned
      <4>1. n + 1 \in K + 1 .. Len(c)
        BY <1>1, <2>1, <2>5 DEF N
      <4> QED
        BY <4>1
    <3>2. R[n + 1] = Append(R[n], c[n + 1]) /\ P[n + 1] = P[n]
      BY <1>2, <1>3, <2>1, <3>1
    <3>3. /\ r(n + 1) = r(n) + 1 /\ p(n + 1) = p(n)
          /\ \A i \in 1 .. r(n) : R[n + 1][i] = R[n][i]
          /\ R[n + 1][r(n) + 1] = c[n + 1]
      BY <2>2, <3>2, AppendProperties DEF p, r
    <3>4. Right(n + 1)
      <4>1. /\ r(n) = n - K /\ r(n + 1) = n + 1 - K
            /\ K + r(n + 1) = n + 1 /\ ~(n + 1 < K)
        <5>1. n >= K /\ n \in Nat /\ K \in Nat
          BY <1>1, <2>1, <2>5
        <5>2. K + r(n) = n
          BY <2>1, <5>1
        <5>3. r(n) \in Nat /\ r(n + 1) = r(n) + 1
          BY <2>3, <3>3
        <5>4. r(n) = n - K
          BY <5>1, <5>2, <5>3
        <5>5. r(n + 1) = n + 1 - K
          BY <5>1, <5>3, <5>4
        <5>6. K + r(n + 1) = n + 1
          BY <5>1, <5>5
        <5>7. ~(n + 1 < K)
          BY <5>1
        <5> QED
          BY <5>4, <5>5, <5>6, <5>7
      <4>2. ASSUME NEW i \in 1 .. n + 1 - K PROVE R[n + 1][i] = c[K + i]
        <5>1. CASE i = n + 1 - K
          <6>1. i = r(n) + 1 /\ K + i = n + 1
            BY <1>1, <2>1, <4>1, <5>1
          <6> QED
            BY <3>3, <6>1
        <5>2. CASE i # n + 1 - K
          <6>1. i \in 1 .. r(n)
            BY <1>1, <2>1, <4>1, <5>2
          <6> QED
            BY <2>1, <3>3, <6>1
        <5> QED
          BY <5>1, <5>2
      <4>3. \A i \in 1 .. r(n + 1) : R[n + 1][i] = c[K + i]
        BY <4>1, <4>2
      <4> QED
        BY <4>1, <4>3
    <3>5. Left(n + 1)
      <4>1. p(n + 1) = K /\ ~(n + 1 < K)
        BY <1>1, <2>1, <2>5, <3>3
      <4> QED
        BY <2>1, <3>2, <3>3, <4>1
    <3> QED
      BY <2>1, <3>4, <3>5 DEF T
  <2> QED
    BY <2>4, <2>5
<1>6. T = 0 .. N
  <2>1. T \in SUBSET (0 .. N)
    OBVIOUS
  <2> HIDE DEF T
  <2> QED
    BY <1>1, <1>4, <1>5, <2>1, Upto
<1>7. Left(N) /\ Right(N)
  <2>1. N \in T
    <3> HIDE DEF T
    <3> QED
      BY <1>1, <1>6
  <2> QED
    BY <2>1
<1>8. p(N) = K /\ r(N) = N - K
  BY <1>1, <1>7
<1>9. /\ \A i \in 1 .. K : P[N][i] = c[i]
      /\ \A i \in 1 .. N - K : R[N][i] = c[K + i]
  BY <1>7, <1>8
<1> QED
  BY <1>8, <1>9 DEF P, R, N, p, r, Pinned, Rest

-----------------------------------------------------------------------------
\* What From takes, and what it leaves.
LEMMA FromIs ==
  ASSUME NEW X, NEW s \in Seq(X), NEW i \in Int, NEW start \in Nat,
         start = (IF i >= 0 THEN i ELSE IF Len(s) + i > 0 THEN Len(s) + i ELSE 0)
  PROVE  /\ From(s, i) \in Seq(X)
         /\ Len(From(s, i)) = (IF start <= Len(s) THEN Len(s) - start ELSE 0)
         /\ \A j \in 1 .. Len(s) - start : From(s, i)[j] = s[start + j]
<1>1. Len(s) \in Nat /\ From(s, i) = SubSeq(s, start + 1, Len(s))
  BY DEF From
<1> DEFINE m == start + 1
           n == Len(s)
<1>2. m \in Int /\ n \in Int /\ m \in Nat \ {0}
  BY <1>1
<1>3. \A j \in m .. n : s[j] \in X
  BY <1>2
<1> HIDE DEF m, n
<1>4. /\ SubSeq(s, m, n) \in Seq(X)
      /\ Len(SubSeq(s, m, n)) = IF m <= n THEN n - m + 1 ELSE 0
      /\ \A j \in 1 .. n - m + 1 : SubSeq(s, m, n)[j] = s[m + j - 1]
  BY <1>2, <1>3, SubSeqProperties
<1>5. n - m + 1 = n - start /\ m = start + 1 /\ (m <= n <=> start < n)
  BY <1>1 DEF m, n
<1>6. \A j \in 1 .. n - start : SubSeq(s, m, n)[j] = s[start + j]
  <2>1. \A j \in 1 .. n - start : m + j - 1 = start + j
    BY <1>5
  <2> QED
    BY <1>4, <1>5, <2>1
<1>7. Len(SubSeq(s, m, n)) = IF start <= n THEN n - start ELSE 0
  BY <1>2, <1>4, <1>5
<1> QED
  BY <1>1, <1>4, <1>6, <1>7 DEF m, n

\* How many of n messages are recent.
Kept(n, r) ==
  /\ n >= KeepRecent => r = KeepRecent
  /\ n < KeepRecent /\ n + n > KeepRecent => r = KeepRecent - n
  /\ n < KeepRecent /\ n + n <= KeepRecent => r = n

\* older and recent are the two parts of rest; recent has the length of the tail
\* that is kept, which a negative start shortens.
LEMMA TailIs ==
  ASSUME NEW ms \in Seq(Message)
  PROVE  /\ Rest(ms) \in Seq(Message) /\ Older(ms) \in Seq(Message) /\ Recent(ms) \in Seq(Message)
         /\ Len(Rest(ms)) = Len(Older(ms)) + Len(Recent(ms))
         /\ \A i \in 1 .. Len(Older(ms)) : Older(ms)[i] = Rest(ms)[i]
         /\ \A i \in 1 .. Len(Recent(ms)) : Recent(ms)[i] = Rest(ms)[Len(Older(ms)) + i]
         /\ Kept(Len(Rest(ms)), Len(Recent(ms)))
<1> DEFINE rest == Rest(ms)
           n == Len(rest)
           r == Len(Recent(ms))
<1>1. rest \in Seq(Message) /\ n \in Nat
  <2>1. Rest(ms) \in Seq(Message)
    BY SiftOnly DEF Rest
  <2> QED
    BY <2>1
<1> HIDE DEF rest
<1>2. KeepRecent \in Nat
  BY CompactorAssumption DEF CompactorAssumption
<1>3. /\ Recent(ms) \in Seq(Message) /\ r \in Nat /\ r <= n
      /\ \A i \in 1 .. r : Recent(ms)[i] = rest[n - r + i]
      /\ Kept(n, r)
  <2>1. CASE KeepRecent = 0
    <3>1. Recent(ms) = <<>>
      BY <2>1 DEF Recent
    <3> QED
      BY <1>1, <2>1, <3>1 DEF Kept
  <2>2. CASE KeepRecent # 0
    <3> DEFINE i == n - KeepRecent
               start == IF i >= 0 THEN i ELSE IF n + i > 0 THEN n + i ELSE 0
    <3>1. Recent(ms) = From(rest, i)
      BY <2>2 DEF Recent, rest
    <3>2. i \in Int /\ start \in Nat
      BY <1>1, <1>2
    <3>3. /\ start <= n
          /\ Kept(n, n - start)
      BY <1>1, <1>2 DEF Kept
    <3> HIDE DEF i
    <3>4. /\ Recent(ms) \in Seq(Message)
          /\ r = (IF start <= n THEN n - start ELSE 0)
          /\ \A j \in 1 .. n - start : Recent(ms)[j] = rest[start + j]
      <4>1. rest \in Seq(Message) /\ n = Len(rest)
        BY <1>1
      <4>2. /\ From(rest, i) \in Seq(Message)
            /\ Len(From(rest, i)) = (IF start <= n THEN n - start ELSE 0)
            /\ \A j \in 1 .. n - start : From(rest, i)[j] = rest[start + j]
        BY <3>2, <4>1, FromIs
      <4> QED
        BY <3>1, <4>2
    <3> HIDE DEF start
    <3>5. r = n - start /\ start = n - r
      BY <1>1, <3>2, <3>3, <3>4
    <3>6. \A j \in 1 .. r : Recent(ms)[j] = rest[n - r + j]
      BY <3>4, <3>5
    <3>7. r \in Nat /\ r <= n
      BY <1>1, <3>2, <3>3, <3>5
    <3>8. Kept(n, r)
      BY <3>3, <3>5
    <3> QED
      BY <3>4, <3>6, <3>7, <3>8
  <2> QED
    BY <2>1, <2>2
<1>4. Older(ms) = SubSeq(rest, 1, n - r)
  BY DEF Older, rest
<1>5. \A i \in 1 .. n - r : rest[i] \in Message
  BY <1>1, <1>3
<1>6. /\ Older(ms) \in Seq(Message)
      /\ Len(Older(ms)) = n - r
      /\ \A i \in 1 .. n - r : Older(ms)[i] = rest[i]
  <2>1. n - r \in Int /\ 1 \in Int
    BY <1>1, <1>3
  <2>2. /\ Older(ms) \in Seq(Message)
        /\ Len(Older(ms)) = IF 1 <= n - r THEN n - r - 1 + 1 ELSE 0
        /\ \A i \in 1 .. n - r - 1 + 1 : Older(ms)[i] = rest[1 + i - 1]
    BY <1>4, <1>5, <2>1, SubSeqProperties
  <2> QED
    BY <1>1, <1>3, <2>2
<1> QED
  BY <1>1, <1>3, <1>6 DEF rest
-----------------------------------------------------------------------------
LEMMA ToSetIs ==
  ASSUME NEW X, NEW s \in Seq(X), NEW x
  PROVE  x \in ToSet(s) <=> \E j \in 1 .. Len(s) : s[j] = x
BY DEF ToSet

\* What is salient is in the summary or behind its last line.
LEMMA ExtractIs ==
  ASSUME NEW ms \in Seq(Message)
  PROVE  /\ Extract(ms) \in Seq(Line \cup {"noise", "header"})
         /\ ToSet(Salient(ms)) \subseteq ToSet(Extract(ms)) \cup ToSet(From(Salient(ms), MaxLines))
         /\ ToSet(From(Salient(ms), MaxLines)) \subseteq Line
<1> DEFINE s == Salient(ms)
           k == IF Len(s) < MaxLines THEN Len(s) ELSE MaxLines
           rest == From(s, MaxLines)
<1>1. s \in Seq(Line) /\ Len(s) \in Nat /\ MaxLines \in Nat /\ MaxLines \in Int
  BY SalientIs, CompactorAssumption DEF CompactorAssumption
<1> HIDE DEF s
<1>2. /\ rest \in Seq(Line)
      /\ Len(rest) = (IF MaxLines <= Len(s) THEN Len(s) - MaxLines ELSE 0)
      /\ \A j \in 1 .. Len(s) - MaxLines : rest[j] = s[MaxLines + j]
  <2>1. MaxLines = (IF MaxLines >= 0 THEN MaxLines
                    ELSE IF Len(s) + MaxLines > 0 THEN Len(s) + MaxLines ELSE 0)
    BY <1>1
  <2> QED
    BY <1>1, <2>1, FromIs
<1>3. ToSet(rest) \subseteq Line
  BY <1>2 DEF ToSet
<1>4. CASE s = <<>>
  <2>1. Extract(ms) = <<"noise">>
    BY <1>4 DEF Extract, s
  <2>2. ToSet(s) = {}
    BY <1>4 DEF ToSet
  <2> QED
    BY <1>3, <2>1, <2>2 DEF s
<1>5. CASE s # <<>>
  <2>1. Extract(ms) = SubSeq(s, 1, k)
    BY <1>5 DEF Extract, s
  <2>2. k \in Nat /\ k \in Int /\ 1 \in Int /\ k <= Len(s) /\ k - 1 + 1 = k
    BY <1>1
  <2>3. \A j \in 1 .. k : s[j] \in Line
    BY <1>1, <2>2
  <2>4. /\ Extract(ms) \in Seq(Line)
        /\ Len(Extract(ms)) = IF 1 <= k THEN k - 1 + 1 ELSE 0
        /\ \A j \in 1 .. k - 1 + 1 : Extract(ms)[j] = s[1 + j - 1]
    <3> HIDE DEF k
    <3> QED
      BY <2>1, <2>2, <2>3, SubSeqProperties
  <2>5. Len(Extract(ms)) = k /\ \A j \in 1 .. k : Extract(ms)[j] = s[j]
    <3> HIDE DEF k
    <3> QED
      BY <2>2, <2>4
  <2>6. Extract(ms) \in Seq(Line \cup {"noise", "header"})
    BY <2>4
  <2>7. ASSUME NEW line \in ToSet(s) PROVE line \in ToSet(Extract(ms)) \cup ToSet(rest)
    <3>1. PICK j \in 1 .. Len(s) : s[j] = line
      BY <1>1, ToSetIs
    <3>2. CASE j <= k
      <4>1. j \in 1 .. Len(Extract(ms)) /\ Extract(ms)[j] = line
        BY <2>2, <2>5, <3>1, <3>2
      <4> QED
        BY <2>4, <4>1, ToSetIs
    <3>3. CASE ~(j <= k)
      <4>1. k = MaxLines /\ MaxLines < Len(s) /\ j - MaxLines \in 1 .. Len(s) - MaxLines
        BY <1>1, <2>2, <3>3
      <4>2. Len(rest) = Len(s) - MaxLines /\ MaxLines + (j - MaxLines) = j
        BY <1>1, <1>2, <4>1
      <4>3. rest[j - MaxLines] = line
        BY <1>2, <3>1, <4>1, <4>2
      <4> QED
        BY <1>2, <4>1, <4>2, <4>3, ToSetIs
    <3> QED
      BY <3>2, <3>3
  <2> QED
    BY <1>3, <2>6, <2>7 DEF s
<1> QED
  BY <1>4, <1>5

\* The summary: one pinned message that repeats the extract, if there is
\* something to summarise.
LEMMA SummaryIs ==
  ASSUME NEW ms \in Seq(Message)
  PROVE  /\ Summary(ms) \in Seq(Message)
         /\ Older(ms) = <<>> => Summary(ms) = <<>>
         /\ Older(ms) # <<>> =>
              /\ Len(Summary(ms)) = 1
              /\ Summary(ms)[1].pinned /\ ~Summary(ms)[1].tool
              /\ ToSet(Extract(Older(ms))) \subseteq ToSet(Summary(ms)[1].lines)
<1> DEFINE X == Line \cup {"noise", "header"}
           e == Extract(Older(ms))
           lines == <<"header">> \o e
           m == [lines |-> lines, tool |-> FALSE, pinned |-> TRUE]
<1>1. e \in Seq(X) /\ Len(e) \in Nat
  BY TailIs, ExtractIs
<1> HIDE DEF e
<1>2. <<"header">> \in Seq(X) /\ Len(<<"header">>) = 1
  OBVIOUS
<1>3. /\ lines \in Seq(X) /\ Len(lines) = 1 + Len(e)
      /\ \A i \in 1 .. 1 + Len(e) :
           lines[i] = IF i <= 1 THEN <<"header">>[i] ELSE e[i - 1]
  <2> HIDE DEF X
  <2> QED
    BY <1>1, <1>2, ConcatProperties
<1> HIDE DEF lines
<1>4. ToSet(e) \subseteq ToSet(lines)
  <2>1. ASSUME NEW x \in ToSet(e) PROVE x \in ToSet(lines)
    <3>1. PICK j \in 1 .. Len(e) : e[j] = x
      BY <1>1, ToSetIs
    <3>2. j + 1 \in 1 .. 1 + Len(e) /\ (j + 1) - 1 = j /\ ~(j + 1 <= 1)
      BY <1>1
    <3>3. lines[j + 1] = x
      BY <1>3, <3>1, <3>2
    <3> QED
      BY <1>3, <3>2, <3>3, ToSetIs
  <2> QED
    BY <2>1
<1>5. m \in Message
  BY <1>3 DEF Message
<1>6. CASE Older(ms) = <<>>
  BY <1>6 DEF Summary
<1>7. CASE Older(ms) # <<>>
  <2>1. Summary(ms) = <<m>>
    BY <1>7 DEF Summary, e, lines
  <2>2. <<m>> \in Seq(Message) /\ Len(<<m>>) = 1 /\ <<m>>[1] = m
    BY <1>5
  <2>3. m.pinned /\ ~m.tool /\ m.lines = lines
    OBVIOUS
  <2> QED
    BY <1>4, <1>7, <2>1, <2>2, <2>3 DEF e
<1> QED
  BY <1>6, <1>7

\* A compacted transcript: its pinned messages are those it had and the
\* summary, the others the recent ones.
LEMMA CompactedIs ==
  ASSUME NEW ms \in Seq(Message), ~(TotalTokens(ms) <= Threshold)
  PROVE  /\ Compacted(ms) = (Pinned(ms) \o Summary(ms)) \o Recent(ms)
         /\ Compacted(ms) \in Seq(Message)
         /\ Len(Compacted(ms)) = Len(Pinned(ms)) + Len(Summary(ms)) + Len(Recent(ms))
         /\ Pinned(Compacted(ms)) = Pinned(ms) \o Summary(ms)
         /\ Rest(Compacted(ms)) = Recent(ms)
<1> DEFINE p == Pinned(ms)
           s == Summary(ms)
           t == Recent(ms)
           h == p \o s
           c == h \o t
           K == Len(h)
<1>1. /\ p \in Seq(Message) /\ s \in Seq(Message) /\ t \in Seq(Message)
      /\ Len(p) \in Nat /\ Len(s) \in Nat /\ Len(t) \in Nat
  <2>1. p \in Seq(Message)
    BY SiftOnly DEF Pinned
  <2>2. s \in Seq(Message) /\ t \in Seq(Message)
    BY SummaryIs, TailIs
  <2> HIDE DEF p, s, t
  <2> QED
    BY <2>1, <2>2
<1>2. \A i \in 1 .. Len(p) : p[i].pinned
  BY SiftOnly DEF Pinned
<1>3. \A i \in 1 .. Len(s) : s[i].pinned
  BY SummaryIs
<1>4. \A i \in 1 .. Len(t) : ~t[i].pinned
  <2>1. \A i \in 1 .. Len(Rest(ms)) : ~Rest(ms)[i].pinned
    BY SiftOnly DEF Rest
  <2>2. \A i \in 1 .. Len(t) :
          t[i] = Rest(ms)[Len(Older(ms)) + i] /\ Len(Older(ms)) + i \in 1 .. Len(Rest(ms))
    BY TailIs
  <2> QED
    BY <2>1, <2>2
<1>5. Compacted(ms) = p \o s \o t
  BY DEF Compacted
<1> HIDE DEF p, s, t
<1>6. /\ h \in Seq(Message) /\ K = Len(p) + Len(s) /\ K \in Nat
      /\ \A i \in 1 .. K : h[i] = IF i <= Len(p) THEN p[i] ELSE s[i - Len(p)]
  BY <1>1, ConcatProperties
<1>7. \A i \in 1 .. K : h[i].pinned
  <2>1. ASSUME NEW i \in 1 .. K PROVE h[i].pinned
    <3>1. CASE i <= Len(p)
      BY <1>1, <1>2, <1>6, <3>1
    <3>2. CASE ~(i <= Len(p))
      <4>1. i - Len(p) \in 1 .. Len(s)
        BY <1>1, <1>6, <3>2
      <4> QED
        BY <1>3, <1>6, <3>2, <4>1
    <3> QED
      BY <3>1, <3>2
  <2> QED
    BY <2>1
<1> HIDE DEF h, K
<1>8. /\ c \in Seq(Message) /\ Len(c) = K + Len(t) /\ K \in 0 .. Len(c)
      /\ \A i \in 1 .. K + Len(t) : c[i] = IF i <= K THEN h[i] ELSE t[i - K]
  <2>1. /\ c \in Seq(Message) /\ Len(c) = Len(h) + Len(t)
        /\ \A i \in 1 .. Len(h) + Len(t) : c[i] = IF i <= Len(h) THEN h[i] ELSE t[i - Len(h)]
    BY <1>1, <1>6, ConcatProperties
  <2>2. K = Len(h)
    BY DEF K
  <2>3. Len(h) \in 0 .. Len(h) + Len(t)
    BY <1>1, <1>6, <2>2
  <2> QED
    BY <2>1, <2>2, <2>3
<1> HIDE DEF c
<1>9. /\ \A i \in 1 .. K : c[i] = h[i]
      /\ \A i \in 1 .. Len(t) : c[K + i] = t[i]
  <2>1. ASSUME NEW i \in 1 .. Len(t) PROVE c[K + i] = t[i]
    <3>1. K + i \in 1 .. K + Len(t) /\ ~(K + i <= K) /\ (K + i) - K = i
      BY <1>1, <1>6
    <3> QED
      BY <1>8, <3>1
  <2>2. \A i \in 1 .. K : c[i] = h[i]
    BY <1>1, <1>6, <1>8
  <2> QED
    BY <2>1, <2>2
<1>10. \A i \in 1 .. K : c[i].pinned
  BY <1>7, <1>9
<1>11. ASSUME NEW i \in K + 1 .. Len(c) PROVE ~c[i].pinned
  <2>1. i - K \in 1 .. Len(t) /\ K + (i - K) = i
    BY <1>1, <1>6, <1>8
  <2> QED
    BY <1>4, <1>9, <2>1
<1>12. /\ Len(Pinned(c)) = K /\ Len(Rest(c)) = Len(c) - K
       /\ \A i \in 1 .. K : Pinned(c)[i] = c[i]
       /\ \A i \in 1 .. Len(c) - K : Rest(c)[i] = c[K + i]
  BY <1>8, <1>10, <1>11, SiftOrdered
<1>13. Pinned(c) \in Seq(Message) /\ Rest(c) \in Seq(Message)
  BY <1>8, SiftOnly DEF Pinned, Rest
<1>14. Pinned(c) = h
  <2>1. Len(Pinned(c)) = Len(h) /\ \A i \in 1 .. Len(Pinned(c)) : Pinned(c)[i] = h[i]
    BY <1>9, <1>12 DEF K
  <2> QED
    BY <1>6, <1>13, <2>1, SeqEqual
<1>15. Rest(c) = t
  <2>1. Len(c) - K = Len(t)
    BY <1>1, <1>6, <1>8
  <2>2. Len(Rest(c)) = Len(t) /\ \A i \in 1 .. Len(Rest(c)) : Rest(c)[i] = t[i]
    BY <1>9, <1>12, <2>1
  <2> QED
    BY <1>1, <1>13, <2>2, SeqEqual
<1>16. Compacted(ms) = c
  BY <1>5 DEF c, h
<1> QED
  BY <1>6, <1>8, <1>14, <1>15, <1>16 DEF h, p, s, t, c, K

-----------------------------------------------------------------------------
\* Of any transcript: compaction makes it no longer, and settles.
LEMMA Settles ==
  ASSUME NEW ms \in Seq(Message)
  PROVE  /\ Len(Compacted(ms)) <= Len(ms)
         /\ Compacted(Compacted(ms)) = Compacted(ms)
<1>1. CASE TotalTokens(ms) <= Threshold
  <2>1. Compacted(ms) = ms
    BY <1>1 DEF Compacted
  <2>2. Len(ms) \in Nat
    OBVIOUS
  <2> QED
    BY <2>1, <2>2
<1>2. CASE ~(TotalTokens(ms) <= Threshold)
  <2> DEFINE c == Compacted(ms)
             p == Len(Pinned(ms))
             s == Len(Summary(ms))
             o == Len(Older(ms))
             r == Len(Recent(ms))
  <2>1. /\ c = (Pinned(ms) \o Summary(ms)) \o Recent(ms) /\ c \in Seq(Message)
        /\ Len(c) = p + s + r
        /\ Pinned(c) = Pinned(ms) \o Summary(ms) /\ Rest(c) = Recent(ms)
    BY <1>2, CompactedIs
  <2>2. /\ p \in Nat /\ s \in Nat /\ o \in Nat /\ r \in Nat
        /\ o = 0 => s = 0
        /\ s <= 1
    <3>1. Pinned(ms) \in Seq(Message)
      BY SiftOnly DEF Pinned
    <3>2. /\ Older(ms) \in Seq(Message) /\ Recent(ms) \in Seq(Message)
      BY TailIs
    <3>3. /\ Summary(ms) \in Seq(Message)
          /\ Older(ms) = <<>> => Summary(ms) = <<>>
          /\ Older(ms) # <<>> => Len(Summary(ms)) = 1
      BY SummaryIs
    <3>4. o = 0 => Older(ms) = <<>>
      BY <3>2, EmptySeq
    <3>5. p \in Nat /\ s \in Nat /\ o \in Nat /\ r \in Nat
      BY <3>1, <3>2, <3>3
    <3>6. Older(ms) = <<>> => s = 0
      BY <3>3
    <3>7. s = 0 \/ s = 1
      BY <3>3, <3>6
    <3>8. o = 0 => s = 0
      BY <3>4, <3>6
    <3> HIDE DEF p, s, o, r
    <3> QED
      BY <3>5, <3>7, <3>8
  <2>3. Len(Rest(ms)) = o + r /\ p + Len(Rest(ms)) = Len(ms) /\ Kept(o + r, r)
    BY SiftLength, TailIs
  <2>4. Len(c) <= Len(ms)
    <3> HIDE DEF c, p, s, o, r
    <3> QED
      BY <2>1, <2>2, <2>3
  <2>5. CASE TotalTokens(c) <= Threshold
    BY <2>4, <2>5 DEF Compacted
  <2>6. CASE ~(TotalTokens(c) <= Threshold)
    <3> DEFINE q == Len(Recent(c))
               d == Len(Older(c))
    <3>1. /\ Older(c) \in Seq(Message) /\ Recent(c) \in Seq(Message)
          /\ r = d + q /\ Kept(r, q)
          /\ \A i \in 1 .. q : Recent(c)[i] = Recent(ms)[d + i]
      <4>1. c \in Seq(Message) /\ Rest(c) = Recent(ms)
        BY <2>1
      <4> HIDE DEF c, r
      <4>2. /\ Older(c) \in Seq(Message) /\ Recent(c) \in Seq(Message)
            /\ Len(Rest(c)) = d + q /\ Kept(Len(Rest(c)), q)
            /\ \A i \in 1 .. q : Recent(c)[i] = Rest(c)[d + i]
        BY <4>1, TailIs
      <4> QED
        BY <4>1, <4>2 DEF r
    <3>2. d \in Nat /\ q \in Nat /\ KeepRecent \in Nat
      BY <3>1, CompactorAssumption DEF CompactorAssumption
    <3>3. q = r
      <4> HIDE DEF o, r, q, d
      <4> QED
        BY <2>2, <2>3, <3>1, <3>2 DEF Kept
    <3>4. d = 0
      BY <2>2, <3>1, <3>2, <3>3
    <3>5. Older(c) = <<>>
      BY <3>1, <3>4, EmptySeq
    <3>6. Summary(c) = <<>>
      BY <3>5 DEF Summary
    <3>7. Recent(c) = Recent(ms)
      <4>1. Recent(ms) \in Seq(Message)
        BY TailIs
      <4>2. \A i \in 1 .. q : Recent(c)[i] = Recent(ms)[i]
        BY <3>1, <3>4
      <4> QED
        BY <3>1, <3>3, <4>1, <4>2, SeqEqual
    <3>8. Compacted(c) = Pinned(c) \o Summary(c) \o Recent(c)
      BY <2>6 DEF Compacted
    <3>9. Pinned(c) \o Summary(c) = Pinned(c)
      <4>1. Pinned(c) \in Seq(Message)
        BY <2>1, SiftOnly DEF Pinned
      <4> QED
        BY <3>6, <4>1, ConcatEmptySeq
    <3>10. Compacted(c) = c
      BY <2>1, <3>7, <3>8, <3>9
    <3> QED
      BY <2>4, <3>10
  <2> QED
    BY <2>5, <2>6
<1> QED
  BY <1>1, <1>2

\* What a message that no tool wrote said is, after a compaction, said by such a
\* message or among the lines the summary had no room for.
LEMMA CompactedKeeps ==
  ASSUME NEW ms \in Seq(Message), ~(TotalTokens(ms) <= Threshold),
         NEW i \in 1 .. Len(ms), ~ms[i].tool, NEW line \in ToSet(ms[i].lines) \cap Line
  PROVE  \/ line \in ToSet(From(Salient(Older(ms)), MaxLines))
         \/ \E j \in 1 .. Len(Compacted(ms)) :
              ~Compacted(ms)[j].tool /\ line \in ToSet(Compacted(ms)[j].lines)
<1> DEFINE c == Compacted(ms)
           p == Pinned(ms)
           s == Summary(ms)
           t == Recent(ms)
           Said(m) == ~m.tool /\ line \in ToSet(m.lines)
<1>1. c = (p \o s) \o t /\ c \in Seq(Message)
  BY CompactedIs
<1>2. /\ p \in Seq(Message) /\ s \in Seq(Message) /\ t \in Seq(Message)
  <2>1. p \in Seq(Message)
    BY SiftOnly DEF Pinned
  <2> QED
    BY <2>1, SummaryIs, TailIs
<1> HIDE DEF p, s, t, c
<1>3. /\ Len(p) \in Nat /\ Len(s) \in Nat /\ Len(t) \in Nat
      /\ Len(c) = Len(p) + Len(s) + Len(t)
      /\ \A j \in 1 .. Len(p) : c[j] = p[j]
      /\ \A j \in 1 .. Len(s) : c[Len(p) + j] = s[j]
      /\ \A j \in 1 .. Len(t) : c[Len(p) + Len(s) + j] = t[j]
  <2> DEFINE h == p \o s
  <2>1. Len(p) \in Nat /\ Len(s) \in Nat /\ Len(t) \in Nat
    BY <1>2
  <2>2. /\ h \in Seq(Message) /\ Len(h) = Len(p) + Len(s)
        /\ \A j \in 1 .. Len(p) + Len(s) : h[j] = IF j <= Len(p) THEN p[j] ELSE s[j - Len(p)]
    BY <1>2, ConcatProperties
  <2> HIDE DEF h
  <2>3. /\ Len(c) = Len(h) + Len(t)
        /\ \A j \in 1 .. Len(h) + Len(t) : c[j] = IF j <= Len(h) THEN h[j] ELSE t[j - Len(h)]
    BY <1>1, <1>2, <2>2, ConcatProperties DEF h
  <2>4. ASSUME NEW j \in 1 .. Len(p) PROVE c[j] = p[j]
    <3>1. j \in 1 .. Len(p) + Len(s) /\ j \in 1 .. Len(h) + Len(t) /\ j <= Len(h)
      BY <2>1, <2>2
    <3> QED
      BY <2>2, <2>3, <3>1
  <2>5. ASSUME NEW j \in 1 .. Len(s) PROVE c[Len(p) + j] = s[j]
    <3> DEFINE k == Len(p) + j
    <3>1. /\ k \in 1 .. Len(p) + Len(s) /\ k \in 1 .. Len(h) + Len(t) /\ k <= Len(h)
          /\ ~(k <= Len(p)) /\ k - Len(p) = j
      BY <2>1, <2>2
    <3> HIDE DEF k
    <3>2. c[k] = s[j]
      BY <2>2, <2>3, <3>1
    <3> QED
      BY <3>2 DEF k
  <2>6. ASSUME NEW j \in 1 .. Len(t) PROVE c[Len(p) + Len(s) + j] = t[j]
    <3> DEFINE k == Len(p) + Len(s) + j
    <3>1. k \in 1 .. Len(h) + Len(t) /\ ~(k <= Len(h)) /\ k - Len(h) = j
      BY <2>1, <2>2
    <3> HIDE DEF k
    <3>2. c[k] = t[j]
      BY <2>2, <2>3, <3>1
    <3> QED
      BY <3>2 DEF k
  <2> QED
    BY <2>1, <2>2, <2>3, <2>4, <2>5, <2>6
<1>4. \/ \E j \in 1 .. Len(p) : p[j] = ms[i]
      \/ \E j \in 1 .. Len(Rest(ms)) : Rest(ms)[j] = ms[i]
  <2>1. ms[i] \in Message
    OBVIOUS
  <2>2. ms[i].pinned = TRUE \/ ms[i].pinned = FALSE
    BY <2>1 DEF Message
  <2>3. PICK j \in 1 .. Len(Sifting(ms, ms[i].pinned)[Len(ms)]) :
          Sifting(ms, ms[i].pinned)[Len(ms)][j] = ms[i]
    BY SiftKeeps
  <2>4. CASE ms[i].pinned = TRUE
    BY <2>3, <2>4 DEF p, Pinned
  <2>5. CASE ms[i].pinned = FALSE
    BY <2>3, <2>5 DEF Rest
  <2> QED
    BY <2>2, <2>4, <2>5
<1>5. ASSUME NEW j \in 1 .. Len(c), Said(c[j])
      PROVE  \E k \in 1 .. Len(Compacted(ms)) :
               ~Compacted(ms)[k].tool /\ line \in ToSet(Compacted(ms)[k].lines)
  BY <1>5 DEF c
<1>6. CASE \E j \in 1 .. Len(p) : p[j] = ms[i]
  <2>1. PICK j \in 1 .. Len(p) : p[j] = ms[i]
    BY <1>6
  <2>2. j \in 1 .. Len(c) /\ c[j] = ms[i]
    BY <1>3, <2>1
  <2> QED
    BY <1>5, <2>2
<1>7. CASE \E j \in 1 .. Len(Rest(ms)) : Rest(ms)[j] = ms[i]
  <2>1. PICK j \in 1 .. Len(Rest(ms)) : Rest(ms)[j] = ms[i]
    BY <1>7
  <2> DEFINE o == Older(ms)
  <2>2. /\ o \in Seq(Message) /\ Len(o) \in Nat
        /\ Len(Rest(ms)) = Len(o) + Len(t)
        /\ \A k \in 1 .. Len(o) : o[k] = Rest(ms)[k]
        /\ \A k \in 1 .. Len(t) : t[k] = Rest(ms)[Len(o) + k]
    BY TailIs DEF t
  <2> HIDE DEF o
  <2>3. CASE j <= Len(o)
    <3>1. j \in 1 .. Len(o) /\ o[j] = ms[i]
      BY <2>1, <2>2, <2>3
    <3>2. line \in ToSet(Salient(o))
      BY <2>2, <3>1, SalientIs
    <3>3. line \in ToSet(Extract(o)) \/ line \in ToSet(From(Salient(o), MaxLines))
      BY <2>2, <3>2, ExtractIs
    <3>4. o # <<>>
      BY <2>2, <3>1
    <3>5. CASE line \in ToSet(Extract(o))
      <4>1. Len(s) = 1 /\ ~s[1].tool /\ line \in ToSet(s[1].lines)
        BY <3>4, <3>5, SummaryIs DEF o, s
      <4>2. Len(p) + 1 \in 1 .. Len(c) /\ c[Len(p) + 1] = s[1]
        BY <1>3, <4>1
      <4> QED
        BY <1>5, <4>1, <4>2
    <3> QED
      BY <3>3, <3>5 DEF o
  <2>4. CASE ~(j <= Len(o))
    <3>1. j - Len(o) \in 1 .. Len(t) /\ Len(o) + (j - Len(o)) = j
      BY <1>3, <2>1, <2>2, <2>4
    <3> DEFINE k == j - Len(o)
               n == Len(p) + Len(s) + k
    <3>2. t[k] = ms[i]
      BY <2>1, <2>2, <3>1
    <3>3. n \in 1 .. Len(c) /\ k \in 1 .. Len(t)
      BY <1>3, <3>1
    <3>4. c[n] = t[k]
      <4> HIDE DEF k
      <4> QED
        BY <1>3, <3>3
    <3> HIDE DEF k, n
    <3> QED
      BY <1>5, <3>2, <3>3, <3>4
  <2> QED
    BY <2>3, <2>4
<1> QED
  BY <1>4, <1>6, <1>7

-----------------------------------------------------------------------------
LEMMA TurnIs == Turn \subseteq Message
<1>1. ASSUME NEW m \in Turn PROVE m \in Message
  <2>1. /\ m \in [lines : {<<line>> : line \in Line \cup {"noise"}},
                  tool : BOOLEAN, pinned : BOOLEAN]
    BY DEF Turn
  <2>2. PICK line \in Line \cup {"noise"} : m.lines = <<line>>
    BY <2>1
  <2>3. <<line>> \in Seq(Line \cup {"noise", "header"})
    OBVIOUS
  <2>4. m = [lines |-> <<line>>, tool |-> m.tool, pinned |-> m.pinned]
    BY <2>1, <2>2
  <2>5. m.tool \in BOOLEAN /\ m.pinned \in BOOLEAN
    BY <2>1
  <2>6. \A lines \in Seq(Line \cup {"noise", "header"}), tool, pinned \in BOOLEAN :
          [lines |-> lines, tool |-> tool, pinned |-> pinned] \in Message
    BY DEF Message
  <2>7. [lines |-> <<line>>, tool |-> m.tool, pinned |-> m.pinned] \in Message
    BY <2>3, <2>5, <2>6
  <2> QED
    BY <2>4, <2>7
<1> QED
  BY <1>1

\* Types: a compacted transcript is a transcript, and only decisions overflow.
THEOREM TranscriptTypeCorrect == TranscriptSpec => []TranscriptOK
<1> USE CompactorAssumption DEF CompactorAssumption
<1>1. TranscriptInit => TranscriptOK
  BY DEF TranscriptInit, TranscriptOK
<1>2. ASSUME TranscriptOK, [TranscriptNext]_transcript PROVE TranscriptOK'
  <2> USE <1>2 DEF TranscriptOK
  <2>1. CASE \E m \in Turn : Say(m)
    <3>1. PICK m \in Turn : Say(m)
      BY <2>1
    <3>2. m \in Message
      BY TurnIs
    <3>3. msgs' \in Seq(Message)
      BY <3>1, <3>2 DEF Say
    <3> QED
      BY <3>1, <3>3 DEF Say
  <2>2. CASE Compact
    <3>1. CASE TotalTokens(msgs) <= Threshold
      <4>1. msgs' = msgs /\ overflowed' = overflowed
        BY <2>2, <3>1 DEF Compact, Compacted
      <4> QED
        BY <2>2, <4>1 DEF Compact
    <3>2. CASE ~(TotalTokens(msgs) <= Threshold)
      <4>1. msgs' \in Seq(Message)
        BY <2>2, <3>2, CompactedIs DEF Compact
      <4>2. Older(msgs) \in Seq(Message)
        BY TailIs
      <4>3. ToSet(From(Salient(Older(msgs)), MaxLines)) \subseteq Line
        BY <4>2, ExtractIs
      <4>4. overflowed' \subseteq Line
        BY <2>2, <3>2, <4>3 DEF Compact
      <4> QED
        BY <2>2, <4>1, <4>4 DEF Compact
    <3> QED
      BY <3>1, <3>2
  <2>3. CASE Done \/ UNCHANGED transcript
    BY <2>3 DEF Done, transcript
  <2> QED
    BY <2>1, <2>2, <2>3 DEF TranscriptNext
<1> QED
  BY <1>1, <1>2, PTL DEF TranscriptSpec

\* The strengthening: a decision that did not overflow is in a message that no
\* tool wrote, for those are the ones that compaction reads.
THEOREM TranscriptRemembers == TranscriptSpec => []Remembered
<1>1. TranscriptInit => Remembered
  BY DEF TranscriptInit, Remembered
<1>2. ASSUME TranscriptOK, Remembered, [TranscriptNext]_transcript PROVE Remembered'
  <2> USE <1>2
  <2>1. CASE \E m \in Turn : Say(m)
    <3>1. PICK m \in Turn : Say(m)
      BY <2>1
    <3>2. /\ msgs \in Seq(Message) /\ m \in Message
          /\ msgs' = Append(msgs, m) /\ overflowed' = overflowed
          /\ said' = IF m.tool THEN said ELSE said \cup (ToSet(m.lines) \cap Line)
      BY <3>1, TurnIs DEF TranscriptOK, Say
    <3>3. /\ Len(msgs) \in Nat /\ Len(msgs') = Len(msgs) + 1
          /\ \A i \in 1 .. Len(msgs) : msgs'[i] = msgs[i]
          /\ msgs'[Len(msgs) + 1] = m
      BY <3>2, AppendProperties
    <3>4. ASSUME NEW line \in said' \ overflowed'
          PROVE  \E i \in 1 .. Len(msgs') : ~msgs'[i].tool /\ line \in ToSet(msgs'[i].lines)
      <4>1. CASE line \in said
        <5>1. PICK i \in 1 .. Len(msgs) : ~msgs[i].tool /\ line \in ToSet(msgs[i].lines)
          BY <3>2, <4>1 DEF Remembered
        <5>2. i \in 1 .. Len(msgs') /\ msgs'[i] = msgs[i]
          BY <3>3
        <5> QED
          BY <5>1, <5>2
      <4>2. CASE line \notin said
        <5>1. ~m.tool /\ line \in ToSet(m.lines)
          BY <3>2, <4>2
        <5>2. Len(msgs) + 1 \in 1 .. Len(msgs')
          BY <3>3
        <5> QED
          BY <3>3, <5>1, <5>2
      <4> QED
        BY <4>1, <4>2
    <3> QED
      BY <3>4 DEF Remembered
  <2>2. CASE Compact
    <3>1. msgs' = Compacted(msgs) /\ said' = said /\ msgs \in Seq(Message) /\ said \subseteq Line
      BY <2>2 DEF Compact, TranscriptOK
    <3>2. CASE TotalTokens(msgs) <= Threshold
      <4>1. msgs' = msgs /\ overflowed' = overflowed
        BY <2>2, <3>2 DEF Compact, Compacted
      <4> QED
        BY <3>1, <4>1 DEF Remembered
    <3>3. CASE ~(TotalTokens(msgs) <= Threshold)
      <4>1. overflowed' = overflowed \cup ToSet(From(Salient(Older(msgs)), MaxLines))
        BY <2>2, <3>3 DEF Compact
      <4>2. ASSUME NEW line \in said' \ overflowed'
            PROVE  \E i \in 1 .. Len(msgs') : ~msgs'[i].tool /\ line \in ToSet(msgs'[i].lines)
        <5>1. line \in said \ overflowed /\ line \in Line
          BY <3>1, <4>1
        <5>2. PICK i \in 1 .. Len(msgs) : ~msgs[i].tool /\ line \in ToSet(msgs[i].lines)
          BY <5>1 DEF Remembered
        <5>3. line \notin ToSet(From(Salient(Older(msgs)), MaxLines))
          BY <4>1
        <5> QED
          BY <3>1, <3>3, <5>1, <5>2, <5>3, CompactedKeeps
      <4> QED
        BY <4>2 DEF Remembered
    <3> QED
      BY <3>2, <3>3
  <2>3. CASE Done \/ UNCHANGED transcript
    BY <2>3 DEF Done, transcript, Remembered
  <2> QED
    BY <2>1, <2>2, <2>3 DEF TranscriptNext
<1> QED
  BY <1>1, <1>2, TranscriptTypeCorrect, PTL DEF TranscriptSpec

\* However long the transcript, and wherever it is compacted, a decision is only
\* lost to a summary that was full.
THEOREM TranscriptForgets == TranscriptSpec => []OnlyOverflowForgets
<1>1. ASSUME Remembered PROVE OnlyOverflowForgets
  <2>1. ASSUME NEW line \in said, line \notin overflowed
        PROVE  line \in UNION {ToSet(msgs[i].lines) : i \in 1 .. Len(msgs)}
    <3>1. PICK i \in 1 .. Len(msgs) : line \in ToSet(msgs[i].lines)
      BY <1>1, <2>1 DEF Remembered
    <3> QED
      BY <3>1
  <2> QED
    BY <2>1 DEF OnlyOverflowForgets
<1> QED
  BY <1>1, TranscriptRemembers, PTL

\* Compaction never makes a transcript longer, and a second one changes nothing,
\* for any threshold, tail and lengths of lines.
THEOREM TranscriptSettles == TranscriptSpec => []CompactionSettles
<1>1. ASSUME TranscriptOK PROVE CompactionSettles
  BY <1>1, Settles DEF TranscriptOK, CompactionSettles
<1> QED
  BY <1>1, TranscriptTypeCorrect, PTL

-----------------------------------------------------------------------------
(* The ledgers.                                                            *)

USE LedgerAssumption DEF LedgerAssumption

\* A sum that wraps stays in the type; one that fits is the sum.
LEMMA WrappedRange ==
  ASSUME NEW a \in Nat, NEW b \in Nat, NEW limit \in Nat \ {0}
  PROVE  /\ Wrapped(a, b, limit) \in 0 .. limit - 1
         /\ ~Overflows(a, b, limit) => Wrapped(a, b, limit) = a + b
<1> DEFINE n == a + b
<1>1. n \in Nat /\ n % limit \in 0 .. limit - 1
  OBVIOUS
<1>2. ASSUME n < limit PROVE n % limit = n
  BY <1>2
<1> QED
  BY <1>1, <1>2 DEF Wrapped, Overflows

\* Under an integer cap that leaves room for the request, and a counter below
\* it, the machine's comparison is Python's and the sum is not wrapped.
LEMMA SameCall ==
  ASSUME NEW now \in Nat, NEW more \in Nat, NEW cap \in Nat, NEW limit \in Nat \ {0},
         now <= cap, cap + more < limit
  PROVE  /\ RsCall(now, more, cap, limit) = PyCall(now, more, cap)
         /\ RsCall(now, more, cap, limit) = "refused" <=> now + more > cap
         /\ RsCall(now, more, cap, limit) \in {"ok", "refused"}
         /\ Wrapped(now, more, limit) = now + more
<1>1. ~Overflows(now, more, limit)
  BY DEF Overflows
<1>2. Wrapped(now, more, limit) = now + more
  BY <1>1, WrappedRange
<1>3. cap # Uncapped
  OBVIOUS
<1> QED
  BY <1>1, <1>2, <1>3 DEF RsCall, PyCall, RsRefuses, PyRefuses

\* In a debug build a call that is let through has not overflowed and is at
\* most at the cap.
LEMMA DebugCall ==
  ASSUME NEW now \in Nat, NEW more \in Nat, NEW cap \in Nat \cup {Uncapped},
         NEW limit \in Nat \ {0}, build = "debug",
         RsCall(now, more, cap, limit) = "ok"
  PROVE  /\ Wrapped(now, more, limit) = now + more
         /\ cap # Uncapped => now + more <= cap
<1>1. ~Overflows(now, more, limit)
  BY DEF RsCall
<1>2. Wrapped(now, more, limit) = now + more
  BY <1>1, WrappedRange
<1> QED
  BY <1>1, <1>2 DEF RsCall, RsRefuses

LEMMA CallTypes ==
  ASSUME NEW now \in Nat, NEW more \in Nat, NEW cap, NEW limit \in Nat \ {0}
  PROVE  /\ PyCall(now, more, cap) \in {"ok", "refused"}
         /\ RsCall(now, more, cap, limit) \in Answer
         /\ now \in 0 .. limit - 1 =>
              \A answer : After(answer, now, more, limit) \in 0 .. limit - 1
BY WrappedRange DEF PyCall, RsCall, Answer, After


\* A number of whole seconds is a natural; what is over the cap in whole seconds
\* is over it in readings, and a reading over it is less than a second over it if
\* the whole seconds are not.
LEMMA SecondsRound ==
  ASSUME NEW time \in Nat, NEW secs \in WholeSeconds(time)
  PROVE  /\ secs \in Nat
         /\ \A cap \in Nat : secs > cap => time > cap * Second
         /\ \A cap \in Nat : secs <= cap => time < cap * Second + Second
<1> DEFINE q == time \div Second
           r == time % Second
<1>1. /\ q \in Nat /\ r \in Nat /\ r < Second
      /\ time = Second * q + r
  BY SMTT(30)
<1>2. secs = q \/ (secs = q + 1 /\ r # 0)
  BY DEF WholeSeconds
<1> HIDE DEF q, r
<1>3. secs \in Nat
  BY <1>1, <1>2
<1>4. ASSUME NEW cap \in Nat, secs > cap PROVE time > cap * Second
  <2>1. CASE secs = q
    <3>1. PICK d \in Nat : q = cap + 1 + d
      <4>1. q - (cap + 1) \in Nat /\ q = cap + 1 + (q - (cap + 1))
        BY <1>1, <1>4, <2>1
      <4> QED
        BY <4>1
    <3>2. Second * q = Second * cap + Second + Second * d /\ Second * d \in Nat
      BY <3>1
    <3>3. Second * cap = cap * Second /\ cap * Second \in Nat
      OBVIOUS
    <3> QED
      BY <1>1, <3>2, <3>3
  <2>2. CASE secs = q + 1 /\ r # 0
    <3>1. PICK d \in Nat : q = cap + d
      <4>1. q - cap \in Nat /\ q = cap + (q - cap)
        BY <1>1, <1>4, <2>2
      <4> QED
        BY <4>1
    <3>2. Second * q = Second * cap + Second * d /\ Second * d \in Nat
      BY <3>1
    <3>3. Second * cap = cap * Second /\ cap * Second \in Nat
      OBVIOUS
    <3> QED
      BY <1>1, <2>2, <3>2, <3>3
  <2> QED
    BY <1>2, <2>1, <2>2
<1>5. ASSUME NEW cap \in Nat, secs <= cap PROVE time < cap * Second + Second
  <2>1. PICK d \in Nat : cap = q + d
    <3>1. cap - q \in Nat /\ cap = q + (cap - q)
      BY <1>1, <1>2, <1>5
    <3> QED
      BY <3>1
  <2>2. cap * Second = Second * q + Second * d /\ Second * d \in Nat /\ Second * q \in Nat
    BY <1>1, <2>1
  <2> QED
    BY <1>1, <2>2
<1> QED
  BY <1>3, <1>4, <1>5

-----------------------------------------------------------------------------
\* Types: counters stay within their widths whatever wraps.
THEOREM LedgerTypeCorrect == Spec => []TypeOK
<1>1. Init => TypeOK
  BY DEF Init, TypeOK, Answer
<1>2. ASSUME TypeOK, [Next]_vars PROVE TypeOK'
  <2> USE <1>2 DEF Called, history
  <2>1. CASE \E t \in 0 .. MaxRequest : Spend(t)
    <3>1. PICK t \in 0 .. MaxRequest : Spend(t)
      BY <2>1
    <3>2. /\ rsTokens \in Nat /\ rsTokens \in 0 .. TokenLimit - 1 /\ t \in Nat
          /\ pyTokens \in Nat /\ granted \in Nat
      BY DEF TypeOK
    <3>3. /\ PyCall(pyTokens, t, maxTokens) \in {"ok", "refused"}
          /\ RsCall(rsTokens, t, maxTokens, TokenLimit) \in Answer
          /\ After(rsAnswer', rsTokens, t, TokenLimit) \in 0 .. TokenLimit - 1
      BY <3>2, CallTypes
    <3>4. pyTokens' \in Nat /\ granted' \in Nat
      BY <3>1, <3>2 DEF Spend
    <3> QED
      BY <3>1, <3>3, <3>4 DEF TypeOK, Spend, config, Answer
  <2>2. CASE Tick
    <3>1. /\ rsIterations \in Nat /\ rsIterations \in 0 .. IterLimit - 1
          /\ pyIterations \in Nat /\ ticked \in Nat
      BY DEF TypeOK
    <3>2. /\ PyCall(pyIterations, 1, maxIterations) \in {"ok", "refused"}
          /\ RsCall(rsIterations, 1, maxIterations, IterLimit) \in Answer
          /\ After(rsAnswer', rsIterations, 1, IterLimit) \in 0 .. IterLimit - 1
      BY <3>1, CallTypes
    <3>3. pyIterations' \in Nat /\ ticked' \in Nat
      BY <2>2, <3>1 DEF Tick
    <3> QED
      BY <2>2, <3>2, <3>3 DEF TypeOK, Tick, config, Answer
  <2>3. CASE \E secs \in WholeSeconds(elapsed) : CheckWallClock(secs)
    BY <2>3 DEF TypeOK, CheckWallClock, config, py, rs, Answer
  <2>4. CASE TimePasses
    BY <2>4 DEF TypeOK, TimePasses, config, py, rs
  <2>5. CASE Dead \/ UNCHANGED vars
    BY <2>5 DEF TypeOK, Dead, vars, config, py, rs
  <2> QED
    BY <2>1, <2>2, <2>3, <2>4, <2>5 DEF Next
<1> QED
  BY <1>1, <1>2, PTL DEF Spec

-----------------------------------------------------------------------------
\* What room above a cap and the invariant say of the counters under it.
LEMMA TokensInRoom ==
  ASSUME TypeOK, IInv, TokenRoom
  PROVE  /\ maxTokens \in Nat /\ maxTokens # Uncapped /\ maxTokens + MaxRequest < TokenLimit
         /\ rsTokens \in Nat /\ rsTokens <= maxTokens
         /\ granted = rsTokens /\ pyTokens = rsTokens
BY DEF TypeOK, IInv, TokenRoom, RoomAbove, CapsHold, Cap

LEMMA TicksInRoom ==
  ASSUME TypeOK, IInv, IterRoom
  PROVE  /\ maxIterations \in Nat /\ maxIterations # Uncapped /\ maxIterations + 1 < IterLimit
         /\ rsIterations \in Nat /\ rsIterations <= maxIterations
         /\ ticked = rsIterations /\ pyIterations = rsIterations
BY DEF TypeOK, IInv, IterRoom, RoomAbove, CapsHold, Cap

LEMMA SpendPreserves ==
  ASSUME TypeOK, IInv, NEW t \in 0 .. MaxRequest, Spend(t)
  PROVE  IInv'
<1> USE DEF Spend, config, Called
<1>1. /\ UNCHANGED <<maxTokens, maxIterations, build, pyIterations, rsIterations, ticked>>
      /\ TokenRoom' = TokenRoom /\ IterRoom' = IterRoom /\ call' = "spend"
  BY DEF TokenRoom, IterRoom, RoomAbove
<1>2. /\ rsTokens \in Nat /\ t \in Nat /\ pyTokens \in Nat /\ granted \in Nat
      /\ maxTokens \in Nat \cup {Uncapped}
  BY DEF TypeOK, Cap
<1>3. ASSUME TokenRoom
      PROVE  /\ granted' = rsTokens' /\ granted' <= maxTokens
             /\ pyTokens' = rsTokens' /\ pyAnswer' = rsAnswer'
  <2>1. /\ rsTokens <= maxTokens /\ maxTokens \in Nat /\ maxTokens + t < TokenLimit
        /\ granted = rsTokens /\ pyTokens = rsTokens
    BY <1>2, <1>3, TokensInRoom
  <2>2. /\ rsAnswer' = pyAnswer' /\ Wrapped(rsTokens, t, TokenLimit) = rsTokens + t
        /\ rsAnswer' = "refused" <=> rsTokens + t > maxTokens
        /\ rsAnswer' \in {"ok", "refused"}
    BY <1>2, <2>1, SameCall
  <2>3. CASE rsAnswer' = "ok"
    BY <1>2, <2>1, <2>2, <2>3 DEF After
  <2>4. CASE rsAnswer' = "refused"
    BY <1>2, <2>1, <2>2, <2>4 DEF After
  <2> QED
    BY <2>2, <2>3, <2>4
<1>4. ASSUME build = "debug"
      PROVE  granted' = rsTokens' /\ (maxTokens # Uncapped => granted' <= maxTokens)
  <2>1. granted = rsTokens /\ (maxTokens # Uncapped => granted <= maxTokens)
    BY <1>4 DEF IInv, CapsHold
  <2>2. CASE rsAnswer' = "ok"
    <3>1. /\ Wrapped(rsTokens, t, TokenLimit) = rsTokens + t
          /\ maxTokens # Uncapped => rsTokens + t <= maxTokens
      BY <1>2, <1>4, <2>2, DebugCall
    <3> QED
      BY <2>1, <2>2, <3>1 DEF After
  <2>3. CASE rsAnswer' # "ok"
    BY <2>1, <2>3 DEF After
  <2> QED
    BY <2>2, <2>3
<1>5. CapsHold'
  <2>1. IterRoom \/ (build = "debug" /\ maxIterations # Uncapped) => ticked <= maxIterations
    BY DEF IInv, CapsHold
  <2> QED
    BY <1>1, <1>3, <1>4, <2>1 DEF CapsHold
<1> QED
  BY <1>1, <1>3, <1>4, <1>5 DEF IInv

LEMMA TickPreserves ==
  ASSUME TypeOK, IInv, Tick
  PROVE  IInv'
<1> USE DEF Tick, config, Called
<1>1. /\ UNCHANGED <<maxTokens, maxIterations, build, pyTokens, rsTokens, granted>>
      /\ TokenRoom' = TokenRoom /\ IterRoom' = IterRoom /\ call' = "tick"
  BY DEF TokenRoom, IterRoom, RoomAbove
<1>2. /\ rsIterations \in Nat /\ pyIterations \in Nat /\ ticked \in Nat
      /\ maxIterations \in Nat \cup {Uncapped}
  BY DEF TypeOK, Cap
<1>3. ASSUME IterRoom
      PROVE  /\ ticked' = rsIterations' /\ ticked' <= maxIterations
             /\ pyIterations' = rsIterations' /\ pyAnswer' = rsAnswer'
  <2>1. /\ rsIterations <= maxIterations /\ maxIterations \in Nat
        /\ maxIterations + 1 < IterLimit
        /\ ticked = rsIterations /\ pyIterations = rsIterations
    BY <1>3, TicksInRoom
  <2>2. /\ rsAnswer' = pyAnswer'
        /\ Wrapped(rsIterations, 1, IterLimit) = rsIterations + 1
        /\ rsAnswer' = "refused" <=> rsIterations + 1 > maxIterations
        /\ rsAnswer' \in {"ok", "refused"}
    BY <1>2, <2>1, SameCall
  <2>3. CASE rsAnswer' = "ok"
    BY <1>2, <2>1, <2>2, <2>3 DEF After
  <2>4. CASE rsAnswer' = "refused"
    BY <1>2, <2>1, <2>2, <2>4 DEF After
  <2> QED
    BY <2>2, <2>3, <2>4
<1>4. ASSUME build = "debug"
      PROVE  ticked' = rsIterations' /\ (maxIterations # Uncapped => ticked' <= maxIterations)
  <2>1. ticked = rsIterations /\ (maxIterations # Uncapped => ticked <= maxIterations)
    BY <1>4 DEF IInv, CapsHold
  <2>2. CASE rsAnswer' = "ok"
    <3>1. /\ Wrapped(rsIterations, 1, IterLimit) = rsIterations + 1
          /\ maxIterations # Uncapped => rsIterations + 1 <= maxIterations
      BY <1>2, <1>4, <2>2, DebugCall
    <3> QED
      BY <2>1, <2>2, <3>1 DEF After
  <2>3. CASE rsAnswer' # "ok"
    BY <2>1, <2>3 DEF After
  <2> QED
    BY <2>2, <2>3
<1>5. CapsHold'
  <2>1. TokenRoom \/ (build = "debug" /\ maxTokens # Uncapped) => granted <= maxTokens
    BY DEF IInv, CapsHold
  <2> QED
    BY <1>1, <1>3, <1>4, <2>1 DEF CapsHold
<1> QED
  BY <1>1, <1>3, <1>4, <1>5 DEF IInv

\* What Rust refuses on the clock Python refuses, and what only Python refuses is
\* the fraction of the second in which the cap is reached.
LEMMA ClockAnswers ==
  ASSUME NEW time \in Nat, NEW secs \in WholeSeconds(time), wallClock \in ClockCap
  PROVE  /\ RsClockRefuses(secs) => PyClockRefuses(time)
         /\ PyClockRefuses(time) /\ ~RsClockRefuses(secs) =>
              time > wallClock * Second /\ time < wallClock * Second + Second
<1>1. CASE wallClock = Uncapped
  BY <1>1 DEF RsClockRefuses, PyClockRefuses
<1>2. CASE wallClock \in Nat
  BY <1>2, SecondsRound DEF RsClockRefuses, PyClockRefuses
<1> QED
  BY <1>1, <1>2 DEF ClockCap

LEMMA ClockPreserves ==
  ASSUME TypeOK, IInv, NEW secs \in WholeSeconds(elapsed), CheckWallClock(secs)
  PROVE  IInv'
<1>1. /\ UNCHANGED <<config, py, rs, history>> /\ call' = "clock" /\ asked' = elapsed
      /\ pyAnswer' = IF PyClockRefuses(elapsed) THEN "refused" ELSE "ok"
      /\ rsAnswer' = IF RsClockRefuses(secs) THEN "refused" ELSE "ok"
  BY DEF CheckWallClock, Called
<1>2. /\ TokenRoom' = TokenRoom /\ IterRoom' = IterRoom /\ CapsHold' = CapsHold
  BY <1>1 DEF config, history, TokenRoom, IterRoom, RoomAbove, CapsHold
<1>3. ClocksAgree(asked)'
  <2>1. /\ RsClockRefuses(secs) => PyClockRefuses(elapsed)
        /\ PyClockRefuses(elapsed) /\ ~RsClockRefuses(secs) =>
             elapsed > wallClock * Second /\ elapsed < wallClock * Second + Second
    BY ClockAnswers DEF TypeOK
  <2>2. wallClock' = wallClock
    BY <1>1 DEF config
  <2> QED
    BY <1>1, <2>1, <2>2 DEF ClocksAgree
<1> QED
  BY <1>1, <1>2, <1>3 DEF IInv, config, py, rs, history

\* The strengthening: under a cap with room above it, or in a debug build, what
\* was let through is what the counter says, and the cap holds; with room above
\* the cap the Python ledger has the same counter and gave the same answer.
THEOREM LedgerInductive == Spec => [](TypeOK /\ IInv)
<1>1. Init => IInv
  BY DEF Init, IInv, CapsHold, Cap, TokenRoom, IterRoom, RoomAbove
<1>2. ASSUME TypeOK, IInv, [Next]_vars PROVE IInv'
  <2> USE <1>2
  <2>1. CASE \E t \in 0 .. MaxRequest : Spend(t)
    BY <2>1, SpendPreserves
  <2>2. CASE Tick
    BY <2>2, TickPreserves
  <2>3. CASE \E secs \in WholeSeconds(elapsed) : CheckWallClock(secs)
    BY <2>3, ClockPreserves
  <2>4. CASE TimePasses \/ Dead \/ UNCHANGED vars
    BY <2>4 DEF TimePasses, Dead, vars, config, py, rs, history, IInv, CapsHold,
                TokenRoom, IterRoom, RoomAbove, ClocksAgree
  <2> QED
    BY <2>1, <2>2, <2>3, <2>4 DEF Next
<1> QED
  BY <1>1, <1>2, LedgerTypeCorrect, PTL DEF Spec

\* A cap that leaves room above it holds, in a debug build any cap does, whatever
\* is asked, refused and asked again on any axis, for counters of any width.
THEOREM LedgerCapsHold == Spec => []CapsHold
<1>1. TypeOK /\ IInv => CapsHold
  BY DEF IInv
<1> QED
  BY <1>1, LedgerInductive, PTL

\* Under such a cap the two ledgers have the same counter and give the same answer
\* to every call; on the clock Rust refuses nothing that Python grants, and grants
\* what Python refuses only in the fraction of a second past the cap that its
\* caller drops; and `exhausted` foretells the next answer of both.
THEOREM LedgersAreOne == Spec => []LedgersAgree
<1>1. ASSUME TypeOK, IInv,
             TokenRoom \/ maxTokens = Uncapped, IterRoom \/ maxIterations = Uncapped,
             NEW secs \in WholeSeconds(elapsed)
      PROVE  /\ Exhausted(secs) <=>
                  \/ RsCall(rsTokens, 1, maxTokens, TokenLimit) = "refused"
                  \/ RsCall(rsIterations, 1, maxIterations, IterLimit) = "refused"
                  \/ RsClockRefuses(secs)
             /\ Exhausted(secs) =>
                  \/ PyRefuses(pyTokens, 1, maxTokens)
                  \/ PyRefuses(pyIterations, 1, maxIterations)
                  \/ PyClockRefuses(elapsed)
  <2>1. /\ (maxTokens # Uncapped /\ rsTokens >= maxTokens) <=>
             RsCall(rsTokens, 1, maxTokens, TokenLimit) = "refused"
        /\ (maxTokens # Uncapped /\ rsTokens >= maxTokens) =>
             PyRefuses(pyTokens, 1, maxTokens)
    <3>1. CASE TokenRoom
      <4>1. /\ maxTokens \in Nat /\ maxTokens # Uncapped /\ maxTokens + 1 < TokenLimit
            /\ rsTokens \in Nat /\ rsTokens <= maxTokens /\ pyTokens = rsTokens
        BY <1>1, <3>1, TokensInRoom
      <4>2. RsCall(rsTokens, 1, maxTokens, TokenLimit) = "refused" <=> rsTokens + 1 > maxTokens
        BY <4>1, SameCall
      <4> QED
        BY <4>1, <4>2 DEF PyRefuses
    <3>2. CASE maxTokens = Uncapped
      BY <3>2 DEF RsCall, RsRefuses
    <3> QED
      BY <1>1, <3>1, <3>2
  <2>2. /\ maxIterations = rsIterations <=>
             RsCall(rsIterations, 1, maxIterations, IterLimit) = "refused"
        /\ maxIterations = rsIterations => PyRefuses(pyIterations, 1, maxIterations)
    <3>1. CASE IterRoom
      <4>1. /\ maxIterations \in Nat /\ maxIterations # Uncapped /\ maxIterations + 1 < IterLimit
            /\ rsIterations \in Nat /\ rsIterations <= maxIterations
            /\ pyIterations = rsIterations
        BY <1>1, <3>1, TicksInRoom
      <4>2. RsCall(rsIterations, 1, maxIterations, IterLimit) = "refused"
              <=> rsIterations + 1 > maxIterations
        BY <4>1, SameCall
      <4> QED
        BY <4>1, <4>2 DEF PyRefuses
    <3>2. CASE maxIterations = Uncapped
      <4>1. maxIterations # rsIterations
        BY <1>1, <3>2 DEF TypeOK
      <4> QED
        BY <3>2, <4>1 DEF RsCall, RsRefuses
    <3> QED
      BY <1>1, <3>1, <3>2
  <2>3. RsClockRefuses(secs) => PyClockRefuses(elapsed)
    BY <1>1, ClockAnswers DEF TypeOK
  <2> QED
    BY <2>1, <2>2, <2>3 DEF Exhausted
<1>2. TypeOK /\ IInv => LedgersAgree
  BY <1>1 DEF IInv, LedgersAgree
<1> QED
  BY <1>2, LedgerInductive, PTL
=============================================================================
