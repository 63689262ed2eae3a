---------------------------- MODULE ConsoleProofs ----------------------------
(***************************************************************************)
(* Proofs about Console: for every screen, message and number, nothing is  *)
(* written behind the buffer, what was written is seen, a turned page is   *)
(* clean, and efi_console_hex writes the digits of its number.             *)
(***************************************************************************)
EXTENDS Console, WellFoundedInduction, TLAPS

-----------------------------------------------------------------------------
(* Induction and recursion over the natural numbers *)

\* A set of numbers that is not empty has a least member.
LEMMA LeastExists ==
    ASSUME NEW T \in SUBSET Nat, T # {}
    PROVE  \E m \in T : \A y \in T : m <= y
  <1> DEFINE R == OpToRel(<, Nat)
  <1>1. ASSUME NEW k \in Nat, NEW j \in Nat, k < j
        PROVE  <<k, j>> \in R
    <2>1. <<k, j>> \in Nat \X Nat /\ <<k, j>>[1] < <<k, j>>[2]
      BY <1>1
    <2> QED
      BY <2>1, Zenon DEF OpToRel
  <1>2. IsWellFoundedOn(R, Nat)
    BY NatLessThanWellFounded, Zenon
  <1> HIDE DEF R
  <1>3. PICK m \in T : \A y \in T : ~(<<y, m>> \in R)
    BY <1>2, WFMin, Zenon
  <1>4. ASSUME NEW y \in T PROVE m <= y
    <2>1. y \in Nat /\ m \in Nat /\ ~(y < m)
      BY <1>1, <1>3
    <2> QED
      BY <2>1
  <1> QED
    BY <1>4

\* A recursion over smaller numbers: the value at v is base[v] where it stops,
\* and step[v] of the value at pred[v] elsewhere.
Recursion(S) ==
    {r \in [stops : SUBSET Nat, base : [Nat -> S], step : [Nat -> [S -> S]], pred : [Nat -> Nat]] :
        \A v \in Nat \ r.stops : r.pred[v] < v}
Follows(f, v, r) ==
    f[v] = IF v \in r.stops THEN r.base[v] ELSE r.step[v][f[r.pred[v]]]
FollowsTo(f, n, r) == \A v \in 0..n : Follows(f, v, r)

\* The parts of a recursion.
LEMMA RecursionParts ==
    ASSUME NEW S, NEW r \in Recursion(S)
    PROVE  /\ r.base \in [Nat -> S] /\ r.step \in [Nat -> [S -> S]]
           /\ \A v \in Nat : v \in r.stops \/ r.pred[v] \in 0..(v - 1)
  <1>1. /\ r.base \in [Nat -> S] /\ r.step \in [Nat -> [S -> S]]
        /\ r.pred \in [Nat -> Nat] /\ \A v \in Nat \ r.stops : r.pred[v] < v
    BY DEF Recursion
  <1>2. ASSUME NEW v \in Nat, v \notin r.stops PROVE r.pred[v] \in 0..(v - 1)
    <2>1. r.pred[v] \in Nat /\ r.pred[v] < v
      BY <1>1, <1>2
    <2> QED
      BY <2>1
  <1> QED
    BY <1>1, <1>2

\* g does the same wherever the value it takes is in S.
Obeys(g, v, r, S) ==
    /\ v \in r.stops => g[v] = r.base[v]
    /\ v \notin r.stops /\ g[r.pred[v]] \in S => g[v] = r.step[v][g[r.pred[v]]]

\* Two functions that follow the same recursion agree.
LEMMA RecursionUnique ==
    ASSUME NEW S, NEW r \in Recursion(S), NEW n \in Nat, NEW f \in [0..n -> S], NEW g,
           FollowsTo(f, n, r), \A v \in 0..n : Obeys(g, v, r, S)
    PROVE  \A v \in 0..n : f[v] = g[v]
  <1>0. \A v \in Nat : v \in r.stops \/ r.pred[v] \in 0..(v - 1)
    BY RecursionParts
  <1> DEFINE T == {v \in 0..n : f[v] # g[v]}
  <1>1. SUFFICES ASSUME T # {} PROVE FALSE
    OBVIOUS
  <1>2. PICK m \in T : \A y \in T : m <= y
    <2>1. T \in SUBSET Nat
      OBVIOUS
    <2> HIDE DEF T
    <2> QED
      BY <1>1, <2>1, LeastExists
  <1>3. m \in 0..n /\ m \in Nat /\ f[m] # g[m]
    OBVIOUS
  <1>4. f[m] = IF m \in r.stops THEN r.base[m] ELSE r.step[m][f[r.pred[m]]]
    BY <1>3 DEF FollowsTo, Follows
  <1>5. Obeys(g, m, r, S)
    BY <1>3
  <1>6. m \notin r.stops
    BY <1>3, <1>4, <1>5 DEF Obeys
  <1>7. r.pred[m] \in 0..n /\ r.pred[m] < m
    BY <1>0, <1>3, <1>6
  <1>8. r.pred[m] \notin T
    BY <1>2, <1>3, <1>7
  <1>9. f[r.pred[m]] = g[r.pred[m]] /\ g[r.pred[m]] \in S
    BY <1>7, <1>8
  <1> QED
    BY <1>3, <1>4, <1>5, <1>6, <1>9 DEF Obeys

\* A recursion over smaller numbers has a solution on 0..n.
LEMMA RecursionTo ==
    ASSUME NEW S, NEW r \in Recursion(S),
           NEW n \in Nat
    PROVE  \E f \in [0..n -> S] : FollowsTo(f, n, r)
  <1>0. /\ r.base \in [Nat -> S] /\ r.step \in [Nat -> [S -> S]]
        /\ \A v \in Nat : v \in r.stops \/ r.pred[v] \in 0..(v - 1)
    BY RecursionParts
  <1> DEFINE Good(m) == \E f \in [0..m -> S] : FollowsTo(f, m, r)
             T == {m \in Nat : ~Good(m)}
  <1>1. SUFFICES ASSUME T # {} PROVE FALSE
    OBVIOUS
  <1>2. PICK m \in T : \A y \in T : m <= y
    <2>1. T \in SUBSET Nat
      OBVIOUS
    <2> HIDE DEF T
    <2> QED
      BY <1>1, <2>1, LeastExists
  <1>3. m \in Nat /\ ~Good(m)
    OBVIOUS
  <1>4. CASE m = 0
    <2> DEFINE f == [v \in 0..0 |-> r.base[v]]
    <2>1. 0 \in r.stops
      BY <1>0
    <2>2. f \in [0..0 -> S] /\ f[0] = r.base[0]
      BY <1>0
    <2>3. FollowsTo(f, 0, r)
      BY <2>1, <2>2 DEF FollowsTo, Follows
    <2> HIDE DEF f
    <2> QED
      BY <1>3, <1>4, <2>2, <2>3
  <1>5. CASE m # 0
    <2>1. m - 1 \in Nat /\ m - 1 < m
      BY <1>3, <1>5
    <2>2. Good(m - 1)
      BY <1>2, <1>3, <2>1
    <2>3. PICK g \in [0..(m - 1) -> S] : FollowsTo(g, m - 1, r)
      BY <2>2
    <2> DEFINE e == IF m \in r.stops THEN r.base[m] ELSE r.step[m][g[r.pred[m]]]
               f == [v \in 0..m |-> IF v = m THEN e ELSE g[v]]
    <2>4. e \in S
      <3>1. m \notin r.stops => r.pred[m] \in 0..(m - 1)
        BY <1>0, <1>3, <2>1
      <3> QED
        BY <1>0, <1>3, <3>1
    <2> HIDE DEF e
    <2>5. \A v \in 0..m : v = m \/ v \in 0..(m - 1)
      BY <1>3
    <2>6. f \in [0..m -> S]
      BY <2>4, <2>5
    <2>7. f[m] = e /\ \A v \in 0..(m - 1) : f[v] = g[v]
      BY <1>3
    <2> HIDE DEF f
    <2>8. ASSUME NEW v \in 0..m PROVE Follows(f, v, r)
      <3>1. v \notin r.stops => r.pred[v] \in 0..(m - 1) /\ f[r.pred[v]] = g[r.pred[v]]
        BY <1>0, <1>3, <2>1, <2>7
      <3>2. CASE v = m
        BY <2>7, <3>1, <3>2 DEF Follows, e
      <3>3. CASE v # m
        <4>1. v \in 0..(m - 1)
          BY <2>5, <3>3
        <4>2. Follows(g, v, r)
          BY <2>3, <4>1 DEF FollowsTo
        <4> QED
          BY <2>7, <3>1, <4>1, <4>2 DEF Follows
      <3> QED
        BY <3>2, <3>3
    <2> QED
      BY <1>3, <2>6, <2>8 DEF FollowsTo
  <1> QED
    BY <1>4, <1>5

\* It also has one on all numbers.
LEMMA RecursionExists ==
    ASSUME NEW S, NEW r \in Recursion(S)
    PROVE  \E f \in [Nat -> S] : \A v \in Nat : Follows(f, v, r)
  <1>0. /\ r.base \in [Nat -> S] /\ r.step \in [Nat -> [S -> S]]
        /\ \A v \in Nat : v \in r.stops \/ r.pred[v] \in 0..(v - 1)
    BY RecursionParts
  <1> DEFINE Sol(n) == CHOOSE f : f \in [0..n -> S] /\ FollowsTo(f, n, r)
             f == [v \in Nat |-> Sol(v)[v]]
  <1>1. ASSUME NEW n \in Nat
        PROVE  Sol(n) \in [0..n -> S] /\ FollowsTo(Sol(n), n, r)
    <2>1. \E g : g \in [0..n -> S] /\ FollowsTo(g, n, r)
      BY RecursionTo
    <2> QED
      BY <2>1, Zenon
  <1> HIDE DEF Sol
  <1>2. f \in [Nat -> S]
    BY <1>1
  <1>3. ASSUME NEW n \in Nat, NEW v \in 0..n PROVE f[v] = Sol(n)[v]
    <2>1. v \in Nat /\ f[v] = Sol(v)[v] /\ v \in 0..v
      OBVIOUS
    <2>2. FollowsTo(Sol(v), v, r)
      BY <1>1, <2>1
    <2>3. FollowsTo(Sol(n), v, r)
      BY <1>1, <2>1 DEF FollowsTo
    <2>4. PICK a, b : a = Sol(v) /\ b = Sol(n)
      OBVIOUS
    <2>5. a \in [0..v -> S] /\ FollowsTo(a, v, r) /\ FollowsTo(b, v, r)
      BY <1>1, <2>1, <2>2, <2>3, <2>4
    <2>6. \A u \in 0..v : Obeys(b, u, r, S)
      BY <2>5 DEF FollowsTo, Follows, Obeys
    <2>7. \A u \in 0..v : a[u] = b[u]
      BY <2>1, <2>5, <2>6, RecursionUnique
    <2> QED
      BY <2>1, <2>4, <2>7
  <1> HIDE DEF f
  <1>4. ASSUME NEW v \in Nat PROVE Follows(f, v, r)
    <2>1. v \in 0..v /\ (v \notin r.stops => r.pred[v] \in 0..v)
      BY <1>0
    <2>2. f[v] = Sol(v)[v] /\ (v \notin r.stops => f[r.pred[v]] = Sol(v)[r.pred[v]])
      BY <1>3, <2>1
    <2>3. Follows(Sol(v), v, r)
      BY <1>1, <2>1 DEF FollowsTo
    <2> QED
      BY <2>2, <2>3 DEF Follows
  <1> QED
    BY <1>2, <1>4

\* A function that obeys a recursion has its values in S, and follows it.
LEMMA Solves ==
    ASSUME NEW S, NEW r \in Recursion(S), NEW g, \A v \in Nat : Obeys(g, v, r, S)
    PROVE  \A v \in Nat : g[v] \in S /\ Follows(g, v, r)
  <1>0. \A v \in Nat : v \in r.stops \/ r.pred[v] \in 0..(v - 1)
    BY RecursionParts
  <1>1. ASSUME NEW n \in Nat PROVE g[n] \in S
    <2>1. PICK f \in [0..n -> S] : FollowsTo(f, n, r)
      BY RecursionTo
    <2>2. \A v \in 0..n : Obeys(g, v, r, S)
      OBVIOUS
    <2>3. \A v \in 0..n : f[v] = g[v]
      BY <2>1, <2>2, RecursionUnique
    <2> QED
      BY <2>3
  <1>2. ASSUME NEW v \in Nat PROVE Follows(g, v, r)
    <2>1. v \notin r.stops => r.pred[v] \in Nat
      BY <1>0
    <2>2. v \notin r.stops => g[r.pred[v]] \in S
      BY <1>1, <2>1
    <2> QED
      BY <2>2 DEF Obeys, Follows
  <1> QED
    BY <1>1, <1>2

Iterates(f, b, step) == f[0] = b /\ \A k \in Nat \ {0} : f[k] = step[k][f[k - 1]]

\* A recursion that goes down by one has a solution.
LEMMA Iteration ==
    ASSUME NEW S, NEW b \in S, NEW step \in [Nat -> [S -> S]]
    PROVE  \E f \in [Nat -> S] : Iterates(f, b, step)
  <1> DEFINE pred == [v \in Nat |-> IF v = 0 THEN 0 ELSE v - 1]
             base == [v \in Nat |-> b]
             r == [stops |-> {0}, base |-> base, step |-> step, pred |-> pred]
  <1>1. pred \in [Nat -> Nat] /\ \A v \in Nat \ {0} : pred[v] = v - 1
    OBVIOUS
  <1>2. base \in [Nat -> S] /\ base[0] = b /\ {0} \in SUBSET Nat
    OBVIOUS
  <1> HIDE DEF pred, base
  <1>3. r \in Recursion(S)
    BY <1>1, <1>2 DEF Recursion
  <1>4. r.stops = {0} /\ r.base = base /\ r.step = step /\ r.pred = pred
    OBVIOUS
  <1> HIDE DEF r
  <1>5. PICK f \in [Nat -> S] : \A v \in Nat : Follows(f, v, r)
    BY <1>3, RecursionExists
  <1>6. f[0] = b
    BY <1>2, <1>4, <1>5 DEF Follows
  <1>7. ASSUME NEW k \in Nat \ {0} PROVE f[k] = step[k][f[k - 1]]
    BY <1>1, <1>4, <1>5 DEF Follows
  <1> QED
    BY <1>6, <1>7 DEF Iterates

\* What holds of 0 and is passed on as far as n holds of 0..n.
LEMMA InductionTo ==
    ASSUME NEW n \in Nat, NEW T, 0 \in T, \A k \in 1..n : k - 1 \in T => k \in T
    PROVE  \A k \in 0..n : k \in T
  <1> DEFINE C == {k \in 0..n : k \notin T}
  <1>1. SUFFICES ASSUME C # {} PROVE FALSE
    OBVIOUS
  <1>2. PICK m \in C : \A y \in C : m <= y
    <2>1. C \in SUBSET Nat
      OBVIOUS
    <2> HIDE DEF C
    <2> QED
      BY <1>1, <2>1, LeastExists
  <1>3. m \in 0..n /\ m \notin T /\ m # 0
    OBVIOUS
  <1>4. m \in 1..n /\ m - 1 \in 0..n /\ m - 1 < m
    BY <1>3
  <1>5. m - 1 \in T
    BY <1>2, <1>4
  <1> QED
    BY <1>3, <1>4, <1>5

\* The number before one of 1..n.
LEMMA Before ==
    ASSUME NEW n \in Nat, NEW k \in 1..n
    PROVE  k \in Nat \ {0} /\ k - 1 \in Nat /\ k - 1 \in 0..n
  OBVIOUS

-----------------------------------------------------------------------------
(* Digits *)

\* A factor is smaller than a multiple of it.
LEMMA Multiple ==
    ASSUME NEW c \in Nat, c >= 2, NEW q \in Nat, q > 0, NEW m \in Nat
    PROVE  q < c * q + m
  <1>1. c * q >= q + q /\ c * q \in Nat
    OBVIOUS
  <1> QED
    BY <1>1

Quotient(v) == v \div Radix
Remainder(v) == v % Radix
DigitChars == {DigitChar(d) : d \in 0..(Radix - 1)}
LastDigit(v) == DigitChar(Remainder(v))

\* Division by the radix.
LEMMA Division ==
    ASSUME NEW v \in Nat
    PROVE  /\ Quotient(v) \in Nat /\ Remainder(v) \in 0..(Radix - 1)
           /\ v = Radix * Quotient(v) + Remainder(v)
           /\ Quotient(v) > 0 => Quotient(v) < v
  <1>1. Radix \in Nat /\ Radix >= 2
    BY ConsoleAssumption
  <1>2. Quotient(v) \in Nat
    BY <1>1 DEF Quotient
  <1>3. Remainder(v) \in 0..(Radix - 1)
    BY <1>1 DEF Remainder
  <1>4. v = Radix * Quotient(v) + Remainder(v)
    BY <1>1 DEF Quotient, Remainder
  <1>5. ASSUME Quotient(v) > 0 PROVE Quotient(v) < v
    <2>1. Remainder(v) \in Nat
      BY <1>1, <1>3
    <2>2. Quotient(v) < Radix * Quotient(v) + Remainder(v)
      BY <1>1, <1>2, <1>5, <2>1, Multiple
    <2> QED
      BY <1>4, <2>2
  <1> QED
    BY <1>2, <1>3, <1>4, <1>5

\* No digit is a zero byte, and each stands for one number.
LEMMA DigitFacts ==
    /\ NUL \notin DigitChars
    /\ \A d \in 0..(Radix - 1) : DigitChar(d) = "0" => d = 0
    /\ \A d, e \in 0..(Radix - 1) : DigitChar(d) = DigitChar(e) => d = e
  <1>1. \A d \in 0..(Radix - 1) : d \in 0..15
    BY ConsoleAssumption
  <1>2. /\ DigitChar(0) = "0" /\ DigitChar(1) = "1" /\ DigitChar(2) = "2" /\ DigitChar(3) = "3"
        /\ DigitChar(4) = "4" /\ DigitChar(5) = "5" /\ DigitChar(6) = "6" /\ DigitChar(7) = "7"
        /\ DigitChar(8) = "8" /\ DigitChar(9) = "9" /\ DigitChar(10) = "A" /\ DigitChar(11) = "B"
        /\ DigitChar(12) = "C" /\ DigitChar(13) = "D" /\ DigitChar(14) = "E" /\ DigitChar(15) = "F"
    BY DEF DigitChar
  <1>3. \A d \in 0..15 : \/ d = 0 \/ d = 1 \/ d = 2 \/ d = 3 \/ d = 4 \/ d = 5 \/ d = 6 \/ d = 7
                       \/ d = 8 \/ d = 9 \/ d = 10 \/ d = 11 \/ d = 12 \/ d = 13 \/ d = 14
                       \/ d = 15
    OBVIOUS
  <1>4. ASSUME NEW d \in 0..15 PROVE DigitChar(d) # NUL
    BY <1>2, <1>3 DEF NUL
  <1>5. ASSUME NEW d \in 0..15, NEW e \in 0..15, DigitChar(d) = DigitChar(e) PROVE d = e
    BY <1>2, <1>3, <1>5
  <1> QED
    BY <1>1, <1>2, <1>4, <1>5 DEF DigitChars

\* The loop of itoa as a recursion.
DigitsRecursion ==
    [stops |-> {v \in Nat : ~(Quotient(v) > 0)},
     base |-> [v \in Nat |-> <<LastDigit(v)>>],
     step |-> [v \in Nat |-> [s \in Seq(DigitChars) |-> <<LastDigit(v)>> \o s]],
     pred |-> [v \in Nat |-> Quotient(v)]]

\* It is one over smaller numbers.
LEMMA DigitsDescend == DigitsRecursion \in Recursion(Seq(DigitChars))
  <1>1. ASSUME NEW v \in Nat PROVE LastDigit(v) \in DigitChars
    BY Division DEF DigitChars, LastDigit
  <1> DEFINE base == [v \in Nat |-> <<LastDigit(v)>>]
             step == [v \in Nat |-> [s \in Seq(DigitChars) |-> <<LastDigit(v)>> \o s]]
             pred == [v \in Nat |-> Quotient(v)]
             stops == {v \in Nat : ~(Quotient(v) > 0)}
  <1>2. base \in [Nat -> Seq(DigitChars)]
    BY <1>1
  <1>3. step \in [Nat -> [Seq(DigitChars) -> Seq(DigitChars)]]
    BY <1>1
  <1>4. pred \in [Nat -> Nat]
    BY Division
  <1>5. stops \in SUBSET Nat
    OBVIOUS
  <1>6. \A v \in Nat \ stops : pred[v] < v
    BY Division
  <1>7. DigitsRecursion = [stops |-> stops, base |-> base, step |-> step, pred |-> pred]
    BY DEF DigitsRecursion
  <1> HIDE DEF base, step, pred, stops
  <1> QED
    BY <1>2, <1>3, <1>4, <1>5, <1>6, <1>7 DEF Recursion

\* What the loop of itoa computes is a sequence of digits: the last one of
\* the number, then those of the quotient.
LEMMA DigitsAre ==
    ASSUME NEW v \in Nat
    PROVE  /\ Digits[v] \in Seq(DigitChars) /\ Quotient(v) \in Nat
           /\ Digits[v] = IF Quotient(v) > 0 THEN <<LastDigit(v)>> \o Digits[Quotient(v)]
                          ELSE <<LastDigit(v)>>
  <1> DEFINE S == Seq(DigitChars)
             r == DigitsRecursion
             Rest(g, u) == IF Quotient(u) > 0 THEN g[Quotient(u)] ELSE << >>
             Body(g) == [u \in Nat |-> <<LastDigit(u)>> \o Rest(g, u)]
  <1>1. ASSUME NEW u \in Nat PROVE LastDigit(u) \in DigitChars
    BY Division DEF DigitChars, LastDigit
  <1>2. /\ \A u : u \in r.stops <=> u \in Nat /\ ~(Quotient(u) > 0)
        /\ \A u \in Nat : r.base[u] = <<LastDigit(u)>> /\ r.pred[u] = Quotient(u)
        /\ \A u \in Nat, s \in S : r.step[u][s] = <<LastDigit(u)>> \o s
    BY DEF DigitsRecursion
  <1>3. r \in Recursion(S)
    BY DigitsDescend
  <1> HIDE DEF r
  <1>4. PICK f \in [Nat -> S] : \A u \in Nat : Follows(f, u, r)
    BY <1>3, RecursionExists
  <1>5. f = Body(f)
    <2>1. ASSUME NEW u \in Nat PROVE f[u] = <<LastDigit(u)>> \o Rest(f, u)
      <3>1. Follows(f, u, r) /\ Quotient(u) \in Nat
        BY <1>4, Division
      <3>2. CASE Quotient(u) > 0
        BY <1>2, <3>1, <3>2 DEF Follows
      <3>3. CASE ~(Quotient(u) > 0)
        <4>1. f[u] = <<LastDigit(u)>>
          BY <1>2, <3>1, <3>3 DEF Follows
        <4>2. <<LastDigit(u)>> \o << >> = <<LastDigit(u)>>
          BY <1>1
        <4> QED
          BY <3>3, <4>1, <4>2
      <3> QED
        BY <3>2, <3>3
    <2> HIDE DEF Rest
    <2> QED
      BY <2>1
  <1>6. Digits = CHOOSE g : g = Body(g)
    BY DEF Digits, LastDigit, Quotient, Remainder
  <1> HIDE DEF Body
  <1>7. Digits = Body(Digits)
    BY <1>5, <1>6
  <1>8. ASSUME NEW u \in Nat PROVE Digits[u] = <<LastDigit(u)>> \o Rest(Digits, u)
    BY <1>7 DEF Body
  <1>9. ASSUME NEW u \in Nat PROVE Obeys(Digits, u, r, S)
    <2>1. CASE Quotient(u) > 0
      <3>1. Digits[u] = <<LastDigit(u)>> \o Digits[Quotient(u)]
        BY <1>8, <2>1
      <3>2. u \notin r.stops /\ r.pred[u] = Quotient(u)
        BY <1>2, <2>1
      <3>3. Digits[Quotient(u)] \in S =>
                r.step[u][Digits[Quotient(u)]] = <<LastDigit(u)>> \o Digits[Quotient(u)]
        BY <1>2
      <3> QED
        BY <3>1, <3>2, <3>3 DEF Obeys
    <2>2. CASE ~(Quotient(u) > 0)
      <3>1. <<LastDigit(u)>> \o << >> = <<LastDigit(u)>>
        BY <1>1
      <3> QED
        BY <1>2, <1>8, <2>2, <3>1 DEF Obeys
    <2> QED
      BY <2>1, <2>2
  <1>10. Digits[v] \in S /\ Follows(Digits, v, r)
    BY <1>3, <1>9, Solves
  <1>11. Quotient(v) \in Nat /\ (Quotient(v) \in Nat => Digits[Quotient(v)] \in S)
    BY <1>3, <1>9, Solves, Division
  <1> QED
    <2>1. CASE Quotient(v) > 0
      <3>1. v \notin r.stops /\ r.pred[v] = Quotient(v)
        BY <1>2, <2>1
      <3>2. Digits[v] = r.step[v][Digits[Quotient(v)]]
        BY <1>10, <3>1 DEF Follows
      <3>3. r.step[v][Digits[Quotient(v)]] = <<LastDigit(v)>> \o Digits[Quotient(v)]
        BY <1>2, <1>11
      <3> QED
        BY <1>10, <1>11, <2>1, <3>2, <3>3
    <2>2. CASE ~(Quotient(v) > 0)
      <3>1. v \in r.stops /\ r.base[v] = <<LastDigit(v)>>
        BY <1>2, <2>2
      <3>2. Digits[v] = <<LastDigit(v)>>
        BY <1>10, <3>1 DEF Follows
      <3> QED
        BY <1>10, <1>11, <2>2, <3>2
    <2> QED
      BY <2>1, <2>2

\* itoa has the digits in the opposite order.
LEMMA ItoaIs ==
    ASSUME NEW u \in Nat
    PROVE  /\ itoa(u) \in Seq(DigitChars) /\ Len(itoa(u)) = Len(Digits[u])
           /\ \A k \in 1..Len(Digits[u]) : itoa(u)[k] = Digits[u][(Len(Digits[u]) - k) + 1]
  <1> DEFINE s == Digits[u]
  <1>1. s \in Seq(DigitChars)
    BY DigitsAre
  <1>2. itoa(u) = [k \in 1..Len(s) |-> s[(Len(s) - k) + 1]]
    BY DEF itoa, Reverse
  <1> HIDE DEF s
  <1>3. Len(s) \in Nat /\ \A k \in 1..Len(s) : s[(Len(s) - k) + 1] \in DigitChars
    BY <1>1
  <1>4. itoa(u) \in Seq(DigitChars) /\ Len(itoa(u)) = Len(s)
    BY <1>2, <1>3
  <1>5. \A k \in 1..Len(s) : itoa(u)[k] = s[(Len(s) - k) + 1]
    BY <1>2
  <1> QED
    BY <1>4, <1>5 DEF s

\* itoa writes the digits of the quotient and behind them the last one.
LEMMA ItoaStep ==
    ASSUME NEW v \in Nat
    PROVE  /\ itoa(v) \in Seq(DigitChars) /\ Quotient(v) \in Nat
           /\ ~(Quotient(v) > 0) => Len(itoa(v)) = 1 /\ itoa(v)[1] = LastDigit(v)
           /\ Quotient(v) > 0 =>
                  /\ Len(itoa(v)) = Len(itoa(Quotient(v))) + 1
                  /\ itoa(v)[Len(itoa(v))] = LastDigit(v)
                  /\ \A k \in 1..Len(itoa(Quotient(v))) : itoa(v)[k] = itoa(Quotient(v))[k]
  <1>0. /\ itoa(v) \in Seq(DigitChars) /\ Len(itoa(v)) = Len(Digits[v])
        /\ \A k \in 1..Len(Digits[v]) : itoa(v)[k] = Digits[v][(Len(Digits[v]) - k) + 1]
    BY ItoaIs
  <1>1. Quotient(v) \in Nat
    BY DigitsAre
  <1>2. CASE ~(Quotient(v) > 0)
    <2>1. Digits[v] = <<LastDigit(v)>>
      BY <1>2, DigitsAre
    <2>2. Len(Digits[v]) = 1 /\ Digits[v][1] = LastDigit(v)
      BY <2>1
    <2>3. Len(itoa(v)) = 1 /\ 1 \in 1..1 /\ (1 - 1) + 1 = 1
      BY <1>0, <2>2
    <2>4. itoa(v)[1] = LastDigit(v)
      BY <1>0, <2>2, <2>3
    <2> QED
      BY <1>0, <1>1, <1>2, <2>3, <2>4
  <1>3. CASE Quotient(v) > 0
    <2>0. PICK q, n : q = Quotient(v) /\ n = Len(Digits[q])
      OBVIOUS
    <2>1. q \in Nat
      BY <1>1, <2>0
    <2>2. Digits[q] \in Seq(DigitChars) /\ n \in Nat
      <3>1. Digits[q] \in Seq(DigitChars)
        BY <2>1, DigitsAre
      <3> QED
        BY <2>0, <3>1
    <2>3. Digits[v] = <<LastDigit(v)>> \o Digits[q]
      BY <1>3, <2>0, DigitsAre
    <2>4. /\ Len(Digits[v]) = n + 1 /\ Digits[v][1] = LastDigit(v)
          /\ \A k \in 1..n : Digits[v][k + 1] = Digits[q][k]
      BY <2>0, <2>2, <2>3
    <2>5. /\ Len(itoa(q)) = n /\ \A k \in 1..n : itoa(q)[k] = Digits[q][(n - k) + 1]
      BY <2>0, <2>1, ItoaIs
    <2>6. /\ Len(itoa(v)) = n + 1
          /\ \A k \in 1..(n + 1) : itoa(v)[k] = Digits[v][((n + 1) - k) + 1]
      BY <1>0, <2>4
    <2>7. itoa(v)[n + 1] = LastDigit(v)
      <3>1. n + 1 \in 1..(n + 1) /\ ((n + 1) - (n + 1)) + 1 = 1
        BY <2>2
      <3> QED
        BY <2>4, <2>6, <3>1
    <2>8. ASSUME NEW k \in 1..n PROVE itoa(v)[k] = itoa(q)[k]
      <3>1. /\ k \in 1..(n + 1) /\ (n - k) + 1 \in 1..n
            /\ ((n - k) + 1) + 1 = ((n + 1) - k) + 1
        BY <2>2
      <3>2. itoa(v)[k] = Digits[v][((n + 1) - k) + 1]
        BY <2>6, <3>1
      <3>3. Digits[v][((n - k) + 1) + 1] = Digits[q][(n - k) + 1]
        BY <2>4, <3>1
      <3> QED
        BY <2>5, <3>1, <3>2, <3>3
    <2> QED
      BY <1>0, <1>1, <1>3, <2>0, <2>5, <2>6, <2>7, <2>8
  <1> QED
    BY <1>2, <1>3

\* The number that a digit stands for.
DigitValue(c) == CHOOSE d \in 0..(Radix - 1) : DigitChar(d) = c

\* p has the values of the prefixes of the first n digits of s.
Sums(p, s, n) == p[0] = 0 /\ \A k \in 1..n : p[k] = Radix * p[k - 1] + DigitValue(s[k])

\* DigitValue is the inverse of DigitChar.
LEMMA DigitValueIs ==
    /\ \A d \in 0..(Radix - 1) : DigitValue(DigitChar(d)) = d
    /\ \A c \in DigitChars : DigitValue(c) \in 0..(Radix - 1)
  <1>1. ASSUME NEW d \in 0..(Radix - 1) PROVE DigitValue(DigitChar(d)) = d
    <2>1. /\ DigitValue(DigitChar(d)) \in 0..(Radix - 1)
          /\ DigitChar(DigitValue(DigitChar(d))) = DigitChar(d)
      BY DEF DigitValue
    <2> QED
      BY <2>1, DigitFacts
  <1> QED
    BY <1>1 DEF DigitChars

\* The prefixes of the digits of a number sum up to it.
LEMMA SumsToNumber ==
    ASSUME NEW v \in Nat, NEW p, Sums(p, itoa(v), Len(itoa(v)))
    PROVE  p[Len(itoa(v))] = v
  <1> DEFINE Good(u) == \A g : Sums(g, itoa(u), Len(itoa(u))) => g[Len(itoa(u))] = u
             T == {u \in Nat : ~Good(u)}
  <1>1. SUFFICES ASSUME T # {} PROVE FALSE
    OBVIOUS
  <1>2. PICK m \in T : \A y \in T : m <= y
    <2>1. T \in SUBSET Nat
      OBVIOUS
    <2> HIDE DEF T
    <2> QED
      BY <1>1, <2>1, LeastExists
  <1>3. m \in Nat /\ ~Good(m)
    OBVIOUS
  <1>4. PICK g : Sums(g, itoa(m), Len(itoa(m))) /\ g[Len(itoa(m))] # m
    BY <1>3
  <1>5. Radix \in Nat
    BY ConsoleAssumption
  <1>6. /\ DigitValue(LastDigit(m)) = Remainder(m) /\ Quotient(m) \in Nat
        /\ m = Radix * Quotient(m) + Remainder(m) /\ Remainder(m) \in Int
    BY <1>3, <1>5, DigitValueIs, Division DEF LastDigit
  <1>7. CASE ~(Quotient(m) > 0)
    <2>1. Len(itoa(m)) = 1 /\ itoa(m)[1] = LastDigit(m)
      BY <1>3, <1>7, ItoaStep
    <2>2. g[0] = 0 /\ g[1] = Radix * g[1 - 1] + DigitValue(itoa(m)[1])
      BY <1>4, <2>1 DEF Sums
    <2>3. g[1] = Radix * 0 + Remainder(m)
      BY <1>6, <2>1, <2>2
    <2>4. m = Remainder(m)
      BY <1>5, <1>6, <1>7
    <2> QED
      BY <1>4, <1>5, <1>6, <2>1, <2>3, <2>4
  <1>8. CASE Quotient(m) > 0
    <2> DEFINE q == Quotient(m)
               n == Len(itoa(q))
    <2>1. q \in Nat /\ q < m
      BY <1>3, <1>8, Division
    <2>2. /\ Len(itoa(m)) = n + 1 /\ itoa(m)[n + 1] = LastDigit(m) /\ n \in Nat
          /\ \A k \in 1..n : itoa(m)[k] = itoa(q)[k]
      <3>1. /\ Len(itoa(m)) = n + 1 /\ itoa(m)[Len(itoa(m))] = LastDigit(m)
            /\ \A k \in 1..n : itoa(m)[k] = itoa(q)[k]
        BY <1>3, <1>8, ItoaStep
      <3>2. itoa(q) \in Seq(DigitChars)
        BY <2>1, ItoaStep
      <3>3. n \in Nat
        BY <3>2
      <3> QED
        BY <3>1, <3>3
    <2>3. Good(q)
      BY <1>2, <1>3, <2>1
    <2> HIDE DEF q, n
    <2>4. Sums(g, itoa(q), n)
      BY <1>4, <2>2 DEF Sums
    <2>5. g[n] = q
      BY <2>3, <2>4 DEF n
    <2>6. g[n + 1] = Radix * g[(n + 1) - 1] + DigitValue(itoa(m)[n + 1])
      BY <1>4, <2>2 DEF Sums
    <2>7. g[n + 1] = Radix * q + Remainder(m)
      BY <1>6, <2>2, <2>5, <2>6
    <2> QED
      BY <1>4, <1>6, <2>2, <2>7 DEF q
  <1> QED
    BY <1>7, <1>8

\* The prefixes of a sequence of digits have values, as the reference
\* definition has it.
LEMMA ValueIs ==
    ASSUME NEW s \in Seq(DigitChars)
    PROVE  \E p : Sums(p, s, Len(s)) /\ ValueOf(s) = p[Len(s)]
  <1>0. Len(s) \in Nat /\ Radix \in Nat
    BY ConsoleAssumption
  <1> DEFINE Body(g) == [k \in 0..Len(s) |-> IF k = 0 THEN 0
                                             ELSE Radix * g[k - 1] + DigitValue(s[k])]
             p == CHOOSE g : g = Body(g)
             step == [k \in Nat |-> [x \in Nat |-> IF k \in 1..Len(s)
                                                   THEN Radix * x + DigitValue(s[k]) ELSE 0]]
  <1>1. \A k \in 1..Len(s) : DigitValue(s[k]) \in Nat
    BY <1>0, DigitValueIs
  <1>2. step \in [Nat -> [Nat -> Nat]]
    BY <1>0, <1>1
  <1>3. \A k \in 1..Len(s), x \in Nat : step[k][x] = Radix * x + DigitValue(s[k])
    BY <1>0
  <1> HIDE DEF step
  <1>4. PICK f \in [Nat -> Nat] : Iterates(f, 0, step)
    BY <1>2, Iteration
  <1> DEFINE g == [k \in 0..Len(s) |-> f[k]]
  <1>5. g = Body(g)
    <2>1. ASSUME NEW k \in 1..Len(s) PROVE f[k] = Radix * g[k - 1] + DigitValue(s[k])
      <3>1. k \in Nat \ {0} /\ k - 1 \in Nat /\ k - 1 \in 0..Len(s)
        BY <1>0, Before
      <3>2. g[k - 1] = f[k - 1]
        BY <3>1
      <3> HIDE DEF g
      <3>3. f[k] = step[k][f[k - 1]] /\ f[k - 1] \in Nat
        BY <1>4, <3>1 DEF Iterates
      <3> QED
        BY <1>3, <3>2, <3>3
    <2>2. \A k \in 0..Len(s) : k = 0 \/ k \in 1..Len(s)
      BY <1>0
    <2>3. \A k \in 0..Len(s) : f[k] = IF k = 0 THEN 0 ELSE Radix * g[k - 1] + DigitValue(s[k])
      BY <1>4, <2>1, <2>2 DEF Iterates
    <2>4. PICK h : h = g
      OBVIOUS
    <2>5. \A k \in 0..Len(s) : f[k] = IF k = 0 THEN 0 ELSE Radix * h[k - 1] + DigitValue(s[k])
      BY <2>3, <2>4
    <2>6. [k \in 0..Len(s) |-> f[k]] = Body(h)
      BY <2>5
    <2> QED
      BY <2>4, <2>6
  <1> HIDE DEF g
  <1>6. ValueOf(s) = p[Len(s)]
    BY DEF ValueOf, DigitValue
  <1> HIDE DEF Body
  <1>7. p = Body(p)
    BY <1>5
  <1> HIDE DEF p
  <1>8. Sums(p, s, Len(s))
    <2>1. p[0] = 0
      BY <1>0, <1>7 DEF Body
    <2>2. ASSUME NEW k \in 1..Len(s) PROVE p[k] = Radix * p[k - 1] + DigitValue(s[k])
      <3>1. k \in 0..Len(s) /\ k # 0
        BY <1>0
      <3>2. PICK h : h = p
        OBVIOUS
      <3>3. p[k] = Body(h)[k]
        BY <1>7, <3>2
      <3>4. Body(h)[k] = Radix * h[k - 1] + DigitValue(s[k])
        BY <3>1 DEF Body
      <3> QED
        BY <3>2, <3>3, <3>4
    <2> QED
      BY <2>1, <2>2 DEF Sums
  <1> QED
    BY <1>6, <1>8

\* The digits that itoa writes stand for the number.
LEMMA ItoaValue ==
    ASSUME NEW v \in Nat
    PROVE  ValueOf(itoa(v)) = v
  <1>1. PICK s : s = itoa(v)
    OBVIOUS
  <1>2. s \in Seq(DigitChars)
    BY <1>1, ItoaStep
  <1>3. PICK p : Sums(p, s, Len(s)) /\ ValueOf(s) = p[Len(s)]
    BY <1>2, ValueIs
  <1> QED
    BY <1>1, <1>3, SumsToNumber

\* The powers of the radix.
LEMMA PowerIs ==
    /\ Power[0] = 1
    /\ \A k \in Nat : Power[k] \in Nat
    /\ \A k \in Nat \ {0} : Power[k] = Radix * Power[k - 1]
  <1>0. Radix \in Nat
    BY ConsoleAssumption
  <1> DEFINE Body(g) == [k \in Nat |-> IF k = 0 THEN 1 ELSE Radix * g[k - 1]]
             step == [k \in Nat |-> [x \in Nat |-> Radix * x]]
  <1>1. step \in [Nat -> [Nat -> Nat]] /\ \A k, x \in Nat : step[k][x] = Radix * x
    BY <1>0
  <1> HIDE DEF step
  <1>2. PICK f \in [Nat -> Nat] : Iterates(f, 1, step)
    BY <1>1, Iteration
  <1>3. f = Body(f)
    <2>1. ASSUME NEW k \in Nat, k # 0 PROVE f[k] = Radix * f[k - 1]
      <3>1. k - 1 \in Nat /\ k \in Nat \ {0}
        BY <2>1
      <3>2. f[k] = step[k][f[k - 1]] /\ f[k - 1] \in Nat
        BY <1>2, <3>1 DEF Iterates
      <3> QED
        BY <1>1, <3>2
    <2>2. \A k \in Nat : f[k] = IF k = 0 THEN 1 ELSE Radix * f[k - 1]
      BY <1>2, <2>1 DEF Iterates
    <2> QED
      BY <2>2
  <1>4. Power = CHOOSE g : g = Body(g)
    BY DEF Power
  <1> HIDE DEF Body
  <1>5. PICK h : h = Power /\ h = Body(h)
    BY <1>3, <1>4
  <1>6. h[0] = 1 /\ \A k \in Nat \ {0} : h[k] = Radix * h[k - 1]
    BY <1>5 DEF Body
  <1>7. ASSUME NEW n \in Nat PROVE h[n] \in Nat
    <2> DEFINE T == {k \in Nat : h[k] \in Nat}
    <2>1. 0 \in T
      BY <1>6
    <2>2. ASSUME NEW k \in 1..n, k - 1 \in T PROVE k \in T
      <3>1. k \in Nat \ {0}
        OBVIOUS
      <3> QED
        BY <1>0, <1>6, <2>2, <3>1
    <2>3. \A k \in T : h[k] \in Nat
      OBVIOUS
    <2> HIDE DEF T
    <2>4. \A k \in 0..n : k \in T
      BY <2>1, <2>2, InductionTo
    <2> QED
      BY <2>3, <2>4
  <1> QED
    BY <1>5, <1>6, <1>7

\* A factor can be taken away from both sides.
LEMMA Cancel ==
    ASSUME NEW c \in Nat, NEW a \in Nat, NEW b \in Nat, c * a < c * b
    PROVE  a < b
  <1>1. SUFFICES ASSUME b <= a PROVE FALSE
    OBVIOUS
  <1>2. PICK d \in Nat : a = b + d
    <2>1. a - b \in Nat /\ a = b + (a - b)
      BY <1>1
    <2> QED
      BY <2>1
  <1>3. c * a = c * b + c * d /\ c * d \in Nat /\ c * b \in Nat
    BY <1>2
  <1> QED
    BY <1>3

\* A number has at least one digit.
LEMMA ItoaSome ==
    ASSUME NEW v \in Nat
    PROVE  Len(itoa(v)) \in Nat /\ Len(itoa(v)) >= 1
  <1>1. PICK q : q = Quotient(v)
    OBVIOUS
  <1>2. q \in Nat /\ itoa(v) \in Seq(DigitChars)
    BY <1>1, ItoaStep
  <1>3. itoa(q) \in Seq(DigitChars)
    BY <1>2, ItoaStep
  <1>4. Len(itoa(q)) \in Nat /\ Len(itoa(v)) \in Nat
    BY <1>2, <1>3
  <1>5. Len(itoa(v)) = 1 \/ Len(itoa(v)) = Len(itoa(q)) + 1
    BY <1>1, ItoaStep
  <1> QED
    BY <1>4, <1>5

\* A number below the k-th power of the radix has at most k digits: buff is
\* long enough.
LEMMA ItoaFits ==
    ASSUME NEW v \in Nat, NEW n \in Nat \ {0}, v < Power[n]
    PROVE  Len(itoa(v)) <= n
  <1> DEFINE Good(u) == \A k \in Nat \ {0} : u < Power[k] => Len(itoa(u)) <= k
             T == {u \in Nat : ~Good(u)}
  <1>1. SUFFICES ASSUME T # {} PROVE FALSE
    OBVIOUS
  <1>2. PICK m \in T : \A y \in T : m <= y
    <2>1. T \in SUBSET Nat
      OBVIOUS
    <2> HIDE DEF T
    <2> QED
      BY <1>1, <2>1, LeastExists
  <1>3. m \in Nat /\ ~Good(m)
    OBVIOUS
  <1>4. PICK k \in Nat \ {0} : m < Power[k] /\ ~(Len(itoa(m)) <= k)
    BY <1>3
  <1>5. Radix \in Nat /\ k - 1 \in Nat
    BY <1>4, ConsoleAssumption
  <1>6. PICK q, d, w : q = Quotient(m) /\ d = Remainder(m) /\ w = Power[k - 1]
    OBVIOUS
  <1>7. q \in Nat /\ d \in Nat /\ m = Radix * q + d
    BY <1>3, <1>5, <1>6, Division
  <1>8. w \in Nat /\ Power[k] = Radix * w /\ (k - 1 = 0 => w = 1)
    BY <1>4, <1>5, <1>6, PowerIs
  <1>9. q > 0
    <2>1. ~(q > 0) => Len(itoa(m)) = 1
      BY <1>3, <1>6, ItoaStep
    <2>2. 1 <= k
      BY <1>5
    <2> QED
      BY <1>4, <2>1, <2>2
  <1>10. Radix * q < Radix * w
    <2>1. Radix * q \in Nat /\ Radix * w \in Nat /\ Radix * q + d < Radix * w
      BY <1>4, <1>5, <1>7, <1>8
    <2> QED
      BY <1>7, <2>1
  <1>11. q < w
    BY <1>5, <1>7, <1>8, <1>10, Cancel
  <1>12. k - 1 \in Nat \ {0}
    BY <1>5, <1>7, <1>8, <1>9, <1>11
  <1>13. q < m
    BY <1>3, <1>6, <1>9, Division
  <1>14. Good(q)
    BY <1>2, <1>3, <1>7, <1>13
  <1>15. Len(itoa(q)) <= k - 1
    BY <1>6, <1>11, <1>12, <1>14
  <1>16. Len(itoa(m)) = Len(itoa(q)) + 1 /\ Len(itoa(q)) \in Nat
    BY <1>3, <1>6, <1>7, <1>9, ItoaStep, ItoaSome
  <1> QED
    BY <1>4, <1>15, <1>16

\* Only zero begins with a zero, and it has one digit.
LEMMA ItoaLeading ==
    ASSUME NEW v \in Nat, itoa(v)[1] = "0"
    PROVE  Len(itoa(v)) = 1
  <1> DEFINE T == {u \in Nat : u > 0 /\ itoa(u)[1] = "0"}
  <1>1. T = {}
    <2>1. SUFFICES ASSUME T # {} PROVE FALSE
      OBVIOUS
    <2>2. PICK m \in T : \A y \in T : m <= y
      <3>1. T \in SUBSET Nat
        OBVIOUS
      <3> HIDE DEF T
      <3> QED
        BY <2>1, <3>1, LeastExists
    <2>3. m \in Nat /\ m > 0 /\ itoa(m)[1] = "0"
      OBVIOUS
    <2>4. PICK q, d : q = Quotient(m) /\ d = Remainder(m)
      OBVIOUS
    <2>5. /\ q \in Nat /\ d \in 0..(Radix - 1) /\ m = Radix * q + d /\ Radix \in Nat
          /\ q > 0 => q < m
      BY <2>3, <2>4, Division, ConsoleAssumption
    <2>6. CASE ~(q > 0)
      <3>1. LastDigit(m) = "0"
        BY <2>3, <2>4, <2>6, ItoaStep
      <3>2. d = 0
        BY <2>4, <2>5, <3>1, DigitFacts DEF LastDigit
      <3>3. q = 0
        BY <2>5, <2>6
      <3> QED
        BY <2>3, <2>5, <3>2, <3>3
    <2>7. CASE q > 0
      <3>1. Len(itoa(q)) \in Nat /\ Len(itoa(q)) >= 1
        BY <2>5, ItoaSome
      <3>2. 1 \in 1..Len(itoa(q))
        BY <3>1
      <3>3. itoa(m)[1] = itoa(q)[1]
        BY <2>3, <2>4, <2>7, <3>2, ItoaStep
      <3> QED
        BY <2>2, <2>3, <2>5, <2>7, <3>3
    <2> QED
      BY <2>6, <2>7
  <1>2. v = 0
    BY <1>1
  <1>3. ~(Quotient(v) > 0)
    BY <1>2, Division
  <1> QED
    BY <1>3, ItoaStep

-----------------------------------------------------------------------------
(* The inductive invariant *)

\* The place in the line after a character.
Position(c, x) == IF c = "\n" THEN 0 ELSE x + (IF c = "\t" THEN Tab ELSE 1)

\* x has the place in the line after each character of m.
Places(x, m) ==
    /\ x \in [0..Len(m) -> 0..LineMax]
    /\ \A k \in 1..Len(m) : x[k] = Position(m[k], x[k - 1])

\* The rest of the message ends no line later than was found when it began;
\* a turned page only puts it further to the left.
LineKept == pc # "idle" => \E x : Places(x, message) /\ current_row <= x[at - 1]

\* What is written is a message, or the digits of the number.
MessageKept == message \in Seq(Chars) /\ (number >= 0 => message = itoa(number))

\* The text of the page is in the buffer, before the place where the next
\* character goes and in no later line.
PageKept ==
    \A k \in DOMAIN page :
        /\ k \in Cells /\ page[k] # NUL /\ page[k] = buffer[k]
        /\ pc # "key" => /\ k < current_column * rows + current_row
                         /\ k < (current_column + 1) * rows

\* The buffer has nothing left of earlier pages but behind a written cell.
PageClean ==
    /\ pc = "idle" => fresh = {}
    /\ turned => \A k \in Cells \ touched : buffer[k] = Blank \/ k - 1 \in touched

ConsoleInv ==
    TypeOK /\ LineKept /\ MessageKept /\ PageKept /\ PageClean /\ TextShown /\ NoGhosts

\* Characters of messages and of numbers are no zeros.
LEMMA MessageChars ==
    /\ \A m \in Messages : m \in Seq(Chars)
    /\ \A n \in Numbers : n \in Nat /\ itoa(n) \in Seq(Chars)
    /\ \A c \in Chars : c # NUL
  <1>1. ASSUME NEW n \in Numbers PROVE n \in Nat /\ itoa(n) \in Seq(DigitChars)
    <2>1. n \in 0..(Power[BuffSize - 1] - 1)
      BY ConsoleAssumption
    <2>2. n \in Nat
      BY <2>1
    <2> QED
      BY <2>2, ItoaStep
  <1>2. ASSUME NEW m \in Messages \cup {itoa(n) : n \in Numbers}, NEW k \in DOMAIN m
        PROVE  m[k] \in Chars
    BY DEF Chars
  <1>3. ASSUME NEW m \in Messages PROVE m \in Seq(Chars)
    <2>1. m \in Seq(STRING)
      BY ConsoleAssumption
    <2>2. \A k \in 1..Len(m) : m[k] \in Chars
      BY <1>2, <2>1
    <2> QED
      BY <2>1, <2>2
  <1>4. ASSUME NEW n \in Numbers PROVE itoa(n) \in Seq(Chars)
    <2>1. PICK s : s = itoa(n)
      OBVIOUS
    <2>2. s \in Seq(DigitChars) /\ s \in Messages \cup {itoa(i) : i \in Numbers}
      BY <1>1, <2>1
    <2>3. \A k \in 1..Len(s) : s[k] \in Chars
      BY <1>2, <2>2
    <2>4. s \in Seq(Chars)
      BY <2>2, <2>3
    <2> QED
      BY <2>1, <2>4
  <1>5. ASSUME NEW c \in Chars PROVE c # NUL
    <2>1. PICK m \in Messages \cup {itoa(n) : n \in Numbers} : \E k \in DOMAIN m : c = m[k]
      BY DEF Chars
    <2>2. PICK k \in DOMAIN m : c = m[k]
      BY <2>1
    <2>3. CASE m \in Messages
      BY <2>2, <2>3, ConsoleAssumption
    <2>4. CASE m \in {itoa(n) : n \in Numbers}
      <3>1. m \in Seq(DigitChars)
        BY <1>1, <2>4
      <3>2. m[k] \in DigitChars
        BY <2>2, <3>1
      <3> QED
        BY <2>2, <3>2, DigitFacts
    <2> QED
      BY <2>3, <2>4
  <1> QED
    BY <1>1, <1>3, <1>4, <1>5

\* What is left of the line after a character.
LEMMA PositionIs ==
    ASSUME NEW c, NEW x \in Nat
    PROVE  Position(c, x) \in Nat
  BY ConsoleAssumption DEF Position

\* A message that fits has its places.
LEMMA WidthIs ==
    ASSUME NEW m, Len(m) \in Nat, current_row \in Nat, \A w \in Width(m) : w <= LineMax
    PROVE  \E x : Places(x, m) /\ x[0] = current_row
  <1> DEFINE Body(g) == [k \in 0..Len(m) |-> IF k = 0 THEN current_row
                                             ELSE Position(m[k], g[k - 1])]
             p == CHOOSE g : g = Body(g)
             step == [k \in Nat |-> [x \in Nat |-> Position(m[k], x)]]
  <1>1. step \in [Nat -> [Nat -> Nat]] /\ \A k, x \in Nat : step[k][x] = Position(m[k], x)
    BY PositionIs
  <1> HIDE DEF step
  <1>2. PICK f \in [Nat -> Nat] : Iterates(f, current_row, step)
    BY <1>1, Iteration
  <1> DEFINE g == [k \in 0..Len(m) |-> f[k]]
  <1>3. g = Body(g)
    <2>1. ASSUME NEW k \in 1..Len(m) PROVE f[k] = Position(m[k], g[k - 1])
      <3>1. k \in Nat \ {0} /\ k - 1 \in Nat /\ k - 1 \in 0..Len(m)
        BY Before
      <3>2. g[k - 1] = f[k - 1]
        BY <3>1
      <3> HIDE DEF g
      <3>3. f[k] = step[k][f[k - 1]] /\ f[k - 1] \in Nat
        BY <1>2, <3>1 DEF Iterates
      <3> QED
        BY <1>1, <3>1, <3>2, <3>3
    <2>2. \A k \in 0..Len(m) : k = 0 \/ k \in 1..Len(m)
      OBVIOUS
    <2>3. PICK h : h = g
      OBVIOUS
    <2>4. \A k \in 0..Len(m) : f[k] = IF k = 0 THEN current_row ELSE Position(m[k], h[k - 1])
      BY <1>2, <2>1, <2>2, <2>3 DEF Iterates
    <2>5. [k \in 0..Len(m) |-> f[k]] = Body(h)
      BY <2>4
    <2> QED
      BY <2>3, <2>5
  <1> HIDE DEF g
  <1>4. Width(m) = {p[k] : k \in 0..Len(m)}
    BY DEF Width, Position
  <1> HIDE DEF Body
  <1>5. PICK h : h = p /\ h = Body(h)
    BY <1>3
  <1> HIDE DEF p
  <1>6. /\ h[0] = current_row /\ h = [k \in 0..Len(m) |-> h[k]]
        /\ \A k \in 1..Len(m) : h[k] = Position(m[k], h[k - 1])
    <2>1. \A k \in 1..Len(m) : k \in 0..Len(m) /\ k # 0
      OBVIOUS
    <2>2. PICK b : b = h
      OBVIOUS
    <2>3. h = [k \in 0..Len(m) |-> IF k = 0 THEN current_row ELSE Position(m[k], b[k - 1])]
      BY <1>5, <2>2 DEF Body
    <2>4. h[0] = current_row /\ h = [k \in 0..Len(m) |-> h[k]]
      BY <2>3
    <2>5. ASSUME NEW k \in 1..Len(m) PROVE h[k] = Position(m[k], b[k - 1])
      BY <2>1, <2>3
    <2> QED
      BY <2>2, <2>4, <2>5
  <1>7. \A k \in 0..Len(m) : h[k] \in Nat
    <2> DEFINE T == {k \in Nat : h[k] \in Nat}
    <2>1. 0 \in T
      BY <1>6
    <2>2. ASSUME NEW k \in 1..Len(m), k - 1 \in T PROVE k \in T
      <3>1. PICK c, x : c = m[k] /\ x = h[k - 1]
        OBVIOUS
      <3>2. x \in Nat /\ h[k] = Position(c, x)
        BY <1>6, <2>2, <3>1
      <3>3. h[k] \in Nat
        BY <3>2, PositionIs
      <3> QED
        BY <3>3
    <2>3. \A k \in T : h[k] \in Nat
      OBVIOUS
    <2> HIDE DEF T
    <2>4. PICK n : n = Len(m)
      OBVIOUS
    <2>5. \A k \in 0..n : k \in T
      BY <2>1, <2>2, <2>4, InductionTo
    <2> QED
      BY <2>3, <2>4, <2>5
  <1>8. \A k \in 0..Len(m) : h[k] <= LineMax
    BY <1>4, <1>5
  <1>9. ASSUME NEW k \in 0..Len(m) PROVE h[k] \in 0..LineMax
    <2>1. LineMax \in Nat
      BY ConsoleAssumption
    <2>2. PICK w : w = h[k]
      OBVIOUS
    <2>3. w \in Nat /\ w <= LineMax
      BY <1>7, <1>8, <2>2
    <2>4. w \in 0..LineMax
      BY <2>1, <2>3
    <2> QED
      BY <2>2, <2>4
  <1>10. h \in [0..Len(m) -> 0..LineMax]
    BY <1>6, <1>9
  <1> QED
    BY <1>6, <1>10 DEF Places

\* The cell of a place on the page is inside the buffer, with the attribute
\* behind it, and one inside the line is drawn.
LEMMA CellBounds ==
    ASSUME NEW c \in Nat, c < columns, NEW w \in Nat, w + 1 <= LineMax
    PROVE  /\ c * rows + w \in 0..(buffer_size - 1)
           /\ (c * rows + w) + 1 \in 0..(buffer_size - 1)
           /\ w < rows => c * rows + w \in Cells /\ c * rows + w < (c + 1) * rows
  <1>1. rows \in Nat /\ columns \in Nat /\ LineMax \in Nat /\ LineMax < rows * (columns + 1)
    BY ConsoleAssumption
  <1>2. PICK d \in Nat : columns = c + 1 + d
    <2>1. columns - (c + 1) \in Nat /\ columns = c + 1 + (columns - (c + 1))
      BY <1>1
    <2> QED
      BY <2>1
  <1>3. PICK p, e : p = c * rows /\ e = d * rows
    OBVIOUS
  <1>4. p \in Nat /\ e \in Nat
    BY <1>1, <1>2, <1>3
  <1>5. /\ rows * columns = p + rows + e /\ rows * (columns + 1) = p + rows + e + rows
        /\ rows * columns * 2 = (p + rows + e) * 2 /\ (c + 1) * rows = p + rows
    BY <1>1, <1>2, <1>3
  <1>6. p + w + 1 < (p + rows + e) * 2
    BY <1>1, <1>4, <1>5
  <1>7. w < rows => p + w < p + rows + e /\ p + w < p + rows
    BY <1>1, <1>4
  <1> QED
    BY <1>1, <1>3, <1>4, <1>5, <1>6, <1>7 DEF buffer_size, Cells

-----------------------------------------------------------------------------
(* The invariant is kept *)

\* It holds when nothing was written.
LEMMA InitInv == Init => ConsoleInv
  <1> SUFFICES ASSUME Init PROVE ConsoleInv
    OBVIOUS
  <1>1. PICK al \in {NUL, "junk"} : buffer = [k \in 0..(buffer_size - 1) |-> al]
    BY DEF Init
  <1>2. buffer \in [0..(buffer_size - 1) -> Chars \cup {NUL, Blank, "junk"}]
    BY <1>1
  <1>3. TypeOK
    BY <1>2, ConsoleAssumption DEF Init, TypeOK
  <1>4. DOMAIN page = {}
    BY DEF Init
  <1>5. LineKept /\ MessageKept /\ PageKept /\ PageClean /\ TextShown /\ NoGhosts
    BY <1>4 DEF Init, LineKept, MessageKept, PageKept, PageClean, TextShown, NoGhosts
  <1> QED
    BY <1>3, <1>5 DEF ConsoleInv

\* A message is begun that fits the line.
LEMMA BeginInv ==
    ASSUME ConsoleInv, NEW m \in Seq(Chars), Begin(m),
           number' \in Numbers \cup {-1}, number' >= 0 => m = itoa(number')
    PROVE  ConsoleInv'
  <1>1. /\ pc = "idle" /\ pc' = "write" /\ message' = m /\ at' = 1 /\ fresh' = {} /\ fresh = {}
        /\ UNCHANGED <<current_row, current_column, buffer, screen, page, touched, turned>>
    BY DEF Begin, cursor, ConsoleInv, PageClean
  <1>2. Len(m) \in Nat /\ current_row \in Nat
    BY ConsoleAssumption DEF ConsoleInv, TypeOK
  <1>3. TypeOK'
    <2>1. at' \in 1..(Len(message') + 1)
      BY <1>1, <1>2
    <2> QED
      BY <1>1, <2>1 DEF ConsoleInv, TypeOK
  <1>4. LineKept'
    <2>1. PICK x : Places(x, m) /\ x[0] = current_row
      BY <1>2, WidthIs DEF Begin
    <2>2. Places(x, message') /\ current_row' <= x[at' - 1]
      BY <1>1, <1>2, <2>1
    <2> QED
      BY <2>2 DEF LineKept
  <1>5. MessageKept'
    BY <1>1 DEF MessageKept
  <1>6. PageKept'
    BY <1>1 DEF ConsoleInv, PageKept
  <1>7. PageClean' /\ TextShown' /\ NoGhosts'
    BY <1>1 DEF ConsoleInv, PageClean, TextShown, NoGhosts
  <1> QED
    BY <1>3, <1>4, <1>5, <1>6, <1>7 DEF ConsoleInv

\* log begins a message, and efi_console_hex the digits of a number.
LEMMA StartInv ==
    ASSUME ConsoleInv, (\E m \in Messages : Log(m)) \/ (\E n \in Numbers : efi_console_hex(n))
    PROVE  ConsoleInv'
  <1>1. CASE \E m \in Messages : Log(m)
    <2>1. PICK m \in Messages : Begin(m) /\ number' = -1
      BY <1>1 DEF Log
    <2>2. m \in Seq(Chars) /\ ~(number' >= 0) /\ number' \in Numbers \cup {-1}
      BY <2>1, MessageChars
    <2> QED
      BY <2>1, <2>2, BeginInv
  <1>2. CASE \E n \in Numbers : efi_console_hex(n)
    <2>1. PICK n \in Numbers : Begin(itoa(n)) /\ number' = n
      BY <1>2 DEF efi_console_hex
    <2>2. PICK m : m = itoa(n)
      OBVIOUS
    <2>3. m \in Seq(Chars) /\ Begin(m) /\ number' \in Numbers \cup {-1} /\ m = itoa(number')
      BY <2>1, <2>2, MessageChars
    <2> QED
      BY <2>3, BeginInv
  <1> QED
    BY <1>1, <1>2

\* A page is full.
LEMMA EndOfPageInv ==
    ASSUME ConsoleInv, EndOfPage
    PROVE  ConsoleInv'
  <1>1. /\ pc = "write" /\ pc' = "key" /\ current_row' = 0 /\ current_column' = 0
        /\ UNCHANGED <<message, at, buffer, screen, number, page, touched, fresh, turned>>
    BY DEF EndOfPage, PageFull, ghosts
  <1>2. TypeOK'
    BY <1>1, ConsoleAssumption DEF ConsoleInv, TypeOK
  <1>3. LineKept'
    <2>1. PICK x : Places(x, message) /\ current_row <= x[at - 1]
      BY <1>1 DEF ConsoleInv, LineKept
    <2>2. 0 <= current_row /\ x[at - 1] \in Int /\ current_row \in Int
      <3>1. at - 1 \in 0..Len(message) /\ current_row \in 0..LineMax
        BY DEF ConsoleInv, TypeOK
      <3>2. x[at - 1] \in 0..LineMax
        BY <2>1, <3>1 DEF Places
      <3> QED
        BY <3>1, <3>2, ConsoleAssumption
    <2>3. current_row' <= x[at - 1]
      BY <1>1, <2>1, <2>2
    <2>4. Places(x, message') /\ current_row' <= x[at' - 1]
      BY <1>1, <2>1, <2>3
    <2> QED
      BY <2>4 DEF LineKept
  <1>4. MessageKept' /\ PageKept'
    BY <1>1 DEF ConsoleInv, MessageKept, PageKept
  <1>5. PageClean' /\ TextShown' /\ NoGhosts'
    BY <1>1 DEF ConsoleInv, PageClean, TextShown, NoGhosts
  <1> QED
    BY <1>2, <1>3, <1>4, <1>5 DEF ConsoleInv

\* A key is pressed and the page is cleared.
LEMMA KeyInv ==
    ASSUME ConsoleInv, efi_input_wait_for_key
    PROVE  ConsoleInv'
  <1>1. /\ pc = "key" /\ pc' = "write" /\ DOMAIN page' = {}
        /\ touched' = {} /\ fresh' = {} /\ turned' = TRUE
        /\ UNCHANGED <<message, at, current_row, current_column, screen, number>>
    BY DEF efi_input_wait_for_key, cursor
  <1>2. buffer \in [0..(buffer_size - 1) -> Chars \cup {NUL, Blank, "junk"}]
    BY DEF ConsoleInv, TypeOK
  <1>3. buffer' = [k \in 0..(buffer_size - 1) |->
                      IF k \in Cells THEN Blank
                      ELSE IF k = rows * columns THEN NUL ELSE buffer[k]]
    BY <1>2 DEF efi_input_wait_for_key, efi_console_fill
  <1>4. buffer' \in [0..(buffer_size - 1) -> Chars \cup {NUL, Blank, "junk"}]
    BY <1>2, <1>3
  <1>5. \A k \in Cells : buffer'[k] = Blank
    <2>1. \A k \in Cells : k \in 0..(buffer_size - 1)
      BY ConsoleAssumption DEF Cells, buffer_size
    <2> QED
      BY <1>3, <2>1
  <1>6. TypeOK'
    BY <1>1, <1>4 DEF ConsoleInv, TypeOK
  <1>7. LineKept' /\ MessageKept'
    BY <1>1 DEF ConsoleInv, LineKept, MessageKept
  <1>8. PageKept' /\ PageClean' /\ TextShown' /\ NoGhosts'
    BY <1>1, <1>5 DEF PageKept, PageClean, TextShown, NoGhosts
  <1> QED
    BY <1>6, <1>7, <1>8 DEF ConsoleInv

\* There is room for the next character in its line.
LEMMA Room ==
    ASSUME ConsoleInv, Next_char
    PROVE  /\ at \in 1..Len(message) /\ Len(message) \in Nat /\ message[at] \in Chars
           /\ current_row \in Nat /\ current_column \in Nat /\ current_column < columns
           /\ \E x : /\ Places(x, message) /\ current_row <= x[at - 1]
                     /\ x[at - 1] \in 0..LineMax /\ x[at] \in 0..LineMax
                     /\ x[at] = Position(message[at], x[at - 1])
  <1>1. message \in Seq(Chars) /\ at \in 1..(Len(message) + 1) /\ at <= Len(message)
    BY DEF ConsoleInv, MessageKept, TypeOK, Next_char
  <1>2. at \in 1..Len(message) /\ Len(message) \in Nat /\ message[at] \in Chars
    BY <1>1
  <1>3. current_row \in Nat /\ current_column \in Nat /\ current_column < columns
    BY ConsoleAssumption DEF ConsoleInv, TypeOK, Next_char
  <1>4. PICK x : Places(x, message) /\ current_row <= x[at - 1]
    BY DEF ConsoleInv, LineKept, Next_char
  <1>5. at - 1 \in 0..Len(message) /\ at \in 0..Len(message)
    BY <1>2
  <1>6. /\ x[at - 1] \in 0..LineMax /\ x[at] \in 0..LineMax
        /\ x[at] = Position(message[at], x[at - 1])
    BY <1>2, <1>4, <1>5 DEF Places
  <1> QED
    BY <1>2, <1>3, <1>4, <1>6

\* A line more is a whole line of cells more.
LEMMA NextLine ==
    ASSUME NEW c \in Nat
    PROVE  /\ (c + 1) * rows \in Nat /\ c * rows \in Nat
           /\ (c + 1) * rows = c * rows + rows
           /\ ((c + 1) + 1) * rows = (c + 1) * rows + rows
  BY ConsoleAssumption

\* A line ends.
LEMMA NewLineInv ==
    ASSUME ConsoleInv, NewLine
    PROVE  ConsoleInv'
  <1>1. /\ pc' = pc /\ pc = "write" /\ current_row' = 0
        /\ current_column' = current_column + 1 /\ at' = at + 1
        /\ UNCHANGED <<message, buffer, screen, number, page, touched, fresh, turned>>
    BY DEF NewLine, Next_char, ghosts
  <1>2. Next_char
    BY DEF NewLine
  <1>3. /\ at \in 1..Len(message) /\ Len(message) \in Nat
        /\ current_row \in Nat /\ current_column \in Nat /\ current_column < columns
    BY <1>2, Room
  <1>4. PICK x : Places(x, message) /\ x[at] \in 0..LineMax
    BY <1>2, Room
  <1>5. at' \in 1..(Len(message') + 1) /\ at' - 1 = at
    BY <1>1, <1>3
  <1>6. TypeOK'
    <2>1. current_row' \in 0..LineMax /\ current_column' \in Nat
      BY <1>1, <1>3, ConsoleAssumption
    <2> QED
      BY <1>1, <1>5, <2>1 DEF ConsoleInv, TypeOK
  <1>7. LineKept'
    <2>1. current_row' <= x[at]
      BY <1>1, <1>4, ConsoleAssumption
    <2>2. Places(x, message') /\ current_row' <= x[at' - 1]
      BY <1>1, <1>4, <1>5, <2>1
    <2> QED
      BY <2>2 DEF LineKept
  <1>8. MessageKept'
    BY <1>1 DEF ConsoleInv, MessageKept
  <1>9. PageKept'
    <2>1. ASSUME NEW k \in DOMAIN page
          PROVE  /\ k < current_column' * rows + current_row'
                 /\ k < (current_column' + 1) * rows
      <3>1. k \in Int /\ k < (current_column + 1) * rows
        BY <1>1 DEF ConsoleInv, PageKept, Cells
      <3>2. rows \in Nat /\ (current_column + 1) * rows \in Nat
            /\ ((current_column + 1) + 1) * rows = (current_column + 1) * rows + rows
        BY <1>3, NextLine, ConsoleAssumption
      <3>3. PICK z, zz : /\ z = (current_column + 1) * rows
                         /\ zz = ((current_column + 1) + 1) * rows
        OBVIOUS
      <3>4. k < z + 0 /\ k < zz
        BY <3>1, <3>2, <3>3
      <3> QED
        BY <1>1, <3>3, <3>4
    <2> QED
      BY <1>1, <2>1 DEF ConsoleInv, PageKept
  <1>10. PageClean' /\ TextShown' /\ NoGhosts'
    BY <1>1 DEF ConsoleInv, PageClean, TextShown, NoGhosts
  <1> QED
    BY <1>6, <1>7, <1>8, <1>9, <1>10 DEF ConsoleInv

\* A tabulator moves on in the line.
LEMMA TabulateInv ==
    ASSUME ConsoleInv, Tabulate
    PROVE  ConsoleInv'
  <1>1. /\ pc' = pc /\ pc = "write" /\ current_row' = current_row + Tab /\ at' = at + 1
        /\ message[at] = "\t"
        /\ UNCHANGED <<message, current_column, buffer, screen, number, page, touched, fresh,
                       turned>>
    BY DEF Tabulate, Next_char, ghosts
  <1>2. Next_char
    BY DEF Tabulate
  <1>3. /\ at \in 1..Len(message) /\ Len(message) \in Nat
        /\ current_row \in Nat /\ current_column \in Nat /\ current_column < columns
    BY <1>2, Room
  <1>4. PICK x : /\ Places(x, message) /\ current_row <= x[at - 1]
                 /\ x[at - 1] \in 0..LineMax /\ x[at] \in 0..LineMax
                 /\ x[at] = Position(message[at], x[at - 1])
    BY <1>2, Room
  <1>5. at' \in 1..(Len(message') + 1) /\ at' - 1 = at
    BY <1>1, <1>3
  <1>6. x[at] = x[at - 1] + Tab
    BY <1>1, <1>4 DEF Position
  <1>7. current_row' <= x[at] /\ current_row' \in 0..LineMax
    BY <1>1, <1>3, <1>4, <1>6, ConsoleAssumption
  <1>8. TypeOK'
    BY <1>1, <1>5, <1>7 DEF ConsoleInv, TypeOK
  <1>9. LineKept'
    <2>1. Places(x, message') /\ current_row' <= x[at' - 1]
      BY <1>1, <1>4, <1>5, <1>7
    <2> QED
      BY <2>1 DEF LineKept
  <1>10. MessageKept'
    BY <1>1 DEF ConsoleInv, MessageKept
  <1>11. PageKept'
    <2>1. ASSUME NEW k \in DOMAIN page
          PROVE  k < current_column * rows + current_row'
      <3>1. k \in Int /\ k < current_column * rows + current_row
        BY <1>1 DEF ConsoleInv, PageKept, Cells
      <3>2. PICK z : z = current_column * rows
        OBVIOUS
      <3>3. z \in Nat /\ Tab \in Nat
        BY <1>3, <3>2, NextLine, ConsoleAssumption
      <3>4. k < z + (current_row + Tab)
        BY <1>3, <3>1, <3>2, <3>3
      <3> QED
        BY <1>1, <3>2, <3>4
    <2> QED
      BY <1>1, <2>1 DEF ConsoleInv, PageKept
  <1>12. PageClean' /\ TextShown' /\ NoGhosts'
    BY <1>1 DEF ConsoleInv, PageClean, TextShown, NoGhosts
  <1> QED
    BY <1>8, <1>9, <1>10, <1>11, <1>12 DEF ConsoleInv

\* The buffer is drawn when a message ends.
LEMMA DrawInv ==
    ASSUME ConsoleInv, efi_console_draw
    PROVE  ConsoleInv'
  <1>1. /\ pc = "write" /\ pc' = "idle" /\ message' = << >> /\ at' = 1 /\ fresh' = {}
        /\ number' = -1
        /\ UNCHANGED <<current_row, current_column, buffer, page, touched, turned>>
    BY DEF efi_console_draw, cursor
  <1>2. whoami = 0 =>
            /\ \A k \in Cells : buffer[k] # NUL => screen'[k] = buffer[k]
    BY DEF efi_console_draw, efi_gfx_char
  <1>3. TypeOK' /\ LineKept' /\ MessageKept'
    BY <1>1 DEF ConsoleInv, TypeOK, LineKept, MessageKept
  <1>4. PageKept'
    BY <1>1 DEF ConsoleInv, PageKept
  <1>5. PageClean'
    BY <1>1 DEF ConsoleInv, PageClean
  <1>6. TextShown'
    <2>1. ASSUME whoami = 0, NEW k \in DOMAIN page PROVE screen'[k] = page[k]
      <3>1. k \in Cells /\ page[k] # NUL /\ page[k] = buffer[k]
        BY DEF ConsoleInv, PageKept
      <3> QED
        BY <1>2, <2>1, <3>1
    <2> QED
      BY <1>1, <2>1 DEF TextShown
  <1>7. NoGhosts'
    <2>1. Blank # NUL
      BY DEF Blank, NUL
    <2> QED
      BY <1>1, <1>2, <2>1 DEF ConsoleInv, PageClean, NoGhosts
  <1> QED
    BY <1>3, <1>4, <1>5, <1>6, <1>7 DEF ConsoleInv

\* A character is stored in its cell, and an attribute behind it.
LEMMA PutCharInv ==
    ASSUME ConsoleInv, PutChar
    PROVE  ConsoleInv'
  <1> DEFINE idx == current_column * rows + current_row
             c == message[at]
  <1>1. /\ pc' = pc /\ pc = "write" /\ current_row' = current_row + 1 /\ at' = at + 1
        /\ c \notin {"\n", "\t"}
        /\ touched' = touched \cup {idx} /\ fresh' = fresh \cup {idx}
        /\ UNCHANGED <<message, current_column, screen, number, turned>>
    BY DEF PutChar, Next_char
  <1>2. page' = IF current_row >= rows THEN page
                ELSE [k \in DOMAIN page \cup {idx} |-> IF k = idx THEN c ELSE page[k]]
    BY DEF PutChar
  <1>3. buffer' = [k \in DOMAIN buffer \cup {idx, idx + 1} |->
                      CASE k = idx -> c [] k = idx + 1 -> NUL [] OTHER -> buffer[k]]
    BY DEF PutChar, efi_console_setcell, Store
  <1>4. Next_char
    BY DEF PutChar
  <1>5. /\ at \in 1..Len(message) /\ Len(message) \in Nat /\ c \in Chars
        /\ current_row \in Nat /\ current_column \in Nat /\ current_column < columns
    BY <1>4, Room
  <1>6. PICK x : /\ Places(x, message) /\ current_row <= x[at - 1]
                 /\ x[at - 1] \in 0..LineMax /\ x[at] \in 0..LineMax
                 /\ x[at] = Position(message[at], x[at - 1])
    BY <1>4, Room
  <1>7. at' \in 1..(Len(message') + 1) /\ at' - 1 = at
    BY <1>1, <1>5
  <1>8. x[at] = x[at - 1] + 1
    BY <1>1, <1>6 DEF Position
  <1>9. current_row + 1 <= x[at] /\ current_row + 1 <= LineMax
    BY <1>5, <1>6, <1>8, ConsoleAssumption
  <1>10. /\ idx \in 0..(buffer_size - 1) /\ idx + 1 \in 0..(buffer_size - 1)
         /\ current_row < rows => idx \in Cells /\ idx < (current_column + 1) * rows
    BY <1>5, <1>9, CellBounds
  <1>11. current_column * rows \in Nat
    BY <1>5, NextLine
  <1>12. idx \in Nat /\ current_column * rows + current_row' = idx + 1
    BY <1>1, <1>5, <1>11
  <1> HIDE DEF idx, c
  <1>13. buffer \in [0..(buffer_size - 1) -> Chars \cup {NUL, Blank, "junk"}]
    BY DEF ConsoleInv, TypeOK
  <1>14. /\ buffer' \in [0..(buffer_size - 1) -> Chars \cup {NUL, Blank, "junk"}]
         /\ buffer'[idx] = c
         /\ \A k \in 0..(buffer_size - 1) : k # idx /\ k # idx + 1 => buffer'[k] = buffer[k]
    <2>1. DOMAIN buffer \cup {idx, idx + 1} = 0..(buffer_size - 1)
      BY <1>10, <1>13
    <2>2. buffer' = [k \in 0..(buffer_size - 1) |->
                        CASE k = idx -> c [] k = idx + 1 -> NUL [] OTHER -> buffer[k]]
      BY <1>3, <2>1
    <2>3. idx # idx + 1
      BY <1>12
    <2> QED
      BY <1>5, <1>10, <1>13, <2>2, <2>3
  <1>15. TypeOK'
    <2>1. current_row' \in 0..LineMax
      BY <1>1, <1>5, <1>9, ConsoleAssumption
    <2> QED
      BY <1>1, <1>7, <1>14, <2>1 DEF ConsoleInv, TypeOK
  <1>16. LineKept'
    <2>1. Places(x, message') /\ current_row' <= x[at' - 1]
      BY <1>1, <1>6, <1>7, <1>9
    <2> QED
      BY <2>1 DEF LineKept
  <1>17. MessageKept'
    BY <1>1 DEF ConsoleInv, MessageKept
  <1>18. ASSUME NEW k \in DOMAIN page
         PROVE  /\ k \in Cells /\ k \in Int /\ k < idx /\ k < (current_column + 1) * rows
                /\ page[k] # NUL /\ page[k] = buffer[k] /\ buffer'[k] = buffer[k]
    <2>1. /\ k \in Cells /\ k < idx /\ k < (current_column + 1) * rows
          /\ page[k] # NUL /\ page[k] = buffer[k]
      BY <1>1 DEF ConsoleInv, PageKept, idx
    <2>2. k \in Int /\ k \in 0..(buffer_size - 1)
      BY <2>1, ConsoleAssumption DEF Cells, buffer_size
    <2>3. k # idx /\ k # idx + 1
      BY <1>12, <2>1, <2>2
    <2> QED
      BY <1>14, <2>1, <2>2, <2>3
  <1>19. /\ \A k \in DOMAIN page' : k \in DOMAIN page \/ (k = idx /\ current_row < rows /\ page'[k] = c)
         /\ \A k \in DOMAIN page : page'[k] = page[k]
    <2>1. \A k \in DOMAIN page : k # idx
      BY <1>12, <1>18
    <2>2. current_row >= rows \/ current_row < rows
      BY <1>5, ConsoleAssumption
    <2>3. CASE current_row >= rows
      BY <1>2, <2>3
    <2>4. CASE ~(current_row >= rows)
      <3>1. page' = [k \in DOMAIN page \cup {idx} |-> IF k = idx THEN c ELSE page[k]]
        BY <1>2, <2>4
      <3> QED
        BY <2>1, <2>2, <2>4, <3>1
    <2> QED
      BY <2>3, <2>4
  <1>20. PageKept'
    <2>1. c # NUL
      BY <1>5, MessageChars
    <2>2. ASSUME NEW k \in DOMAIN page'
          PROVE  /\ k \in Cells /\ page'[k] # NUL /\ page'[k] = buffer'[k]
                 /\ k < idx + 1 /\ k < (current_column + 1) * rows
      <3>1. CASE k \in DOMAIN page
        <4>1. k < idx + 1
          BY <1>12, <1>18, <3>1
        <4> QED
          BY <1>18, <1>19, <3>1, <4>1
      <3>2. CASE k = idx /\ current_row < rows /\ page'[k] = c
        <4>1. k < idx + 1
          BY <1>12, <3>2
        <4> QED
          BY <1>10, <1>14, <2>1, <3>2, <4>1
      <3> QED
        BY <1>19, <3>1, <3>2
    <2> QED
      BY <1>1, <1>12, <2>2 DEF PageKept
  <1>21. PageClean'
    <2>1. ASSUME turned, NEW k \in Cells, k \notin touched, k # idx
          PROVE  buffer'[k] = Blank \/ k - 1 \in touched \/ k - 1 = idx
      <3>1. buffer[k] = Blank \/ k - 1 \in touched
        BY <2>1 DEF ConsoleInv, PageClean
      <3>2. k \in Int /\ k \in 0..(buffer_size - 1)
        BY ConsoleAssumption DEF Cells, buffer_size
      <3>3. k = idx + 1 => k - 1 = idx
        BY <1>12, <3>2
      <3>4. k # idx + 1 => buffer'[k] = buffer[k]
        BY <1>14, <2>1, <3>2
      <3> QED
        BY <3>1, <3>3, <3>4
    <2> QED
      BY <1>1, <2>1 DEF PageClean
  <1>22. TextShown'
    <2>1. ASSUME whoami = 0, NEW k \in DOMAIN page' \ fresh'
          PROVE  screen'[k] = page'[k]
      <3>1. k \in DOMAIN page /\ k \notin fresh
        BY <1>1, <1>19
      <3> QED
        BY <1>1, <1>19, <2>1, <3>1 DEF ConsoleInv, TextShown
    <2> QED
      BY <2>1 DEF TextShown
  <1>23. NoGhosts'
    BY <1>1 DEF NoGhosts
  <1> QED
    BY <1>15, <1>16, <1>17, <1>20, <1>21, <1>22, <1>23 DEF ConsoleInv

\* Every step keeps the invariant.
LEMMA NextInv == ConsoleInv /\ [Next]_vars => ConsoleInv'
  <1> SUFFICES ASSUME ConsoleInv, [Next]_vars PROVE ConsoleInv'
    OBVIOUS
  <1>1. CASE Next
    <2>1. CASE (\E m \in Messages : Log(m)) \/ (\E n \in Numbers : efi_console_hex(n))
      BY <2>1, StartInv
    <2>2. CASE EndOfPage
      BY <2>2, EndOfPageInv
    <2>3. CASE efi_input_wait_for_key
      BY <2>3, KeyInv
    <2>4. CASE NewLine
      BY <2>4, NewLineInv
    <2>5. CASE Tabulate
      BY <2>5, TabulateInv
    <2>6. CASE PutChar
      BY <2>6, PutCharInv
    <2>7. CASE efi_console_draw
      BY <2>7, DrawInv
    <2> QED
      BY <1>1, <2>1, <2>2, <2>3, <2>4, <2>5, <2>6, <2>7 DEF Next, efi_console_write
  <1>2. CASE UNCHANGED vars
    <2>1. UNCHANGED <<pc, message, at, current_row, current_column, buffer, screen, number,
                      page, touched, fresh, turned>>
      BY <1>2 DEF vars, cursor, ghosts
    <2>2. TypeOK' /\ LineKept' /\ MessageKept'
      BY <2>1 DEF ConsoleInv, TypeOK, LineKept, MessageKept
    <2>3. PageKept' /\ PageClean' /\ TextShown' /\ NoGhosts'
      BY <2>1 DEF ConsoleInv, PageKept, PageClean, TextShown, NoGhosts
    <2> QED
      BY <2>2, <2>3 DEF ConsoleInv
  <1> QED
    BY <1>1, <1>2

-----------------------------------------------------------------------------
(* Theorems *)

\* The inductive invariant holds in every reachable state, with no use of the
\* fairness of Spec.
THEOREM ConsoleInvariant == Spec => []ConsoleInv
  <1>1. Init => ConsoleInv
    BY InitInv
  <1>2. ConsoleInv /\ [Next]_vars => ConsoleInv'
    BY NextInv
  <1> QED
    BY <1>1, <1>2, PTL DEF Spec

\* efi_console_setcell and efi_console_fill stay inside the buffer, although
\* the position in a line is not compared with the length of the line, as long
\* as a line of output has fewer than rows * (columns + 1) cells.
THEOREM WritesStayInBuffer == Spec => []TypeOK
  <1>1. ConsoleInv => TypeOK
    BY DEF ConsoleInv
  <1> QED
    BY <1>1, ConsoleInvariant, PTL

\* The text that efi_console_write has put on the page is on the screen, but
\* for that of the message in progress: also when a page is turned within it.
THEOREM TextAlwaysShown == Spec => []TextShown
  <1>1. ConsoleInv => TextShown
    BY DEF ConsoleInv
  <1> QED
    BY <1>1, ConsoleInvariant, PTL

\* A turned page shows nothing of earlier pages but, at most, in the cell
\* behind a written one, whose blank is overwritten by an attribute.
THEOREM NoGhostsEver == Spec => []NoGhosts
  <1>1. ConsoleInv => NoGhosts
    BY DEF ConsoleInv
  <1> QED
    BY <1>1, ConsoleInvariant, PTL

\* For every number and radix, efi_console_hex writes the digits of the number,
\* they fit into buff with their zero, and none of them is a leading zero.
THEOREM DigitsAlwaysRight == Spec => []HexDigits
  <1>1. ConsoleInv => HexDigits
    <2> SUFFICES ASSUME ConsoleInv, number >= 0 PROVE HexDigits
      BY DEF HexDigits
    <2>1. number \in Numbers /\ message = itoa(number)
      BY DEF ConsoleInv, TypeOK, MessageKept
    <2>2. PICK n : n = number
      OBVIOUS
    <2>3. n \in Nat /\ n \in 0..(Power[BuffSize - 1] - 1)
      BY <2>1, <2>2, ConsoleAssumption, MessageChars
    <2>4. ValueOf(itoa(n)) = n
      BY <2>3, ItoaValue
    <2>5. Len(itoa(n)) + 1 <= BuffSize
      <3>1. PICK b : b = BuffSize - 1
        OBVIOUS
      <3>2. b \in Nat \ {0} /\ BuffSize = b + 1
        BY <3>1, ConsoleAssumption
      <3>3. Power[b] \in Nat /\ n < Power[b]
        BY <2>3, <3>1, <3>2, PowerIs
      <3>4. Len(itoa(n)) <= b /\ Len(itoa(n)) \in Nat
        BY <2>3, <3>2, <3>3, ItoaFits, ItoaSome
      <3> QED
        BY <3>2, <3>4
    <2>6. itoa(n)[1] = "0" => Len(itoa(n)) = 1
      BY <2>3, ItoaLeading
    <2> QED
      BY <2>1, <2>2, <2>4, <2>5, <2>6 DEF HexDigits
  <1> QED
    BY <1>1, ConsoleInvariant, PTL
=============================================================================
