------------------------------ MODULE WireProofs -----------------------------
(***************************************************************************)
(* What is written into a message is read from it: for all bases, widths   *)
(* and limits, every message of every layout comes out of ExplainMsg as it *)
(* went into operator<<, decrypt undoes encrypt, and GetDataFromBuf finds  *)
(* the first frame of what has arrived.  The definitions are recursive     *)
(* functions; that such a function exists, and what holds of all its       *)
(* values, follows from Induction, which needs no operator as a parameter: *)
(* sets take the place of predicates.                                      *)
(***************************************************************************)
EXTENDS Wire, SequenceTheorems, FiniteSetTheorems, WellFoundedInduction, TLAPS

-----------------------------------------------------------------------------
(* Recursion, and the powers of the base.                                  *)

(* What holds of 0, and of n + 1 if of n, holds of every number. *)
LEMMA Induction ==
  ASSUME NEW A, 0 \in A, \A n \in Nat : n \in A => n + 1 \in A
  PROVE  Nat \subseteq A
<1> SUFFICES ASSUME Nat \ A # {} PROVE FALSE
  OBVIOUS
<1>1. PICK x \in Nat \ A : \A y \in Nat \ A : <<y, x>> \notin OpToRel(<, Nat)
  BY NatLessThanWellFounded, WFMin
<1>2. \A y \in Nat \ A : ~(y < x)
  BY <1>1 DEF OpToRel
<1>3. x # 0 /\ x - 1 \in Nat /\ x - 1 < x /\ (x - 1) + 1 = x
  OBVIOUS
<1> QED
  BY <1>2, <1>3

(* f begins with b, and g[i] takes its value before i to that of i. *)
Recursion(f, N, b, g) ==
  f = [i \in 0..N |-> IF i = 0 THEN b ELSE g[i][f[i - 1]]]

(* A function defined by recursion over 0..N exists. *)
LEMMA RecursionExists ==
  ASSUME NEW T, NEW b \in T, NEW N \in Nat, NEW g \in [1..N -> [T -> T]]
  PROVE  \E f \in [0..N -> T] : Recursion(f, N, b, g)
<1> DEFINE Good == {n \in Nat : n <= N => \E f \in [0..n -> T] : Recursion(f, n, b, g)}
<1>1. 0 \in Good
  <2> DEFINE f == [i \in 0..0 |-> b]
  <2>1. f \in [0..0 -> T] /\ f = [i \in 0..0 |-> IF i = 0 THEN b ELSE g[i][f[i - 1]]]
    OBVIOUS
  <2> QED
    BY <2>1, Zenon DEF Recursion
<1>2. ASSUME NEW n \in Nat, n \in Good PROVE n + 1 \in Good
  <2> SUFFICES ASSUME n + 1 <= N PROVE \E f \in [0..(n + 1) -> T] : Recursion(f, n + 1, b, g)
    OBVIOUS
  <2>1. PICK h \in [0..n -> T] : Recursion(h, n, b, g)
    BY <1>2
  <2>2. n + 1 \in 1..N /\ g[n + 1] \in [T -> T] /\ h[n] \in T
    OBVIOUS
  <2>3. \A i \in 0..n : h[i] = IF i = 0 THEN b ELSE g[i][h[i - 1]]
    BY <2>1 DEF Recursion
  <2> DEFINE f == [i \in 0..(n + 1) |-> IF i <= n THEN h[i] ELSE g[n + 1][h[n]]]
  <2>4. f \in [0..(n + 1) -> T]
    BY <2>2
  <2>5. \A i \in 0..(n + 1) : f[i] = IF i = 0 THEN b ELSE g[i][f[i - 1]]
    <3> SUFFICES ASSUME NEW i \in 0..(n + 1) PROVE f[i] = IF i = 0 THEN b ELSE g[i][f[i - 1]]
      OBVIOUS
    <3>1. CASE i = n + 1
      BY <3>1
    <3>2. CASE i # n + 1
      <4>1. i \in 0..n /\ f[i] = h[i] /\ (i # 0 => i - 1 \in 0..(n + 1) /\ f[i - 1] = h[i - 1])
        BY <3>2
      <4> QED
        BY <4>1, <2>3
    <3> QED
      BY <3>1, <3>2
  <2>6. f = [i \in 0..(n + 1) |-> IF i = 0 THEN b ELSE g[i][f[i - 1]]]
    BY <2>4, <2>5
  <2> QED
    BY <2>4, <2>6, Zenon DEF Recursion
<1> HIDE DEF Good
<1>3. N \in Good
  BY <1>1, <1>2, Induction
<1> QED
  BY <1>3 DEF Good

(* A function whose first value is in T, and whose steps stay in T, has    *)
(* its values in T.                                                        *)
LEMMA RecursionTypes ==
  ASSUME NEW T, NEW N \in Nat, NEW f, f = [i \in 0..N |-> f[i]], f[0] \in T,
         \A i \in 1..N : f[i - 1] \in T => f[i] \in T
  PROVE  f \in [0..N -> T]
<1> DEFINE A == {j \in Nat : j <= N => f[j] \in T}
<1>1. 0 \in A
  OBVIOUS
<1>2. ASSUME NEW n \in Nat, n \in A PROVE n + 1 \in A
  <2> SUFFICES ASSUME n + 1 <= N PROVE f[n + 1] \in T
    OBVIOUS
  <2>1. n + 1 \in 1..N /\ (n + 1) - 1 = n /\ f[n] \in T
    BY <1>2
  <2> QED
    BY <2>1
<1> HIDE DEF A
<1>3. Nat \subseteq A
  BY <1>1, <1>2, Induction
<1>4. \A i \in 0..N : i \in Nat /\ i <= N
  OBVIOUS
<1>5. \A i \in 0..N : f[i] \in T
  BY <1>3, <1>4 DEF A
<1> QED
  BY <1>5

(* What \div and % compute. *)
LEMMA DivMod ==
  ASSUME NEW a \in Int, NEW b \in Nat \ {0}
  PROVE  /\ a = b * (a \div b) + (a % b)
         /\ a \div b \in Int /\ a % b \in Int /\ 0 <= a % b /\ a % b < b
  OBVIOUS

(* The base of the numbers is even and not too small. *)
LEMMA BaseIs == Base \in Nat /\ Base > 5 /\ Base \in Nat \ {0} /\ 2 * (Base \div 2) = Base
<1>1. Base \in Nat /\ Base % 2 = 0 /\ Base > 5
  BY WireSizes
<1> QED
  BY <1>1

(* The recursive definition of Power holds of it. *)
LEMMA PowerDef == Power = [n \in 0..LongLong |-> IF n = 0 THEN 1 ELSE Base * Power[n - 1]]
<1> DEFINE g == [n \in 1..LongLong |-> [x \in Nat |-> Base * x]]
<1>1. \E f : f = [n \in 0..LongLong |-> IF n = 0 THEN 1 ELSE Base * f[n - 1]]
  <2>1. g \in [1..LongLong -> [Nat -> Nat]] /\ LongLong \in Nat
    BY BaseIs DEF LongLong
  <2>2. \A n \in 1..LongLong : \A x \in Nat : g[n][x] = Base * x
    OBVIOUS
  <2> HIDE DEF g
  <2>3. PICK f \in [0..LongLong -> Nat] : Recursion(f, LongLong, 1, g)
    BY <2>1, RecursionExists
  <2>4. f = [n \in 0..LongLong |-> IF n = 0 THEN 1 ELSE Base * f[n - 1]]
    <3>1. \A n \in 0..LongLong : f[n] = IF n = 0 THEN 1 ELSE g[n][f[n - 1]]
      BY <2>3 DEF Recursion
    <3>2. \A n \in 1..LongLong : n - 1 \in 0..LongLong
      BY <2>1
    <3>3. \A n \in 0..LongLong : f[n] = IF n = 0 THEN 1 ELSE Base * f[n - 1]
      BY <3>1, <3>2, <2>2
    <3> QED
      BY <3>3
  <2> QED
    BY <2>4
<1> QED
  BY <1>1, Zenon DEF Power

(* The powers of the base up to the widest number. *)
LEMMA PowerIs ==
  /\ Power[0] = 1 /\ Power[1] = Base
  /\ \A n \in 1..4 : Power[n] = Base * Power[n - 1] /\ n - 1 \in 0..4
  /\ \A n \in 0..4 : Power[n] \in Nat \ {0}
  /\ \A n \in 1..4 : 2 * (Power[n] \div 2) = Power[n]
<1>1. Power[0] = 1 /\ \A n \in 1..4 : Power[n] = Base * Power[n - 1] /\ n - 1 \in 0..4
  BY PowerDef DEF LongLong
<1>2. Power[1] = Base * 1 /\ Power[2] = Base * Power[1] /\ Power[3] = Base * Power[2] /\ Power[4] = Base * Power[3]
  BY <1>1
<1>3. Power[0] \in Nat \ {0} /\ Power[1] \in Nat \ {0}
  BY <1>1, <1>2, BaseIs
<1>4. Power[2] \in Nat \ {0}
  BY <1>2, <1>3, BaseIs
<1>5. Power[3] \in Nat \ {0}
  BY <1>2, <1>4, BaseIs
<1>6. Power[4] \in Nat \ {0}
  BY <1>2, <1>5, BaseIs
<1>7. \A n \in 0..4 : Power[n] \in Nat \ {0}
  BY <1>3, <1>4, <1>5, <1>6
<1>8. \A n \in 1..4 : 2 * (Power[n] \div 2) = Power[n]
  <2> SUFFICES ASSUME NEW n \in 1..4 PROVE 2 * (Power[n] \div 2) = Power[n]
    OBVIOUS
  <2>1. PICK h \in Int, p \in Nat : Base = 2 * h /\ p = Power[n - 1] /\ Power[n] = Base * p
    BY <1>1, <1>7, BaseIs
  <2>2. Power[n] = 2 * (h * p) /\ h * p \in Int
    BY <2>1
  <2> QED
    BY <2>2
<1>9. Power[1] = Base
  BY <1>2, BaseIs
<1> QED
  BY <1>1, <1>7, <1>8, <1>9
(* What the provers are told of the base. *)
LEMMA BaseNat == Base \in Nat /\ Base \in Nat \ {0} /\ Base \in Int /\ Base > 5 /\ Base > 0
BY BaseIs

(* What they are told of a byte. *)
LEMMA ByteIs == \A b \in Bytes : b \in Int /\ 0 <= b /\ b < Base
BY BaseNat DEF Bytes

(* The first two powers. *)
LEMMA PowerFirst == Power[0] = 1 /\ Power[1] = Base
BY PowerIs

(* From each power to the next. *)
LEMMA PowerStep == \A n \in 1..4 : Power[n] = Base * Power[n - 1] /\ n - 1 \in 0..4
  BY PowerIs

(* All powers are positive. *)
LEMMA PowerNat == \A n \in 0..4 : Power[n] \in Nat \ {0} /\ Power[n] \in Int
  BY PowerIs

(* rest[i] is what is left of v after i bytes. *)
Rests(v, size, rest) ==
  /\ rest \in [0..size -> Int] /\ rest[0] = v
  /\ \A i \in 1..size : i - 1 \in 0..size /\ rest[i] = rest[i - 1] \div Base

(* The bytes of a number are the remainders of repeated division. *)
LEMMA NumberDef ==
  ASSUME NEW v \in Int, NEW size \in 0..4
  PROVE  \E rest : Rests(v, size, rest) /\ Number(v, size) = [i \in 1..size |-> rest[i - 1] % Base]
<1> DEFINE g == [n \in 1..size |-> [x \in Int |-> x \div Base]]
           rest == CHOOSE f : f = [i \in 0..size |-> IF i = 0 THEN v ELSE f[i - 1] \div Base]
<1>1. g \in [1..size -> [Int -> Int]] /\ size \in Nat
  BY BaseNat
<1>2. \A n \in 1..size : n - 1 \in 0..size /\ \A x \in Int : g[n][x] = x \div Base
  OBVIOUS
<1> HIDE DEF g
<1>3. PICK f \in [0..size -> Int] : Recursion(f, size, v, g)
  BY <1>1, RecursionExists
<1>4. \A i \in 0..size : f[i] = IF i = 0 THEN v ELSE g[i][f[i - 1]]
  BY <1>3 DEF Recursion
<1>5. \A i \in 0..size : f[i] = IF i = 0 THEN v ELSE f[i - 1] \div Base
  BY <1>2, <1>4
<1>6. f = [i \in 0..size |-> IF i = 0 THEN v ELSE f[i - 1] \div Base]
  BY <1>5
<1>7. rest = [i \in 0..size |-> IF i = 0 THEN v ELSE rest[i - 1] \div Base]
  BY <1>6, Zenon
<1>8. Number(v, size) = [i \in 1..size |-> rest[i - 1] % Base]
  BY Zenon DEF Number
<1> HIDE DEF rest
<1>9. rest[0] = v /\ \A i \in 1..size : rest[i] = rest[i - 1] \div Base
  <2>1. 0 \in 0..size /\ \A i \in 1..size : i \in 0..size /\ i # 0
    BY <1>1
  <2> QED
    BY <2>1, <1>7
<1>10. rest = [i \in 0..size |-> rest[i]]
  BY <1>7
<1>11. \A i \in 1..size : rest[i - 1] \in Int => rest[i] \in Int
  BY <1>9, DivMod, BaseNat
<1>12. rest \in [0..size -> Int]
  BY <1>1, <1>9, <1>10, <1>11, RecursionTypes
<1>13. Rests(v, size, rest)
  BY <1>2, <1>9, <1>12 DEF Rests
<1> QED
  BY <1>8, <1>13

(* A number of size bytes has size bytes. *)
LEMMA NumberIs ==
  ASSUME NEW v \in Int, NEW size \in 0..4
  PROVE  Number(v, size) \in Seq(Bytes) /\ Len(Number(v, size)) = size
<1>1. PICK rest : Rests(v, size, rest) /\ Number(v, size) = [i \in 1..size |-> rest[i - 1] % Base]
  BY NumberDef
<1>2. \A i \in 1..size : rest[i - 1] % Base \in Bytes
  <2> SUFFICES ASSUME NEW i \in 1..size PROVE rest[i - 1] % Base \in Bytes
    OBVIOUS
  <2>1. rest[i - 1] \in Int
    BY <1>1 DEF Rests
  <2> QED
    BY <2>1, BaseNat DEF Bytes
<1> QED
  BY <1>1, <1>2

(* high[i] is the number in the last i bytes. *)
Highs(bytes, high) ==
  /\ high \in [0..Len(bytes) -> Int] /\ high[0] = 0
  /\ \A i \in 1..Len(bytes) :
       i - 1 \in 0..Len(bytes) /\ high[i] = bytes[Len(bytes) + 1 - i] + Base * high[i - 1]

(* A number is read from its bytes by repeated multiplication. *)
LEMMA UnsignedDef ==
  ASSUME NEW bytes \in Seq(Int)
  PROVE  \E high : Highs(bytes, high) /\ UnsignedOf(bytes) = high[Len(bytes)]
<1> DEFINE N == Len(bytes)
           g == [n \in 1..N |-> [x \in Int |-> bytes[N + 1 - n] + Base * x]]
           high == CHOOSE f : f = [i \in 0..N |-> IF i = 0 THEN 0 ELSE bytes[N + 1 - i] + Base * f[i - 1]]
<1>1. UnsignedOf(bytes) = high[N]
  BY Zenon DEF UnsignedOf
<1>2. N \in Nat /\ \A n \in 1..N : n - 1 \in 0..N /\ N + 1 - n \in 1..N /\ bytes[N + 1 - n] \in Int
  OBVIOUS
<1>3. \A n \in 1..N : \A x \in Int : bytes[N + 1 - n] + Base * x \in Int
  BY <1>2, BaseNat
<1>4. g \in [1..N -> [Int -> Int]] /\ \A n \in 1..N : \A x \in Int : g[n][x] = bytes[N + 1 - n] + Base * x
  BY <1>3
<1> HIDE DEF g, N, high
<1>5. 0 \in Int
  OBVIOUS
<1>6. PICK f \in [0..N -> Int] : Recursion(f, N, 0, g)
  BY <1>2, <1>4, <1>5, RecursionExists
<1>7. \A i \in 0..N : f[i] = IF i = 0 THEN 0 ELSE g[i][f[i - 1]]
  BY <1>6 DEF Recursion
<1>8. \A i \in 0..N : f[i] = IF i = 0 THEN 0 ELSE bytes[N + 1 - i] + Base * f[i - 1]
  <2> SUFFICES ASSUME NEW i \in 0..N
               PROVE  f[i] = IF i = 0 THEN 0 ELSE bytes[N + 1 - i] + Base * f[i - 1]
    OBVIOUS
  <2>1. CASE i = 0
    BY <2>1, <1>7
  <2>2. CASE i # 0
    <3>1. i \in 1..N /\ f[i - 1] \in Int
      BY <1>2, <2>2
    <3>2. f[i] = g[i][f[i - 1]]
      BY <2>2, <1>7
    <3> QED
      BY <2>2, <3>1, <3>2, <1>4
  <2> QED
    BY <2>1, <2>2
<1>9. f = [i \in 0..N |-> IF i = 0 THEN 0 ELSE bytes[N + 1 - i] + Base * f[i - 1]]
  BY <1>8
<1>10. high = [i \in 0..N |-> IF i = 0 THEN 0 ELSE bytes[N + 1 - i] + Base * high[i - 1]]
  BY <1>9, Zenon DEF high
<1>11. high[0] = 0 /\ \A i \in 1..N : high[i] = bytes[N + 1 - i] + Base * high[i - 1]
  <2>1. 0 \in 0..N /\ \A i \in 1..N : i \in 0..N /\ i # 0
    BY <1>2
  <2> QED
    BY <2>1, <1>10
<1>12. high = [i \in 0..N |-> high[i]]
  BY <1>10
<1>13. \A i \in 1..N : high[i - 1] \in Int => high[i] \in Int
  BY <1>11, <1>3
<1>14. high[0] \in Int
  BY <1>11
<1>15. high \in [0..N -> Int]
  BY <1>2, <1>12, <1>13, <1>14, RecursionTypes
<1>16. Highs(bytes, high)
  BY <1>2, <1>11, <1>15 DEF Highs, N
<1> QED
  BY <1>1, <1>16 DEF N

(* What is read is what was written, but for what did not fit. *)
LEMMA NumberReads ==
  ASSUME NEW v \in Int, NEW size \in 0..4, NEW rest, Rests(v, size, rest),
         Number(v, size) = [i \in 1..size |-> rest[i - 1] % Base]
  PROVE  UnsignedOf(Number(v, size)) = v - rest[size] * Power[size]
<1> DEFINE bytes == Number(v, size)
           q == rest[size]
<1>1. bytes \in Seq(Int) /\ Len(bytes) = size /\ size \in Nat
  <2>1. bytes \in Seq(Bytes) /\ Len(bytes) = size
    BY NumberIs
  <2>2. \A b \in Bytes : b \in Int
    BY BaseNat DEF Bytes
  <2> HIDE DEF bytes
  <2> QED
    BY <2>1, <2>2
<1>2. PICK high : Highs(bytes, high) /\ UnsignedOf(bytes) = high[size]
  BY <1>1, UnsignedDef
<1>3. \A i \in 1..size : bytes[i] = rest[i - 1] % Base
  OBVIOUS
<1> HIDE DEF bytes
<1>4. q \in Int /\ q = rest[size]
  BY DEF Rests
<1> HIDE DEF q
<1> DEFINE A == {i \in Nat : i <= size => high[i] = rest[size - i] - q * Power[i]}
<1>5. 0 \in A
  BY <1>1, <1>2, <1>4, PowerIs DEF Highs, Rests
<1>6. ASSUME NEW n \in Nat, n \in A PROVE n + 1 \in A
  <2> SUFFICES ASSUME n + 1 <= size PROVE high[n + 1] = rest[size - (n + 1)] - q * Power[n + 1]
    OBVIOUS
  <2>1. /\ n + 1 \in 1..size /\ n + 1 \in 1..4 /\ (n + 1) - 1 = n /\ n \in 0..4
        /\ size - n \in 1..size /\ (size - n) - 1 = size - (n + 1) /\ size - (n + 1) \in 0..size
        /\ size + 1 - (n + 1) = size - n /\ size - n \in 0..size
    BY <1>1
  <2>2. high[n + 1] = bytes[size - n] + Base * high[n]
    BY <1>1, <1>2, <2>1 DEF Highs
  <2> DEFINE a == rest[size - (n + 1)]
  <2>3. bytes[size - n] = a % Base /\ rest[size - n] = a \div Base /\ a \in Int
    BY <1>3, <2>1 DEF Rests
  <2>4. high[n] = (a \div Base) - q * Power[n]
    BY <1>6, <2>1, <2>3
  <2>5. a = Base * (a \div Base) + (a % Base) /\ a \div Base \in Int /\ a % Base \in Int
    <3> HIDE DEF a
    <3> QED
      BY <2>3, BaseNat, DivMod
  <2>6. Power[n] \in Int /\ Power[n + 1] = Base * Power[n]
    <3>1. Power[n] \in Int
      BY <2>1, PowerNat
    <3>2. PICK m \in 1..4 : m = n + 1
      BY <2>1
    <3>3. Power[m] = Base * Power[m - 1] /\ m - 1 = n
      BY <2>1, <3>2, PowerStep
    <3> QED
      BY <3>1, <3>2, <3>3
  <2> HIDE DEF a
  <2>7. high[n + 1] = (a % Base) + Base * ((a \div Base) - q * Power[n])
    BY <2>2, <2>3, <2>4
  <2>8. PICK b \in Int : b = a \div Base
    BY <2>5
  <2>9. PICK d \in Int : d = Power[n]
    BY <2>6
  <2>10. Base * (b - q * d) = Base * b - q * (Base * d)
    <3>1. q \in Int /\ Base \in Int
      BY <1>4, BaseNat
    <3>2. Base * (b - q * d) = Base * b - Base * (q * d)
      BY <3>1
    <3>3. Base * (q * d) = q * (Base * d)
      BY <3>1
    <3> QED
      BY <3>2, <3>3
  <2>11. Base * ((a \div Base) - q * Power[n]) = Base * (a \div Base) - q * (Base * Power[n])
    BY <2>8, <2>9, <2>10
  <2>12. q * (Base * Power[n]) \in Int /\ Base * (a \div Base) \in Int /\ a % Base \in Int
    <3>1. q * (Base * d) \in Int /\ Base * b \in Int
      BY <1>4, BaseNat
    <3> QED
      BY <3>1, <2>8, <2>9, <2>5
  <2> QED
    BY <2>5, <2>6, <2>7, <2>11, <2>12 DEF a
<1> HIDE DEF A
<1>7. size \in A
  BY <1>1, <1>5, <1>6, Induction
<1>8. high[size] = rest[size - size] - q * Power[size] /\ size - size = 0
  BY <1>1, <1>7 DEF A
<1> QED
  BY <1>2, <1>4, <1>8 DEF Rests, bytes

(* Bytes are integers, *)
LEMMA BytesAreInt == Bytes \subseteq Int
BY ByteIs

(* and so are those of a sequence. *)
LEMMA BytesSeq ==
  ASSUME NEW s \in Seq(Bytes) PROVE s \in Seq(Int)
BY BytesAreInt, SeqMonotonic

(* One more byte: the bound of UnsignedRange. *)
LEMMA HighBound ==
  ASSUME NEW B \in Nat, NEW b \in Int, NEW h \in Int, NEW p \in Int, B > 0,
         0 <= b, b < B, 0 <= h, h < p
  PROVE  0 <= b + B * h /\ b + B * h < B * p
<1>1. PICK d \in Nat : p = h + 1 + d
  <2>1. p - h - 1 \in Nat /\ p = h + 1 + (p - h - 1)
    OBVIOUS
  <2> QED
    BY <2>1
<1>2. B * p = B * h + B + B * d /\ B * d \in Nat /\ B * h \in Nat
  BY <1>1
<1>3. PICK x \in Nat, y \in Nat : x = B * h /\ y = B * d
  BY <1>2
<1>4. B * p = x + B + y
  BY <1>2, <1>3
<1> QED
  BY <1>3, <1>4

(* n bytes hold a number below Power[n]. *)
LEMMA UnsignedRange ==
  ASSUME NEW bytes \in Seq(Bytes), Len(bytes) <= 4
  PROVE  UnsignedOf(bytes) \in Int /\ 0 <= UnsignedOf(bytes) /\ UnsignedOf(bytes) < Power[Len(bytes)]
<1>1. PICK n \in Nat : n = Len(bytes)
  BY LenProperties
<1>2. n \in 0..4 /\ DOMAIN bytes = 1..n
  BY <1>1, LenProperties
<1>3. PICK high : Highs(bytes, high) /\ UnsignedOf(bytes) = high[n]
  BY <1>1, BytesSeq, UnsignedDef
<1> DEFINE A == {i \in Nat : i <= n => 0 <= high[i] /\ high[i] < Power[i]}
<1>4. 0 \in A
  BY <1>3, <1>1, PowerFirst DEF Highs
<1>5. ASSUME NEW i \in Nat, i \in A PROVE i + 1 \in A
  <2> SUFFICES ASSUME i + 1 <= n PROVE 0 <= high[i + 1] /\ high[i + 1] < Power[i + 1]
    OBVIOUS
  <2>1. i \in 0..4 /\ i \in 0..n /\ i + 1 \in 1..4 /\ i + 1 \in 1..n /\ n + 1 - (i + 1) \in 1..n
    BY <1>2
  <2>2. PICK j \in 1..4 : j = i + 1 /\ j \in 1..n /\ n + 1 - j \in 1..n /\ i \in 0..4 /\ i \in 0..n
    BY <2>1
  <2>3. bytes[n + 1 - j] \in Bytes
    BY <2>2, <1>1, ElementOfSeq
  <2>4. PICK b \in Int : b = bytes[n + 1 - j] /\ 0 <= b /\ b < Base
    BY <2>3, ByteIs
  <2>5. high[i] \in Int
    BY <1>1, <1>3, <2>2 DEF Highs
  <2>6. 0 <= high[i] /\ high[i] < Power[i]
    BY <1>5, <2>2
  <2>7. PICK h \in Int : h = high[i] /\ 0 <= h /\ h < Power[i]
    BY <2>5, <2>6
  <2>8. Power[j] = Base * Power[j - 1] /\ j - 1 = i
    BY <2>2, PowerStep
  <2>9. PICK p \in Int : p = Power[i]
    BY <2>2, PowerNat
  <2>10. high[j] = bytes[n + 1 - j] + Base * high[j - 1] /\ j - 1 = i
    BY <1>1, <1>3, <2>2 DEF Highs
  <2>11. high[j] = b + Base * h
    BY <2>10, <2>4, <2>7
  <2>12. 0 <= b + Base * h /\ b + Base * h < Base * p
    <3>1. Base \in Nat /\ Base > 0 /\ h < p
      BY BaseNat, <2>7, <2>9
    <3> QED
      BY <3>1, <2>4, <2>7, <2>9, HighBound, Zenon
  <2> QED
    BY <2>2, <2>8, <2>9, <2>11, <2>12
<1> HIDE DEF A
<1>6. n \in A
  BY <1>2, <1>4, <1>5, Induction
<1>7. high[n] \in Int
  BY <1>1, <1>3 DEF Highs
<1> QED
  BY <1>1, <1>2, <1>3, <1>6, <1>7 DEF A

(* Products that are ordered have ordered factors. *)
LEMMA Quotient ==
  ASSUME NEW q \in Int, NEW p \in Nat \ {0}, NEW c \in Int
  PROVE  /\ q * p < c * p => q < c
         /\ c * p < q * p => c < q
<1>1. ASSUME q >= c PROVE q * p >= c * p
  <2>1. PICK d \in Nat : q = c + d
    <3>1. q - c \in Nat /\ q = c + (q - c)
      BY <1>1
    <3> QED
      BY <3>1
  <2>2. q * p = c * p + d * p /\ d * p \in Nat /\ c * p \in Int
    BY <2>1
  <2> QED
    BY <2>2
<1>2. ASSUME q <= c PROVE q * p <= c * p
  <2>1. PICK d \in Nat : c = q + d
    <3>1. c - q \in Nat /\ c = q + (c - q)
      BY <1>2
    <3> QED
      BY <3>1
  <2>2. c * p = q * p + d * p /\ d * p \in Nat /\ q * p \in Int
    BY <2>1
  <2> QED
    BY <2>2
<1>3. q * p \in Int /\ c * p \in Int
  OBVIOUS
<1> QED
  BY <1>1, <1>2, <1>3

(* Numbers in the range of an unsigned type are read as they were written. *)
LEMMA UnsignedReads ==
  ASSUME NEW size \in 0..4, NEW v \in Unsigned(size)
  PROVE  UnsignedOf(Number(v, size)) = v
<1>1. PICK p \in Nat \ {0} : p = Power[size]
  BY PowerNat
<1>2. v \in Int /\ 0 <= v /\ v < p
  BY <1>1 DEF Unsigned
<1>3. PICK rest : Rests(v, size, rest) /\ Number(v, size) = [i \in 1..size |-> rest[i - 1] % Base]
  BY <1>2, NumberDef
<1>4. PICK q \in Int : q = rest[size]
  BY <1>3 DEF Rests
<1>5. UnsignedOf(Number(v, size)) = v - q * p
  BY <1>1, <1>2, <1>3, <1>4, NumberReads
<1>6. PICK u \in Int : u = UnsignedOf(Number(v, size)) /\ 0 <= u /\ u < p
  <2>1. Number(v, size) \in Seq(Bytes) /\ Len(Number(v, size)) = size
    BY <1>2, NumberIs
  <2> QED
    BY <1>1, <2>1, UnsignedRange
<1>7. PICK qp \in Int : qp = q * p
  OBVIOUS
<1>8. qp < 1 * p /\ (-1) * p < qp
  BY <1>2, <1>5, <1>6, <1>7
<1>9. q < 1 /\ -1 < q
  BY <1>7, <1>8, Quotient
<1>10. q = 0
  BY <1>9
<1> QED
  BY <1>2, <1>5, <1>10

(* So are numbers in the range of a signed type. *)
LEMMA SignedReads ==
  ASSUME NEW size \in 1..4, NEW v \in Signed(size)
  PROVE  SignedOf(Number(v, size)) = v
<1>1. size \in 0..4
  OBVIOUS
<1>2. PICK p \in Nat \ {0} : p = Power[size] /\ 2 * (p \div 2) = p
  BY PowerIs
<1>3. v \in Int /\ -p <= 2 * v /\ 2 * v < p
  BY <1>2 DEF Signed
<1>4. PICK rest : Rests(v, size, rest) /\ Number(v, size) = [i \in 1..size |-> rest[i - 1] % Base]
  BY <1>1, <1>3, NumberDef
<1>5. PICK q \in Int : q = rest[size]
  BY <1>1, <1>4 DEF Rests
<1>6. UnsignedOf(Number(v, size)) = v - q * p
  BY <1>1, <1>2, <1>3, <1>4, <1>5, NumberReads
<1>7. Number(v, size) \in Seq(Bytes) /\ Len(Number(v, size)) = size
  BY <1>1, <1>3, NumberIs
<1>8. /\ UnsignedOf(Number(v, size)) \in Int /\ 0 <= UnsignedOf(Number(v, size))
       /\ UnsignedOf(Number(v, size)) < Power[Len(Number(v, size))]
  BY <1>7, UnsignedRange
<1>9. PICK u \in Int : u = UnsignedOf(Number(v, size)) /\ 0 <= u /\ u < p
  BY <1>2, <1>7, <1>8
<1>10. PICK qp \in Int : qp = q * p
  OBVIOUS
<1>11. u = v - qp
  BY <1>6, <1>9, <1>10
<1>12. SignedOf(Number(v, size)) = IF 2 * u >= p THEN u - p ELSE u
  BY <1>2, <1>9, <1>7 DEF SignedOf
<1>13. CASE 0 <= v
  <2>1. qp < 1 * p /\ (-1) * p < qp
    BY <1>3, <1>9, <1>11, <1>13
  <2>2. q < 1 /\ -1 < q
    BY <1>10, <2>1, Quotient
  <2>3. q = 0
    BY <2>2
  <2>4. qp = 0
    BY <1>10, <2>3
  <2> QED
    BY <1>3, <1>9, <1>12, <1>11, <2>4
<1>14. CASE v < 0
  <2>1. qp < 0 * p /\ (-2) * p < qp
    BY <1>3, <1>9, <1>11, <1>14
  <2>2. q < 0 /\ -2 < q
    BY <1>10, <2>1, Quotient
  <2>3. q = -1
    BY <2>2
  <2>4. qp = -p
    BY <1>10, <2>3
  <2> QED
    BY <1>3, <1>9, <1>12, <1>11, <2>4
<1> QED
  BY <1>3, <1>13, <1>14

(* What holds of <<>>, and of Append(s, e) if of s, holds of every sequence. *)
LEMMA SeqInduction ==
  ASSUME NEW T, NEW A, <<>> \in A,
         \A s \in Seq(T), e \in T : s \in A => Append(s, e) \in A
  PROVE  Seq(T) \subseteq A
<1> DEFINE B == {n \in Nat : \A s \in Seq(T) : Len(s) = n => s \in A}
<1>1. 0 \in B
  <2> SUFFICES ASSUME NEW s \in Seq(T), Len(s) = 0 PROVE s \in A
    OBVIOUS
  <2>1. s = <<>>
    BY EmptySeq, LenProperties
  <2> QED
    BY <2>1
<1>2. ASSUME NEW n \in Nat, n \in B PROVE n + 1 \in B
  <2> SUFFICES ASSUME NEW s \in Seq(T), Len(s) = n + 1 PROVE s \in A
    OBVIOUS
  <2>1. s # <<>>
    BY EmptySeq
  <2>2. PICK r \in Seq(T), e \in T : s = Append(r, e)
    BY <2>1, SequenceEmptyOrAppend
  <2>3. Len(r) = n
    BY <2>2, AppendProperties, LenProperties
  <2> QED
    BY <1>2, <2>2, <2>3
<1> HIDE DEF B
<1>3. Nat \subseteq B
  BY <1>1, <1>2, Induction
<1> QED
  BY <1>3, LenProperties DEF B

(* flat[i]: the first i sequences, one after the other. *)
Flats(seqs, flat, T) ==
  /\ flat \in [1..Len(seqs) -> Seq(T)]
  /\ \A i \in 1..Len(seqs) : flat[i] = IF i = 1 THEN seqs[i] ELSE flat[i - 1] \o seqs[i]

(* FlattenSeq puts its sequences together from the left. *)
LEMMA FlattenDef ==
  ASSUME NEW T, NEW seqs \in Seq(Seq(T)), seqs # <<>>
  PROVE  \E flat : Flats(seqs, flat, T) /\ FlattenSeq(seqs) = flat[Len(seqs)]
<1> DEFINE flat == CHOOSE f : f = [i \in 1..Len(seqs) |-> IF i = 1 THEN seqs[i] ELSE f[i - 1] \o seqs[i]]
<1>1. PICK n \in Nat : n = Len(seqs) /\ n > 0
  BY EmptySeq, LenProperties
<1>2. FlattenSeq(seqs) = flat[Len(seqs)]
  <2>1. Len(seqs) # 0
    BY <1>1
  <2> QED
    BY <2>1, Zenon DEF FlattenSeq
<1> DEFINE g == [i \in 1..n |-> [x \in Seq(T) |-> x \o seqs[i]]]
<1>3. \A i \in 1..n : seqs[i] \in Seq(T) /\ \A x \in Seq(T) : x \o seqs[i] \in Seq(T)
  BY <1>1, ConcatProperties
<1>4. g \in [1..n -> [Seq(T) -> Seq(T)]]
  BY <1>3
<1>5. \A i \in 1..n : \A x \in Seq(T) : g[i][x] = x \o seqs[i]
  OBVIOUS
<1>6. <<>> \in Seq(T)
  OBVIOUS
<1> HIDE DEF g, flat
<1>7. PICK h \in [0..n -> Seq(T)] : Recursion(h, n, <<>>, g)
  BY <1>4, <1>6, RecursionExists
<1>8. \A i \in 0..n : h[i] = IF i = 0 THEN <<>> ELSE g[i][h[i - 1]]
  BY <1>7 DEF Recursion
<1> DEFINE f == [i \in 1..n |-> h[i]]
<1>9. \A i \in 1..n : f[i] = IF i = 1 THEN seqs[i] ELSE f[i - 1] \o seqs[i]
  <2> SUFFICES ASSUME NEW i \in 1..n PROVE f[i] = IF i = 1 THEN seqs[i] ELSE f[i - 1] \o seqs[i]
    OBVIOUS
  <2>1. i \in 0..n /\ i # 0 /\ i - 1 \in 0..n /\ h[i - 1] \in Seq(T)
    OBVIOUS
  <2>2. f[i] = h[i - 1] \o seqs[i]
    BY <2>1, <1>5, <1>8
  <2>3. CASE i = 1
    <3>1. h[0] = <<>> /\ i - 1 = 0
      BY <1>8, <2>3
    <3> QED
      BY <1>3, <2>2, <2>3, <3>1, ConcatEmptySeq
  <2>4. CASE i # 1
    <3>1. i - 1 \in 1..n
      BY <2>4
    <3> QED
      BY <2>2, <2>4, <3>1
  <2> QED
    BY <2>3, <2>4
<1>10. f = [i \in 1..n |-> IF i = 1 THEN seqs[i] ELSE f[i - 1] \o seqs[i]]
  BY <1>9
<1>11. flat = [i \in 1..n |-> IF i = 1 THEN seqs[i] ELSE flat[i - 1] \o seqs[i]]
  <2>1. \E x : x = [i \in 1..Len(seqs) |-> IF i = 1 THEN seqs[i] ELSE x[i - 1] \o seqs[i]]
    BY <1>1, <1>10, Zenon
  <2> QED
    BY <1>1, <2>1, Zenon DEF flat
<1>12. \A i \in 1..n : flat[i] = IF i = 1 THEN seqs[i] ELSE flat[i - 1] \o seqs[i]
  BY <1>11
<1>13. \A i \in 1..n : flat[i] \in Seq(T)
  <2> DEFINE A == {i \in Nat : i + 1 <= n => flat[i + 1] \in Seq(T)}
  <2>1. 0 \in A
    <3>1. 0 + 1 = 1 /\ 1 \in 1..n
      BY <1>1
    <3> QED
      BY <3>1, <1>3, <1>12
  <2>2. ASSUME NEW i \in Nat, i \in A PROVE i + 1 \in A
    <3> SUFFICES ASSUME (i + 1) + 1 <= n PROVE flat[(i + 1) + 1] \in Seq(T)
      OBVIOUS
    <3>1. PICK j \in 1..n : j = (i + 1) + 1 /\ j # 1 /\ j - 1 = i + 1
      OBVIOUS
    <3>2. flat[j - 1] \in Seq(T)
      BY <2>2, <3>1
    <3>3. flat[j] = flat[j - 1] \o seqs[j] /\ flat[j - 1] \in Seq(T)
      BY <1>12, <3>1, <3>2
    <3>4. flat[j - 1] \o seqs[j] \in Seq(T)
      BY <1>3, <3>3
    <3>5. flat[j] \in Seq(T)
      BY <3>3, <3>4
    <3> QED
      BY <3>1, <3>5
  <2> HIDE DEF A
  <2>3. Nat \subseteq A
    BY <2>1, <2>2, Induction
  <2> SUFFICES ASSUME NEW i \in 1..n PROVE flat[i] \in Seq(T)
    OBVIOUS
  <2>4. i - 1 \in Nat /\ (i - 1) + 1 = i
    OBVIOUS
  <2>5. i - 1 \in A
    BY <2>3, <2>4
  <2> QED
    BY <2>4, <2>5 DEF A
<1>14. flat \in [1..n -> Seq(T)]
  BY <1>11, <1>13
<1>15. Flats(seqs, flat, T)
  BY <1>1, <1>12, <1>14 DEF Flats
<1> QED
  BY <1>2, <1>15

(* Nothing, put together, is nothing. *)
LEMMA FlattenEmpty == FlattenSeq(<<>>) = <<>>
BY EmptySeq DEF FlattenSeq

(* Sequences of T, put together, are a sequence of T. *)
LEMMA FlattenType ==
  ASSUME NEW T, NEW seqs \in Seq(Seq(T))
  PROVE  FlattenSeq(seqs) \in Seq(T)
<1>1. CASE seqs = <<>>
  <2>1. <<>> \in Seq(T)
    OBVIOUS
  <2> QED
    BY <1>1, <2>1, FlattenEmpty
<1>2. CASE seqs # <<>>
  <2>1. PICK flat : Flats(seqs, flat, T) /\ FlattenSeq(seqs) = flat[Len(seqs)]
    BY <1>2, FlattenDef
  <2>2. Len(seqs) \in 1..Len(seqs)
    <3>1. PICK n \in Nat : n = Len(seqs) /\ n # 0
      BY <1>2, EmptySeq, LenProperties
    <3> QED
      BY <3>1
  <2> QED
    BY <2>1, <2>2 DEF Flats
<1> QED
  BY <1>1, <1>2

(* A sequence that is appended comes behind the others. *)
LEMMA FlattenAppend ==
  ASSUME NEW T, NEW s \in Seq(Seq(T)), NEW x \in Seq(T)
  PROVE  FlattenSeq(Append(s, x)) = FlattenSeq(s) \o x
<1> DEFINE t == Append(s, x)
<1>1. PICK n \in Nat : n = Len(s)
  BY LenProperties
<1>2. t \in Seq(Seq(T)) /\ t # <<>> /\ Len(t) = n + 1 /\ t[n + 1] = x /\ \A i \in 1..n : t[i] = s[i]
  BY <1>1, AppendProperties
<1> HIDE DEF t
<1>3. PICK ft : Flats(t, ft, T) /\ FlattenSeq(t) = ft[n + 1]
  BY <1>2, FlattenDef
<1>4. n + 1 \in 1..(n + 1) /\ \A i \in 1..n : i \in 1..(n + 1)
  OBVIOUS
<1>5. ft[n + 1] = IF n + 1 = 1 THEN x ELSE ft[n] \o x
  <2>1. ft[n + 1] = IF n + 1 = 1 THEN t[n + 1] ELSE ft[(n + 1) - 1] \o t[n + 1]
    BY <1>2, <1>3, <1>4 DEF Flats
  <2>2. (n + 1) - 1 = n
    OBVIOUS
  <2> QED
    BY <1>2, <2>1, <2>2
<1>6. CASE s = <<>>
  <2>1. n = 0 /\ FlattenSeq(s) = <<>> /\ <<>> \o x = x
    BY <1>1, <1>6, EmptySeq, FlattenEmpty, ConcatEmptySeq
  <2> QED
    BY <1>3, <1>5, <2>1 DEF t
<1>7. CASE s # <<>>
  <2>1. PICK fs : Flats(s, fs, T) /\ FlattenSeq(s) = fs[n]
    BY <1>1, <1>7, FlattenDef
  <2>2. n > 0
    BY <1>1, <1>7, EmptySeq
  <2> DEFINE A == {i \in Nat : i + 1 <= n => ft[i + 1] = fs[i + 1]}
  <2>3. 0 \in A
    <3>1. 0 + 1 = 1 /\ 1 \in 1..n /\ 1 \in 1..(n + 1)
      BY <2>2
    <3>2. ft[1] = t[1] /\ fs[1] = s[1]
      BY <1>1, <1>2, <1>3, <2>1, <3>1 DEF Flats
    <3> QED
      BY <1>2, <3>1, <3>2
  <2>4. ASSUME NEW i \in Nat, i \in A PROVE i + 1 \in A
    <3> SUFFICES ASSUME (i + 1) + 1 <= n PROVE ft[(i + 1) + 1] = fs[(i + 1) + 1]
      OBVIOUS
    <3>1. PICK j \in 1..n : j = (i + 1) + 1 /\ j # 1 /\ j - 1 = i + 1 /\ j \in 1..(n + 1)
      OBVIOUS
    <3>2. ft[j] = ft[j - 1] \o t[j] /\ fs[j] = fs[j - 1] \o s[j]
      BY <1>1, <1>2, <1>3, <2>1, <3>1 DEF Flats
    <3>3. ft[j - 1] = fs[j - 1] /\ t[j] = s[j]
      BY <1>2, <2>4, <3>1
    <3> QED
      BY <3>1, <3>2, <3>3
  <2> HIDE DEF A
  <2>5. n - 1 \in A /\ (n - 1) + 1 = n
    <3>1. Nat \subseteq A
      BY <2>3, <2>4, Induction
    <3>2. n - 1 \in Nat /\ (n - 1) + 1 = n
      BY <2>2
    <3> QED
      BY <3>1, <3>2
  <2>6. ft[n] = fs[n]
    BY <2>5 DEF A
  <2> QED
    BY <1>3, <1>5, <2>1, <2>2, <2>6 DEF t
<1> QED
  BY <1>6, <1>7

(* One sequence is itself. *)
LEMMA FlattenOne ==
  ASSUME NEW T, NEW x \in Seq(T)
  PROVE  FlattenSeq(<<x>>) = x
<1>1. <<x>> = Append(<<>>, x) /\ <<>> \in Seq(Seq(T))
  OBVIOUS
<1>2. FlattenSeq(Append(<<>>, x)) = FlattenSeq(<<>>) \o x
  BY <1>1, FlattenAppend
<1> QED
  BY <1>1, <1>2, FlattenEmpty, ConcatEmptySeq

(* Two lists of sequences may be put together one after the other. *)
LEMMA FlattenConcat ==
  ASSUME NEW T, NEW s \in Seq(Seq(T)), NEW t \in Seq(Seq(T))
  PROVE  FlattenSeq(s \o t) = FlattenSeq(s) \o FlattenSeq(t)
<1> DEFINE A == {u \in Seq(Seq(T)) : FlattenSeq(s \o u) = FlattenSeq(s) \o FlattenSeq(u)}
<1>1. <<>> \in A
  <2>1. FlattenSeq(s) \in Seq(T) /\ <<>> \in Seq(Seq(T))
    BY FlattenType
  <2> QED
    BY <2>1, FlattenEmpty, ConcatEmptySeq
<1>2. ASSUME NEW u \in Seq(Seq(T)), NEW x \in Seq(T), u \in A PROVE Append(u, x) \in A
  <2>1. Append(u, x) \in Seq(Seq(T)) /\ s \o u \in Seq(Seq(T))
    BY AppendProperties, ConcatProperties
  <2>2. s \o Append(u, x) = Append(s \o u, x)
    OBVIOUS
  <2>3. FlattenSeq(Append(s \o u, x)) = FlattenSeq(s \o u) \o x
    BY <2>1, FlattenAppend
  <2>4. FlattenSeq(Append(u, x)) = FlattenSeq(u) \o x
    BY FlattenAppend
  <2>5. (FlattenSeq(s) \o FlattenSeq(u)) \o x = FlattenSeq(s) \o (FlattenSeq(u) \o x)
    BY FlattenType, ConcatAssociative
  <2> QED
    BY <1>2, <2>1, <2>2, <2>3, <2>4, <2>5
<1> HIDE DEF A
<1>3. Seq(Seq(T)) \subseteq A
  BY <1>1, <1>2, SeqInduction
<1> QED
  BY <1>3 DEF A

(* The elements of a part of a sequence. *)
LEMMA Slice ==
  ASSUME NEW T, NEW s \in Seq(T), NEW m \in Nat, NEW n \in Nat, n <= Len(s), m <= n
  PROVE  /\ SubSeq(s, m + 1, n) \in Seq(T) /\ Len(SubSeq(s, m + 1, n)) = n - m
         /\ \A i \in 1..(n - m) : SubSeq(s, m + 1, n)[i] = s[m + i]
<1>1. \A i \in (m + 1)..n : s[i] \in T
  <2>1. \A i \in (m + 1)..n : i \in 1..Len(s)
    BY LenProperties
  <2> QED
    BY <2>1, ElementOfSeq
<1>2. PICK k \in Int : k = m + 1
  OBVIOUS
<1>3. /\ SubSeq(s, k, n) \in Seq(T)
      /\ Len(SubSeq(s, k, n)) = IF k <= n THEN n - k + 1 ELSE 0
      /\ \A i \in 1..(n - k + 1) : SubSeq(s, k, n)[i] = s[k + i - 1]
  BY <1>1, <1>2, SubSeqProperties
<1>4. n - k + 1 = n - m /\ (IF k <= n THEN n - k + 1 ELSE 0) = n - m /\ \A i \in Int : k + i - 1 = m + i
  BY <1>2
<1> QED
  BY <1>2, <1>3, <1>4

(* Two sequences that were joined are found again where they are cut. *)
LEMMA Cut ==
  ASSUME NEW T, NEW a \in Seq(T), NEW b \in Seq(T)
  PROVE  /\ a \o b \in Seq(T) /\ Len(a \o b) = Len(a) + Len(b) /\ Len(a) \in Nat /\ Len(b) \in Nat
         /\ SubSeq(a \o b, 1, Len(a)) = a
         /\ SubSeq(a \o b, Len(a) + 1, Len(a \o b)) = b
<1>1. PICK n \in Nat, m \in Nat : n = Len(a) /\ m = Len(b)
  BY LenProperties
<1>2. /\ a \o b \in Seq(T) /\ Len(a \o b) = n + m
      /\ \A i \in 1..(n + m) : (a \o b)[i] = IF i <= n THEN a[i] ELSE b[i - n]
  BY <1>1, ConcatProperties
<1> DEFINE ab == a \o b
<1> HIDE DEF ab
<1>3. ab \in Seq(T) /\ Len(ab) = n + m
  BY <1>2 DEF ab
<1>4. SubSeq(ab, 1, n) = a
  <2>1. /\ SubSeq(ab, 0 + 1, n) \in Seq(T)
        /\ Len(SubSeq(ab, 0 + 1, n)) = n - 0
        /\ \A i \in 1..(n - 0) : SubSeq(ab, 0 + 1, n)[i] = ab[0 + i]
    <3>1. 0 \in Nat /\ n <= Len(ab) /\ 0 <= n
      BY <1>3
    <3> QED
      BY <1>3, <3>1, Slice
  <2>2. 0 + 1 = 1 /\ n - 0 = n /\ \A i \in 1..n : 0 + i = i /\ i \in 1..(n + m) /\ i <= n
    OBVIOUS
  <2>3. \A i \in 1..n : SubSeq(ab, 1, n)[i] = a[i]
    BY <1>2, <2>1, <2>2 DEF ab
  <2>4. SubSeq(ab, 1, n) \in Seq(T) /\ Len(SubSeq(ab, 1, n)) = n
    BY <2>1, <2>2
  <2> QED
    BY <1>1, <2>3, <2>4, SeqEqual
<1>5. SubSeq(ab, n + 1, n + m) = b
  <2>1. /\ SubSeq(ab, n + 1, n + m) \in Seq(T)
        /\ Len(SubSeq(ab, n + 1, n + m)) = (n + m) - n
        /\ \A i \in 1..((n + m) - n) : SubSeq(ab, n + 1, n + m)[i] = ab[n + i]
    <3>1. n + m \in Nat /\ n + m <= Len(ab) /\ n <= n + m
      BY <1>3
    <3> QED
      BY <1>3, <3>1, Slice
  <2>2. (n + m) - n = m /\ \A i \in 1..m : n + i \in 1..(n + m) /\ ~(n + i <= n) /\ (n + i) - n = i
    OBVIOUS
  <2>3. \A i \in 1..m : SubSeq(ab, n + 1, n + m)[i] = b[i]
    BY <1>2, <2>1, <2>2 DEF ab
  <2> QED
    BY <1>1, <2>1, <2>2, <2>3, SeqEqual
<1> QED
  BY <1>1, <1>2, <1>4, <1>5 DEF ab

(* So are three. *)
LEMMA CutThree ==
  ASSUME NEW T, NEW a \in Seq(T), NEW b \in Seq(T), NEW c \in Seq(T), NEW s, s = (a \o b) \o c
  PROVE  /\ s \in Seq(T) /\ Len(s) = Len(a) + Len(b) + Len(c)
         /\ Len(a) \in Nat /\ Len(b) \in Nat /\ Len(c) \in Nat
         /\ SubSeq(s, 1, Len(a)) = a
         /\ SubSeq(s, Len(a) + 1, Len(a) + Len(b)) = b
         /\ SubSeq(s, Len(a) + Len(b) + 1, Len(s)) = c
<1>1. a \o b \in Seq(T) /\ b \o c \in Seq(T) /\ s = a \o (b \o c)
  BY ConcatProperties, ConcatAssociative
<1>2. PICK bc \in Seq(T) : bc = b \o c /\ s = a \o bc
  BY <1>1
<1>3. PICK ab \in Seq(T) : ab = a \o b /\ s = ab \o c
  BY <1>1
<1>4. /\ SubSeq(s, 1, Len(a)) = a /\ s \in Seq(T) /\ Len(s) = Len(a) + Len(bc) /\ Len(a) \in Nat
  BY <1>2, Cut
<1>5. Len(bc) = Len(b) + Len(c) /\ Len(b) \in Nat /\ Len(c) \in Nat
  BY <1>2, Cut
<1>6. SubSeq(s, Len(ab) + 1, Len(s)) = c /\ Len(ab) = Len(a) + Len(b)
  BY <1>3, Cut
<1>7. SubSeq(s, Len(a) + 1, Len(a) + Len(b)) = b
  <2>1. Len(a) \in Nat /\ Len(b) \in Nat /\ Len(c) \in Nat
    BY <1>4, <1>5
  <2>2. s \in Seq(T) /\ Len(s) = Len(a) + (Len(b) + Len(c))
    BY <1>4, <1>5
  <2>3. PICK n \in Nat, m \in Nat, k \in Nat : n = Len(a) /\ m = Len(b) /\ k = Len(c)
    BY <2>1
  <2>4. n = Len(a) /\ m = Len(b) /\ k = Len(c) /\ Len(s) = n + m + k
    BY <2>2, <2>3
  <2>5. n + m \in Nat /\ n + m <= Len(s) /\ n <= n + m /\ (n + m) - n = m
    BY <2>4
  <2>6. /\ SubSeq(s, n + 1, n + m) \in Seq(T) /\ Len(SubSeq(s, n + 1, n + m)) = m
        /\ \A i \in 1..m : SubSeq(s, n + 1, n + m)[i] = s[n + i]
    <3>1. /\ SubSeq(s, n + 1, n + m) \in Seq(T) /\ Len(SubSeq(s, n + 1, n + m)) = (n + m) - n
          /\ \A i \in 1..((n + m) - n) : SubSeq(s, n + 1, n + m)[i] = s[n + i]
      <4>1. PICK e \in Nat : e = n + m
        OBVIOUS
      <4>2. e <= Len(s) /\ n <= e
        BY <2>5, <4>1
      <4>3. /\ SubSeq(s, n + 1, e) \in Seq(T) /\ Len(SubSeq(s, n + 1, e)) = e - n
            /\ \A i \in 1..(e - n) : SubSeq(s, n + 1, e)[i] = s[n + i]
        BY <2>2, <4>2, Slice
      <4> QED
        BY <4>1, <4>3
    <3> QED
      BY <2>5, <3>1
  <2>7. \A i \in 1..(n + (m + k)) : s[i] = IF i <= n THEN a[i] ELSE (b \o c)[i - n]
    <3>1. Len(bc) = m + k
      BY <1>5, <2>4
    <3>2. \A i \in 1..(n + (m + k)) : (a \o bc)[i] = IF i <= n THEN a[i] ELSE bc[i - n]
      BY <2>4, <3>1, ConcatProperties
    <3> QED
      BY <1>2, <3>2
  <2>8. \A i \in 1..(m + k) : (b \o c)[i] = IF i <= m THEN b[i] ELSE c[i - m]
    BY <2>4, ConcatProperties
  <2>9. \A i \in 1..m : SubSeq(s, n + 1, n + m)[i] = b[i]
    <3> SUFFICES ASSUME NEW i \in 1..m PROVE SubSeq(s, n + 1, n + m)[i] = b[i]
      OBVIOUS
    <3>1. n + i \in 1..(n + (m + k)) /\ ~(n + i <= n) /\ (n + i) - n = i /\ i \in 1..(m + k) /\ i <= m
      OBVIOUS
    <3>2. s[n + i] = (b \o c)[i]
      BY <2>7, <3>1
    <3> QED
      BY <2>6, <2>8, <3>1, <3>2
  <2> QED
    BY <2>4, <2>6, <2>9, SeqEqual
<1> QED
  BY <1>4, <1>5, <1>6, <1>7

-----------------------------------------------------------------------------
(* Short numbers, and how long a big one is.                               *)

(* One byte holds a number below Base. *)
LEMMA OneByte ==
  ASSUME NEW n \in Int, 0 <= n, n < Base
  PROVE  <<n>> \in Seq(Bytes) /\ Number(n, 1) = <<n>> /\ UnsignedOf(<<n>>) = n
<1>1. n \in Bytes
  BY BaseNat DEF Bytes
<1>2. 1 \in 0..4
  OBVIOUS
<1>3. n \in Unsigned(1)
  BY BaseNat, PowerFirst DEF Unsigned
<1>4. Number(n, 1) = <<n>>
  <2>1. PICK rest : Rests(n, 1, rest) /\ Number(n, 1) = [i \in 1..1 |-> rest[i - 1] % Base]
    BY <1>2, NumberDef
  <2>2. rest[0] = n /\ 1 - 1 = 0 /\ n % Base = n
    BY <2>1, BaseNat DEF Rests
  <2>3. Number(n, 1)[1] = n
    BY <2>1, <2>2
  <2>4. Number(n, 1) = [i \in 1..1 |-> n]
    BY <2>1, <2>2
  <2> QED
    BY <2>4
<1> QED
  BY <1>1, <1>2, <1>3, <1>4, UnsignedReads

(* No byte holds the number zero. *)
LEMMA NoByte == <<>> \in Seq(Bytes) /\ UnsignedOf(<<>>) = 0 /\ SignedOf(<<>>) = 0
<1>1. 0 \in 0..4 /\ 0 \in Unsigned(0)
  BY PowerFirst DEF Unsigned
<1>2. Number(0, 0) = <<>>
  <2>1. PICK rest : Rests(0, 0, rest) /\ Number(0, 0) = [i \in 1..0 |-> rest[i - 1] % Base]
    BY <1>1, NumberDef
  <2> QED
    BY <2>1
<1>3. UnsignedOf(<<>>) = 0
  BY <1>1, <1>2, UnsignedReads
<1>4. SignedOf(<<>>) = 0
  <2>1. Len(<<>>) = 0 /\ ~(2 * 0 >= 1)
    BY EmptySeq
  <2> QED
    BY <1>3, <2>1, PowerFirst DEF SignedOf
<1> QED
  BY <1>3, <1>4

(* The k-th width is k bytes. *)
LEMMA SizesAre == \A k \in 1..4 : Sizes[k] = k
BY DEF Sizes, Char, Short, Long, LongLong

(* operator<< of a signed big number takes enough bytes for it, *)
LEMMA SFlagFits ==
  ASSUME NEW v \in Signed(4)
  PROVE  IF v = 0 THEN SFlag(v) = 0 ELSE SFlag(v) \in 1..4 /\ v \in Signed(SFlag(v))
<1> SUFFICES ASSUME v # 0 PROVE SFlag(v) \in 1..4 /\ v \in Signed(SFlag(v))
  BY DEF SFlag
<1> DEFINE P(k) == v \in Signed(Sizes[k]) /\ \A j \in 1..(k - 1) : v \notin Signed(Sizes[j])
<1>1. \E k \in 1..4 : P(k)
  <2>1. CASE v \in Signed(1)
    <3>1. P(1) /\ 1 \in 1..4
      BY <2>1, SizesAre
    <3> QED
      BY <3>1
  <2>2. CASE v \notin Signed(1) /\ v \in Signed(2)
    <3>1. P(2) /\ 2 \in 1..4
      BY <2>2, SizesAre
    <3> QED
      BY <3>1
  <2>3. CASE v \notin Signed(1) /\ v \notin Signed(2) /\ v \in Signed(3)
    <3>1. P(3) /\ 3 \in 1..4
      BY <2>3, SizesAre
    <3> QED
      BY <3>1
  <2>4. CASE v \notin Signed(1) /\ v \notin Signed(2) /\ v \notin Signed(3)
    <3>1. P(4) /\ 4 \in 1..4
      BY <2>4, SizesAre
    <3> QED
      BY <3>1
  <2> QED
    BY <2>1, <2>2, <2>3, <2>4
<1>2. SFlag(v) = CHOOSE k \in 1..4 : P(k)
  BY DEF SFlag
<1>3. SFlag(v) \in 1..4 /\ P(SFlag(v))
  BY <1>1, <1>2
<1> QED
  BY <1>3, SizesAre

(* and so does that of an unsigned one. *)
LEMMA UFlagFits ==
  ASSUME NEW v \in Unsigned(4)
  PROVE  IF v = 0 THEN UFlag(v) = 0 ELSE UFlag(v) \in 1..4 /\ v \in Unsigned(UFlag(v))
<1> SUFFICES ASSUME v # 0 PROVE UFlag(v) \in 1..4 /\ v \in Unsigned(UFlag(v))
  BY DEF UFlag
<1> DEFINE P(k) == v \in Unsigned(Sizes[k]) /\ \A j \in 1..(k - 1) : v \notin Unsigned(Sizes[j])
<1>1. \E k \in 1..4 : P(k)
  <2>1. CASE v \in Unsigned(1)
    <3>1. P(1) /\ 1 \in 1..4
      BY <2>1, SizesAre
    <3> QED
      BY <3>1
  <2>2. CASE v \notin Unsigned(1) /\ v \in Unsigned(2)
    <3>1. P(2) /\ 2 \in 1..4
      BY <2>2, SizesAre
    <3> QED
      BY <3>1
  <2>3. CASE v \notin Unsigned(1) /\ v \notin Unsigned(2) /\ v \in Unsigned(3)
    <3>1. P(3) /\ 3 \in 1..4
      BY <2>3, SizesAre
    <3> QED
      BY <3>1
  <2>4. CASE v \notin Unsigned(1) /\ v \notin Unsigned(2) /\ v \notin Unsigned(3)
    <3>1. P(4) /\ 4 \in 1..4
      BY <2>4, SizesAre
    <3> QED
      BY <3>1
  <2> QED
    BY <2>1, <2>2, <2>3, <2>4
<1>2. UFlag(v) = CHOOSE k \in 1..4 : P(k)
  BY DEF UFlag
<1>3. UFlag(v) \in 1..4 /\ P(UFlag(v))
  BY <1>1, <1>2
<1> QED
  BY <1>3, SizesAre

(* What operator<< writes of a value, as operator>> will see it: a head    *)
(* that tells how much follows, and a content.                             *)
Parts(f, v, head, content) ==
  /\ head \in Seq(Bytes) /\ content \in Seq(Bytes) /\ Write(f, v) = head \o content
  /\ \A rest \in Seq(Bytes) : HeaderSize(f, (head \o content) \o rest) = Len(head)
  /\ ContentSize(f, head) = Len(content)
  /\ ~TooLong(f, head)
  /\ ValueOf(f, content) = v

(* What is written in two parts is read back, whatever follows it. *)
LEMMA ReadWhatWasWritten ==
  ASSUME NEW f, NEW v, NEW head, NEW content, Parts(f, v, head, content),
         NEW rest \in Seq(Bytes), NEW vals
  PROVE  Read([left |-> Write(f, v) \o rest, vals |-> vals, ok |-> TRUE], f)
           = [left |-> rest, vals |-> Append(vals, v), ok |-> TRUE]
<1> DEFINE in == (head \o content) \o rest
           bis == [left |-> in, vals |-> vals, ok |-> TRUE]
           h == HeaderSize(f, in)
           header == SubSeq(in, 1, h)
           end == h + ContentSize(f, header)
           after == [left |-> SubSeq(in, end + 1, Len(in)),
                     vals |-> Append(vals, ValueOf(f, SubSeq(in, h + 1, end))),
                     ok |-> TRUE]
<1>1. /\ Len(in) = Len(head) + Len(content) + Len(rest)
      /\ Len(head) \in Nat /\ Len(content) \in Nat /\ Len(rest) \in Nat
      /\ SubSeq(in, 1, Len(head)) = head
      /\ SubSeq(in, Len(head) + 1, Len(head) + Len(content)) = content
      /\ SubSeq(in, Len(head) + Len(content) + 1, Len(in)) = rest
  BY CutThree DEF Parts
<1>2. h = Len(head) /\ header = head /\ end = Len(head) + Len(content)
  BY <1>1 DEF Parts
<1>3. ~(Len(in) < h \/ TooLong(f, header) \/ Len(in) < end)
  <2>1. ~(Len(in) < h) /\ ~(Len(in) < end)
    BY <1>1, <1>2
  <2>2. ~TooLong(f, head)
    BY DEF Parts
  <2>3. header = head
    BY <1>2
  <2> HIDE DEF header
  <2>4. ~TooLong(f, header)
    BY <2>2, <2>3
  <2> QED
    BY <2>1, <2>4
<1>4. after = [left |-> rest, vals |-> Append(vals, v), ok |-> TRUE]
  <2>1. SubSeq(in, end + 1, Len(in)) = rest
    BY <1>1, <1>2
  <2>2. SubSeq(in, h + 1, end) = content
    BY <1>1, <1>2
  <2>3. ValueOf(f, SubSeq(in, h + 1, end)) = v
    BY <2>2 DEF Parts
  <2> QED
    BY <2>1, <2>3
<1>5. bis.left = in /\ bis.vals = vals /\ bis.ok
  BY Zenon
<1> HIDE DEF in, h, header, end
<1>6. Read(bis, f) = after
  <2>1. Read(bis, f) = CHOOSE read \in {after} : TRUE
    BY <1>3, <1>5, Zenon DEF Read, h, header, end, in
  <2> QED
    BY <2>1
<1> QED
  BY <1>4, <1>6 DEF Parts, in

-----------------------------------------------------------------------------
(* The members of messages, type by type.                                  *)

(* The members that a message can have. *)
LEMMA FieldKinds ==
  ASSUME NEW f \in Fields
  PROVE  \/ f.type \in {"signed", "unsigned"} /\ f.size \in 1..4
         \/ f.type \in {"sbig", "ubig"} /\ f.size = 4
         \/ f.type = "text" /\ f.size \in 0..MaxString
         \/ f.type = "chars" /\ f.size \in Nat
         \/ f.type = "key" /\ f.size = KeyLen
         \/ f.type = "data" /\ f.size = MaxData
         \/ f.type = "vector" /\ f.size \in 0..MaxVector /\ f.of \in 1..4
BY DEF Fields, LongLong

(* A signed member has no header. *)
LEMMA SignedParts ==
  ASSUME NEW f, f.type = "signed", f.size \in 1..4, NEW v \in Signed(f.size)
  PROVE  Parts(f, v, <<>>, Number(v, f.size))
<1>1. f.size \in 0..4 /\ v \in Int
  BY DEF Signed
<1>2. Number(v, f.size) \in Seq(Bytes) /\ Len(Number(v, f.size)) = f.size
  BY <1>1, NumberIs
<1>3. SignedOf(Number(v, f.size)) = v
  BY SignedReads
<1>4. Len(<<>>) = 0 /\ <<>> \in Seq(Bytes) /\ <<>> \o Number(v, f.size) = Number(v, f.size)
  BY <1>2, ConcatEmptySeq
<1>5. Write(f, v) = Number(v, f.size)
  BY DEF Write
<1>6. \A in : HeaderSize(f, in) = 0 /\ ContentSize(f, in) = f.size /\ ~TooLong(f, in)
  BY DEF HeaderSize, ContentSize, TooLong
<1>7. ValueOf(f, Number(v, f.size)) = SignedOf(Number(v, f.size))
  BY DEF ValueOf
<1> QED
  BY <1>2, <1>3, <1>4, <1>5, <1>6, <1>7 DEF Parts

(* Nor has an unsigned one. *)
LEMMA UnsignedParts ==
  ASSUME NEW f, f.type = "unsigned", f.size \in 1..4, NEW v \in Unsigned(f.size)
  PROVE  Parts(f, v, <<>>, Number(v, f.size))
<1>1. f.size \in 0..4 /\ v \in Int
  BY DEF Unsigned
<1>2. Number(v, f.size) \in Seq(Bytes) /\ Len(Number(v, f.size)) = f.size
  BY <1>1, NumberIs
<1>3. UnsignedOf(Number(v, f.size)) = v
  BY <1>1, UnsignedReads
<1>4. Len(<<>>) = 0 /\ <<>> \in Seq(Bytes) /\ <<>> \o Number(v, f.size) = Number(v, f.size)
  BY <1>2, ConcatEmptySeq
<1>5. Write(f, v) = Number(v, f.size)
  BY DEF Write
<1>6. \A in : HeaderSize(f, in) = 0 /\ ContentSize(f, in) = f.size /\ ~TooLong(f, in)
  BY DEF HeaderSize, ContentSize, TooLong
<1>7. ValueOf(f, Number(v, f.size)) = UnsignedOf(Number(v, f.size))
  BY DEF ValueOf
<1> QED
  BY <1>2, <1>3, <1>4, <1>5, <1>6, <1>7 DEF Parts

(* The header of a signed big number says how many bytes it takes, *)
LEMMA SBigParts ==
  ASSUME NEW f, f.type = "sbig", NEW v \in Signed(4)
  PROVE  \E head, content : Parts(f, v, head, content)
<1> DEFINE k == SFlag(v)
           content == IF k = 0 THEN <<>> ELSE Number(v, Sizes[k])
<1>1. v \in Int
  BY DEF Signed
<1>2. k \in 0..4 /\ (IF k = 0 THEN v = 0 ELSE k \in 1..4 /\ v \in Signed(k))
  BY SFlagFits
<1> HIDE DEF k
<1>3. <<k>> \in Seq(Bytes) /\ Len(<<k>>) = 1
  <2>1. k \in Int /\ 0 <= k /\ k < Base
    BY <1>2, BaseNat
  <2> QED
    BY <2>1, OneByte
<1>4. content \in Seq(Bytes) /\ Len(content) = k /\ SignedOf(content) = v
  <2>1. CASE k = 0
    BY <1>2, <2>1, NoByte
  <2>2. CASE k # 0
    <3>1. content = Number(v, k) /\ k \in 1..4 /\ k \in 0..4 /\ v \in Signed(k)
      BY <1>2, <2>2, SizesAre
    <3> QED
      BY <1>1, <3>1, NumberIs, SignedReads
  <2> QED
    BY <2>1, <2>2
<1>5. Write(f, v) = <<k>> \o content
  BY DEF Write, BigNumber, k
<1>6. \A in : HeaderSize(f, in) = 1 /\ ~TooLong(f, in)
  BY DEF HeaderSize, TooLong
<1>7. ContentSize(f, <<k>>) = k
  <2>1. <<k>>[1] = k
    OBVIOUS
  <2>2. ContentSize(f, <<k>>) = IF k = 0 THEN 0 ELSE Sizes[Least(k, 4)]
    BY <2>1 DEF ContentSize
  <2>3. Least(k, 4) = k
    BY <1>2 DEF Least
  <2> QED
    BY <1>2, <2>2, <2>3, SizesAre
<1>8. ValueOf(f, content) = SignedOf(content)
  BY DEF ValueOf
<1> HIDE DEF content
<1>9. Parts(f, v, <<k>>, content)
  BY <1>3, <1>4, <1>5, <1>6, <1>7, <1>8 DEF Parts
<1> QED
  BY <1>9

(* and so does that of an unsigned one. *)
LEMMA UBigParts ==
  ASSUME NEW f, f.type = "ubig", NEW v \in Unsigned(4)
  PROVE  \E head, content : Parts(f, v, head, content)
<1> DEFINE k == UFlag(v)
           content == IF k = 0 THEN <<>> ELSE Number(v, Sizes[k])
<1>1. v \in Int
  BY DEF Unsigned
<1>2. k \in 0..4 /\ (IF k = 0 THEN v = 0 ELSE k \in 1..4 /\ v \in Unsigned(k))
  BY UFlagFits
<1> HIDE DEF k
<1>3. <<k>> \in Seq(Bytes) /\ Len(<<k>>) = 1
  <2>1. k \in Int /\ 0 <= k /\ k < Base
    BY <1>2, BaseNat
  <2> QED
    BY <2>1, OneByte
<1>4. content \in Seq(Bytes) /\ Len(content) = k /\ UnsignedOf(content) = v
  <2>1. CASE k = 0
    BY <1>2, <2>1, NoByte
  <2>2. CASE k # 0
    <3>1. content = Number(v, k) /\ k \in 1..4 /\ k \in 0..4 /\ v \in Unsigned(k)
      BY <1>2, <2>2, SizesAre
    <3> QED
      BY <1>1, <3>1, NumberIs, UnsignedReads
  <2> QED
    BY <2>1, <2>2
<1>5. Write(f, v) = <<k>> \o content
  BY DEF Write, BigNumber, k
<1>6. \A in : HeaderSize(f, in) = 1 /\ ~TooLong(f, in)
  BY DEF HeaderSize, TooLong
<1>7. ContentSize(f, <<k>>) = k
  <2>1. <<k>>[1] = k
    OBVIOUS
  <2>2. ContentSize(f, <<k>>) = IF k = 0 THEN 0 ELSE Sizes[Least(k, 4)]
    BY <2>1 DEF ContentSize
  <2>3. Least(k, 4) = k
    BY <1>2 DEF Least
  <2> QED
    BY <1>2, <2>2, <2>3, SizesAre
<1>8. ValueOf(f, content) = UnsignedOf(content)
  BY DEF ValueOf
<1> HIDE DEF content
<1>9. Parts(f, v, <<k>>, content)
  BY <1>3, <1>4, <1>5, <1>6, <1>7, <1>8 DEF Parts
<1> QED
  BY <1>9

(* Two bytes hold every length that is written in two. *)
LEMMA TwoBytes ==
  ASSUME NEW n \in Nat, n < Base * Base
  PROVE  /\ Number(n, Short) \in Seq(Bytes) /\ Len(Number(n, Short)) = 2
         /\ UnsignedOf(Number(n, Short)) = n
<1>1. Power[2] = Base * Base
  <2>1. 2 \in 1..4 /\ 2 - 1 = 1
    OBVIOUS
  <2> QED
    BY <2>1, PowerStep, PowerFirst
<1>2. n \in Int /\ Short = 2 /\ 2 \in 0..4
  BY DEF Short
<1>3. n \in Unsigned(2)
  <2>1. PICK p \in Int : p = Base * Base /\ p = Power[2] /\ n < p
    BY <1>1, BaseNat
  <2> QED
    BY <2>1 DEF Unsigned
<1> QED
  BY <1>2, <1>3, NumberIs, UnsignedReads

(* Every length fits into two bytes, that of a key into one. *)
LEMMA SizeBounds ==
  /\ \A s \in {MaxString, MaxVector, NameSize, SessionSize, KeyLen, MaxData} : s \in Nat /\ s < Base * Base
  /\ KeyLen < Base
BY WireSizes

(* What is no greater than what fits, fits. *)
LEMMA SmallerFits ==
  ASSUME NEW n \in Nat, NEW m \in Nat, n <= m, m < Base * Base
  PROVE  n < Base * Base
<1>1. PICK p \in Int : p = Base * Base
  BY BaseNat
<1> QED
  BY <1>1

(* The first element of two sequences joined, *)
LEMMA FirstOf ==
  ASSUME NEW T, NEW a \in Seq(T), NEW b \in Seq(T), Len(a) > 0
  PROVE  a \o b \in Seq(T) /\ Len(a \o b) > 0 /\ (a \o b)[1] = a[1] /\ a \o b # <<>>
<1>1. PICK n \in Nat, m \in Nat : n = Len(a) /\ m = Len(b) /\ n > 0
  BY LenProperties
<1>2. /\ a \o b \in Seq(T) /\ Len(a \o b) = n + m
      /\ \A i \in 1..(n + m) : (a \o b)[i] = IF i <= n THEN a[i] ELSE b[i - n]
  BY <1>1, ConcatProperties
<1>3. 1 \in 1..(n + m) /\ 1 <= n
  BY <1>1
<1> QED
  BY <1>1, <1>2, <1>3, EmptySeq

(* and of three sequences joined. *)
LEMMA FirstOfThree ==
  ASSUME NEW T, NEW a \in Seq(T), NEW b \in Seq(T), NEW c \in Seq(T), Len(a) > 0
  PROVE  ((a \o b) \o c)[1] = a[1] /\ (a \o b) \o c # <<>>
<1>1. PICK ab \in Seq(T) : ab = a \o b /\ Len(ab) > 0 /\ ab[1] = a[1]
  BY FirstOf
<1> QED
  BY <1>1, FirstOf

(* An array of characters has no header. *)
LEMMA CharsParts ==
  ASSUME NEW f, f.type = "chars", NEW v \in Seq(Bytes), Len(v) = f.size
  PROVE  Parts(f, v, <<>>, v)
<1>1. Len(<<>>) = 0 /\ <<>> \in Seq(Bytes) /\ <<>> \o v = v
  BY ConcatEmptySeq
<1>2. Write(f, v) = v /\ ValueOf(f, v) = v
  BY DEF Write, ValueOf
<1>3. \A in : HeaderSize(f, in) = 0 /\ ContentSize(f, in) = f.size /\ ~TooLong(f, in)
  BY DEF HeaderSize, ContentSize, TooLong
<1> QED
  BY <1>1, <1>2, <1>3 DEF Parts

(* A key has its length in one byte, *)
LEMMA KeyParts ==
  ASSUME NEW f, f.type = "key", f.size = KeyLen, NEW v \in Seq(Bytes), Len(v) <= f.size
  PROVE  Parts(f, v, <<Len(v)>>, v)
<1>1. PICK n \in Nat : n = Len(v) /\ n <= KeyLen
  BY LenProperties
<1>2. n < Base /\ KeyLen \in Nat
  BY <1>1, SizeBounds, BaseNat
<1>3. Len(<<n>>) = 1 /\ <<n>>[1] = n /\ n \in Int /\ 0 <= n
  OBVIOUS
<1>4. <<n>> \in Seq(Bytes) /\ Len(<<n>>) = 1 /\ <<n>>[1] = n
  BY <1>2, <1>3, OneByte
<1>5. Write(f, v) = <<n>> \o v /\ ValueOf(f, v) = v
  BY <1>1 DEF Write, ValueOf
<1>6. \A in : HeaderSize(f, in) = 1 /\ ~TooLong(f, in)
  BY DEF HeaderSize, TooLong
<1>7. ContentSize(f, <<n>>) = n
  <2>1. ContentSize(f, <<n>>) = Least(n, KeyLen)
    BY <1>4 DEF ContentSize
  <2> QED
    BY <1>1, <1>2, <2>1 DEF Least
<1>8. Parts(f, v, <<n>>, v)
  BY <1>1, <1>4, <1>5, <1>6, <1>7 DEF Parts
<1> QED
  BY <1>1, <1>8

(* data in two, *)
LEMMA DataParts ==
  ASSUME NEW f, f.type = "data", f.size = MaxData, NEW v \in Seq(Bytes), Len(v) <= f.size
  PROVE  Parts(f, v, Number(Len(v), Short), v)
<1>1. PICK n \in Nat : n = Len(v) /\ n <= MaxData
  BY LenProperties
<1>2. n < Base * Base /\ MaxData \in Nat
  BY <1>1, SizeBounds, SmallerFits
<1> DEFINE head == Number(n, Short)
<1>3. head \in Seq(Bytes) /\ Len(head) = 2 /\ UnsignedOf(head) = n
  BY <1>2, TwoBytes
<1>4. Write(f, v) = head \o v /\ ValueOf(f, v) = v
  BY <1>1 DEF Write, ValueOf
<1> HIDE DEF head
<1>5. \A in : HeaderSize(f, in) = 2
  BY DEF HeaderSize, Short
<1>6. ContentSize(f, head) = n
  BY <1>3 DEF ContentSize
<1>7. ~TooLong(f, head)
  BY <1>1, <1>2, <1>6 DEF TooLong
<1>8. Parts(f, v, head, v)
  BY <1>1, <1>3, <1>4, <1>5, <1>6, <1>7 DEF Parts
<1> QED
  BY <1>1, <1>8 DEF head

(* a text in one, or in two after a byte that says so. *)
LEMMA TextParts ==
  ASSUME NEW f, f.type = "text", f.size \in 0..MaxString, NEW v \in Seq(Bytes), Len(v) <= f.size
  PROVE  \E head : Parts(f, v, head, v)
<1>1. PICK n \in Nat : n = Len(v) /\ n <= f.size
  BY LenProperties
<1>2. n < Base * Base /\ LongForm \in Int /\ 0 <= LongForm /\ LongForm < Base
  <2>1. MaxString \in Nat /\ MaxString < Base * Base /\ n <= MaxString
    BY <1>1, SizeBounds
  <2>2. n < Base * Base
    BY <2>1, SmallerFits
  <2> QED
    BY <2>2, BaseNat DEF LongForm
<1>3. Write(f, v) = CString(v) /\ ValueOf(f, v) = v
  BY DEF Write, ValueOf
<1>4. CASE n < LongForm
  <2>1. Len(<<n>>) = 1 /\ <<n>>[1] = n /\ n < Base
    BY <1>2, <1>4, BaseNat
  <2>2. <<n>> \in Seq(Bytes) /\ Len(<<n>>) = 1 /\ <<n>>[1] = n /\ UnsignedOf(<<n>>) = n
    BY <2>1, OneByte
  <2>3. Write(f, v) = <<n>> \o v
    BY <1>1, <1>3, <1>4 DEF CString
  <2>4. ASSUME NEW rest \in Seq(Bytes) PROVE HeaderSize(f, (<<n>> \o v) \o rest) = 1
    <3> DEFINE in == (<<n>> \o v) \o rest
    <3>1. in[1] = n
      BY <2>2, FirstOfThree
    <3> HIDE DEF in
    <3>2. ~(in[1] = LongForm)
      BY <3>1, <1>2, <1>4
    <3>3. HeaderSize(f, in) = 1
      BY <3>2 DEF HeaderSize
    <3> QED
      BY <3>3 DEF in
  <2>5. ContentSize(f, <<n>>) = n
    BY <2>2 DEF ContentSize
  <2>6. ~TooLong(f, <<n>>)
    BY <2>2 DEF TooLong
  <2>7. Parts(f, v, <<n>>, v)
    BY <1>1, <1>3, <2>2, <2>3, <2>4, <2>5, <2>6 DEF Parts
  <2> QED
    BY <2>7
<1>5. CASE ~(n < LongForm)
  <2> DEFINE number == Number(n, Short)
             head == <<LongForm>> \o number
  <2>1. number \in Seq(Bytes) /\ Len(number) = 2 /\ UnsignedOf(number) = n
    BY <1>2, TwoBytes
  <2>2. Write(f, v) = head \o v
    BY <1>1, <1>3, <1>5 DEF CString
  <2> HIDE DEF number
  <2>3. <<LongForm>> \in Seq(Bytes) /\ Len(<<LongForm>>) = 1 /\ <<LongForm>>[1] = LongForm
    BY <1>2, OneByte
  <2>4. head \in Seq(Bytes) /\ Len(head) = 3 /\ head[1] = LongForm
    <3>1. PICK one \in Seq(Bytes) : one = <<LongForm>> /\ Len(one) = 1 /\ one[1] = LongForm
      BY <2>3
    <3>2. PICK num \in Seq(Bytes) : num = number /\ Len(num) = 2
      BY <2>1
    <3>3. one \o num \in Seq(Bytes) /\ Len(one \o num) = Len(one) + Len(num)
      BY ConcatProperties
    <3>4. (one \o num)[1] = LongForm
      BY <3>1, FirstOf
    <3> QED
      BY <3>1, <3>2, <3>3, <3>4
  <2>5. Tail(head) = number
    <3>1. head # <<>> /\ SubSeq(head, 1 + 1, 3) = number
      BY <2>1, <2>3, <2>4, Cut
    <3> QED
      BY <2>4, <3>1, TailIsSubSeq
  <2> HIDE DEF head
  <2>6. ASSUME NEW rest \in Seq(Bytes) PROVE HeaderSize(f, (head \o v) \o rest) = 3
    <3> DEFINE in == (head \o v) \o rest
    <3>1. PICK h \in Seq(Bytes) : h = head /\ Len(h) > 0 /\ h[1] = LongForm
      BY <2>4
    <3>2. in[1] = LongForm /\ in # <<>>
      BY <3>1, FirstOfThree
    <3> HIDE DEF in
    <3>3. HeaderSize(f, in) = IF in # <<>> /\ in[1] = LongForm THEN 3 ELSE 1
      BY DEF HeaderSize
    <3>4. HeaderSize(f, in) = 3
      BY <3>2, <3>3, Zenon
    <3> QED
      BY <3>4 DEF in
  <2>7. ContentSize(f, head) = n
    <3>1. ContentSize(f, head) = UnsignedOf(IF Len(head) = 1 THEN head ELSE Tail(head))
      BY DEF ContentSize
    <3>2. (IF Len(head) = 1 THEN head ELSE Tail(head)) = number
      BY <2>4, <2>5
    <3> QED
      BY <2>1, <3>1, <3>2
  <2>8. ~TooLong(f, head)
    BY <1>1, <2>7 DEF TooLong
  <2>9. Parts(f, v, head, v)
    BY <1>1, <1>3, <2>4, <2>2, <2>6, <2>7, <2>8 DEF Parts
  <2> QED
    BY <2>9
<1> QED
  BY <1>4, <1>5

(* The multiples of k. *)
LEMMA Multiples ==
  ASSUME NEW k \in Nat \ {0}, NEW n \in Nat
  PROVE  /\ k * n \in Nat /\ k * (n + 1) = k * n + k
         /\ \A i \in 1..n : k * (i - 1) \in Nat /\ k * i \in Nat /\ k * i <= k * n
                             /\ k * (i - 1) + k = k * i
<1>1. k * n \in Nat /\ k * (n + 1) = k * n + k
  OBVIOUS
<1>2. ASSUME NEW i \in 1..n
      PROVE  k * (i - 1) \in Nat /\ k * i \in Nat /\ k * i <= k * n /\ k * (i - 1) + k = k * i
  <2>1. PICK j \in Nat : i = j + 1
    <3>1. i - 1 \in Nat /\ i = (i - 1) + 1
      OBVIOUS
    <3> QED
      BY <3>1
  <2>2. PICK d \in Nat : n = i + d
    <3>1. n - i \in Nat /\ n = i + (n - i)
      OBVIOUS
    <3> QED
      BY <3>1
  <2>3. i - 1 = j /\ i \in Nat
    BY <2>1
  <2>4. k * j \in Nat /\ k * i = k * j + k
    BY <2>1
  <2>5. k * n = k * i + k * d /\ k * d \in Nat /\ k * i \in Nat
    BY <2>2
  <2>6. k * i <= k * n
    BY <2>5
  <2> QED
    BY <2>3, <2>4, <2>5, <2>6
<1> QED
  BY <1>1, <1>2

(* Pieces of one length, put together, are found where they were put. *)
LEMMA EqualPieces ==
  ASSUME NEW T, NEW k \in Nat \ {0}, NEW s \in Seq(Seq(T)), \A i \in 1..Len(s) : Len(s[i]) = k
  PROVE  /\ Len(FlattenSeq(s)) = k * Len(s)
         /\ \A i \in 1..Len(s) : SubSeq(FlattenSeq(s), k * (i - 1) + 1, k * i) = s[i]
<1> DEFINE Good(u) == /\ Len(FlattenSeq(u)) = k * Len(u)
                      /\ \A i \in 1..Len(u) : SubSeq(FlattenSeq(u), k * (i - 1) + 1, k * i) = u[i]
           A == {u \in Seq(Seq(T)) : (\A i \in 1..Len(u) : Len(u[i]) = k) => Good(u)}
<1>1. <<>> \in A
  <2>1. Len(<<>>) = 0 /\ FlattenSeq(<<>>) = <<>> /\ k * 0 = 0 /\ <<>> \in Seq(Seq(T))
    BY FlattenEmpty
  <2> QED
    BY <2>1
<1>2. ASSUME NEW u \in Seq(Seq(T)), NEW x \in Seq(T), u \in A PROVE Append(u, x) \in A
  <2> DEFINE w == Append(u, x)
  <2>1. PICK n \in Nat : n = Len(u)
    BY LenProperties
  <2>2. /\ w \in Seq(Seq(T)) /\ Len(w) = n + 1 /\ w[n + 1] = x
        /\ \A i \in 1..n : w[i] = u[i]
    BY <2>1, AppendProperties
  <2>3. PICK g \in Seq(T) : g = FlattenSeq(u)
    BY FlattenType
  <2>4. FlattenSeq(w) = g \o x
    BY <2>3, FlattenAppend
  <2> HIDE DEF w
  <2> SUFFICES ASSUME \A i \in 1..Len(w) : Len(w[i]) = k PROVE Good(w)
    BY <2>2 DEF w
  <2>5. Len(x) = k /\ \A i \in 1..n : Len(u[i]) = k
    <3>1. n + 1 \in 1..(n + 1) /\ \A i \in 1..n : i \in 1..(n + 1)
      OBVIOUS
    <3> QED
      BY <2>2, <3>1
  <2>6. Len(g) = k * n /\ \A i \in 1..n : SubSeq(g, k * (i - 1) + 1, k * i) = u[i]
    BY <1>2, <2>1, <2>3, <2>5
  <2>7. PICK m \in Nat : m = k * n /\ k * (n + 1) = m + k
    BY Multiples
  <2>8. Len(g \o x) = m + k /\ SubSeq(g \o x, m + 1, m + k) = x
    <3>1. Len(g) = m /\ Len(x) = k
      BY <2>5, <2>6, <2>7
    <3>2. Len(g \o x) = Len(g) + Len(x) /\ SubSeq(g \o x, Len(g) + 1, Len(g \o x)) = x
      BY Cut
    <3> QED
      BY <3>1, <3>2
  <2>9. ASSUME NEW i \in 1..(n + 1) PROVE SubSeq(g \o x, k * (i - 1) + 1, k * i) = w[i]
    <3>1. CASE i = n + 1
      <4>1. i - 1 = n
        BY <3>1
      <4> QED
        BY <2>2, <2>7, <2>8, <3>1, <4>1
    <3>2. CASE i # n + 1
      <4>1. i \in 1..n
        BY <3>2
      <4>2. PICK a \in Nat, b \in Nat : a = k * (i - 1) /\ b = k * i /\ b <= m /\ a + k = b
        BY <2>7, <4>1, Multiples
      <4>3. Len(g) = m
        BY <2>6, <2>7
      <4>4. a + k = b /\ b <= m
        BY <4>2
      <4>5. PICK c \in 1..Len(g) : c = a + 1 /\ b \in 1..Len(g)
        BY <4>3, <4>4
      <4>6. SubSeq(g \o x, c, b) = SubSeq(g, c, b)
        BY <4>5, SubSeqOfConcat1
      <4> QED
        <5>1. SubSeq(g, k * (i - 1) + 1, k * i) = u[i]
          BY <2>6, <4>1
        <5>2. w[i] = u[i]
          BY <2>2, <4>1
        <5> QED
          BY <4>2, <4>5, <4>6, <5>1, <5>2
    <3> QED
      BY <3>1, <3>2
  <2> QED
    BY <2>2, <2>4, <2>7, <2>8, <2>9
<1> HIDE DEF A
<1>3. s \in A
  BY <1>1, <1>2, SeqInduction
<1> QED
  BY <1>3 DEF A

(* A vector has its length as a header, and numbers of one width behind it. *)
LEMMA VectorParts ==
  ASSUME NEW f, f.type = "vector", f.size \in 0..MaxVector, f.of \in 1..4,
         NEW v \in Seq(Unsigned(f.of)), Len(v) <= f.size
  PROVE  \E head, content : Parts(f, v, head, content)
<1>1. PICK k \in 1..4 : k = f.of
  OBVIOUS
<1>2. PICK n \in Nat : n = Len(v) /\ n <= f.size /\ DOMAIN v = 1..n
  BY LenProperties
<1>3. n < Base * Base
  <2>1. MaxVector \in Nat /\ MaxVector < Base * Base /\ n <= MaxVector
    BY <1>2, SizeBounds
  <2> QED
    BY <2>1, SmallerFits
<1> DEFINE head == Number(n, Short)
           s == [i \in 1..n |-> Number(v[i], k)]
           content == FlattenSeq(s)
<1>4. head \in Seq(Bytes) /\ Len(head) = 2 /\ UnsignedOf(head) = n
  BY <1>3, TwoBytes
<1>5. \A i \in 1..n : /\ Number(v[i], k) \in Seq(Bytes) /\ Len(Number(v[i], k)) = k
                      /\ UnsignedOf(Number(v[i], k)) = v[i]
  <2> SUFFICES ASSUME NEW i \in 1..n
               PROVE  /\ Number(v[i], k) \in Seq(Bytes) /\ Len(Number(v[i], k)) = k
                      /\ UnsignedOf(Number(v[i], k)) = v[i]
    OBVIOUS
  <2>1. PICK x \in Unsigned(k) : x = v[i]
    BY <1>1, <1>2, ElementOfSeq
  <2>2. k \in 0..4 /\ x \in Int
    BY DEF Unsigned
  <2> QED
    BY <2>1, <2>2, NumberIs, UnsignedReads
<1>6. s \in Seq(Seq(Bytes)) /\ Len(s) = n /\ \A i \in 1..n : s[i] = Number(v[i], k)
  BY <1>5
<1>7. Write(f, v) = head \o content
  <2>1. Write(f, v) = Number(Len(v), Short) \o FlattenSeq([i \in DOMAIN v |-> Number(v[i], f.of)])
    BY DEF Write
  <2> QED
    BY <1>1, <1>2, <2>1, Zenon
<1> HIDE DEF s, head
<1>8. \A i \in 1..n : Len(s[i]) = k
  BY <1>5, <1>6
<1>9. k \in Nat \ {0}
  OBVIOUS
<1>10. Len(content) = k * n /\ \A i \in 1..n : SubSeq(content, k * (i - 1) + 1, k * i) = s[i]
  BY <1>6, <1>8, <1>9, EqualPieces
<1>11. content \in Seq(Bytes)
  BY <1>6, FlattenType
<1> HIDE DEF content
<1>12. \A in : HeaderSize(f, in) = 2
  BY DEF HeaderSize, Short
<1>13. ContentSize(f, head) = k * n
  <2>1. ContentSize(f, head) = f.of * UnsignedOf(head)
    BY DEF ContentSize
  <2> QED
    BY <1>1, <1>4, <2>1
<1>14. ~TooLong(f, head)
  BY <1>2, <1>4 DEF TooLong
<1>15. ValueOf(f, content) = v
  <2>1. ValueOf(f, content) =
          [i \in 1..(Len(content) \div f.of) |->
             UnsignedOf(SubSeq(content, f.of * (i - 1) + 1, f.of * i))]
    BY DEF ValueOf
  <2>2. Len(content) \div f.of = n
    <3>1. (k * n) \div k = n
      <4>1. 1 * n = n /\ (1 * n) \div 1 = n /\ (2 * n) \div 2 = n /\ (3 * n) \div 3 = n /\ (4 * n) \div 4 = n
        OBVIOUS
      <4>2. k = 1 \/ k = 2 \/ k = 3 \/ k = 4
        OBVIOUS
      <4> QED
        BY <4>1, <4>2
    <3> QED
      BY <1>1, <1>10, <3>1
  <2>3. \A i \in 1..n : UnsignedOf(SubSeq(content, k * (i - 1) + 1, k * i)) = v[i]
    BY <1>5, <1>6, <1>10
  <2>4. ValueOf(f, content) = [i \in 1..n |-> UnsignedOf(SubSeq(content, k * (i - 1) + 1, k * i))]
    BY <1>1, <2>1, <2>2
  <2>5. ValueOf(f, content) = [i \in 1..n |-> v[i]]
    BY <2>3, <2>4
  <2>6. v = [i \in 1..n |-> v[i]]
    BY <1>2, LenProperties
  <2> QED
    BY <2>5, <2>6
<1>16. Parts(f, v, head, content)
  BY <1>4, <1>7, <1>10, <1>11, <1>12, <1>13, <1>14, <1>15 DEF Parts
<1> QED
  BY <1>16

(* Every member that can be written is written as a header and a content, *)
LEMMA WriteParts ==
  ASSUME NEW f \in Fields, NEW v, HasType(v, f), InRange(f, v)
  PROVE  \E head, content : Parts(f, v, head, content)
<1>1. CASE f.type = "signed"
  <2>1. f.size \in 1..4
    BY <1>1, FieldKinds
  <2>2. v \in Signed(f.size)
    BY <1>1 DEF HasType
  <2> QED
    BY <1>1, <2>1, <2>2, SignedParts
<1>2. CASE f.type = "unsigned"
  <2>1. f.size \in 1..4
    BY <1>2, FieldKinds
  <2>2. v \in Unsigned(f.size)
    BY <1>2 DEF HasType
  <2> QED
    BY <1>2, <2>1, <2>2, UnsignedParts
<1>3. CASE f.type = "sbig"
  <2>1. f.size = 4
    BY <1>3, FieldKinds
  <2>2. v \in Signed(f.size)
    BY <1>3 DEF HasType
  <2> QED
    BY <1>3, <2>1, <2>2, SBigParts
<1>4. CASE f.type = "ubig"
  <2>1. f.size = 4
    BY <1>4, FieldKinds
  <2>2. v \in Unsigned(f.size)
    BY <1>4 DEF HasType
  <2> QED
    BY <1>4, <2>1, <2>2, UBigParts
<1>5. CASE f.type = "text"
  <2>1. f.size \in 0..MaxString
    BY <1>5, FieldKinds
  <2>2. v \in Seq(Bytes) /\ Len(v) <= f.size
    BY <1>5 DEF HasType, InRange
  <2> QED
    BY <1>5, <2>1, <2>2, TextParts
<1>6. CASE f.type = "chars"
  <2>1. v \in Seq(Bytes) /\ Len(v) = f.size
    BY <1>6 DEF HasType
  <2> QED
    BY <1>6, <2>1, CharsParts
<1>7. CASE f.type = "key"
  <2>1. f.size = KeyLen
    BY <1>7, FieldKinds
  <2>2. v \in Seq(Bytes) /\ Len(v) <= f.size
    BY <1>7 DEF HasType
  <2> QED
    BY <1>7, <2>1, <2>2, KeyParts
<1>8. CASE f.type = "data"
  <2>1. f.size = MaxData
    BY <1>8, FieldKinds
  <2>2. v \in Seq(Bytes) /\ Len(v) <= f.size
    BY <1>8 DEF HasType
  <2> QED
    BY <1>8, <2>1, <2>2, DataParts
<1>9. CASE f.type = "vector"
  <2>1. f.size \in 0..MaxVector /\ f.of \in 1..4
    BY <1>9, FieldKinds
  <2>2. v \in Seq(Unsigned(f.of)) /\ Len(v) <= f.size
    BY <1>9 DEF HasType, InRange
  <2> QED
    BY <1>9, <2>1, <2>2, VectorParts
<1> QED
  BY <1>1, <1>2, <1>3, <1>4, <1>5, <1>6, <1>7, <1>8, <1>9, FieldKinds

(* and operator>> reads it back, whatever follows it. *)
LEMMA WriteIsRead ==
  ASSUME NEW f \in Fields, NEW v, HasType(v, f), InRange(f, v)
  PROVE  /\ Write(f, v) \in Seq(Bytes)
         /\ \A rest \in Seq(Bytes) : \A vals :
              Read([left |-> Write(f, v) \o rest, vals |-> vals, ok |-> TRUE], f)
                = [left |-> rest, vals |-> Append(vals, v), ok |-> TRUE]
<1>1. PICK head, content : Parts(f, v, head, content)
  BY WriteParts
<1>2. Write(f, v) \in Seq(Bytes)
  BY <1>1, ConcatProperties DEF Parts
<1>3. ASSUME NEW rest \in Seq(Bytes), NEW vals
      PROVE  Read([left |-> Write(f, v) \o rest, vals |-> vals, ok |-> TRUE], f)
               = [left |-> rest, vals |-> Append(vals, v), ok |-> TRUE]
  BY <1>1, ReadWhatWasWritten
<1> QED
  BY <1>2, <1>3

-----------------------------------------------------------------------------
(* Messages.                                                               *)

(* The values of a message with this layout. *)
Typed(layout, vals) ==
  /\ vals = [i \in DOMAIN layout |-> vals[i]]
  /\ \A i \in DOMAIN layout : HasType(vals[i], layout[i])

(* What ExplainMsg reads is what operator<< wrote. *)
THEOREM EncodeIsExplained ==
  ASSUME NEW layout \in Seq(Fields), NEW vals, Typed(layout, vals), Encodable(layout, vals)
  PROVE  Encode(layout, vals) \in Seq(Bytes) /\ ExplainMsg(layout, Encode(layout, vals)) = vals
<1> DEFINE V == {vals[i] : i \in DOMAIN layout}
<1>1. PICK n \in Nat : n = Len(layout) /\ DOMAIN layout = 1..n
  BY LenProperties
<1>2. vals \in Seq(V) /\ Len(vals) = n /\ DOMAIN vals = 1..n
  <2>1. vals = [i \in 1..n |-> vals[i]] /\ \A i \in 1..n : vals[i] \in V
    BY <1>1 DEF Typed
  <2>2. vals \in [1..n -> V]
    BY <2>1
  <2> HIDE DEF V
  <2> QED
    BY <2>2
<1> HIDE DEF V
<1>3. \A i \in 1..n : layout[i] \in Fields /\ HasType(vals[i], layout[i]) /\ InRange(layout[i], vals[i])
  BY <1>1, ElementOfSeq DEF Typed, Encodable
<1> DEFINE W == [i \in 1..n |-> Write(layout[i], vals[i])]
<1>4. \A i \in 1..n :
        /\ Write(layout[i], vals[i]) \in Seq(Bytes)
        /\ \A rest \in Seq(Bytes) : \A got :
             Read([left |-> Write(layout[i], vals[i]) \o rest, vals |-> got, ok |-> TRUE], layout[i])
               = [left |-> rest, vals |-> Append(got, vals[i]), ok |-> TRUE]
  BY <1>3, WriteIsRead, Zenon
<1>5. W \in Seq(Seq(Bytes)) /\ Len(W) = n /\ \A i \in 1..n : W[i] = Write(layout[i], vals[i])
  BY <1>4
<1>6. Encode(layout, vals) = FlattenSeq(W)
  BY <1>1, Zenon DEF Encode
<1> HIDE DEF W
<1> DEFINE Left(i) == FlattenSeq(SubSeq(W, i + 1, n))
           b == [i \in 0..n |-> [left |-> Left(i), vals |-> SubSeq(vals, 1, i), ok |-> TRUE]]
<1>7. \A i \in 0..n : SubSeq(W, i + 1, n) \in Seq(Seq(Bytes)) /\ Left(i) \in Seq(Bytes)
  <2> SUFFICES ASSUME NEW i \in 0..n PROVE SubSeq(W, i + 1, n) \in Seq(Seq(Bytes)) /\ Left(i) \in Seq(Bytes)
    OBVIOUS
  <2>1. i \in Nat /\ i <= n /\ n <= Len(W)
    BY <1>5
  <2>2. SubSeq(W, i + 1, n) \in Seq(Seq(Bytes))
    BY <1>5, <2>1, Slice
  <2> QED
    BY <2>2, FlattenType
<1>8. Left(0) = FlattenSeq(W) /\ Left(n) = <<>>
  <2>1. SubSeq(W, 1, n) = W
    BY <1>5, SubSeqFull
  <2>2. SubSeq(W, n + 1, n) = <<>>
    BY SubSeqEmpty
  <2>3. 0 + 1 = 1
    OBVIOUS
  <2> QED
    BY <2>1, <2>2, <2>3, FlattenEmpty
<1>9. \A i \in 1..n : Left(i - 1) = W[i] \o Left(i)
  <2> SUFFICES ASSUME NEW i \in 1..n PROVE Left(i - 1) = W[i] \o Left(i)
    OBVIOUS
  <2>1. (i - 1) + 1 = i /\ i \in 0..n /\ n \in i..n
    OBVIOUS
  <2>2. SubSeq(W, i, n) = <<W[i]>> \o SubSeq(W, i + 1, n)
    BY <1>5, <2>1, SubSeqRecursiveFirst
  <2>3. PICK x \in Seq(Bytes) : x = W[i]
    BY <1>4, <1>5
  <2>4. PICK r \in Seq(Seq(Bytes)) : r = SubSeq(W, i + 1, n)
    BY <1>7, <2>1
  <2>5. <<x>> \in Seq(Seq(Bytes)) /\ FlattenSeq(<<x>>) = x
    BY FlattenOne
  <2>6. FlattenSeq(<<x>> \o r) = FlattenSeq(<<x>>) \o FlattenSeq(r)
    BY <2>5, FlattenConcat
  <2> QED
    BY <2>1, <2>2, <2>3, <2>4, <2>5, <2>6
<1> HIDE DEF Left
<1>10. \A i \in 1..n : SubSeq(vals, 1, i) = Append(SubSeq(vals, 1, i - 1), vals[i])
  <2> SUFFICES ASSUME NEW i \in 1..n PROVE SubSeq(vals, 1, i) = Append(SubSeq(vals, 1, i - 1), vals[i])
    OBVIOUS
  <2>1. 1 \in 1..Len(vals) /\ i \in 1..Len(vals)
    BY <1>2
  <2>2. SubSeq(vals, 1, i) = SubSeq(vals, 1, i - 1) \o <<vals[i]>>
    BY <1>2, <2>1, SubSeqRecursiveSecond
  <2>3. SubSeq(vals, 1, i - 1) \in Seq(V) /\ vals[i] \in V
    <3>1. PICK j \in Nat : j = i - 1 /\ j <= Len(vals)
      BY <1>2
    <3>2. 0 \in Nat /\ 0 <= j
      OBVIOUS
    <3>3. SubSeq(vals, 0 + 1, j) \in Seq(V)
      BY <1>2, <3>1, <3>2, Slice
    <3> QED
      BY <1>2, <2>1, <3>1, <3>3, ElementOfSeq
  <2> QED
    BY <2>2, <2>3, AppendIsConcat
<1>11. Reading(FlattenSeq(W)) = [left |-> Left(0), vals |-> SubSeq(vals, 1, 0), ok |-> TRUE]
  <2>1. SubSeq(vals, 1, 0) = <<>>
    BY SubSeqEmpty
  <2> QED
    BY <1>8, <2>1, Zenon DEF Reading
<1>12. \A i \in 1..n : Read([left |-> Left(i - 1), vals |-> SubSeq(vals, 1, i - 1), ok |-> TRUE], layout[i])
                        = [left |-> Left(i), vals |-> SubSeq(vals, 1, i), ok |-> TRUE]
  <2> SUFFICES ASSUME NEW i \in 1..n
               PROVE  Read([left |-> Left(i - 1), vals |-> SubSeq(vals, 1, i - 1), ok |-> TRUE], layout[i])
                        = [left |-> Left(i), vals |-> SubSeq(vals, 1, i), ok |-> TRUE]
    OBVIOUS
  <2>1. i \in 0..n
    OBVIOUS
  <2>2. Read([left |-> W[i] \o Left(i), vals |-> SubSeq(vals, 1, i - 1), ok |-> TRUE], layout[i])
          = [left |-> Left(i), vals |-> Append(SubSeq(vals, 1, i - 1), vals[i]), ok |-> TRUE]
    BY <1>4, <1>5, <1>7, <2>1, Zenon
  <2> QED
    BY <2>2, <1>9, <1>10, Zenon
<1> DEFINE data == FlattenSeq(W)
           bis == CHOOSE f : f = [i \in 0..Len(layout) |->
                                    IF i = 0 THEN Reading(data) ELSE Read(f[i - 1], layout[i])]
<1>13. b = [i \in 0..n |-> IF i = 0 THEN Reading(data) ELSE Read(b[i - 1], layout[i])]
  <2>1. \A i \in 0..n : b[i] = IF i = 0 THEN Reading(data) ELSE Read(b[i - 1], layout[i])
    <3> SUFFICES ASSUME NEW i \in 0..n
                 PROVE  b[i] = IF i = 0 THEN Reading(data) ELSE Read(b[i - 1], layout[i])
      OBVIOUS
    <3>1. CASE i = 0
      BY <1>11, <3>1, Zenon
    <3>2. CASE i # 0
      <4>1. i \in 1..n /\ i - 1 \in 0..n
        BY <3>2
      <4> QED
        BY <1>12, <3>2, <4>1, Zenon
    <3> QED
      BY <3>1, <3>2
  <2> HIDE DEF data
  <2>2. b = [i \in 0..n |-> b[i]]
    BY Zenon
  <2> HIDE DEF b
  <2> QED
    BY <2>1, <2>2
<1>14. ExplainMsg(layout, data) = IF bis[Len(layout)].ok THEN bis[Len(layout)].vals ELSE "error"
  BY Zenon DEF ExplainMsg
<1>15. \E f : f = [i \in 0..Len(layout) |-> IF i = 0 THEN Reading(data) ELSE Read(f[i - 1], layout[i])]
  <2> HIDE DEF b, bis
  <2>1. b = [i \in 0..Len(layout) |-> IF i = 0 THEN Reading(data) ELSE Read(b[i - 1], layout[i])]
    BY <1>1, <1>13
  <2> QED
    BY <2>1
<1>16. bis = [i \in 0..Len(layout) |-> IF i = 0 THEN Reading(data) ELSE Read(bis[i - 1], layout[i])]
  BY <1>15, Zenon
<1>17. bis = [i \in 0..n |-> IF i = 0 THEN Reading(data) ELSE Read(bis[i - 1], layout[i])]
  <2> HIDE DEF bis
  <2> QED
    BY <1>1, <1>16
<1> HIDE DEF bis, data
<1>18. \A i \in 0..n : bis[i] = IF i = 0 THEN Reading(data) ELSE Read(bis[i - 1], layout[i])
  BY <1>17
<1>19. \A i \in 0..n : b[i] = IF i = 0 THEN Reading(data) ELSE Read(b[i - 1], layout[i])
  <2> HIDE DEF b
  <2> QED
    BY <1>13
<1> DEFINE A == {i \in Nat : i <= n => bis[i] = b[i]}
<1>20. 0 \in A
  <2>1. 0 \in 0..n
    OBVIOUS
  <2> HIDE DEF b
  <2>2. bis[0] = b[0]
    BY <1>18, <1>19, <2>1
  <2> QED
    BY <2>2
<1>21. ASSUME NEW i \in Nat, i \in A PROVE i + 1 \in A
  <2> SUFFICES ASSUME i + 1 <= n PROVE bis[i + 1] = b[i + 1]
    OBVIOUS
  <2> HIDE DEF b
  <2>1. PICK j \in 0..n : j = i + 1 /\ j # 0 /\ j - 1 = i
    OBVIOUS
  <2>2. bis[j - 1] = b[j - 1]
    BY <1>21, <2>1
  <2> QED
    BY <1>18, <1>19, <2>1, <2>2
<1> HIDE DEF A
<1>22. n \in A
  BY <1>20, <1>21, Induction
<1>23. bis[n] = b[n]
  BY <1>22 DEF A
<1>24. bis[n].ok /\ bis[n].vals = SubSeq(vals, 1, n)
  <2>1. n \in 0..n
    OBVIOUS
  <2>2. bis[n] = [left |-> Left(n), vals |-> SubSeq(vals, 1, n), ok |-> TRUE]
    BY <1>23, <2>1, Zenon
  <2>3. bis[n].vals = SubSeq(vals, 1, n)
    BY <2>2
  <2>4. bis[n].ok
    <3> DEFINE x == bis[n]
    <3>1. x = [left |-> Left(n), vals |-> SubSeq(vals, 1, n), ok |-> TRUE]
      BY <2>2
    <3> HIDE DEF x
    <3>2. x.ok = TRUE
      BY <3>1, Zenon
    <3>3. bis[n].ok = TRUE
      BY <3>2 DEF x
    <3> QED
      BY <3>3
  <2> QED
    BY <2>3, <2>4
<1>25. SubSeq(vals, 1, n) = vals
  BY <1>2, SubSeqFull
<1>26. ExplainMsg(layout, data) = vals
  BY <1>1, <1>14, <1>24, <1>25, Zenon
<1> QED
  BY <1>5, <1>6, <1>26, FlattenType DEF data

(* A byte that is added modulo B can be taken away again. *)
LEMMA AddAndTakeAway ==
  ASSUME NEW B \in Nat \ {0}, NEW a \in Int, NEW b \in Int, 0 <= a, a < B, 0 <= b, b < B
  PROVE  /\ (a + b) % B \in Int /\ 0 <= (a + b) % B /\ (a + b) % B < B
         /\ (((a + b) % B) - b) % B = a
<1>1. (a + b) % B = IF a + b < B THEN a + b ELSE a + b - B
  OBVIOUS
<1>2. \A x \in Int : 0 <= x /\ x < B => x % B = x
  OBVIOUS
<1>3. (a - B) % B = a
  OBVIOUS
<1>4. CASE a + b < B
  <2>1. (a + b) % B = a + b
    BY <1>1, <1>4
  <2>2. ((a + b) % B) - b = a
    BY <2>1
  <2> QED
    BY <1>2, <1>4, <2>1, <2>2
<1>5. CASE ~(a + b < B)
  <2>1. (a + b) % B = a + b - B
    BY <1>1, <1>5
  <2>2. ((a + b) % B) - b = a - B
    BY <2>1
  <2> QED
    BY <1>3, <1>5, <2>1, <2>2
<1> QED
  BY <1>4, <1>5

(* Decryption undoes encryption. *)
THEOREM DecryptUndoesEncrypt ==
  ASSUME NEW data \in Seq(Bytes)
  PROVE  encrypt(data) \in Seq(Bytes) /\ Len(encrypt(data)) = Len(data) /\ decrypt(encrypt(data)) = data
<1>1. PICK n \in Nat : n = Len(data) /\ DOMAIN data = 1..n
  BY LenProperties
<1> DEFINE g == [i \in 1..n |-> [x \in Bytes |-> (data[i] + x) % Base]]
           out == CHOOSE f : f = [i \in 0..Len(data) |-> IF i = 0 THEN IV ELSE (data[i] + f[i - 1]) % Base]
<1>2. encrypt(data) = [i \in DOMAIN data |-> out[i]]
  BY Zenon DEF encrypt
<1>3. \A i \in 1..n : data[i] \in Bytes
  BY <1>1, ElementOfSeq
<1>4. \A a \in Bytes, b \in Bytes : (a + b) % Base \in Bytes /\ (((a + b) % Base) - b) % Base = a
  <2> SUFFICES ASSUME NEW a \in Bytes, NEW b \in Bytes
               PROVE  (a + b) % Base \in Bytes /\ (((a + b) % Base) - b) % Base = a
    OBVIOUS
  <2>1. a \in Int /\ 0 <= a /\ a < Base /\ b \in Int /\ 0 <= b /\ b < Base
    BY ByteIs
  <2>2. PICK s \in Int : s = (a + b) % Base /\ 0 <= s /\ s < Base /\ (s - b) % Base = a
    BY <2>1, BaseNat, AddAndTakeAway
  <2>3. s \in Bytes
    BY <2>2, BaseNat DEF Bytes
  <2> QED
    BY <2>2, <2>3
<1>5. IV \in Bytes
  BY BaseNat DEF IV, Bytes
<1>6. g \in [1..n -> [Bytes -> Bytes]]
  BY <1>3, <1>4
<1>7. \A i \in 1..n : \A x \in Bytes : g[i][x] = (data[i] + x) % Base
  OBVIOUS
<1> HIDE DEF g, out
<1>8. PICK f \in [0..n -> Bytes] : Recursion(f, n, IV, g)
  BY <1>5, <1>6, RecursionExists
<1>9. \A i \in 0..n : f[i] = IF i = 0 THEN IV ELSE g[i][f[i - 1]]
  BY <1>8 DEF Recursion
<1>10. \A i \in 0..n : f[i] = IF i = 0 THEN IV ELSE (data[i] + f[i - 1]) % Base
  <2> SUFFICES ASSUME NEW i \in 0..n PROVE f[i] = IF i = 0 THEN IV ELSE (data[i] + f[i - 1]) % Base
    OBVIOUS
  <2>1. CASE i = 0
    BY <1>9, <2>1
  <2>2. CASE i # 0
    <3>1. i \in 1..n /\ f[i - 1] \in Bytes
      BY <2>2
    <3> QED
      BY <1>7, <1>9, <2>2, <3>1
  <2> QED
    BY <2>1, <2>2
<1>11. f = [i \in 0..n |-> IF i = 0 THEN IV ELSE (data[i] + f[i - 1]) % Base]
  BY <1>10
<1>12. out = [i \in 0..n |-> IF i = 0 THEN IV ELSE (data[i] + out[i - 1]) % Base]
  <2>1. \E x : x = [i \in 0..Len(data) |-> IF i = 0 THEN IV ELSE (data[i] + x[i - 1]) % Base]
    BY <1>1, <1>11, Zenon
  <2> QED
    BY <1>1, <2>1, Zenon DEF out
<1>13. out[0] = IV /\ \A i \in 1..n : out[i] = (data[i] + out[i - 1]) % Base
  <2>1. 0 \in 0..n /\ \A i \in 1..n : i \in 0..n /\ i # 0
    OBVIOUS
  <2> QED
    BY <1>12, <2>1
<1>14. out = [i \in 0..n |-> out[i]]
  BY <1>12
<1>15. \A i \in 1..n : out[i - 1] \in Bytes => out[i] \in Bytes
  BY <1>3, <1>4, <1>13
<1>16. out[0] \in Bytes
  BY <1>5, <1>13
<1>17. out \in [0..n -> Bytes]
  BY <1>14, <1>15, <1>16, RecursionTypes
<1>18. encrypt(data) = [i \in 1..n |-> out[i]]
  BY <1>2, <1>1
<1> DEFINE e == encrypt(data)
<1>19. e \in Seq(Bytes) /\ Len(e) = n /\ DOMAIN e = 1..n /\ \A i \in 1..n : e[i] = out[i]
  <2>1. \A i \in 1..n : i \in 0..n
    OBVIOUS
  <2> QED
    BY <1>17, <1>18, <2>1
<1> HIDE DEF e
<1>20. \A i \in 1..n : (e[i] - (IF i = 1 THEN IV ELSE e[i - 1])) % Base = data[i]
  <2> SUFFICES ASSUME NEW i \in 1..n
               PROVE  (e[i] - (IF i = 1 THEN IV ELSE e[i - 1])) % Base = data[i]
    OBVIOUS
  <2>1. (IF i = 1 THEN IV ELSE e[i - 1]) = out[i - 1]
    <3>1. CASE i = 1
      <4>1. i - 1 = 0
        BY <3>1
      <4> QED
        BY <1>13, <3>1, <4>1
    <3>2. CASE i # 1
      <4>1. i - 1 \in 1..n
        BY <3>2
      <4> QED
        BY <1>19, <3>2, <4>1
    <3> QED
      BY <3>1, <3>2
  <2>2. i - 1 \in 0..n /\ out[i - 1] \in Bytes /\ data[i] \in Bytes
    BY <1>3, <1>17
  <2>3. (((data[i] + out[i - 1]) % Base) - out[i - 1]) % Base = data[i]
    BY <1>4, <2>2
  <2>4. e[i] = (data[i] + out[i - 1]) % Base
    BY <1>13, <1>19
  <2> QED
    BY <2>1, <2>3, <2>4
<1>21. decrypt(e) = [i \in 1..n |-> (e[i] - (IF i = 1 THEN IV ELSE e[i - 1])) % Base]
  BY <1>19 DEF decrypt
<1>22. decrypt(e) = [i \in 1..n |-> data[i]]
  BY <1>20, <1>21
<1>23. data = [i \in 1..n |-> data[i]]
  BY <1>1, LenProperties
<1> QED
  BY <1>1, <1>19, <1>22, <1>23 DEF e

(* Two sequences that begin alike. *)
LEMMA SamePrefix ==
  ASSUME NEW T, NEW b \in Seq(T), NEW t \in Seq(T), NEW f \in Seq(T), NEW r \in Seq(T), b \o t = f \o r,
         NEW m \in Nat, NEW n \in Nat, m <= n, n <= Len(b), n <= Len(f)
  PROVE  /\ SubSeq(b, m + 1, n) = SubSeq(f, m + 1, n)
         /\ \A i \in 1..n : b[i] = f[i]
<1>1. PICK lb \in Nat, lt \in Nat, lf \in Nat, lr \in Nat :
        lb = Len(b) /\ lt = Len(t) /\ lf = Len(f) /\ lr = Len(r)
  BY LenProperties
<1>2. \A i \in 1..(lb + lt) : (b \o t)[i] = IF i <= lb THEN b[i] ELSE t[i - lb]
  BY <1>1, ConcatProperties
<1>3. \A i \in 1..(lf + lr) : (f \o r)[i] = IF i <= lf THEN f[i] ELSE r[i - lf]
  BY <1>1, ConcatProperties
<1>4. \A i \in 1..n : b[i] = f[i]
  <2> SUFFICES ASSUME NEW i \in 1..n PROVE b[i] = f[i]
    OBVIOUS
  <2>1. i \in 1..(lb + lt) /\ i <= lb /\ i \in 1..(lf + lr) /\ i <= lf
    BY <1>1
  <2> QED
    BY <1>2, <1>3, <2>1
<1>5. /\ SubSeq(b, m + 1, n) \in Seq(T) /\ Len(SubSeq(b, m + 1, n)) = n - m
      /\ \A i \in 1..(n - m) : SubSeq(b, m + 1, n)[i] = b[m + i]
  BY Slice
<1>6. /\ SubSeq(f, m + 1, n) \in Seq(T) /\ Len(SubSeq(f, m + 1, n)) = n - m
      /\ \A i \in 1..(n - m) : SubSeq(f, m + 1, n)[i] = f[m + i]
  BY Slice
<1>7. \A i \in 1..(n - m) : m + i \in 1..n
  OBVIOUS
<1>8. \A i \in 1..(n - m) : SubSeq(b, m + 1, n)[i] = SubSeq(f, m + 1, n)[i]
  BY <1>4, <1>5, <1>6, <1>7
<1>9. SubSeq(b, m + 1, n) = SubSeq(f, m + 1, n)
  BY <1>5, <1>6, <1>8, SeqEqual
<1> QED
  BY <1>4, <1>9

(* A sequence that is a prefix of another. *)
LEMMA SameStart ==
  ASSUME NEW T, NEW b \in Seq(T), NEW t \in Seq(T), NEW f \in Seq(T), NEW r \in Seq(T), b \o t = f \o r,
         NEW lf \in Nat, lf = Len(f), lf <= Len(b)
  PROVE  SubSeq(b, 1, lf) = f
<1>1. PICK zero \in Nat : zero = 0 /\ zero <= lf /\ zero + 1 = 1
  OBVIOUS
<1>2. SubSeq(b, zero + 1, lf) = SubSeq(f, zero + 1, lf)
  BY <1>1, SamePrefix
<1>3. SubSeq(f, 1, Len(f)) = f
  BY SubSeqFull
<1> QED
  BY <1>1, <1>2, <1>3

(* If the first is the longer one, it is the second and what follows it. *)
LEMMA LongerPrefix ==
  ASSUME NEW T, NEW b \in Seq(T), NEW t \in Seq(T), NEW f \in Seq(T), NEW r \in Seq(T), Len(b) >= Len(f)
  PROVE  b \o t = f \o r => /\ SubSeq(b, Len(f) + 1, Len(b)) \in Seq(T)
                            /\ SubSeq(b, Len(f) + 1, Len(b)) \o t = r
<1>1. PICK lb \in Nat, lf \in Nat : lb = Len(b) /\ lf = Len(f) /\ lf <= lb
  BY LenProperties
<1>2. lb <= Len(b) /\ lf <= lb
  BY <1>1
<1>3. PICK rest \in Seq(T) : rest = SubSeq(b, lf + 1, lb)
  BY <1>2, Slice
<1>4. (f \o rest) \o t = f \o (rest \o t)
  BY ConcatAssociative
<1>5. rest \o t \in Seq(T)
  BY ConcatProperties
<1> SUFFICES ASSUME b \o t = f \o r PROVE SubSeq(b, lf + 1, lb) \o t = r
  BY <1>1, <1>3
<1>6. SubSeq(b, 1, lf) = f
  BY <1>1, SameStart
<1>7. b = f \o rest
  <2>1. 1 \in 1..(Len(b) + 1) /\ lf \in (1 - 1)..Len(b) /\ lb \in lf..Len(b)
    BY <1>1
  <2>2. SubSeq(b, 1, lf) \o SubSeq(b, lf + 1, lb) = SubSeq(b, 1, lb)
    BY <2>1, ConcatAdjacentSubSeq
  <2>3. SubSeq(b, 1, lb) = b
    BY <1>1, SubSeqFull
  <2> QED
    BY <1>6, <1>3, <2>2, <2>3
<1>8. f \o (rest \o t) = f \o r /\ rest \o t \in Seq(T)
  BY <1>7, <1>4, <1>5
<1>9. rest \o t = r
  BY <1>8, ConcatSimplifications
<1> QED
  BY <1>1, <1>3, <1>9

(* A piece of the first of three. *)
LEMMA WithinFirst ==
  ASSUME NEW T, NEW a \in Seq(T), NEW b \in Seq(T), NEW c \in Seq(T),
         NEW m \in Nat, NEW n \in Nat, m <= n, n <= Len(a)
  PROVE  SubSeq((a \o b) \o c, m + 1, n) = SubSeq(a, m + 1, n)
<1>1. (a \o b) \o c = a \o (b \o c) /\ b \o c \in Seq(T)
  BY ConcatAssociative, ConcatProperties
<1>2. PICK bc \in Seq(T) : bc = b \o c /\ (a \o b) \o c = a \o bc
  BY <1>1
<1>3. a \o bc \in Seq(T) /\ Len(a \o bc) = Len(a) + Len(bc)
  BY ConcatProperties
<1>4. PICK all \in Seq(T) : all = a \o bc /\ Len(all) = Len(a) + Len(bc)
  BY <1>3
<1>5. all \o <<>> = a \o bc /\ <<>> \in Seq(T)
  BY <1>4, ConcatEmptySeq
<1>6. PICK none \in Seq(T) : none = <<>> /\ all \o none = a \o bc
  BY <1>5
<1>7. n <= Len(all)
  BY <1>4, LenProperties
<1>8. SubSeq(all, m + 1, n) = SubSeq(a, m + 1, n)
  BY <1>6, <1>7, SamePrefix
<1> QED
  BY <1>2, <1>4, <1>8

-----------------------------------------------------------------------------
(* Frames.                                                                 *)

(* The length in front of a frame. *)
FrameHead(n) == IF n < LongForm THEN <<n>> ELSE <<LongForm>> \o Number(n, Short)

(* The length of a frame can be told from the bytes in front of it. *)
LEMMA FrameHeadIs ==
  ASSUME NEW n \in Nat, n < Base * Base
  PROVE  /\ FrameHead(n) \in Seq(Bytes) /\ Len(FrameHead(n)) = IF n < LongForm THEN 1 ELSE 3
         /\ FrameHead(n)[1] = LongForm <=> ~(n < LongForm)
         /\ UnsignedOf(IF n < LongForm THEN SubSeq(FrameHead(n), 1, 1) ELSE SubSeq(FrameHead(n), 2, 3)) = n
<1>1. LongForm \in Int /\ 0 <= LongForm /\ LongForm < Base
  BY BaseNat DEF LongForm
<1>2. CASE n < LongForm
  <2>1. n \in Int /\ 0 <= n /\ n < Base
    BY BaseNat, <1>2 DEF LongForm
  <2>2. <<n>> \in Seq(Bytes) /\ UnsignedOf(<<n>>) = n /\ Len(<<n>>) = 1 /\ <<n>>[1] = n
    BY <2>1, OneByte
  <2>3. SubSeq(<<n>>, 1, Len(<<n>>)) = <<n>>
    BY <2>2, SubSeqFull, Zenon
  <2>4. SubSeq(<<n>>, 1, 1) = <<n>>
    BY <2>2, <2>3, Zenon
  <2>5. FrameHead(n) = <<n>> /\ ~(n = LongForm)
    BY <1>1, <1>2 DEF FrameHead
  <2> QED
    BY <1>2, <2>4, <2>2, <2>5
<1>3. CASE ~(n < LongForm)
  <2>1. PICK num \in Seq(Bytes) : num = Number(n, Short) /\ Len(num) = 2 /\ UnsignedOf(num) = n
    BY TwoBytes
  <2>2. PICK one \in Seq(Bytes) : one = <<LongForm>> /\ Len(one) = 1 /\ one[1] = LongForm
    BY <1>1, OneByte
  <2>3. FrameHead(n) = one \o num
    BY <1>3, <2>1, <2>2 DEF FrameHead
  <2>4. one \o num \in Seq(Bytes) /\ (one \o num)[1] = LongForm
    BY <2>2, FirstOf
  <2>5. Len(one \o num) = Len(one) + Len(num) /\ SubSeq(one \o num, Len(one) + 1, Len(one \o num)) = num
    BY Cut
  <2>6. Len(one \o num) = 3 /\ SubSeq(one \o num, 2, 3) = num
    BY <2>1, <2>2, <2>5
  <2> QED
    BY <1>3, <2>1, <2>3, <2>4, <2>6
<1> QED
  BY <1>2, <1>3

(* A frame is its length, its id and its data. *)
LEMMA FrameIs ==
  ASSUME NEW id \in Nat, id < Base * Base, NEW data \in Seq(Bytes), Len(data) < Base * Base
  PROVE  /\ Frame(id, data) \in Seq(Bytes)
         /\ Frame(id, data) = (FrameHead(Len(data)) \o Number(id, Short)) \o data
         /\ Len(Frame(id, data)) = (IF Len(data) < LongForm THEN 1 ELSE 3) + 2 + Len(data)
<1>1. PICK n \in Nat : n = Len(data)
  BY LenProperties
<1>2. PICK num \in Seq(Bytes) : num = Number(id, Short) /\ Len(num) = 2
  BY TwoBytes
<1>3. PICK head \in Seq(Bytes) : head = FrameHead(n) /\ Len(head) = IF n < LongForm THEN 1 ELSE 3
  BY <1>1, FrameHeadIs
<1>4. Frame(id, data) = (head \o num) \o data
  BY <1>1, <1>2, <1>3 DEF Frame, FrameHead
<1>5. (head \o num) \o data \in Seq(Bytes) /\ Len((head \o num) \o data) = Len(head) + Len(num) + Len(data)
  BY CutThree
<1> QED
  BY <1>1, <1>2, <1>3, <1>4, <1>5

(* The first frame of what has arrived is found as soon as all of it has   *)
(* arrived, and not before.                                                *)
THEOREM FirstFrame ==
  ASSUME NEW id \in Nat, id < Base * Base, NEW data \in Seq(Bytes), Len(data) < Base * Base,
         NEW buf \in Seq(Bytes), NEW tail \in Seq(Bytes), NEW rest \in Seq(Bytes),
         buf \o tail = Frame(id, data) \o rest
  PROVE  IF Len(buf) >= Len(Frame(id, data))
         THEN GetDataFromBuf(buf) = [used |-> Len(Frame(id, data)), id |-> id, data |-> data]
         ELSE GetDataFromBuf(buf).used = 0
<1>1. PICK n \in Nat : n = Len(data)
  BY LenProperties
<1>2. PICK num \in Seq(Bytes) : num = Number(id, Short) /\ Len(num) = 2 /\ UnsignedOf(num) = id
  BY TwoBytes
<1>3. PICK k \in Nat : k = IF n < LongForm THEN 1 ELSE 3
  OBVIOUS
<1>4. PICK head \in Seq(Bytes) :
        /\ head = FrameHead(n) /\ Len(head) = k
        /\ head[1] = LongForm <=> ~(n < LongForm)
        /\ UnsignedOf(IF n < LongForm THEN SubSeq(head, 1, 1) ELSE SubSeq(head, 2, 3)) = n
  BY <1>1, <1>3, FrameHeadIs
<1>5. PICK F \in Seq(Bytes) : F = Frame(id, data) /\ F = (head \o num) \o data
  BY <1>1, <1>2, <1>4, FrameIs
<1>6. /\ Len(F) = k + 2 + n /\ SubSeq(F, 1, k) = head
      /\ SubSeq(F, k + 1, k + 2) = num /\ SubSeq(F, k + 2 + 1, k + 2 + n) = data
  <2>1. /\ Len(F) = Len(head) + Len(num) + Len(data)
        /\ SubSeq(F, 1, Len(head)) = head
        /\ SubSeq(F, Len(head) + 1, Len(head) + Len(num)) = num
        /\ SubSeq(F, Len(head) + Len(num) + 1, Len(F)) = data
    BY <1>5, CutThree
  <2> QED
    BY <1>1, <1>2, <1>4, <2>1
<1>7. PICK lb \in Nat : lb = Len(buf)
  BY LenProperties
<1>8. buf \o tail = F \o rest
  BY <1>5, Zenon
<1>9. \A i \in Nat, j \in Nat : i <= j /\ j <= lb /\ j <= k + 2 + n => SubSeq(buf, i + 1, j) = SubSeq(F, i + 1, j)
  <2> SUFFICES ASSUME NEW i \in Nat, NEW j \in Nat, i <= j, j <= lb, j <= k + 2 + n
               PROVE  SubSeq(buf, i + 1, j) = SubSeq(F, i + 1, j)
    OBVIOUS
  <2>1. j <= Len(buf) /\ j <= Len(F)
    BY <1>6, <1>7
  <2> QED
    BY <1>8, <2>1, SamePrefix
<1>10. k \in {1, 3}
  BY <1>3
<1> DEFINE h == IF buf # <<>> /\ buf[1] = LongForm THEN 1 + Short ELSE 1
           xylen == UnsignedOf(IF h = 1 THEN SubSeq(buf, 1, 1) ELSE SubSeq(buf, 2, h))
           end == h + Short + xylen
<1>11. lb > 0 => buf # <<>> /\ h = k
  <2> SUFFICES ASSUME lb > 0 PROVE buf # <<>> /\ h = k
    OBVIOUS
  <2>1. buf # <<>>
    BY <1>7
  <2>2. buf[1] = head[1]
    <3>1. PICK one \in Nat : one = 1 /\ 0 <= one /\ one <= lb /\ one <= k + 2 + n /\ one <= k
      BY <1>10
    <3>2. one <= Len(buf) /\ one <= Len(F) /\ 0 \in Nat /\ 1 \in 1..one
      BY <1>6, <1>7, <3>1
    <3>3. buf[1] = F[1]
      BY <1>8, <3>1, <3>2, SamePrefix
    <3>4. Len(head) > 0
      BY <1>4, <1>10
    <3>5. F[1] = head[1]
      BY <1>5, <3>4, FirstOfThree
    <3> QED
      BY <3>3, <3>5
  <2>3. h = IF n < LongForm THEN 1 ELSE 3
    <3>1. CASE n < LongForm
      <4>1. ~(buf[1] = LongForm)
        BY <1>4, <2>2, <3>1
      <4> QED
        BY <3>1, <4>1
    <3>2. CASE ~(n < LongForm)
      <4>1. buf[1] = LongForm
        BY <1>4, <2>2, <3>2
      <4>2. 1 + Short = 3
        BY DEF Short
      <4> QED
        BY <2>1, <3>2, <4>1, <4>2
    <3> QED
      BY <3>1, <3>2
  <2> QED
    BY <1>3, <2>1, <2>3
<1>12. GetDataFromBuf(buf) = IF Len(buf) < h + Short \/ Len(buf) < end
                             THEN [used |-> 0, id |-> 0, data |-> <<>>]
                             ELSE [used |-> end,
                                   id   |-> UnsignedOf(SubSeq(buf, h + 1, h + Short)),
                                   data |-> SubSeq(buf, h + Short + 1, end)]
  BY Zenon DEF GetDataFromBuf
<1>13. lb >= k + 2 => xylen = n /\ end = k + 2 + n
  <2> SUFFICES ASSUME lb >= k + 2 PROVE xylen = n /\ end = k + 2 + n
    OBVIOUS
  <2>1. h = k
    BY <1>10, <1>11
  <2>2. xylen = n
    <3>1. CASE n < LongForm
      <4>1. k = 1
        BY <1>3, <3>1
      <4>2. SubSeq(buf, 0 + 1, 1) = SubSeq(F, 0 + 1, 1) /\ 0 + 1 = 1
        <5>1. PICK zero \in Nat, one \in Nat : zero = 0 /\ one = 1 /\ zero <= one /\ one <= lb /\ one <= k + 2 + n
          BY <4>1
        <5>2. SubSeq(buf, zero + 1, one) = SubSeq(F, zero + 1, one)
          BY <1>9, <5>1
        <5> QED
          BY <5>1, <5>2
      <4>3. SubSeq(buf, 1, 1) = head
        BY <1>6, <4>1, <4>2
      <4>4. SubSeq(head, 1, 1) = head
        BY <1>4, <4>1, SubSeqFull
      <4>5. xylen = UnsignedOf(head)
        BY <2>1, <4>1, <4>3
      <4> QED
        BY <1>4, <3>1, <4>4, <4>5
    <3>2. CASE ~(n < LongForm)
      <4>1. k = 3
        BY <1>3, <3>2
      <4>2. SubSeq(buf, 1 + 1, 3) = SubSeq(F, 1 + 1, 3) /\ 1 + 1 = 2
        <5>1. PICK one \in Nat, three \in Nat :
                one = 1 /\ three = 3 /\ one <= three /\ three <= lb /\ three <= k + 2 + n
          BY <4>1
        <5>2. SubSeq(buf, one + 1, three) = SubSeq(F, one + 1, three)
          BY <1>9, <5>1
        <5> QED
          BY <5>1, <5>2
      <4>3. SubSeq(F, 2, 3) = SubSeq(head, 2, 3)
        <5>1. PICK one \in Nat, three \in Nat : one = 1 /\ three = 3 /\ one <= three /\ one + 1 = 2
          OBVIOUS
        <5>2. three <= Len(head)
          BY <1>4, <4>1, <5>1
        <5>3. SubSeq((head \o num) \o data, one + 1, three) = SubSeq(head, one + 1, three)
          <6> HIDE DEF h, xylen, end
          <6> QED
            BY <5>1, <5>2, WithinFirst
        <5> QED
          BY <1>5, <5>1, <5>3, Zenon
      <4>4. SubSeq(buf, 2, 3) = SubSeq(head, 2, 3) /\ h = 3
        BY <2>1, <4>1, <4>2, <4>3
      <4>5. xylen = UnsignedOf(SubSeq(head, 2, 3))
        <5>1. xylen = UnsignedOf(SubSeq(buf, 2, h))
          <6>1. ~(h = 1)
            BY <4>4
          <6> HIDE DEF h
          <6> QED
            BY <6>1, Zenon
        <5> QED
          BY <4>4, <5>1, Zenon
      <4> QED
        BY <1>4, <3>2, <4>5
    <3> QED
      BY <3>1, <3>2
  <2>3. Short = 2
    BY DEF Short
  <2> HIDE DEF xylen, h
  <2> QED
    BY <2>1, <2>2, <2>3
<1> HIDE DEF xylen, end
<1>14. CASE lb >= k + 2 + n
  <2>1. h = k /\ end = k + 2 + n /\ Short = 2
    BY <1>10, <1>11, <1>13, <1>14 DEF Short
  <2> HIDE DEF h
  <2>2. ~(Len(buf) < h + Short \/ Len(buf) < end)
    BY <1>7, <1>14, <2>1
  <2>3. SubSeq(buf, h + 1, h + Short) = num
    <3>1. k + 2 \in Nat /\ k <= k + 2 /\ k + 2 <= lb /\ k + 2 <= k + 2 + n
      BY <1>14
    <3>2. SubSeq(buf, k + 1, k + 2) = SubSeq(F, k + 1, k + 2)
      BY <1>9, <3>1
    <3> QED
      BY <1>6, <2>1, <3>2
  <2>4. SubSeq(buf, h + Short + 1, end) = data
    <3>1. PICK a \in Nat, b \in Nat : a = k + 2 /\ b = k + 2 + n /\ a <= b /\ b <= lb
      BY <1>14
    <3>2. SubSeq(buf, a + 1, b) = SubSeq(F, a + 1, b)
      <4>1. a \in Nat /\ b \in Nat /\ a <= b /\ b <= lb /\ b <= k + 2 + n
        BY <3>1
      <4> QED
        BY <1>9, <4>1
    <3> QED
      BY <1>6, <2>1, <3>1, <3>2
  <2>5. GetDataFromBuf(buf) = [used |-> k + 2 + n, id |-> id, data |-> data]
    BY <1>2, <1>12, <2>1, <2>2, <2>3, <2>4
  <2> QED
    BY <1>5, <1>6, <1>7, <1>14, <2>5
<1>15. CASE ~(lb >= k + 2 + n)
  <2>1. Len(buf) < h + Short \/ Len(buf) < end
    <3>1. CASE lb >= k + 2
      <4>1. end = k + 2 + n
        BY <1>13, <3>1
      <4> QED
        BY <1>7, <1>15, <4>1
    <3>2. CASE ~(lb >= k + 2) /\ lb > 0
      <4>1. h = k /\ Short = 2
        BY <1>11, <3>2 DEF Short
      <4> HIDE DEF h
      <4> QED
        BY <1>7, <3>2, <4>1
    <3>3. CASE lb = 0
      <4>1. buf = <<>>
        BY <1>7, <3>3, EmptySeq
      <4>2. h = 1 /\ Short = 2
        BY <4>1 DEF Short
      <4> HIDE DEF h
      <4> QED
        BY <1>7, <3>3, <4>2
    <3> QED
      BY <3>1, <3>2, <3>3
  <2> HIDE DEF h
  <2>2. GetDataFromBuf(buf) = [used |-> 0, id |-> 0, data |-> <<>>]
    BY <1>12, <2>1, Zenon
  <2>3. GetDataFromBuf(buf).used = 0
    BY <2>2
  <2> QED
    BY <1>5, <1>6, <1>7, <1>15, <2>3
<1> QED
  BY <1>14, <1>15
=============================================================================
