---------------------------- MODULE Calls_proofs ----------------------------
(***************************************************************************)
(* Theorems about GhosClient and the wire format it speaks, and about      *)
(* Deploy: for every base of the bytes, any number of calls and whatever   *)
(* arguments of the right types; for any number of operators and of runs.  *)
(*                                                                         *)
(* What an encoder makes of a value is said by Spells: the cells it gives  *)
(* are read back as the value, whatever comes after them.  The data of an  *)
(* instruction spell its arguments one after another, so that Decode reads *)
(* them back.                                                              *)
(***************************************************************************)
EXTENDS GhosClient, Deploy, SequenceTheorems, Foundations_proofs

-----------------------------------------------------------------------------
(***************************************************************************)
(* Pow[n] is Radix to the n.                                               *)
(***************************************************************************)
Powers(f) == f = [n \in Nat |-> IF n = 0 THEN 1 ELSE Radix * f[n - 1]]

(* There is such a function, by recursion.                                 *)
LEMMA PowersExist == \E f \in [Nat -> Nat \ {0}] : Powers(f)
<1> DEFINE V == Nat \ {0}
           Body == [g \in [Nat -> V] |-> [n \in Nat |-> IF n = 0 THEN 1 ELSE Radix * g[n - 1]]]
<1>1. ASSUME NEW g \in [Nat -> V], NEW n \in Nat, n # 0
      PROVE  Radix * g[n - 1] \in V
  <2>1. n - 1 \in Nat
    BY <1>1
  <2>2. PICK x \in Nat \ {0} : x = g[n - 1]
    BY <2>1
  <2>3. Radix * x \in Nat \ {0}
    BY WireAssumption
  <2>4. QED
    BY <2>2, <2>3
<1>2. Body \in [[Nat -> V] -> [Nat -> V]]
  BY <1>1
<1>3. ASSUME NEW g \in [Nat -> V], NEW n \in Nat
      PROVE  Body[g][n] = IF n = 0 THEN 1 ELSE Radix * g[n - 1]
  OBVIOUS
<1> HIDE DEF Body
<1>4. ASSUME NEW g \in [Nat -> V], NEW h \in [Nat -> V], NEW n \in Nat,
             \A m \in Nat : m < n => g[m] = h[m]
      PROVE  Body[g][n] = Body[h][n]
  <2>1. n # 0 => n - 1 \in Nat /\ n - 1 < n
    OBVIOUS
  <2>2. QED
    BY <1>3, <1>4, <2>1
<1>5. 1 \in V
  OBVIOUS
<1> HIDE DEF V
<1>6. RecursiveOnNat(V, Body)
  BY <1>2, <1>4, <1>5 DEF RecursiveOnNat
<1>7. PICK g \in [Nat -> V] : \A n \in Nat : g[n] = Body[g][n]
  BY <1>6, RecursionOnNat
<1>8. g = [n \in Nat |-> IF n = 0 THEN 1 ELSE Radix * g[n - 1]]
  BY <1>3, <1>7
<1>9. QED
  BY <1>7, <1>8 DEF Powers, V

(* Pow is one of them.                                                     *)
LEMMA PowIsChosen == Pow = CHOOSE f : Powers(f)
BY Zenon DEF Pow, Powers

(* The powers are positive and grow by the factor Radix.                   *)
LEMMA PowFacts ==
  /\ Pow[0] = 1
  /\ \A n \in Nat : Pow[n] \in Nat \ {0} /\ Pow[n + 1] = Radix * Pow[n]
<1>1. Powers(Pow)
  BY PowersExist, PowIsChosen, Zenon
<1>2. Pow = [n \in Nat |-> IF n = 0 THEN 1 ELSE Radix * Pow[n - 1]]
  BY <1>1 DEF Powers
<1>3. Pow[0] = 1 /\ \A n \in Nat : Pow[n + 1] = Radix * Pow[n]
  <2>1. \A n \in Nat : n + 1 \in Nat /\ n + 1 # 0 /\ (n + 1) - 1 = n
    OBVIOUS
  <2>2. PICK p : p = Pow
    OBVIOUS
  <2>3. p = [n \in Nat |-> IF n = 0 THEN 1 ELSE Radix * p[n - 1]]
    BY <1>2, <2>2
  <2>4. p[0] = 1 /\ \A n \in Nat : p[n + 1] = Radix * p[n]
    BY <2>1, <2>3
  <2>5. QED
    BY <2>2, <2>4
<1>4. Nat \subseteq {n \in Nat : Pow[n] \in Nat \ {0}}
  <2> DEFINE P == {n \in Nat : Pow[n] \in Nat \ {0}}
  <2>1. 0 \in P
    BY <1>3
  <2>2. ASSUME NEW n \in Nat, n \in P
        PROVE  n + 1 \in P
    <3>1. PICK x \in Nat \ {0} : x = Pow[n]
      BY <2>2
    <3>2. Radix * x \in Nat \ {0}
      BY WireAssumption
    <3>3. QED
      BY <1>3, <3>1, <3>2
  <2> HIDE DEF P
  <2>3. Nat \subseteq P
    BY <2>1, <2>2, NatInductionOnSets
  <2>4. QED
    BY <2>3 DEF P
<1>5. QED
  BY <1>3, <1>4

(* Two functions that start alike and keep alike are alike up to n.        *)
LEMMA AlikeUpTo ==
  ASSUME NEW n \in Nat, NEW f, NEW g, f[0] = g[0],
         \A k \in 1 .. n : f[k - 1] = g[k - 1] => f[k] = g[k]
  PROVE  \A k \in 0 .. n : f[k] = g[k]
<1> DEFINE P == {k \in Nat : k <= n => f[k] = g[k]}
<1>1. 0 \in P
  OBVIOUS
<1>2. ASSUME NEW k \in Nat, k \in P
      PROVE  k + 1 \in P
  <2>1. CASE k + 1 <= n
    <3>1. k + 1 \in 1 .. n /\ (k + 1) - 1 = k /\ f[k] = g[k]
      BY <1>2, <2>1
    <3>2. f[k + 1] = g[k + 1]
      BY <3>1
    <3>3. QED
      BY <3>2
  <2>2. QED
    BY <2>1
<1> HIDE DEF P
<1>3. Nat \subseteq P
  BY <1>1, <1>2, NatInductionOnSets
<1>4. QED
  BY <1>3 DEF P

(* The digit of v at p, to the base r, next to the digits below it.        *)
LEMMA NextDigit ==
  ASSUME NEW p \in Nat \ {0}, NEW r \in Nat \ {0}, NEW v \in Nat
  PROVE  v % (r * p) = (v % p) + ((v \div p) % r) * p
<1>1. PICK q \in Int, s \in 0 .. p - 1 : v = (p * q) + s /\ s = v % p /\ q = v \div p
  BY QuotientAndRemainder
<1>2. PICK t \in Int, d \in 0 .. r - 1 : q = r * t + d /\ d = q % r
  BY Division
<1>3. PICK m \in Nat \ {0} : m = r * p
  <2>1. r * p \in Nat \ {0}
    OBVIOUS
  <2>2. QED
    BY <2>1
<1>4. PICK e \in Nat : e = d * p
  <2>1. d * p \in Nat
    BY <1>2
  <2>2. QED
    BY <2>1
<1>5. v = m * t + (e + s)
  <2>1. p * (r * t + d) = (r * p) * t + d * p
    <3>1. PICK x \in Int : x = r * t
      BY <1>2
    <3>2. d \in Int
      BY <1>2
    <3>3. p * (x + d) = p * x + d * p
      BY <3>2
    <3>4. p * (r * t) = (r * p) * t
      OBVIOUS
    <3>5. QED
      BY <3>1, <3>3, <3>4
  <2>2. p * q = m * t + e
    BY <1>2, <1>3, <1>4, <2>1
  <2>3. PICK x \in Int : x = m * t
    BY <1>2
  <2>4. v = (x + e) + s
    BY <1>1, <2>2, <2>3
  <2>5. v = x + (e + s)
    BY <1>1, <1>4, <2>3, <2>4
  <2>6. QED
    BY <2>3, <2>5
<1>6. e + s \in 0 .. m - 1
  <2>1. d * p <= (r - 1) * p
    BY <1>2
  <2>2. (r - 1) * p = r * p - p
    OBVIOUS
  <2>3. e <= m - p
    BY <1>3, <1>4, <2>1, <2>2
  <2>4. QED
    BY <1>1, <1>4, <2>3
<1>7. PICK w \in 0 .. m - 1 : w = e + s
  BY <1>6
<1>8. v % m = w
  <2>1. v = m * t + w
    BY <1>5, <1>7
  <2>2. QED
    BY <2>1, RemainderIsUnique
<1>9. s + e = w
  <2>1. s \in Nat
    BY <1>1
  <2>2. QED
    BY <2>1, <1>7
<1>10. QED
  BY <1>1, <1>2, <1>3, <1>4, <1>8, <1>9

(* Number adds the digits up from the lowest.                              *)
AddsUp(f, bytes) ==
  f = [k \in 0 .. Len(bytes) |-> IF k = 0 THEN 0 ELSE f[k - 1] + bytes[k] * Pow[k - 1]]

(* Number reads off such a sum.                                            *)
LEMMA NumberIsChosen ==
  ASSUME NEW bytes
  PROVE  Number(bytes) = (CHOOSE f : AddsUp(f, bytes))[Len(bytes)]
BY Zenon DEF Number, AddsUp

(* The digits of a number make the number, as far as they go.              *)
LEMMA DigitsOfNumber ==
  ASSUME NEW v \in Nat, NEW n \in Nat
  PROVE  /\ LittleEndian(v, n) \in Seq(0 .. Radix - 1)
         /\ Len(LittleEndian(v, n)) = n
         /\ Number(LittleEndian(v, n)) = v % Pow[n]
<1> DEFINE bytes == LittleEndian(v, n)
           g == [k \in 0 .. n |-> v % Pow[k]]
<1>1. \A i \in 1 .. n : (v \div Pow[i - 1]) % Radix \in 0 .. Radix - 1
  <2>1. SUFFICES ASSUME NEW i \in 1 .. n PROVE (v \div Pow[i - 1]) % Radix \in 0 .. Radix - 1
    OBVIOUS
  <2>2. PICK p \in Nat \ {0} : p = Pow[i - 1]
    BY PowFacts
  <2>3. v \div p \in Int
    OBVIOUS
  <2>4. QED
    BY <2>2, <2>3, WireAssumption
<1>2. bytes = [i \in 1 .. n |-> (v \div Pow[i - 1]) % Radix]
  BY DEF LittleEndian
<1> HIDE DEF bytes
<1>3. bytes \in Seq(0 .. Radix - 1) /\ Len(bytes) = n
  BY <1>1, <1>2
<1>4. ASSUME NEW k \in 1 .. n
      PROVE  v % Pow[k] = (v % Pow[k - 1]) + bytes[k] * Pow[k - 1]
  <2>1. k - 1 \in Nat /\ (k - 1) + 1 = k
    OBVIOUS
  <2>2. PICK p \in Nat \ {0} : p = Pow[k - 1] /\ Pow[k] = Radix * p
    BY <2>1, PowFacts
  <2>3. v % (Radix * p) = (v % p) + ((v \div p) % Radix) * p
    <3>1. Radix \in Nat \ {0}
      BY WireAssumption
    <3>2. QED
      BY <3>1, NextDigit, Zenon
  <2>4. bytes[k] = (v \div p) % Radix
    BY <1>2, <2>2
  <2>5. QED
    BY <2>2, <2>3, <2>4
<1>5. v % Pow[0] = 0
  BY PowFacts
<1>6. \A k \in 0 .. n : g[k] = IF k = 0 THEN 0 ELSE g[k - 1] + bytes[k] * Pow[k - 1]
  <2>1. ASSUME NEW k \in 0 .. n, k # 0
        PROVE  g[k] = g[k - 1] + bytes[k] * Pow[k - 1]
    <3>1. k \in 1 .. n /\ k - 1 \in 0 .. n
      BY <2>1
    <3>2. g[k] = v % Pow[k] /\ g[k - 1] = v % Pow[k - 1]
      BY <3>1
    <3>3. QED
      BY <1>4, <3>1, <3>2
  <2>2. g[0] = 0
    BY <1>5
  <2> HIDE DEF g
  <2>3. QED
    BY <2>1, <2>2
<1>7. g = [k \in 0 .. n |-> g[k]]
  OBVIOUS
<1>8. g[n] = v % Pow[n]
  OBVIOUS
<1> HIDE DEF g
<1>9. AddsUp(g, bytes)
  BY <1>3, <1>6, <1>7 DEF AddsUp
<1>10. PICK f : f = CHOOSE h : AddsUp(h, bytes)
  OBVIOUS
<1>11. AddsUp(f, bytes)
  BY <1>9, <1>10, Zenon
<1>12. f = [k \in 0 .. n |-> IF k = 0 THEN 0 ELSE f[k - 1] + bytes[k] * Pow[k - 1]]
  BY <1>3, <1>11 DEF AddsUp
<1>13. \A k \in 0 .. n : f[k] = IF k = 0 THEN 0 ELSE f[k - 1] + bytes[k] * Pow[k - 1]
  BY <1>12
<1>14. f[0] = g[0]
  BY <1>6, <1>13
<1>15. \A k \in 1 .. n : f[k - 1] = g[k - 1] => f[k] = g[k]
  BY <1>6, <1>13
<1>16. f[n] = g[n]
  BY <1>14, <1>15, AlikeUpTo
<1>17. Number(bytes) = f[n]
  BY <1>3, <1>10, NumberIsChosen
<1>18. QED
  BY <1>3, <1>8, <1>16, <1>17 DEF bytes

-----------------------------------------------------------------------------
(* The middle of a sequence put together of three, and its end.            *)
LEMMA PartsOfConcat ==
  ASSUME NEW S, NEW a \in Seq(S), NEW b \in Seq(S), NEW c \in Seq(S)
  PROVE  /\ SubSeq(a \o (b \o c), Len(a) + 1, Len(a) + Len(b)) = b
         /\ SubSeq(a \o b, Len(a) + 1, Len(a \o b)) = b
         /\ SubSeq(a \o b, 1, Len(a)) = a
<1>1. Len(a) \in Nat /\ Len(b) \in Nat /\ Len(c) \in Nat
  BY LenProperties
<1>2. PICK l \in Nat, m \in Nat, n \in Nat : l = Len(a) /\ m = Len(b) /\ n = Len(c)
  BY <1>1
<1>3. PICK d \in Seq(S) : d = b \o c /\ Len(d) = m + n
        /\ \A i \in 1 .. m + n : d[i] = IF i <= m THEN b[i] ELSE c[i - m]
  <2>1. PICK s : s = b \o c
    OBVIOUS
  <2>2. /\ b \o c \in Seq(S)
        /\ Len(b \o c) = Len(b) + Len(c)
        /\ \A i \in 1 .. Len(b) + Len(c) :
             (b \o c)[i] = IF i <= Len(b) THEN b[i] ELSE c[i - Len(b)]
    BY ConcatProperties
  <2>3. s \in Seq(S) /\ Len(s) = m + n
        /\ \A i \in 1 .. m + n : s[i] = IF i <= m THEN b[i] ELSE c[i - m]
    BY <1>2, <2>1, <2>2
  <2>4. QED
    BY <2>1, <2>3
<1>4. PICK e \in Seq(S) : e = a \o d /\ Len(e) = l + (m + n)
        /\ \A i \in 1 .. l + (m + n) : e[i] = IF i <= l THEN a[i] ELSE d[i - l]
  <2>1. PICK s : s = a \o d
    OBVIOUS
  <2>2. /\ a \o d \in Seq(S)
        /\ Len(a \o d) = Len(a) + Len(d)
        /\ \A i \in 1 .. Len(a) + Len(d) :
             (a \o d)[i] = IF i <= Len(a) THEN a[i] ELSE d[i - Len(a)]
    BY ConcatProperties
  <2>3. s \in Seq(S) /\ Len(s) = l + (m + n)
        /\ \A i \in 1 .. l + (m + n) : s[i] = IF i <= l THEN a[i] ELSE d[i - l]
    BY <1>2, <1>3, <2>1, <2>2
  <2>4. QED
    BY <2>1, <2>3
<1>5. PICK f \in Seq(S) : f = a \o b /\ Len(f) = l + m
        /\ \A i \in 1 .. l + m : f[i] = IF i <= l THEN a[i] ELSE b[i - l]
  <2>1. PICK s : s = a \o b
    OBVIOUS
  <2>2. /\ a \o b \in Seq(S)
        /\ Len(a \o b) = Len(a) + Len(b)
        /\ \A i \in 1 .. Len(a) + Len(b) :
             (a \o b)[i] = IF i <= Len(a) THEN a[i] ELSE b[i - Len(a)]
    BY ConcatProperties
  <2>3. s \in Seq(S) /\ Len(s) = l + m
        /\ \A i \in 1 .. l + m : s[i] = IF i <= l THEN a[i] ELSE b[i - l]
    BY <1>2, <2>1, <2>2
  <2>4. QED
    BY <2>1, <2>3
<1>6. /\ \A i \in 1 .. l + (m + n) : e[i] \in S
      /\ \A i \in 1 .. l + m : f[i] \in S
  BY <1>4, <1>5, ElementOfSeq
<1>7. SubSeq(e, l + 1, l + m) = b
  <2>1. /\ SubSeq(e, l + 1, l + m) \in Seq(S)
        /\ Len(SubSeq(e, l + 1, l + m)) = m
        /\ \A i \in 1 .. m : SubSeq(e, l + 1, l + m)[i] = e[l + i]
    <3>1. l + 1 \in Int /\ l + m \in Int /\ (l + m) - (l + 1) + 1 = m
          /\ \A i \in 1 .. m : (l + 1) + i - 1 = l + i
      OBVIOUS
    <3>2. \A i \in (l + 1) .. (l + m) : e[i] \in S
      BY <1>6
    <3>3. QED
      BY <3>1, <3>2, SubSeqProperties
  <2>2. \A i \in 1 .. m : e[l + i] = b[i]
    <3>1. \A i \in 1 .. m : l + i \in 1 .. l + (m + n) /\ ~(l + i <= l) /\ (l + i) - l = i
                              /\ i \in 1 .. m + n /\ i <= m
      OBVIOUS
    <3>2. QED
      BY <1>3, <1>4, <3>1
  <2>3. PICK s \in Seq(S) : s = SubSeq(e, l + 1, l + m) /\ Len(s) = Len(b)
               /\ \A i \in 1 .. Len(s) : s[i] = b[i]
    <3>1. PICK s : s = SubSeq(e, l + 1, l + m)
      OBVIOUS
    <3>2. s \in Seq(S) /\ Len(s) = m /\ \A i \in 1 .. m : s[i] = e[l + i]
      BY <2>1, <3>1
    <3>3. Len(s) = Len(b) /\ \A i \in 1 .. Len(s) : s[i] = b[i]
      BY <1>2, <2>2, <3>2
    <3>4. QED
      BY <3>1, <3>2, <3>3
  <2>4. QED
    BY <2>3, SeqEqual
<1>8. SubSeq(f, l + 1, l + m) = b
  <2>1. /\ SubSeq(f, l + 1, l + m) \in Seq(S)
        /\ Len(SubSeq(f, l + 1, l + m)) = m
        /\ \A i \in 1 .. m : SubSeq(f, l + 1, l + m)[i] = f[l + i]
    <3>1. l + 1 \in Int /\ l + m \in Int /\ (l + m) - (l + 1) + 1 = m
          /\ \A i \in 1 .. m : (l + 1) + i - 1 = l + i
      OBVIOUS
    <3>2. \A i \in (l + 1) .. (l + m) : f[i] \in S
      BY <1>6
    <3>3. QED
      BY <3>1, <3>2, SubSeqProperties
  <2>2. \A i \in 1 .. m : f[l + i] = b[i]
    <3>1. \A i \in 1 .. m : l + i \in 1 .. l + m /\ ~(l + i <= l) /\ (l + i) - l = i
      OBVIOUS
    <3>2. QED
      BY <1>5, <3>1
  <2>3. PICK s \in Seq(S) : s = SubSeq(f, l + 1, l + m) /\ Len(s) = Len(b)
               /\ \A i \in 1 .. Len(s) : s[i] = b[i]
    <3>1. PICK s : s = SubSeq(f, l + 1, l + m)
      OBVIOUS
    <3>2. s \in Seq(S) /\ Len(s) = m /\ \A i \in 1 .. m : s[i] = f[l + i]
      BY <2>1, <3>1
    <3>3. Len(s) = Len(b) /\ \A i \in 1 .. Len(s) : s[i] = b[i]
      BY <1>2, <2>2, <3>2
    <3>4. QED
      BY <3>1, <3>2, <3>3
  <2>4. QED
    BY <2>3, SeqEqual
<1>9. SubSeq(f, 1, l) = a
  <2>1. /\ SubSeq(f, 1, l) \in Seq(S)
        /\ Len(SubSeq(f, 1, l)) = l
        /\ \A i \in 1 .. l : SubSeq(f, 1, l)[i] = f[i]
    <3>1. l \in Int /\ 1 \in Int /\ (l - 1) + 1 = l /\ \A i \in 1 .. l : 1 + i - 1 = i
      OBVIOUS
    <3>2. \A i \in 1 .. l : f[i] \in S
      BY <1>6
    <3>3. QED
      BY <3>1, <3>2, SubSeqProperties
  <2>2. \A i \in 1 .. l : f[i] = a[i]
    <3>1. \A i \in 1 .. l : i \in 1 .. l + m /\ i <= l
      OBVIOUS
    <3>2. QED
      BY <1>5, <3>1
  <2>3. PICK s \in Seq(S) : s = SubSeq(f, 1, l) /\ Len(s) = Len(a) /\ \A i \in 1 .. Len(s) :
               s[i] = a[i]
    BY <1>2, <2>1, <2>2
  <2>4. QED
    BY <2>3, SeqEqual
<1>10. QED
  BY <1>2, <1>3, <1>4, <1>5, <1>7, <1>8, <1>9

(***************************************************************************)
(* The same with the lengths by name, as it is used below.                 *)
(***************************************************************************)
Sized(S, s, n) == s \in Seq(S) /\ Len(s) = n

Joined(S, a, l, b, m) ==
  /\ Sized(S, a \o b, l + m)
  /\ \A rest \in Seq(S) :
       LET all == (a \o b) \o rest
       IN  /\ l > 0 => all[1] = a[1]
           /\ SubSeq(all, 1, l) = a
           /\ SubSeq(all, l + 1, l + m) = b

(* The same for a sequence that is put together of two.                    *)
LEMMA TwoParts ==
  ASSUME NEW S, NEW l \in Nat, NEW m \in Nat, NEW a, NEW b, Sized(S, a, l), Sized(S, b, m)
  PROVE  Joined(S, a, l, b, m)
<1>1. PICK s \in Seq(S) : s = a /\ Len(s) = l
  BY DEF Sized
<1>2. PICK t \in Seq(S) : t = b /\ Len(t) = m
  BY DEF Sized
<1>3. PICK u \in Seq(S) : u = s \o t /\ Len(u) = Len(s) + Len(t)
  BY ConcatProperties
<1>4. Sized(S, a \o b, l + m)
  BY <1>1, <1>2, <1>3 DEF Sized
<1>5. ASSUME NEW rest \in Seq(S)
      PROVE  LET all == (s \o t) \o rest
             IN  /\ l > 0 => all[1] = s[1]
                 /\ SubSeq(all, 1, l) = s
                 /\ SubSeq(all, l + 1, l + m) = t
  <2>1. PICK r \in Seq(S) : r = t \o rest
    BY ConcatProperties
  <2>2. (s \o t) \o rest = s \o r
    <3>1. (s \o t) \o rest = s \o (t \o rest)
      BY ConcatAssociative, SMTT(60)
    <3>2. QED
      BY <2>1, <3>1, Zenon
  <2>3. PICK all \in Seq(S) : all = s \o r
    BY ConcatProperties
  <2>4. SubSeq(all, 1, Len(s)) = s
    BY <2>3, PartsOfConcat
  <2>5. SubSeq(all, Len(s) + 1, Len(s) + Len(t)) = t
    BY <2>1, <2>3, PartsOfConcat
  <2>6. l > 0 => all[1] = s[1]
    <3>1. l > 0 => 1 \in 1 .. Len(s) + Len(r) /\ 1 <= Len(s)
      BY <1>1, LenProperties
    <3>2. \A i \in 1 .. Len(s) + Len(r) :
                 (s \o r)[i] = IF i <= Len(s) THEN s[i] ELSE r[i - Len(s)]
      BY ConcatProperties
    <3>3. QED
      BY <2>3, <3>1, <3>2
  <2>7. QED
    BY <1>1, <1>2, <2>2, <2>3, <2>4, <2>5, <2>6
<1>6. QED
  BY <1>1, <1>2, <1>4, <1>5 DEF Joined

(* The first powers.                                                       *)
LEMMA PowOne == Pow[0] = 1 /\ Pow[1] = Radix
<1>1. Pow[0 + 1] = Radix * Pow[0]
  BY PowFacts
<1>2. QED
  BY <1>1, PowFacts, WireAssumption

Digit == 0 .. Radix - 1

(* What the types of the IDL take.                                         *)
LEMMA SizesOfPlain ==
  /\ SizeOf["u64"] = 8 /\ SizeOf["i64"] = 8 /\ SizeOf["u32"] = 4 /\ SizeOf["u16"] = 2
  /\ SizeOf["u8"] = 1 /\ SizeOf["bool"] = 1 /\ SizeOf["bytes"] = 1
  /\ {"u64", "i64", "u32", "u16", "u8", "bool", "bytes"} \subseteq Plain
BY DEF SizeOf, Plain, LongBytes

(* Remainders by a power, and what has no need of them.                    *)
LEMMA RemaindersAreSmall ==
  ASSUME NEW v \in Int, NEW n \in Nat
  PROVE  v % Pow[n] \in 0 .. Pow[n] - 1 /\ (v % Pow[n]) % Pow[n] = v % Pow[n]
<1>1. PICK p \in Nat \ {0} : p = Pow[n]
  BY PowFacts
<1>2. PICK r : r = v % p
  OBVIOUS
<1>3. r \in 0 .. p - 1
  BY <1>2
<1>4. r % p = r
  BY <1>3
<1>5. QED
  BY <1>1, <1>2, <1>3, <1>4

(* A small number is its own remainder.                                    *)
LEMMA SmallIsRemainder ==
  ASSUME NEW n \in Nat, NEW v \in Nat, v < Pow[n]
  PROVE  v % Pow[n] = v
<1>1. PICK p \in Nat \ {0} : p = Pow[n]
  BY PowFacts
<1>2. v % p = v
  BY <1>1
<1>3. QED
  BY <1>1, <1>2

(* The unsigned integers.                                                  *)
LEMMA UnsignedRead ==
  /\ \A v \in Int : U64Encodable(v) =>
       u64Le(v) \in Seq(Digit) /\ Len(u64Le(v)) = 8 /\ ReadPlain("u64", u64Le(v)) = Magnitude(v)
  /\ \A v \in Int :
       encodeU32Le(v) \in Seq(Digit) /\ Len(encodeU32Le(v)) = 4
         /\ Number(encodeU32Le(v)) = v % Pow[4]
  /\ \A v \in Int :
       u16Le(v) \in Seq(Digit) /\ Len(u16Le(v)) = 2 /\ ReadPlain("u16", u16Le(v)) = v % Pow[2]
  /\ \A v \in Int :
       u8Le(v) \in Seq(Digit) /\ Len(u8Le(v)) = 1 /\ ReadPlain("u8", u8Le(v)) = v % Radix
<1>1. ASSUME NEW v \in Int, U64Encodable(v)
      PROVE  u64Le(v) \in Seq(Digit) /\ Len(u64Le(v)) = 8 /\ ReadPlain("u64",
               u64Le(v)) = Magnitude(v)
  <2>1. PICK m \in Nat : m = Magnitude(v)
    BY DEF Magnitude
  <2>2. m % Pow[8] = m
    BY <1>1, <2>1, SmallIsRemainder DEF U64Encodable, LongBytes
  <2>3. LittleEndian(m, 8) \in Seq(Digit) /\ Len(LittleEndian(m, 8)) = 8
        /\ Number(LittleEndian(m, 8)) = m
    BY <2>2, DigitsOfNumber DEF Digit
  <2>4. u64Le(v) = LittleEndian(m, 8)
    BY <2>1 DEF u64Le, LongBytes
  <2>5. QED
    BY <2>1, <2>3, <2>4 DEF ReadPlain
<1>2. ASSUME NEW v \in Int
      PROVE  encodeU32Le(v) \in Seq(Digit) /\ Len(encodeU32Le(v)) = 4
             /\ Number(encodeU32Le(v)) = v % Pow[4]
  <2>1. v % Pow[4] \in 0 .. Pow[4] - 1 /\ (v % Pow[4]) % Pow[4] = v % Pow[4]
    BY RemaindersAreSmall
  <2>2. PICK m \in Nat : m = v % Pow[4] /\ m % Pow[4] = m
    BY <2>1
  <2>3. QED
    BY <2>2, DigitsOfNumber DEF encodeU32Le, Digit
<1>3. ASSUME NEW v \in Int
      PROVE  u16Le(v) \in Seq(Digit) /\ Len(u16Le(v)) = 2 /\ ReadPlain("u16",
               u16Le(v)) = v % Pow[2]
  <2>1. v % Pow[2] \in 0 .. Pow[2] - 1 /\ (v % Pow[2]) % Pow[2] = v % Pow[2]
    BY RemaindersAreSmall
  <2>2. PICK m \in Nat : m = v % Pow[2] /\ m % Pow[2] = m
    BY <2>1
  <2>3. QED
    BY <2>2, DigitsOfNumber DEF u16Le, Digit, ReadPlain
<1>4. ASSUME NEW v \in Int
      PROVE  u8Le(v) \in Seq(Digit) /\ Len(u8Le(v)) = 1 /\ ReadPlain("u8", u8Le(v)) = v % Radix
  <2>1. PICK m \in 0 .. Radix - 1 : m = v % Radix
    BY WireAssumption
  <2>2. Pow[0] = 1 /\ Pow[1] = Radix
    <3>1. Pow[0 + 1] = Radix * Pow[0]
      BY PowFacts
    <3>2. QED
      BY <3>1, PowFacts, WireAssumption
  <2>3. m % Pow[1] = m
    BY <2>2, WireAssumption
  <2>4. LittleEndian(m, 1) = <<m>>
    <3>1. LittleEndian(m, 1) = [i \in 1 .. 1 |-> (m \div Pow[i - 1]) % Radix]
      BY DEF LittleEndian
    <3>2. (m \div 1) % Radix = m
      BY WireAssumption
    <3>3. QED
      BY <2>2, <3>1, <3>2
  <2>5. u8Le(v) = <<m>>
    BY <2>1 DEF u8Le
  <2>6. QED
    BY <2>1, <2>3, <2>4, <2>5, DigitsOfNumber DEF Digit, ReadPlain
<1>5. QED
  BY <1>1, <1>2, <1>3, <1>4

(* The signed integers, of magnitudes that a `number` holds.               *)
LEMMA SignedRead ==
  ASSUME NEW v \in Int, I64Encodable(v)
  PROVE  i64Le(v) \in Seq(Digit) /\ Len(i64Le(v)) = 8 /\ ReadPlain("i64", i64Le(v)) = v
<1>1. PICK p \in Nat \ {0} : p = Pow[8]
  BY PowFacts
<1>2. PICK m \in Nat : m = IF v < 0 THEN p + v ELSE v
  BY <1>1, WireAssumption DEF I64Encodable, Magnitude, LongBytes
<1>3. m < p /\ (IF 2 * m < p THEN m ELSE m - p) = v
  BY <1>1, <1>2, WireAssumption DEF I64Encodable, Magnitude, LongBytes
<1>4. m % Pow[8] = m
  BY <1>1, <1>3, SmallIsRemainder
<1>5. LittleEndian(m, 8) \in Seq(Digit) /\ Len(LittleEndian(m, 8)) = 8
      /\ Number(LittleEndian(m, 8)) = m
  BY <1>4, DigitsOfNumber DEF Digit
<1>6. i64Le(v) = LittleEndian(m, 8)
  BY <1>1, <1>2 DEF i64Le, LongBytes
<1>7. QED
  BY <1>1, <1>3, <1>5, <1>6 DEF ReadPlain, LongBytes

-----------------------------------------------------------------------------
(***************************************************************************)
(* In data of cells from S, e spells v: whatever follows it, e is read to  *)
(* its end, and as v if v is in the range of the type.                     *)
(***************************************************************************)
Spells(S, type, e, v) ==
  /\ e \in Seq(S)
  /\ \E w : /\ InRange(type, v) => w = v
            /\ \A rest \in Seq(S) :
                 ReadValue(type, e \o rest) = [value |-> w, size |-> Len(e)]

(* What ReadPlain reads back, whatever follows it, spells a plain value.   *)
LEMMA PlainSpells ==
  ASSUME NEW S, NEW type \in Plain, NEW e \in Seq(S), NEW v, Len(e) = SizeOf[type],
         InRange(type, v) => ReadPlain(type, e) = v
  PROVE  Spells(S, type, e, v)
<1>1. ASSUME NEW rest \in Seq(S)
      PROVE  ReadValue(type, e \o rest) = [value |-> ReadPlain(type, e), size |-> Len(e)]
  <2>1. SubSeq(e \o rest, 1, Len(e)) = e
    BY <1>1, PartsOfConcat
  <2>2. QED
    BY <2>1 DEF ReadValue
<1>2. QED
  BY <1>1 DEF Spells

(* The range of the small unsigned integers is their powers.               *)
LEMMA UnsignedInRange ==
  /\ \A v \in Int : InRange("u64", v) => v >= 0
  /\ \A v \in Int : InRange("u32", v) => v \in Nat /\ v < Pow[4]
  /\ \A v \in Int : InRange("u16", v) => v \in Nat /\ v < Pow[2]
  /\ \A v \in Int : InRange("u8", v) => v \in Nat /\ v < Radix
<1>1. Pow[1] = Radix
  <2>1. Pow[0 + 1] = Radix * Pow[0]
    BY PowFacts
  <2>2. QED
    BY <2>1, PowFacts, WireAssumption
<1>2. Pow[4] \in Nat /\ Pow[2] \in Nat /\ Radix \in Nat
  BY PowFacts, WireAssumption
<1>3. QED
  BY <1>1, <1>2, SizesOfPlain DEF InRange

(* Every unsigned encoder spells its integer.                              *)
LEMMA UnsignedSpells ==
  ASSUME NEW S, Digit \subseteq S, NEW v \in Int
  PROVE  /\ U64Encodable(v) => Spells(S, "u64", u64Le(v), v)
         /\ Spells(S, "u32", encodeU32Le(v), v)
         /\ Spells(S, "u16", u16Le(v), v)
         /\ Spells(S, "u8", u8Le(v), v)
<1>1. Seq(Digit) \subseteq Seq(S)
  BY SeqMonotonic
<1>2. ASSUME U64Encodable(v)
      PROVE  Spells(S, "u64", u64Le(v), v)
  <2>1. u64Le(v) \in Seq(S) /\ Len(u64Le(v)) = SizeOf["u64"] /\ ReadPlain("u64",
               u64Le(v)) = Magnitude(v)
    BY <1>1, <1>2, UnsignedRead, SizesOfPlain
  <2>2. InRange("u64", v) => Magnitude(v) = v
    BY UnsignedInRange DEF Magnitude
  <2>3. QED
    BY <2>1, <2>2, SizesOfPlain, PlainSpells
<1>3. Spells(S, "u32", encodeU32Le(v), v)
  <2>1. encodeU32Le(v) \in Seq(S) /\ Len(encodeU32Le(v)) = SizeOf["u32"]
        /\ ReadPlain("u32", encodeU32Le(v)) = v % Pow[4]
    BY <1>1, UnsignedRead, SizesOfPlain DEF ReadPlain
  <2>2. InRange("u32", v) => v % Pow[4] = v
    BY UnsignedInRange, SmallIsRemainder
  <2>3. QED
    BY <2>1, <2>2, SizesOfPlain, PlainSpells
<1>4. Spells(S, "u16", u16Le(v), v)
  <2>1. u16Le(v) \in Seq(S) /\ Len(u16Le(v)) = SizeOf["u16"]
        /\ ReadPlain("u16", u16Le(v)) = v % Pow[2]
    BY <1>1, UnsignedRead, SizesOfPlain
  <2>2. InRange("u16", v) => v % Pow[2] = v
    BY UnsignedInRange, SmallIsRemainder
  <2>3. QED
    BY <2>1, <2>2, SizesOfPlain, PlainSpells
<1>5. Spells(S, "u8", u8Le(v), v)
  <2>1. u8Le(v) \in Seq(S) /\ Len(u8Le(v)) = SizeOf["u8"] /\ ReadPlain("u8", u8Le(v)) = v % Radix
    BY <1>1, UnsignedRead, SizesOfPlain
  <2>2. InRange("u8", v) => v % Radix = v
    BY UnsignedInRange, WireAssumption
  <2>3. QED
    BY <2>1, <2>2, SizesOfPlain, PlainSpells
<1>6. QED
  BY <1>2, <1>3, <1>4, <1>5

(* The signed encoder spells its integer.                                  *)
LEMMA SignedSpells ==
  ASSUME NEW S, Digit \subseteq S, NEW v \in Int, I64Encodable(v)
  PROVE  Spells(S, "i64", i64Le(v), v)
<1>1. Seq(Digit) \subseteq Seq(S)
  BY SeqMonotonic
<1>2. i64Le(v) \in Seq(S) /\ Len(i64Le(v)) = SizeOf["i64"] /\ ReadPlain("i64", i64Le(v)) = v
  BY <1>1, SignedRead, SizesOfPlain
<1>3. QED
  BY <1>2, SizesOfPlain, PlainSpells

(* A 32-byte string and a boolean take one cell each.                      *)
LEMMA CellsSpell ==
  ASSUME NEW S, Digit \subseteq S
  PROVE  /\ \A v \in S : Spells(S, "bytes", <<v>>, v)
         /\ \A v \in BOOLEAN : Spells(S, "bool", encodeBool(v), v)
<1>1. ASSUME NEW v \in S
      PROVE  Spells(S, "bytes", <<v>>, v)
  <2>1. <<v>> \in Seq(S) /\ Len(<<v>>) = SizeOf["bytes"] /\ ReadPlain("bytes", <<v>>) = v
    BY SizesOfPlain DEF ReadPlain
  <2>2. QED
    BY <2>1, SizesOfPlain, PlainSpells
<1>2. ASSUME NEW v \in BOOLEAN
      PROVE  Spells(S, "bool", encodeBool(v), v)
  <2>1. 0 \in S /\ 1 \in S
    BY WireAssumption DEF Digit
  <2>2. encodeBool(v) \in Seq(S) /\ Len(encodeBool(v)) = SizeOf["bool"]
    BY <2>1, SizesOfPlain DEF encodeBool
  <2>3. ReadPlain("bool", encodeBool(v)) = v
    <3>1. CASE v = TRUE
      BY <3>1 DEF ReadPlain, encodeBool
    <3>2. CASE v = FALSE
      BY <3>2 DEF ReadPlain, encodeBool
    <3>3. QED
      BY <3>1, <3>2
  <2>4. QED
    BY <2>2, <2>3, SizesOfPlain, PlainSpells
<1>3. QED
  BY <1>1, <1>2

(* An option: a value in its plain type's cells, or none.                  *)
LEMMA OptionSpells ==
  ASSUME NEW S, Digit \subseteq S, NEW type \in DOMAIN Optional
  PROVE  /\ Spells(S, type, encodeOption(<<>>), <<>>)
         /\ \A e, v : Spells(S, Optional[type], e, v) /\ Len(e) = SizeOf[Optional[type]]
                        /\ (InRange(type, <<v>>) => InRange(Optional[type], v))
              => Spells(S, type, encodeOption(<<e>>), <<v>>)
<1>1. type \notin Plain /\ type # "vec" /\ Optional[type] \in Plain
  BY DEF Optional, Plain
<1>2. 0 \in S /\ 1 \in S
  BY WireAssumption DEF Digit
<1>3. Spells(S, type, encodeOption(<<>>), <<>>)
  <2>1. encodeOption(<<>>) = <<0>>
    BY DEF encodeOption
  <2>2. <<0>> \in Seq(S) /\ Len(<<0>>) = 1 /\ <<0>>[1] = 0
    BY <1>2
  <2>3. ASSUME NEW rest \in Seq(S)
        PROVE  ReadValue(type, <<0>> \o rest) = [value |-> <<>>, size |-> 1]
    <3>1. (<<0>> \o rest)[1] = 0
      BY <2>2, ConcatProperties, LenProperties
    <3>2. QED
      BY <1>1, <3>1 DEF ReadValue
  <2>4. QED
    BY <2>1, <2>2, <2>3 DEF Spells
<1>4. ASSUME NEW e, NEW v, Spells(S, Optional[type], e, v), Len(e) = SizeOf[Optional[type]],
             InRange(type, <<v>>) => InRange(Optional[type], v)
      PROVE  Spells(S, type, encodeOption(<<e>>), <<v>>)
  <2>1. encodeOption(<<e>>) = <<1>> \o e
    BY DEF encodeOption
  <2>2. <<1>> \in Seq(S) /\ Len(<<1>>) = 1 /\ <<1>>[1] = 1
    BY <1>2
  <2>3. e \in Seq(S)
    BY <1>4 DEF Spells
  <2>4. PICK w : /\ InRange(Optional[type], v) => w = v
                 /\ \A rest \in Seq(S) :
                      ReadValue(Optional[type], e \o rest) = [value |-> w, size |-> Len(e)]
    BY <1>4 DEF Spells
  <2>5. PICK m \in Nat : m = SizeOf[Optional[type]] /\ Sized(S, e, m)
    BY <1>4, <2>3, LenProperties DEF Sized
  <2>6. ReadPlain(Optional[type], e) = w
    <3>1. PICK none \in Seq(S) : none = <<>> /\ e \o none = e
      BY <2>3, EmptySeq, ConcatEmptySeq
    <3>2. ReadValue(Optional[type], e \o none).value = w
      BY <2>4
    <3>3. ReadValue(Optional[type], e).value = w
      BY <3>1, <3>2
    <3>4. SubSeq(e, 1, SizeOf[Optional[type]]) = e
      BY <1>4, <2>3, SubSeqFull
    <3>5. QED
      BY <1>1, <3>3, <3>4 DEF ReadValue
  <2>7. PICK marked : marked = <<1>> \o e
    OBVIOUS
  <2>8. Sized(S, <<1>>, 1) /\ <<1>>[1] = 1
    BY <2>2 DEF Sized
  <2>9. /\ Sized(S, marked, 1 + m)
        /\ \A rest \in Seq(S) : (marked \o rest)[1] = 1 /\ SubSeq(marked \o rest, 2, 1 + m) = e
    <3>0. PICK l \in Nat : l = 1
      OBVIOUS
    <3>1. PICK one : l = 1 /\ one = <<1>>
      BY <3>0
    <3>2. Sized(S, one, l) /\ Sized(S, e, m)
      BY <2>5, <2>8, <3>1
    <3>3. /\ Sized(S, one \o e, l + m)
          /\ \A rest \in Seq(S) :
               LET all == (one \o e) \o rest
               IN  (l > 0 => all[1] = one[1]) /\ SubSeq(all, l + 1, l + m) = e
      <4>1. Joined(S, one, l, e, m)
        BY <3>2, TwoParts, Zenon
      <4>2. QED
        BY <4>1 DEF Joined
    <3>4. l > 0 /\ l + 1 = 2 /\ one[1] = 1
      BY <2>8, <3>1
    <3>5. marked = one \o e
      BY <2>7, <3>1
    <3>6. QED
      BY <3>1, <3>3, <3>4, <3>5
  <2>10. ASSUME NEW rest \in Seq(S)
         PROVE  ReadValue(type, marked \o rest) = [value |-> <<w>>, size |-> 1 + m]
    <3>1. PICK all : all = marked \o rest
      OBVIOUS
    <3>2. all[1] = 1 /\ SubSeq(all, 2, 1 + m) = e
      BY <2>9, <3>1
    <3>3. all[1] # 0
      BY <3>2
    <3>4. ReadValue(type, all)
            = [value |-> <<ReadPlain(Optional[type], SubSeq(all, 2,
            1 + SizeOf[Optional[type]]))>>,
               size |-> 1 + SizeOf[Optional[type]]]
      BY <1>1, <3>3 DEF ReadValue
    <3>5. QED
      BY <2>5, <2>6, <3>1, <3>2, <3>4
  <2>11. InRange(type, <<v>>) => <<w>> = <<v>>
    BY <1>4, <2>4
  <2>12. marked \in Seq(S) /\ Len(marked) = 1 + m
    BY <2>9 DEF Sized
  <2>13. Spells(S, type, marked, <<v>>)
    BY <2>10, <2>11, <2>12 DEF Spells
  <2>14. QED
    BY <2>1, <2>7, <2>13
<1>5. QED
  BY <1>3, <1>4

(* A vector, of no more elements than its length has room for.             *)
LEMMA VectorSpells ==
  ASSUME NEW S, Digit \subseteq S, NEW v \in Seq(Int), Len(v) < Pow[4]
  PROVE  Spells(S, "vec", encodeVec(v), v)
<1>1. PICK m \in Nat : m = Len(v)
  BY LenProperties
<1>2. PICK length : length = encodeU32Le(m)
  OBVIOUS
<1>3. length \in Seq(S) /\ Len(length) = 4 /\ Number(length) = m
  <2>1. m % Pow[4] = m
    BY <1>1, SmallIsRemainder
  <2>2. Seq(Digit) \subseteq Seq(S)
    BY SeqMonotonic
  <2>3. QED
    BY <1>2, <2>1, <2>2, UnsignedRead
<1>4. PICK body : body = [i \in 1 .. m |-> v[i] % Radix]
  OBVIOUS
<1>5. \A i \in 1 .. m : v[i] % Radix \in S
  <2>1. \A i \in 1 .. m : v[i] \in Int
    BY <1>1, ElementOfSeq
  <2>2. QED
    BY <2>1, WireAssumption DEF Digit
<1>6. Sized(S, length, 4) /\ Sized(S, body, m)
  BY <1>3, <1>4, <1>5 DEF Sized
<1>7. PICK all : all = length \o body
  OBVIOUS
<1>8. encodeVec(v) = all
  BY <1>1, <1>2, <1>4, <1>7 DEF encodeVec
<1>9. /\ Sized(S, all, 4 + m)
      /\ \A rest \in Seq(S) :
           SubSeq(all \o rest, 1, 4) = length /\ SubSeq(all \o rest, 5, 4 + m) = body
  <2>1. PICK l \in Nat : l = 4
    OBVIOUS
  <2>2. Sized(S, length, l) /\ Sized(S, body, m)
    BY <1>6, <2>1
  <2>3. /\ Sized(S, length \o body, l + m)
        /\ \A rest \in Seq(S) :
             LET whole == (length \o body) \o rest
             IN  SubSeq(whole, 1, l) = length /\ SubSeq(whole, l + 1, l + m) = body
    <3>1. Joined(S, length, l, body, m)
      BY <2>2, TwoParts, Zenon
    <3>2. QED
      BY <3>1 DEF Joined
  <2>4. l + 1 = 5
    BY <2>1
  <2>5. QED
    BY <1>7, <2>1, <2>3, <2>4
<1>10. ASSUME NEW rest \in Seq(S)
       PROVE  ReadValue("vec", all \o rest) = [value |-> body, size |-> 4 + m]
  <2>1. PICK data : data = all \o rest
    OBVIOUS
  <2>2. Number(SubSeq(data, 1, 4)) = m /\ SubSeq(data, 5, 4 + m) = body
    BY <1>3, <1>9, <2>1
  <2>3. "vec" \notin Plain
    BY DEF Plain
  <2>4. ReadValue("vec", data) = [value |-> body, size |-> 4 + m]
    BY <2>2, <2>3 DEF ReadValue
  <2>5. QED
    BY <2>1, <2>4
<1>11. ASSUME InRange("vec", v)
       PROVE  body = v
  <2>1. Range(v) \subseteq 0 .. Radix - 1
    BY <1>11, PowOne, SizesOfPlain DEF InRange
  <2>2. DOMAIN v = 1 .. m
    BY <1>1, LenProperties
  <2>3. \A i \in 1 .. m : v[i] \in 0 .. Radix - 1
    BY <2>1, <2>2 DEF Range
  <2>4. \A i \in 1 .. m : body[i] = v[i]
    <3>1. ASSUME NEW i \in 1 .. m
          PROVE  body[i] = v[i]
      <4>1. PICK x \in 0 .. Radix - 1 : x = v[i]
        BY <2>3
      <4>2. x % Radix = x
        BY WireAssumption
      <4>3. QED
        BY <1>4, <4>1, <4>2
    <3>2. QED
      BY <3>1
  <2>5. body = [i \in 1 .. m |-> body[i]] /\ v = [i \in 1 .. m |-> v[i]]
    BY <1>4, <2>2, LenProperties
  <2>6. QED
    BY <2>4, <2>5
<1>12. all \in Seq(S) /\ Len(all) = 4 + m
  BY <1>9 DEF Sized
<1>13. Spells(S, "vec", all, v)
  BY <1>10, <1>11, <1>12 DEF Spells
<1>14. QED
  BY <1>8, <1>13

-----------------------------------------------------------------------------
(***************************************************************************)
(* Reading(name, data) satisfies its definition: the arguments are read    *)
(* one after another.                                                      *)
(***************************************************************************)
ReadsInTurn(f, n, name, data) ==
  f = [k \in 0 .. n |->
        IF k = 0 THEN [values |-> <<>>, rest |-> data]
                 ELSE ReadNext(IdlArgs[name][k], f[k - 1])]

(* There is such a function, by recursion on the arguments.                *)
LEMMA ReadingsExist ==
  ASSUME NEW name, NEW data
  PROVE  \A n \in Nat : \E f : ReadsInTurn(f, n, name, data)
<1> DEFINE P == {n \in Nat : \E f : ReadsInTurn(f, n, name, data)}
           start == [values |-> <<>>, rest |-> data]
<1>1. 0 \in P
  <2> DEFINE f == [k \in 0 .. 0 |-> start]
  <2>1. f = [k \in 0 .. 0 |-> IF k = 0 THEN start ELSE ReadNext(IdlArgs[name][k], f[k - 1])]
    OBVIOUS
  <2> HIDE DEF f
  <2>2. ReadsInTurn(f, 0, name, data)
    BY <2>1 DEF ReadsInTurn
  <2>3. QED
    BY <2>2
<1>2. ASSUME NEW n \in Nat, n \in P
      PROVE  n + 1 \in P
  <2>1. PICK f : ReadsInTurn(f, n, name, data)
    BY <1>2
  <2>2. PICK next : next = ReadNext(IdlArgs[name][n + 1], f[n])
    OBVIOUS
  <2> DEFINE g == [k \in 0 .. n + 1 |-> IF k = n + 1 THEN next ELSE f[k]]
  <2>3. \A k \in 0 .. n : f[k] = IF k = 0 THEN start ELSE ReadNext(IdlArgs[name][k], f[k - 1])
    BY <2>1 DEF ReadsInTurn
  <2>4. g[n + 1] = next /\ \A k \in 0 .. n : g[k] = f[k]
    OBVIOUS
  <2>5. g = [k \in 0 .. n + 1 |-> g[k]]
    OBVIOUS
  <2> HIDE DEF g
  <2>6. ASSUME NEW k \in 0 .. n + 1
        PROVE  g[k] = IF k = 0 THEN start ELSE ReadNext(IdlArgs[name][k], g[k - 1])
    <3>1. CASE k = n + 1
      <4>1. k # 0 /\ k - 1 = n /\ n \in 0 .. n
        BY <3>1
      <4>2. g[k - 1] = f[n] /\ g[k] = next
        BY <2>4, <3>1, <4>1
      <4>3. QED
        BY <2>2, <3>1, <4>1, <4>2
    <3>2. CASE k # n + 1
      <4>1. k \in 0 .. n /\ (k # 0 => k - 1 \in 0 .. n)
        BY <3>2
      <4>2. g[k] = f[k] /\ (k # 0 => g[k - 1] = f[k - 1])
        BY <2>4, <4>1
      <4>3. QED
        BY <2>3, <4>1, <4>2
    <3>3. QED
      BY <3>1, <3>2
  <2>7. ReadsInTurn(g, n + 1, name, data)
    BY <2>5, <2>6 DEF ReadsInTurn
  <2>8. QED
    BY <2>7
<1> HIDE DEF P
<1>3. Nat \subseteq P
  BY <1>1, <1>2, NatInductionOnSets
<1>4. QED
  BY <1>3 DEF P

(* Reading is one of them.                                                 *)
LEMMA ReadingIsChosen ==
  ASSUME NEW name, NEW data
  PROVE  Reading(name, data) = CHOOSE f : ReadsInTurn(f, Len(IdlArgs[name]), name, data)
BY Zenon DEF Reading, ReadsInTurn

OneByOne(f, name, data) ==
  /\ f[0] = [values |-> <<>>, rest |-> data]
  /\ \A k \in 1 .. Len(IdlArgs[name]) : f[k] = ReadNext(IdlArgs[name][k], f[k - 1])

(* Decode reads the arguments one by one.                                  *)
LEMMA ReadingFacts ==
  ASSUME NEW name, NEW data, Len(IdlArgs[name]) \in Nat
  PROVE  OneByOne(Reading(name, data), name, data)
<1>1. PICK n \in Nat : n = Len(IdlArgs[name])
  OBVIOUS
<1>2. PICK f : f = Reading(name, data)
  OBVIOUS
<1>3. \E g : ReadsInTurn(g, n, name, data)
  BY ReadingsExist
<1>4. f = CHOOSE g : ReadsInTurn(g, n, name, data)
  BY <1>1, <1>2, ReadingIsChosen
<1>5. ReadsInTurn(f, n, name, data)
  BY <1>3, <1>4, Zenon
<1>6. f = [k \in 0 .. n |->
            IF k = 0 THEN [values |-> <<>>, rest |-> data]
                     ELSE ReadNext(IdlArgs[name][k], f[k - 1])]
  BY <1>5 DEF ReadsInTurn
<1>7. f[0] = [values |-> <<>>, rest |-> data]
      /\ \A k \in 1 .. n : f[k] = ReadNext(IdlArgs[name][k], f[k - 1])
  BY <1>6
<1>8. QED
  BY <1>1, <1>2, <1>7 DEF OneByOne

-----------------------------------------------------------------------------
(***************************************************************************)
(* data spells the first k arguments: whatever follows it, reading them    *)
(* leaves the rest, with the values that were asked for.                   *)
(***************************************************************************)
ReadTo(name, asked, k, data, rest) ==
  \E values, T :
    /\ Reading(name, data)[k] = [values |-> values, rest |-> rest]
    /\ values \in Seq(T) /\ Len(values) = k
    /\ \A i \in 1 .. k : InRange(IdlArgs[name][i], asked[i]) => values[i] = asked[i]

SpellsTo(S, name, asked, k, data) ==
  /\ data \in Seq(S)
  /\ \A rest \in Seq(S) : ReadTo(name, asked, k, data \o rest, rest)

(* No arguments are spelled by no data.                                    *)
LEMMA SpellsNothing ==
  ASSUME NEW S, NEW name, NEW asked, Len(IdlArgs[name]) \in Nat
  PROVE  SpellsTo(S, name, asked, 0, <<>>)
<1>1. <<>> \in Seq(S)
  BY EmptySeq
<1>2. ASSUME NEW rest \in Seq(S)
      PROVE  ReadTo(name, asked, 0, <<>> \o rest, rest)
  <2>1. PICK none \in Seq(S) : none = <<>> /\ Len(none) = 0
    BY <1>1
  <2>2. <<>> \o rest = rest
    BY ConcatEmptySeq
  <2>3. Reading(name, rest)[0] = [values |-> none, rest |-> rest]
    <3>1. OneByOne(Reading(name, rest), name, rest)
      BY ReadingFacts, Zenon
    <3>2. QED
      BY <2>1, <3>1 DEF OneByOne
  <2>4. \A i \in 1 .. 0 : FALSE
    OBVIOUS
  <2>5. QED
    BY <2>1, <2>2, <2>3, <2>4, Zenon DEF ReadTo
<1>3. QED
  BY <1>1, <1>2 DEF SpellsTo

(* Data that spell k arguments, with the encoding of one more, spell k +   *)
(* 1.                                                                      *)
LEMMA SpellsOneMore ==
  ASSUME NEW S, NEW name, NEW asked, Len(IdlArgs[name]) \in Nat,
         NEW k \in Nat, k + 1 <= Len(IdlArgs[name]),
         NEW data, SpellsTo(S, name, asked, k, data),
         NEW e, Spells(S, IdlArgs[name][k + 1], e, asked[k + 1])
  PROVE  SpellsTo(S, name, asked, k + 1, data \o e)
<1>1. data \in Seq(S) /\ e \in Seq(S)
  BY DEF SpellsTo, Spells
<1>2. PICK type, v : type = IdlArgs[name][k + 1] /\ v = asked[k + 1]
  OBVIOUS
<1>3. PICK w : /\ InRange(type, v) => w = v
               /\ \A rest \in Seq(S) :
                    ReadValue(type, e \o rest) = [value |-> w, size |-> Len(e)]
  BY <1>2 DEF Spells
<1>4. ASSUME NEW rest \in Seq(S)
      PROVE  ReadTo(name, asked, k + 1, (data \o e) \o rest, rest)
  <2>1. PICK tail \in Seq(S) : tail = e \o rest
    BY <1>1, ConcatProperties
  <2>2. PICK all : all = data \o tail
    OBVIOUS
  <2>3. PICK before, T :
          /\ Reading(name, all)[k] = [values |-> before, rest |-> tail]
          /\ before \in Seq(T) /\ Len(before) = k
          /\ \A i \in 1 .. k : InRange(IdlArgs[name][i], asked[i]) => before[i] = asked[i]
    <3>1. \A r \in Seq(S) : ReadTo(name, asked, k, data \o r, r)
      BY DEF SpellsTo
    <3>2. ReadTo(name, asked, k, all, tail)
      BY <2>2, <3>1
    <3>3. QED
      BY <3>2 DEF ReadTo
  <2>4. ReadValue(type, tail) = [value |-> w, size |-> Len(e)]
    BY <1>3, <2>1
  <2>5. SubSeq(tail, Len(e) + 1, Len(tail)) = rest
    BY <1>1, <2>1, PartsOfConcat
  <2>6. Reading(name, all)[k + 1] = [values |-> Append(before, w), rest |-> rest]
    <3>1. k + 1 \in 1 .. Len(IdlArgs[name]) /\ (k + 1) - 1 = k
      OBVIOUS
    <3>2. Reading(name, all)[k + 1] = ReadNext(type, Reading(name, all)[k])
      <4>1. PICK j \in 1 .. Len(IdlArgs[name]) : j = k + 1 /\ j - 1 = k
        BY <3>1
      <4>2. \A i \in 1 .. Len(IdlArgs[name]) :
              Reading(name, all)[i] = ReadNext(IdlArgs[name][i], Reading(name, all)[i - 1])
        <5>1. OneByOne(Reading(name, all), name, all)
          BY ReadingFacts, Zenon
        <5>2. QED
          BY <5>1 DEF OneByOne
      <4>3. QED
        BY <1>2, <4>1, <4>2, Zenon
    <3>3. PICK b : b = [values |-> before, rest |-> tail]
      OBVIOUS
    <3>4. b.values = before /\ b.rest = tail
      BY <3>3
    <3>5. ReadNext(type, b) = [values |-> Append(before, w), rest |-> rest]
      <4>1. PICK next : next = ReadValue(type, tail)
        OBVIOUS
      <4>2. next.value = w /\ next.size = Len(e)
        BY <2>4, <4>1
      <4>3. ReadNext(type, b)
              = [values |-> Append(before, next.value),
                 rest |-> SubSeq(tail, next.size + 1, Len(tail))]
        BY <3>4, <4>1 DEF ReadNext
      <4>4. QED
        BY <2>5, <4>2, <4>3
    <3>6. QED
      BY <2>3, <3>2, <3>3, <3>5, Zenon
  <2>7. before \in Seq(T \cup {w})
    BY <2>3, SeqMonotonic
  <2>8. /\ Append(before, w) \in Seq(T \cup {w}) /\ Len(Append(before, w)) = k + 1
        /\ \A i \in 1 .. k : Append(before, w)[i] = before[i]
        /\ Append(before, w)[k + 1] = w
    BY <2>3, <2>7, AppendProperties, SMTT(60)
  <2>9. \A i \in 1 .. k + 1 :
          InRange(IdlArgs[name][i], asked[i]) => Append(before, w)[i] = asked[i]
    <3>1. ASSUME NEW i \in 1 .. k + 1, InRange(IdlArgs[name][i], asked[i])
          PROVE  Append(before, w)[i] = asked[i]
      <4>1. CASE i = k + 1
        BY <1>2, <1>3, <2>8, <3>1, <4>1
      <4>2. CASE i # k + 1
        <5>1. i \in 1 .. k
          BY <4>2
        <5>2. QED
          BY <2>3, <2>8, <3>1, <5>1
      <4>3. QED
        BY <4>1, <4>2
    <3>2. QED
      BY <3>1
  <2>10. (data \o e) \o rest = all
    <3>1. PICK d \in Seq(S), f \in Seq(S) : d = data /\ f = e
      BY <1>1
    <3>2. (d \o f) \o rest = d \o (f \o rest)
      BY ConcatAssociative, SMTT(60)
    <3>3. QED
      BY <2>1, <2>2, <3>1, <3>2
  <2>11. PICK values : values = Append(before, w)
    OBVIOUS
  <2>12. /\ Reading(name, all)[k + 1] = [values |-> values, rest |-> rest]
         /\ values \in Seq(T \cup {w}) /\ Len(values) = k + 1
         /\ \A i \in 1 .. k + 1 :
              InRange(IdlArgs[name][i], asked[i]) => values[i] = asked[i]
    BY <2>6, <2>8, <2>9, <2>11
  <2>13. QED
    <3>1. ReadTo(name, asked, k + 1, all, rest)
      BY <2>12, Zenon DEF ReadTo
    <3>2. QED
      BY <2>10, <3>1
<1>5. data \o e \in Seq(S)
  BY <1>1, ConcatProperties
<1>6. QED
  BY <1>4, <1>5 DEF SpellsTo

(* When all of them are spelled the data is read as it was meant.          *)
DecodesAs(name, data, asked) ==
  LET read == Decode(name, data)
      types == IdlArgs[name]
  IN  /\ read.rest = <<>>
      /\ \A i \in DOMAIN types : InRange(types[i], asked[i]) => read.values[i] = asked[i]

Arity(name, n) == n \in Nat /\ Len(IdlArgs[name]) = n /\ DOMAIN IdlArgs[name] = 1 .. n

(* Data that spell all the arguments are decoded to them, with nothing     *)
(* left.                                                                   *)
LEMMA SpellsAll ==
  ASSUME NEW S, NEW name, NEW asked, NEW n, Arity(name, n),
         NEW data, SpellsTo(S, name, asked, n, data)
  PROVE  DecodesAs(name, data, asked)
<1> n \in Nat /\ n = Len(IdlArgs[name]) /\ DOMAIN IdlArgs[name] = 1 .. n
  BY DEF Arity
<1>1. PICK none \in Seq(S) : none = <<>> /\ data \o none = data
  <2>1. data \in Seq(S)
    BY DEF SpellsTo
  <2>2. QED
    BY <2>1, EmptySeq, ConcatEmptySeq
<1>2. PICK values, T :
        /\ Reading(name, data)[n] = [values |-> values, rest |-> <<>>]
        /\ \A i \in 1 .. n : InRange(IdlArgs[name][i], asked[i]) => values[i] = asked[i]
  <2>1. \A r \in Seq(S) : ReadTo(name, asked, n, data \o r, r)
    BY DEF SpellsTo
  <2>2. ReadTo(name, asked, n, data \o none, none)
    BY <2>1
  <2>3. ReadTo(name, asked, n, data, <<>>)
    BY <1>1, <2>2
  <2>4. QED
    BY <2>3 DEF ReadTo
<1>3. Decode(name, data) = [values |-> values, rest |-> <<>>]
  BY <1>2 DEF Decode
<1>4. QED
  BY <1>2, <1>3 DEF DecodesAs

Cells == Digit \cup Bytes \cup ShortBytes

-----------------------------------------------------------------------------
(***************************************************************************)
(* Argument j of an instruction comes after k others, and is of a type and *)
(* asked to be v.                                                          *)
(***************************************************************************)
Follows(name, asked, k, j, type, v) ==
  /\ k \in Nat /\ j = k + 1 /\ Len(IdlArgs[name]) \in Nat /\ j <= Len(IdlArgs[name])
  /\ IdlArgs[name][j] = type /\ asked[j] = v

(* The next argument is spelled.                                           *)
LEMMA SpellsNext ==
  ASSUME NEW S, NEW name, NEW asked, NEW k, NEW j, NEW type, NEW v,
         Follows(name, asked, k, j, type, v),
         NEW data, SpellsTo(S, name, asked, k, data), NEW e, Spells(S, type, e, v)
  PROVE  SpellsTo(S, name, asked, j, data \o e)
<1>1. k \in Nat /\ k + 1 <= Len(IdlArgs[name]) /\ Len(IdlArgs[name]) \in Nat /\ j = k + 1
  BY DEF Follows
<1>2. Spells(S, IdlArgs[name][k + 1], e, asked[k + 1])
  BY DEF Follows
<1>3. SpellsTo(S, name, asked, k + 1, data \o e)
  BY <1>1, <1>2, SpellsOneMore
<1>4. QED
  BY <1>1, <1>3

(* The first argument is spelled.                                          *)
LEMMA SpellsFirst ==
  ASSUME NEW S, NEW name, NEW asked, NEW type, NEW v,
         Follows(name, asked, 0, 1, type, v), NEW e, Spells(S, type, e, v)
  PROVE  SpellsTo(S, name, asked, 1, e)
<1>1. SpellsTo(S, name, asked, 0, <<>>)
  BY SpellsNothing DEF Follows
<1>2. SpellsTo(S, name, asked, 1, <<>> \o e)
  BY <1>1, SpellsNext, Zenon
<1>3. <<>> \o e = e
  BY ConcatEmptySeq DEF Spells
<1>4. QED
  BY <1>2, <1>3

(* An instruction says what was asked when all its arguments are spelled.  *)
Says(ix, asked) == DecodesAs(ix.name, ix.data, asked)

-----------------------------------------------------------------------------
(***************************************************************************)
(* Instructions of up to four arguments, by the types of these.            *)
(***************************************************************************)
LEMMA NoArguments ==
  ASSUME NEW name, NEW asked, Arity(name, 0)
  PROVE  DecodesAs(name, <<>>, asked)
<1>1. SpellsTo(Cells, name, asked, 0, <<>>)
  BY SpellsNothing DEF Arity
<1>2. QED
  BY <1>1, SpellsAll, Zenon

(* One argument.                                                           *)
LEMMA OneArgument ==
  ASSUME NEW name, NEW asked, Arity(name, 1),
         NEW t, NEW v, Follows(name, asked, 0, 1, t, v),
         NEW e, Spells(Cells, t, e, v)
  PROVE  DecodesAs(name, e, asked)
<1>1. SpellsTo(Cells, name, asked, 1, e)
  BY SpellsFirst, Zenon
<1>2. QED
  BY <1>1, SpellsAll, Zenon

(* Two arguments.                                                          *)
LEMMA TwoArguments ==
  ASSUME NEW name, NEW asked, Arity(name, 2),
         NEW t1, NEW v1, Follows(name, asked, 0, 1, t1, v1),
         NEW t2, NEW v2, Follows(name, asked, 1, 2, t2, v2),
         NEW e1, Spells(Cells, t1, e1, v1), NEW e2, Spells(Cells, t2, e2, v2)
  PROVE  DecodesAs(name, e1 \o e2, asked)
<1>1. SpellsTo(Cells, name, asked, 1, e1)
  BY SpellsFirst, Zenon
<1>2. SpellsTo(Cells, name, asked, 2, e1 \o e2)
  BY <1>1, SpellsNext, Zenon
<1>3. QED
  BY <1>2, SpellsAll, Zenon

(* Three arguments.                                                        *)
LEMMA ThreeArguments ==
  ASSUME NEW name, NEW asked, Arity(name, 3),
         NEW t1, NEW v1, Follows(name, asked, 0, 1, t1, v1),
         NEW t2, NEW v2, Follows(name, asked, 1, 2, t2, v2),
         NEW t3, NEW v3, Follows(name, asked, 2, 3, t3, v3),
         NEW e1, Spells(Cells, t1, e1, v1), NEW e2, Spells(Cells, t2, e2, v2),
         NEW e3, Spells(Cells, t3, e3, v3)
  PROVE  DecodesAs(name, e1 \o e2 \o e3, asked)
<1>1. SpellsTo(Cells, name, asked, 1, e1)
  BY SpellsFirst, Zenon
<1>2. SpellsTo(Cells, name, asked, 2, e1 \o e2)
  BY <1>1, SpellsNext, Zenon
<1>3. SpellsTo(Cells, name, asked, 3, e1 \o e2 \o e3)
  BY <1>2, SpellsNext, Zenon
<1>4. QED
  BY <1>3, SpellsAll, Zenon

(* Four arguments.                                                         *)
LEMMA FourArguments ==
  ASSUME NEW name, NEW asked, Arity(name, 4),
         NEW t1, NEW v1, Follows(name, asked, 0, 1, t1, v1),
         NEW t2, NEW v2, Follows(name, asked, 1, 2, t2, v2),
         NEW t3, NEW v3, Follows(name, asked, 2, 3, t3, v3),
         NEW t4, NEW v4, Follows(name, asked, 3, 4, t4, v4),
         NEW e1, Spells(Cells, t1, e1, v1), NEW e2, Spells(Cells, t2, e2, v2),
         NEW e3, Spells(Cells, t3, e3, v3), NEW e4, Spells(Cells, t4, e4, v4)
  PROVE  DecodesAs(name, e1 \o e2 \o e3 \o e4, asked)
<1>1. SpellsTo(Cells, name, asked, 1, e1)
  BY SpellsFirst, Zenon
<1>2. SpellsTo(Cells, name, asked, 2, e1 \o e2)
  BY <1>1, SpellsNext, Zenon
<1>3. SpellsTo(Cells, name, asked, 3, e1 \o e2 \o e3)
  BY <1>2, SpellsNext, Zenon
<1>4. SpellsTo(Cells, name, asked, 4, e1 \o e2 \o e3 \o e4)
  BY <1>3, SpellsNext, Zenon
<1>5. QED
  BY <1>4, SpellsAll, Zenon

(* Six arguments.                                                          *)
LEMMA SixArguments ==
  ASSUME NEW name, NEW asked, Arity(name, 6),
         NEW t1, NEW v1, Follows(name, asked, 0, 1, t1, v1),
         NEW t2, NEW v2, Follows(name, asked, 1, 2, t2, v2),
         NEW t3, NEW v3, Follows(name, asked, 2, 3, t3, v3),
         NEW t4, NEW v4, Follows(name, asked, 3, 4, t4, v4),
         NEW t5, NEW v5, Follows(name, asked, 4, 5, t5, v5),
         NEW t6, NEW v6, Follows(name, asked, 5, 6, t6, v6),
         NEW e1, Spells(Cells, t1, e1, v1), NEW e2, Spells(Cells, t2, e2, v2),
         NEW e3, Spells(Cells, t3, e3, v3), NEW e4, Spells(Cells, t4, e4, v4),
         NEW e5, Spells(Cells, t5, e5, v5), NEW e6, Spells(Cells, t6, e6, v6)
  PROVE  DecodesAs(name, e1 \o e2 \o e3 \o e4 \o e5 \o e6, asked)
<1>1. SpellsTo(Cells, name, asked, 1, e1)
  BY SpellsFirst, Zenon
<1>2. SpellsTo(Cells, name, asked, 2, e1 \o e2)
  BY <1>1, SpellsNext, Zenon
<1>3. SpellsTo(Cells, name, asked, 3, e1 \o e2 \o e3)
  BY <1>2, SpellsNext, Zenon
<1>4. SpellsTo(Cells, name, asked, 4, e1 \o e2 \o e3 \o e4)
  BY <1>3, SpellsNext, Zenon
<1>5. SpellsTo(Cells, name, asked, 5, e1 \o e2 \o e3 \o e4 \o e5)
  BY <1>4, SpellsNext
<1>6. SpellsTo(Cells, name, asked, 6, e1 \o e2 \o e3 \o e4 \o e5 \o e6)
  BY <1>5, SpellsNext
<1>7. QED
  BY <1>6, SpellsAll, Zenon

-----------------------------------------------------------------------------
(***************************************************************************)
(* The instructions, one by one: their data says what was asked.           *)
(***************************************************************************)
LEMMA CellsHold == Digit \subseteq Cells /\ Bytes \subseteq Cells /\ ShortBytes \subseteq Cells
BY DEF Cells

(* The instruction of initialize says what was asked.                      *)
LEMMA InitializeSays ==
  ASSUME NEW admin, NEW knobs \in [KnobNames -> Int],
         \A k \in {"dustFreeUnit", "auditorCosignLamports"} : U64Encodable(knobs[k]),
         \A k \in {"burnerTtlMin", "burnerTtlMax", "mixRevealWindow"} : I64Encodable(knobs[k])
  PROVE  Says(buildInitializeInstruction(admin, knobs),
              <<knobs.dustFreeUnit, knobs.burnerTtlMin, knobs.burnerTtlMax,
                knobs.burnerRegistryCap, knobs.mixMinParticipants,
                knobs.mixMaxParticipants, knobs.mixRevealWindow,
                knobs.auditorCosignLamports>>)
<1>1. PICK a \in Int, b \in Int, c \in Int, d \in Int, e \in Int, f \in Int, g \in Int,
             h \in Int :
        /\ a = knobs.dustFreeUnit /\ b = knobs.burnerTtlMin /\ c = knobs.burnerTtlMax
        /\ d = knobs.burnerRegistryCap /\ e = knobs.mixMinParticipants
        /\ f = knobs.mixMaxParticipants /\ g = knobs.mixRevealWindow
        /\ h = knobs.auditorCosignLamports
  BY DEF KnobNames
<1>2. U64Encodable(a) /\ U64Encodable(h) /\ I64Encodable(b) /\ I64Encodable(c) /\ I64Encodable(g)
  BY <1>1
<1>3. Digit \subseteq Cells
  BY DEF Cells
<1>4. /\ Spells(Cells, "u64", u64Le(a), a) /\ Spells(Cells, "u64", u64Le(h), h)
      /\ Spells(Cells, "u16", u16Le(d), d)
      /\ Spells(Cells, "u8", u8Le(e), e) /\ Spells(Cells, "u8", u8Le(f), f)
  BY <1>2, <1>3, UnsignedSpells
<1>5. /\ Spells(Cells, "i64", i64Le(b), b) /\ Spells(Cells, "i64", i64Le(c), c)
      /\ Spells(Cells, "i64", i64Le(g), g)
  BY <1>2, <1>3, SignedSpells
<1>6. PICK ix, name, asked :
        /\ ix = buildInitializeInstruction(admin, knobs) /\ name = ix.name
        /\ asked = <<a, b, c, d, e, f, g, h>>
  OBVIOUS
<1>7. name = "initialize"
      /\ ix.data = u64Le(a) \o i64Le(b) \o i64Le(c) \o u16Le(d) \o u8Le(e) \o u8Le(f)
                     \o i64Le(g) \o u64Le(h)
  BY <1>1, <1>6 DEF buildInitializeInstruction, Instruction
<1>8. /\ Arity(name, 8)
      /\ Follows(name, asked, 0, 1, "u64", a) /\ Follows(name, asked, 1, 2, "i64", b)
      /\ Follows(name, asked, 2, 3, "i64", c) /\ Follows(name, asked, 3, 4, "u16", d)
      /\ Follows(name, asked, 4, 5, "u8", e) /\ Follows(name, asked, 5, 6, "u8", f)
      /\ Follows(name, asked, 6, 7, "i64", g) /\ Follows(name, asked, 7, 8, "u64", h)
  BY <1>6, <1>7 DEF Arity, Follows, IdlArgs
<1>9. SpellsTo(Cells, name, asked, 3, u64Le(a) \o i64Le(b) \o i64Le(c))
  BY <1>4, <1>5, <1>8, SpellsFirst, SpellsNext, Zenon
<1>10. SpellsTo(Cells, name, asked, 4, u64Le(a) \o i64Le(b) \o i64Le(c) \o u16Le(d))
  BY <1>4, <1>5, <1>8, <1>9, SpellsNext
<1>11. SpellsTo(Cells, name, asked, 5, u64Le(a) \o i64Le(b) \o i64Le(c) \o u16Le(d) \o u8Le(e))
  BY <1>4, <1>5, <1>8, <1>10, SpellsNext
<1>12. SpellsTo(Cells, name, asked, 6,
              u64Le(a) \o i64Le(b) \o i64Le(c) \o u16Le(d) \o u8Le(e) \o u8Le(f))
  BY <1>4, <1>5, <1>8, <1>11, SpellsNext
<1>13. SpellsTo(Cells, name, asked, 7,
              u64Le(a) \o i64Le(b) \o i64Le(c) \o u16Le(d) \o u8Le(e) \o u8Le(f) \o i64Le(g))
  BY <1>4, <1>5, <1>8, <1>12, SpellsNext
<1>14. SpellsTo(Cells, name, asked, 8,
              u64Le(a) \o i64Le(b) \o i64Le(c) \o u16Le(d) \o u8Le(e) \o u8Le(f) \o i64Le(g) \o u64Le(h))
  BY <1>4, <1>5, <1>8, <1>13, SpellsNext
<1>15. SpellsTo(Cells, name, asked, 8, ix.data)
  BY <1>7, <1>14
<1>16. DecodesAs(name, ix.data, asked)
  BY <1>8, <1>15, SpellsAll, Zenon
<1>17. QED
  BY <1>1, <1>6, <1>16 DEF Says

(* The instruction of shield says what was asked.                          *)
LEMMA ShieldSays ==
  ASSUME NEW owner, NEW mint, NEW source, NEW to, NEW amount \in Int, U64Encodable(amount)
  PROVE  Says(buildShieldInstruction(owner, mint, source, to, amount),
              <<amount>>)
<1>1. PICK ix, asked : ix = buildShieldInstruction(owner, mint, source, to, amount)
             /\ asked = <<amount>>
  OBVIOUS
<1>2. ix.name = "shield" /\ ix.data = u64Le(amount)
  BY <1>1 DEF buildShieldInstruction, Instruction
<1>3. /\ Arity("shield", 1)
      /\ Follows("shield", asked, 0, 1, "u64", amount)
  BY <1>1 DEF Arity, Follows, IdlArgs
<1>4. /\ Spells(Cells, "u64", u64Le(amount), amount)
  BY CellsHold, UnsignedSpells, SignedSpells, CellsSpell, VectorSpells
<1>5. DecodesAs("shield", u64Le(amount), asked)
  BY <1>3, <1>4, OneArgument
<1>6. QED
  BY <1>1, <1>2, <1>5 DEF Says

(* The instruction of applyPending says what was asked.                    *)
LEMMA ApplyPendingSays ==
  ASSUME NEW owner, NEW mint, NEW ata
  PROVE  Says(buildApplyPendingInstruction(owner, mint, ata),
              <<>>)
<1>1. PICK ix, asked : ix = buildApplyPendingInstruction(owner, mint, ata) /\ asked = <<>>
  OBVIOUS
<1>2. ix.name = "applyPending" /\ ix.data = <<>>
  BY <1>1 DEF buildApplyPendingInstruction, Instruction
<1>3. /\ Arity("applyPending", 0)
  BY <1>1 DEF Arity, Follows, IdlArgs
<1>4. DecodesAs("applyPending", <<>>, asked)
  BY <1>3, NoArguments
<1>5. QED
  BY <1>1, <1>2, <1>4 DEF Says

(* The instruction of destroyBurner says what was asked.                   *)
LEMMA DestroyBurnerSays ==
  ASSUME NEW owner, NEW entry
  PROVE  Says(buildDestroyBurnerInstruction(owner, entry),
              <<>>)
<1>1. PICK ix, asked : ix = buildDestroyBurnerInstruction(owner, entry) /\ asked = <<>>
  OBVIOUS
<1>2. ix.name = "destroyBurner" /\ ix.data = <<>>
  BY <1>1 DEF buildDestroyBurnerInstruction, Instruction
<1>3. /\ Arity("destroyBurner", 0)
  BY <1>1 DEF Arity, Follows, IdlArgs
<1>4. DecodesAs("destroyBurner", <<>>, asked)
  BY <1>3, NoArguments
<1>5. QED
  BY <1>1, <1>2, <1>4 DEF Says

(* The instruction of withdraw says what was asked.                        *)
LEMMA WithdrawSays ==
  ASSUME NEW owner, NEW mint, NEW source, NEW to, NEW amount \in Int, U64Encodable(amount),
         NEW cosigned \in BOOLEAN, NEW auditor
  PROVE  Says(buildWithdrawInstruction(owner, mint, source, to, amount, cosigned, auditor),
              <<amount, cosigned>>)
<1>1. PICK ix, asked : ix = buildWithdrawInstruction(owner, mint, source, to, amount, cosigned,
             auditor) /\ asked = <<amount, cosigned>>
  OBVIOUS
<1>2. ix.name = "withdraw" /\ ix.data = u64Le(amount) \o encodeBool(cosigned)
  BY <1>1 DEF buildWithdrawInstruction, Instruction
<1>3. /\ Arity("withdraw", 2)
      /\ Follows("withdraw", asked, 0, 1, "u64", amount)
      /\ Follows("withdraw", asked, 1, 2, "bool", cosigned)
  BY <1>1 DEF Arity, Follows, IdlArgs
<1>4. /\ Spells(Cells, "u64", u64Le(amount), amount)
      /\ Spells(Cells, "bool", encodeBool(cosigned), cosigned)
  BY CellsHold, UnsignedSpells, SignedSpells, CellsSpell, VectorSpells
<1>5. DecodesAs("withdraw", u64Le(amount) \o encodeBool(cosigned), asked)
  BY <1>3, <1>4, TwoArguments
<1>6. QED
  BY <1>1, <1>2, <1>5 DEF Says

(* The instruction of createBurner says what was asked.                    *)
LEMMA CreateBurnerSays ==
  ASSUME NEW owner, NEW key \in Bytes, NEW nonce \in Int, U64Encodable(nonce),
         NEW ttl \in Int, I64Encodable(ttl)
  PROVE  Says(buildCreateBurnerInstruction(owner, key, nonce, ttl),
              <<nonce, key, ttl>>)
<1>1. PICK ix, asked : ix = buildCreateBurnerInstruction(owner, key, nonce, ttl)
             /\ asked = <<nonce, key, ttl>>
  OBVIOUS
<1>2. ix.name = "createBurner" /\ ix.data = u64Le(nonce) \o <<key>> \o i64Le(ttl)
  BY <1>1 DEF buildCreateBurnerInstruction, Instruction
<1>3. /\ Arity("createBurner", 3)
      /\ Follows("createBurner", asked, 0, 1, "u64", nonce)
      /\ Follows("createBurner", asked, 1, 2, "bytes", key)
      /\ Follows("createBurner", asked, 2, 3, "i64", ttl)
  BY <1>1 DEF Arity, Follows, IdlArgs
<1>4. /\ Spells(Cells, "u64", u64Le(nonce), nonce)
      /\ Spells(Cells, "bytes", <<key>>, key)
      /\ Spells(Cells, "i64", i64Le(ttl), ttl)
  BY CellsHold, UnsignedSpells, SignedSpells, CellsSpell, VectorSpells
<1>5. DecodesAs("createBurner", u64Le(nonce) \o <<key>> \o i64Le(ttl), asked)
  BY <1>3, <1>4, ThreeArguments
<1>6. QED
  BY <1>1, <1>2, <1>5 DEF Says

(* The instruction of mixInit says what was asked.                         *)
LEMMA MixInitSays ==
  ASSUME NEW host, NEW mint, NEW nonce \in Int, U64Encodable(nonce),
         NEW denomination \in Int, U64Encodable(denomination),
         NEW capacity \in Int, NEW window \in Int, I64Encodable(window)
  PROVE  Says(buildMixInitInstruction(host, mint, nonce, denomination, capacity, window),
              <<nonce, denomination, capacity, window>>)
<1>1. PICK ix, asked : ix = buildMixInitInstruction(host, mint, nonce, denomination, capacity,
             window) /\ asked = <<nonce, denomination, capacity, window>>
  OBVIOUS
<1>2. ix.name = "mixInit"
             /\ ix.data = u64Le(nonce) \o u64Le(denomination) \o u8Le(capacity) \o i64Le(window)
  BY <1>1 DEF buildMixInitInstruction, Instruction
<1>3. /\ Arity("mixInit", 4)
      /\ Follows("mixInit", asked, 0, 1, "u64", nonce)
      /\ Follows("mixInit", asked, 1, 2, "u64", denomination)
      /\ Follows("mixInit", asked, 2, 3, "u8", capacity)
      /\ Follows("mixInit", asked, 3, 4, "i64", window)
  BY <1>1 DEF Arity, Follows, IdlArgs
<1>4. /\ Spells(Cells, "u64", u64Le(nonce), nonce)
      /\ Spells(Cells, "u64", u64Le(denomination), denomination)
      /\ Spells(Cells, "u8", u8Le(capacity), capacity)
      /\ Spells(Cells, "i64", i64Le(window), window)
  BY CellsHold, UnsignedSpells, SignedSpells, CellsSpell, VectorSpells
<1>5. DecodesAs("mixInit",
             u64Le(nonce) \o u64Le(denomination) \o u8Le(capacity) \o i64Le(window), asked)
  BY <1>3, <1>4, FourArguments
<1>6. QED
  BY <1>1, <1>2, <1>5 DEF Says

(* The instruction of mixCommit says what was asked.                       *)
LEMMA MixCommitSays ==
  ASSUME NEW who, NEW round, NEW commitment \in Bytes \cup ShortBytes, NEW index \in Int
  PROVE  Says(buildMixCommitInstruction(who, round, commitment, index),
              <<commitment, index>>)
<1>1. PICK ix, asked : ix = buildMixCommitInstruction(who, round, commitment, index)
             /\ asked = <<commitment, index>>
  OBVIOUS
<1>2. ix.name = "mixCommit" /\ ix.data = <<commitment>> \o u8Le(index)
  BY <1>1 DEF buildMixCommitInstruction, Instruction
<1>3. /\ Arity("mixCommit", 2)
      /\ Follows("mixCommit", asked, 0, 1, "bytes", commitment)
      /\ Follows("mixCommit", asked, 1, 2, "u8", index)
  BY <1>1 DEF Arity, Follows, IdlArgs
<1>4. /\ Spells(Cells, "bytes", <<commitment>>, commitment)
      /\ Spells(Cells, "u8", u8Le(index), index)
  BY CellsHold, UnsignedSpells, SignedSpells, CellsSpell, VectorSpells
<1>5. DecodesAs("mixCommit", <<commitment>> \o u8Le(index), asked)
  BY <1>3, <1>4, TwoArguments
<1>6. QED
  BY <1>1, <1>2, <1>5 DEF Says

(* The instruction of mixReveal says what was asked.                       *)
LEMMA MixRevealSays ==
  ASSUME NEW who, NEW round, NEW signal \in Bytes \cup ShortBytes,
         NEW salt \in Bytes \cup ShortBytes
  PROVE  Says(buildMixRevealInstruction(who, round, signal, salt),
              <<signal, salt>>)
<1>1. PICK ix, asked : ix = buildMixRevealInstruction(who, round, signal, salt)
             /\ asked = <<signal, salt>>
  OBVIOUS
<1>2. ix.name = "mixReveal" /\ ix.data = <<signal>> \o <<salt>>
  BY <1>1 DEF buildMixRevealInstruction, Instruction
<1>3. /\ Arity("mixReveal", 2)
      /\ Follows("mixReveal", asked, 0, 1, "bytes", signal)
      /\ Follows("mixReveal", asked, 1, 2, "bytes", salt)
  BY <1>1 DEF Arity, Follows, IdlArgs
<1>4. /\ Spells(Cells, "bytes", <<signal>>, signal)
      /\ Spells(Cells, "bytes", <<salt>>, salt)
  BY CellsHold, UnsignedSpells, SignedSpells, CellsSpell, VectorSpells
<1>5. DecodesAs("mixReveal", <<signal>> \o <<salt>>, asked)
  BY <1>3, <1>4, TwoArguments
<1>6. QED
  BY <1>1, <1>2, <1>5 DEF Says

(* The instruction of mixSettle says what was asked.                       *)
LEMMA MixSettleSays ==
  ASSUME NEW host, NEW round, NEW indices \in Seq(Int), Len(indices) < Pow[4]
  PROVE  Says(buildMixSettleInstruction(host, round, indices),
              <<indices>>)
<1>1. PICK ix, asked : ix = buildMixSettleInstruction(host, round, indices) /\ asked = <<indices>>
  OBVIOUS
<1>2. ix.name = "mixSettle" /\ ix.data = encodeVec(indices)
  BY <1>1 DEF buildMixSettleInstruction, Instruction
<1>3. /\ Arity("mixSettle", 1)
      /\ Follows("mixSettle", asked, 0, 1, "vec", indices)
  BY <1>1 DEF Arity, Follows, IdlArgs
<1>4. /\ Spells(Cells, "vec", encodeVec(indices), indices)
  BY CellsHold, UnsignedSpells, SignedSpells, CellsSpell, VectorSpells
<1>5. DecodesAs("mixSettle", encodeVec(indices), asked)
  BY <1>3, <1>4, OneArgument
<1>6. QED
  BY <1>1, <1>2, <1>5 DEF Says

(* The instruction of auditorRegister says what was asked.                 *)
LEMMA AuditorRegisterSays ==
  ASSUME NEW admin, NEW mint, NEW key \in Bytes \cup ShortBytes, NEW cooldown \in Int,
         I64Encodable(cooldown)
  PROVE  Says(buildAuditorRegisterInstruction(admin, mint, key, cooldown),
              <<key, cooldown>>)
<1>1. PICK ix, asked : ix = buildAuditorRegisterInstruction(admin, mint, key, cooldown)
             /\ asked = <<key, cooldown>>
  OBVIOUS
<1>2. ix.name = "auditorRegister" /\ ix.data = <<key>> \o i64Le(cooldown)
  BY <1>1 DEF buildAuditorRegisterInstruction, Instruction
<1>3. /\ Arity("auditorRegister", 2)
      /\ Follows("auditorRegister", asked, 0, 1, "bytes", key)
      /\ Follows("auditorRegister", asked, 1, 2, "i64", cooldown)
  BY <1>1 DEF Arity, Follows, IdlArgs
<1>4. /\ Spells(Cells, "bytes", <<key>>, key)
      /\ Spells(Cells, "i64", i64Le(cooldown), cooldown)
  BY CellsHold, UnsignedSpells, SignedSpells, CellsSpell, VectorSpells
<1>5. DecodesAs("auditorRegister", <<key>> \o i64Le(cooldown), asked)
  BY <1>3, <1>4, TwoArguments
<1>6. QED
  BY <1>1, <1>2, <1>5 DEF Says

(* The instruction of auditorRotate says what was asked.                   *)
LEMMA AuditorRotateSays ==
  ASSUME NEW admin, NEW mint, NEW key \in Bytes \cup ShortBytes
  PROVE  Says(buildAuditorRotateInstruction(admin, mint, key),
              <<key>>)
<1>1. PICK ix, asked : ix = buildAuditorRotateInstruction(admin, mint, key) /\ asked = <<key>>
  OBVIOUS
<1>2. ix.name = "auditorRotate" /\ ix.data = <<key>>
  BY <1>1 DEF buildAuditorRotateInstruction, Instruction
<1>3. /\ Arity("auditorRotate", 1)
      /\ Follows("auditorRotate", asked, 0, 1, "bytes", key)
  BY <1>1 DEF Arity, Follows, IdlArgs
<1>4. /\ Spells(Cells, "bytes", <<key>>, key)
  BY CellsHold, UnsignedSpells, SignedSpells, CellsSpell, VectorSpells
<1>5. DecodesAs("auditorRotate", <<key>>, asked)
  BY <1>3, <1>4, OneArgument
<1>6. QED
  BY <1>1, <1>2, <1>5 DEF Says

(* The instruction of transfer says what was asked.                        *)
LEMMA TransferSays ==
  ASSUME NEW owner, NEW mint, NEW ctx, NEW auditor, NEW h1 \in Int, NEW h2 \in Int,
         NEW b \in Bytes
  PROVE  Says(buildConfidentialTransferInstruction(owner, mint, ctx, auditor, <<h1, h2>>,
                                                   <<b, b, b, b>>),
              <<h1, h2, b, b, b, b>>)
<1>1. PICK ix, asked :
        /\ ix = buildConfidentialTransferInstruction(owner, mint, ctx, auditor, <<h1, h2>>,
                                                     <<b, b, b, b>>)
        /\ asked = <<h1, h2, b, b, b, b>>
  OBVIOUS
<1>2. ix.name = "confidentialTransfer"
      /\ ix.data = encodeU32Le(h1) \o encodeU32Le(h2) \o <<b>> \o <<b>> \o <<b>> \o <<b>>
  BY <1>1 DEF buildConfidentialTransferInstruction, Instruction
<1>3. /\ Arity("confidentialTransfer", 6)
      /\ Follows("confidentialTransfer", asked, 0, 1, "u32", h1)
      /\ Follows("confidentialTransfer", asked, 1, 2, "u32", h2)
      /\ Follows("confidentialTransfer", asked, 2, 3, "bytes", b)
      /\ Follows("confidentialTransfer", asked, 3, 4, "bytes", b)
      /\ Follows("confidentialTransfer", asked, 4, 5, "bytes", b)
      /\ Follows("confidentialTransfer", asked, 5, 6, "bytes", b)
  BY <1>1 DEF Arity, Follows, IdlArgs
<1>4. /\ Spells(Cells, "u32", encodeU32Le(h1), h1) /\ Spells(Cells, "u32", encodeU32Le(h2), h2)
      /\ Spells(Cells, "bytes", <<b>>, b)
  BY CellsHold, UnsignedSpells, CellsSpell
<1>5. DecodesAs("confidentialTransfer",
                encodeU32Le(h1) \o encodeU32Le(h2) \o <<b>> \o <<b>> \o <<b>> \o <<b>>, asked)
  BY <1>3, <1>4, SixArguments
<1>6. QED
  BY <1>1, <1>2, <1>5 DEF Says

-----------------------------------------------------------------------------
(***************************************************************************)
(* configUpdate: one of the five options is set, to a value of its type.   *)
(***************************************************************************)
KnobTypes == {"u64", "i64", "bool", "u16", "u8"}

Fits(type, v) ==
  /\ IF type = "bool" THEN v \in BOOLEAN ELSE v \in Int
  /\ type = "u64" => U64Encodable(v)
  /\ type = "i64" => I64Encodable(v)

(* An option in the range of its type holds a value in that of the plain   *)
(* one.                                                                    *)
LEMMA OptionInRange ==
  ASSUME NEW v
  PROVE  /\ InRange("option u64", <<v>>) => InRange("u64", v)
         /\ InRange("i64", v) /\ InRange("bool", v)
         /\ InRange("option u16", <<v>>) => InRange("u16", v)
         /\ InRange("option u8", <<v>>) => InRange("u8", v)
<1>1. DOMAIN <<v>> = {1} /\ <<v>>[1] = v
  OBVIOUS
<1>2. v \in Range(<<v>>)
  BY <1>1 DEF Range
<1>3. InRange("option u64", <<v>>) => InRange("u64", v)
  BY <1>1 DEF InRange
<1>4. InRange("i64", v) /\ InRange("bool", v)
  BY DEF InRange
<1>5. InRange("option u16", <<v>>) => InRange("u16", v)
  BY <1>2 DEF InRange
<1>6. InRange("option u8", <<v>>) => InRange("u8", v)
  BY <1>2 DEF InRange
<1>7. QED
  BY <1>3, <1>4, <1>5, <1>6

(* The option of a configUpdate that a u64 goes to.                        *)
LEMMA OptionU64Spells ==
  ASSUME NEW type \in KnobTypes, NEW v, Fits(type, v)
  PROVE  LET w == Only(type, v).u64
         IN  Spells(Cells, "option u64", encodeOption([i \in DOMAIN w |-> u64Le(w[i])]), w)
<1>1. PICK w : w = Only(type, v).u64
  OBVIOUS
<1>2. w = IF type = "u64" THEN <<v>> ELSE <<>>
  BY <1>1 DEF Only
<1>3. CASE type = "u64"
  <2>1. w = <<v>>
    BY <1>2, <1>3
  <2>2. [i \in DOMAIN w |-> u64Le(w[i])] = <<u64Le(v)>>
    BY <2>1
  <2>3. "option u64" \in DOMAIN Optional /\ Optional["option u64"] = "u64"
    BY DEF Optional
  <2>4. Spells(Cells, "u64", u64Le(v), v)
    BY <1>3, CellsHold, UnsignedSpells, SignedSpells, CellsSpell DEF Fits
  <2>5. Len(u64Le(v)) = SizeOf["u64"]
    BY <1>3, UnsignedRead, SignedRead, SizesOfPlain DEF Fits, encodeBool
  <2>6. Spells(Cells, "option u64", encodeOption(<<u64Le(v)>>), <<v>>)
    BY <2>3, <2>4, <2>5, CellsHold, OptionInRange, OptionSpells
  <2>7. QED
    BY <1>1, <2>1, <2>2, <2>6
<1>4. CASE type # "u64"
  <2>1. w = <<>>
    BY <1>2, <1>4
  <2>2. [i \in DOMAIN w |-> u64Le(w[i])] = <<>>
    BY <2>1
  <2>3. "option u64" \in DOMAIN Optional
    BY DEF Optional
  <2>4. Spells(Cells, "option u64", encodeOption(<<>>), <<>>)
    BY <2>3, CellsHold, OptionSpells
  <2>5. QED
    BY <1>1, <2>1, <2>2, <2>4
<1>5. QED
  BY <1>3, <1>4

(* The option of a configUpdate that a i64 goes to.                        *)
LEMMA OptionI64Spells ==
  ASSUME NEW type \in KnobTypes, NEW v, Fits(type, v)
  PROVE  LET w == Only(type, v).i64
         IN  Spells(Cells, "option i64", encodeOption([i \in DOMAIN w |-> i64Le(w[i])]), w)
<1>1. PICK w : w = Only(type, v).i64
  OBVIOUS
<1>2. w = IF type = "i64" THEN <<v>> ELSE <<>>
  BY <1>1 DEF Only
<1>3. CASE type = "i64"
  <2>1. w = <<v>>
    BY <1>2, <1>3
  <2>2. [i \in DOMAIN w |-> i64Le(w[i])] = <<i64Le(v)>>
    BY <2>1
  <2>3. "option i64" \in DOMAIN Optional /\ Optional["option i64"] = "i64"
    BY DEF Optional
  <2>4. Spells(Cells, "i64", i64Le(v), v)
    BY <1>3, CellsHold, UnsignedSpells, SignedSpells, CellsSpell DEF Fits
  <2>5. Len(i64Le(v)) = SizeOf["i64"]
    BY <1>3, UnsignedRead, SignedRead, SizesOfPlain DEF Fits, encodeBool
  <2>6. Spells(Cells, "option i64", encodeOption(<<i64Le(v)>>), <<v>>)
    BY <2>3, <2>4, <2>5, CellsHold, OptionInRange, OptionSpells
  <2>7. QED
    BY <1>1, <2>1, <2>2, <2>6
<1>4. CASE type # "i64"
  <2>1. w = <<>>
    BY <1>2, <1>4
  <2>2. [i \in DOMAIN w |-> i64Le(w[i])] = <<>>
    BY <2>1
  <2>3. "option i64" \in DOMAIN Optional
    BY DEF Optional
  <2>4. Spells(Cells, "option i64", encodeOption(<<>>), <<>>)
    BY <2>3, CellsHold, OptionSpells
  <2>5. QED
    BY <1>1, <2>1, <2>2, <2>4
<1>5. QED
  BY <1>3, <1>4

(* The option of a configUpdate that a bool goes to.                       *)
LEMMA OptionBoolSpells ==
  ASSUME NEW type \in KnobTypes, NEW v, Fits(type, v)
  PROVE  LET w == Only(type, v).bool
         IN  Spells(Cells, "option bool", encodeOption([i \in DOMAIN w |-> encodeBool(w[i])]), w)
<1>1. PICK w : w = Only(type, v).bool
  OBVIOUS
<1>2. w = IF type = "bool" THEN <<v>> ELSE <<>>
  BY <1>1 DEF Only
<1>3. CASE type = "bool"
  <2>1. w = <<v>>
    BY <1>2, <1>3
  <2>2. [i \in DOMAIN w |-> encodeBool(w[i])] = <<encodeBool(v)>>
    BY <2>1
  <2>3. "option bool" \in DOMAIN Optional /\ Optional["option bool"] = "bool"
    BY DEF Optional
  <2>4. Spells(Cells, "bool", encodeBool(v), v)
    BY <1>3, CellsHold, UnsignedSpells, SignedSpells, CellsSpell DEF Fits
  <2>5. Len(encodeBool(v)) = SizeOf["bool"]
    BY <1>3, UnsignedRead, SignedRead, SizesOfPlain DEF Fits, encodeBool
  <2>6. Spells(Cells, "option bool", encodeOption(<<encodeBool(v)>>), <<v>>)
    BY <2>3, <2>4, <2>5, CellsHold, OptionInRange, OptionSpells
  <2>7. QED
    BY <1>1, <2>1, <2>2, <2>6
<1>4. CASE type # "bool"
  <2>1. w = <<>>
    BY <1>2, <1>4
  <2>2. [i \in DOMAIN w |-> encodeBool(w[i])] = <<>>
    BY <2>1
  <2>3. "option bool" \in DOMAIN Optional
    BY DEF Optional
  <2>4. Spells(Cells, "option bool", encodeOption(<<>>), <<>>)
    BY <2>3, CellsHold, OptionSpells
  <2>5. QED
    BY <1>1, <2>1, <2>2, <2>4
<1>5. QED
  BY <1>3, <1>4

(* The option of a configUpdate that a u16 goes to.                        *)
LEMMA OptionU16Spells ==
  ASSUME NEW type \in KnobTypes, NEW v, Fits(type, v)
  PROVE  LET w == Only(type, v).u16
         IN  Spells(Cells, "option u16", encodeOption([i \in DOMAIN w |-> u16Le(w[i])]), w)
<1>1. PICK w : w = Only(type, v).u16
  OBVIOUS
<1>2. w = IF type = "u16" THEN <<v>> ELSE <<>>
  BY <1>1 DEF Only
<1>3. CASE type = "u16"
  <2>1. w = <<v>>
    BY <1>2, <1>3
  <2>2. [i \in DOMAIN w |-> u16Le(w[i])] = <<u16Le(v)>>
    BY <2>1
  <2>3. "option u16" \in DOMAIN Optional /\ Optional["option u16"] = "u16"
    BY DEF Optional
  <2>4. Spells(Cells, "u16", u16Le(v), v)
    BY <1>3, CellsHold, UnsignedSpells, SignedSpells, CellsSpell DEF Fits
  <2>5. Len(u16Le(v)) = SizeOf["u16"]
    BY <1>3, UnsignedRead, SignedRead, SizesOfPlain DEF Fits, encodeBool
  <2>6. Spells(Cells, "option u16", encodeOption(<<u16Le(v)>>), <<v>>)
    BY <2>3, <2>4, <2>5, CellsHold, OptionInRange, OptionSpells
  <2>7. QED
    BY <1>1, <2>1, <2>2, <2>6
<1>4. CASE type # "u16"
  <2>1. w = <<>>
    BY <1>2, <1>4
  <2>2. [i \in DOMAIN w |-> u16Le(w[i])] = <<>>
    BY <2>1
  <2>3. "option u16" \in DOMAIN Optional
    BY DEF Optional
  <2>4. Spells(Cells, "option u16", encodeOption(<<>>), <<>>)
    BY <2>3, CellsHold, OptionSpells
  <2>5. QED
    BY <1>1, <2>1, <2>2, <2>4
<1>5. QED
  BY <1>3, <1>4

(* The option of a configUpdate that a u8 goes to.                         *)
LEMMA OptionU8Spells ==
  ASSUME NEW type \in KnobTypes, NEW v, Fits(type, v)
  PROVE  LET w == Only(type, v).u8
         IN  Spells(Cells, "option u8", encodeOption([i \in DOMAIN w |-> u8Le(w[i])]), w)
<1>1. PICK w : w = Only(type, v).u8
  OBVIOUS
<1>2. w = IF type = "u8" THEN <<v>> ELSE <<>>
  BY <1>1 DEF Only
<1>3. CASE type = "u8"
  <2>1. w = <<v>>
    BY <1>2, <1>3
  <2>2. [i \in DOMAIN w |-> u8Le(w[i])] = <<u8Le(v)>>
    BY <2>1
  <2>3. "option u8" \in DOMAIN Optional /\ Optional["option u8"] = "u8"
    BY DEF Optional
  <2>4. Spells(Cells, "u8", u8Le(v), v)
    BY <1>3, CellsHold, UnsignedSpells, SignedSpells, CellsSpell DEF Fits
  <2>5. Len(u8Le(v)) = SizeOf["u8"]
    BY <1>3, UnsignedRead, SignedRead, SizesOfPlain DEF Fits, encodeBool
  <2>6. Spells(Cells, "option u8", encodeOption(<<u8Le(v)>>), <<v>>)
    BY <2>3, <2>4, <2>5, CellsHold, OptionInRange, OptionSpells
  <2>7. QED
    BY <1>1, <2>1, <2>2, <2>6
<1>4. CASE type # "u8"
  <2>1. w = <<>>
    BY <1>2, <1>4
  <2>2. [i \in DOMAIN w |-> u8Le(w[i])] = <<>>
    BY <2>1
  <2>3. "option u8" \in DOMAIN Optional
    BY DEF Optional
  <2>4. Spells(Cells, "option u8", encodeOption(<<>>), <<>>)
    BY <2>3, CellsHold, OptionSpells
  <2>5. QED
    BY <1>1, <2>1, <2>2, <2>4
<1>5. QED
  BY <1>3, <1>4

(* The instruction of configUpdate says what was asked.                    *)
LEMMA ConfigUpdateSays ==
  ASSUME NEW admin, NEW field \in DOMAIN CONFIG_FIELD_CODES,
         NEW type \in KnobTypes, NEW v, Fits(type, v)
  PROVE  LET w == Only(type, v)
         IN  Says(buildConfigUpdateInstruction(admin, field, w),
                  <<CONFIG_FIELD_CODES[field], w.u64, w.i64, w.bool, w.u16, w.u8>>)
<1>1. PICK w, code, ix, asked :
        /\ w = Only(type, v) /\ code = CONFIG_FIELD_CODES[field]
        /\ ix = buildConfigUpdateInstruction(admin, field, w)
        /\ asked = <<code, w.u64, w.i64, w.bool, w.u16, w.u8>>
  OBVIOUS
<1>2. PICK e1, e2, e3, e4, e5, e6 :
        /\ e1 = u8Le(code)
        /\ e2 = encodeOption([i \in DOMAIN w.u64 |-> u64Le(w.u64[i])])
        /\ e3 = encodeOption([i \in DOMAIN w.i64 |-> i64Le(w.i64[i])])
        /\ e4 = encodeOption([i \in DOMAIN w.bool |-> encodeBool(w.bool[i])])
        /\ e5 = encodeOption([i \in DOMAIN w.u16 |-> u16Le(w.u16[i])])
        /\ e6 = encodeOption([i \in DOMAIN w.u8 |-> u8Le(w.u8[i])])
  OBVIOUS
<1>3. ix.name = "configUpdate" /\ ix.data = e1 \o e2 \o e3 \o e4 \o e5 \o e6
  BY <1>1, <1>2 DEF buildConfigUpdateInstruction, Instruction
<1>4. PICK v2, v3, v4, v5, v6 :
        v2 = w.u64 /\ v3 = w.i64 /\ v4 = w.bool /\ v5 = w.u16 /\ v6 = w.u8
  OBVIOUS
<1>5. asked = <<code, v2, v3, v4, v5, v6>>
  BY <1>1, <1>4
<1>6. /\ Arity("configUpdate", 6)
      /\ Follows("configUpdate", asked, 0, 1, "u8", code)
      /\ Follows("configUpdate", asked, 1, 2, "option u64", v2)
      /\ Follows("configUpdate", asked, 2, 3, "option i64", v3)
      /\ Follows("configUpdate", asked, 3, 4, "option bool", v4)
      /\ Follows("configUpdate", asked, 4, 5, "option u16", v5)
      /\ Follows("configUpdate", asked, 5, 6, "option u8", v6)
  BY <1>5 DEF Arity, Follows, IdlArgs
<1>7. code \in Int
  BY <1>1 DEF CONFIG_FIELD_CODES
<1>8. Spells(Cells, "u8", e1, code)
  BY <1>2, <1>7, CellsHold, UnsignedSpells
<1>9. Spells(Cells, "option u64", e2, v2) /\ Spells(Cells, "option i64", e3, v3)
      /\ Spells(Cells, "option bool", e4, v4)
  BY <1>1, <1>2, <1>4, OptionU64Spells, OptionI64Spells, OptionBoolSpells
<1>10. Spells(Cells, "option u16", e5, v5) /\ Spells(Cells, "option u8", e6, v6)
  BY <1>1, <1>2, <1>4, OptionU16Spells, OptionU8Spells
<1>11. DecodesAs("configUpdate", ix.data, asked)
  <2>1. SpellsTo(Cells, "configUpdate", asked, 1, e1)
    BY <1>6, <1>8, SpellsFirst
  <2>2. SpellsTo(Cells, "configUpdate", asked, 2, e1 \o e2)
    BY <1>6, <1>9, <2>1, SpellsNext
  <2>3. SpellsTo(Cells, "configUpdate", asked, 3, e1 \o e2 \o e3)
    BY <1>6, <1>9, <2>2, SpellsNext
  <2>4. SpellsTo(Cells, "configUpdate", asked, 4, e1 \o e2 \o e3 \o e4)
    BY <1>6, <1>9, <2>3, SpellsNext
  <2>5. PICK data : data = e1 \o e2 \o e3 \o e4
    OBVIOUS
  <2>6. SpellsTo(Cells, "configUpdate", asked, 4, data)
    BY <2>4, <2>5
  <2>7. SpellsTo(Cells, "configUpdate", asked, 5, data \o e5)
    BY <1>6, <1>10, <2>6, SpellsNext, Zenon
  <2>8. SpellsTo(Cells, "configUpdate", asked, 6, data \o e5 \o e6)
    BY <1>6, <1>10, <2>7, SpellsNext, Zenon
  <2>9. QED
    BY <1>3, <1>6, <2>5, <2>8, SpellsAll
<1>12. QED
  BY <1>1, <1>3, <1>11 DEF Says

-----------------------------------------------------------------------------
(***************************************************************************)
(* Who signs an instruction: its first account, and no other.              *)
(***************************************************************************)
FirstSigns(keys, who) ==
  /\ 1 \in DOMAIN keys
  /\ \A i \in DOMAIN keys :
       IF i = 1 THEN keys[i] = Signs(who) ELSE keys[i].isSigner = FALSE

Silent(a) == a.isSigner = FALSE

(* An account that only is read or written does not sign.                  *)
LEMMA AccountsAreSilent ==
  /\ \A key : Silent(Writes(key)) /\ Silent(Reads(key))
  /\ Silent(System) /\ Silent(Token2022) /\ Silent(ZkProof)
BY DEF Silent, Writes, Reads, System, Token2022, ZkProof

(* The lists of accounts, by their length.                                 *)
LEMMA ListsOfAccounts ==
  /\ \A who, a2 :
       Silent(a2)
         => FirstSigns(<<Signs(who), a2>>, who)
  /\ \A who, a2, a3 :
       Silent(a2) /\ Silent(a3)
         => FirstSigns(<<Signs(who), a2, a3>>, who)
  /\ \A who, a2, a3, a4 :
       Silent(a2) /\ Silent(a3) /\ Silent(a4)
         => FirstSigns(<<Signs(who), a2, a3, a4>>, who)
  /\ \A who, a2, a3, a4, a5 :
       Silent(a2) /\ Silent(a3) /\ Silent(a4) /\ Silent(a5)
         => FirstSigns(<<Signs(who), a2, a3, a4, a5>>, who)
  /\ \A who, a2, a3, a4, a5, a6, a7, a8 :
       Silent(a2) /\ Silent(a3) /\ Silent(a4) /\ Silent(a5) /\ Silent(a6) /\ Silent(a7)
       /\ Silent(a8)
         => FirstSigns(<<Signs(who), a2, a3, a4, a5, a6, a7, a8>>, who)
  /\ \A who, a2, a3, a4, a5, a6, a7, a8, a9, a10, a11 :
       Silent(a2) /\ Silent(a3) /\ Silent(a4) /\ Silent(a5) /\ Silent(a6) /\ Silent(a7)
       /\ Silent(a8) /\ Silent(a9) /\ Silent(a10) /\ Silent(a11)
         => FirstSigns(<<Signs(who), a2, a3, a4, a5, a6, a7, a8, a9, a10, a11>>, who)
<1>1. ASSUME NEW who, NEW a2,
             Silent(a2)
      PROVE  FirstSigns(<<Signs(who), a2>>, who)
  <2>1. PICK keys : keys = <<Signs(who), a2>>
    OBVIOUS
  <2>2. DOMAIN keys = 1 .. 2 /\ keys[1] = Signs(who)
    BY <2>1
  <2>3. keys[2].isSigner = FALSE
    BY <1>1, <2>1 DEF Silent
  <2>4. \A i \in 1 .. 2 : i = 1 \/ i = 2
    OBVIOUS
  <2>5. QED
    BY <2>1, <2>2, <2>3, <2>4 DEF FirstSigns
<1>2. ASSUME NEW who, NEW a2, NEW a3,
             Silent(a2), Silent(a3)
      PROVE  FirstSigns(<<Signs(who), a2, a3>>, who)
  <2>1. PICK keys : keys = <<Signs(who), a2, a3>>
    OBVIOUS
  <2>2. DOMAIN keys = 1 .. 3 /\ keys[1] = Signs(who)
    BY <2>1
  <2>3. keys[2].isSigner = FALSE /\ keys[3].isSigner = FALSE
    BY <1>2, <2>1 DEF Silent
  <2>4. \A i \in 1 .. 3 : i = 1 \/ i = 2 \/ i = 3
    OBVIOUS
  <2>5. QED
    BY <2>1, <2>2, <2>3, <2>4 DEF FirstSigns
<1>3. ASSUME NEW who, NEW a2, NEW a3, NEW a4,
             Silent(a2), Silent(a3), Silent(a4)
      PROVE  FirstSigns(<<Signs(who), a2, a3, a4>>, who)
  <2>1. PICK keys : keys = <<Signs(who), a2, a3, a4>>
    OBVIOUS
  <2>2. DOMAIN keys = 1 .. 4 /\ keys[1] = Signs(who)
    BY <2>1
  <2>3. keys[2].isSigner = FALSE /\ keys[3].isSigner = FALSE /\ keys[4].isSigner = FALSE
    BY <1>3, <2>1 DEF Silent
  <2>4. \A i \in 1 .. 4 : i = 1 \/ i = 2 \/ i = 3 \/ i = 4
    OBVIOUS
  <2>5. QED
    BY <2>1, <2>2, <2>3, <2>4 DEF FirstSigns
<1>4. ASSUME NEW who, NEW a2, NEW a3, NEW a4, NEW a5,
             Silent(a2), Silent(a3), Silent(a4), Silent(a5)
      PROVE  FirstSigns(<<Signs(who), a2, a3, a4, a5>>, who)
  <2>1. PICK keys : keys = <<Signs(who), a2, a3, a4, a5>>
    OBVIOUS
  <2>2. DOMAIN keys = 1 .. 5 /\ keys[1] = Signs(who)
    BY <2>1
  <2>3. keys[2].isSigner = FALSE /\ keys[3].isSigner = FALSE /\ keys[4].isSigner = FALSE
               /\ keys[5].isSigner = FALSE
    BY <1>4, <2>1 DEF Silent
  <2>4. \A i \in 1 .. 5 : i = 1 \/ i = 2 \/ i = 3 \/ i = 4 \/ i = 5
    OBVIOUS
  <2>5. QED
    BY <2>1, <2>2, <2>3, <2>4 DEF FirstSigns
<1>5. ASSUME NEW who, NEW a2, NEW a3, NEW a4, NEW a5, NEW a6, NEW a7, NEW a8,
             Silent(a2), Silent(a3), Silent(a4), Silent(a5), Silent(a6), Silent(a7), Silent(a8)
      PROVE  FirstSigns(<<Signs(who), a2, a3, a4, a5, a6, a7, a8>>, who)
  <2>1. PICK keys : keys = <<Signs(who), a2, a3, a4, a5, a6, a7, a8>>
    OBVIOUS
  <2>2. DOMAIN keys = 1 .. 8 /\ keys[1] = Signs(who)
    BY <2>1
  <2>3. keys[2].isSigner = FALSE /\ keys[3].isSigner = FALSE /\ keys[4].isSigner = FALSE
               /\ keys[5].isSigner = FALSE /\ keys[6].isSigner = FALSE
                      /\ keys[7].isSigner = FALSE /\ keys[8].isSigner = FALSE
    BY <1>5, <2>1 DEF Silent
  <2>4. \A i \in 1 .. 8 : i = 1 \/ i = 2 \/ i = 3 \/ i = 4 \/ i = 5 \/ i = 6 \/ i = 7 \/ i = 8
    OBVIOUS
  <2>5. QED
    BY <2>1, <2>2, <2>3, <2>4 DEF FirstSigns
<1>6. ASSUME NEW who, NEW a2, NEW a3, NEW a4, NEW a5, NEW a6, NEW a7, NEW a8, NEW a9, NEW a10,
             NEW a11,
             Silent(a2), Silent(a3), Silent(a4), Silent(a5), Silent(a6), Silent(a7), Silent(a8),
             Silent(a9), Silent(a10), Silent(a11)
      PROVE  FirstSigns(<<Signs(who), a2, a3, a4, a5, a6, a7, a8, a9, a10, a11>>, who)
  <2>1. PICK keys : keys = <<Signs(who), a2, a3, a4, a5, a6, a7, a8, a9, a10, a11>>
    OBVIOUS
  <2>2. DOMAIN keys = 1 .. 11 /\ keys[1] = Signs(who)
    BY <2>1
  <2>3. keys[2].isSigner = FALSE /\ keys[3].isSigner = FALSE /\ keys[4].isSigner = FALSE
               /\ keys[5].isSigner = FALSE /\ keys[6].isSigner = FALSE
                      /\ keys[7].isSigner = FALSE /\ keys[8].isSigner = FALSE
                             /\ keys[9].isSigner = FALSE /\ keys[10].isSigner = FALSE
                                    /\ keys[11].isSigner = FALSE
    BY <1>6, <2>1 DEF Silent
  <2>4. \A i \in 1 .. 11 : i = 1 \/ i = 2 \/ i = 3 \/ i = 4 \/ i = 5 \/ i = 6 \/ i = 7
               \/ i = 8 \/ i = 9 \/ i = 10 \/ i = 11
    OBVIOUS
  <2>5. QED
    BY <2>1, <2>2, <2>3, <2>4 DEF FirstSigns
<1>7. QED
  BY <1>1, <1>2, <1>3, <1>4, <1>5, <1>6

SignedBy(ix, who) == FirstSigns(ix.keys, who)

(* Every builder has its caller sign, first and alone.                     *)
LEMMA WhoSigns ==
  /\ \A admin, knobs : SignedBy(buildInitializeInstruction(admin, knobs), admin)
  /\ \A owner, mint, sourceAta, destination, amount : SignedBy(buildShieldInstruction(owner,
         mint, sourceAta, destination, amount), owner)
  /\ \A owner, mint, ctx, auditor, handles, c :
         SignedBy(buildConfidentialTransferInstruction(owner, mint, ctx, auditor, handles, c),
         owner)
  /\ \A owner, mint, ata : SignedBy(buildApplyPendingInstruction(owner, mint, ata), owner)
  /\ \A owner, mint, source, destination, amount, requireAuditor, auditor :
         SignedBy(buildWithdrawInstruction(owner, mint, source, destination, amount,
         requireAuditor, auditor), owner)
  /\ \A owner, burnerPubkey, nonce, ttlSeconds : SignedBy(buildCreateBurnerInstruction(owner,
         burnerPubkey, nonce, ttlSeconds), owner)
  /\ \A owner, entry : SignedBy(buildDestroyBurnerInstruction(owner, entry), owner)
  /\ \A host, mint, nonce, denomination, capacity, window :
         SignedBy(buildMixInitInstruction(host, mint, nonce, denomination, capacity, window),
         host)
  /\ \A participant, round, commitment, index : SignedBy(buildMixCommitInstruction(participant,
         round, commitment, index), participant)
  /\ \A participant, round, signal, salt : SignedBy(buildMixRevealInstruction(participant, round,
         signal, salt), participant)
  /\ \A host, round, indices : SignedBy(buildMixSettleInstruction(host, round, indices), host)
  /\ \A admin, mint, pubkey, cooldown : SignedBy(buildAuditorRegisterInstruction(admin, mint,
         pubkey, cooldown), admin)
  /\ \A admin, mint, pubkey : SignedBy(buildAuditorRotateInstruction(admin, mint, pubkey), admin)
  /\ \A admin, field, values : SignedBy(buildConfigUpdateInstruction(admin, field, values), admin)
<1>1. ASSUME NEW admin, NEW knobs
      PROVE  SignedBy(buildInitializeInstruction(admin, knobs), admin)
  BY AccountsAreSilent, ListsOfAccounts DEF buildInitializeInstruction, Instruction, SignedBy
<1>2. ASSUME NEW owner, NEW mint, NEW sourceAta, NEW destination, NEW amount
      PROVE  SignedBy(buildShieldInstruction(owner, mint, sourceAta, destination, amount), owner)
  BY AccountsAreSilent, ListsOfAccounts DEF buildShieldInstruction, Instruction, SignedBy
<1>3. ASSUME NEW owner, NEW mint, NEW ctx, NEW auditor, NEW handles, NEW c
      PROVE  SignedBy(buildConfidentialTransferInstruction(owner, mint, ctx, auditor, handles,
               c), owner)
  BY AccountsAreSilent, ListsOfAccounts DEF buildConfidentialTransferInstruction, Instruction,
     SignedBy
<1>4. ASSUME NEW owner, NEW mint, NEW ata
      PROVE  SignedBy(buildApplyPendingInstruction(owner, mint, ata), owner)
  BY AccountsAreSilent, ListsOfAccounts DEF buildApplyPendingInstruction, Instruction, SignedBy
<1>5. ASSUME NEW owner, NEW mint, NEW source, NEW destination, NEW amount, NEW requireAuditor,
             NEW auditor
      PROVE  SignedBy(buildWithdrawInstruction(owner, mint, source, destination, amount,
               requireAuditor, auditor), owner)
  BY AccountsAreSilent, ListsOfAccounts DEF buildWithdrawInstruction, Instruction, SignedBy
<1>6. ASSUME NEW owner, NEW burnerPubkey, NEW nonce, NEW ttlSeconds
      PROVE  SignedBy(buildCreateBurnerInstruction(owner, burnerPubkey, nonce, ttlSeconds), owner)
  BY AccountsAreSilent, ListsOfAccounts DEF buildCreateBurnerInstruction, Instruction, SignedBy
<1>7. ASSUME NEW owner, NEW entry
      PROVE  SignedBy(buildDestroyBurnerInstruction(owner, entry), owner)
  BY AccountsAreSilent, ListsOfAccounts DEF buildDestroyBurnerInstruction, Instruction, SignedBy
<1>8. ASSUME NEW host, NEW mint, NEW nonce, NEW denomination, NEW capacity, NEW window
      PROVE  SignedBy(buildMixInitInstruction(host, mint, nonce, denomination, capacity, window),
               host)
  BY AccountsAreSilent, ListsOfAccounts DEF buildMixInitInstruction, Instruction, SignedBy
<1>9. ASSUME NEW participant, NEW round, NEW commitment, NEW index
      PROVE  SignedBy(buildMixCommitInstruction(participant, round, commitment, index),
               participant)
  BY AccountsAreSilent, ListsOfAccounts DEF buildMixCommitInstruction, Instruction, SignedBy
<1>10. ASSUME NEW participant, NEW round, NEW signal, NEW salt
      PROVE  SignedBy(buildMixRevealInstruction(participant, round, signal, salt), participant)
  BY AccountsAreSilent, ListsOfAccounts DEF buildMixRevealInstruction, Instruction, SignedBy
<1>11. ASSUME NEW host, NEW round, NEW indices
      PROVE  SignedBy(buildMixSettleInstruction(host, round, indices), host)
  BY AccountsAreSilent, ListsOfAccounts DEF buildMixSettleInstruction, Instruction, SignedBy
<1>12. ASSUME NEW admin, NEW mint, NEW pubkey, NEW cooldown
      PROVE  SignedBy(buildAuditorRegisterInstruction(admin, mint, pubkey, cooldown), admin)
  BY AccountsAreSilent, ListsOfAccounts DEF buildAuditorRegisterInstruction, Instruction, SignedBy
<1>13. ASSUME NEW admin, NEW mint, NEW pubkey
      PROVE  SignedBy(buildAuditorRotateInstruction(admin, mint, pubkey), admin)
  BY AccountsAreSilent, ListsOfAccounts DEF buildAuditorRotateInstruction, Instruction, SignedBy
<1>14. ASSUME NEW admin, NEW field, NEW values
      PROVE  SignedBy(buildConfigUpdateInstruction(admin, field, values), admin)
  BY AccountsAreSilent, ListsOfAccounts DEF buildConfigUpdateInstruction, Instruction, SignedBy
<1>15. QED
  BY <1>1, <1>2, <1>3, <1>4, <1>5, <1>6, <1>7, <1>8, <1>9, <1>10, <1>11, <1>12, <1>13, <1>14

(* The accounts that the methods answer with are among the instruction's.   *)
Mentions(ix, address) == \E i \in DOMAIN ix.keys : ix.keys[i].pubkey = address

(* An instruction names the address its method answers with.               *)
LEMMA WhatIsMentioned ==
  /\ \A admin, knobs : Mentions(buildInitializeInstruction(admin, knobs), deriveConfigPda)
  /\ \A owner, mint, ctx, auditor, handles, c :
         Mentions(buildConfidentialTransferInstruction(owner, mint, ctx, auditor, handles, c),
         ctx.range)
  /\ \A owner, burnerPubkey, nonce, ttlSeconds : Mentions(buildCreateBurnerInstruction(owner,
         burnerPubkey, nonce, ttlSeconds), deriveBurnerPda(owner, nonce))
  /\ \A host, mint, nonce, denomination, capacity, window :
         Mentions(buildMixInitInstruction(host, mint, nonce, denomination, capacity, window),
         deriveMixRoundPda(host, mint, nonce))
  /\ \A participant, round, commitment, index : Mentions(buildMixCommitInstruction(participant,
         round, commitment, index), deriveMixCommitmentPda(round, participant))
  /\ \A admin, mint, pubkey, cooldown : Mentions(buildAuditorRegisterInstruction(admin, mint,
         pubkey, cooldown), deriveAuditorPda(mint))
<1>1. ASSUME NEW admin, NEW knobs
      PROVE  Mentions(buildInitializeInstruction(admin, knobs), deriveConfigPda)
  <2>1. PICK ix, address : ix = buildInitializeInstruction(admin, knobs)
               /\ address = deriveConfigPda
    OBVIOUS
  <2>2. 2 \in DOMAIN ix.keys /\ ix.keys[2].pubkey = address
    BY <2>1 DEF buildInitializeInstruction, Instruction, Signs, Writes, Reads, System, Token2022,
       ZkProof
  <2>3. QED
    BY <2>1, <2>2 DEF Mentions
<1>2. ASSUME NEW owner, NEW mint, NEW ctx, NEW auditor, NEW handles, NEW c
      PROVE  Mentions(buildConfidentialTransferInstruction(owner, mint, ctx, auditor, handles,
               c), ctx.range)
  <2>1. PICK ix, address : ix = buildConfidentialTransferInstruction(owner, mint, ctx, auditor,
               handles, c) /\ address = ctx.range
    OBVIOUS
  <2>2. 6 \in DOMAIN ix.keys /\ ix.keys[6].pubkey = address
    BY <2>1 DEF buildConfidentialTransferInstruction, Instruction, Signs, Writes, Reads, System,
       Token2022, ZkProof
  <2>3. QED
    BY <2>1, <2>2 DEF Mentions
<1>3. ASSUME NEW owner, NEW burnerPubkey, NEW nonce, NEW ttlSeconds
      PROVE  Mentions(buildCreateBurnerInstruction(owner, burnerPubkey, nonce, ttlSeconds),
               deriveBurnerPda(owner, nonce))
  <2>1. PICK ix, address : ix = buildCreateBurnerInstruction(owner, burnerPubkey, nonce,
               ttlSeconds) /\ address = deriveBurnerPda(owner, nonce)
    OBVIOUS
  <2>2. 2 \in DOMAIN ix.keys /\ ix.keys[2].pubkey = address
    BY <2>1 DEF buildCreateBurnerInstruction, Instruction, Signs, Writes, Reads, System,
       Token2022, ZkProof
  <2>3. QED
    BY <2>1, <2>2 DEF Mentions
<1>4. ASSUME NEW host, NEW mint, NEW nonce, NEW denomination, NEW capacity, NEW window
      PROVE  Mentions(buildMixInitInstruction(host, mint, nonce, denomination, capacity, window),
               deriveMixRoundPda(host, mint, nonce))
  <2>1. PICK ix, address : ix = buildMixInitInstruction(host, mint, nonce, denomination,
               capacity, window) /\ address = deriveMixRoundPda(host, mint, nonce)
    OBVIOUS
  <2>2. 3 \in DOMAIN ix.keys /\ ix.keys[3].pubkey = address
    BY <2>1 DEF buildMixInitInstruction, Instruction, Signs, Writes, Reads, System, Token2022,
       ZkProof
  <2>3. QED
    BY <2>1, <2>2 DEF Mentions
<1>5. ASSUME NEW participant, NEW round, NEW commitment, NEW index
      PROVE  Mentions(buildMixCommitInstruction(participant, round, commitment, index),
               deriveMixCommitmentPda(round, participant))
  <2>1. PICK ix, address : ix = buildMixCommitInstruction(participant, round, commitment,
               index) /\ address = deriveMixCommitmentPda(round, participant)
    OBVIOUS
  <2>2. 3 \in DOMAIN ix.keys /\ ix.keys[3].pubkey = address
    BY <2>1 DEF buildMixCommitInstruction, Instruction, Signs, Writes, Reads, System, Token2022,
       ZkProof
  <2>3. QED
    BY <2>1, <2>2 DEF Mentions
<1>6. ASSUME NEW admin, NEW mint, NEW pubkey, NEW cooldown
      PROVE  Mentions(buildAuditorRegisterInstruction(admin, mint, pubkey, cooldown),
               deriveAuditorPda(mint))
  <2>1. PICK ix, address : ix = buildAuditorRegisterInstruction(admin, mint, pubkey, cooldown)
               /\ address = deriveAuditorPda(mint)
    OBVIOUS
  <2>2. 3 \in DOMAIN ix.keys /\ ix.keys[3].pubkey = address
    BY <2>1 DEF buildAuditorRegisterInstruction, Instruction, Signs, Writes, Reads, System,
       Token2022, ZkProof
  <2>3. QED
    BY <2>1, <2>2 DEF Mentions
<1>7. QED
  BY <1>1, <1>2, <1>3, <1>4, <1>5, <1>6

-----------------------------------------------------------------------------
(***************************************************************************)
(* An address is its seeds joined.                                         *)
(***************************************************************************)
Flattens(f, n, seqs) ==
  f = [i \in 1 .. n |-> IF i = 1 THEN seqs[i] ELSE f[i - 1] \o seqs[i]]

(* FlattenSeq takes the last of such a function.                           *)
LEMMA FlatteningIsChosen ==
  ASSUME NEW seqs
  PROVE  FlattenSeq(seqs) = IF Len(seqs) = 0 THEN seqs
                            ELSE (CHOOSE f : Flattens(f, Len(seqs), seqs))[Len(seqs)]
BY Zenon DEF FlattenSeq, Flattens

(* The joining of a first few of some sequences.                           *)
LEMMA FlatteningsExist ==
  ASSUME NEW seqs
  PROVE  \A n \in Nat : n # 0 => \E f : Flattens(f, n, seqs)
<1> DEFINE P == {n \in Nat : n # 0 => \E f : Flattens(f, n, seqs)}
<1>1. 0 \in P
  OBVIOUS
<1>2. ASSUME NEW n \in Nat, n \in P
      PROVE  n + 1 \in P
  <2>1. CASE n = 0
    <3> DEFINE f == [k \in 1 .. 1 |-> seqs[1]]
    <3>1. f = [i \in 1 .. 1 |-> IF i = 1 THEN seqs[i] ELSE f[i - 1] \o seqs[i]]
      OBVIOUS
    <3> HIDE DEF f
    <3>2. Flattens(f, 1, seqs)
      BY <3>1 DEF Flattens
    <3>3. n + 1 = 1
      BY <2>1
    <3>4. QED
      BY <3>2, <3>3
  <2>2. CASE n # 0
    <3>1. PICK f : Flattens(f, n, seqs)
      BY <1>2, <2>2
    <3>2. PICK next : next = f[n] \o seqs[n + 1]
      OBVIOUS
    <3> DEFINE g == [k \in 1 .. n + 1 |-> IF k = n + 1 THEN next ELSE f[k]]
    <3>3. \A k \in 1 .. n : f[k] = IF k = 1 THEN seqs[k] ELSE f[k - 1] \o seqs[k]
      BY <3>1 DEF Flattens
    <3>4. g[n + 1] = next /\ \A k \in 1 .. n : g[k] = f[k]
      OBVIOUS
    <3>5. g = [k \in 1 .. n + 1 |-> g[k]]
      OBVIOUS
    <3> HIDE DEF g
    <3>6. ASSUME NEW k \in 1 .. n + 1
          PROVE  g[k] = IF k = 1 THEN seqs[k] ELSE g[k - 1] \o seqs[k]
      <4>1. CASE k = n + 1
        <5>1. k # 1 /\ k - 1 = n /\ n \in 1 .. n
          BY <2>2, <4>1
        <5>2. g[k - 1] = f[n] /\ g[k] = next
          BY <3>4, <4>1, <5>1
        <5>3. QED
          BY <3>2, <4>1, <5>1, <5>2
      <4>2. CASE k # n + 1
        <5>1. k \in 1 .. n /\ (k # 1 => k - 1 \in 1 .. n)
          BY <4>2
        <5>2. g[k] = f[k] /\ (k # 1 => g[k - 1] = f[k - 1])
          BY <3>4, <5>1
        <5>3. QED
          BY <3>3, <5>1, <5>2
      <4>3. QED
        BY <4>1, <4>2
    <3>7. Flattens(g, n + 1, seqs)
      BY <3>5, <3>6 DEF Flattens
    <3>8. QED
      BY <3>7
  <2>3. QED
    BY <2>1, <2>2
<1> HIDE DEF P
<1>3. Nat \subseteq P
  BY <1>1, <1>2, NatInductionOnSets
<1>4. QED
  BY <1>3 DEF P

Joins(f, n, seqs) ==
  /\ FlattenSeq(seqs) = f[n]
  /\ f[1] = seqs[1]
  /\ \A j \in 1 .. n, k \in 1 .. n : k = j + 1 => f[k] = f[j] \o seqs[k]

(* It joins the sequences one by one.                                      *)
LEMMA FlatteningFacts ==
  ASSUME NEW seqs, Len(seqs) \in Nat \ {0}
  PROVE  \E f : Joins(f, Len(seqs), seqs)
<1>1. PICK n \in Nat \ {0} : n = Len(seqs)
  OBVIOUS
<1>2. PICK f : f = CHOOSE g : Flattens(g, n, seqs)
  OBVIOUS
<1>3. \E g : Flattens(g, n, seqs)
  BY FlatteningsExist
<1>4. Flattens(f, n, seqs)
  BY <1>2, <1>3, Zenon
<1>5. f = [i \in 1 .. n |-> IF i = 1 THEN seqs[i] ELSE f[i - 1] \o seqs[i]]
  BY <1>4 DEF Flattens
<1>6. PICK g : g = f
  OBVIOUS
<1>7. f = [i \in 1 .. n |-> IF i = 1 THEN seqs[i] ELSE g[i - 1] \o seqs[i]]
  BY <1>5, <1>6
<1>8. 1 \in 1 .. n /\ \A j \in 1 .. n, k \in 1 .. n : k = j + 1 => k # 1 /\ k - 1 = j
  OBVIOUS
<1>9. f[1] = seqs[1] /\ \A j \in 1 .. n, k \in 1 .. n : k = j + 1 => f[k] = g[j] \o seqs[k]
  BY <1>7, <1>8
<1>10. FlattenSeq(seqs) = f[n]
  BY <1>1, <1>2, FlatteningIsChosen
<1>11. QED
  BY <1>1, <1>6, <1>9, <1>10 DEF Joins

ThreeSeeds(a, b, c) == findPda(<<a, b, c>>) = a \o b \o c

FourSeeds(a, b, c, d) == findPda(<<a, b, c, d>>) = a \o b \o c \o d

(* Up to four seeds, joined.                                               *)
LEMMA SeedsJoined ==
  /\ \A a : findPda(<<a>>) = a
  /\ \A a, b : findPda(<<a, b>>) = a \o b
  /\ \A a, b, c : ThreeSeeds(a, b, c)
  /\ \A a, b, c, d : FourSeeds(a, b, c, d)
<1>1. ASSUME NEW a
      PROVE  findPda(<<a>>) = a
  <2>0. PICK n \in Nat \ {0} : n = 1
    OBVIOUS
  <2>1. PICK seqs : seqs = <<a>>
    OBVIOUS
  <2>2. Len(seqs) = n /\ seqs[1] = a
    BY <2>0, <2>1
  <2>3. PICK f : Joins(f, n, seqs)
    <3>1. \E f : Joins(f, Len(seqs), seqs)
      BY <2>2, FlatteningFacts
    <3>2. QED
      BY <2>2, <3>1
  <2>4. FlattenSeq(seqs) = f[n] /\ f[1] = seqs[1]
    BY <2>3 DEF Joins
  <2>5. QED
    BY <2>0, <2>1, <2>2, <2>4 DEF findPda
<1>2. ASSUME NEW a, NEW b
      PROVE  findPda(<<a, b>>) = a \o b
  <2>0. PICK n \in Nat \ {0} : n = 2
    OBVIOUS
  <2>1. PICK seqs : seqs = <<a, b>>
    OBVIOUS
  <2>2. Len(seqs) = n /\ seqs[1] = a /\ seqs[2] = b
    BY <2>0, <2>1
  <2>3. PICK f : Joins(f, n, seqs)
    <3>1. \E f : Joins(f, Len(seqs), seqs)
      BY <2>2, FlatteningFacts
    <3>2. QED
      BY <2>2, <3>1
  <2>4. FlattenSeq(seqs) = f[n] /\ f[1] = seqs[1]
    BY <2>3 DEF Joins
  <2>5. f[2] = f[1] \o seqs[2]
    <3>1. 1 \in 1 .. n /\ 2 \in 1 .. n /\ 2 = 1 + 1
      BY <2>0
    <3>2. QED
      BY <2>3, <3>1, Zenon DEF Joins
  <2>6. QED
    BY <2>0, <2>1, <2>2, <2>4, <2>5 DEF findPda
<1>3. ASSUME NEW a, NEW b, NEW c
      PROVE  ThreeSeeds(a, b, c)
  <2>0. PICK n \in Nat \ {0} : n = 3
    OBVIOUS
  <2>1. PICK seqs : seqs = <<a, b, c>>
    OBVIOUS
  <2>2. Len(seqs) = n /\ seqs[1] = a /\ seqs[2] = b /\ seqs[3] = c
    BY <2>0, <2>1
  <2>3. PICK f : Joins(f, n, seqs)
    <3>1. \E f : Joins(f, Len(seqs), seqs)
      BY <2>2, FlatteningFacts
    <3>2. QED
      BY <2>2, <3>1
  <2>4. FlattenSeq(seqs) = f[n] /\ f[1] = seqs[1]
    BY <2>3 DEF Joins
  <2>5. f[2] = f[1] \o seqs[2]
    <3>1. 1 \in 1 .. n /\ 2 \in 1 .. n /\ 2 = 1 + 1
      BY <2>0
    <3>2. QED
      BY <2>3, <3>1, Zenon DEF Joins
  <2>6. f[3] = f[2] \o seqs[3]
    <3>1. 2 \in 1 .. n /\ 3 \in 1 .. n /\ 3 = 2 + 1
      BY <2>0
    <3>2. QED
      BY <2>3, <3>1, Zenon DEF Joins
  <2>7. QED
    BY <2>0, <2>1, <2>2, <2>4, <2>5, <2>6 DEF findPda, ThreeSeeds
<1>4. ASSUME NEW a, NEW b, NEW c, NEW d
      PROVE  FourSeeds(a, b, c, d)
  <2>0. PICK n \in Nat \ {0} : n = 4
    OBVIOUS
  <2>1. PICK seqs : seqs = <<a, b, c, d>>
    OBVIOUS
  <2>2. Len(seqs) = n /\ seqs[1] = a /\ seqs[2] = b /\ seqs[3] = c /\ seqs[4] = d
    BY <2>0, <2>1
  <2>3. PICK f : Joins(f, n, seqs)
    <3>1. \E f : Joins(f, Len(seqs), seqs)
      BY <2>2, FlatteningFacts
    <3>2. QED
      BY <2>2, <3>1
  <2>4. FlattenSeq(seqs) = f[n] /\ f[1] = seqs[1]
    BY <2>3 DEF Joins
  <2>5. f[2] = f[1] \o seqs[2]
    <3>1. 1 \in 1 .. n /\ 2 \in 1 .. n /\ 2 = 1 + 1
      BY <2>0
    <3>2. QED
      BY <2>3, <3>1, Zenon DEF Joins
  <2>6. f[3] = f[2] \o seqs[3]
    <3>1. 2 \in 1 .. n /\ 3 \in 1 .. n /\ 3 = 2 + 1
      BY <2>0
    <3>2. QED
      BY <2>3, <3>1, Zenon DEF Joins
  <2>7. f[4] = f[3] \o seqs[4]
    <3>1. 3 \in 1 .. n /\ 4 \in 1 .. n /\ 4 = 3 + 1
      BY <2>0
    <3>2. QED
      BY <2>3, <3>1, Zenon DEF Joins
  <2>8. QED
    BY <2>0, <2>1, <2>2, <2>4, <2>5, <2>6, <2>7 DEF findPda, FourSeeds
<1>5. QED
  BY <1>1, <1>2, <1>3, <1>4

-----------------------------------------------------------------------------
(***************************************************************************)
(* Joined sequences are the same when their parts are, the first being of  *)
(* one length.                                                             *)
(***************************************************************************)
Alike(a, b, c, d) == Len(a) = Len(c) /\ a \o b = c \o d

(* Joined sequences are the same when their parts are.                     *)
LEMMA JoinInjective ==
  ASSUME NEW S, NEW a \in Seq(S), NEW b \in Seq(S), NEW c \in Seq(S), NEW d \in Seq(S),
         Alike(a, b, c, d)
  PROVE  a = c /\ b = d
<1>1. PICK x, n : x = a \o b /\ x = c \o d /\ n = Len(a) /\ n = Len(c)
  BY DEF Alike
<1>2. SubSeq(x, 1, n) = a /\ SubSeq(x, n + 1, Len(x)) = b
  <2>1. SubSeq(a \o b, 1, Len(a)) = a /\ SubSeq(a \o b, Len(a) + 1, Len(a \o b)) = b
    BY PartsOfConcat
  <2>2. QED
    BY <1>1, <2>1
<1>3. SubSeq(x, 1, n) = c /\ SubSeq(x, n + 1, Len(x)) = d
  <2>1. SubSeq(c \o d, 1, Len(c)) = c /\ SubSeq(c \o d, Len(c) + 1, Len(c \o d)) = d
    BY PartsOfConcat
  <2>2. QED
    BY <1>1, <2>1
<1>4. QED
  BY <1>2, <1>3

(* A sequence of n cells that begins with x.                               *)
Begins(S, s, n, x) == s \in Seq(S) /\ Len(s) = n /\ n \in Nat /\ n > 0 /\ s[1] = x

(* A sequence of one cell begins with it.                                  *)
LEMMA OneCell ==
  ASSUME NEW S, NEW x \in S
  PROVE  Begins(S, <<x>>, 1, x)
BY DEF Begins

(* A sequence begins as its first part does.                               *)
LEMMA OneMoreCell ==
  ASSUME NEW S, NEW s, NEW n, NEW x, Begins(S, s, n, x), NEW t \in Seq(S)
  PROVE  s \o t \in Seq(S) /\ Begins(S, s \o t, n + Len(t), x)
<1>1. PICK r \in Seq(S) : r = s /\ Len(r) = n /\ r[1] = x
  BY DEF Begins
<1>2. PICK u \in Seq(S) : u = r \o t /\ Len(u) = Len(r) + Len(t)
  BY ConcatProperties
<1>3. n \in Nat /\ n > 0 /\ Len(t) \in Nat
  BY LenProperties DEF Begins
<1>4. u[1] = x
  <2>1. \A i \in 1 .. Len(r) + Len(t) : (r \o t)[i] = IF i <= Len(r) THEN r[i] ELSE t[i - Len(r)]
    BY ConcatProperties
  <2>2. 1 \in 1 .. Len(r) + Len(t) /\ 1 <= Len(r)
    BY <1>1, <1>3
  <2>3. QED
    BY <1>1, <1>2, <2>1, <2>2
<1>5. QED
  BY <1>1, <1>2, <1>3, <1>4 DEF Begins

(* Two sequences that begin with one cell each.                            *)
LEMMA OneMoreKey ==
  ASSUME NEW S, NEW s, NEW n, NEW x, Begins(S, s, n, x), NEW y \in S
  PROVE  Begins(S, s \o <<y>>, n + 1, x)
<1>1. <<y>> \in Seq(S) /\ Len(<<y>>) = 1
  OBVIOUS
<1>2. PICK t \in Seq(S) : t = <<y>> /\ Len(t) = 1
  BY <1>1
<1>3. QED
  BY <1>2, OneMoreCell

-----------------------------------------------------------------------------
(***************************************************************************)
(* The addresses, by their seeds.                                          *)
(***************************************************************************)
LEMMA SeedsOfAddresses ==
  /\ deriveConfigPda = <<"ghos.config">>
  /\ \A owner, nonce :
       deriveBurnerPda(owner, nonce) = <<"ghos.burner">> \o <<owner>> \o u64Le(nonce)
  /\ \A host, mint, nonce :
       deriveMixRoundPda(host, mint, nonce)
         = <<"ghos.mix.round">> \o <<host>> \o <<mint>> \o u64Le(nonce)
  /\ \A round, who :
       deriveMixCommitmentPda(round, who) = <<"ghos.mix.commit">> \o <<round>> \o <<who>>
  /\ \A mint : deriveAuditorPda(mint) = <<"ghos.auditor">> \o <<mint>>
<1>1. deriveConfigPda = <<"ghos.config">>
  BY SeedsJoined DEF deriveConfigPda
<1>2. ASSUME NEW owner, NEW nonce
      PROVE  deriveBurnerPda(owner, nonce) = <<"ghos.burner">> \o <<owner>> \o u64Le(nonce)
  <2>1. PICK a, b, c : a = <<"ghos.burner">> /\ b = <<owner>> /\ c = u64Le(nonce)
    OBVIOUS
  <2>2. findPda(<<a, b, c>>) = a \o b \o c
    <3>1. ThreeSeeds(a, b, c)
      BY SeedsJoined
    <3>2. QED
      BY <3>1 DEF ThreeSeeds
  <2>3. QED
    BY <2>1, <2>2 DEF deriveBurnerPda
<1>3. ASSUME NEW host, NEW mint, NEW nonce
      PROVE  deriveMixRoundPda(host, mint, nonce)
               = <<"ghos.mix.round">> \o <<host>> \o <<mint>> \o u64Le(nonce)
  <2>1. PICK a, b, c, d : a = <<"ghos.mix.round">> /\ b = <<host>> /\ c = <<mint>>
               /\ d = u64Le(nonce)
    OBVIOUS
  <2>2. findPda(<<a, b, c, d>>) = a \o b \o c \o d
    <3>1. FourSeeds(a, b, c, d)
      BY SeedsJoined
    <3>2. QED
      BY <3>1 DEF FourSeeds
  <2>3. QED
    BY <2>1, <2>2 DEF deriveMixRoundPda
<1>4. ASSUME NEW round, NEW who
      PROVE  deriveMixCommitmentPda(round, who) = <<"ghos.mix.commit">> \o <<round>> \o <<who>>
  <2>1. PICK a, b, c : a = <<"ghos.mix.commit">> /\ b = <<round>> /\ c = <<who>>
    OBVIOUS
  <2>2. findPda(<<a, b, c>>) = a \o b \o c
    <3>1. ThreeSeeds(a, b, c)
      BY SeedsJoined
    <3>2. QED
      BY <3>1 DEF ThreeSeeds
  <2>3. QED
    BY <2>1, <2>2 DEF deriveMixCommitmentPda
<1>5. ASSUME NEW mint
      PROVE  deriveAuditorPda(mint) = <<"ghos.auditor">> \o <<mint>>
  BY SeedsJoined DEF deriveAuditorPda
<1>6. QED
  BY <1>1, <1>2, <1>3, <1>4, <1>5

(* They begin with what they are addresses of.                             *)
StartsWith(address, x) == \E S, n : Begins(S, address, n, x)

(* Each address begins with the seed of its kind.                          *)
LEMMA AddressesStart ==
  /\ StartsWith(deriveConfigPda, "ghos.config")
  /\ \A owner : \A nonce \in Int :
       U64Encodable(nonce) => StartsWith(deriveBurnerPda(owner, nonce), "ghos.burner")
  /\ \A host, mint : \A nonce \in Int :
       U64Encodable(nonce) => StartsWith(deriveMixRoundPda(host, mint, nonce), "ghos.mix.round")
  /\ \A round, who : StartsWith(deriveMixCommitmentPda(round, who), "ghos.mix.commit")
  /\ \A mint : StartsWith(deriveAuditorPda(mint), "ghos.auditor")
<1>1. StartsWith(deriveConfigPda, "ghos.config")
  <2>1. Begins({"ghos.config"}, <<"ghos.config">>, 1, "ghos.config")
    BY OneCell
  <2>2. QED
    BY <2>1, SeedsOfAddresses DEF StartsWith
<1>2. ASSUME NEW owner, NEW nonce \in Int, U64Encodable(nonce)
      PROVE  StartsWith(deriveBurnerPda(owner, nonce), "ghos.burner")
  <2>1. PICK S : S = {"ghos.burner", owner} \cup Digit
    OBVIOUS
  <2>2. "ghos.burner" \in S /\ owner \in S /\ Digit \subseteq S
    BY <2>1
  <2>3. u64Le(nonce) \in Seq(S)
    BY <1>2, <2>2, UnsignedRead, SeqMonotonic
  <2>4. Begins(S, <<"ghos.burner">>, 1, "ghos.burner")
    BY <2>2, OneCell
  <2>5. Begins(S, <<"ghos.burner">> \o <<owner>>, 1 + 1, "ghos.burner")
    BY <2>2, <2>4, OneMoreKey
  <2>6. \E n : Begins(S, <<"ghos.burner">> \o <<owner>> \o u64Le(nonce), n, "ghos.burner")
    BY <2>3, <2>5, OneMoreCell
  <2>7. QED
    BY <2>6, SeedsOfAddresses DEF StartsWith
<1>3. ASSUME NEW host, NEW mint, NEW nonce \in Int, U64Encodable(nonce)
      PROVE  StartsWith(deriveMixRoundPda(host, mint, nonce), "ghos.mix.round")
  <2>1. PICK S : S = {"ghos.mix.round", host, mint} \cup Digit
    OBVIOUS
  <2>2. "ghos.mix.round" \in S /\ host \in S /\ mint \in S /\ Digit \subseteq S
    BY <2>1
  <2>3. u64Le(nonce) \in Seq(S)
    BY <1>3, <2>2, UnsignedRead, SeqMonotonic
  <2>4. Begins(S, <<"ghos.mix.round">>, 1, "ghos.mix.round")
    BY <2>2, OneCell
  <2>5. Begins(S, <<"ghos.mix.round">> \o <<host>>, 1 + 1, "ghos.mix.round")
    BY <2>2, <2>4, OneMoreKey
  <2>6. Begins(S, <<"ghos.mix.round">> \o <<host>> \o <<mint>>, 1 + 1 + 1, "ghos.mix.round")
    BY <2>2, <2>5, OneMoreKey
  <2>7. \E n : Begins(S, <<"ghos.mix.round">> \o <<host>> \o <<mint>> \o u64Le(nonce), n,
               "ghos.mix.round")
    BY <2>3, <2>6, OneMoreCell
  <2>8. QED
    BY <2>7, SeedsOfAddresses DEF StartsWith
<1>4. ASSUME NEW round, NEW who
      PROVE  StartsWith(deriveMixCommitmentPda(round, who), "ghos.mix.commit")
  <2>1. PICK S : S = {"ghos.mix.commit", round, who}
    OBVIOUS
  <2>2. "ghos.mix.commit" \in S /\ round \in S /\ who \in S
    BY <2>1
  <2>3. Begins(S, <<"ghos.mix.commit">>, 1, "ghos.mix.commit")
    BY <2>2, OneCell
  <2>4. Begins(S, <<"ghos.mix.commit">> \o <<round>>, 1 + 1, "ghos.mix.commit")
    BY <2>2, <2>3, OneMoreKey
  <2>5. \E n : Begins(S, <<"ghos.mix.commit">> \o <<round>> \o <<who>>, n, "ghos.mix.commit")
    BY <2>2, <2>4, OneMoreKey
  <2>6. QED
    BY <2>5, SeedsOfAddresses DEF StartsWith
<1>5. ASSUME NEW mint
      PROVE  StartsWith(deriveAuditorPda(mint), "ghos.auditor")
  <2>1. PICK S : S = {"ghos.auditor", mint}
    OBVIOUS
  <2>2. "ghos.auditor" \in S /\ mint \in S
    BY <2>1
  <2>3. Begins(S, <<"ghos.auditor">>, 1, "ghos.auditor")
    BY <2>2, OneCell
  <2>4. \E n : Begins(S, <<"ghos.auditor">> \o <<mint>>, n, "ghos.auditor")
    BY <2>2, <2>3, OneMoreKey
  <2>5. QED
    BY <2>4, SeedsOfAddresses DEF StartsWith
<1>6. QED
  BY <1>1, <1>2, <1>3, <1>4, <1>5

(* Encoded u64 tell their numbers apart.                                   *)
LEMMA NumbersApart ==
  ASSUME NEW m \in Int, NEW n \in Int, U64Encodable(m), U64Encodable(n), u64Le(m) = u64Le(n)
  PROVE  Magnitude(m) = Magnitude(n)
<1>1. ReadPlain("u64", u64Le(m)) = Magnitude(m) /\ ReadPlain("u64", u64Le(n)) = Magnitude(n)
  BY UnsignedRead
<1>2. QED
  BY <1>1

Same(a, b) == a = b

(* Two keys after one and the same beginning.                              *)
LEMMA KeysApart ==
  ASSUME NEW S, NEW s, NEW n, NEW x, NEW t, Begins(S, s, n, x), Begins(S, t, n, x),
         NEW y \in S, NEW z \in S, Same(s \o <<y>>, t \o <<z>>)
  PROVE  s = t /\ y = z
<1>1. PICK a \in Seq(S), c \in Seq(S) : a = s /\ c = t /\ Len(a) = Len(c)
  BY DEF Begins
<1>2. PICK b \in Seq(S), d \in Seq(S) : b = <<y>> /\ d = <<z>>
  <2>1. <<y>> \in Seq(S) /\ <<z>> \in Seq(S)
    OBVIOUS
  <2>2. QED
    BY <2>1
<1>3. Alike(a, b, c, d)
  BY <1>1, <1>2 DEF Alike, Same
<1>4. a = c /\ b = d
  BY <1>3, JoinInjective
<1>5. QED
  BY <1>1, <1>2, <1>4

(* What follows the same first cell is the same.                           *)
LEMMA TailsApart ==
  ASSUME NEW S, NEW s, NEW n, NEW x, NEW t, Begins(S, s, n, x), Begins(S, t, n, x),
         NEW y \in Seq(S), NEW z \in Seq(S), Same(s \o y, t \o z)
  PROVE  s = t /\ y = z
<1>1. PICK a \in Seq(S), c \in Seq(S) : a = s /\ c = t /\ Len(a) = Len(c)
  BY DEF Begins
<1>2. Alike(a, y, c, z)
  BY <1>1 DEF Alike, Same
<1>3. QED
  BY <1>1, <1>2, JoinInjective

(* One burner address, one owner and nonce.                                *)
LEMMA BurnersApart ==
  ASSUME NEW o, NEW p, NEW m \in Int, NEW n \in Int, U64Encodable(m), U64Encodable(n),
         Same(deriveBurnerPda(o, m), deriveBurnerPda(p, n))
  PROVE  o = p /\ Magnitude(m) = Magnitude(n)
<1>1. PICK S : S = {"ghos.burner", o, p} \cup Digit
  OBVIOUS
<1>2. "ghos.burner" \in S /\ o \in S /\ p \in S /\ Digit \subseteq S
  BY <1>1
<1>3. u64Le(m) \in Seq(S) /\ u64Le(n) \in Seq(S)
  BY <1>2, UnsignedRead, SeqMonotonic
<1>4. PICK x, y, z : x = <<"ghos.burner">> /\ y = x \o <<o>> /\ z = x \o <<p>>
  OBVIOUS
<1>5. Begins(S, x, 1, "ghos.burner")
  BY <1>2, <1>4, OneCell
<1>6. Begins(S, y, 1 + 1, "ghos.burner") /\ Begins(S, z, 1 + 1, "ghos.burner")
  BY <1>2, <1>4, <1>5, OneMoreKey
<1>7. Same(y \o u64Le(m), z \o u64Le(n))
  BY <1>4, SeedsOfAddresses DEF Same
<1>8. y = z /\ u64Le(m) = u64Le(n)
  BY <1>3, <1>6, <1>7, TailsApart
<1>9. Same(x \o <<o>>, x \o <<p>>)
  BY <1>4, <1>8 DEF Same
<1>10. o = p
  BY <1>2, <1>5, <1>9, KeysApart
<1>11. QED
  BY <1>8, <1>10, NumbersApart

(* One round address, one host, mint and nonce.                            *)
LEMMA RoundsApart ==
  ASSUME NEW h, NEW i, NEW s, NEW t, NEW m \in Int, NEW n \in Int,
         U64Encodable(m), U64Encodable(n),
         Same(deriveMixRoundPda(h, s, m), deriveMixRoundPda(i, t, n))
  PROVE  h = i /\ s = t /\ Magnitude(m) = Magnitude(n)
<1>1. PICK S : S = {"ghos.mix.round", h, i, s, t} \cup Digit
  OBVIOUS
<1>2. "ghos.mix.round" \in S /\ h \in S /\ i \in S /\ s \in S /\ t \in S /\ Digit \subseteq S
  BY <1>1
<1>3. u64Le(m) \in Seq(S) /\ u64Le(n) \in Seq(S)
  BY <1>2, UnsignedRead, SeqMonotonic
<1>4. PICK x, y, z, v, w :
        /\ x = <<"ghos.mix.round">> /\ y = x \o <<h>> /\ z = x \o <<i>>
        /\ v = y \o <<s>> /\ w = z \o <<t>>
  OBVIOUS
<1>5. Begins(S, x, 1, "ghos.mix.round")
  BY <1>2, <1>4, OneCell
<1>6. Begins(S, y, 1 + 1, "ghos.mix.round") /\ Begins(S, z, 1 + 1, "ghos.mix.round")
  BY <1>2, <1>4, <1>5, OneMoreKey
<1>7. Begins(S, v, 1 + 1 + 1, "ghos.mix.round") /\ Begins(S, w, 1 + 1 + 1, "ghos.mix.round")
  BY <1>2, <1>4, <1>6, OneMoreKey
<1>8. Same(v \o u64Le(m), w \o u64Le(n))
  BY <1>4, SeedsOfAddresses DEF Same
<1>9. v = w /\ u64Le(m) = u64Le(n)
  BY <1>3, <1>7, <1>8, TailsApart
<1>10. Same(y \o <<s>>, z \o <<t>>)
  BY <1>4, <1>9 DEF Same
<1>11. y = z /\ s = t
  BY <1>2, <1>6, <1>10, KeysApart
<1>12. Same(x \o <<h>>, x \o <<i>>)
  BY <1>4, <1>11 DEF Same
<1>13. h = i
  BY <1>2, <1>5, <1>12, KeysApart
<1>14. QED
  BY <1>9, <1>11, <1>13, NumbersApart

(* One commitment address, one round and participant.                      *)
LEMMA CommitmentsApart ==
  ASSUME NEW r, NEW s, NEW p, NEW q,
         Same(deriveMixCommitmentPda(r, p), deriveMixCommitmentPda(s, q))
  PROVE  r = s /\ p = q
<1>1. PICK S : S = {"ghos.mix.commit", r, s, p, q}
  OBVIOUS
<1>2. "ghos.mix.commit" \in S /\ r \in S /\ s \in S /\ p \in S /\ q \in S
  BY <1>1
<1>3. PICK x, y, z : x = <<"ghos.mix.commit">> /\ y = x \o <<r>> /\ z = x \o <<s>>
  OBVIOUS
<1>4. Begins(S, x, 1, "ghos.mix.commit")
  BY <1>2, <1>3, OneCell
<1>5. Begins(S, y, 1 + 1, "ghos.mix.commit") /\ Begins(S, z, 1 + 1, "ghos.mix.commit")
  BY <1>2, <1>3, <1>4, OneMoreKey
<1>6. Same(y \o <<p>>, z \o <<q>>)
  BY <1>3, SeedsOfAddresses DEF Same
<1>7. y = z /\ p = q
  BY <1>2, <1>5, <1>6, KeysApart
<1>8. Same(x \o <<r>>, x \o <<s>>)
  BY <1>3, <1>7 DEF Same
<1>9. r = s
  BY <1>2, <1>4, <1>8, KeysApart
<1>10. QED
  BY <1>7, <1>9

(* One auditor address, one mint.                                          *)
LEMMA AuditorsApart ==
  ASSUME NEW m, NEW n, Same(deriveAuditorPda(m), deriveAuditorPda(n))
  PROVE  m = n
<1>1. PICK S : S = {"ghos.auditor", m, n}
  OBVIOUS
<1>2. "ghos.auditor" \in S /\ m \in S /\ n \in S
  BY <1>1
<1>3. PICK x : x = <<"ghos.auditor">>
  OBVIOUS
<1>4. Begins(S, x, 1, "ghos.auditor")
  BY <1>2, <1>3, OneCell
<1>5. Same(x \o <<m>>, x \o <<n>>)
  BY <1>3, SeedsOfAddresses DEF Same
<1>6. QED
  BY <1>2, <1>4, <1>5, KeysApart

-----------------------------------------------------------------------------
(***************************************************************************)
(* What an address the client derives is the address of.                   *)
(***************************************************************************)
Derives(about, address) ==
  \/ about = <<"config">> /\ address = deriveConfigPda
  \/ \E owner : \E nonce \in Int :
       /\ U64Encodable(nonce) /\ about = <<"burner", owner, nonce>>
       /\ address = deriveBurnerPda(owner, nonce)
  \/ \E host, mint : \E nonce \in Int :
       /\ U64Encodable(nonce) /\ about = <<"round", host, mint, nonce>>
       /\ address = deriveMixRoundPda(host, mint, nonce)
  \/ \E round, who :
       about = <<"commitment", round, who>> /\ address = deriveMixCommitmentPda(round, who)
  \/ \E mint : about = <<"auditor", mint>> /\ address = deriveAuditorPda(mint)

(* Its first seed goes with the kind of thing it is.                       *)
SeedOf ==
  [config |-> "ghos.config", burner |-> "ghos.burner", round |-> "ghos.mix.round",
   commitment |-> "ghos.mix.commit", auditor |-> "ghos.auditor"]

(* A derived address begins with the seed of what it is about.             *)
LEMMA SeedsTellKindsApart ==
  ASSUME NEW about, NEW address, Derives(about, address)
  PROVE  about[1] \in DOMAIN SeedOf /\ StartsWith(address, SeedOf[about[1]])
<1>1. CASE about = <<"config">> /\ address = deriveConfigPda
  <2>1. about[1] = "config"
    BY <1>1
  <2>2. QED
    BY <1>1, <2>1, AddressesStart DEF SeedOf
<1>2. ASSUME NEW owner, NEW nonce \in Int, U64Encodable(nonce),
             about = <<"burner", owner, nonce>>, address = deriveBurnerPda(owner, nonce)
      PROVE  about[1] \in DOMAIN SeedOf /\ StartsWith(address, SeedOf[about[1]])
  <2>1. about[1] = "burner"
    BY <1>2
  <2>2. StartsWith(address, "ghos.burner")
    BY <1>2, AddressesStart
  <2>3. QED
    BY <2>1, <2>2 DEF SeedOf
<1>3. ASSUME NEW host, NEW mint, NEW nonce \in Int, U64Encodable(nonce),
             about = <<"round", host, mint, nonce>>,
             address = deriveMixRoundPda(host, mint, nonce)
      PROVE  about[1] \in DOMAIN SeedOf /\ StartsWith(address, SeedOf[about[1]])
  <2>1. about[1] = "round"
    BY <1>3
  <2>2. StartsWith(address, "ghos.mix.round")
    BY <1>3, AddressesStart
  <2>3. QED
    BY <2>1, <2>2 DEF SeedOf
<1>4. ASSUME NEW round, NEW who, about = <<"commitment", round, who>>,
             address = deriveMixCommitmentPda(round, who)
      PROVE  about[1] \in DOMAIN SeedOf /\ StartsWith(address, SeedOf[about[1]])
  <2>1. about[1] = "commitment"
    BY <1>4
  <2>2. StartsWith(address, "ghos.mix.commit")
    BY <1>4, AddressesStart
  <2>3. QED
    BY <2>1, <2>2 DEF SeedOf
<1>5. ASSUME NEW mint, about = <<"auditor", mint>>, address = deriveAuditorPda(mint)
      PROVE  about[1] \in DOMAIN SeedOf /\ StartsWith(address, SeedOf[about[1]])
  <2>1. about[1] = "auditor"
    BY <1>5
  <2>2. StartsWith(address, "ghos.auditor")
    BY <1>5, AddressesStart
  <2>3. QED
    BY <2>1, <2>2 DEF SeedOf
<1>6. QED
  BY <1>1, <1>2, <1>3, <1>4, <1>5 DEF Derives

(* An address begins with one seed.                                        *)
LEMMA OneStart ==
  ASSUME NEW address, NEW x, NEW y, StartsWith(address, x), StartsWith(address, y)
  PROVE  x = y
BY DEF StartsWith, Begins

(* One derived address is about one thing.                                 *)
LEMMA DerivedApart ==
  ASSUME NEW a, NEW b, NEW x, Derives(a, x), Derives(b, x)
  PROVE  Unsigned(a) = Unsigned(b)
<1>1. a[1] = b[1]
  <2>1. /\ a[1] \in DOMAIN SeedOf /\ StartsWith(x, SeedOf[a[1]])
        /\ b[1] \in DOMAIN SeedOf /\ StartsWith(x, SeedOf[b[1]])
    BY SeedsTellKindsApart
  <2>2. PICK s, t : s = SeedOf[a[1]] /\ t = SeedOf[b[1]]
    OBVIOUS
  <2>3. s = t
    BY <2>1, <2>2, OneStart
  <2>4. QED
    BY <2>1, <2>2, <2>3 DEF SeedOf
<1>2. CASE a = <<"config">> /\ x = deriveConfigPda
  <2>1. a[1] = "config"
    BY <1>2
  <2>2. b[1] = "config"
    BY <1>1, <2>1
  <2>3. b = <<"config">>
    BY <2>2 DEF Derives
  <2>4. QED
    BY <1>2, <2>3
<1>3. ASSUME NEW o, NEW m \in Int, U64Encodable(m), a = <<"burner", o, m>>,
             x = deriveBurnerPda(o, m)
      PROVE  Unsigned(a) = Unsigned(b)
  <2>1. a[1] = "burner"
    BY <1>3
  <2>2. b[1] = "burner"
    BY <1>1, <2>1
  <2>3. PICK p, n : /\ n \in Int /\ U64Encodable(n) /\ b = <<"burner", p, n>>
                   /\ x = deriveBurnerPda(p, n)
    BY <2>2 DEF Derives
  <2>4. o = p /\ Magnitude(m) = Magnitude(n)
    <3>1. Same(deriveBurnerPda(o, m), deriveBurnerPda(p, n))
      BY <1>3, <2>3 DEF Same
    <3>2. QED
      BY <1>3, <2>3, <3>1, BurnersApart
  <2>5. Unsigned(a) = <<"burner", o, Magnitude(m)>>
    BY <1>3 DEF Unsigned
  <2>6. Unsigned(b) = <<"burner", p, Magnitude(n)>>
    BY <2>3 DEF Unsigned
  <2>7. QED
    BY <2>4, <2>5, <2>6
<1>4. ASSUME NEW h, NEW s, NEW m \in Int, U64Encodable(m), a = <<"round", h, s, m>>,
             x = deriveMixRoundPda(h, s, m)
      PROVE  Unsigned(a) = Unsigned(b)
  <2>1. a[1] = "round"
    BY <1>4
  <2>2. b[1] = "round"
    BY <1>1, <2>1
  <2>3. PICK i, t, n : /\ n \in Int /\ U64Encodable(n) /\ b = <<"round", i, t, n>>
                      /\ x = deriveMixRoundPda(i, t, n)
    BY <2>2 DEF Derives
  <2>4. h = i /\ s = t /\ Magnitude(m) = Magnitude(n)
    <3>1. Same(deriveMixRoundPda(h, s, m), deriveMixRoundPda(i, t, n))
      BY <1>4, <2>3 DEF Same
    <3>2. QED
      BY <1>4, <2>3, <3>1, RoundsApart
  <2>5. Unsigned(a) = <<"round", h, s, Magnitude(m)>>
    BY <1>4 DEF Unsigned
  <2>6. Unsigned(b) = <<"round", i, t, Magnitude(n)>>
    BY <2>3 DEF Unsigned
  <2>7. QED
    BY <2>4, <2>5, <2>6
<1>5. ASSUME NEW r, NEW p, a = <<"commitment", r, p>>, x = deriveMixCommitmentPda(r, p)
      PROVE  Unsigned(a) = Unsigned(b)
  <2>1. a[1] = "commitment"
    BY <1>5
  <2>2. b[1] = "commitment"
    BY <1>1, <2>1
  <2>3. PICK s, q : b = <<"commitment", s, q>> /\ x = deriveMixCommitmentPda(s, q)
    BY <2>2 DEF Derives
  <2>4. r = s /\ p = q
    <3>1. Same(deriveMixCommitmentPda(r, p), deriveMixCommitmentPda(s, q))
      BY <1>5, <2>3 DEF Same
    <3>2. QED
      BY <3>1, CommitmentsApart
  <2>5. QED
    BY <1>5, <2>3, <2>4
<1>6. ASSUME NEW m, a = <<"auditor", m>>, x = deriveAuditorPda(m)
      PROVE  Unsigned(a) = Unsigned(b)
  <2>1. a[1] = "auditor"
    BY <1>6
  <2>2. b[1] = "auditor"
    BY <1>1, <2>1
  <2>3. PICK n : b = <<"auditor", n>> /\ x = deriveAuditorPda(n)
    BY <2>2 DEF Derives
  <2>4. m = n
    <3>1. Same(deriveAuditorPda(m), deriveAuditorPda(n))
      BY <1>6, <2>3 DEF Same
    <3>2. QED
      BY <3>1, AuditorsApart
  <2>5. QED
    BY <1>6, <2>3, <2>4
<1>7. QED
  BY <1>2, <1>3, <1>4, <1>5, <1>6 DEF Derives

-----------------------------------------------------------------------------
(***************************************************************************)
(* A call: who signed for it, and what it answers with.                    *)
(***************************************************************************)
Answered(ix, answer) ==
  \/ answer = <<>>
  \/ \E x : answer = <<x>> /\ Mentions(ix, x)
  \/ ix.name = "auditorRegister" /\ options.auditorOverride # NoKey

Derived(about, answer) ==
  \/ answer = <<>>
  \/ about[1] \notin DerivedKinds
  \/ \E x : answer = <<x>> /\ Derives(about, x)

Fine(call) ==
  SaysWhatWasAsked(call) /\ SignedAndNamed(call) /\ Derived(call.about, call.answer)

Through(call) == Fine(call) /\ calls' = Append(calls, call) /\ UNCHANGED options

SignersOf(who) == <<options.payer>> \o extraSigners(who)

(* The payer signs, and the caller if it is another.                       *)
LEMMA SignersAreTwoAtMost ==
  ASSUME NEW who
  PROVE  /\ ToSet(SignersOf(who)) = {options.payer, who}
         /\ Cardinality(ToSet(SignersOf(who))) = Len(SignersOf(who))
<1>1. CASE who = options.payer
  <2>1. SignersOf(who) = <<who>>
    <3>0. <<who>> \in Seq({who})
      OBVIOUS
    <3>1. PICK s \in Seq({who}) : s = <<who>>
      BY <3>0
    <3>2. s \o <<>> = s
      BY ConcatEmptySeq
    <3>3. QED
      BY <1>1, <3>1, <3>2 DEF SignersOf, extraSigners
  <2>2. PICK s : s = SignersOf(who) /\ DOMAIN s = {1} /\ s[1] = who /\ Len(s) = 1
    BY <2>1
  <2>3. ToSet(s) = {who}
    BY <2>2 DEF ToSet
  <2>4. Cardinality({who}) = 1
    BY FS_Singleton
  <2>5. QED
    BY <1>1, <2>2, <2>3, <2>4
<1>2. CASE who # options.payer
  <2>1. PICK p, S : p = options.payer /\ S = {p, who}
    OBVIOUS
  <2>2. PICK a \in Seq(S), b \in Seq(S) : a = <<p>> /\ b = <<who>>
    <3>1. <<p>> \in Seq(S) /\ <<who>> \in Seq(S)
      BY <2>1
    <3>2. QED
      BY <3>1
  <2>3. SignersOf(who) = a \o b
    BY <1>2, <2>1, <2>2 DEF SignersOf, extraSigners
  <2>4. PICK s \in Seq(S) : s = a \o b /\ Len(s) = Len(a) + Len(b)
    BY ConcatProperties
  <2>5. s[1] = p /\ s[2] = who
    <3>1. \A i \in 1 .. Len(a) + Len(b) :
                 (a \o b)[i] = IF i <= Len(a) THEN a[i] ELSE b[i - Len(a)]
      BY ConcatProperties
    <3>2. Len(a) = 1 /\ Len(b) = 1 /\ a[1] = p /\ b[1] = who
      BY <2>2
    <3>3. 1 \in 1 .. Len(a) + Len(b) /\ 2 \in 1 .. Len(a) + Len(b) /\ 1 <= Len(a)
                 /\ ~(2 <= Len(a))
          /\ 2 - Len(a) = 1
      BY <3>2
    <3>4. QED
      BY <2>4, <3>1, <3>2, <3>3
  <2>6. Len(s) = 2 /\ DOMAIN s = {1, 2}
    <3>1. Len(s) = 2
      BY <2>2, <2>4
    <3>2. DOMAIN s = 1 .. 2
      BY <3>1, LenProperties
    <3>3. QED
      BY <3>1, <3>2
  <2>7. ToSet(s) = {p, who}
    BY <2>5, <2>6 DEF ToSet
  <2>8. Cardinality({p, who}) = 2
    <3>1. IsFiniteSet({p}) /\ Cardinality({p}) = 1
      BY FS_Singleton
    <3>2. PICK T, n : T = {p} \cup {who} /\ n = Cardinality({p})
      OBVIOUS
    <3>3. Cardinality({p} \cup {who}) = Cardinality({p}) + 1
      BY <1>2, <2>1, <3>1, FS_AddElement
    <3>4. n = 1 /\ Cardinality(T) = n + 1
      BY <3>1, <3>2, <3>3
    <3>5. Cardinality(T) = 2
      BY <3>4
    <3>6. T = {p, who}
      BY <3>2
    <3>7. QED
      BY <3>5, <3>6
  <2>9. QED
    BY <2>1, <2>3, <2>4, <2>6, <2>7, <2>8
<1>3. QED
  BY <1>1, <1>2

(* Whoever an instruction says signs, is its first account.                 *)
LEMMA TheSigner ==
  ASSUME NEW ix, NEW who, SignedBy(ix, who)
  PROVE  LET keys == {ix.keys[i] : i \in DOMAIN ix.keys}
         IN  {a.pubkey : a \in {a \in keys : a.isSigner}} = {who}
<1>1. PICK keys : keys = {ix.keys[i] : i \in DOMAIN ix.keys}
  OBVIOUS
<1>2. Signs(who) \in keys /\ Signs(who).isSigner = TRUE /\ Signs(who).pubkey = who
  BY <1>1 DEF SignedBy, FirstSigns, Signs
<1>3. \A a \in keys : a.isSigner => a = Signs(who)
  BY <1>1 DEF SignedBy, FirstSigns
<1>4. {a.pubkey : a \in {a \in keys : a.isSigner}} = {who}
  BY <1>2, <1>3
<1>5. QED
  BY <1>1, <1>4

(* A call whose instruction says what was asked, is signed by its caller   *)
(* and names its answer is a fine one.                                     *)
LEMMA FineCall ==
  ASSUME NEW who, NEW ix, NEW asked, NEW about, NEW answer,
         Says(ix, asked), SignedBy(ix, who), Answered(ix, answer), Derived(about, answer),
         sendIx(who, ix, asked, about, answer)
  PROVE  \E call : Through(call)
<1>1. PICK call : call = [ix |-> ix, signers |-> SignersOf(who), asked |-> asked,
                         about |-> about, answer |-> answer]
  OBVIOUS
<1>2. /\ call.ix = ix /\ call.signers = SignersOf(who) /\ call.asked = asked
      /\ call.about = about /\ call.answer = answer
  BY <1>1
<1>3. SaysWhatWasAsked(call)
  BY <1>2 DEF SaysWhatWasAsked, Says, DecodesAs
<1>4. SignedAndNamed(call)
  <2>1. PICK keys : keys = {ix.keys[i] : i \in DOMAIN ix.keys}
    OBVIOUS
  <2>2. ToSet(call.signers) = {options.payer} \cup {a.pubkey : a \in {a \in keys : a.isSigner}}
    <3>1. {a.pubkey : a \in {a \in keys : a.isSigner}} = {who}
      BY <2>1, TheSigner
    <3>2. ToSet(call.signers) = {options.payer, who}
      BY <1>2, SignersAreTwoAtMost
    <3>3. QED
      BY <3>1, <3>2
  <2>3. Cardinality(ToSet(call.signers)) = Len(call.signers)
    BY <1>2, SignersAreTwoAtMost
  <2>4. \/ ToSet(answer) \subseteq {a.pubkey : a \in keys}
        \/ ix.name = "auditorRegister" /\ options.auditorOverride # NoKey
    <3>1. CASE answer = <<>>
      BY <3>1 DEF ToSet
    <3>2. ASSUME NEW x, answer = <<x>>, Mentions(ix, x)
          PROVE  ToSet(answer) \subseteq {a.pubkey : a \in keys}
      <4>1. ToSet(answer) = {x}
        <5>1. DOMAIN answer = {1} /\ answer[1] = x
          BY <3>2
        <5>2. QED
          BY <5>1 DEF ToSet
      <4>2. x \in {a.pubkey : a \in keys}
        BY <2>1, <3>2 DEF Mentions
      <4>3. QED
        BY <4>1, <4>2
    <3>3. QED
      BY <3>1, <3>2 DEF Answered
  <2>5. QED
    BY <1>2, <2>1, <2>2, <2>3, <2>4 DEF SignedAndNamed
<1>5. Fine(call)
  BY <1>2, <1>3, <1>4 DEF Fine
<1>6. calls' = Append(calls, call) /\ UNCHANGED options
  BY <1>1 DEF sendIx, SignersOf
<1>7. QED
  BY <1>5, <1>6 DEF Through

-----------------------------------------------------------------------------
(***************************************************************************)
(* The methods, one by one: what each of them sends is a fine call.        *)
(***************************************************************************)
LEMMA AmountsAreEncodable ==
  ASSUME NEW v \in Int, IsAmount(v)
  PROVE  U64Encodable(v)
<1>1. LongBytes \in Nat /\ Pow[LongBytes] \in Nat
  BY PowFacts DEF LongBytes
<1>2. QED
  BY <1>1 DEF IsAmount, U64Encodable, Magnitude

(* shield.                                                                 *)
LEMMA ShieldIsFine ==
  ASSUME NEW owner, NEW mint, NEW amount \in Int, NEW sourceAta,
         shield(owner, mint, amount, sourceAta)
  PROVE  \E call : Through(call)
<1>1. PICK ata, source, ix, asked, about, answer :
        /\ ata = deriveAta(mint, owner)
        /\ source = (IF sourceAta = NoKey THEN ata ELSE sourceAta)
        /\ ix = buildShieldInstruction(owner, mint, source, ata, amount)
        /\ asked = <<amount>>
        /\ about = <<"balance", mint, owner>> /\ answer = <<>>
  OBVIOUS
<1>2. sendIx(owner, ix, asked, about, answer)
  BY <1>1 DEF shield
<1>3. Says(ix, asked)
  <2>1. U64Encodable(amount)
    BY AmountsAreEncodable DEF shield
  <2>2. QED
    BY <1>1, <2>1, ShieldSays
<1>4. SignedBy(ix, owner)
  BY <1>1, WhoSigns
<1>5. Answered(ix, answer) /\ Derived(about, answer)
  BY <1>1 DEF Answered, Derived
<1>6. QED
  BY <1>2, <1>3, <1>4, <1>5, FineCall

(* confidentialTransfer.                                                   *)
LEMMA TransferIsFine ==
  ASSUME NEW owner, NEW mint, NEW amount, NEW ctx, NEW h1 \in Int, NEW h2 \in Int,
         NEW b \in Bytes,
         confidentialTransfer(owner, mint, amount, ctx, <<h1, h2>>, <<b, b, b, b>>)
  PROVE  \E call : Through(call)
<1>1. PICK ix, asked, about, answer :
        /\ ix = buildConfidentialTransferInstruction(owner, mint, ctx, auditorPda(mint), <<h1,
               h2>>,
                                                   <<b, b, b, b>>)
        /\ asked = <<h1, h2, b, b, b, b>>
        /\ about = <<"balance", mint, owner>> /\ answer = <<ctx.range>>
  OBVIOUS
<1>2. sendIx(owner, ix, asked, about, answer)
  BY <1>1 DEF confidentialTransfer
<1>3. Says(ix, asked)
  BY <1>1, TransferSays
<1>4. SignedBy(ix, owner)
  BY <1>1, WhoSigns
<1>5. Answered(ix, answer) /\ Derived(about, answer)
  <2>1. Mentions(ix, ctx.range)
    BY <1>1, WhatIsMentioned
  <2>2. about[1] \notin DerivedKinds
    BY <1>1 DEF DerivedKinds
  <2>3. QED
    BY <1>1, <2>1, <2>2 DEF Answered, Derived
<1>6. QED
  BY <1>2, <1>3, <1>4, <1>5, FineCall

(* applyPending.                                                           *)
LEMMA ApplyPendingIsFine ==
  ASSUME NEW owner, NEW mint,
         applyPending(owner, mint)
  PROVE  \E call : Through(call)
<1>1. PICK ix, asked, about, answer :
        /\ ix = buildApplyPendingInstruction(owner, mint, deriveAta(mint, owner))
        /\ asked = <<>>
        /\ about = <<"balance", mint, owner>> /\ answer = <<>>
  OBVIOUS
<1>2. sendIx(owner, ix, asked, about, answer)
  BY <1>1 DEF applyPending
<1>3. Says(ix, asked)
  BY <1>1, ApplyPendingSays
<1>4. SignedBy(ix, owner)
  BY <1>1, WhoSigns
<1>5. Answered(ix, answer) /\ Derived(about, answer)
  BY <1>1 DEF Answered, Derived
<1>6. QED
  BY <1>2, <1>3, <1>4, <1>5, FineCall

(* withdraw.                                                               *)
LEMMA WithdrawIsFine ==
  ASSUME NEW owner, NEW mint, NEW amount \in Int, NEW destinationAta,
         NEW requireAuditor \in BOOLEAN,
         withdraw(owner, mint, amount, destinationAta, requireAuditor)
  PROVE  \E call : Through(call)
<1>1. PICK ata, to, ix, asked, about, answer :
        /\ ata = deriveAta(mint, owner)
        /\ to = (IF destinationAta = NoKey THEN ata ELSE destinationAta)
        /\ ix = buildWithdrawInstruction(owner, mint, ata, to, amount, requireAuditor,
               auditorPda(mint))
        /\ asked = <<amount, requireAuditor>>
        /\ about = <<"balance", mint, owner>> /\ answer = <<>>
  OBVIOUS
<1>2. sendIx(owner, ix, asked, about, answer)
  BY <1>1 DEF withdraw
<1>3. Says(ix, asked)
  <2>1. U64Encodable(amount)
    BY AmountsAreEncodable DEF withdraw
  <2>2. QED
    BY <1>1, <2>1, WithdrawSays
<1>4. SignedBy(ix, owner)
  BY <1>1, WhoSigns
<1>5. Answered(ix, answer) /\ Derived(about, answer)
  BY <1>1 DEF Answered, Derived
<1>6. QED
  BY <1>2, <1>3, <1>4, <1>5, FineCall

(* createBurner.                                                           *)
LEMMA CreateBurnerIsFine ==
  ASSUME NEW owner, NEW burnerPubkey \in Bytes, NEW nonce \in Int, NEW ttlSeconds \in Int,
         createBurner(owner, burnerPubkey, nonce, ttlSeconds)
  PROVE  \E call : Through(call)
<1>1. PICK ix, asked, about, answer :
        /\ ix = buildCreateBurnerInstruction(owner, burnerPubkey, nonce, ttlSeconds)
        /\ asked = <<nonce, burnerPubkey, ttlSeconds>>
        /\ about = <<"burner", owner, nonce>> /\ answer = <<deriveBurnerPda(owner, nonce)>>
  OBVIOUS
<1>2. sendIx(owner, ix, asked, about, answer)
  BY <1>1 DEF createBurner
<1>3. Says(ix, asked)
  BY <1>1, CreateBurnerSays DEF createBurner
<1>4. SignedBy(ix, owner)
  BY <1>1, WhoSigns
<1>5. Answered(ix, answer) /\ Derived(about, answer)
  <2>1. Mentions(ix, deriveBurnerPda(owner, nonce))
    BY <1>1, WhatIsMentioned
  <2>2. Derives(about, deriveBurnerPda(owner, nonce))
    BY <1>1 DEF Derives, createBurner
  <2>3. QED
    BY <1>1, <2>1, <2>2 DEF Answered, Derived
<1>6. QED
  BY <1>2, <1>3, <1>4, <1>5, FineCall

(* destroyBurner.                                                          *)
LEMMA DestroyBurnerIsFine ==
  ASSUME NEW owner, NEW entry,
         destroyBurner(owner, entry)
  PROVE  \E call : Through(call)
<1>1. PICK ix, asked, about, answer :
        /\ ix = buildDestroyBurnerInstruction(owner, entry)
        /\ asked = <<>>
        /\ about = <<"entry", entry>> /\ answer = <<>>
  OBVIOUS
<1>2. sendIx(owner, ix, asked, about, answer)
  BY <1>1 DEF destroyBurner
<1>3. Says(ix, asked)
  BY <1>1, DestroyBurnerSays
<1>4. SignedBy(ix, owner)
  BY <1>1, WhoSigns
<1>5. Answered(ix, answer) /\ Derived(about, answer)
  BY <1>1 DEF Answered, Derived
<1>6. QED
  BY <1>2, <1>3, <1>4, <1>5, FineCall

(* mixInit.                                                                *)
LEMMA MixInitIsFine ==
  ASSUME NEW host, NEW mint, NEW nonce \in Int, NEW denomination \in Int,
         NEW capacity \in Int, NEW window \in Int,
         mixInit(host, mint, nonce, denomination, capacity, window)
  PROVE  \E call : Through(call)
<1>1. PICK ix, asked, about, answer :
        /\ ix = buildMixInitInstruction(host, mint, nonce, denomination, capacity, window)
        /\ asked = <<nonce, denomination, capacity, window>>
        /\ about = <<"round", host, mint, nonce>> /\ answer = <<deriveMixRoundPda(host, mint,
               nonce)>>
  OBVIOUS
<1>2. sendIx(host, ix, asked, about, answer)
  BY <1>1 DEF mixInit
<1>3. Says(ix, asked)
  <2>1. U64Encodable(denomination) /\ U64Encodable(nonce) /\ I64Encodable(window)
    BY AmountsAreEncodable DEF mixInit
  <2>2. QED
    BY <1>1, <2>1, MixInitSays
<1>4. SignedBy(ix, host)
  BY <1>1, WhoSigns
<1>5. Answered(ix, answer) /\ Derived(about, answer)
  <2>1. Mentions(ix, deriveMixRoundPda(host, mint, nonce))
    BY <1>1, WhatIsMentioned
  <2>2. Derives(about, deriveMixRoundPda(host, mint, nonce))
    BY <1>1 DEF Derives, mixInit
  <2>3. QED
    BY <1>1, <2>1, <2>2 DEF Answered, Derived
<1>6. QED
  BY <1>2, <1>3, <1>4, <1>5, FineCall

(* mixCommit.                                                              *)
LEMMA MixCommitIsFine ==
  ASSUME NEW participant, NEW round, NEW commitment \in Bytes \cup ShortBytes, NEW index \in Int,
         mixCommit(participant, round, commitment, index)
  PROVE  \E call : Through(call)
<1>1. PICK ix, asked, about, answer :
        /\ ix = buildMixCommitInstruction(participant, round, commitment, index)
        /\ asked = <<commitment, index>>
        /\ about = <<"commitment", round, participant>>
               /\ answer = <<deriveMixCommitmentPda(round, participant)>>
  OBVIOUS
<1>2. sendIx(participant, ix, asked, about, answer)
  BY <1>1 DEF mixCommit
<1>3. Says(ix, asked)
  BY <1>1, MixCommitSays
<1>4. SignedBy(ix, participant)
  BY <1>1, WhoSigns
<1>5. Answered(ix, answer) /\ Derived(about, answer)
  <2>1. Mentions(ix, deriveMixCommitmentPda(round, participant))
    BY <1>1, WhatIsMentioned
  <2>2. Derives(about, deriveMixCommitmentPda(round, participant))
    BY <1>1 DEF Derives
  <2>3. QED
    BY <1>1, <2>1, <2>2 DEF Answered, Derived
<1>6. QED
  BY <1>2, <1>3, <1>4, <1>5, FineCall

(* mixReveal.                                                              *)
LEMMA MixRevealIsFine ==
  ASSUME NEW participant, NEW round, NEW signal \in Bytes \cup ShortBytes,
         NEW salt \in Bytes \cup ShortBytes,
         mixReveal(participant, round, signal, salt)
  PROVE  \E call : Through(call)
<1>1. PICK ix, asked, about, answer :
        /\ ix = buildMixRevealInstruction(participant, round, signal, salt)
        /\ asked = <<signal, salt>>
        /\ about = <<"commitment", round, participant>> /\ answer = <<>>
  OBVIOUS
<1>2. sendIx(participant, ix, asked, about, answer)
  BY <1>1 DEF mixReveal
<1>3. Says(ix, asked)
  BY <1>1, MixRevealSays
<1>4. SignedBy(ix, participant)
  BY <1>1, WhoSigns
<1>5. Answered(ix, answer) /\ Derived(about, answer)
  BY <1>1 DEF Answered, Derived
<1>6. QED
  BY <1>2, <1>3, <1>4, <1>5, FineCall

(* mixSettle.                                                              *)
LEMMA MixSettleIsFine ==
  ASSUME NEW host, NEW round, NEW indices \in Seq(Int), Len(indices) < Pow[4],
         mixSettle(host, round, indices)
  PROVE  \E call : Through(call)
<1>1. PICK ix, asked, about, answer :
        /\ ix = buildMixSettleInstruction(host, round, indices)
        /\ asked = <<indices>>
        /\ about = <<"settled", round>> /\ answer = <<>>
  OBVIOUS
<1>2. sendIx(host, ix, asked, about, answer)
  BY <1>1 DEF mixSettle
<1>3. Says(ix, asked)
  BY <1>1, MixSettleSays
<1>4. SignedBy(ix, host)
  BY <1>1, WhoSigns
<1>5. Answered(ix, answer) /\ Derived(about, answer)
  BY <1>1 DEF Answered, Derived
<1>6. QED
  BY <1>2, <1>3, <1>4, <1>5, FineCall

(* auditorRegister.                                                        *)
LEMMA AuditorRegisterIsFine ==
  ASSUME NEW admin, NEW mint, NEW pubkey \in Bytes \cup ShortBytes, NEW cooldown \in Int,
         auditorRegister(admin, mint, pubkey, cooldown)
  PROVE  \E call : Through(call)
<1>1. PICK ix, asked, about, answer :
        /\ ix = buildAuditorRegisterInstruction(admin, mint, pubkey, cooldown)
        /\ asked = <<pubkey, cooldown>>
        /\ about = <<"auditor", mint>> /\ answer = <<auditorPda(mint)>>
  OBVIOUS
<1>2. sendIx(admin, ix, asked, about, answer)
  BY <1>1 DEF auditorRegister
<1>3. Says(ix, asked)
  BY <1>1, AuditorRegisterSays DEF auditorRegister
<1>4. SignedBy(ix, admin)
  BY <1>1, WhoSigns
<1>5. Answered(ix, answer) /\ Derived(about, answer)
  <2>1. ix.name = "auditorRegister"
    BY <1>1 DEF buildAuditorRegisterInstruction, Instruction
  <2>2. CASE options.auditorOverride # NoKey
    <3>1. about[1] = "auditor"
      BY <1>1
    <3>2. about[1] \notin DerivedKinds
      BY <2>2, <3>1 DEF DerivedKinds
    <3>3. QED
      BY <2>1, <2>2, <3>2 DEF Answered, Derived
  <2>3. CASE options.auditorOverride = NoKey
    <3>1. answer = <<deriveAuditorPda(mint)>>
      BY <1>1, <2>3 DEF auditorPda
    <3>2. Mentions(ix, deriveAuditorPda(mint))
      BY <1>1, WhatIsMentioned
    <3>3. Derives(about, deriveAuditorPda(mint))
      BY <1>1 DEF Derives
    <3>4. QED
      BY <3>1, <3>2, <3>3 DEF Answered, Derived
  <2>4. QED
    BY <2>2, <2>3
<1>6. QED
  BY <1>2, <1>3, <1>4, <1>5, FineCall

(* auditorRotate.                                                          *)
LEMMA AuditorRotateIsFine ==
  ASSUME NEW admin, NEW mint, NEW pubkey \in Bytes \cup ShortBytes,
         auditorRotate(admin, mint, pubkey)
  PROVE  \E call : Through(call)
<1>1. PICK ix, asked, about, answer :
        /\ ix = buildAuditorRotateInstruction(admin, mint, pubkey)
        /\ asked = <<pubkey>>
        /\ about = <<"auditor", mint>> /\ answer = <<>>
  OBVIOUS
<1>2. sendIx(admin, ix, asked, about, answer)
  BY <1>1 DEF auditorRotate
<1>3. Says(ix, asked)
  BY <1>1, AuditorRotateSays
<1>4. SignedBy(ix, admin)
  BY <1>1, WhoSigns
<1>5. Answered(ix, answer) /\ Derived(about, answer)
  BY <1>1 DEF Answered, Derived
<1>6. QED
  BY <1>2, <1>3, <1>4, <1>5, FineCall

(* initialize.                                                             *)
LEMMA InitializeIsFine ==
  ASSUME NEW admin, NEW params \in InitParams,
         initialize(admin, params)
  PROVE  \E call : Through(call)
<1>1. PICK knobs, ix, asked, about, answer :
        /\ knobs = [k \in KnobNames |-> IF k \in DOMAIN params THEN params[k] ELSE DefaultKnobs[k]]
        /\ ix = buildInitializeInstruction(admin, knobs)
        /\ asked = <<knobs.dustFreeUnit, knobs.burnerTtlMin, knobs.burnerTtlMax,
                     knobs.burnerRegistryCap, knobs.mixMinParticipants,
                     knobs.mixMaxParticipants, knobs.mixRevealWindow,
                     knobs.auditorCosignLamports>>
        /\ about = <<"config">> /\ answer = <<deriveConfigPda>>
  OBVIOUS
<1>2. sendIx(admin, ix, asked, about, answer)
  BY <1>1 DEF initialize
<1>3. Says(ix, asked)
  <2>1. knobs \in [KnobNames -> Int]
    BY <1>1, GhosClientAssumption
  <2>2. /\ \A k \in {"dustFreeUnit", "auditorCosignLamports"} : U64Encodable(knobs[k])
        /\ \A k \in {"burnerTtlMin", "burnerTtlMax", "mixRevealWindow"} : I64Encodable(knobs[k])
    BY <1>1 DEF initialize
  <2>3. QED
    BY <1>1, <2>1, <2>2, InitializeSays
<1>4. SignedBy(ix, admin)
  BY <1>1, WhoSigns
<1>5. Answered(ix, answer) /\ Derived(about, answer)
  <2>1. Mentions(ix, deriveConfigPda)
    BY <1>1, WhatIsMentioned
  <2>2. Derives(about, deriveConfigPda)
    BY <1>1 DEF Derives
  <2>3. QED
    BY <1>1, <2>1, <2>2 DEF Answered, Derived
<1>6. QED
  BY <1>2, <1>3, <1>4, <1>5, FineCall

(* A set of natural numbers has a least one.                               *)
LEMMA LeastOfNaturals ==
  ASSUME NEW S, S \subseteq Nat, S # {}
  PROVE  \E i \in S : \A j \in S : i <= j
<1>1. PICK N : N = {n \in Nat : \A j \in S : n <= j}
  OBVIOUS
<1>2. 0 \in N /\ N \subseteq Nat
  BY <1>1
<1>3. SUFFICES ASSUME ~ \E i \in S : \A j \in S : i <= j
               PROVE  FALSE
  OBVIOUS
<1>4. ASSUME NEW n \in Nat, n \in N
      PROVE  n + 1 \in N
  <2>1. n \notin S
    BY <1>1, <1>3, <1>4
  <2>2. ASSUME NEW j \in S
        PROVE  n + 1 <= j
    BY <1>1, <1>4, <2>1, <2>2
  <2>3. QED
    BY <1>1, <2>2
<1>5. \A n \in Nat : n \in N
  BY <1>2, <1>4, NatInductionOnSets
<1>6. PICK j : j \in S
  OBVIOUS
<1>7. j + 1 \in N
  BY <1>5, <1>6
<1>8. QED
  BY <1>1, <1>6, <1>7

(* The field that an update picks is one that is given.                    *)
LEMMA FieldsArePicked ==
  ASSUME NEW params \in Updates, DOMAIN params # {}
  PROVE  pickFieldFromUpdate(params) \in DOMAIN params
<1>1. PICK given : given = {i \in DOMAIN FieldOrder : FieldOrder[i] \in DOMAIN params}
  OBVIOUS
<1>2. given \subseteq Nat
  <2>1. DOMAIN FieldOrder = 1 .. 9
    BY DEF FieldOrder
  <2>2. QED
    BY <1>1, <2>1
<1>3. given # {}
  <2>1. PICK k : k \in DOMAIN params /\ k \in KnobNames \cup {"paused"}
    BY GhosClientAssumption
  <2>2. \E i \in DOMAIN FieldOrder : FieldOrder[i] = k
    BY <2>1 DEF FieldOrder, KnobNames
  <2>3. QED
    BY <1>1, <2>1, <2>2
<1>4. \E i \in given : \A j \in given : i <= j
  BY <1>2, <1>3, LeastOfNaturals
<1>5. PICK i : i = CHOOSE n \in given : \A j \in given : n <= j
  OBVIOUS
<1>6. i \in given
  BY <1>4, <1>5
<1>7. pickFieldFromUpdate(params) = FieldOrder[i]
  BY <1>1, <1>5 DEF pickFieldFromUpdate
<1>8. QED
  BY <1>1, <1>6, <1>7

(* configUpdate.                                                           *)
LEMMA ConfigUpdateIsFine ==
  ASSUME NEW admin, NEW params \in Updates,
         configUpdate(admin, params)
  PROVE  \E call : Through(call)
<1>1. PICK field, type, v :
        /\ field = pickFieldFromUpdate(params) /\ type = FieldType(field) /\ v = params[field]
  OBVIOUS
<1>2. PICK w, ix, asked, about, answer :
        /\ w = Only(type, v)
        /\ ix = buildConfigUpdateInstruction(admin, field, w)
        /\ asked = <<CONFIG_FIELD_CODES[field], w.u64, w.i64, w.bool, w.u16, w.u8>>
        /\ about = <<"config">> /\ answer = <<>>
  OBVIOUS
<1>3. sendIx(admin, ix, asked, about, answer)
  BY <1>1, <1>2 DEF configUpdate
<1>4. field \in DOMAIN params
  BY <1>1, FieldsArePicked DEF configUpdate
<1>5. field \in KnobNames \cup {"paused"} /\ IF field = "paused" THEN v \in BOOLEAN ELSE v \in Int
  BY <1>1, <1>4, GhosClientAssumption
<1>6. field \in DOMAIN CONFIG_FIELD_CODES
  BY <1>5 DEF KnobNames, CONFIG_FIELD_CODES
<1>7. type \in KnobTypes /\ (type = "bool" <=> field = "paused")
  BY <1>1, <1>5 DEF FieldType, KnobTypes, KnobNames
<1>8. Fits(type, v)
  <2>1. (type = "u64" => U64Encodable(v)) /\ (type = "i64" => I64Encodable(v))
    BY <1>1 DEF configUpdate
  <2>2. QED
    BY <1>5, <1>7, <2>1 DEF Fits
<1>9. Says(ix, asked)
  BY <1>2, <1>6, <1>7, <1>8, ConfigUpdateSays
<1>10. SignedBy(ix, admin)
  BY <1>2, WhoSigns
<1>11. Answered(ix, answer) /\ Derived(about, answer)
  BY <1>2 DEF Answered, Derived
<1>12. QED
  BY <1>3, <1>9, <1>10, <1>11, FineCall

-----------------------------------------------------------------------------
(* Every call of the client's is a fine one.                               *)
LEMMA CallsAreFine ==
  ASSUME ClientNext
  PROVE  \E call : Through(call)
<1>0. /\ Amounts \subseteq Int /\ Nonces \subseteq Int /\ Ttls \subseteq Int
      /\ Indices \subseteq Int /\ Capacities \subseteq Int
      /\ DefaultWindow \in Int /\ DefaultCooldown \in Int
  BY GhosClientAssumption
<1>1. ASSUME NEW who, NEW params \in InitParams, initialize(who, params)
      PROVE  \E call : Through(call)
  BY <1>1, InitializeIsFine
<1>2. ASSUME NEW who, NEW params \in Updates, configUpdate(who, params)
      PROVE  \E call : Through(call)
  BY <1>2, ConfigUpdateIsFine
<1>3. ASSUME NEW who, NEW mint, NEW amount \in Amounts, NEW ata, shield(who, mint, amount, ata)
      PROVE  \E call : Through(call)
  BY <1>0, <1>3, ShieldIsFine
<1>4. ASSUME NEW who, NEW mint, NEW amount \in Amounts, NEW ata, NEW cosigned \in BOOLEAN,
             withdraw(who, mint, amount, ata, cosigned)
      PROVE  \E call : Through(call)
  BY <1>0, <1>4, WithdrawIsFine
<1>5. ASSUME NEW who, NEW mint, NEW amount, NEW ctx, NEW handles \in Handles, NEW b \in Bytes,
             confidentialTransfer(who, mint, amount, ctx, handles, <<b, b, b, b>>)
      PROVE  \E call : Through(call)
  <2>1. PICK h1, h2 : h1 \in Int /\ h2 \in Int /\ handles = <<h1, h2>>
    BY GhosClientAssumption
  <2>2. QED
    BY <1>5, <2>1, TransferIsFine
<1>6. ASSUME NEW who, NEW mint, applyPending(who, mint)
      PROVE  \E call : Through(call)
  BY <1>6, ApplyPendingIsFine
<1>7. ASSUME NEW who, NEW key \in Bytes, NEW nonce \in Nonces, NEW ttl \in Ttls,
             createBurner(who, key, nonce, ttl)
      PROVE  \E call : Through(call)
  BY <1>0, <1>7, CreateBurnerIsFine
<1>8. ASSUME NEW who, NEW entry, destroyBurner(who, entry)
      PROVE  \E call : Through(call)
  BY <1>8, DestroyBurnerIsFine
<1>9. ASSUME NEW who, NEW mint, NEW nonce \in Nonces, NEW amount \in Amounts,
             NEW capacity \in Capacities, mixInit(who, mint, nonce, amount, capacity,
             DefaultWindow)
      PROVE  \E call : Through(call)
  BY <1>0, <1>9, MixInitIsFine
<1>10. ASSUME NEW who, NEW round, NEW bytes \in Bytes \cup ShortBytes, NEW index \in Indices,
              mixCommit(who, round, bytes, index)
       PROVE  \E call : Through(call)
  BY <1>0, <1>10, MixCommitIsFine
<1>11. ASSUME NEW who, NEW round, NEW bytes \in Bytes \cup ShortBytes, NEW salt \in Bytes,
              mixReveal(who, round, bytes, salt)
       PROVE  \E call : Through(call)
  BY <1>11, MixRevealIsFine
<1>12. ASSUME NEW who, NEW round, NEW indices \in IndexLists, mixSettle(who, round, indices)
       PROVE  \E call : Through(call)
  BY <1>12, MixSettleIsFine, GhosClientAssumption
<1>13. ASSUME NEW who, NEW mint, NEW pubkey \in Bytes \cup ShortBytes,
              NEW cooldown \in Ttls \cup {DefaultCooldown},
              auditorRegister(who, mint, pubkey, cooldown)
       PROVE  \E call : Through(call)
  BY <1>0, <1>13, AuditorRegisterIsFine
<1>14. ASSUME NEW who, NEW mint, NEW pubkey \in Bytes \cup ShortBytes,
              auditorRotate(who, mint, pubkey)
       PROVE  \E call : Through(call)
  BY <1>14, AuditorRotateIsFine
<1>15. QED
  BY <1>1, <1>2, <1>3, <1>4, <1>5, <1>6, <1>7, <1>8, <1>9, <1>10, <1>11, <1>12, <1>13, <1>14,
     Zenon DEF ClientNext

-----------------------------------------------------------------------------
(***************************************************************************)
(* The calls so far are fine ones.                                         *)
(***************************************************************************)
ClientInv ==
  /\ \E T : calls \in Seq(T)
  /\ \A k \in 1 .. Len(calls) : Fine(calls[k])

(* A fine call stays fine.                                                 *)
LEMMA FineStays ==
  ASSUME NEW call, Fine(call), UNCHANGED options
  PROVE  Fine(call)'
BY DEF Fine, SaysWhatWasAsked, SignedAndNamed, Derived, DerivedKinds

(* Another call leaves the ones before it as they were.                    *)
LEMMA ClientInductive == ClientInv /\ [ClientNext]_clientVars => ClientInv'
<1> SUFFICES ASSUME ClientInv, [ClientNext]_clientVars PROVE ClientInv'
  OBVIOUS
<1>1. PICK T : calls \in Seq(T)
  BY DEF ClientInv
<1>2. CASE ClientNext
  <2>1. PICK call : Through(call)
    BY <1>2, CallsAreFine
  <2>2. calls' = Append(calls, call) /\ UNCHANGED options /\ Fine(call)
    BY <2>1 DEF Through
  <2>3. PICK U : U = T \cup {call}
    OBVIOUS
  <2>4. calls \in Seq(U) /\ call \in U
    <3>1. call \in U /\ T \subseteq U
      BY <2>3
    <3>2. calls \in Seq(U)
      BY <1>1, <3>1
    <3>3. QED
      BY <3>1, <3>2
  <2>5. /\ calls' \in Seq(U) /\ Len(calls') = Len(calls) + 1
        /\ \A k \in 1 .. Len(calls) : calls'[k] = calls[k]
        /\ calls'[Len(calls) + 1] = call
    BY <2>2, <2>4, AppendProperties
  <2>6. ASSUME NEW k \in 1 .. Len(calls')
        PROVE  Fine(calls[k])'
    <3>1. PICK c : c = calls'[k]
      OBVIOUS
    <3>2. Fine(c)
      <4>1. Len(calls) \in Nat
        BY <1>1, LenProperties
      <4>2. CASE k = Len(calls) + 1
        BY <2>2, <2>5, <3>1, <4>2
      <4>3. CASE k # Len(calls) + 1
        <5>1. k \in 1 .. Len(calls)
          BY <2>5, <4>1, <4>3
        <5>2. c = calls[k]
          BY <2>5, <3>1, <5>1
        <5>3. QED
          BY <5>1, <5>2 DEF ClientInv
      <4>4. QED
        BY <4>2, <4>3
    <3>3. Fine(c)'
      BY <2>2, <3>2, FineStays
    <3>4. QED
      BY <3>1, <3>3, SMTT(60) DEF Fine, SaysWhatWasAsked, SignedAndNamed, Derived, DerivedKinds
  <2>7. QED
    BY <2>5, <2>6 DEF ClientInv
<1>3. CASE UNCHANGED clientVars
  <2>1. calls' = calls /\ UNCHANGED options
    BY <1>3 DEF clientVars
  <2>2. ASSUME NEW k \in 1 .. Len(calls')
        PROVE  Fine(calls[k])'
    <3>1. PICK c : c = calls'[k]
      OBVIOUS
    <3>2. Fine(c)
      BY <2>1, <3>1 DEF ClientInv
    <3>3. Fine(c)'
      BY <2>1, <3>2, FineStays
    <3>4. QED
      BY <3>1, <3>3, SMTT(60) DEF Fine, SaysWhatWasAsked, SignedAndNamed, Derived, DerivedKinds
  <2>3. QED
    BY <2>1, <2>2, <1>1 DEF ClientInv
<1>4. QED
  BY <1>2, <1>3

(* Every call that the client answered is a fine one.                      *)
THEOREM ClientInvariant == ClientSpec => []ClientInv
<1>1. ClientInit => ClientInv
  <2> SUFFICES ASSUME ClientInit PROVE ClientInv
    OBVIOUS
  <2>1. calls = <<>>
    BY DEF ClientInit
  <2>2. calls \in Seq({}) /\ Len(calls) = 0
    BY <2>1
  <2>3. 1 .. Len(calls) = {}
    BY <2>2
  <2>4. QED
    BY <2>2, <2>3 DEF ClientInv
<1>2. QED
  BY <1>1, ClientInductive, PTL DEF ClientSpec

(* So is the last one.                                                     *)
LEMMA LastOne ==
  ASSUME ClientInv, NEW a \in LastCall
  PROVE  Fine(a)
<1>1. PICK T : calls \in Seq(T)
  BY DEF ClientInv
<1>2. calls # <<>> /\ a = calls[Len(calls)]
  BY DEF LastCall, Last
<1>3. Len(calls) \in Nat /\ Len(calls) # 0
  BY <1>1, <1>2
<1>4. Len(calls) \in 1 .. Len(calls)
  BY <1>3
<1>5. QED
  BY <1>2, <1>4 DEF ClientInv

(* What the IDL reads in every instruction is what its caller asked for.   *)
THEOREM WireIsReadBack == ClientSpec => []TheWireSaysWhatWasAsked
<1>1. ClientInv => TheWireSaysWhatWasAsked
  BY LastOne DEF TheWireSaysWhatWasAsked, Fine
<1>2. QED
  BY <1>1, ClientInvariant, PTL

(* Every transaction is signed by the payer and by whoever its instruction *)
(* says signs, and its answer is an account of the instruction.            *)
THEOREM TransactionsAreSigned == ClientSpec => []TransactionsAreSignedAndNamed
<1>1. ClientInv => TransactionsAreSignedAndNamed
  BY LastOne DEF TransactionsAreSignedAndNamed, Fine
<1>2. QED
  BY <1>1, ClientInvariant, PTL

(* One address that the client derives stands for one thing.               *)
THEOREM AddressesAreApart == ClientSpec => []AddressesTellCallsApart
<1>1. ClientInv => AddressesTellCallsApart
  <2> SUFFICES ASSUME ClientInv, NEW a \in LastCall, NEW k \in DOMAIN calls,
                      {a.about[1], calls[k].about[1]} \subseteq DerivedKinds,
                      a.answer # <<>>, a.answer = calls[k].answer
               PROVE  Unsigned(a.about) = Unsigned(calls[k].about)
    BY DEF AddressesTellCallsApart
  <2>1. PICK T : calls \in Seq(T)
    BY DEF ClientInv
  <2>2. k \in 1 .. Len(calls)
    BY <2>1, LenProperties
  <2>3. PICK b : b = calls[k] /\ Fine(b)
    BY <2>2 DEF ClientInv
  <2>4. PICK x : a.answer = <<x>> /\ Derives(a.about, x)
    BY LastOne DEF Fine, Derived
  <2>5. PICK y : b.answer = <<y>> /\ Derives(b.about, y)
    BY <2>3 DEF Fine, Derived
  <2>6. x = y
    <3>1. PICK t : t = a.answer /\ t = <<x>> /\ t = <<y>>
      BY <2>3, <2>4, <2>5
    <3>2. t[1] = x /\ t[1] = y
      BY <3>1
    <3>3. QED
      BY <3>2
  <2>7. Unsigned(a.about) = Unsigned(b.about)
    BY <2>4, <2>5, <2>6, DerivedApart
  <2>8. QED
    BY <2>3, <2>7
<1>2. QED
  BY <1>1, ClientInvariant, PTL

-----------------------------------------------------------------------------
(***************************************************************************)
(* The deployment that goes before the calls.                              *)
(***************************************************************************)
ScriptStep == {"idle", "check", "init", "rpc", "confirm", "found", "created"}

Summary ==
  [by : Operators, run : 0 .. MaxRuns, waited : {"processed", "confirmed"},
   admin : Operators, version : Versions, alreadyInitialized : BOOLEAN]

DeployTypeOK ==
  /\ program \in Versions
  /\ account \in {NoConfig} \cup [admin : Operators, version : Versions]
  /\ step \in [Operators -> ScriptStep]
  /\ runs \in [Operators -> 0 .. MaxRuns]
  /\ waits \in [Operators -> {"processed", "confirmed"}]
  /\ fates \in [Transactions -> DeployFate]
  /\ summaries \subseteq Summary

Landing(t) == fates[t] = "landed"

(* `init` creates the account once.                                         *)
OneLanding ==
  /\ \A s, t \in Transactions : Landing(s) /\ Landing(t) => s = t
  /\ \A t \in Transactions : Landing(t) => account # NoConfig

(* A script that found no account goes on to find none, or one that the    *)
(* program of today wrote; where its provider waits for `confirmed`, it    *)
(* gets past rpc() with its transaction landed.                             *)
ScriptFollows(o) ==
  /\ step[o] # "idle" => runs[o] \in 1 .. MaxRuns
  /\ step[o] \in {"init", "rpc", "confirm", "created"} =>
       account = NoConfig \/ account.version = program
  /\ step[o] \in {"confirm", "created"} /\ waits[o] = "confirmed" => Landing(<<o, runs[o]>>)

(* A run that has printed its summary is over.                              *)
SummaryIsEarned(s) ==
  /\ s.version = EXPECTED_VERSION
  /\ s.run < runs[s.by] \/ (s.run = runs[s.by] /\ step[s.by] = "idle")
  /\ s.run \in 1 .. MaxRuns
  /\ ~s.alreadyInitialized => program = EXPECTED_VERSION
  /\ ~s.alreadyInitialized /\ s.waited = "confirmed" => Landing(<<s.by, s.run>>)

ClaimsAreEarned ==
  /\ \A o \in Operators : ScriptFollows(o)
  /\ \A s \in summaries : SummaryIsEarned(s)
  /\ \A s, t \in summaries : s.by = t.by /\ s.run = t.run => s = t

DeployInv == DeployTypeOK /\ OneLanding /\ ClaimsAreEarned

(* Nothing was sent, landed or printed; the account may be there already.   *)
LEMMA InitDeployInv == DeployInit => DeployInv
<1> SUFFICES ASSUME DeployInit PROVE DeployInv
  OBVIOUS
<1>1. DeployTypeOK
  BY DeployAssumption DEF DeployInit, DeployTypeOK, ScriptStep, DeployFate
<1>2. OneLanding /\ ClaimsAreEarned
  BY DEF DeployInit, OneLanding, ClaimsAreEarned, ScriptFollows, Landing
<1>3. QED
  BY <1>1, <1>2 DEF DeployInv

(* What a transaction comes to moves its fate, and no landing is undone.    *)
LEMMA FateMoves ==
  ASSUME DeployTypeOK, NEW t \in Transactions, NEW from \in DeployFate \ {"landed"},
         NEW to \in DeployFate, Turns(t, from, to)
  PROVE  /\ fates' \in [Transactions -> DeployFate]
         /\ \A u \in Transactions : Landing(u)' <=> Landing(u) \/ (u = t /\ to = "landed")
BY DEF DeployTypeOK, Turns, Landing

(* The steps of the script that print nothing: the run goes on, or a new one *)
(* begins, and what was printed and what landed stays.                      *)
LEMMA QuietStep ==
  ASSUME DeployInv, NEW o \in Operators, NEW s \in ScriptStep, Goto(o, s),
         UNCHANGED <<account, program, summaries>>,
         fates' \in [Transactions -> DeployFate],
         \A t \in Transactions : Landing(t)' <=> Landing(t),
         \/ UNCHANGED <<runs, waits>> /\ step[o] # "idle"
         \/ /\ step[o] = "idle" /\ runs[o] < MaxRuns /\ runs' = [runs EXCEPT ![o] = @ + 1]
            /\ s = "check"
            /\ \E w \in {"processed", "confirmed"} : waits' = [waits EXCEPT ![o] = w],
         s \in {"init", "rpc", "confirm", "created"} =>
           account = NoConfig \/ account.version = program,
         s \in {"confirm", "created"} /\ waits[o] = "confirmed" => Landing(<<o, runs[o]>>)
  PROVE  DeployInv'
<1>1. DeployTypeOK /\ OneLanding /\ ClaimsAreEarned
  BY DEF DeployInv
<1>2. /\ step'[o] = s /\ \A p \in Operators \ {o} : step'[p] = step[p]
      /\ \A p \in Operators \ {o} : runs'[p] = runs[p] /\ waits'[p] = waits[p]
      /\ runs'[o] \in {runs[o], runs[o] + 1}
      /\ step[o] = "idle" => runs'[o] = runs[o] + 1 /\ s = "check"
      /\ step[o] # "idle" => runs'[o] = runs[o] /\ waits'[o] = waits[o]
  BY <1>1 DEF Goto, DeployTypeOK
<1>3. /\ runs \in [Operators -> Nat] /\ runs' \in [Operators -> 0 .. MaxRuns]
      /\ \A t \in summaries : t.by \in Operators /\ t.run \in Nat
  BY <1>1, DeployAssumption DEF DeployTypeOK, Summary
<1>4. DeployTypeOK'
  <2>1. step' \in [Operators -> ScriptStep]
    BY <1>1 DEF DeployTypeOK, Goto
  <2>2. waits' \in [Operators -> {"processed", "confirmed"}]
    BY <1>1 DEF DeployTypeOK
  <2>3. QED
    BY <1>1, <1>3, <2>1, <2>2 DEF DeployTypeOK
<1>5. OneLanding'
  BY <1>1 DEF OneLanding
<1>6. ASSUME NEW p \in Operators PROVE ScriptFollows(p)'
  <2>1. ScriptFollows(p)
    BY <1>1 DEF ClaimsAreEarned
  <2>2. /\ runs'[p] \in 0 .. MaxRuns /\ runs[p] \in 0 .. MaxRuns
        /\ step[p] # "idle" => <<p, runs[p]>> \in Transactions
    BY <1>1, <1>3, <2>1 DEF DeployTypeOK, ScriptFollows, Transactions
  <2>3. CASE p # o
    BY <1>2, <2>1, <2>2, <2>3 DEF ScriptFollows
  <2>4. CASE p = o
    <3>1. step'[p] # "idle" => runs'[p] \in 1 .. MaxRuns
      BY <1>2, <2>1, <2>2, <2>4, DeployAssumption DEF ScriptFollows
    <3>2. step'[p] \in {"confirm", "created"} /\ waits'[p] = "confirmed" =>
            Landing(<<p, runs[p]>>) /\ runs'[p] = runs[p] /\ step[p] # "idle"
      BY <1>2, <2>4
    <3>3. QED
      BY <1>2, <2>2, <2>4, <3>1, <3>2 DEF ScriptFollows
  <2>5. QED
    BY <2>3, <2>4
<1>7. ASSUME NEW t \in summaries' PROVE SummaryIsEarned(t)'
  <2>1. t \in summaries /\ t.by \in Operators /\ t.run \in Nat /\ runs[t.by] \in Nat
    BY <1>3, <1>7
  <2>2. SummaryIsEarned(t) /\ <<t.by, t.run>> \in Transactions
    BY <1>1, <2>1 DEF ClaimsAreEarned, SummaryIsEarned, Transactions
  <2>3. t.run < runs'[t.by] \/ (t.run = runs'[t.by] /\ step'[t.by] = "idle")
    <3>1. t.run < runs[t.by] \/ (t.run = runs[t.by] /\ step[t.by] = "idle")
      BY <2>2 DEF SummaryIsEarned
    <3>2. CASE t.by = o
      BY <1>2, <2>1, <3>1, <3>2
    <3>3. CASE t.by # o
      BY <1>2, <2>1, <3>1, <3>3
    <3>4. QED
      BY <3>2, <3>3
  <2>4. QED
    BY <2>2, <2>3 DEF SummaryIsEarned
<1>8. QED
  BY <1>1, <1>4, <1>5, <1>6, <1>7 DEF DeployInv, ClaimsAreEarned

(* The steps of the cluster that leave the account alone: a transaction is  *)
(* executed on a fork, dropped with it or lost.                            *)
LEMMA ClusterStep ==
  ASSUME DeployInv, UNCHANGED <<account, program, step, runs, waits, summaries>>,
         fates' \in [Transactions -> DeployFate],
         \A t \in Transactions : Landing(t)' <=> Landing(t)
  PROVE  DeployInv'
<1>1. DeployTypeOK /\ OneLanding /\ ClaimsAreEarned
  BY DEF DeployInv
<1>2. DeployTypeOK' /\ OneLanding'
  BY <1>1 DEF DeployTypeOK, OneLanding
<1>3. ASSUME NEW o \in Operators PROVE ScriptFollows(o)'
  <2>1. ScriptFollows(o) /\ (step[o] # "idle" => <<o, runs[o]>> \in Transactions)
    BY <1>1 DEF ClaimsAreEarned, ScriptFollows, Transactions
  <2>2. QED
    BY <2>1 DEF ScriptFollows
<1>4. ASSUME NEW s \in summaries' PROVE SummaryIsEarned(s)'
  <2>1. SummaryIsEarned(s) /\ <<s.by, s.run>> \in Transactions
    BY <1>1, <1>4 DEF ClaimsAreEarned, SummaryIsEarned, Transactions, DeployTypeOK, Summary
  <2>2. QED
    BY <2>1 DEF SummaryIsEarned
<1>5. QED
  BY <1>1, <1>2, <1>3, <1>4 DEF DeployInv, ClaimsAreEarned

(* initialize lands, where no account is and so none has landed before.     *)
LEMMA LandingStep ==
  ASSUME DeployInv, NEW t \in Transactions, Initialize(t)
  PROVE  DeployInv'
<1>1. DeployTypeOK /\ OneLanding /\ ClaimsAreEarned
  BY DEF DeployInv
<1>2. /\ fates' \in [Transactions -> DeployFate]
      /\ \A u \in Transactions : Landing(u)' <=> Landing(u) \/ u = t
  BY <1>1, FateMoves DEF Initialize, DeployFate
<1>3. t[1] \in Operators
  BY DEF Transactions
<1>4. /\ account' \in [admin : Operators, version : Versions] /\ account'.version = program
      /\ account' # NoConfig /\ UNCHANGED <<program, step, runs, waits, summaries>>
  BY <1>1, <1>3, DeployAssumption DEF DeployTypeOK, Initialize
<1>5. DeployTypeOK'
  BY <1>1, <1>2, <1>4 DEF DeployTypeOK
<1>6. OneLanding'
  BY <1>1, <1>2, <1>4 DEF OneLanding, Initialize
<1>7. ASSUME NEW o \in Operators PROVE ScriptFollows(o)'
  <2>1. ScriptFollows(o) /\ (step[o] # "idle" => <<o, runs[o]>> \in Transactions)
    BY <1>1 DEF ClaimsAreEarned, ScriptFollows, Transactions
  <2>2. QED
    BY <1>2, <1>4, <2>1 DEF ScriptFollows
<1>8. ASSUME NEW s \in summaries' PROVE SummaryIsEarned(s)'
  <2>1. SummaryIsEarned(s) /\ <<s.by, s.run>> \in Transactions
    BY <1>1, <1>4, <1>8 DEF ClaimsAreEarned, SummaryIsEarned, Transactions, DeployTypeOK, Summary
  <2>2. QED
    BY <1>2, <1>4, <2>1 DEF SummaryIsEarned
<1>9. QED
  BY <1>1, <1>4, <1>5, <1>6, <1>7, <1>8 DEF DeployInv, ClaimsAreEarned

(* A handover keeps the version.                                            *)
LEMMA HandOverStep ==
  ASSUME DeployInv, NEW a \in Operators, HandOver(a)
  PROVE  DeployInv'
<1>1. DeployTypeOK /\ OneLanding /\ ClaimsAreEarned
  BY DEF DeployInv
<1>2. /\ account' \in [admin : Operators, version : Versions]
      /\ account # NoConfig /\ account'.version = account.version
      /\ UNCHANGED <<program, step, runs, waits, fates, summaries>>
  BY <1>1 DEF DeployTypeOK, HandOver
<1>3. account' # NoConfig
  BY <1>2, DeployAssumption
<1>4. DeployTypeOK' /\ OneLanding'
  BY <1>1, <1>2, <1>3 DEF DeployTypeOK, OneLanding, Landing
<1>5. ClaimsAreEarned'
  BY <1>1, <1>2, <1>3 DEF ClaimsAreEarned, ScriptFollows, SummaryIsEarned, Landing
<1>6. QED
  BY <1>4, <1>5 DEF DeployInv

(* main prints what it reads, once, and the run is over.                    *)
LEMMA ReadBackStep ==
  ASSUME DeployInv, NEW o \in Operators, ReadBack(o)
  PROVE  DeployInv'
<1>0. PICK new : new = [by |-> o, run |-> runs[o], waited |-> waits[o],
                        admin |-> account.admin, version |-> account.version,
                        alreadyInitialized |-> step[o] = "found"]
  OBVIOUS
<1>1. DeployTypeOK /\ OneLanding /\ ClaimsAreEarned
  BY DEF DeployInv
<1>2. /\ step[o] \in {"found", "created"} /\ account # NoConfig
      /\ account.version = EXPECTED_VERSION
      /\ summaries' = summaries \cup {new}
      /\ step' = [step EXCEPT ![o] = "idle"]
      /\ UNCHANGED <<account, program, runs, waits, fates>>
  BY <1>0, Zenon DEF ReadBack, Goto
<1>3. new.by = o /\ new.run = runs[o] /\ new.version = account.version /\ new.waited = waits[o]
  BY <1>0
<1>4. ~new.alreadyInitialized => step[o] = "created"
  BY <1>0, <1>2, Zenon
<1>5. ScriptFollows(o) /\ runs[o] \in 1 .. MaxRuns
  BY <1>1, <1>2 DEF ClaimsAreEarned, ScriptFollows
<1>6. new \in Summary
  <2>1. /\ account.admin \in Operators /\ account.version \in Versions
        /\ runs[o] \in 0 .. MaxRuns /\ waits[o] \in {"processed", "confirmed"}
    BY <1>1, <1>2 DEF DeployTypeOK
  <2>2. (step[o] = "found") \in BOOLEAN
    OBVIOUS
  <2>3. QED
    BY <1>0, <2>1, <2>2, Zenon DEF Summary
<1>7. /\ step'[o] = "idle" /\ \A p \in Operators \ {o} : step'[p] = step[p]
  BY <1>1, <1>2 DEF DeployTypeOK
<1>8. /\ runs[o] \in Nat
      /\ \A s \in summaries : s.by \in Operators /\ s.run \in Nat /\ runs[s.by] \in Nat
  BY <1>1, DeployAssumption DEF DeployTypeOK, Summary
<1>9. DeployTypeOK'
  <2>1. step' \in [Operators -> ScriptStep]
    BY <1>1, <1>2 DEF DeployTypeOK, ScriptStep
  <2>2. summaries' \subseteq Summary
    BY <1>1, <1>2, <1>6 DEF DeployTypeOK
  <2>3. QED
    BY <1>1, <1>2, <2>1, <2>2 DEF DeployTypeOK
<1>10. OneLanding'
  BY <1>1, <1>2 DEF OneLanding, Landing
<1>11. ASSUME NEW p \in Operators PROVE ScriptFollows(p)'
  <2>1. ScriptFollows(p)
    BY <1>1 DEF ClaimsAreEarned
  <2>2. QED
    BY <1>2, <1>7, <2>1 DEF ScriptFollows, Landing
<1>12. SummaryIsEarned(new)'
  <2>1. new.version = EXPECTED_VERSION /\ new.run = runs'[new.by] /\ step'[new.by] = "idle"
    BY <1>2, <1>3, <1>7
  <2>2. step[o] = "created" =>
          /\ program' = EXPECTED_VERSION
          /\ waits[o] = "confirmed" => Landing(<<o, runs[o]>>)'
    BY <1>2, <1>5 DEF ScriptFollows, Landing
  <2>3. ~new.alreadyInitialized =>
          /\ program' = EXPECTED_VERSION
          /\ new.waited = "confirmed" => Landing(<<new.by, new.run>>)'
    <3>1. CASE new.alreadyInitialized
      BY <3>1
    <3>2. CASE ~new.alreadyInitialized
      BY <1>2, <1>3, <1>4, <2>2, <3>2 DEF Landing
    <3>3. QED
      BY <3>1, <3>2
  <2>4. new.run \in 1 .. MaxRuns
    BY <1>3, <1>5
  <2>5. QED
    BY <2>1, <2>3, <2>4, Zenon DEF SummaryIsEarned
<1>13. ASSUME NEW s \in summaries PROVE SummaryIsEarned(s)' /\ ~(s.by = o /\ s.run = runs[o])
  <2>1. SummaryIsEarned(s)
    BY <1>1, <1>13 DEF ClaimsAreEarned
  <2>2. s.run < runs[s.by] \/ (s.run = runs[s.by] /\ step[s.by] = "idle")
    BY <2>1 DEF SummaryIsEarned
  <2>3. s.run < runs'[s.by] \/ (s.run = runs'[s.by] /\ step'[s.by] = "idle")
    BY <1>2, <1>7, <1>8, <1>13, <2>2
  <2>4. ~(s.by = o /\ s.run = runs[o])
    BY <1>2, <1>8, <2>2
  <2>5. SummaryIsEarned(s)'
    BY <1>2, <2>1, <2>3, Zenon DEF SummaryIsEarned, Landing
  <2>6. QED
    BY <2>4, <2>5
<1>14. \A s, t \in summaries \cup {new} : s.by = t.by /\ s.run = t.run => s = t
  BY <1>1, <1>3, <1>13 DEF ClaimsAreEarned
<1>15. ClaimsAreEarned'
  BY <1>2, <1>11, <1>12, <1>13, <1>14 DEF ClaimsAreEarned
<1>16. QED
  BY <1>9, <1>10, <1>15 DEF DeployInv

(* The steps of the script, the cluster and the admin, one by one.          *)
LEMMA StepKeepsDeployInv == DeployInv /\ [DeployNext]_deployVars => DeployInv'
<1> SUFFICES ASSUME DeployInv, [DeployNext]_deployVars PROVE DeployInv'
  OBVIOUS
<1>1. DeployTypeOK /\ \A o \in Operators : ScriptFollows(o)
  BY DEF DeployInv, ClaimsAreEarned
<1>2. UNCHANGED fates => /\ fates' \in [Transactions -> DeployFate]
                         /\ \A t \in Transactions : Landing(t)' <=> Landing(t)
  BY <1>1 DEF DeployTypeOK, Landing
<1>3. ASSUME NEW o \in Operators, Run(o) PROVE DeployInv'
  BY <1>2, <1>3, QuietStep DEF Run, ScriptStep
<1>4. ASSUME NEW o \in Operators, Check(o) PROVE DeployInv'
  <2>1. CASE account = NoConfig
    <3>1. Goto(o, "init")
      BY <1>4, <2>1 DEF Check
    <3>2. QED
      BY <1>2, <1>4, <2>1, <3>1, QuietStep DEF Check, ScriptStep
  <2>2. CASE account # NoConfig
    <3>1. Goto(o, "found")
      BY <1>4, <2>2 DEF Check
    <3>2. QED
      BY <1>2, <1>4, <3>1, QuietStep DEF Check, ScriptStep
  <2>3. QED
    BY <2>1, <2>2
<1>5. ASSUME NEW o \in Operators, SendInitialize(o) PROVE DeployInv'
  <2>1. ScriptFollows(o) /\ step[o] = "init" /\ <<o, runs[o]>> \in Transactions
    BY <1>1, <1>5 DEF SendInitialize, ScriptFollows, Transactions
  <2>2. /\ fates' \in [Transactions -> DeployFate]
        /\ \A t \in Transactions : Landing(t)' <=> Landing(t)
    BY <1>1, <1>5, <2>1, FateMoves DEF SendInitialize, DeployFate
  <2>3. QED
    BY <1>5, <2>1, <2>2, QuietStep DEF SendInitialize, ScriptFollows, ScriptStep
<1>6. ASSUME NEW o \in Operators, RpcReturns(o) PROVE DeployInv'
  <2>1. ScriptFollows(o) /\ step[o] = "rpc"
    BY <1>1, <1>6 DEF RpcReturns
  <2>2. waits[o] = "confirmed" => Landing(<<o, runs[o]>>)
    BY <1>6 DEF RpcReturns, ReachedCommitment, Fate, Landing
  <2>3. QED
    BY <1>2, <1>6, <2>1, <2>2, QuietStep DEF RpcReturns, ScriptFollows, ScriptStep
<1>7. ASSUME NEW o \in Operators, ConfirmReturns(o) PROVE DeployInv'
  <2>1. ScriptFollows(o) /\ step[o] = "confirm"
    BY <1>1, <1>7 DEF ConfirmReturns
  <2>2. QED
    BY <1>2, <1>7, <2>1, QuietStep DEF ConfirmReturns, ScriptFollows, ScriptStep
<1>8. ASSUME NEW o \in Operators, Die(o) PROVE DeployInv'
  BY <1>2, <1>8, QuietStep DEF Die, ScriptStep
<1>9. ASSUME NEW t \in Transactions,
             ProcessInitialize(t) \/ DropInitialize(t) \/ LoseInitialize(t)
      PROVE  DeployInv'
  <2>1. \E from \in {"pending", "processed"}, to \in DeployFate \ {"landed"} : Turns(t, from, to)
    BY <1>9 DEF ProcessInitialize, DropInitialize, LoseInitialize, DeployFate
  <2>2. /\ fates' \in [Transactions -> DeployFate]
        /\ \A u \in Transactions : Landing(u)' <=> Landing(u)
    BY <1>1, <2>1, FateMoves DEF DeployFate
  <2>3. UNCHANGED <<account, program, step, runs, waits, summaries>>
    BY <1>9 DEF ProcessInitialize, DropInitialize, LoseInitialize
  <2>4. QED
    BY <2>2, <2>3, ClusterStep
<1>10. CASE UNCHANGED deployVars
  BY <1>2, <1>10, ClusterStep DEF deployVars
<1>11. QED
  BY <1>3, <1>4, <1>5, <1>6, <1>7, <1>8, <1>9, <1>10, LandingStep, HandOverStep, ReadBackStep
  DEF DeployNext

(***************************************************************************)
(* Two claims of runs that waited for `confirmed` come from one landing,   *)
(* so from one run, which prints once; and a claim is one of a run that    *)
(* found no account.                                                       *)
(***************************************************************************)
THEOREM ClaimsCorrect == DeploySpec => []ConfirmedClaimsAreTrue
<1>1. ASSUME DeployInv PROVE ConfirmedClaimsAreTrue
  <2>1. /\ OneLanding
        /\ \A s \in summaries : SummaryIsEarned(s) /\ <<s.by, s.run>> \in Transactions
        /\ \A s, t \in summaries : s.by = t.by /\ s.run = t.run => s = t
    BY <1>1 DEF DeployInv, ClaimsAreEarned, DeployTypeOK, Summary, SummaryIsEarned, Transactions
  <2>2. ASSUME NEW s \in Claims, s.waited = "confirmed", NEW t \in Claims, t.waited = "confirmed"
        PROVE  s = t
    <3>1. s \in summaries /\ ~s.alreadyInitialized /\ t \in summaries /\ ~t.alreadyInitialized
      BY <2>2 DEF Claims
    <3>2. Landing(<<s.by, s.run>>) /\ Landing(<<t.by, t.run>>)
      BY <2>1, <2>2, <3>1 DEF SummaryIsEarned
    <3>3. <<s.by, s.run>> = <<t.by, t.run>>
      BY <2>1, <3>1, <3>2 DEF OneLanding
    <3>4. QED
      BY <2>1, <3>1, <3>3
  <2>3. \A s \in summaries : s.version = EXPECTED_VERSION
                              /\ (~s.alreadyInitialized => program = EXPECTED_VERSION)
    BY <2>1 DEF SummaryIsEarned
  <2>4. \A s \in Claims : s.waited = "confirmed" => fates[<<s.by, s.run>>] = "landed"
    BY <2>1 DEF Claims, SummaryIsEarned, Landing
  <2>5. QED
    BY <2>2, <2>3, <2>4 DEF ConfirmedClaimsAreTrue
<1>2. QED
  BY <1>1, InitDeployInv, StepKeepsDeployInv, PTL DEF DeploySpec
=============================================================================
