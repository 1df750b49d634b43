-------------------------- MODULE MQTTStreamProofs --------------------------
(***************************************************************************)
(* Proofs about MQTTStream, for every base and every packet: the length    *)
(* field, the framing of what is read, and what is written.                *)
(***************************************************************************)
EXTENDS MQTTStream, MQTTTopicsProofs, SequenceTheorems, TLAPS

-----------------------------------------------------------------------------
(* Arithmetic of the length field *)

LEMMA DivMod ==
    ASSUME NEW b \in Nat \ {0, 1}, NEW n \in Nat
    PROVE  /\ n \div b \in Nat
           /\ n % b \in 0..b-1
           /\ n = (n % b) + b * (n \div b)
  OBVIOUS

LEMMA DivBelow ==
    ASSUME NEW b \in Nat \ {0, 1}, NEW n \in Nat, NEW m \in Nat, n < b * m
    PROVE  n \div b < m
  <1>1. PICK q \in Nat, r \in 0..b-1 : q = n \div b /\ n = r + b * q
    BY DivMod
  <1>2. ASSUME q >= m PROVE FALSE
    <2>1. PICK d \in Nat : q = m + d
      BY <1>2
    <2>2. b * q = b * m + b * d /\ b * d \in Nat
      BY <2>1
    <2>3. QED
      BY <1>1, <2>2
  <1>3. QED
    BY <1>1, <1>2

LEMMA Weights ==
    /\ Weight[1] = 1
    /\ \A i \in 1..Digits+1 : Weight[i] \in Nat \ {0}
    /\ \A i \in 1..Digits : Weight[i+1] = Base * Weight[i]
    /\ Limit = Weight[Digits+1]
  <1>1. \A x, y \in Nat \ {0} : x * y \in Nat \ {0}
    OBVIOUS
  <1>2. /\ Base \in Nat \ {0}
        /\ Base * Base \in Nat \ {0}
        /\ Base * Base * Base \in Nat \ {0}
        /\ Base * Base * Base * Base \in Nat \ {0}
    BY <1>1, StreamAssumption
  <1>3. /\ Base * (Base * Base) = Base * Base * Base
        /\ Base * (Base * Base * Base) = Base * Base * Base * Base
    BY <1>2
  <1>4. /\ Weight[1] = 1 /\ Weight[2] = Base /\ Weight[3] = Base * Base
        /\ Weight[4] = Base * Base * Base /\ Weight[5] = Base * Base * Base * Base
    BY DEF Weight
  <1>5. ASSUME NEW i \in 1..Digits+1 PROVE Weight[i] \in Nat \ {0}
    <2>1. i = 1 \/ i = 2 \/ i = 3 \/ i = 4 \/ i = 5
      BY DEF Digits
    <2>2. QED
      BY <2>1, <1>2, <1>4
  <1>6. ASSUME NEW i \in 1..Digits PROVE Weight[i+1] = Base * Weight[i]
    <2>1. i = 1 \/ i = 2 \/ i = 3 \/ i = 4
      BY DEF Digits
    <2>2. QED
      BY <2>1, <1>2, <1>3, <1>4
  <1>7. QED
    BY <1>4, <1>5, <1>6 DEF Limit

LEMMA ModUnique ==
    ASSUME NEW b \in Nat \ {0, 1}, NEW r \in 0..b-1, NEW k \in {0, 1}
    PROVE  (r + b * k) % b = r
  <1>1. CASE k = 0
    BY <1>1
  <1>2. CASE k = 1
    <2>1. PICK q \in Nat, t \in 0..b-1 :
              q = (r + b) \div b /\ t = (r + b) % b /\ r + b = t + b * q
      BY DivMod
    <2>2. CASE q = 0
      BY <2>1, <2>2
    <2>3. CASE q = 1
      BY <2>1, <2>3, <1>2
    <2>4. CASE q >= 2
      <3>1. PICK d \in Nat : q = 2 + d
        BY <2>4, <2>1
      <3>2. b * q = b + b + b * d /\ b * d \in Nat
        BY <3>1
      <3>3. QED
        BY <3>2, <2>1
    <2>5. QED
      BY <2>1, <2>2, <2>3, <2>4
  <1>3. QED
    BY <1>1, <1>2

\* Each round of the loop of MQTTPacket_encode takes the last digit off; after
\* four of them nothing is left.
LEMMA LeftProperties ==
    ASSUME NEW n \in 0..Limit-1
    PROVE  /\ Left(n)[1] = n
           /\ \A i \in 1..Digits+1 : Left(n)[i] \in Nat
           /\ \A i \in 1..Digits :
                 /\ Left(n)[i] % Base \in 0..Base-1
                 /\ Left(n)[i] = (Left(n)[i] % Base) + Base * Left(n)[i+1]
           /\ Left(n)[Digits+1] = 0
  <1>1. PICK q, r, s, t :
            /\ q = n \div Base /\ r = q \div Base /\ s = r \div Base /\ t = s \div Base
            /\ Left(n)[1] = n /\ Left(n)[2] = q /\ Left(n)[3] = r
            /\ Left(n)[4] = s /\ Left(n)[5] = t
    BY DEF Left
  <1>2. Base \in Nat \ {0, 1} /\ n \in Nat /\ n < Weight[5]
    BY StreamAssumption, Weights DEF Digits
  <1>3. q \in Nat /\ n = (n % Base) + Base * q /\ n % Base \in 0..Base-1
    BY <1>1, <1>2, DivMod
  <1>4. r \in Nat /\ q = (q % Base) + Base * r /\ q % Base \in 0..Base-1
    BY <1>1, <1>2, <1>3, DivMod
  <1>5. s \in Nat /\ r = (r % Base) + Base * s /\ r % Base \in 0..Base-1
    BY <1>1, <1>2, <1>4, DivMod
  <1>6. t \in Nat /\ s = (s % Base) + Base * t /\ s % Base \in 0..Base-1
    BY <1>1, <1>2, <1>5, DivMod
  <1>7. PICK w2, w3, w4 \in Nat :
            /\ w4 = Weight[4] /\ w3 = Weight[3] /\ w2 = Weight[2]
            /\ Weight[5] = Base * w4 /\ w4 = Base * w3 /\ w3 = Base * w2
            /\ w2 = Base * 1
    BY Weights DEF Digits
  <1>8. n \div Base < w4
    BY <1>2, <1>7, DivBelow
  <1>9. q \div Base < w3
    BY <1>1, <1>2, <1>3, <1>7, <1>8, DivBelow
  <1>10. r \div Base < w2
    BY <1>1, <1>2, <1>4, <1>7, <1>9, DivBelow
  <1>11. s \div Base < 1
    BY <1>1, <1>2, <1>5, <1>7, <1>10, DivBelow
  <1>12. t = 0
    BY <1>11, <1>1, <1>6
  <1>13. ASSUME NEW i \in 1..Digits+1 PROVE Left(n)[i] \in Nat
    <2>1. i = 1 \/ i = 2 \/ i = 3 \/ i = 4 \/ i = 5
      BY DEF Digits
    <2>2. QED
      BY <2>1, <1>1, <1>2, <1>3, <1>4, <1>5, <1>6
  <1>14. ASSUME NEW i \in 1..Digits
         PROVE  /\ Left(n)[i] % Base \in 0..Base-1
                /\ Left(n)[i] = (Left(n)[i] % Base) + Base * Left(n)[i+1]
    <2>1. i = 1 \/ i = 2 \/ i = 3 \/ i = 4
      BY DEF Digits
    <2>2. CASE i = 1
      BY <2>2, <1>1, <1>3
    <2>3. CASE i = 2
      BY <2>3, <1>1, <1>4
    <2>4. CASE i = 3
      BY <2>4, <1>1, <1>5
    <2>5. CASE i = 4
      BY <2>5, <1>1, <1>6
    <2>6. QED
      BY <2>1, <2>2, <2>3, <2>4, <2>5
  <1>15. QED
    BY <1>1, <1>12, <1>13, <1>14 DEF Digits

LEMMA DigitsOfProperties ==
    ASSUME NEW n \in 0..Limit-1
    PROVE  /\ DigitsOf(n) \in 1..Digits
           /\ \A i \in 2..DigitsOf(n) : Left(n)[i] > 0
           /\ Left(n)[DigitsOf(n)+1] = 0
  <1> DEFINE L == Left(n)
             Ends(k) == /\ \A i \in 2..k : L[i] > 0
                        /\ k < Digits => L[k+1] = 0
  <1>1. L[2] \in Nat /\ L[3] \in Nat /\ L[4] \in Nat
    BY LeftProperties DEF Digits
  <1> HIDE DEF L
  <1>2. \E k \in 1..Digits : Ends(k)
    <2>1. CASE L[2] = 0
      <3>1. Ends(1)
        BY <2>1
      <3>2. QED
        BY <3>1 DEF Digits
    <2>2. CASE L[2] > 0 /\ L[3] = 0
      <3>1. Ends(2)
        BY <2>2
      <3>2. QED
        BY <3>1 DEF Digits
    <2>3. CASE L[2] > 0 /\ L[3] > 0 /\ L[4] = 0
      <3>1. Ends(3)
        <4>1. \A i \in 2..3 : i = 2 \/ i = 3
          OBVIOUS
        <4>2. QED
          BY <4>1, <2>3
      <3>2. QED
        BY <3>1 DEF Digits
    <2>4. CASE L[2] > 0 /\ L[3] > 0 /\ L[4] > 0
      <3>1. Ends(4)
        <4>1. \A i \in 2..4 : i = 2 \/ i = 3 \/ i = 4
          OBVIOUS
        <4>2. QED
          BY <4>1, <2>4 DEF Digits
      <3>2. QED
        BY <3>1 DEF Digits
    <2>5. QED
      BY <1>1, <2>1, <2>2, <2>3, <2>4
  <1>3. DigitsOf(n) = CHOOSE k \in 1..Digits : Ends(k)
    BY DEF DigitsOf, L
  <1>4. DigitsOf(n) \in 1..Digits /\ Ends(DigitsOf(n))
    <2> HIDE DEF Ends
    <2> QED BY <1>2, <1>3
  <1>5. L[Digits+1] = 0
    BY LeftProperties DEF L
  <1>6. L[DigitsOf(n)+1] = 0
    BY <1>4, <1>5 DEF Digits
  <1>7. QED
    BY <1>4, <1>6 DEF L

LEMMA FunctionIsSeq ==
    ASSUME NEW S, NEW n \in Nat, NEW f \in [1..n -> S]
    PROVE  f \in Seq(S) /\ Len(f) = n /\ DOMAIN f = 1..n
  <1>1. f \in Seq(S)
    OBVIOUS
  <1>2. QED
    BY <1>1, LenProperties

\* A digit and its mark.
LEMMA EncodeProperties ==
    ASSUME NEW n \in 0..Limit-1
    PROVE  /\ MQTTPacket_encode(n) \in Seq(0..Base+Base-1)
           /\ Len(MQTTPacket_encode(n)) = DigitsOf(n)
           /\ DOMAIN MQTTPacket_encode(n) = 1..DigitsOf(n)
           /\ \A i \in 1..DigitsOf(n) :
                 /\ MQTTPacket_encode(n)[i] \in 0..Base+Base-1
                 /\ MQTTPacket_encode(n)[i] % Base = Left(n)[i] % Base
                 /\ MQTTPacket_encode(n)[i] >= Base <=> i < DigitsOf(n)
  <1> DEFINE e == MQTTPacket_encode(n)
             D == DigitsOf(n)
             d(i) == Left(n)[i] % Base
  <1>1. D \in 1..Digits
    BY DigitsOfProperties
  <1>2. Base \in Nat \ {0, 1}
    BY StreamAssumption
  <1>3. e = [i \in 1..D |-> d(i) + (IF i < D THEN Base ELSE 0)]
    BY DEF MQTTPacket_encode
  <1>4. \A i \in 1..D : d(i) \in 0..Base-1
    BY <1>1, LeftProperties DEF Digits
  <1> HIDE DEF e, D, d
  <1>5. D \in Nat
    BY <1>1 DEF Digits
  <1>6. ASSUME NEW i \in 1..D
        PROVE  /\ e[i] \in 0..Base+Base-1
               /\ e[i] % Base = d(i)
               /\ e[i] >= Base <=> i < D
    <2>1. PICK x \in 0..Base-1 : x = d(i)
      BY <1>4
    <2>2. CASE i < D
      <3>1. e[i] = x + Base
        BY <1>3, <2>1, <2>2
      <3>2. (x + Base * 1) % Base = x
        BY <1>2, ModUnique
      <3>3. Base * 1 = Base
        BY <1>2
      <3>4. QED
        BY <3>1, <3>2, <3>3, <2>1, <2>2, <1>2
    <2>3. CASE ~(i < D)
      <3>1. e[i] = x
        BY <1>3, <2>1, <2>3, <1>2
      <3>2. x % Base = x
        BY <1>2
      <3>3. QED
        BY <3>1, <3>2, <2>1, <2>3, <1>2
    <2>4. QED
      BY <2>2, <2>3
  <1>7. e \in [1..D -> 0..Base+Base-1]
    BY <1>3, <1>6
  <1>8. e \in Seq(0..Base+Base-1) /\ Len(e) = D /\ DOMAIN e = 1..D
    BY <1>5, <1>7, FunctionIsSeq
  <1>9. QED
    BY <1>6, <1>8 DEF e, D, d

LEMMA Shift ==
    ASSUME NEW w \in Nat, NEW b \in Nat, NEW d \in Nat, NEW y \in Nat
    PROVE  w * (d + b * y) = d * w + (b * w) * y
  OBVIOUS

\* A round of decodePacket moves a digit of the length from what is still to
\* come to what is known.
LEMMA DigitStep ==
    ASSUME NEW n \in 0..Limit-1, NEW i \in 1..Digits
    PROVE  Weight[i] * Left(n)[i] =
               (Left(n)[i] % Base) * Weight[i] + Weight[i+1] * Left(n)[i+1]
  <1>1. i \in 1..Digits+1 /\ i + 1 \in 1..Digits+1
    BY DEF Digits
  <1>2. PICK w \in Nat : w = Weight[i] /\ Weight[i+1] = Base * w
    BY <1>1, Weights
  <1>3. PICK d, y \in Nat :
            /\ d = Left(n)[i] % Base /\ y = Left(n)[i+1]
            /\ Left(n)[i] = d + Base * y
    BY <1>1, LeftProperties
  <1>4. Base \in Nat
    BY StreamAssumption
  <1>5. w * (d + Base * y) = d * w + (Base * w) * y
    BY <1>2, <1>3, <1>4, Shift
  <1>6. QED
    BY <1>2, <1>3, <1>5

LEMMA Sums ==
    ASSUME NEW n, NEW d1 \in Nat, NEW d2 \in Nat, NEW d3 \in Nat, NEW d4 \in Nat,
           NEW r2 \in Nat, NEW r3 \in Nat, NEW r4 \in Nat, NEW r5 \in Nat,
           n = d1 + r2, r2 = d2 + r3, r3 = d3 + r4, r4 = d4 + r5
    PROVE  /\ r5 = 0 => n = d1 + d2 + d3 + d4
           /\ r4 = 0 => n = d1 + d2 + d3
           /\ r3 = 0 => n = d1 + d2
           /\ r2 = 0 => n = d1
  OBVIOUS

\* What MQTTPacket_encode has written, MQTTPacket_decode reads.
THEOREM LengthRoundTrip ==
    ASSUME NEW n \in 0..Limit-1
    PROVE  MQTTPacket_decode(MQTTPacket_encode(n)) =
               [value |-> n, size |-> Len(MQTTPacket_encode(n))]
  <1> DEFINE s == MQTTPacket_encode(n)
             D == DigitsOf(n)
             d(i) == (Left(n)[i] % Base) * Weight[i]
             r(i) == Weight[i] * Left(n)[i]
             more(k) == \A i \in 1..k-1 : s[i] >= Base
             digit(i) == IF more(i) THEN (s[i] % Base) * Weight[i] ELSE 0
             Stops(k) == more(k) /\ (k <= Digits => s[k] < Base)
  <1>1. /\ D \in 1..Digits
        /\ Left(n)[D+1] = 0
    BY DigitsOfProperties
  <1>2. /\ Len(s) = D
        /\ \A i \in 1..D : /\ s[i] \in 0..Base+Base-1
                           /\ (s[i] % Base) = (Left(n)[i] % Base)
                           /\ s[i] >= Base <=> i < D
    BY EncodeProperties
  <1>3. MQTTPacket_decode(s) =
            [value |-> digit(1) + digit(2) + digit(3) + digit(4),
             size |-> CHOOSE k \in 1..Digits+1 : Stops(k)]
    BY DEF MQTTPacket_decode
  <1>4. \A k \in 1..Digits+1 : more(k) <=> k <= D
    <2> HIDE DEF s
    <2>1. TAKE k \in 1..Digits+1
    <2>2. CASE k <= D
      <3>1. \A i \in 1..k-1 : i \in 1..D /\ i < D
        BY <2>2, <1>1 DEF Digits
      <3>2. QED
        BY <3>1, <2>2, <1>2
    <2>3. CASE k > D
      <3>1. D \in 1..k-1 /\ D \in 1..D
        BY <2>3, <1>1 DEF Digits
      <3>2. ~(s[D] >= Base)
        BY <3>1, <1>2
      <3>3. QED
        BY <3>1, <3>2, <2>3, <1>1 DEF Digits
    <2>4. QED
      BY <2>2, <2>3, <1>1 DEF Digits
  <1>5. (CHOOSE k \in 1..Digits+1 : Stops(k)) = D
    <2>1. D \in 1..Digits+1 /\ more(D)
      BY <1>1, <1>4 DEF Digits
    <2> HIDE DEF more, s
    <2>2. s[D] < Base
      <3>1. D \in 1..D /\ ~(D < D)
        BY <1>1 DEF Digits
      <3>2. s[D] \in 0..Base+Base-1 /\ ~(s[D] >= Base)
        BY <3>1, <1>2
      <3>3. QED
        BY <3>2, StreamAssumption
    <2>3. Stops(D)
      BY <2>1, <2>2
    <2>4. ASSUME NEW k \in 1..Digits+1, Stops(k) PROVE k = D
      <3>1. k <= D
        BY <2>4, <1>4
      <3>2. ASSUME k < D PROVE FALSE
        <4>1. k \in 1..D /\ k <= Digits
          BY <3>2, <1>1 DEF Digits
        <4>2. s[k] < Base /\ s[k] >= Base /\ s[k] \in 0..Base+Base-1
          BY <4>1, <2>4, <3>2, <1>2
        <4>3. QED
          BY <4>2, StreamAssumption
      <3>3. QED
        BY <3>1, <3>2, <1>1 DEF Digits
    <2> HIDE DEF Stops
    <2>5. QED
      BY <2>1, <2>3, <2>4
  <1>6. \A i \in 1..Digits : digit(i) = IF i <= D THEN d(i) ELSE 0
    <2> HIDE DEF more, s
    <2>1. TAKE i \in 1..Digits
    <2>2. more(i) <=> i <= D
      BY <1>4 DEF Digits
    <2>3. CASE i <= D
      <3>1. i \in 1..D
        BY <2>3, <1>1 DEF Digits
      <3>2. s[i] % Base = Left(n)[i] % Base
        BY <3>1, <1>2
      <3>3. QED
        BY <3>2, <2>2, <2>3
    <2>4. CASE ~(i <= D)
      BY <2>2, <2>4
    <2>5. QED
      BY <2>3, <2>4
  <1>7. \A i \in 1..Digits : d(i) \in Nat /\ r(i) = d(i) + r(i+1)
    <2>1. TAKE i \in 1..Digits
    <2>2. Left(n)[i] % Base \in Nat /\ Weight[i] \in Nat
      BY LeftProperties, Weights DEF Digits
    <2>3. d(i) \in Nat
      BY <2>2
    <2>4. QED
      BY <2>3, DigitStep
  <1>8. \A i \in 1..Digits+1 : r(i) \in Nat
    BY LeftProperties, Weights
  <1>9. r(1) = n /\ r(D+1) = 0
    <2>1. D + 1 \in 1..Digits+1
      BY <1>1 DEF Digits
    <2>2. Weight[1] = 1 /\ Left(n)[1] = n /\ Weight[D+1] \in Nat /\ Left(n)[D+1] = 0
      BY <2>1, <1>1, Weights, LeftProperties
    <2>3. QED
      BY <2>2
  <1> HIDE DEF d, r, digit, Stops, more, s, D
  <1>10. /\ n = d(1) + r(2) /\ r(2) = d(2) + r(3)
         /\ r(3) = d(3) + r(4) /\ r(4) = d(4) + r(5)
         /\ d(1) \in Nat /\ d(2) \in Nat /\ d(3) \in Nat /\ d(4) \in Nat
         /\ r(2) \in Nat /\ r(3) \in Nat /\ r(4) \in Nat /\ r(5) \in Nat
    BY <1>7, <1>8, <1>9 DEF Digits
  <1>11. digit(1) + digit(2) + digit(3) + digit(4) = n
    <2>1. CASE D = 1
      BY <2>1, <1>6, <1>9, <1>10, Sums DEF Digits
    <2>2. CASE D = 2
      BY <2>2, <1>6, <1>9, <1>10, Sums DEF Digits
    <2>3. CASE D = 3
      BY <2>3, <1>6, <1>9, <1>10, Sums DEF Digits
    <2>4. CASE D = 4
      BY <2>4, <1>6, <1>9, <1>10, Sums DEF Digits
    <2>5. QED
      BY <2>1, <2>2, <2>3, <2>4, <1>1 DEF Digits
  <1>12. QED
    BY <1>2, <1>3, <1>5, <1>11 DEF s

LEMMA LeftZero ==
    ASSUME NEW n \in 0..Limit-1, NEW k \in 1..Digits
    PROVE  DigitsOf(n) <= k <=> Left(n)[k+1] = 0
  <1> DEFINE D == DigitsOf(n)
             L == Left(n)
  <1>1. D \in 1..4 /\ (\A i \in 2..D : L[i] > 0) /\ L[D+1] = 0
    BY DigitsOfProperties DEF Digits
  <1>2. /\ \A i \in 1..4 : L[i] \in Nat /\ L[i+1] \in Nat
        /\ \A i \in 1..4 : L[i] = (L[i] % Base) + Base * L[i+1] /\ L[i] % Base \in Nat
    BY LeftProperties DEF Digits
  <1>3. k \in 1..4
    BY DEF Digits
  <1> HIDE DEF D, L
  <1>4. ASSUME NEW i \in 1..4, L[i] = 0 PROVE L[i+1] = 0
    <2>1. PICK x, y \in Nat : x = L[i] % Base /\ y = L[i+1] /\ x + Base * y = 0
      BY <1>2, <1>4
    <2>2. Base * y \in Nat /\ Base \in Nat \ {0, 1}
      BY <2>1, StreamAssumption
    <2>3. Base * y = 0
      BY <2>1, <2>2
    <2>4. ASSUME y > 0 PROVE FALSE
      <3>1. PICK z \in Nat : z = y - 1
        BY <2>1, <2>4
      <3>2. Base * y = Base * z + Base /\ Base * z \in Nat
        BY <3>1, <2>1, <2>2
      <3>3. QED
        BY <3>2, <2>2, <2>3
    <2>5. QED
      BY <2>1, <2>4
  <1>5. CASE k < D
    <2>1. k + 1 \in 2..D
      BY <1>5, <1>1, <1>3
    <2>2. QED
      BY <2>1, <1>1, <1>3, <1>5 DEF D, L
  <1>6. CASE D <= k
    <2>1. CASE D = k
      BY <2>1, <1>1 DEF D, L
    <2>2. CASE D + 1 = k
      <3>1. D + 1 \in 1..4 /\ L[(D+1)+1] = 0
        BY <2>2, <1>1, <1>3, <1>4
      <3>2. QED
        BY <3>1, <2>2, <1>1, <1>3 DEF D, L
    <2>3. CASE D + 2 = k
      <3>1. D + 1 \in 1..4 /\ L[(D+1)+1] = 0
        BY <2>3, <1>1, <1>3, <1>4
      <3>2. (D+1)+1 \in 1..4 /\ L[((D+1)+1)+1] = 0
        BY <3>1, <2>3, <1>1, <1>3, <1>4
      <3>3. ((D+1)+1)+1 = k + 1
        BY <2>3, <1>1, <1>3
      <3>4. QED
        BY <3>2, <3>3, <2>3, <1>1, <1>3 DEF D, L
    <2>4. CASE D + 3 = k
      <3>1. L[3] = 0
        BY <2>4, <1>1, <1>3, <1>4
      <3>2. L[4] = 0
        BY <3>1, <1>4
      <3>3. L[5] = 0
        BY <3>2, <1>4
      <3>4. k + 1 = 5
        BY <2>4, <1>1, <1>3
      <3>5. QED
        BY <3>3, <3>4, <2>4, <1>1, <1>3 DEF D, L
    <2>5. QED
      BY <2>1, <2>2, <2>3, <2>4, <1>1, <1>3, <1>6
  <1>7. QED
    BY <1>1, <1>3, <1>5, <1>6

\* What lies below a digit is smaller than its weight.
LEMMA BelowWeight ==
    ASSUME NEW n \in 0..Limit-1, NEW i \in 1..Digits, NEW low \in Nat,
           n = low + Weight[i] * Left(n)[i], low < Weight[i]
    PROVE  \E next \in Nat : /\ n = next + Weight[i+1] * Left(n)[i+1]
                             /\ next < Weight[i+1]
  <1>1. PICK w \in Nat : w = Weight[i] /\ Weight[i+1] = Base * w
    BY Weights DEF Digits
  <1>2. PICK d \in 0..Base-1 : d = Left(n)[i] % Base
    BY LeftProperties
  <1>3. PICK y \in Nat : y = Left(n)[i+1]
    BY LeftProperties DEF Digits
  <1>4. Base \in Nat \ {0, 1}
    BY StreamAssumption
  <1>5. n = (low + d * w) + (Base * w) * y
    <2>1. w * Left(n)[i] = d * w + (Base * w) * y
      BY <1>1, <1>2, <1>3, DigitStep
    <2>2. d * w \in Nat /\ (Base * w) * y \in Nat
      BY <1>1, <1>2, <1>3, <1>4
    <2>3. QED
      BY <2>1, <2>2, <1>1
  <1>6. low + d * w < Base * w
    <2>1. PICK e \in Nat : e = Base - d - 1
      BY <1>2, <1>4
    <2>2. Base * w = d * w + w + e * w /\ e * w \in Nat /\ d * w \in Nat
      <3>1. Base = d + 1 + e /\ d \in Nat
        BY <2>1, <1>2, <1>4
      <3>2. QED
        BY <3>1, <2>1, <1>1
    <2>3. QED
      BY <2>2, <1>1
  <1>7. low + d * w \in Nat
    BY <1>1, <1>2, <1>4
  <1>8. QED
    BY <1>1, <1>3, <1>5, <1>6, <1>7

LEMMA ZeroBelow ==
    ASSUME NEW n \in Nat, NEW w \in Nat, NEW y \in Nat, NEW low \in Nat,
           n = low + w * y, low < w
    PROVE  y = 0 <=> n < w
  <1>1. CASE y = 0
    BY <1>1
  <1>2. CASE y > 0
    <2>1. PICK z \in Nat : y = z + 1
      BY <1>2
    <2>2. w * y = w * z + w /\ w * z \in Nat
      BY <2>1
    <2>3. QED
      BY <2>2, <1>2
  <1>3. QED
    BY <1>1, <1>2

LEMMA DigitsNeeded ==
    ASSUME NEW n \in 0..Limit-1, NEW k \in 1..Digits
    PROVE  DigitsOf(n) <= k <=> n < Weight[k+1]
  <1> DEFINE Low(i) == \E low \in Nat : /\ n = low + Weight[i] * Left(n)[i]
                                        /\ low < Weight[i]
  <1>1. Low(1)
    <2>1. n = 0 + Weight[1] * Left(n)[1] /\ 0 < Weight[1]
      BY Weights, LeftProperties
    <2>2. QED
      BY <2>1
  <1>2. \A i \in 1..Digits : Low(i) => Low(i+1)
    BY BelowWeight
  <1> HIDE DEF Low
  <1>3. Low(2) /\ Low(3) /\ Low(4) /\ Low(5)
    BY <1>1, <1>2 DEF Digits
  <1>4. Low(k+1)
    BY <1>3 DEF Digits
  <1>5. PICK low \in Nat : n = low + Weight[k+1] * Left(n)[k+1] /\ low < Weight[k+1]
    BY <1>4 DEF Low
  <1>6. Weight[k+1] \in Nat /\ Left(n)[k+1] \in Nat
    BY Weights, LeftProperties DEF Digits
  <1>7. Left(n)[k+1] = 0 <=> n < Weight[k+1]
    <2>1. PICK w, y \in Nat : w = Weight[k+1] /\ y = Left(n)[k+1]
      BY <1>6
    <2>2. n \in Nat /\ n = low + w * y /\ low < w
      BY <2>1, <1>5, Weights DEF Digits
    <2>3. y = 0 <=> n < w
      BY <2>2, ZeroBelow
    <2>4. QED
      BY <2>1, <2>3
  <1>8. QED
    BY <1>7, LeftZero

\* MQTTPacket_len against what is written: exact, or one too many where the
\* header byte it counts in crosses a threshold.
THEOREM LengthBound ==
    ASSUME NEW rem \in 0..Limit-1
    PROVE  MQTTPacket_len(rem) - (1 + Len(MQTTPacket_encode(rem)) + rem) \in {0, 1}
  <1>1. PICK D \in 1..4 : D = Len(MQTTPacket_encode(rem)) /\ D = DigitsOf(rem)
    BY EncodeProperties, DigitsOfProperties DEF Digits
  <1>2. PICK w2, w3, w4 \in Nat :
            /\ w2 = Weight[2] /\ w3 = Weight[3] /\ w4 = Weight[4]
            /\ w2 = Base /\ w3 = Base * w2 /\ w4 = Base * w3
    <2>1. /\ Weight[1] = 1 /\ Weight[2] \in Nat /\ Weight[3] \in Nat /\ Weight[4] \in Nat
          /\ Weight[1+1] = Base * Weight[1] /\ Weight[2+1] = Base * Weight[2]
          /\ Weight[3+1] = Base * Weight[3]
      BY Weights DEF Digits
    <2>2. Weight[2] = Base * 1 /\ Weight[3] = Base * Weight[2] /\ Weight[4] = Base * Weight[3]
      BY <2>1
    <2>3. Base * 1 = Base
      BY StreamAssumption
    <2>4. QED
      BY <2>1, <2>2, <2>3
  <1>3. /\ D <= 1 <=> rem < w2
        /\ D <= 2 <=> rem < w3
        /\ D <= 3 <=> rem < w4
    <2>1. \A k \in 1..4 : D <= k <=> rem < Weight[k+1]
      BY <1>1, DigitsNeeded DEF Digits
    <2>2. \A j \in 2..5 : D <= j - 1 <=> rem < Weight[j]
      <3>1. TAKE j \in 2..5
      <3>2. j - 1 \in 1..4 /\ (j - 1) + 1 = j
        OBVIOUS
      <3>3. QED
        BY <3>2, <2>1
    <2>3. /\ D <= 2 - 1 <=> rem < Weight[2]
          /\ D <= 3 - 1 <=> rem < Weight[3]
          /\ D <= 4 - 1 <=> rem < Weight[4]
      BY <2>2
    <2>4. QED
      BY <2>3, <1>2
  <1>4. w2 >= 2 /\ w3 >= w2 + w2 /\ w4 >= w3 + w3
    <2>1. PICK e \in Nat : Base = 2 + e
      BY StreamAssumption
    <2>2. w3 = w2 + w2 + e * w2 /\ e * w2 \in Nat
      BY <2>1, <1>2
    <2>3. w4 = w3 + w3 + e * w3 /\ e * w3 \in Nat
      BY <2>1, <1>2
    <2>4. QED
      BY <2>1, <2>2, <2>3, <1>2
  <1>5. MQTTPacket_len(rem) =
            (rem + 1) + (IF rem + 1 < w2 THEN 1
                         ELSE IF rem + 1 < w3 THEN 2
                         ELSE IF rem + 1 < w4 - 1 THEN 3
                         ELSE 4)
    BY <1>2 DEF MQTTPacket_len
  <1>6. rem \in Nat
    BY Weights DEF Digits
  <1>7. QED
    BY <1>1, <1>2, <1>3, <1>4, <1>5, <1>6

-----------------------------------------------------------------------------
(* Types, and what the variables of readPacket and sendPacket hold at each  *)
(* of their steps                                                           *)

LEMMA PlacedProperties ==
    ASSUME NEW s \in Seq(0..Base+Base-1),
           NEW place \in {"header", "length", "body"}
    PROVE  /\ Placed(s, place) \in Seq(Bytes)
           /\ Len(Placed(s, place)) = Len(s)
           /\ \A i \in 1..Len(s) :
                  Placed(s, place)[i] = [value |-> s[i], place |-> place]
  <1>1. DOMAIN s = 1..Len(s) /\ Len(s) \in Nat
    BY LenProperties
  <1>2. \A i \in 1..Len(s) : s[i] \in 0..Base+Base-1
    BY ElementOfSeq
  <1>3. Placed(s, place) = [i \in 1..Len(s) |-> [value |-> s[i], place |-> place]]
    BY <1>1 DEF Placed
  <1>4. Placed(s, place) \in [1..Len(s) -> Bytes]
    BY <1>2, <1>3 DEF Bytes
  <1>5. QED
    BY <1>1, <1>3, <1>4, FunctionIsSeq

LEMMA ConcatIndex ==
    ASSUME NEW S, NEW s \in Seq(S), NEW t \in Seq(S)
    PROVE  /\ s \o t \in Seq(S)
           /\ Len(s) \in Nat /\ Len(t) \in Nat
           /\ Len(s \o t) = Len(s) + Len(t)
           /\ \A i \in 1..Len(s) : (s \o t)[i] = s[i]
           /\ \A i \in 1..Len(t) : (s \o t)[Len(s)+i] = t[i]
  OBVIOUS

LEMMA BytesOfProperties ==
    ASSUME NEW t \in 0..Base+Base-1, NEW rem \in 0..Limit-1,
           NEW b \in 0..Base+Base-1
    PROVE  /\ BytesOf(t, rem, b) \in Seq(Bytes)
           /\ Len(BytesOf(t, rem, b)) = 1 + DigitsOf(rem) + rem
           /\ BytesOf(t, rem, b)[1] = [value |-> t, place |-> "header"]
           /\ \A i \in 1..DigitsOf(rem) :
                 BytesOf(t, rem, b)[1+i] =
                     [value |-> MQTTPacket_encode(rem)[i], place |-> "length"]
           /\ \A i \in 1..rem :
                 BytesOf(t, rem, b)[1+DigitsOf(rem)+i].place = "body"
  <1> DEFINE h == Placed(<<t>>, "header")
             l == Placed(MQTTPacket_encode(rem), "length")
             y == Placed([i \in 1..rem |-> b], "body")
             D == DigitsOf(rem)
  <1>1. h \in Seq(Bytes) /\ Len(h) = 1 /\ h[1] = [value |-> t, place |-> "header"]
    <2>1. <<t>> \in Seq(0..Base+Base-1) /\ Len(<<t>>) = 1 /\ <<t>>[1] = t
      OBVIOUS
    <2>2. PICK x \in Seq(0..Base+Base-1) : x = <<t>> /\ Len(x) = 1 /\ x[1] = t
      BY <2>1
    <2>3. 1 \in 1..Len(x)
      BY <2>2
    <2>4. QED
      BY <2>2, <2>3, PlacedProperties
  <1>2. /\ l \in Seq(Bytes) /\ Len(l) = D
        /\ \A i \in 1..D :
               l[i] = [value |-> MQTTPacket_encode(rem)[i], place |-> "length"]
    BY EncodeProperties, PlacedProperties
  <1>3. rem \in Nat /\ D \in Nat
    BY Weights, DigitsOfProperties DEF Digits
  <1>4. /\ y \in Seq(Bytes) /\ Len(y) = rem
        /\ \A i \in 1..rem : y[i].place = "body"
    <2> DEFINE z == [i \in 1..rem |-> b]
    <2>1. z \in [1..rem -> 0..Base+Base-1]
      OBVIOUS
    <2>2. z \in Seq(0..Base+Base-1) /\ Len(z) = rem
      BY <2>1, <1>3, FunctionIsSeq
    <2> HIDE DEF z
    <2>3. Placed(z, "body") \in Seq(Bytes) /\ Len(Placed(z, "body")) = rem
      BY <2>2, PlacedProperties
    <2>4. \A i \in 1..rem : Placed(z, "body")[i] = [value |-> z[i], place |-> "body"]
      BY <2>2, PlacedProperties
    <2>5. QED
      BY <2>3, <2>4 DEF z
  <1>5. BytesOf(t, rem, b) = (h \o l) \o y
    BY DEF BytesOf
  <1> HIDE DEF h, l, y, D
  <1>6. /\ h \o l \in Seq(Bytes) /\ Len(h \o l) = 1 + D
        /\ (h \o l)[1] = h[1]
        /\ \A i \in 1..D : (h \o l)[1+i] = l[i]
    <2>1. 1 \in 1..Len(h)
      BY <1>1
    <2>2. h \in Seq(Bytes) /\ l \in Seq(Bytes)
      BY <1>1, <1>2
    <2>3. /\ h \o l \in Seq(Bytes)
          /\ Len(h \o l) = Len(h) + Len(l)
          /\ \A i \in 1..Len(h) : (h \o l)[i] = h[i]
          /\ \A i \in 1..Len(l) : (h \o l)[Len(h)+i] = l[i]
      BY <2>2, ConcatIndex
    <2>4. QED
      BY <2>1, <2>3, <1>1, <1>2
  <1> DEFINE p == h \o l
  <1>7. p \in Seq(Bytes) /\ Len(p) = 1 + D
    BY <1>6
  <1> HIDE DEF p
  <1>8. /\ p \o y \in Seq(Bytes) /\ Len(p \o y) = 1 + D + rem
        /\ \A i \in 1..1+D : (p \o y)[i] = p[i]
        /\ \A i \in 1..rem : (p \o y)[1+D+i] = y[i]
    <2>1. p \in Seq(Bytes) /\ y \in Seq(Bytes)
      BY <1>7, <1>4
    <2>2. /\ p \o y \in Seq(Bytes)
          /\ Len(p \o y) = Len(p) + Len(y)
          /\ \A i \in 1..Len(p) : (p \o y)[i] = p[i]
          /\ \A i \in 1..Len(y) : (p \o y)[Len(p)+i] = y[i]
      BY <2>1, ConcatIndex
    <2>3. QED
      BY <2>2, <1>7, <1>4
  <1>9. (p \o y)[1] = h[1] /\ \A i \in 1..D : (p \o y)[1+i] = l[i]
    BY <1>8, <1>6, <1>3 DEF p
  <1>10. PICK w : w = BytesOf(t, rem, b) /\ w = p \o y
    BY <1>5 DEF p
  <1>11. w \in Seq(Bytes) /\ Len(w) = 1 + D + rem
    BY <1>8, <1>10
  <1>12. w[1] = [value |-> t, place |-> "header"]
    BY <1>1, <1>9, <1>10
  <1>13. \A i \in 1..D :
            w[1+i] = [value |-> MQTTPacket_encode(rem)[i], place |-> "length"]
    BY <1>2, <1>9, <1>10
  <1>14. \A i \in 1..rem : w[1+D+i].place = "body"
    BY <1>4, <1>8, <1>10
  <1>15. QED
    BY <1>10, <1>11, <1>12, <1>13, <1>14 DEF D

LEMMA DropProperties ==
    ASSUME NEW S, NEW s \in Seq(S), NEW k \in 0..Len(s)
    PROVE  /\ SubSeq(s, k+1, Len(s)) \in Seq(S)
           /\ Len(SubSeq(s, k+1, Len(s))) = Len(s) - k
           /\ \A i \in 1..Len(s)-k : SubSeq(s, k+1, Len(s))[i] = s[i+k]
  <1>1. Len(s) \in Nat /\ k \in Nat
    OBVIOUS
  <1>2. \A i \in k+1..Len(s) : s[i] \in S
    BY <1>1, ElementOfSeq
  <1>3. QED
    BY <1>1, <1>2, SubSeqProperties

LEMMA WeightBelowLimit ==
    ASSUME NEW k \in 1..Digits+1
    PROVE  Weight[k] \in Nat \ {0} /\ Weight[k] <= Limit
  <1>1. PICK w1, w2, w3, w4, w5 \in Nat \ {0} :
            /\ w1 = Weight[1] /\ w2 = Weight[2] /\ w3 = Weight[3]
            /\ w4 = Weight[4] /\ w5 = Weight[5] /\ w5 = Limit
            /\ w2 = Base * w1 /\ w3 = Base * w2 /\ w4 = Base * w3 /\ w5 = Base * w4
    BY Weights DEF Digits
  <1>2. \A x \in Nat : x <= Base * x
    <2>1. TAKE x \in Nat
    <2>2. PICK e \in Nat : e = Base - 1
      BY StreamAssumption
    <2>3. Base * x = x + e * x /\ e * x \in Nat
      BY <2>2, StreamAssumption
    <2>4. QED
      BY <2>3
  <1>3. w1 <= w2 /\ w2 <= w3 /\ w3 <= w4 /\ w4 <= w5
    BY <1>1, <1>2
  <1>4. k = 1 \/ k = 2 \/ k = 3 \/ k = 4 \/ k = 5
    BY DEF Digits
  <1>5. w1 <= w5 /\ w2 <= w5 /\ w3 <= w5 /\ w4 <= w5 /\ w5 <= w5
    BY <1>3
  <1>6. QED
    BY <1>1, <1>4, <1>5

LEMMA ZeroInRange ==
    0 \in 0..Base+Base-1 /\ 0 \in 0..Limit-1 /\ 0 \in 0..Digits
  BY StreamAssumption, Weights DEF Digits

\* A round of decodePacket with any digit.
LEMMA DigitRead ==
    ASSUME NEW k \in 1..Digits, NEW v \in Nat, v < Weight[k], NEW c \in Nat
    PROVE  /\ v + (c % Base) * Weight[k] \in Nat
           /\ v + (c % Base) * Weight[k] < Weight[k+1]
  <1>1. PICK w \in Nat : w = Weight[k] /\ Weight[k+1] = Base * w
    BY Weights DEF Digits
  <1>2. Base \in Nat \ {0, 1}
    BY StreamAssumption
  <1>3. PICK d \in 0..Base-1 : d = c % Base
    BY <1>2, DivMod
  <1>4. PICK e \in Nat : e = Base - d - 1
    BY <1>2, <1>3
  <1>5. Base = d + 1 + e /\ d \in Nat
    BY <1>2, <1>3, <1>4
  <1>6. Base * w = d * w + w + e * w /\ e * w \in Nat /\ d * w \in Nat
    BY <1>1, <1>4, <1>5
  <1>7. v + d * w \in Nat /\ v + d * w < Base * w
    BY <1>1, <1>6
  <1>8. QED
    BY <1>1, <1>3, <1>7

\* Between two packets the variables of readPacket are as if it had not run;
\* while it reads a length, that is smaller than the next multiplier.
Reading ==
    /\ pc \notin {"length", "body"} => len = 0 /\ rem_len = 0
    /\ pc \in {"idle", "deliver"} => bytes = 0
    /\ pc = "length" => len < Digits /\ rem_len < Weight[len+1] /\ bytes = 0
    /\ pc = "body" => bytes < rem_len

ReadInv == TypeOK /\ Reading

LEMMA ReadInit == Init => ReadInv
  <1> SUFFICES ASSUME Init PROVE ReadInv
    OBVIOUS
  <1>1. 0 \in 0..Base+Base-1 /\ 0 \in 0..Limit-1 /\ 0 \in 0..Digits /\ 0 \in 0..MaxPackets
    BY StreamAssumption, Weights DEF Digits
  <1>2. /\ <<>> \in Seq(Bytes) /\ <<>> \in Seq(Nat) /\ <<>> \in Seq(Packets)
    OBVIOUS
  <1>3. QED
    BY <1>1, <1>2 DEF Init, ReadInv, TypeOK, Reading

LEMMA LengthIsKnown ==
    ASSUME ReadInv, NEW rem \in 0..Limit-1, NEW n \in 0..Digits,
           LengthKnown(rem, n), bytes = 0
    PROVE  /\ pc' \in {"idle", "body", "deliver"}
           /\ type' \in 0..Base+Base-1 /\ len' \in 0..Digits
           /\ rem_len' \in 0..Limit-1 /\ bytes' \in Nat
           /\ accepted' \in Seq(Packets)
           /\ Reading'
  <1>1. type \in 0..Base+Base-1 /\ accepted \in Seq(Packets) /\ rem \in Nat
    BY Weights DEF ReadInv, TypeOK, Digits
  <1>2. CASE rem = 0 /\ Accept(0)
    <2>1. [type |-> type, rem |-> 0] \in Packets
      BY <1>1, <1>2 DEF Packets
    <2>2. accepted' \in Seq(Packets)
      BY <1>1, <1>2, <2>1, AppendProperties DEF Accept
    <2>3. /\ pc' \in {"idle", "deliver"}
          /\ type' = 0 /\ len' = 0 /\ rem_len' = 0 /\ bytes' = 0
      BY <1>2 DEF Accept, Leave
    <2>4. pc' # "length" /\ pc' # "body"
      BY <2>3
    <2>5. Reading'
      BY <2>3, <2>4 DEF Reading
    <2>6. QED
      BY <2>2, <2>3, <2>5, ZeroInRange
  <1>3. CASE /\ rem > 0
             /\ pc' = "body" /\ rem_len' = rem /\ len' = n
             /\ UNCHANGED <<type, bytes, accepted>>
    BY <1>1, <1>3 DEF Reading, ReadInv, TypeOK
  <1>4. QED
    BY <1>2, <1>3 DEF LengthKnown

LEMMA ReadStep == ReadInv /\ [Next]_vars => ReadInv'
  <1> SUFFICES ASSUME ReadInv, [Next]_vars PROVE ReadInv'
    OBVIOUS
  <1>0. /\ Len(unread) \in Nat /\ unread \in Seq(Bytes) /\ bytes \in Nat
        /\ Base \in Nat \ {0, 1}
    BY StreamAssumption DEF ReadInv, TypeOK
  <1>1. ASSUME BrokerSends PROVE ReadInv'
    <2>1. PICK t \in Types, rem \in Lengths, b \in Bodies :
              /\ sent' = Append(sent, [type |-> t, rem |-> rem])
              /\ unread' = unread \o BytesOf(t, rem, b)
      BY <1>1 DEF BrokerSends
    <2>2. t \in 0..Base+Base-1 /\ rem \in 0..Limit-1 /\ b \in 0..Base+Base-1
      BY StreamAssumption
    <2>3. unread' \in Seq(Bytes)
      BY <2>1, <2>2, <1>0, BytesOfProperties, ConcatIndex
    <2>4. sent' \in Seq(Packets)
      <3>1. [type |-> t, rem |-> rem] \in Packets
        BY <2>2 DEF Packets
      <3>2. QED
        BY <3>1, <2>1, AppendProperties DEF ReadInv, TypeOK
    <2>5. QED
      BY <1>1, <2>3, <2>4
         DEF BrokerSends, ReadInv, TypeOK, Reading, reader, writer, NoDelivery
  <1>2. ASSUME ReadHeader PROVE ReadInv'
    <2>1. unread' \in Seq(Bytes)
      <3>1. 1 \in 0..Len(unread)
        BY <1>0, <1>2, EmptySeq DEF ReadHeader
      <3>2. QED
        BY <3>1, <1>0, <1>2, DropProperties DEF ReadHeader, Take
    <2>2. type' \in 0..Base+Base-1
      <3>1. Head(unread) \in Bytes
        BY <1>0, <1>2, HeadTailProperties DEF ReadHeader
      <3>2. QED
        BY <3>1, <1>2 DEF ReadHeader, Bytes
    <2>3. len' = 0 /\ rem_len' = 0 /\ bytes' = 0 /\ pc' = "length"
      BY <1>2 DEF ReadHeader, ReadInv, Reading
    <2>4. 0 < Weight[0+1] /\ 0 < Digits
      BY Weights DEF Digits
    <2>5. QED
      BY <1>2, <2>1, <2>2, <2>3, <2>4
         DEF ReadHeader, ReadInv, TypeOK, Reading, writer, NoDelivery
  <1>3. ASSUME ReadDigit PROVE ReadInv'
    <2> DEFINE c == Head(unread).value
               rem == rem_len + (c % Base) * Weight[len+1]
    <2>1. unread' \in Seq(Bytes)
      <3>1. 1 \in 0..Len(unread)
        BY <1>0, <1>3, EmptySeq DEF ReadDigit
      <3>2. QED
        BY <3>1, <1>0, <1>3, DropProperties DEF ReadDigit, Take
    <2>2. c \in Nat
      <3>1. Head(unread) \in Bytes
        BY <1>0, <1>3, HeadTailProperties DEF ReadDigit
      <3>2. QED
        BY <3>1 DEF Bytes
    <2>3. /\ len \in Nat /\ len < Digits /\ rem_len \in Nat
          /\ rem_len < Weight[len+1] /\ bytes = 0 /\ pc = "length"
      BY <1>3, Weights DEF ReadDigit, ReadInv, TypeOK, Reading, Digits
    <2>4. len + 1 \in 1..Digits
      BY <2>3 DEF Digits
    <2>5. PICK k \in 1..Digits : k = len + 1
      BY <2>4
    <2>6. rem \in Nat /\ rem < Weight[k+1]
      BY <2>2, <2>3, <2>5, DigitRead
    <2>7. rem \in 0..Limit-1
      <3>1. k + 1 \in 1..Digits+1
        BY DEF Digits
      <3>2. PICK w \in Nat : w = Weight[k+1] /\ w <= Limit
        BY <3>1, WeightBelowLimit
      <3>3. QED
        BY <3>2, <2>6, Weights DEF Digits
    <2> HIDE DEF c, rem
    <2>8. /\ pc' \in {"idle", "body", "deliver", "length"}
          /\ type' \in 0..Base+Base-1 /\ len' \in 0..Digits
          /\ rem_len' \in 0..Limit-1 /\ bytes' \in Nat
          /\ accepted' \in Seq(Packets)
          /\ Reading'
      <3>1. CASE c >= Base /\ len + 1 < Digits
        <4>1. /\ rem_len' = rem /\ len' = len + 1
              /\ UNCHANGED <<pc, type, bytes, accepted>>
          BY <1>3, <3>1 DEF ReadDigit, c, rem
        <4>2. rem < Weight[len'+1] /\ len' < Digits
          BY <4>1, <3>1, <2>5, <2>6
        <4>3. QED
          BY <4>1, <4>2, <2>3, <2>7, <3>1 DEF Reading, ReadInv, TypeOK, Digits
      <3>2. CASE ~(c >= Base /\ len + 1 < Digits)
        <4>1. LengthKnown(rem, len + 1)
          BY <1>3, <3>2 DEF ReadDigit, c, rem
        <4>2. len + 1 \in 0..Digits
          BY <2>4 DEF Digits
        <4>3. QED
          BY <4>1, <4>2, <2>3, <2>7, LengthIsKnown
      <3>3. QED
        BY <3>1, <3>2
    <2>9. UNCHANGED <<transport, writer, delivery, sent, interrupted>>
      BY <1>3 DEF ReadDigit
    <2>10. QED
      BY <2>1, <2>8, <2>9 DEF ReadInv, TypeOK, writer
  <1>4. ASSUME DigitTimesOut PROVE ReadInv'
    <2>1. /\ pc' \in {"idle", "body", "deliver"}
          /\ type' \in 0..Base+Base-1 /\ len' \in 0..Digits
          /\ rem_len' \in 0..Limit-1 /\ bytes' \in Nat
          /\ accepted' \in Seq(Packets)
          /\ Reading'
      BY <1>4, LengthIsKnown DEF DigitTimesOut, ReadInv, TypeOK, Reading
    <2>2. interrupted' = TRUE /\ UNCHANGED <<transport, unread, writer, delivery, sent>>
      BY <1>4 DEF DigitTimesOut
    <2>3. QED
      BY <2>1, <2>2 DEF ReadInv, TypeOK, writer
  <1>5. ASSUME BodyTimesOut PROVE ReadInv'
    BY <1>5, StreamAssumption, Weights
       DEF BodyTimesOut, Leave, ReadInv, TypeOK, Reading, writer, Digits
  <1>6. ASSUME NEW k \in 1..rem_len, ReadBody(k) PROVE ReadInv'
    <2>1. unread' \in Seq(Bytes)
      <3>1. rem_len \in Nat
        BY Weights DEF ReadInv, TypeOK, Digits
      <3>2. k \in 0..Len(unread)
        BY <3>1, <1>0, <1>6 DEF ReadBody
      <3>3. QED
        BY <3>2, <1>0, <1>6, DropProperties DEF ReadBody, Take
    <2>2. UNCHANGED <<transport, writer, delivery, sent>> /\ pc = "body"
      BY <1>6 DEF ReadBody
    <2>3. rem_len \in 0..Limit-1 /\ rem_len \in Nat /\ bytes < rem_len
      BY <2>2, Weights DEF ReadInv, TypeOK, Reading, Digits
    <2>4. CASE bytes + k = rem_len /\ Accept(rem_len) /\ UNCHANGED interrupted
      <3>1. [type |-> type, rem |-> rem_len] \in Packets
        BY DEF Packets, ReadInv, TypeOK
      <3>2. accepted' \in Seq(Packets)
        BY <2>4, <3>1, AppendProperties DEF Accept, ReadInv, TypeOK
      <3>3. /\ pc' \in {"idle", "deliver"}
            /\ type' = 0 /\ len' = 0 /\ rem_len' = 0 /\ bytes' = 0
        BY <2>4 DEF Accept, Leave
      <3>4. pc' # "length" /\ pc' # "body"
        BY <3>3
      <3>5. Reading'
        BY <3>3, <3>4 DEF Reading
      <3>6. QED
        BY <2>1, <2>2, <2>4, <3>2, <3>3, <3>5, ZeroInRange
           DEF ReadInv, TypeOK, writer
    <2>5. CASE /\ bytes + k # rem_len /\ transport = "lwip"
               /\ bytes' = bytes + k
               /\ UNCHANGED <<pc, reader, accepted, interrupted>>
      <3>1. bytes + k \in Nat /\ bytes + k < rem_len
        BY <1>0, <1>6, <2>3, <2>5 DEF ReadBody
      <3>2. QED
        BY <2>1, <2>2, <2>5, <3>1 DEF ReadInv, TypeOK, Reading, reader, writer
    <2>6. CASE /\ bytes + k # rem_len /\ transport = "tls"
               /\ Leave("idle")
               /\ interrupted' = TRUE
               /\ UNCHANGED accepted
      BY <2>1, <2>2, <2>6, StreamAssumption, Weights
         DEF Leave, ReadInv, TypeOK, Reading, writer, Digits
    <2>7. QED
      BY <1>6, <2>4, <2>5, <2>6 DEF ReadBody
  <1>7. ASSUME deliverMessage PROVE ReadInv'
    <2>1. PICK n \in Names, f \in Filters :
              delivery' = [name |-> n, filter |-> f, called |-> Selected(f, n)]
      BY <1>7 DEF deliverMessage
    <2>2. Selected(f, n) \in BOOLEAN
      BY DEF Selected
    <2>3. delivery' \in [name : Names, filter : Filters, called : BOOLEAN]
      BY <2>1, <2>2
    <2>4. QED
      BY <1>7, <2>3 DEF deliverMessage, ReadInv, TypeOK, Reading, reader, writer
  <1>8. ASSUME StartSend PROVE ReadInv'
    <2>1. PICK rem \in 0..Limit-1 : length' = 1 + Len(MQTTPacket_encode(rem)) + rem
      BY <1>8 DEF StartSend
    <2>2. length' \in Nat
      BY <2>1, EncodeProperties, DigitsOfProperties, Weights DEF Digits
    <2>3. sends' \in 0..MaxPackets
      BY <1>8, StreamAssumption, LenProperties DEF StartSend, ReadInv, TypeOK
    <2>4. QED
      BY <1>8, <2>2, <2>3 DEF StartSend, ReadInv, TypeOK, Reading, reader, NoDelivery
  <1>9. ASSUME SendReturns PROVE ReadInv'
    BY <1>9 DEF SendReturns, ReadInv, TypeOK, Reading, reader
  <1>10. ASSUME NEW k \in 1..length, mqttwrite(k) PROVE ReadInv'
    <2>1. k \in Nat
      BY DEF ReadInv, TypeOK
    <2> DEFINE w == [i \in 1..k |-> bytes + i]
    <2>2. w \in Seq(Nat)
      <3>1. w \in [1..k -> Nat]
        BY <1>0, <2>1
      <3>2. QED
        BY <3>1, <2>1, FunctionIsSeq
    <2>3. wire' \in Seq(Nat)
      BY <1>10, <2>2, ConcatIndex DEF mqttwrite, ReadInv, TypeOK
    <2>4. QED
      BY <1>0, <1>10, <2>1, <2>3 DEF mqttwrite, ReadInv, TypeOK, Reading, reader
  <1>11. CASE UNCHANGED vars
    BY <1>11 DEF vars, reader, writer, ReadInv, TypeOK, Reading
  <1>12. QED
    BY <1>1, <1>2, <1>3, <1>4, <1>5, <1>6, <1>7, <1>8, <1>9, <1>10, <1>11 DEF Next

LEMMA ReadCorrect == Spec => []ReadInv
  BY ReadInit, ReadStep, PTL DEF Spec

\* The remaining length stays below the fifth multiplier whatever bytes come
\* (decodePacket stops after four digits), and all the rest has its type.
THEOREM StreamTypeCorrect == Spec => []TypeOK
  <1>1. ReadInv => TypeOK
    BY DEF ReadInv
  <1>2. QED
    BY <1>1, ReadCorrect, PTL

\* What readPacket puts back into the buffer is what the deserialisers read,
\* for every length.
THEOREM LengthIsPutBack == Spec => []LengthPutBack
  <1>1. ReadInv => LengthPutBack
    <2> SUFFICES ASSUME ReadInv PROVE LengthPutBack
      OBVIOUS
    <2>1. rem_len \in 0..Limit-1
      BY DEF ReadInv, TypeOK
    <2>2. QED
      BY <2>1, LengthRoundTrip DEF LengthPutBack
  <1>2. QED
    BY <1>1, ReadCorrect, PTL

-----------------------------------------------------------------------------
(* sendPacket *)

Writing ==
    /\ pc # "write" => wire = <<>>
    /\ pc = "write" => /\ wire \in Seq(Nat) /\ Len(wire) = bytes
                       /\ \A i \in 1..bytes : wire[i] = i
                       /\ \E rem \in 0..Limit-1 :
                             length = 1 + Len(MQTTPacket_encode(rem)) + rem

LEMMA WriteInit == Init => Writing
  BY DEF Init, Writing

LEMMA WriteStep == ReadInv /\ Writing /\ [Next]_vars => Writing'
  <1> SUFFICES ASSUME ReadInv, Writing, [Next]_vars PROVE Writing'
    OBVIOUS
  <1>1. ASSUME pc # "write", pc' # "write", UNCHANGED writer PROVE Writing'
    BY <1>1 DEF Writing, writer
  <1>2. CASE BrokerSends
    BY <1>2 DEF BrokerSends, Writing, writer
  <1>3. CASE ReadHeader
    BY <1>1, <1>3 DEF ReadHeader
  <1>4. ASSUME NEW rem, NEW n, LengthKnown(rem, n) PROVE pc' # "write"
    BY <1>4 DEF LengthKnown, Accept, Leave
  <1>5. CASE ReadDigit
    <2>1. pc = "length" /\ UNCHANGED writer
      BY <1>5 DEF ReadDigit
    <2>2. pc' # "write"
      BY <1>4, <1>5, <2>1 DEF ReadDigit
    <2>3. QED
      BY <1>1, <2>1, <2>2
  <1>6. CASE DigitTimesOut
    BY <1>1, <1>4, <1>6 DEF DigitTimesOut
  <1>7. CASE BodyTimesOut
    BY <1>1, <1>7 DEF BodyTimesOut, Leave
  <1>8. ASSUME NEW k \in 1..rem_len, ReadBody(k) PROVE Writing'
    <2>1. pc = "body" /\ UNCHANGED writer
      BY <1>8 DEF ReadBody
    <2>2. pc' # "write"
      BY <1>8 DEF ReadBody, Accept, Leave
    <2>3. QED
      BY <1>1, <2>1, <2>2
  <1>9. CASE deliverMessage
    BY <1>1, <1>9 DEF deliverMessage
  <1>10. CASE StartSend
    <2>1. /\ pc = "idle" /\ pc' = "write" /\ bytes' = bytes /\ wire' = wire
          /\ \E rem \in 0..Limit-1 : length' = 1 + Len(MQTTPacket_encode(rem)) + rem
      BY <1>10 DEF StartSend
    <2>2. wire = <<>> /\ bytes = 0
      BY <2>1 DEF Writing, ReadInv, Reading
    <2>3. wire' \in Seq(Nat) /\ Len(wire') = bytes' /\ \A i \in 1..bytes' : wire'[i] = i
      BY <2>1, <2>2
    <2>4. QED
      BY <2>1, <2>3 DEF Writing
  <1>11. CASE SendReturns
    BY <1>11 DEF SendReturns, Writing
  <1>12. ASSUME NEW k \in 1..length, mqttwrite(k) PROVE Writing'
    <2>1. /\ pc = "write" /\ pc' = "write" /\ length' = length
          /\ bytes' = bytes + k
          /\ wire' = wire \o [i \in 1..k |-> bytes + i]
      BY <1>12 DEF mqttwrite
    <2>2. k \in Nat /\ bytes \in Nat
      BY DEF ReadInv, TypeOK
    <2>3. /\ wire \in Seq(Nat) /\ Len(wire) = bytes
          /\ \A i \in 1..bytes : wire[i] = i
          /\ \E rem \in 0..Limit-1 : length = 1 + Len(MQTTPacket_encode(rem)) + rem
      BY <2>1 DEF Writing
    <2>4. PICK w : w = [i \in 1..k |-> bytes + i]
      OBVIOUS
    <2>5. w \in [1..k -> Nat]
      BY <2>2, <2>4
    <2>6. w \in Seq(Nat) /\ Len(w) = k
      BY <2>2, <2>5, FunctionIsSeq
    <2>7. /\ wire \o w \in Seq(Nat)
          /\ Len(wire \o w) = bytes + k
          /\ \A i \in 1..bytes : (wire \o w)[i] = wire[i]
          /\ \A i \in 1..k : (wire \o w)[bytes+i] = w[i]
      <3> wire \in Seq(Nat) /\ w \in Seq(Nat)
        BY <2>3, <2>6
      <3>1. /\ wire \o w \in Seq(Nat)
            /\ Len(wire \o w) = Len(wire) + Len(w)
            /\ \A i \in 1..Len(wire) : (wire \o w)[i] = wire[i]
            /\ \A i \in 1..Len(w) : (wire \o w)[Len(wire)+i] = w[i]
        BY ConcatIndex
      <3>2. QED
        BY <3>1, <2>3, <2>6
    <2>8. ASSUME NEW i \in 1..bytes + k PROVE (wire \o w)[i] = i
      <3>1. CASE i <= bytes
        <4>1. i \in 1..bytes
          BY <3>1, <2>2
        <4>2. QED
          BY <4>1, <2>3, <2>7
      <3>2. CASE i > bytes
        <4>1. PICK j \in 1..k : j = i - bytes
          BY <3>2, <2>2
        <4>2. i = bytes + j /\ w[j] = bytes + j
          BY <4>1, <2>2, <2>4
        <4>3. QED
          BY <4>2, <2>7
      <3>3. i \in Int /\ bytes \in Int
        BY <2>2
      <3>4. i <= bytes \/ i > bytes
        BY <3>3
      <3>5. QED
        BY <3>1, <3>2, <3>4
    <2>9. wire' = wire \o w
      BY <2>1, <2>4
    <2>10. wire' \in Seq(Nat) /\ Len(wire') = bytes' /\ \A i \in 1..bytes' : wire'[i] = i
      BY <2>1, <2>7, <2>8, <2>9
    <2>11. QED
      BY <2>1, <2>3, <2>10 DEF Writing
  <1>13. CASE UNCHANGED vars
    BY <1>13 DEF vars, writer, Writing
  <1>14. QED
    BY <1>2, <1>3, <1>5, <1>6, <1>7, <1>8, <1>9, <1>10, <1>11, <1>12, <1>13 DEF Next

LEMMA WriteCorrect == Spec => [](ReadInv /\ Writing)
  <1>1. Init => ReadInv /\ Writing
    BY ReadInit, WriteInit
  <1>2. ReadInv /\ Writing /\ [Next]_vars => (ReadInv /\ Writing)'
    BY ReadStep, WriteStep
  <1>3. QED
    BY <1>1, <1>2, PTL DEF Spec

\* However the writes are split, the bytes written so far are the first ones
\* of the packet, once each; sendPacket reports success only with all of them.
THEOREM SuccessfulSendIsWhole == Spec => []SuccessIsWhole
  <1>1. ReadInv /\ Writing => SuccessIsWhole
    <2> SUFFICES ASSUME ReadInv, Writing, pc = "write", bytes = length
                 PROVE  wire = [i \in 1..length |-> i]
      BY DEF SuccessIsWhole
    <2>1. wire \in Seq(Nat) /\ Len(wire) = length /\ \A i \in 1..length : wire[i] = i
      BY DEF Writing
    <2>2. wire = [i \in 1..length |-> wire[i]]
      BY <2>1, LenProperties
    <2>3. QED
      BY <2>1, <2>2
  <1>2. QED
    BY <1>1, WriteCorrect, PTL

\* The check against the size of the buffer never lets a packet pass that does
\* not fit, for every remaining length.
THEOREM PacketsFit == Spec => []PacketFits
  <1>1. ReadInv /\ Writing => PacketFits
    <2> SUFFICES ASSUME Writing, pc = "write" PROVE PacketFits
      BY DEF PacketFits
    <2>1. PICK rem \in 0..Limit-1 : length = 1 + Len(MQTTPacket_encode(rem)) + rem
      BY DEF Writing
    <2>2. MQTTPacket_len(rem) - length \in {0, 1}
      BY <2>1, LengthBound
    <2>3. length \in Int /\ MQTTPacket_len(rem) \in Int
      <3>1. rem \in Nat /\ Weight[2] \in Nat /\ Weight[3] \in Nat /\ Weight[4] \in Nat
        BY Weights DEF Digits
      <3>2. Len(MQTTPacket_encode(rem)) \in Nat
        BY EncodeProperties, DigitsOfProperties DEF Digits
      <3>3. QED
        BY <2>1, <3>1, <3>2 DEF MQTTPacket_len
    <2>4. MQTTPacket_len(rem) \in {length, length + 1}
      BY <2>2, <2>3
    <2>5. QED
      BY <2>1, <2>4 DEF PacketFits
  <1>2. QED
    BY <1>1, WriteCorrect, PTL

-----------------------------------------------------------------------------
(* readPacket stays in step with the broker                                 *)

Size(p) == 1 + DigitsOf(p.rem) + p.rem

\* c is a correct i-th byte of the packet p
IsByte(p, i, c) ==
    /\ i = 1 => c = [value |-> p.type, place |-> "header"]
    /\ i \in 2..1+DigitsOf(p.rem) =>
           c = [value |-> MQTTPacket_encode(p.rem)[i-1], place |-> "length"]
    /\ i > 1 + DigitsOf(p.rem) => c.place = "body"

\* w is all of p
IsPacket(p, w) ==
    Len(w) = Size(p) /\ \A i \in 1..Size(p) : IsByte(p, i, w[i])

\* u is what is left of the packets of s after the first n: the packet k starts
\* at at[k], which lies before u for one that is partly read, and the next one
\* where it ends.
Framed(at, s, n, u) ==
    /\ at[Len(s)+1] = Len(u) + 1
    /\ \A k \in n+1..Len(s) : at[k+1] = at[k] + Size(s[k])
    /\ \A j, k \in n+1..Len(s)+1 : j < k => at[j] < at[k]
    /\ \A k \in n+1..Len(s) : \A i \in 1..Size(s[k]) :
           at[k] + i > 1 => IsByte(s[k], i, u[at[k]+i-1])

\* as above, and c bytes of the packet n + 1 are read
FramedFrom(s, n, u, c) ==
    \E at \in [1..Len(s)+1 -> Int] : Framed(at, s, n, u) /\ at[n+1] = 1 - c

LEMMA SizeProperties ==
    ASSUME NEW p \in Packets
    PROVE  /\ p.rem \in Nat /\ p.rem \in 0..Limit-1 /\ p.type \in 0..Base+Base-1
           /\ DigitsOf(p.rem) \in Nat \ {0}
           /\ Size(p) \in Nat /\ Size(p) > 1
  <1>1. p.rem \in 0..Limit-1 /\ p.type \in 0..Base+Base-1
    BY DEF Packets
  <1>2. p.rem \in Nat
    BY <1>1, Weights DEF Digits
  <1>3. DigitsOf(p.rem) \in Nat \ {0}
    BY <1>1, DigitsOfProperties DEF Digits
  <1>4. QED
    BY <1>1, <1>2, <1>3 DEF Size

\* the bytes of the packet that is read next
LEMMA NextByte ==
    ASSUME NEW s \in Seq(Packets), NEW n \in Nat, n < Len(s),
           NEW u \in Seq(Bytes), NEW at \in [1..Len(s)+1 -> Int],
           Framed(at, s, n, u),
           NEW j \in Nat, at[n+1] = 1 - j, j < Size(s[n+1])
    PROVE  /\ s[n+1] \in Packets
           /\ Len(u) >= Size(s[n+1]) - j
           /\ IsByte(s[n+1], j+1, u[1])
           /\ at[n+2] = 1 - j + Size(s[n+1])
  <1>1. Len(s) \in Nat /\ Len(u) \in Nat
    OBVIOUS
  <1>2. n+1 \in 1..Len(s) /\ n+1 \in n+1..Len(s)
    BY <1>1
  <1>3. s[n+1] \in Packets
    BY <1>2, ElementOfSeq
  <1>4. PICK z \in Nat : z = Size(s[n+1])
    BY <1>3, SizeProperties
  <1>5. at[(n+1)+1] = at[n+1] + z
    BY <1>2, <1>4 DEF Framed
  <1>6. (n+1)+1 = n+2 /\ at[n+2] = 1 - j + z
    BY <1>5
  <1>7. at[n+2] <= at[Len(s)+1]
    <2>1. CASE n+2 = Len(s)+1
      BY <2>1, <1>6, <1>4
    <2>2. CASE n+2 # Len(s)+1
      <3>1. n+2 \in n+1..Len(s)+1 /\ Len(s)+1 \in n+1..Len(s)+1 /\ n+2 < Len(s)+1
        BY <1>1, <2>2
      <3>2. at[n+2] < at[Len(s)+1]
        BY <3>1 DEF Framed
      <3>3. at[n+2] \in Int /\ at[Len(s)+1] \in Int
        BY <1>1, <1>2
      <3>4. QED
        BY <3>2, <3>3
    <2>3. QED
      BY <2>1, <2>2
  <1>8. Len(u) >= z - j
    <2>1. at[Len(s)+1] = Len(u) + 1
      BY DEF Framed
    <2>2. QED
      BY <2>1, <1>1, <1>4, <1>6, <1>7
  <1>9. IsByte(s[n+1], j+1, u[1])
    <2>1. j+1 \in 1..Size(s[n+1])
      BY <1>4
    <2>2. at[n+1] + (j+1) > 1 /\ at[n+1] + (j+1) - 1 = 1
      OBVIOUS
    <2>3. IsByte(s[n+1], j+1, u[at[n+1]+(j+1)-1])
      BY <1>2, <2>1, <2>2 DEF Framed
    <2>4. QED
      BY <2>2, <2>3
  <1>10. QED
    BY <1>3, <1>4, <1>6, <1>8, <1>9

\* m bytes are taken
LEMMA FramedAfterTake ==
    ASSUME NEW s \in Seq(Packets), NEW n \in Nat, n <= Len(s),
           NEW u \in Seq(Bytes), NEW at \in [1..Len(s)+1 -> Int],
           Framed(at, s, n, u), NEW m \in 0..Len(u)
    PROVE  LET moved == [k \in 1..Len(s)+1 |-> at[k] - m]
           IN  /\ moved \in [1..Len(s)+1 -> Int]
               /\ Framed(moved, s, n, SubSeq(u, m+1, Len(u)))
  <1> DEFINE moved == [k \in 1..Len(s)+1 |-> at[k] - m]
             v == SubSeq(u, m+1, Len(u))
  <1>1. Len(s) \in Nat /\ Len(u) \in Nat /\ m \in Nat
    OBVIOUS
  <1>2. /\ Len(v) = Len(u) - m
        /\ \A i \in 1..Len(u)-m : v[i] = u[i+m]
    BY DropProperties
  <1>3. \A k \in 1..Len(s)+1 : moved[k] = at[k] - m /\ at[k] \in Int
    OBVIOUS
  <1>4. moved \in [1..Len(s)+1 -> Int]
    BY <1>1
  <1> HIDE DEF moved, v
  <1>5. moved[Len(s)+1] = Len(v) + 1
    <2>1. at[Len(s)+1] = Len(u) + 1 /\ Len(s)+1 \in 1..Len(s)+1
      BY <1>1 DEF Framed
    <2>2. QED
      BY <2>1, <1>1, <1>2, <1>3
  <1>6. ASSUME NEW k \in n+1..Len(s)
        PROVE  /\ moved[k+1] = moved[k] + Size(s[k])
               /\ s[k] \in Packets
    <2>1. k \in 1..Len(s) /\ k \in 1..Len(s)+1 /\ k+1 \in 1..Len(s)+1
      BY <1>1
    <2>2. s[k] \in Packets
      BY <2>1, ElementOfSeq
    <2>3. PICK z \in Nat : z = Size(s[k])
      BY <2>2, SizeProperties
    <2>4. at[k+1] = at[k] + z
      BY <2>3 DEF Framed
    <2>5. PICK a, b \in Int : /\ a = at[k] /\ b = at[k+1]
                              /\ moved[k] = a - m /\ moved[k+1] = b - m
      BY <2>1, <1>3
    <2>6. b - m = (a - m) + z
      BY <2>4, <2>5, <2>3, <1>1
    <2>7. QED
      BY <2>2, <2>3, <2>5, <2>6
  <1>7. ASSUME NEW j \in n+1..Len(s)+1, NEW k \in n+1..Len(s)+1, j < k
        PROVE  moved[j] < moved[k]
    <2>1. j \in 1..Len(s)+1 /\ k \in 1..Len(s)+1
      BY <1>1
    <2>2. at[j] < at[k]
      BY <1>7 DEF Framed
    <2>3. QED
      BY <2>1, <2>2, <1>1, <1>3
  <1>8. ASSUME NEW k \in n+1..Len(s), NEW i \in 1..Size(s[k]), moved[k] + i > 1
        PROVE  IsByte(s[k], i, v[moved[k]+i-1])
    <2>1. k \in 1..Len(s) /\ k \in 1..Len(s)+1 /\ k+1 \in 1..Len(s)+1 /\ k \in Int
      BY <1>1
    <2>2. PICK z \in Nat : z = Size(s[k])
      BY <1>6, SizeProperties
    <2>3. PICK a \in Int : a = at[k] /\ moved[k] = a - m
      BY <2>1, <1>3
    <2>4. i \in 1..z /\ i \in Nat
      BY <2>2
    <2>5. a + i > 1
      BY <2>3, <2>4, <1>1, <1>8
    <2>6. IsByte(s[k], i, u[a+i-1])
      BY <2>3, <2>5 DEF Framed
    <2>7. a + z <= Len(u) + 1
      <3>1. at[k+1] = a + z /\ at[Len(s)+1] = Len(u) + 1
        BY <2>2, <2>3 DEF Framed
      <3>2. CASE k = Len(s)
        BY <3>1, <3>2, <1>1, <2>2, <2>3
      <3>3. CASE k # Len(s)
        <4>1. k+1 \in n+1..Len(s)+1 /\ Len(s)+1 \in n+1..Len(s)+1 /\ k+1 < Len(s)+1
          BY <1>1, <3>3
        <4>2. at[k+1] < at[Len(s)+1]
          BY <4>1 DEF Framed
        <4>3. QED
          BY <3>1, <4>2, <1>1, <2>2, <2>3
      <3>4. QED
        BY <3>2, <3>3
    <2>8. PICK q \in Int : q = (a - m)+i-1 /\ q = moved[k]+i-1 /\ q + m = a+i-1
      <3>1. (a - m)+i-1 \in Int /\ ((a - m)+i-1) + m = a+i-1
        BY <2>4, <1>1
      <3>2. (a - m)+i-1 = moved[k]+i-1
        BY <2>3
      <3>3. QED
        BY <3>1, <3>2
    <2>9. q \in 1..Len(u)-m
      <3>1. q > 0
        BY <2>3, <2>4, <2>8, <1>1, <1>8
      <3>2. a + i - 1 <= Len(u)
        BY <2>2, <2>3, <2>4, <2>7, <1>1
      <3>3. QED
        BY <3>1, <3>2, <2>8, <1>1
    <2>10. v[q] = u[a+i-1]
      BY <2>8, <2>9, <1>2
    <2>11. QED
      BY <2>6, <2>8, <2>10
  <1>9. Framed(moved, s, n, v)
    BY <1>5, <1>6, <1>7, <1>8 DEF Framed
  <1>10. QED
    BY <1>4, <1>9 DEF moved, v

\* the packet read last is counted
LEMMA FramedAfterAccept ==
    ASSUME NEW s \in Seq(Packets), NEW n \in Nat, n < Len(s), NEW u, NEW at,
           Framed(at, s, n, u)
    PROVE  Framed(at, s, n+1, u)
  <1>1. Len(s) \in Nat
    OBVIOUS
  <1>2. /\ \A k \in (n+1)+1..Len(s) : k \in n+1..Len(s)
        /\ \A k \in (n+1)+1..Len(s)+1 : k \in n+1..Len(s)+1
    BY <1>1
  <1>3. QED
    BY <1>2 DEF Framed

LEMMA BrokersBytes ==
    ASSUME NEW t \in 0..Base+Base-1, NEW rem \in 0..Limit-1,
           NEW b \in 0..Base+Base-1
    PROVE  IsPacket([type |-> t, rem |-> rem], BytesOf(t, rem, b))
  <1> DEFINE p == [type |-> t, rem |-> rem]
             D == DigitsOf(rem)
             w == BytesOf(t, rem, b)
  <1>1. p.type = t /\ p.rem = rem /\ p \in Packets
    BY DEF Packets
  <1>2. rem \in Nat /\ D \in Nat \ {0} /\ Size(p) = 1 + D + rem
    <2>1. rem \in Nat /\ D \in Nat \ {0}
      BY <1>1, SizeProperties
    <2>2. QED
      BY <2>1 DEF Size
  <1>3. /\ w[1] = [value |-> t, place |-> "header"]
        /\ \A j \in 1..D : w[1+j] = [value |-> MQTTPacket_encode(rem)[j], place |-> "length"]
        /\ \A j \in 1..rem : w[1+D+j].place = "body"
    BY BytesOfProperties
  <1> HIDE DEF w, D, p
  <1>8. ASSUME NEW i \in 1..Size(p) PROVE IsByte(p, i, w[i])
    <2>4. i \in Nat /\ i <= 1 + D + rem
      BY <1>2
    <2>5. ASSUME i \in 2..1+D
          PROVE  w[i] = [value |-> MQTTPacket_encode(rem)[i-1], place |-> "length"]
      <3>1. i - 1 \in 1..D /\ 1 + (i - 1) = i
        BY <1>2, <2>4, <2>5
      <3>2. w[1+(i-1)] = [value |-> MQTTPacket_encode(rem)[i-1], place |-> "length"]
        BY <3>1, <1>3
      <3>3. QED
        BY <3>1, <3>2
    <2>6. ASSUME i > 1 + D PROVE w[i].place = "body"
      <3>1. PICK j \in Int : j = i - (1 + D)
        BY <1>2, <2>4
      <3>2. j \in 1..rem /\ 1 + D + j = i
        BY <3>1, <1>2, <2>4, <2>6
      <3>3. QED
        BY <3>2, <1>3
    <2>7. QED
      BY <1>1, <1>3, <2>5, <2>6 DEF IsByte, D
  <1>9. Len(w) = Size(p)
    BY <1>2, BytesOfProperties DEF w, D
  <1>10. QED
    BY <1>8, <1>9 DEF IsPacket, w, p

LEMMA ConcatBytes ==
    \A s, t \in Seq(Bytes) :
        /\ s \o t \in Seq(Bytes)
        /\ Len(s \o t) = Len(s) + Len(t)
        /\ \A i \in 1..Len(s) : (s \o t)[i] = s[i]
        /\ \A i \in 1..Len(t) : (s \o t)[Len(s)+i] = t[i]
  BY ConcatIndex

\* where the packets start once p is appended
Grown(at, s, p) ==
    [k \in 1..Len(s)+2 |-> IF k <= Len(s)+1 THEN at[k] ELSE at[Len(s)+1] + Size(p)]

LEMMA FramedAfterSend ==
    ASSUME NEW s \in Seq(Packets), NEW n \in Nat, n <= Len(s),
           NEW u \in Seq(Bytes), NEW at \in [1..Len(s)+1 -> Int],
           Framed(at, s, n, u),
           NEW p \in Packets, NEW w \in Seq(Bytes), IsPacket(p, w)
    PROVE  /\ Grown(at, s, p) \in [1..Len(Append(s, p))+1 -> Int]
           /\ Framed(Grown(at, s, p), Append(s, p), n, u \o w)
           /\ \A k \in 1..Len(s)+1 : Grown(at, s, p)[k] = at[k]
  <1> DEFINE grown == Grown(at, s, p)
             t == Append(s, p)
             x == u \o w
  <1>1. PICK l, e, z \in Nat : l = Len(s) /\ e = Len(u) /\ z = Size(p) /\ z > 1
    BY SizeProperties
  <1>2. /\ Len(t) = l + 1 /\ t[l+1] = p /\ t \in Seq(Packets)
        /\ \A k \in 1..l : t[k] = s[k]
    BY <1>1, AppendProperties
  <1>3. /\ x \in Seq(Bytes) /\ Len(x) = e + z
        /\ \A i \in 1..e : x[i] = u[i]
        /\ \A i \in 1..z : x[e+i] = w[i]
    <2>1. /\ u \o w \in Seq(Bytes)
          /\ Len(u \o w) = Len(u) + Len(w)
          /\ \A i \in 1..Len(u) : (u \o w)[i] = u[i]
          /\ \A i \in 1..Len(w) : (u \o w)[Len(u)+i] = w[i]
      BY ConcatBytes
    <2>2. Len(u) = e /\ Len(w) = z
      BY <1>1 DEF IsPacket
    <2>3. QED
      BY <2>1, <2>2
  <1>4. /\ at[l+1] = e + 1
        /\ \A k \in 1..l+1 : grown[k] = at[k] /\ at[k] \in Int
        /\ grown[l+2] = e + 1 + z
    <2>1. at[l+1] = e + 1 /\ at \in [1..l+1 -> Int]
      BY <1>1 DEF Framed
    <2>2. \A k \in 1..l+1 : grown[k] = at[k] /\ at[k] \in Int
      BY <2>1, <1>1 DEF Grown
    <2>3. l+2 \in 1..l+2 /\ ~(l+2 <= l+1)
      BY <1>1
    <2>4. grown[l+2] = at[l+1] + z
      BY <2>3, <1>1 DEF Grown
    <2>5. QED
      BY <2>1, <2>2, <2>4, <1>1
  <1>5. grown \in [1..(l+1)+1 -> Int]
    <2>1. grown = [k \in 1..l+2 |-> IF k <= l+1 THEN at[k] ELSE at[l+1] + z]
      BY <1>1 DEF Grown
    <2>2. \A k \in 1..l+2 : (IF k <= l+1 THEN at[k] ELSE at[l+1] + z) \in Int
      BY <1>1, <1>4
    <2>3. (l+1)+1 = l+2
      BY <1>1
    <2>4. QED
      BY <2>1, <2>2, <2>3
  <1> HIDE DEF grown, t, x
  <1>6. grown[Len(t)+1] = Len(x) + 1
    BY <1>1, <1>2, <1>3, <1>4
  <1>7. ASSUME NEW k \in n+1..Len(t) PROVE grown[k+1] = grown[k] + Size(t[k])
    <2>1. CASE k = l + 1
      BY <2>1, <1>1, <1>2, <1>4
    <2>2. CASE k # l + 1
      <3>1. k \in n+1..l /\ k \in 1..l /\ k \in 1..l+1 /\ k+1 \in 1..l+1
        BY <2>2, <1>1, <1>2
      <3>2. at[k+1] = at[k] + Size(s[k])
        BY <3>1, <1>1 DEF Framed
      <3>3. QED
        BY <3>1, <3>2, <1>2, <1>4
    <2>3. QED
      BY <2>1, <2>2
  <1>8. ASSUME NEW j \in n+1..Len(t)+1, NEW k \in n+1..Len(t)+1, j < k
        PROVE  grown[j] < grown[k]
    <2>1. j \in n+1..l+1 /\ j \in 1..l+1 /\ l+1 \in n+1..l+1 /\ j \in Int
      BY <1>1, <1>2, <1>8
    <2>2. PICK a \in Int : a = at[j] /\ grown[j] = a
      BY <2>1, <1>4
    <2>3. CASE k = l + 2
      <3>1. a <= e + 1
        <4>1. CASE j = l + 1
          BY <4>1, <2>2, <1>1, <1>4
        <4>2. CASE j # l + 1
          <5>1. j < l + 1
            BY <4>2, <2>1, <1>1
          <5>2. at[j] < at[l+1]
            BY <5>1, <2>1, <1>1 DEF Framed
          <5>3. QED
            BY <5>2, <2>2, <1>1, <1>4
        <4>3. QED
          BY <4>1, <4>2
      <3>2. QED
        BY <3>1, <2>2, <2>3, <1>1, <1>4
    <2>4. CASE k # l + 2
      <3>1. k \in n+1..l+1 /\ k \in 1..l+1
        <4>1. k \in n+1..l+2
          BY <1>1, <1>2
        <4>2. QED
          BY <4>1, <2>4, <1>1
      <3>2. at[j] < at[k]
        BY <3>1, <2>1, <1>1, <1>8 DEF Framed
      <3>3. QED
        BY <3>1, <3>2, <2>1, <1>4
    <2>5. QED
      BY <2>3, <2>4
  <1>9. ASSUME NEW k \in n+1..Len(t), NEW i \in 1..Size(t[k]), grown[k] + i > 1
        PROVE  IsByte(t[k], i, x[grown[k]+i-1])
    <2>1. CASE k = l + 1
      <3>1. t[k] = p /\ grown[k] = e + 1 /\ i \in 1..z
        BY <2>1, <1>1, <1>2, <1>4
      <3>2. grown[k]+i-1 = e + i
        BY <3>1, <1>1
      <3>3. x[e+i] = w[i]
        BY <3>1, <1>3
      <3>4. IsByte(p, i, w[i])
        BY <3>1, <1>1 DEF IsPacket
      <3>5. QED
        BY <3>1, <3>2, <3>3, <3>4
    <2>2. CASE k # l + 1
      <3>1. k \in n+1..l /\ k \in 1..l /\ k \in 1..l+1 /\ k+1 \in n+1..l+1 /\ l+1 \in n+1..l+1
        BY <2>2, <1>1, <1>2
      <3>2. t[k] = s[k] /\ s[k] \in Packets
        BY <3>1, <1>1, <1>2, ElementOfSeq
      <3>3. PICK y \in Nat : y = Size(s[k])
        BY <3>2, SizeProperties
      <3>4. PICK a \in Int : a = at[k] /\ grown[k] = a
        BY <3>1, <1>4
      <3>5. i \in 1..y /\ a + i > 1
        BY <3>2, <3>3, <3>4, <1>9
      <3>6. IsByte(s[k], i, u[a+i-1])
        BY <3>1, <3>3, <3>4, <3>5, <1>1 DEF Framed
      <3>7. a + y <= e + 1
        <4>1. at[k+1] = a + y
          BY <3>1, <3>3, <3>4, <1>1 DEF Framed
        <4>2. CASE k = l
          BY <4>1, <4>2, <1>1, <1>4, <3>3, <3>4
        <4>3. CASE k # l
          <5>1. k+1 < l+1
            BY <4>3, <3>1, <1>1
          <5>2. at[k+1] < at[l+1]
            BY <5>1, <3>1, <1>1 DEF Framed
          <5>3. at[l+1] = e + 1
            BY <1>4
          <5>4. a + y < e + 1
            BY <5>2, <5>3, <4>1
          <5>5. QED
            BY <5>4
        <4>4. QED
          BY <4>2, <4>3
      <3>8. a+i-1 \in 1..e
        <4>1. i \in Int /\ i <= y /\ a \in Int
          BY <3>3, <3>4, <3>5
        <4>2. a+i-1 \in Int /\ a+i-1 >= 1
          BY <4>1, <3>5
        <4>3. a+i-1 <= e
          BY <4>1, <3>3, <3>7, <1>1
        <4>4. QED
          BY <4>2, <4>3
      <3>9. x[a+i-1] = u[a+i-1]
        BY <3>8, <1>3
      <3>10. QED
        BY <3>2, <3>4, <3>6, <3>9
    <2>3. QED
      BY <2>1, <2>2
  <1>10. Framed(grown, t, n, x)
    BY <1>6, <1>7, <1>8, <1>9 DEF Framed
  <1>11. /\ grown \in [1..Len(t)+1 -> Int]
         /\ \A k \in 1..Len(s)+1 : grown[k] = at[k]
    BY <1>1, <1>2, <1>4, <1>5
  <1>12. QED
    BY <1>10, <1>11 DEF grown, t, x

LEMMA FromStart == FramedFrom(<<>>, 0, <<>>, 0)
  <1> DEFINE at == [k \in 1..1 |-> 1]
  <1>1. at \in [1..Len(<<>>)+1 -> Int] /\ at[1] = 1
    OBVIOUS
  <1>2. Framed(at, <<>>, 0, <<>>)
    <2>1. \A j, k \in 1..1 : ~(j < k)
      OBVIOUS
    <2>2. QED
      BY <2>1 DEF Framed
  <1>3. QED
    BY <1>1, <1>2 DEF FramedFrom

LEMMA FromSend ==
    ASSUME NEW s \in Seq(Packets), NEW n \in Nat, n <= Len(s),
           NEW u \in Seq(Bytes), NEW c \in Nat, FramedFrom(s, n, u, c),
           NEW p \in Packets, NEW w \in Seq(Bytes), IsPacket(p, w)
    PROVE  FramedFrom(Append(s, p), n, u \o w, c)
  <1>1. PICK at \in [1..Len(s)+1 -> Int] : Framed(at, s, n, u) /\ at[n+1] = 1 - c
    BY DEF FramedFrom
  <1>2. /\ Grown(at, s, p) \in [1..Len(Append(s, p))+1 -> Int]
        /\ Framed(Grown(at, s, p), Append(s, p), n, u \o w)
        /\ \A k \in 1..Len(s)+1 : Grown(at, s, p)[k] = at[k]
    BY <1>1, FramedAfterSend
  <1>3. n+1 \in 1..Len(s)+1
    OBVIOUS
  <1>4. Grown(at, s, p)[n+1] = 1 - c
    BY <1>1, <1>2, <1>3
  <1>5. QED
    BY <1>2, <1>4 DEF FramedFrom

LEMMA FromTake ==
    ASSUME NEW s \in Seq(Packets), NEW n \in Nat, n <= Len(s),
           NEW u \in Seq(Bytes), NEW c \in Nat, FramedFrom(s, n, u, c),
           NEW m \in 0..Len(u)
    PROVE  FramedFrom(s, n, SubSeq(u, m+1, Len(u)), c + m)
  <1>1. PICK at \in [1..Len(s)+1 -> Int] : Framed(at, s, n, u) /\ at[n+1] = 1 - c
    BY DEF FramedFrom
  <1> DEFINE moved == [k \in 1..Len(s)+1 |-> at[k] - m]
  <1>2. /\ moved \in [1..Len(s)+1 -> Int]
        /\ Framed(moved, s, n, SubSeq(u, m+1, Len(u)))
    BY <1>1, FramedAfterTake
  <1>3. moved[n+1] = 1 - (c + m)
    <2>1. Len(s) \in Nat /\ Len(u) \in Nat /\ n+1 \in 1..Len(s)+1 /\ m \in Nat
      OBVIOUS
    <2>2. moved[n+1] = (1 - c) - m
      BY <2>1, <1>1
    <2>3. QED
      BY <2>1, <2>2
  <1> HIDE DEF moved
  <1>4. QED
    BY <1>2, <1>3 DEF FramedFrom

LEMMA FromAccept ==
    ASSUME NEW s \in Seq(Packets), NEW n \in Nat, n < Len(s),
           NEW u \in Seq(Bytes), FramedFrom(s, n, u, Size(s[n+1]))
    PROVE  FramedFrom(s, n+1, u, 0)
  <1>1. PICK at \in [1..Len(s)+1 -> Int] :
            Framed(at, s, n, u) /\ at[n+1] = 1 - Size(s[n+1])
    BY DEF FramedFrom
  <1>2. Framed(at, s, n+1, u)
    BY <1>1, FramedAfterAccept
  <1>3. n+1 \in 1..Len(s) /\ n+1 \in n+1..Len(s) /\ (n+1)+1 \in 1..Len(s)+1
    OBVIOUS
  <1>4. PICK z \in Nat : z = Size(s[n+1])
    BY <1>3, ElementOfSeq, SizeProperties
  <1>5. at[(n+1)+1] = at[n+1] + z
    BY <1>1, <1>3, <1>4 DEF Framed
  <1>6. at[(n+1)+1] = 1 - 0
    BY <1>1, <1>4, <1>5
  <1>7. QED
    BY <1>2, <1>6 DEF FramedFrom

LEMMA FromNext ==
    ASSUME NEW s \in Seq(Packets), NEW n \in Nat, n < Len(s),
           NEW u \in Seq(Bytes), NEW c \in Nat, FramedFrom(s, n, u, c),
           c < Size(s[n+1])
    PROVE  s[n+1] \in Packets /\ u # <<>> /\ IsByte(s[n+1], c+1, u[1])
  <1>1. PICK at \in [1..Len(s)+1 -> Int] : Framed(at, s, n, u) /\ at[n+1] = 1 - c
    BY DEF FramedFrom
  <1>2. /\ s[n+1] \in Packets
        /\ Len(u) >= Size(s[n+1]) - c
        /\ IsByte(s[n+1], c+1, u[1])
    BY <1>1, NextByte
  <1>3. Size(s[n+1]) \in Nat
    BY <1>2, SizeProperties
  <1>4. QED
    BY <1>2, <1>3

LEMMA FromEnd ==
    ASSUME NEW s \in Seq(Packets), NEW n \in Nat, n <= Len(s),
           NEW u \in Seq(Bytes), FramedFrom(s, n, u, 0)
    PROVE  u = <<>> <=> n = Len(s)
  <1>1. CASE n = Len(s)
    <2>1. PICK at : Framed(at, s, n, u) /\ at[n+1] = 1 - 0
      BY DEF FramedFrom
    <2>2. Len(u) + 1 = 1
      BY <2>1, <1>1 DEF Framed
    <2>3. QED
      BY <2>2, <1>1
  <1>2. CASE n < Len(s)
    <2>1. s[n+1] \in Packets
      BY <1>2, ElementOfSeq
    <2>2. 0 < Size(s[n+1])
      BY <2>1, SizeProperties
    <2>3. u # <<>>
      BY <2>2, <1>2, FromNext
    <2>4. QED
      BY <2>3, <1>2
  <1>3. QED
    BY <1>1, <1>2

\* bytes of the packet under way that readPacket has taken
Consumed == IF pc = "length" THEN 1 + len
            ELSE IF pc = "body" THEN 1 + DigitsOf(rem_len) + bytes
            ELSE 0

\* the packet under way
Here == sent[Len(accepted)+1]

\* What readPacket has returned is the beginning of what was sent, what is
\* still under way is the rest of it, and the variables of readPacket tell how
\* much of the packet between the two is read, and what was in it.
Framing ==
    ~interrupted =>
        /\ Len(accepted) <= Len(sent)
        /\ \A i \in 1..Len(accepted) : accepted[i] = sent[i]
        /\ FramedFrom(sent, Len(accepted), unread, Consumed)
        /\ pc \in {"length", "body"} => /\ Len(accepted) < Len(sent)
                                        /\ type = Here.type
        /\ pc = "length" =>
              /\ len < DigitsOf(Here.rem)
              /\ Here.rem = rem_len + Weight[len+1] * Left(Here.rem)[len+1]
        /\ pc = "body" => rem_len = Here.rem

LEMMA FramingInit == Init => Framing
  BY FromStart DEF Init, Framing, Consumed

LEMMA SendFrames == ReadInv /\ Framing /\ BrokerSends => Framing'
  <1> SUFFICES ASSUME ReadInv, Framing, BrokerSends, ~interrupted' PROVE Framing'
    BY DEF Framing
  <1>1. /\ interrupted' = interrupted /\ pc' = pc /\ type' = type /\ len' = len
        /\ rem_len' = rem_len /\ bytes' = bytes /\ accepted' = accepted
    BY DEF BrokerSends, reader
  <1>2. PICK t \in Types, rem \in Lengths, b \in Bodies :
            /\ sent' = Append(sent, [type |-> t, rem |-> rem])
            /\ unread' = unread \o BytesOf(t, rem, b)
    BY DEF BrokerSends
  <1>3. t \in 0..Base+Base-1 /\ rem \in 0..Limit-1 /\ b \in 0..Base+Base-1
    BY StreamAssumption
  <1>4. PICK p \in Packets : p = [type |-> t, rem |-> rem]
    BY <1>3 DEF Packets
  <1>5. PICK w \in Seq(Bytes) : w = BytesOf(t, rem, b) /\ IsPacket(p, w)
    BY <1>3, <1>4, BytesOfProperties, BrokersBytes
  <1>6. /\ sent \in Seq(Packets) /\ accepted \in Seq(Packets) /\ unread \in Seq(Bytes)
        /\ len \in Nat /\ bytes \in Nat /\ rem_len \in 0..Limit-1
    BY DEF ReadInv, TypeOK, Digits
  <1>7. PICK n \in Nat : n = Len(accepted)
    BY <1>6
  <1>8. PICK c \in Nat : c = Consumed
    <2>1. DigitsOf(rem_len) \in Nat
      BY <1>6, DigitsOfProperties DEF Digits
    <2>2. QED
      BY <2>1, <1>6 DEF Consumed
  <1>9. Consumed' = c
    BY <1>1, <1>8 DEF Consumed
  <1>10. ~interrupted /\ n <= Len(sent) /\ FramedFrom(sent, n, unread, c)
    BY <1>1, <1>7, <1>8 DEF Framing
  <1>11. FramedFrom(sent', n, unread', c)
    <2>1. FramedFrom(Append(sent, p), n, unread \o w, c)
      BY <1>5, <1>6, <1>10, FromSend
    <2>2. QED
      BY <2>1, <1>2, <1>4, <1>5
  <1>12. /\ Len(sent') = Len(sent) + 1
         /\ \A i \in 1..Len(sent) : sent'[i] = sent[i]
    BY <1>2, <1>4, <1>6, AppendProperties
  <1>13. Len(sent) \in Nat /\ n <= Len(sent')
    BY <1>6, <1>10, <1>12
  <1>14. \A i \in 1..n : accepted'[i] = sent'[i]
    <2>1. TAKE i \in 1..n
    <2>2. i \in 1..Len(sent)
      BY <1>10, <1>13
    <2>3. accepted[i] = sent[i]
      BY <1>7, <1>10 DEF Framing
    <2>4. QED
      BY <2>2, <2>3, <1>1, <1>12
  <1>15. ASSUME n < Len(sent) PROVE Here' = Here /\ n < Len(sent')
    <2>1. n + 1 \in 1..Len(sent)
      BY <1>13, <1>15
    <2>2. sent'[n+1] = sent[n+1]
      BY <2>1, <1>12
    <2>3. QED
      BY <2>2, <1>1, <1>7, <1>12, <1>13, <1>15 DEF Here
  <1>16. Len(accepted') = n
    BY <1>1, <1>7
  <1>17. /\ pc' \in {"length", "body"} => Len(accepted') < Len(sent') /\ type' = Here'.type
         /\ pc' = "length" =>
              /\ len' < DigitsOf(Here'.rem)
              /\ Here'.rem = rem_len' + Weight[len'+1] * Left(Here'.rem)[len'+1]
         /\ pc' = "body" => rem_len' = Here'.rem
    <2>1. CASE pc \in {"length", "body"}
      <3>1. n < Len(sent) /\ type = Here.type
        BY <2>1, <1>7, <1>10 DEF Framing
      <3>2. Here' = Here
        BY <3>1, <1>15
      <3>3. QED
        BY <2>1, <3>1, <3>2, <1>1, <1>10, <1>15, <1>16 DEF Framing
    <2>2. CASE pc \notin {"length", "body"}
      BY <2>2, <1>1
    <2>3. QED
      BY <2>1, <2>2
  <1>18. QED
    BY <1>9, <1>11, <1>13, <1>14, <1>16, <1>17 DEF Framing

\* Steps that touch neither the bytes under way nor the packets.
LEMMA IdleFrames ==
    ASSUME ReadInv, Framing, UNCHANGED <<unread, sent, accepted, interrupted>>,
           pc \notin {"length", "body"}, pc' \notin {"length", "body"}
    PROVE  Framing'
  <1>1. Consumed = 0 /\ Consumed' = 0
    BY DEF Consumed
  <1>2. QED
    BY <1>1 DEF Framing, Here

LEMMA HeaderFrames == ReadInv /\ Framing /\ ReadHeader => Framing'
  <1> SUFFICES ASSUME ReadInv, Framing, ReadHeader, ~interrupted' PROVE Framing'
    BY DEF Framing
  <1>1. /\ pc = "idle" /\ pc' = "length" /\ unread # <<>>
        /\ unread' = SubSeq(unread, 1+1, Len(unread)) /\ type' = Head(unread).value
        /\ UNCHANGED <<len, rem_len, bytes, sent, accepted, interrupted>>
    BY DEF ReadHeader, Take
  <1>2. /\ sent \in Seq(Packets) /\ accepted \in Seq(Packets) /\ unread \in Seq(Bytes)
        /\ len = 0 /\ rem_len = 0
    BY <1>1 DEF ReadInv, TypeOK, Reading
  <1>3. PICK n \in Nat : n = Len(accepted) /\ n <= Len(sent)
    BY <1>1, <1>2 DEF Framing
  <1>4. FramedFrom(sent, n, unread, 0)
    BY <1>1, <1>3 DEF Framing, Consumed
  <1>5. Len(sent) \in Nat /\ n < Len(sent)
    BY <1>1, <1>2, <1>3, <1>4, FromEnd
  <1>6. PICK p \in Packets : p = sent[n+1]
    BY <1>2, <1>5, ElementOfSeq
  <1>7. /\ p.rem \in 0..Limit-1 /\ p.rem \in Nat /\ DigitsOf(p.rem) > 0 /\ 0 < Size(p)
    BY SizeProperties
  <1>8. IsByte(p, 0+1, unread[1])
    BY <1>2, <1>4, <1>5, <1>6, <1>7, FromNext
  <1>9. type' = p.type
    <2>1. unread[1] = [value |-> p.type, place |-> "header"]
      BY <1>8 DEF IsByte
    <2>2. Head(unread) = unread[1]
      BY <1>1, <1>2, HeadTailProperties
    <2>3. QED
      BY <2>1, <2>2, <1>1
  <1>10. FramedFrom(sent, n, unread', 0 + 1)
    <2>1. 1 \in 0..Len(unread)
      BY <1>1, <1>2, EmptySeq
    <2>2. QED
      BY <2>1, <1>1, <1>2, <1>3, <1>4, FromTake
  <1>11. Consumed' = 0 + 1
    BY <1>1, <1>2 DEF Consumed
  <1>12. p.rem = 0 + Weight[0+1] * Left(p.rem)[0+1]
    BY <1>7, Weights, LeftProperties
  <1>13. Here' = p
    BY <1>1, <1>3, <1>6 DEF Here
  <1>14. QED
    BY <1>1, <1>2, <1>3, <1>5, <1>7, <1>9, <1>10, <1>11, <1>12, <1>13 DEF Framing

\* The length field says as much as the packet has.
LEMMA AcceptFrames ==
    ASSUME ReadInv, Framing, ~interrupted, Len(accepted) < Len(sent), type = Here.type,
           Accept(Here.rem), sent' = sent, interrupted' = interrupted,
           unread' \in Seq(Bytes),
           FramedFrom(sent, Len(accepted), unread', Size(Here))
    PROVE  Framing'
  <1>1. sent \in Seq(Packets) /\ accepted \in Seq(Packets)
    BY DEF ReadInv, TypeOK
  <1>2. PICK n \in Nat : n = Len(accepted) /\ n < Len(sent) /\ Len(sent) \in Nat
    BY <1>1
  <1>3. PICK p \in Packets : p = Here /\ p = sent[n+1]
    BY <1>1, <1>2, ElementOfSeq DEF Here
  <1>4. /\ accepted' = Append(accepted, [type |-> type, rem |-> p.rem])
        /\ pc' \in {"idle", "deliver"}
    BY <1>3 DEF Accept, Leave
  <1>5. p = [type |-> type, rem |-> p.rem]
    BY <1>3 DEF Packets
  <1>6. /\ Len(accepted') = n + 1 /\ accepted'[n+1] = p
        /\ \A i \in 1..n : accepted'[i] = accepted[i]
    BY <1>1, <1>2, <1>4, <1>5, AppendProperties
  <1>7. \A i \in 1..n+1 : accepted'[i] = sent'[i]
    <2>1. TAKE i \in 1..n+1
    <2>2. CASE i = n + 1
      BY <2>2, <1>3, <1>6
    <2>3. CASE i # n + 1
      <3>1. i \in 1..n
        BY <2>3
      <3>2. QED
        BY <3>1, <1>2, <1>6 DEF Framing
    <2>4. QED
      BY <2>2, <2>3
  <1>8. FramedFrom(sent, n+1, unread', 0)
    BY <1>1, <1>2, <1>3, FromAccept
  <1>9. Consumed' = 0
    BY <1>4 DEF Consumed
  <1>10. QED
    BY <1>2, <1>4, <1>6, <1>7, <1>8, <1>9 DEF Framing

LEMMA DigitFrames == ReadInv /\ Framing /\ ReadDigit => Framing'
  <1> SUFFICES ASSUME ReadInv, Framing, ReadDigit, ~interrupted' PROVE Framing'
    BY DEF Framing
  <1> DEFINE c == Head(unread).value
             rem == rem_len + (c % Base) * Weight[len+1]
  <1>1. /\ pc = "length" /\ unread # <<>>
        /\ unread' = SubSeq(unread, 1+1, Len(unread))
        /\ UNCHANGED <<sent, interrupted>>
    BY DEF ReadDigit, Take
  <1>2. /\ sent \in Seq(Packets) /\ accepted \in Seq(Packets) /\ unread \in Seq(Bytes)
        /\ len \in Nat /\ len < Digits /\ bytes = 0
    BY <1>1 DEF ReadInv, TypeOK, Reading, Digits
  <1>3. PICK n \in Nat : n = Len(accepted) /\ n < Len(sent) /\ Len(sent) \in Nat
    <2>1. Len(accepted) < Len(sent)
      BY <1>1 DEF Framing
    <2>2. Len(accepted) \in Nat /\ Len(sent) \in Nat
      BY <1>2
    <2>3. QED
      BY <2>1, <2>2
  <1>4. PICK p \in Packets : p = sent[n+1] /\ p = Here
    BY <1>2, <1>3, ElementOfSeq DEF Here
  <1>5. PICK D \in 1..Digits : D = DigitsOf(p.rem)
    BY SizeProperties, DigitsOfProperties
  <1>6. /\ type = p.type /\ len < D
        /\ p.rem = rem_len + Weight[len+1] * Left(p.rem)[len+1]
        /\ FramedFrom(sent, n, unread, 1 + len)
    BY <1>1, <1>3, <1>4, <1>5 DEF Framing, Consumed
  <1>7. /\ p.rem \in 0..Limit-1 /\ p.rem \in Nat
        /\ Size(p) = 1 + D + p.rem
    BY <1>5, SizeProperties DEF Size
  <1>8. IsByte(p, (1 + len) + 1, unread[1])
    <2>1. 1 + len \in Nat /\ 1 + len < Size(p)
      BY <1>2, <1>5, <1>6, <1>7 DEF Digits
    <2>2. QED
      BY <2>1, <1>2, <1>3, <1>4, <1>6, FromNext
  <1>9. PICK k \in 1..Digits : k = len + 1 /\ k \in 1..D
    BY <1>2, <1>5, <1>6 DEF Digits
  <1>10. c = MQTTPacket_encode(p.rem)[k]
    <2>1. (1 + len) + 1 \in 2..1+D /\ ((1 + len) + 1) - 1 = k
      BY <1>9, <1>5, <1>2 DEF Digits
    <2>2. unread[1] = [value |-> MQTTPacket_encode(p.rem)[k], place |-> "length"]
      BY <1>5, <1>8, <2>1 DEF IsByte
    <2>3. Head(unread) = unread[1]
      BY <1>1, <1>2, HeadTailProperties
    <2>4. QED
      BY <2>2, <2>3
  <1>11. /\ c % Base = Left(p.rem)[k] % Base
         /\ c >= Base <=> k < D
    BY <1>5, <1>7, <1>9, <1>10, EncodeProperties
  <1>12. /\ rem \in Nat
         /\ p.rem = rem + Weight[k+1] * Left(p.rem)[k+1]
    <2>1. PICK d, y, r, x \in Nat :
              /\ d = (Left(p.rem)[k] % Base) * Weight[k]
              /\ y = Weight[k+1] * Left(p.rem)[k+1]
              /\ r = rem_len
              /\ x = Weight[k] * Left(p.rem)[k]
      <3>1. /\ Left(p.rem)[k] % Base \in Nat /\ Weight[k] \in Nat
            /\ Weight[k+1] \in Nat /\ Left(p.rem)[k] \in Nat
            /\ Left(p.rem)[k+1] \in Nat
        BY <1>7, <1>9, LeftProperties, Weights DEF Digits
      <3>2. rem_len \in Nat
        BY Weights DEF ReadInv, TypeOK, Digits
      <3>3. PICK a, w, v, l, m \in Nat :
                /\ a = Left(p.rem)[k] % Base /\ w = Weight[k] /\ v = Weight[k+1]
                /\ l = Left(p.rem)[k] /\ m = Left(p.rem)[k+1]
        BY <3>1
      <3>4. a * w \in Nat /\ v * m \in Nat /\ w * l \in Nat
        OBVIOUS
      <3>5. QED
        BY <3>2, <3>3, <3>4
    <2>2. x = d + y
      BY <2>1, <1>7, <1>9, DigitStep
    <2>3. p.rem = r + x
      BY <2>1, <1>6, <1>9
    <2>4. rem = r + d
      BY <2>1, <1>9, <1>11
    <2>5. p.rem = (r + d) + y /\ r + d \in Nat
      BY <2>2, <2>3
    <2>6. QED
      BY <2>1, <2>4, <2>5
  <1>13. FramedFrom(sent, n, unread', (1 + len) + 1) /\ unread' \in Seq(Bytes)
    <2>1. 1 \in 0..Len(unread) /\ 1 + len \in Nat /\ n <= Len(sent)
      BY <1>1, <1>2, <1>3, EmptySeq
    <2>2. FramedFrom(sent, n, SubSeq(unread, 1+1, Len(unread)), (1 + len) + 1)
      BY <2>1, <1>2, <1>3, <1>6, FromTake
    <2>3. SubSeq(unread, 1+1, Len(unread)) \in Seq(Bytes)
      BY <2>1, <1>2, DropProperties
    <2>4. QED
      BY <2>2, <2>3, <1>1
  <1> HIDE DEF c, rem
  <1>14. CASE k < D
    <2>1. c >= Base /\ len + 1 < Digits
      BY <1>14, <1>5, <1>9, <1>11 DEF Digits
    <2>2. /\ rem_len' = rem /\ len' = len + 1
          /\ UNCHANGED <<pc, type, bytes, accepted>>
      BY <2>1 DEF ReadDigit, c, rem
    <2>3. Here' = p /\ Consumed' = (1 + len) + 1
      BY <2>2, <1>1, <1>2, <1>4 DEF Here, Consumed
    <2>4. QED
      BY <2>2, <2>3, <1>1, <1>3, <1>4, <1>5, <1>6, <1>9, <1>12, <1>13, <1>14
         DEF Framing
  <1>15. CASE k = D
    <2>1. ~(c >= Base)
      BY <1>15, <1>5, <1>11 DEF Digits
    <2>2. LengthKnown(rem, len + 1)
      BY <2>1 DEF ReadDigit, c, rem
    <2>3. rem = p.rem
      <3>1. Left(p.rem)[k+1] = 0 /\ Weight[k+1] \in Nat
        BY <1>5, <1>7, <1>15, DigitsOfProperties, Weights DEF Digits
      <3>2. QED
        BY <3>1, <1>12
    <2>4. CASE rem = 0 /\ Accept(0)
      <3>1. (1 + len) + 1 = Size(p)
        <4>1. p.rem = 0 /\ Size(p) = 1 + D + p.rem
          BY <2>3, <2>4, <1>7
        <4>2. D = len + 1 /\ len \in Nat
          BY <1>2, <1>9, <1>15
        <4>3. QED
          BY <4>1, <4>2
      <3>2. Accept(Here.rem)
        BY <2>3, <2>4, <1>4
      <3>3. QED
        BY <3>1, <3>2, <1>1, <1>3, <1>4, <1>6, <1>13, AcceptFrames
    <2>5. CASE /\ rem > 0
               /\ pc' = "body" /\ rem_len' = rem /\ len' = len + 1
               /\ UNCHANGED <<type, bytes, accepted>>
      <3>1. Consumed' = (1 + len) + 1
        <4>1. Consumed' = 1 + DigitsOf(rem_len') + bytes'
          BY <2>5 DEF Consumed
        <4>2. DigitsOf(rem_len') = D /\ bytes' = 0
          BY <2>3, <2>5, <1>2, <1>5
        <4>3. QED
          BY <4>1, <4>2, <1>2, <1>5, <1>9, <1>15 DEF Digits
      <3>2. Here' = p
        BY <2>5, <1>1, <1>4 DEF Here
      <3>3. QED
        BY <2>3, <2>5, <3>1, <3>2, <1>1, <1>3, <1>4, <1>6, <1>13 DEF Framing
    <2>6. QED
      BY <2>2, <2>4, <2>5 DEF LengthKnown
  <1>16. QED
    BY <1>5, <1>9, <1>14, <1>15 DEF Digits

LEMMA BodyFrames ==
    ASSUME NEW k \in 1..rem_len, ReadInv, Framing, ReadBody(k)
    PROVE  Framing'
  <1> SUFFICES ASSUME ~interrupted' PROVE Framing'
    BY DEF Framing
  <1>1. /\ pc = "body" /\ k <= rem_len - bytes /\ k <= Len(unread)
        /\ unread' = SubSeq(unread, k+1, Len(unread))
        /\ sent' = sent
    BY DEF ReadBody, Take
  <1>2. interrupted' = interrupted
    BY DEF ReadBody
  <1>3. /\ sent \in Seq(Packets) /\ accepted \in Seq(Packets) /\ unread \in Seq(Bytes)
        /\ bytes \in Nat /\ bytes < rem_len /\ rem_len \in Nat
    BY <1>1, Weights DEF ReadInv, TypeOK, Reading, Digits
  <1>4. PICK n \in Nat : n = Len(accepted) /\ n < Len(sent) /\ Len(sent) \in Nat
    BY <1>1, <1>2, <1>3 DEF Framing
  <1>5. PICK p \in Packets : p = sent[n+1] /\ p = Here
    BY <1>3, <1>4, ElementOfSeq DEF Here
  <1>6. PICK D \in Nat : D = DigitsOf(p.rem) /\ Size(p) = 1 + D + p.rem
    BY SizeProperties DEF Size
  <1>7. /\ type = p.type /\ rem_len = p.rem
        /\ FramedFrom(sent, n, unread, 1 + D + bytes)
    BY <1>1, <1>2, <1>4, <1>5, <1>6 DEF Framing, Consumed
  <1>8. FramedFrom(sent, n, unread', (1 + D + bytes) + k) /\ unread' \in Seq(Bytes)
    <2>1. k \in 0..Len(unread) /\ 1 + D + bytes \in Nat /\ n <= Len(sent)
      BY <1>1, <1>3, <1>4
    <2>2. FramedFrom(sent, n, SubSeq(unread, k+1, Len(unread)), (1 + D + bytes) + k)
      BY <2>1, <1>3, <1>4, <1>7, FromTake
    <2>3. SubSeq(unread, k+1, Len(unread)) \in Seq(Bytes)
      BY <2>1, <1>3, DropProperties
    <2>4. QED
      BY <2>2, <2>3, <1>1
  <1>9. CASE bytes + k = rem_len /\ Accept(rem_len)
    <2>1. (1 + D + bytes) + k = Size(p)
      BY <1>9, <1>3, <1>6, <1>7
    <2>2. QED
      BY <2>1, <1>1, <1>2, <1>4, <1>5, <1>7, <1>8, <1>9, AcceptFrames
  <1>10. CASE bytes' = bytes + k /\ UNCHANGED <<pc, reader, accepted>>
    <2>1. Consumed' = (1 + D + bytes) + k
      <3>1. Consumed' = 1 + DigitsOf(rem_len') + bytes'
        BY <1>1, <1>10 DEF Consumed
      <3>2. DigitsOf(rem_len') = D /\ bytes' = bytes + k
        BY <1>6, <1>7, <1>10 DEF reader
      <3>3. QED
        BY <3>1, <3>2, <1>3
    <2>2. Here' = p
      BY <1>1, <1>5, <1>10 DEF Here
    <2>3. QED
      BY <2>1, <2>2, <1>1, <1>2, <1>4, <1>5, <1>7, <1>8, <1>10 DEF Framing, reader
  <1>11. QED
    BY <1>9, <1>10 DEF ReadBody

LEMMA FramingStep == ReadInv /\ Framing /\ [Next]_vars => Framing'
  <1> SUFFICES ASSUME ReadInv, Framing, [Next]_vars PROVE Framing'
    OBVIOUS
  <1>1. CASE BrokerSends
    BY <1>1, SendFrames
  <1>2. CASE ReadHeader
    BY <1>2, HeaderFrames
  <1>3. CASE ReadDigit
    BY <1>3, DigitFrames
  <1>4. CASE DigitTimesOut \/ BodyTimesOut
    BY <1>4 DEF DigitTimesOut, BodyTimesOut, Framing
  <1>5. CASE \E k \in 1..rem_len : ReadBody(k)
    BY <1>5, BodyFrames
  <1>6. CASE deliverMessage
    BY <1>6, IdleFrames DEF deliverMessage
  <1>7. CASE StartSend \/ SendReturns
    BY <1>7, IdleFrames DEF StartSend, SendReturns
  <1>8. CASE \E k \in 1..length : mqttwrite(k)
    BY <1>8, IdleFrames DEF mqttwrite
  <1>9. CASE UNCHANGED vars
    BY <1>9 DEF vars, reader, Framing, Consumed, Here
  <1>10. QED
    BY <1>1, <1>2, <1>3, <1>4, <1>5, <1>6, <1>7, <1>8, <1>9 DEF Next

LEMMA FramingCorrect == Spec => [](ReadInv /\ Framing)
  <1>1. Init => ReadInv /\ Framing
    BY ReadInit, FramingInit
  <1>2. ReadInv /\ Framing /\ [Next]_vars => (ReadInv /\ Framing)'
    BY ReadStep, FramingStep
  <1>3. QED
    BY <1>1, <1>2, PTL DEF Spec

\* As long as no read fails inside a packet, readPacket returns the packets
\* that were sent, with their types and lengths and in order, and starts each
\* at a header: however the bytes of a body come in, and however many packets
\* are under way.
THEOREM StaysInStep == Spec => []InStep
  <1>1. ReadInv /\ Framing => InStep
    <2> SUFFICES ASSUME ReadInv, Framing, ~interrupted
                 PROVE  /\ accepted = SubSeq(sent, 1, Len(accepted))
                        /\ pc = "idle" /\ unread # <<>> => Head(unread).place = "header"
                        /\ pc = "idle" /\ unread = <<>> => accepted = sent
      BY DEF InStep
    <2>1. /\ sent \in Seq(Packets) /\ accepted \in Seq(Packets) /\ unread \in Seq(Bytes)
      BY DEF ReadInv, TypeOK
    <2>2. PICK n \in Nat : n = Len(accepted) /\ n <= Len(sent) /\ Len(sent) \in Nat
      <3>1. Len(accepted) <= Len(sent)
        BY DEF Framing
      <3>2. Len(accepted) \in Nat /\ Len(sent) \in Nat
        BY <2>1
      <3>3. QED
        BY <3>1, <3>2
    <2>3. \A i \in 1..n : accepted[i] = sent[i]
      BY <2>2 DEF Framing
    <2>4. accepted = SubSeq(sent, 1, n)
      <3>1. /\ SubSeq(sent, 1, n) \in Seq(Packets) /\ Len(SubSeq(sent, 1, n)) = n
            /\ \A i \in 1..n : SubSeq(sent, 1, n)[i] = sent[i]
        BY <2>1, <2>2
      <3>2. QED
        BY <3>1, <2>1, <2>2, <2>3, SeqEqual
    <2>5. ASSUME pc = "idle" PROVE FramedFrom(sent, n, unread, 0)
      BY <2>2, <2>5 DEF Framing, Consumed
    <2>6. ASSUME pc = "idle", unread # <<>> PROVE Head(unread).place = "header"
      <3>1. n < Len(sent)
        BY <2>1, <2>2, <2>5, <2>6, FromEnd
      <3>2. sent[n+1] \in Packets
        BY <3>1, <2>1, <2>2, ElementOfSeq
      <3>3. 0 < Size(sent[n+1])
        BY <3>2, SizeProperties
      <3>4. IsByte(sent[n+1], 0+1, unread[1])
        BY <3>1, <3>3, <2>1, <2>2, <2>5, <2>6, FromNext
      <3>5. unread[1].place = "header"
        BY <3>4 DEF IsByte
      <3>6. Head(unread) = unread[1]
        BY <2>1, <2>6, HeadTailProperties
      <3>7. QED
        BY <3>5, <3>6
    <2>7. ASSUME pc = "idle", unread = <<>> PROVE accepted = sent
      <3>1. n = Len(sent)
        BY <2>1, <2>2, <2>5, <2>7, FromEnd
      <3>2. QED
        BY <3>1, <2>1, <2>2, <2>3, SeqEqual
    <2>8. QED
      BY <2>2, <2>4, <2>6, <2>7
  <1>2. QED
    BY <1>1, FramingCorrect, PTL

-----------------------------------------------------------------------------
(* The handlers that are called                                             *)

\* The delivery is one that deliverMessage has made.
Delivering ==
    \/ delivery = NoDelivery
    \/ /\ delivery.name \in Names /\ delivery.filter \in Filters
       /\ delivery.called = Selected(delivery.filter, delivery.name)

LEMMA DeliveringCorrect == Spec => []Delivering
  <1>1. Init => Delivering
    BY DEF Init, Delivering
  <1>2. Delivering /\ [Next]_vars => Delivering'
    <2> SUFFICES ASSUME Delivering, [Next]_vars PROVE Delivering'
      OBVIOUS
    <2>1. CASE delivery' = NoDelivery
      BY <2>1 DEF Delivering
    <2>2. CASE UNCHANGED delivery
      BY <2>2 DEF Delivering
    <2>3. CASE deliverMessage
      <3>1. PICK n \in Names, f \in Filters :
                delivery' = [name |-> n, filter |-> f, called |-> Selected(f, n)]
        BY <2>3 DEF deliverMessage
      <3>2. delivery'.name = n /\ delivery'.filter = f /\ delivery'.called = Selected(f, n)
        BY <3>1
      <3>3. QED
        BY <3>2 DEF Delivering
    <2>4. CASE BrokerSends \/ ReadHeader \/ StartSend
      BY <2>1, <2>4 DEF BrokerSends, ReadHeader, StartSend
    <2>5. CASE ReadDigit \/ DigitTimesOut \/ BodyTimesOut \/ SendReturns
      BY <2>2, <2>5 DEF ReadDigit, DigitTimesOut, BodyTimesOut, SendReturns
    <2>6. CASE \E k \in 1..rem_len : ReadBody(k)
      BY <2>2, <2>6 DEF ReadBody
    <2>7. CASE \E k \in 1..length : mqttwrite(k)
      BY <2>2, <2>7 DEF mqttwrite
    <2>8. CASE UNCHANGED vars
      BY <2>2, <2>8 DEF vars
    <2>9. QED
      BY <2>3, <2>4, <2>5, <2>6, <2>7, <2>8 DEF Next
  <1>3. QED
    BY <1>1, <1>2, PTL DEF Spec

LEMMA WellFormedFilters ==
    /\ \A n \in Names : n \in Strings
    /\ \A f \in Filters : f \in Strings /\ WellFormed(f)
  BY StreamAssumption DEF Strings

\* deliverMessage calls no handler for a name that its filter does not match.
THEOREM NoWrongHandler == Spec => []FilterSound
  <1>1. Delivering => FilterSound
    <2> SUFFICES ASSUME Delivering, delivery.called
                 PROVE  Matches(delivery.filter, delivery.name)
      BY DEF FilterSound
    <2>1. delivery # NoDelivery
      BY DEF NoDelivery
    <2>2. PICK n \in Names, f \in Filters :
              n = delivery.name /\ f = delivery.filter /\ Selected(f, n)
      BY <2>1 DEF Delivering
    <2>3. QED
      BY <2>2, WellFormedFilters, SelectedIsSound
  <1>2. QED
    BY <1>1, DeliveringCorrect, PTL

\* deliverMessage leaves out no handler whose filter matches the name, unless
\* a level of the name is empty or it is the parent of a trailing '#'.
THEOREM NoHandlerMissed == Spec => []FilterComplete
  <1>1. Delivering => FilterComplete
    <2> SUFFICES ASSUME Delivering, delivery # NoDelivery,
                        Matches(delivery.filter, delivery.name),
                        NoEmptyLevel(delivery.name),
                        ~ParentOf(delivery.filter, delivery.name)
                 PROVE  delivery.called
      BY DEF FilterComplete
    <2>1. PICK n \in Names, f \in Filters :
              /\ n = delivery.name /\ f = delivery.filter
              /\ delivery.called = Selected(f, n)
      BY DEF Delivering
    <2>2. isTopicMatched(f, n)
      BY <2>1, WellFormedFilters, MatchIsComplete
    <2>3. QED
      BY <2>1, <2>2 DEF Selected
  <1>2. QED
    BY <1>1, DeliveringCorrect, PTL
=============================================================================
