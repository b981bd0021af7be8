---------------------------- MODULE BenchTheorems ----------------------------
(* The simulated CPU for every width, register count, memory size and       *)
(* program: its ALU, its invariants, and that every tick of it is a step of *)
(* the instruction set or leaves the instruction set's state alone.         *)
EXTENDS TbCPU, ALUs, DatapathTheorems

----------------------------------------------------------------------------
(* The one adder of rtl/ALU.sv: what its subtraction, its carry and its     *)
(* overflow say about the operands.                                         *)

\* The number of words is twice the weight of the sign bit, and positive.
LEMMA RadixPositive == Radix = 2 * SignBit /\ SignBit \in Nat /\ SignBit > 0 /\ Radix \in Nat
  BY WidthAssumption DEF Radix

\* x + ~y + 1 is x - y, one Radix up: the carry's weight.
LEMMA SubtractingSum ==
  ASSUME NEW op, IsSub(op), NEW x \in Word, NEW y \in Word
  PROVE  /\ Sum(op, x, y) = x - y + Radix
         /\ x \in Int /\ y \in Int /\ 0 <= x /\ x < Radix /\ 0 <= y /\ y < Radix
<1>1. x \in Int /\ y \in Int /\ 0 <= x /\ x < Radix /\ 0 <= y /\ y < Radix
  BY RadixPositive DEF Word
<1> QED
  BY <1>1, RadixPositive DEF Sum, YPrime, BitNot

\* What the adder puts out is the difference, or the difference plus Radix.
LEMMA Difference ==
  ASSUME NEW op, IsSub(op), NEW x \in Word, NEW y \in Word
  PROVE  Result(op, x, y) = IF x >= y THEN x - y ELSE x - y + Radix
<1>1. Sum(op, x, y) = x - y + Radix /\ x \in Int /\ y \in Int
      /\ 0 <= x /\ x < Radix /\ 0 <= y /\ y < Radix
  BY SubtractingSum
<1>2. CASE x >= y
  <2>1. Radix <= x - y + Radix /\ x - y + Radix < 2 * Radix
    BY <1>1, <1>2, RadixPositive
  <2>2. (x - y + Radix) % Radix = x - y
    BY <1>1, <2>1, RadixPositive
  <2> QED
    BY <1>1, <1>2, <2>2 DEF Result, Trunc
<1>3. CASE x < y
  <2>1. 0 <= x - y + Radix /\ x - y + Radix < Radix
    BY <1>1, <1>3, RadixPositive
  <2>2. (x - y + Radix) % Radix = x - y + Radix
    BY <1>1, <2>1, RadixPositive
  <2> QED
    BY <1>1, <1>3, <2>2 DEF Result, Trunc
<1> QED
  BY <1>1, <1>2, <1>3

(* SUB: two's-complement addition of ~y + 1 is subtraction modulo the word  *)
(* (rtl/ALU.sv's is_sub, y_prime and sum).                                  *)
THEOREM SubtractsThroughAdder ==
  ASSUME NEW x \in Word, NEW y \in Word
  PROVE  ALU(ALU_SUB, x, y) = Trunc(x - y)
<1>1. x \in Int /\ y \in Int /\ 0 <= x /\ x < Radix /\ 0 <= y /\ y < Radix
  BY RadixPositive DEF Word
<1>2. IsSub(ALU_SUB)
  BY DEF IsSub
<1>3. ALU(ALU_SUB, x, y) = IF x >= y THEN x - y ELSE x - y + Radix
  <2>1. ALU(ALU_SUB, x, y) = Result(ALU_SUB, x, y)
    BY DEF ALU, ALU_ADD, ALU_SUB, ALU_XOR, ALU_OR, ALU_AND, ALU_SLL, ALU_SRL, ALU_SRA, ALU_SLT,
           ALU_SLTU
  <2> QED
    BY <1>2, <2>1, Difference
<1>4. CASE x >= y
  <2>1. x - y \in Int /\ 0 <= x - y /\ x - y < Radix
    BY <1>1, <1>4, RadixPositive
  <2>2. (x - y) % Radix = x - y
    BY <2>1, RadixPositive
  <2> QED
    BY <1>3, <1>4, <2>2 DEF Trunc
<1>5. CASE x < y
  <2>1. x - y \in Int /\ -Radix <= x - y /\ x - y < 0
    BY <1>1, <1>5, RadixPositive
  <2>2. (x - y) % Radix = x - y + Radix
    BY <2>1, RadixPositive
  <2> QED
    BY <1>1, <1>3, <1>5, <2>2 DEF Trunc
<1> QED
  BY <1>1, <1>4, <1>5

(* SLTU: the inverted carry of the subtraction is the unsigned comparison.  *)
THEOREM CarryComparesUnsigned ==
  ASSUME NEW x \in Word, NEW y \in Word
  PROVE  ALU(ALU_SLTU, x, y) = Flag(x < y)
<1>1. IsSub(ALU_SLTU)
  BY DEF IsSub
<1>2. CarryOut(ALU_SLTU, x, y) <=> ~(x < y)
  BY <1>1, SubtractingSum, RadixPositive DEF CarryOut
<1>3. ALU(ALU_SLTU, x, y) = Flag(~CarryOut(ALU_SLTU, x, y))
  BY DEF ALU, ALU_ADD, ALU_SUB, ALU_XOR, ALU_OR, ALU_AND, ALU_SLL, ALU_SRL, ALU_SRA, ALU_SLT,
         ALU_SLTU
<1> QED
  BY <1>2, <1>3 DEF Flag

(* SLT: the sign of the difference, corrected by the overflow out of the    *)
(* sign bit, is the signed comparison.                                      *)
THEOREM OverflowComparesSigned ==
  ASSUME NEW x \in Word, NEW y \in Word
  PROVE  ALU(ALU_SLT, x, y) = Flag(Signed(x) < Signed(y))
<1> DEFINE d == Result(ALU_SLT, x, y)
<1>1. IsSub(ALU_SLT)
  BY DEF IsSub
<1>2. x \in Int /\ y \in Int /\ 0 <= x /\ x < Radix /\ 0 <= y /\ y < Radix
  BY RadixPositive DEF Word
<1>3. d = IF x >= y THEN x - y ELSE x - y + Radix
  BY <1>1, Difference
<1>4. YPrime(ALU_SLT, y) = Radix - 1 - y
  BY <1>1 DEF YPrime, BitNot
<1>5. Overflow(ALU_SLT, x, y) <=>
        (x >= SignBit <=> y < SignBit) /\ ~(x >= SignBit <=> d >= SignBit)
  BY <1>2, <1>4, RadixPositive DEF Overflow, Negative
<1>6. ~(Negative(d) <=> Overflow(ALU_SLT, x, y)) <=> Signed(x) < Signed(y)
  <2> HIDE DEF d
  <2>1. CASE x >= y
    <3>1. d = x - y
      BY <1>3, <2>1
    <3> QED
      BY <1>2, <1>5, <2>1, <3>1, RadixPositive DEF Negative, Signed
  <2>2. CASE x < y
    <3>1. d = x - y + Radix
      BY <1>2, <1>3, <2>2
    <3> QED
      BY <1>2, <1>5, <2>2, <3>1, RadixPositive DEF Negative, Signed
  <2> QED
    BY <1>2, <2>1, <2>2
<1>7. ALU(ALU_SLT, x, y) = Flag(~(Negative(d) <=> Overflow(ALU_SLT, x, y)))
  BY DEF ALU, ALU_ADD, ALU_SUB, ALU_XOR, ALU_OR, ALU_AND, ALU_SLL, ALU_SRL, ALU_SRA, ALU_SLT,
         ALU_SLTU
<1> QED
  BY <1>6, <1>7 DEF Flag

----------------------------------------------------------------------------
(* Shifts.  The source multiplies and divides by powers of two; the table   *)
(* moves the set of bits that are 1.                                        *)

\* Shifting left moves every bit up and brings in zeros.
LEMMA ShiftsLeft ==
  ASSUME NEW x \in Word, NEW n \in BitIdx
  PROVE  BitSet(Trunc(x * 2^n)) = {k \in BitIdx : k - n \in BitSet(x)}
<1> DEFINE p == 2^n  w == Trunc(x * p)
<1>1. x \in Nat /\ p \in Nat /\ p > 0 /\ x * p \in Nat /\ n \in Nat
  BY Weights DEF Word, BitIdx
<1>2. PICK t \in Int : w = x * p - Radix * t
  <2>1. Radix \in Nat /\ Radix > 0
    BY Weights
  <2>2. w = x * p - Radix * ((x * p) \div Radix)
    BY <1>1, <2>1 DEF Trunc
  <2>3. (x * p) \div Radix \in Int
    BY <1>1, <2>1
  <2> QED
    BY <2>2, <2>3
<1> HIDE DEF w
<1>3. ASSUME NEW k \in BitIdx, k < n PROVE (w \div 2^k) % 2 = 0
  <2> DEFINE c == 2^k  h == 2^(n - k - 1)  r == 2^(XLEN - 1 - k)
  <2>1. n - k - 1 \in BitIdx /\ n - k \in BitIdx /\ k \in Nat /\ k + (n - k) = n
        /\ (n - k - 1) + 1 = n - k
    BY <1>3, WidthAssumption DEF BitIdx
  <2>2. p = c * 2^(n - k) /\ 2^(n - k) = 2 * h /\ c \in Nat /\ c > 0 /\ h \in Nat /\ r \in Nat
    <3>1. 2^(k + (n - k)) = c * 2^(n - k)
      BY <2>1, Weights
    <3>2. 2^((n - k - 1) + 1) = 2 * h
      BY <2>1, Weights
    <3>3. XLEN - 1 - k \in BitIdx
      BY RadixSplits
    <3> QED
      BY <2>1, <3>1, <3>2, <3>3, Weights
  <2>3. Radix = 2 * (c * r)
    BY RadixSplits
  <2> DEFINE g == x * h - r * t
  <2> HIDE DEF p, c, h, r
  <2>4. g \in Int /\ w = (2 * g) * c + 0
    <3>1. p = c * (2 * h)
      BY <2>2
    <3>2. x * p = (2 * (x * h)) * c
      BY <1>1, <2>2, <3>1
    <3>3. Radix * t = (2 * (r * t)) * c
      BY <2>2, <2>3
    <3>4. x * h \in Int /\ r * t \in Int
      BY <1>1, <2>2
    <3>5. PICK a, b : a = x * h /\ b = r * t /\ a \in Int /\ b \in Int
      BY <3>4
    <3>6. w = (2 * a) * c - (2 * b) * c
      BY <1>2, <3>2, <3>3, <3>5
    <3>7. (2 * (a - b)) * c = (2 * a) * c - (2 * b) * c
      BY <2>2, <3>5
    <3> QED
      BY <2>2, <3>5, <3>6, <3>7
  <2> HIDE DEF g
  <2>5. w \in Int /\ w \div c = 2 * g
    BY <2>2, <2>4, QuotientIs
  <2> QED
    BY <2>4, <2>5 DEF c
<1>4. ASSUME NEW k \in BitIdx, n <= k
      PROVE  k - n \in BitIdx /\ (w \div 2^k) % 2 = (x \div 2^(k - n)) % 2
  <2> DEFINE c == 2^k  q == 2^(k - n)  r == 2^(XLEN - 1 - k)
  <2>1. k - n \in BitIdx /\ n + (k - n) = k
    BY <1>1, <1>4, WidthAssumption DEF BitIdx
  <2>2. c = p * q /\ q \in Nat /\ q > 0 /\ c \in Nat /\ c > 0 /\ r \in Nat
    <3>1. 2^(n + (k - n)) = p * q
      BY <2>1, Weights
    <3>2. XLEN - 1 - k \in BitIdx
      BY RadixSplits
    <3> QED
      BY <2>1, <3>1, <3>2, Weights
  <2>3. Radix = 2 * (c * r)
    BY RadixSplits
  <2> HIDE DEF p, c, q, r
  <2> DEFINE d == x \div q
  <2>4. PICK e \in Int : d \in Int /\ x = d * q + e /\ 0 <= e /\ e < q
    BY <1>1, <2>2, QuotientRest
  <2> HIDE DEF d
  <2>5. w = (d - 2 * (r * t)) * c + p * e
    <3>1. x * p = d * c + p * e
      BY <1>1, <2>2, <2>4
    <3>2. Radix * t = (2 * (r * t)) * c
      BY <2>2, <2>3
    <3>3. PICK b : b = r * t /\ b \in Int
      BY <2>2
    <3>4. (d - 2 * b) * c = d * c - (2 * b) * c /\ d * c \in Int /\ (2 * b) * c \in Int
      <4>1. PICK a : a = 2 * b /\ a \in Int
        BY <3>3
      <4>2. (d - a) * c = d * c - a * c /\ d * c \in Int /\ a * c \in Int
        BY <2>2, <2>4, <4>1
      <4> QED
        BY <4>1, <4>2
    <3>5. p * e \in Int
      BY <1>1, <2>4
    <3> QED
      BY <1>2, <3>1, <3>2, <3>3, <3>4, <3>5
  <2>6. 0 <= p * e /\ p * e < c /\ p * e \in Int
    <3>1. p * (q - e) = c - p * e /\ p * (q - e) > 0 /\ p * e \in Int
      BY <1>1, <2>2, <2>4
    <3>2. 0 <= p * e
      BY <1>1, <2>4
    <3> QED
      BY <2>2, <3>1, <3>2
  <2>7. d - 2 * (r * t) \in Int /\ r * t \in Int
    BY <2>2, <2>4
  <2>8. w \in Int /\ w \div c = d - 2 * (r * t)
    <3>1. PICK a, b : a = d - 2 * (r * t) /\ a \in Int /\ b = p * e /\ b \in Int
      BY <2>6, <2>7
    <3>2. w = a * c + b /\ w \in Int /\ 0 <= b /\ b < c
      BY <2>2, <2>5, <2>6, <3>1
    <3> QED
      BY <2>2, <3>1, <3>2, QuotientIs
  <2>9. (d - 2 * (r * t)) % 2 = d % 2
    <3>1. PICK b : b = r * t /\ b \in Int
      BY <2>7
    <3>2. (d - 2 * b) % 2 = d % 2
      BY <2>4, <3>1
    <3> QED
      BY <3>1, <3>2
  <2> QED
    BY <2>1, <2>4, <2>8, <2>9 DEF c, q, d
<1>5. \A k \in BitIdx : k < n => k - n \notin BitIdx
  BY <1>1 DEF BitIdx
<1>6. \A k \in BitIdx : k \in Int /\ (k < n \/ n <= k)
  BY <1>1 DEF BitIdx
<1>7. \A k \in BitIdx : (w \div 2^k) % 2 = 1 <=> k - n \in BitSet(x)
  BY <1>3, <1>4, <1>5, <1>6 DEF BitSet
<1> QED
  BY <1>7 DEF BitSet, w

\* What a shift to the right leaves: XLEN - n bits.
LEMMA ShiftedBound ==
  ASSUME NEW x \in Word, NEW n \in BitIdx
  PROVE  /\ x \div 2^n \in Nat /\ x \div 2^n < 2 * 2^(XLEN - 1 - n) /\ x \div 2^n < Radix
         /\ x \in Nat /\ x < Radix
<1> DEFINE p == 2^n  m == 2^(XLEN - 1 - n)  u == x \div p
<1>1. XLEN - 1 - n \in BitIdx /\ Radix = 2 * (p * m)
  BY RadixSplits
<1>2. p \in Nat /\ p > 0 /\ m \in Nat /\ m > 0
  BY <1>1, Weights
<1>3. x \in Nat /\ x < Radix
  BY <1>1, <1>2, Weights DEF Word
<1> HIDE DEF p, m
<1>4. PICK e \in Int : u \in Int /\ x = u * p + e /\ 0 <= e /\ e < p
  BY <1>2, <1>3, QuotientRest
<1>5. u >= 0
  BY <1>2, <1>3
<1> HIDE DEF u
<1>6. ASSUME u >= 2 * m PROVE FALSE
  <2>1. (u - 2 * m) * p >= 0
    BY <1>2, <1>4, <1>6
  <2>2. PICK a : a = 2 * m /\ a \in Int
    BY <1>2
  <2>3. (u - a) * p = u * p - a * p /\ u * p \in Int /\ a * p \in Int
    BY <1>2, <1>4, <2>2
  <2>4. a * p = Radix
    BY <1>1, <1>2, <2>2
  <2> QED
    BY <1>3, <1>4, <2>1, <2>2, <2>3, <2>4
<1>7. 2 * m <= Radix
  <2>1. m * (p - 1) >= 0 /\ m * (p - 1) = p * m - m /\ p * m \in Int
    BY <1>2
  <2> QED
    BY <1>1, <1>2, <2>1
<1>8. u < 2 * m
  BY <1>2, <1>4, <1>6
<1> QED
  BY <1>1, <1>2, <1>3, <1>4, <1>5, <1>7, <1>8 DEF u, p, m

\* Bit k of the shifted word is bit k + n of the word, if there is one.
LEMMA ShiftedBit ==
  ASSUME NEW x \in Word, NEW n \in BitIdx, NEW k \in BitIdx, k + n \in BitIdx
  PROVE  (x \div 2^n) \div 2^k = x \div 2^(k + n)
<1>1. 2^n \in Nat /\ 2^n > 0 /\ 2^k \in Nat /\ 2^k > 0 /\ k \in Nat /\ n \in Nat
  BY Weights DEF BitIdx
<1>2. 2^(k + n) = 2^k * 2^n
  BY Weights
<1>3. x \in Int
  BY ShiftedBound
<1>4. (x \div 2^n) \div 2^k = x \div (2^n * 2^k)
  BY <1>1, <1>3, QuotientOfQuotient
<1>5. 2^n * 2^k = 2^k * 2^n
  BY <1>1
<1> QED
  BY <1>2, <1>4, <1>5

\* A weight beyond them.
LEMMA WeightBeyond ==
  ASSUME NEW n \in BitIdx, NEW k \in BitIdx, k + n \notin BitIdx
  PROVE  2 * 2^(XLEN - 1 - n) <= 2^k
<1>1. XLEN - 1 - n \in BitIdx /\ XLEN - 1 - n < k
  BY WidthAssumption DEF BitIdx
<1> QED
  BY <1>1, HigherWeight

\* Shifting right moves every bit down and brings in zeros.
LEMMA ShiftsRight ==
  ASSUME NEW x \in Word, NEW n \in BitIdx
  PROVE  BitSet(x \div 2^n) = {k \in BitIdx : k + n \in BitSet(x)}
<1>1. ASSUME NEW k \in BitIdx, k + n \notin BitIdx
      PROVE  ((x \div 2^n) \div 2^k) % 2 = 0
  <2>1. PICK u, c : u = x \div 2^n /\ c = 2^k /\ u \in Nat /\ c \in Nat /\ c > 0
    BY ShiftedBound, Weights
  <2>2. u < c
    <3>1. u < 2 * 2^(XLEN - 1 - n) /\ 2 * 2^(XLEN - 1 - n) <= c
      BY <1>1, <2>1, ShiftedBound, WeightBeyond
    <3>2. 2^(XLEN - 1 - n) \in Nat
      BY RadixSplits, Weights
    <3> QED
      BY <2>1, <3>1, <3>2
  <2>3. u \div c = 0
    BY <2>1, <2>2
  <2> QED
    BY <2>1, <2>3
<1>2. \A k \in BitIdx : ((x \div 2^n) \div 2^k) % 2 = 1 <=> k + n \in BitSet(x)
  <2> TAKE k \in BitIdx
  <2>1. CASE k + n \in BitIdx
    BY <2>1, ShiftedBit DEF BitSet
  <2>2. CASE k + n \notin BitIdx
    BY <1>1, <2>2 DEF BitSet
  <2> QED
    BY <2>1, <2>2
<1> QED
  BY <1>2 DEF BitSet

\* Shifting a negative word right as a signed number brings in ones.
LEMMA ShiftsSignedRight ==
  ASSUME NEW x \in Word, NEW n \in BitIdx, x >= SignBit
  PROVE  BitSet(Trunc(Signed(x) \div 2^n))
           = {k \in BitIdx : k + n \in BitSet(x)} \cup {k \in BitIdx : k + n >= XLEN}
<1> DEFINE p == 2^n  m == 2^(XLEN - 1 - n)  u == x \div p  w == Trunc(Signed(x) \div p)
<1>1. XLEN - 1 - n \in BitIdx /\ Radix = 2 * (p * m) /\ Radix \in Nat
  BY RadixSplits
<1>2. p \in Nat /\ p > 0 /\ m \in Nat /\ m > 0
  BY <1>1, Weights
<1>3. u \in Nat /\ u < 2 * m /\ x \in Nat
  BY ShiftedBound
<1> DEFINE s == u - 2 * m
<1>4. Signed(x) \div p = s
  <2>1. PICK e \in Int : x = u * p + e /\ 0 <= e /\ e < p
    <3> HIDE DEF p
    <3> QED
      BY <1>2, <1>3, QuotientRest
  <2>2. PICK q : q = u /\ q \in Int /\ x = q * p + e
    BY <1>3, <2>1
  <2>3. PICK a : a = 2 * m /\ a \in Int
    BY <1>2
  <2> HIDE DEF p, m, u
  <2>4. a * p = Radix
    BY <1>1, <1>2, <2>3
  <2>5. (q - a) * p = q * p - a * p /\ q * p \in Int /\ a * p \in Int
    BY <1>2, <2>2, <2>3
  <2>6. Signed(x) = x - Radix
    BY DEF Signed
  <2>7. x - Radix = (q - a) * p + e /\ x - Radix \in Int /\ q - a \in Int
    BY <1>1, <1>3, <2>2, <2>3, <2>4, <2>5
  <2>8. (x - Radix) \div p = q - a
    BY <1>2, <2>1, <2>7, QuotientIs
  <2> QED
    BY <2>2, <2>3, <2>6, <2>8
<1>5. w = s + Radix
  <2>1. 2 * m <= Radix
    <3> HIDE DEF p, m
    <3>1. m * (p - 1) >= 0 /\ m * (p - 1) = p * m - m /\ p * m \in Int
      BY <1>2
    <3> QED
      BY <1>1, <1>2, <3>1
  <2> HIDE DEF p, m, u
  <2>2. s \in Int /\ -Radix <= s /\ s < 0
    BY <1>1, <1>2, <1>3, <2>1
  <2> HIDE DEF s
  <2>3. s % Radix = s + Radix
    BY <1>1, <2>2
  <2> QED
    BY <1>4, <2>3 DEF Trunc, w
<1> HIDE DEF w
<1>6. ASSUME NEW k \in BitIdx, k + n \in BitIdx
      PROVE  (w \div 2^k) % 2 = (x \div 2^(k + n)) % 2
  <2> DEFINE c == 2^k  j == 2^(XLEN - 1 - n - k)
  <2>1. XLEN - 1 - n - k \in BitIdx /\ k + (XLEN - 1 - n - k) = XLEN - 1 - n
    BY <1>6, WidthAssumption DEF BitIdx
  <2>2. m = c * j /\ c \in Nat /\ c > 0 /\ j \in Nat
    <3>1. 2^(k + (XLEN - 1 - n - k)) = c * j
      BY <1>1, <2>1, Weights
    <3> QED
      BY <2>1, <3>1, Weights
  <2> DEFINE d == u \div c
  <2> HIDE DEF u, c, p, m, j
  <2>3. PICK e \in Int : d \in Int /\ u = d * c + e /\ 0 <= e /\ e < c
    BY <1>3, <2>2, QuotientRest
  <2> HIDE DEF d
  <2>4. PICK g : g = 2 * (j * (p - 1)) /\ g \in Int /\ g % 2 = 0 /\ s + Radix = (d + g) * c + e
    <3>1. PICK b : b = j * (p - 1) /\ b \in Int
      BY <1>2, <2>2
    <3>2. PICK f : f = 2 * b /\ f \in Int /\ f % 2 = 0
      BY <3>1
    <3>3. (d + f) * c = d * c + f * c /\ d * c \in Int /\ f * c \in Int
      BY <2>2, <2>3, <3>2
    <3>4. f * c = 2 * (p * m) - 2 * m
      <4>1. b * c = m * (p - 1)
        BY <1>2, <2>2, <3>1
      <4>2. m * (p - 1) = p * m - m /\ p * m \in Int
        BY <1>2
      <4>3. f * c = 2 * (b * c) /\ b * c \in Int
        BY <2>2, <3>1, <3>2
      <4> QED
        BY <1>2, <4>1, <4>2, <4>3
    <3>5. p * m \in Int
      BY <1>2
    <3>6. s + Radix = (d + f) * c + e
      BY <1>1, <1>2, <2>3, <3>3, <3>4, <3>5
    <3> QED
      BY <3>1, <3>2, <3>6
  <2>5. w \div c = d + g
    <3>1. PICK a : a = d + g /\ a \in Int /\ w = a * c + e /\ w \in Int
      BY <1>1, <1>2, <1>3, <1>5, <2>3, <2>4
    <3> QED
      BY <2>2, <2>3, <3>1, QuotientIs
  <2>6. (d + g) % 2 = d % 2
    BY <2>3, <2>4
  <2>7. d = x \div 2^(k + n)
    BY <1>6, ShiftedBit DEF d, u, p, c
  <2> QED
    BY <2>5, <2>6, <2>7 DEF c
<1>7. ASSUME NEW k \in BitIdx, k + n \notin BitIdx
      PROVE  (w \div 2^k) % 2 = 1
  <2> DEFINE c == 2^k  r == 2^(XLEN - 1 - k)
  <2>1. Radix = 2 * (c * r) /\ c \in Nat /\ c > 0 /\ r \in Nat
    BY RadixSplits, Weights
  <2>2. 2 * m <= c
    BY <1>7, WeightBeyond
  <2> HIDE DEF p, m, u, c, r
  <2>3. w = (2 * r - 1) * c + (s + c) /\ s + c \in Int /\ 0 <= s + c /\ s + c < c
    <3>1. PICK a : a = 2 * r /\ a \in Int
      BY <2>1
    <3>2. (a - 1) * c = a * c - c /\ a * c = Radix
      BY <2>1, <3>1
    <3> QED
      BY <1>1, <1>2, <1>3, <1>5, <2>1, <2>2, <3>1, <3>2
  <2>4. w \div c = 2 * r - 1
    <3>1. PICK a : a = 2 * r - 1 /\ a \in Int /\ w = a * c + (s + c) /\ w \in Int
      BY <1>1, <1>2, <1>3, <1>5, <2>1, <2>3
    <3> QED
      BY <2>1, <2>3, <3>1, QuotientIs
  <2>5. (2 * r - 1) % 2 = 1
    BY <2>1
  <2> QED
    BY <2>4, <2>5 DEF c
<1>8. \A k \in BitIdx : k + n \notin BitIdx <=> k + n >= XLEN
  BY WidthAssumption DEF BitIdx
<1>9. \A k \in BitIdx : (w \div 2^k) % 2 = 1 <=> k + n \in BitSet(x) \/ k + n >= XLEN
  <2> TAKE k \in BitIdx
  <2>1. CASE k + n \in BitIdx
    <3>1. (w \div 2^k) % 2 = 1 <=> k + n \in BitSet(x)
      BY <1>6, <2>1 DEF BitSet
    <3>2. ~(k + n >= XLEN)
      BY <1>8, <2>1
    <3> QED
      BY <3>1, <3>2
  <2>2. CASE k + n \notin BitIdx
    BY <1>7, <1>8, <2>2
  <2> QED
    BY <2>1, <2>2
<1> QED
  BY <1>9 DEF BitSet, w

----------------------------------------------------------------------------
(* The two ALUs and the table of register operations.                       *)

\* The shared operators are the same in each of the three modules.
LEMMA SameALUOperators ==
  /\ \A n : Board!Trunc(n) = Trunc(n) /\ Table!Trunc(n) = Trunc(n)
  /\ \A w : Table!Signed(w) = Signed(w)
  /\ \A x, y : /\ Board!BitAnd(x, y) = BitAnd(x, y) /\ Table!BitAnd(x, y) = BitAnd(x, y)
               /\ Board!BitOr(x, y) = BitOr(x, y)   /\ Table!BitOr(x, y) = BitOr(x, y)
               /\ Board!BitXor(x, y) = BitXor(x, y) /\ Table!BitXor(x, y) = BitXor(x, y)
<1>1. /\ \A n : Board!Trunc(n) = Trunc(n) /\ Table!Trunc(n) = Trunc(n)
      /\ \A w : Table!Signed(w) = Signed(w)
      /\ Board!Word = Word /\ Table!Word = Word
  BY DEF Board!Trunc, Table!Trunc, Trunc, Board!Radix, Table!Radix, Radix, Board!SignBit,
         Table!SignBit, SignBit, Table!Signed, Signed, Board!Word, Table!Word, Word
<1>2. \A w : Board!BitSet(w) = BitSet(w) /\ Table!BitSet(w) = BitSet(w)
  BY DEF Board!BitSet, Table!BitSet, BitSet, Board!BitIdx, Table!BitIdx, BitIdx
<1>3. \A S : Board!WordOf(S) = WordOf(S)
  BY <1>1 DEF Board!WordOf, WordOf, Board!BitSet, BitSet, Board!BitIdx, BitIdx
<1>4. \A S : Table!WordOf(S) = WordOf(S)
  BY <1>1 DEF Table!WordOf, WordOf, Table!BitSet, BitSet, Table!BitIdx, BitIdx
<1> QED
  BY <1>1, <1>2, <1>3, <1>4
     DEF Board!BitAnd, Table!BitAnd, BitAnd, Board!BitOr, Table!BitOr, BitOr, Board!BitXor,
         Table!BitXor, BitXor

\* Addition, and the bitwise operations, as the rtl ALU makes them.
LEMMA PlainOperations ==
  ASSUME NEW x \in Word, NEW y \in Word
  PROVE  /\ ALU(ALU_ADD, x, y) = Trunc(x + y)
         /\ ALU(ALU_XOR, x, y) = BitXor(x, y)
         /\ ALU(ALU_OR, x, y) = BitOr(x, y)
         /\ ALU(ALU_AND, x, y) = BitAnd(x, y)
<1>1. x \in Int /\ y \in Int
  BY RadixPositive DEF Word
<1>2. Sum(ALU_ADD, x, y) = x + y
  BY <1>1 DEF Sum, YPrime, IsSub, ALU_ADD, ALU_SUB, ALU_SLT, ALU_SLTU
<1> QED
  BY <1>2 DEF ALU, Result, ALU_ADD, ALU_SUB, ALU_XOR, ALU_OR, ALU_AND, ALU_SLL, ALU_SRL, ALU_SRA,
              ALU_SLT, ALU_SLTU

(* The board's ALU and ALUControlUnit, whose codes differ from those of     *)
(* verilog/rtl, compute the same word for every operation the board has, at *)
(* every width.                                                             *)
THEOREM BoardALUIsRtlALU ==
  ASSUME NEW op \in 0 .. 3, NEW funct3 \in 0 .. 7, NEW bit5 \in {0, 1},
         NEW x \in Word, NEW y \in Word
  PROVE  BoardAgrees(op, funct3, bit5, x, y)
<1> SUFFICES ASSUME BoardHas(op, funct3)
             PROVE  BoardOut(op, funct3, bit5, x, y) = RtlOut(op, funct3, bit5, x, y)
  BY DEF BoardAgrees
<1>1. CASE op = 0 \/ (op = 2 /\ funct3 = 0 /\ bit5 = 0)
  <2>1. ALUControlUnit(op, funct3, bit5) = ALU_ADD /\ Board!ALUControlUnit(op, funct3, bit5) = 2
    BY <1>1 DEF ALUControlUnit, Board!ALUControlUnit, ALU_ADD
  <2> QED
    BY <2>1, PlainOperations, SameALUOperators DEF BoardOut, RtlOut, Board!ALU
<1>2. CASE op = 1 \/ (op = 2 /\ funct3 = 0 /\ bit5 = 1)
  <2>1. ALUControlUnit(op, funct3, bit5) = ALU_SUB /\ Board!ALUControlUnit(op, funct3, bit5) = 6
    BY <1>2 DEF ALUControlUnit, Board!ALUControlUnit, ALU_SUB
  <2> QED
    BY <2>1, SubtractsThroughAdder, SameALUOperators DEF BoardOut, RtlOut, Board!ALU
<1>3. CASE op = 2 /\ funct3 = 4
  <2>1. ALUControlUnit(op, funct3, bit5) = ALU_XOR /\ Board!ALUControlUnit(op, funct3, bit5) = 3
    BY <1>3 DEF ALUControlUnit, Board!ALUControlUnit, ALU_XOR
  <2> QED
    BY <2>1, PlainOperations, SameALUOperators DEF BoardOut, RtlOut, Board!ALU
<1>4. CASE op = 2 /\ funct3 = 6
  <2>1. ALUControlUnit(op, funct3, bit5) = ALU_OR /\ Board!ALUControlUnit(op, funct3, bit5) = 1
    BY <1>4 DEF ALUControlUnit, Board!ALUControlUnit, ALU_OR
  <2> QED
    BY <2>1, PlainOperations, SameALUOperators DEF BoardOut, RtlOut, Board!ALU
<1>5. CASE op = 2 /\ funct3 = 7
  <2>1. ALUControlUnit(op, funct3, bit5) = ALU_AND /\ Board!ALUControlUnit(op, funct3, bit5) = 0
    BY <1>5 DEF ALUControlUnit, Board!ALUControlUnit, ALU_AND
  <2> QED
    BY <2>1, PlainOperations, SameALUOperators DEF BoardOut, RtlOut, Board!ALU
<1> QED
  BY <1>1, <1>2, <1>3, <1>4, <1>5 DEF BoardHas

\* The set shifts of the table, in the module's own bits and words.
LEMMA SameShifts ==
  /\ \A S : Table!WordOf(S) = WordOf(S)
  /\ \A w : Table!BitSet(w) = BitSet(w)
  /\ Table!BitIdx = BitIdx /\ Table!SignBit = SignBit
<1>1. Table!BitIdx = BitIdx /\ Table!SignBit = SignBit /\ Table!Word = Word
  BY DEF Table!BitIdx, BitIdx, Table!SignBit, SignBit, Table!Word, Word, Table!Radix, Radix
<1>2. \A w : Table!BitSet(w) = BitSet(w)
  BY <1>1 DEF Table!BitSet, BitSet
<1> QED
  BY <1>1, <1>2 DEF Table!WordOf, WordOf

\* What the CASE of the ALU says of the three shift codes.
LEMMA ShiftOperations ==
  ASSUME NEW x, NEW y
  PROVE  /\ ALU(ALU_SLL, x, y) = Trunc(x * 2^Shamt(y))
         /\ ALU(ALU_SRL, x, y) = x \div 2^Shamt(y)
         /\ ALU(ALU_SRA, x, y) = Trunc(Signed(x) \div 2^Shamt(y))
  BY DEF ALU, ALU_ADD, ALU_SUB, ALU_XOR, ALU_OR, ALU_AND, ALU_SLL, ALU_SRL, ALU_SRA, ALU_SLT,
         ALU_SLTU

\* What the table says of the two funct3 that shift.
LEMMA TableShifts ==
  ASSUME NEW bit5, NEW x, NEW y
  PROVE  /\ Table!RType(1, bit5, x, y)
              = WordOf({k \in BitIdx : k - Shamt(y) \in BitSet(x)})
         /\ Table!RType(5, bit5, x, y)
              = WordOf({k \in BitIdx : k + Shamt(y) \in BitSet(x)} \cup
                       IF bit5 = 1
                       THEN IF x >= SignBit THEN {k \in BitIdx : k + Shamt(y) >= XLEN} ELSE {}
                       ELSE {})
  BY SameShifts DEF Table!RType, Table!ShiftRight, Table!SignFill, Shamt, Table!BitSet, BitSet,
                    Table!BitIdx, BitIdx, Table!SignBit, SignBit

\* SLL of the rtl ALU.
LEMMA ShiftLeftLogical ==
  ASSUME NEW x \in Word, NEW n \in BitIdx
  PROVE  Trunc(x * 2^n) = WordOf({k \in BitIdx : k - n \in BitSet(x)})
<1>1. Trunc(x * 2^n) \in Word
  <2>1. x \in Int /\ 2^n \in Int
    BY ShiftedBound, Weights
  <2>2. x * 2^n \in Int
    BY <2>1
  <2> QED
    BY <2>2, TruncType
<1>2. {k \in BitIdx : k - n \in BitSet(x)} \in SUBSET BitIdx
  OBVIOUS
<1> QED
  BY <1>1, <1>2, ShiftsLeft, WordOfBits

\* SRL of the rtl ALU.
LEMMA ShiftRightLogical ==
  ASSUME NEW x \in Word, NEW n \in BitIdx
  PROVE  x \div 2^n \in Word /\ x \div 2^n = WordOf({k \in BitIdx : k + n \in BitSet(x)})
<1>1. x \div 2^n \in Word
  <2>1. x \div 2^n \in Nat /\ x \div 2^n < Radix /\ Radix \in Nat
    BY ShiftedBound, Weights
  <2> QED
    BY <2>1 DEF Word
<1>2. {k \in BitIdx : k + n \in BitSet(x)} \in SUBSET BitIdx
  OBVIOUS
<1> QED
  BY <1>1, <1>2, ShiftsRight, WordOfBits

\* SRA of the rtl ALU: $signed(x) >>> n copies the sign.
LEMMA ShiftRightArithmetic ==
  ASSUME NEW x \in Word, NEW n \in BitIdx
  PROVE  Trunc(Signed(x) \div 2^n)
           = WordOf({k \in BitIdx : k + n \in BitSet(x)} \cup
                    IF x >= SignBit THEN {k \in BitIdx : k + n >= XLEN} ELSE {})
<1>1. CASE x >= SignBit
  <2>1. Trunc(Signed(x) \div 2^n) \in Word
    <3>1. PICK a, p : a = Signed(x) /\ a \in Int /\ p = 2^n /\ p \in Nat /\ p > 0
      BY ShiftedBound, Weights, RadixPositive DEF Signed
    <3>2. a \div p \in Int
      BY <3>1
    <3> QED
      BY <3>1, <3>2, TruncType
  <2>2. {k \in BitIdx : k + n \in BitSet(x)} \cup {k \in BitIdx : k + n >= XLEN} \in SUBSET BitIdx
    OBVIOUS
  <2>3. Trunc(Signed(x) \div 2^n)
          = WordOf({k \in BitIdx : k + n \in BitSet(x)} \cup {k \in BitIdx : k + n >= XLEN})
    <3> DEFINE w == Trunc(Signed(x) \div 2^n)
               S == {k \in BitIdx : k + n \in BitSet(x)} \cup {k \in BitIdx : k + n >= XLEN}
    <3>1. BitSet(w) = S
      BY <1>1, ShiftsSignedRight
    <3>2. w \in Word /\ S \in SUBSET BitIdx
      BY <2>1, <2>2
    <3> HIDE DEF w, S
    <3>3. WordOf(S) = w
      BY <3>1, <3>2, WordOfBits
    <3> QED
      BY <3>3 DEF w, S
  <2> QED
    BY <1>1, <2>3
<1>2. CASE ~(x >= SignBit)
  <2>1. Signed(x) = x
    BY <1>2 DEF Signed
  <2>2. Trunc(x \div 2^n) = x \div 2^n
    <3>1. PICK u : u = x \div 2^n /\ u \in Nat /\ u < Radix /\ Radix \in Nat
      BY ShiftedBound, Weights
    <3>2. u % Radix = u
      BY <3>1
    <3> QED
      BY <3>1, <3>2 DEF Trunc
  <2> QED
    BY <1>2, <2>1, <2>2, ShiftRightLogical
<1> QED
  BY <1>1, <1>2

(* The rtl ALU behind its control unit computes the table of register       *)
(* operations of RV32I at every width: sums, comparisons and bitwise        *)
(* operations, and the shifts, whose multiplications and divisions by powers*)
(* of two move the bits the table moves.                                    *)
THEOREM RtlALUIsRV32I ==
  ASSUME NEW op \in 0 .. 3, NEW funct3 \in 0 .. 7, NEW bit5 \in {0, 1},
         NEW x \in Word, NEW y \in Word
  PROVE  RtlComputesRV32I(op, funct3, bit5, x, y)
<1>1. CASE op \in {0, 3} \/ (op = 2 /\ funct3 = 0 /\ bit5 = 0)
  <2>1. ALUControlUnit(op, funct3, bit5) = ALU_ADD
    BY <1>1 DEF ALUControlUnit, ALU_ADD
  <2>2. Table!TableOut(op, funct3, bit5, x, y) = Trunc(x + y)
    BY <1>1, SameALUOperators DEF Table!TableOut, Table!RType
  <2> QED
    BY <2>1, <2>2, PlainOperations DEF RtlComputesRV32I, RtlOut
<1>2. CASE op = 1 \/ (op = 2 /\ funct3 = 0 /\ bit5 = 1)
  <2>1. ALUControlUnit(op, funct3, bit5) = ALU_SUB
    BY <1>2 DEF ALUControlUnit, ALU_SUB
  <2>2. Table!TableOut(op, funct3, bit5, x, y) = Trunc(x - y)
    BY <1>2, SameALUOperators DEF Table!TableOut, Table!RType
  <2> QED
    BY <2>1, <2>2, SubtractsThroughAdder DEF RtlComputesRV32I, RtlOut
<1>3. CASE op = 2 /\ funct3 = 2
  <2>1. ALUControlUnit(op, funct3, bit5) = ALU_SLT
    BY <1>3 DEF ALUControlUnit, ALU_SLT
  <2>2. Table!TableOut(op, funct3, bit5, x, y) = Flag(Signed(x) < Signed(y))
    BY <1>3, SameALUOperators DEF Table!TableOut, Table!RType, Flag
  <2> QED
    BY <2>1, <2>2, OverflowComparesSigned DEF RtlComputesRV32I, RtlOut
<1>4. CASE op = 2 /\ funct3 = 3
  <2>1. ALUControlUnit(op, funct3, bit5) = ALU_SLTU
    BY <1>4 DEF ALUControlUnit, ALU_SLTU
  <2>2. Table!TableOut(op, funct3, bit5, x, y) = Flag(x < y)
    BY <1>4 DEF Table!TableOut, Table!RType, Flag
  <2> QED
    BY <2>1, <2>2, CarryComparesUnsigned DEF RtlComputesRV32I, RtlOut
<1>5. CASE op = 2 /\ funct3 \in {4, 6, 7}
  <2>1. ALUControlUnit(op, funct3, bit5)
          = IF funct3 = 4 THEN ALU_XOR ELSE IF funct3 = 6 THEN ALU_OR ELSE ALU_AND
    BY <1>5 DEF ALUControlUnit, ALU_XOR, ALU_OR, ALU_AND
  <2>2. Table!TableOut(op, funct3, bit5, x, y)
          = IF funct3 = 4 THEN BitXor(x, y) ELSE IF funct3 = 6 THEN BitOr(x, y) ELSE BitAnd(x, y)
    BY <1>5, SameALUOperators DEF Table!TableOut, Table!RType
  <2> QED
    BY <1>5, <2>1, <2>2, PlainOperations DEF RtlComputesRV32I, RtlOut
<1>6. Shamt(y) \in BitIdx
  BY RadixPositive, WidthAssumption DEF Word, Shamt, BitIdx
<1>7. CASE op = 2 /\ funct3 = 1
  <2>1. ALUControlUnit(op, funct3, bit5) = ALU_SLL
    BY <1>7 DEF ALUControlUnit, ALU_SLL
  <2>2. RtlOut(op, funct3, bit5, x, y) = Trunc(x * 2^Shamt(y))
    BY <2>1, ShiftOperations DEF RtlOut
  <2>3. Table!TableOut(op, funct3, bit5, x, y)
          = WordOf({k \in BitIdx : k - Shamt(y) \in BitSet(x)})
    <3>1. Table!TableOut(op, funct3, bit5, x, y) = Table!RType(1, bit5, x, y)
      BY <1>7 DEF Table!TableOut
    <3> QED
      BY <3>1, TableShifts
  <2> QED
    BY <1>6, <2>2, <2>3, ShiftLeftLogical DEF RtlComputesRV32I
<1>8. CASE op = 2 /\ funct3 = 5 /\ bit5 = 0
  <2>1. ALUControlUnit(op, funct3, bit5) = ALU_SRL
    BY <1>8 DEF ALUControlUnit, ALU_SRL
  <2>2. RtlOut(op, funct3, bit5, x, y) = x \div 2^Shamt(y)
    BY <2>1, ShiftOperations DEF RtlOut
  <2>3. Table!TableOut(op, funct3, bit5, x, y)
          = WordOf({k \in BitIdx : k + Shamt(y) \in BitSet(x)})
    <3>1. Table!TableOut(op, funct3, bit5, x, y) = Table!RType(5, bit5, x, y)
      BY <1>8 DEF Table!TableOut
    <3> DEFINE S == {k \in BitIdx : k + Shamt(y) \in BitSet(x)}
               F == IF bit5 = 1
                    THEN IF x >= SignBit THEN {k \in BitIdx : k + Shamt(y) >= XLEN} ELSE {}
                    ELSE {}
    <3>2. Table!RType(5, bit5, x, y) = WordOf(S \cup F)
      BY TableShifts
    <3>3. F = {}
      BY <1>8
    <3> HIDE DEF S, F
    <3>4. S \cup F = S
      BY <3>3
    <3> QED
      BY <3>1, <3>2, <3>4 DEF S
  <2> QED
    BY <1>6, <2>2, <2>3, ShiftRightLogical DEF RtlComputesRV32I
<1>9. CASE op = 2 /\ funct3 = 5 /\ bit5 = 1
  <2>1. ALUControlUnit(op, funct3, bit5) = ALU_SRA
    BY <1>9 DEF ALUControlUnit, ALU_SRA
  <2>2. RtlOut(op, funct3, bit5, x, y) = Trunc(Signed(x) \div 2^Shamt(y))
    BY <2>1, ShiftOperations DEF RtlOut
  <2>3. Table!TableOut(op, funct3, bit5, x, y)
          = WordOf({k \in BitIdx : k + Shamt(y) \in BitSet(x)} \cup
                   IF x >= SignBit THEN {k \in BitIdx : k + Shamt(y) >= XLEN} ELSE {})
    <3>1. Table!TableOut(op, funct3, bit5, x, y) = Table!RType(5, bit5, x, y)
      BY <1>9 DEF Table!TableOut
    <3> QED
      BY <1>9, <3>1, TableShifts
  <2> QED
    BY <1>6, <2>2, <2>3, ShiftRightArithmetic DEF RtlComputesRV32I
<1> QED
  BY <1>1, <1>2, <1>3, <1>4, <1>5, <1>7, <1>8, <1>9
----------------------------------------------------------------------------
(* The combinational signals have their types in every well-typed state.    *)

\* A word divided by a positive number is a word.
LEMMA QuotientIsWord ==
  ASSUME NEW x \in Word, NEW n \in Nat, n > 0
  PROVE  x \div n \in Word
<1> DEFINE q == x \div n
<1>1. x \in Nat /\ x <= Radix - 1 /\ Radix \in Nat
  BY RadixPositive DEF Word
<1>2. q \in Nat /\ q * n <= x
  BY <1>1
<1>3. q <= q * n
  <2>1. (n - 1) \in Nat
    OBVIOUS
  <2>2. q * (n - 1) \in Nat
    BY <1>2, <2>1
  <2>3. q * (n - 1) = q * n - q
    BY <1>2
  <2>4. q * n \in Int
    BY <1>2
  <2> HIDE DEF q
  <2> QED
    BY <1>2, <2>2, <2>3, <2>4
<1>4. q * n \in Int
  BY <1>2
<1> HIDE DEF q
<1>5. q \in 0 .. Radix - 1
  BY <1>1, <1>2, <1>3, <1>4
<1> QED
  BY <1>5 DEF q, Word

\* The ALU returns a word whatever operation it is given.
LEMMA ALUType ==
  ASSUME NEW op, NEW x \in Word, NEW y \in Word
  PROVE  ALU(op, x, y) \in Word
<1>1. x \in Int /\ y \in Int /\ y \in Nat /\ SignBit > 0 /\ Radix \in Int
  BY RadixPositive DEF Word
<1>2. Result(op, x, y) \in Word
  <2>1. Sum(op, x, y) \in Int
    BY <1>1 DEF Sum, YPrime, BitNot
  <2> QED
    BY <2>1, TruncType DEF Result
<1>3. \A b \in BOOLEAN : Flag(b) \in Word
  BY RadixPositive DEF Flag, Word
<1> DEFINE p == 2^Shamt(y)
<1>4. p \in Nat /\ p > 0
  <2>1. Shamt(y) \in BitIdx
    BY <1>1, WidthAssumption DEF Shamt, BitIdx
  <2> QED
    BY <2>1, BinaryNumerals
<1> HIDE DEF p
<1>5. Trunc(x * p) \in Word
  <2>1. x * p \in Int
    BY <1>1, <1>4
  <2> QED
    BY <2>1, TruncType
<1>6. x \div p \in Word
  BY <1>4, QuotientIsWord
<1>7. Trunc(Signed(x) \div p) \in Word
  <2>1. Signed(x) \in Int
    BY <1>1 DEF Signed
  <2>2. Signed(x) \div p \in Int
    BY <1>4, <2>1
  <2> QED
    BY <2>2, TruncType
<1>8. BitXor(x, y) \in Word /\ BitOr(x, y) \in Word /\ BitAnd(x, y) \in Word
  BY BitwiseType
<1>9. 0 \in Word
  BY ZeroIsWord
<1> QED
  BY <1>2, <1>3, <1>5, <1>6, <1>7, <1>8, <1>9 DEF ALU, p

\* In a well-typed state every wire of main.sv carries a word or an instruction.
LEMMA SignalTypes ==
  ASSUME TypeOK
  PROVE  /\ imem_data \in Instruction
         /\ \A r \in [RegIdx -> Word] : ALUOutOf(r) \in Word /\ ReadReg(r, imem_data.rs2) \in Word
         /\ ALUOut \in Word
         /\ AddressToLoad(imem_data, pc) \in Word
         /\ WriteData(imem_data, ALUOut, dmem_rdata) \in Word
<1> USE DEF TypeOK
<1>1. imem_data \in Instruction
  BY BenchAssumption
<1>2. imem_data.rs1 \in RegIdx /\ imem_data.rs2 \in RegIdx
  BY <1>1 DEF Instruction
<1>3. ImmOut(imem_data) \in Word
  BY <1>1, ImmOutType
<1>4. ASSUME NEW r \in [RegIdx -> Word]
      PROVE  ALUOutOf(r) \in Word /\ ReadReg(r, imem_data.rs2) \in Word
  <2>1. ReadReg(r, imem_data.rs1) \in Word /\ ReadReg(r, imem_data.rs2) \in Word
    BY <1>2, ReadRegType
  <2>2. ALUSrcB(imem_data, r) \in Word
    BY <1>3, <2>1 DEF ALUSrcB
  <2> QED
    BY <2>1, <2>2, ALUType DEF ALUOutOf
<1>5. ALUOut \in Word
  BY <1>4 DEF ALUOut
<1>6. AddressToLoad(imem_data, pc) \in Word
  <2>1. pc + ImmOut(imem_data) \in Int
    BY <1>3 DEF Word
  <2> QED
    BY <2>1, TruncType DEF AddressToLoad
<1>7. WriteData(imem_data, ALUOut, dmem_rdata) \in Word
  BY <1>5 DEF WriteData
<1> QED
  BY <1>1, <1>4, <1>5, <1>6, <1>7

\* The word the bench's ROM answers with is an instruction.
LEMMA RomEvalType ==
  ASSUME NEW a \in Word, rom \in [ROMIdx -> Instr]
  PROVE  RomEval(a) \in Instr
  BY WordAddressType, BenchAssumption DEF RomEval, ROMIdx

\* The registers after a reset are words.
LEMMA ZeroRegsType == ZeroRegs \in [RegIdx -> Word]
  BY ZeroIsWord DEF ZeroRegs

\* A tick keeps the registers, the PC and the memories in their types.
LEMMA TickType ==
  ASSUME TypeOK, NEW enable \in BOOLEAN, Tick(enable)
  PROVE  TypeOK'
<1> USE DEF TypeOK
<1>1. areset' \in BOOLEAN /\ execute_cycle' \in BOOLEAN /\ rom' = rom
  BY DEF Tick
<1>2. pc' \in Word
  <2>1. PCAfter \in Word
    BY SignalTypes, NextPCType DEF PCAfter
  <2> QED
    BY <2>1 DEF Tick
<1>3. regs' \in [RegIdx -> Word]
  <2>1. imem_data.rd \in RegIdx
    BY SignalTypes DEF Instruction
  <2>2. RegsAfter \in [RegIdx -> Word]
    BY <2>1, SignalTypes, WriteRegType DEF RegsAfter
  <2> QED
    BY <2>2 DEF Tick
<1>4. imem_data' \in Instr
  <2>1. imem_data' = rom'[WordAddress(pc', ROMWORDS)]
    BY <1>1 DEF Tick, RomEval
  <2>2. WordAddress(pc', ROMWORDS) \in ROMIdx
    BY <1>2, WordAddressType, BenchAssumption DEF ROMIdx
  <2> QED
    BY <1>1, <2>1, <2>2
<1>5. mem' \in [RAMIdx -> Word]
  <2>1. ReadReg(regs', imem_data.rs2) \in Word
    BY <1>3, SignalTypes
  <2> QED
    BY <2>1 DEF Tick, RamTick
<1>6. dmem_rdata' \in Word
  BY <1>5, ZeroIsWord DEF Tick, RamTick
<1> QED
  BY <1>1, <1>2, <1>3, <1>4, <1>5, <1>6

(* Whatever program runs, whatever the bench drives on enable and whenever  *)
(* it resets, every register and memory word holds a value of its width.    *)
THEOREM TypeCorrect == Spec => []TypeOK
<1>1. Init => TypeOK
  BY BenchAssumption, ZeroIsWord, ZeroRegsType DEF Init, TypeOK
<1>2. TypeOK /\ [Next]_vars => TypeOK'
  <2> SUFFICES ASSUME TypeOK, [Next]_vars PROVE TypeOK'
    OBVIOUS
  <2>1. CASE BeginReset
    BY <2>1, ZeroIsWord, ZeroRegsType DEF BeginReset, TypeOK
  <2>2. CASE EndReset
    <3>1. RomEval(pc) \in Instr
      BY RomEvalType DEF TypeOK
    <3> QED
      BY <2>2, <3>1 DEF EndReset, TypeOK
  <2>3. ASSUME NEW enable \in EnableInputs, Tick(enable) PROVE TypeOK'
    <3>1. enable \in BOOLEAN
      BY BenchAssumption
    <3> QED
      BY <2>3, <3>1, TickType
  <2>4. CASE UNCHANGED vars
    BY <2>4 DEF vars, TypeOK
  <2> QED
    BY <2>1, <2>2, <2>3, <2>4 DEF Next
<1> QED
  BY <1>1, <1>2, PTL DEF Spec

----------------------------------------------------------------------------
(* What the bench presents to the CPU belongs to the cycle it is in.        *)

\* InputsCurrent is inductive once a reset is known to end the execute cycle:
\* otherwise the ROM read at the end of the reset would come under a load.
BenchInv == (areset => ~execute_cycle) /\ InputsCurrent

\* A tick answers with the ROM at the new PC and, since an execute cycle keeps
\* the instruction it was entered with, with the RAM at the load's address.
LEMMA TickKeepsInv ==
  ASSUME TypeOK, BenchInv, NEW enable, Tick(enable)
  PROVE  BenchInv'
<1>1. ~areset /\ areset' = areset /\ rom' = rom /\ imem_data' = RomEval(pc')
  BY DEF Tick
<1>2. imem_data' = RomEval(pc)'
  BY <1>1 DEF RomEval
<1>3. ASSUME execute_cycle', control'.MemRead, ALUOut' \div 4 \in RAMIdx
      PROVE  dmem_rdata' = mem'[ALUOut' \div 4]
  <2>1. pc' = pc
    BY <1>3 DEF Tick
  <2>2. imem_data' = imem_data
    BY <1>1, <2>1 DEF BenchInv, InputsCurrent
  <2>3. ALUOut' = ALUOutOf(regs')
    BY <2>2 DEF ALUOut, ALUOutOf, control
  <2> QED
    BY <1>3, <2>3 DEF Tick, RamTick
<1> QED
  BY <1>1, <1>2, <1>3 DEF BenchInv, InputsCurrent

\* BenchInv is inductive.
LEMMA NextKeepsBenchInv ==
  ASSUME TypeOK, BenchInv, [Next]_vars
  PROVE  BenchInv'
<1>1. CASE BeginReset
  BY <1>1 DEF BeginReset, BenchInv, InputsCurrent
<1>2. CASE EndReset
  <2>1. imem_data' = RomEval(pc)' /\ ~execute_cycle'
    BY <1>2 DEF EndReset, RomEval, BenchInv
  <2> QED
    BY <1>2, <2>1 DEF EndReset, BenchInv, InputsCurrent
<1>3. CASE \E enable \in EnableInputs : Tick(enable)
  BY <1>3, TickKeepsInv
<1>4. CASE UNCHANGED vars
  BY <1>4 DEF vars, BenchInv, InputsCurrent, RomEval, control, ALUOut, ALUOutOf
<1> QED
  BY <1>1, <1>2, <1>3, <1>4 DEF Next

(* Outside a reset the instruction is the one the ROM holds at PC, and in   *)
(* its execute cycle a load finds the word of its address, whatever the     *)
(* bench drives on enable: tb_CPU.cpp recomputes imem_data and dmem_rdata   *)
(* after every tick.                                                        *)
THEOREM InputsAreCurrent == Spec => []InputsCurrent
<1>1. Init => BenchInv
  BY DEF Init, BenchInv, InputsCurrent
<1>2. TypeOK /\ BenchInv /\ [Next]_vars => BenchInv'
  BY NextKeepsBenchInv
<1>3. BenchInv => InputsCurrent
  BY DEF BenchInv
<1> QED
  BY <1>1, <1>2, <1>3, TypeCorrect, PTL DEF Spec

----------------------------------------------------------------------------
(* ISA's own copies of the shared operators are those of the bench.         *)

\* Index sets, words and the registers after a reset.
LEMMA SameConstants ==
  /\ Abstract!RegIdx = RegIdx
  /\ Abstract!Word = Word
  /\ Abstract!ZeroRegs = ZeroRegs
  /\ Abstract!ProgramIdx = ROMIdx
  /\ Abstract!MemIdx = RAMIdx
  BY DEF Abstract!RegIdx, RegIdx, Abstract!Word, Word, Abstract!Radix, Radix, Abstract!SignBit,
         SignBit, Abstract!ZeroRegs, ZeroRegs, Abstract!ProgramIdx, ROMIdx, Abstract!MemIdx, RAMIdx

\* Truncation to the width.
LEMMA SameTrunc == \A n : Abstract!Trunc(n) = Trunc(n)
  BY DEF Abstract!Trunc, Trunc, Abstract!Radix, Radix, Abstract!SignBit, SignBit

\* The bitwise operators.
LEMMA SameBitwise ==
  \A x, y : /\ Abstract!BitAnd(x, y) = BitAnd(x, y)
            /\ Abstract!BitOr(x, y) = BitOr(x, y)
            /\ Abstract!BitXor(x, y) = BitXor(x, y)
<1>1. \A w : Abstract!BitSet(w) = BitSet(w)
  BY DEF Abstract!BitSet, BitSet, Abstract!BitIdx, BitIdx
<1>2. \A S : Abstract!WordOf(S) = WordOf(S)
  BY SameConstants DEF Abstract!WordOf, WordOf, Abstract!BitSet, BitSet, Abstract!BitIdx, BitIdx
<1> QED
  BY <1>1, <1>2 DEF Abstract!BitAnd, BitAnd, Abstract!BitOr, BitOr, Abstract!BitXor, BitXor

\* The RegFile's ports and the word a byte address selects.
LEMMA SamePorts ==
  /\ \A r, a : Abstract!ReadReg(r, a) = ReadReg(r, a)
  /\ \A r, en, a, d : Abstract!WriteReg(r, en, a, d) = WriteReg(r, en, a, d)
  /\ \A a, n : Abstract!WordAddress(a, n) = WordAddress(a, n)
  BY DEF Abstract!ReadReg, ReadReg, Abstract!WriteReg, WriteReg, Abstract!WordAddress, WordAddress

----------------------------------------------------------------------------
(* The tick that begins an execute cycle commits the instruction.           *)

Committing == TypeOK /\ BenchInv /\ InRange /\ Tick(TRUE) /\ ~execute_cycle

Source1 == ReadReg(regs, imem_data.rs1)
Source2 == ReadReg(regs, imem_data.rs2)

\* It changes no register of the CPU, performs the store, and reads what the
\* instruction will write: nothing the ending tick uses changes any more.
LEMMA CommitTick ==
  ASSUME Committing
  PROVE  /\ ~areset /\ areset' = areset /\ execute_cycle' /\ rom' = rom
         /\ PCAfter' = PCAfter
         /\ RegsAfter' = WriteReg(regs, control.RegWrite, imem_data.rd,
                                  WriteData(imem_data, ALUOut, dmem_rdata'))
         /\ control.MemRead => dmem_rdata' = mem[WordAddress(ALUOut, RAMWORDS)]
         /\ mem' = IF control.MemWrite
                     THEN [mem EXCEPT ![WordAddress(ALUOut, RAMWORDS)] = Source2] ELSE mem
<1>1. /\ ~areset /\ areset' = areset /\ execute_cycle' /\ rom' = rom
      /\ pc' = pc /\ regs' = regs /\ imem_data' = RomEval(pc')
      /\ RamTick(regs', execute_cycle')
  BY DEF Committing, Tick, TypeOK
<1>2. imem_data' = imem_data
  BY <1>1 DEF Committing, BenchInv, InputsCurrent
<1>3. ALUOut' = ALUOut /\ ALUOut = ALUOutOf(regs') /\ control' = control
  BY <1>1, <1>2 DEF ALUOut, ALUOutOf, control
<1>4. PCAfter' = PCAfter
  BY <1>1, <1>2, <1>3 DEF PCAfter, halt, load_address
<1>5. RegsAfter' = WriteReg(regs, control.RegWrite, imem_data.rd,
                            WriteData(imem_data, ALUOut, dmem_rdata'))
  BY <1>1, <1>2, <1>3 DEF RegsAfter
<1>6. control.MemRead \/ control.MemWrite
        => ALUOut \div 4 \in RAMIdx /\ WordAddress(ALUOut, RAMWORDS) = ALUOut \div 4
  <2> SUFFICES ASSUME ALUOut \div 4 \in RAMIdx
               PROVE  WordAddress(ALUOut, RAMWORDS) = ALUOut \div 4
    BY <1>1 DEF Committing, InRange
  <2>1. (ALUOut \div 4) % RAMWORDS = ALUOut \div 4
    BY BenchAssumption DEF RAMIdx
  <2> QED
    BY <2>1 DEF WordAddress
<1>7. ~(control.MemRead /\ control.MemWrite)
  <2>1. ~(Is(imem_data, {LoadType}) /\ Is(imem_data, {Stype}))
    BY DEF Is, LoadType, Stype
  <2> QED
    BY <2>1 DEF control, ControlUnit
<1>8. mem' = IF control.MemWrite
               THEN [mem EXCEPT ![WordAddress(ALUOut, RAMWORDS)] = Source2] ELSE mem
  BY <1>1, <1>3, <1>6 DEF RamTick, Source2
<1>9. control.MemRead => dmem_rdata' = mem[WordAddress(ALUOut, RAMWORDS)]
  BY <1>1, <1>3, <1>6, <1>7, <1>8 DEF RamTick
<1> QED
  BY <1>1, <1>4, <1>5, <1>8, <1>9

\* Both machines look at the same instruction and operands.
LEMMA SameOperands ==
  ASSUME Committing
  PROVE  /\ Abstract!i = imem_data
         /\ Abstract!rs1 = Source1 /\ Abstract!rs2 = Source2
         /\ Source1 \in Word /\ Source2 \in Word
<1>1. Abstract!i = imem_data
  BY SamePorts DEF Committing, BenchInv, InputsCurrent, Tick, RomEval, Abstract!i
<1>2. Abstract!rs1 = Source1 /\ Abstract!rs2 = Source2
  BY <1>1, SamePorts DEF Committing, Abstract!rs1, Abstract!rs2, Source1, Source2
<1>3. imem_data.rs1 \in RegIdx /\ imem_data.rs2 \in RegIdx
  BY SignalTypes DEF Committing, Instruction
<1>4. Source1 \in Word /\ Source2 \in Word
  BY <1>3, ReadRegType DEF Committing, TypeOK, Source1, Source2
<1> QED
  BY <1>1, <1>2, <1>4

\* A step of the instruction set, in terms of what the tick leaves.
LEMMA CommitMaps ==
  ASSUME Committing,
         \/ Abstract!ADD \/ Abstract!SUB \/ Abstract!AND \/ Abstract!OR \/ Abstract!XOR
         \/ Abstract!ADDI \/ Abstract!LW \/ Abstract!SW \/ Abstract!BEQ \/ Abstract!BNE
         \/ Abstract!JAL
  PROVE  Abstract!Execute
  BY CommitTick DEF Abstract!Execute

\* Committing the all-zero word changes nothing that the instruction set sees.
LEMMA HaltCommit ==
  ASSUME Committing, imem_data.zero
  PROVE  UNCHANGED Abstract!vars
<1>1. control.MemWrite = FALSE /\ control.RegWrite = FALSE
  BY DEF control, ControlUnit, Is
<1>2. PCAfter = pc
  BY DEF PCAfter, NextPC, halt
<1>3. RegsAfter' = regs /\ mem' = mem
  BY <1>1, CommitTick DEF WriteReg
<1> QED
  BY <1>2, <1>3, CommitTick DEF Committing, Abstract!vars

\* What SetRd of the instruction set asks of a step, of the instructions that
\* write rd from the ALU or the RAM.
LEMMA CommitSetsRd ==
  ASSUME Committing, Is(imem_data, {Rtype, Itype, LoadType})
  PROVE  Abstract!SetRd(WriteData(imem_data, ALUOut, dmem_rdata'))
<1>1. ~Is(imem_data, {Stype}) /\ ~Is(imem_data, {Jtype}) /\ ~Is(imem_data, {Btype})
      /\ Is(imem_data, {Rtype, Itype, LoadType, Jtype})
  BY DEF Is, Rtype, Itype, LoadType, Stype, Btype, Jtype
<1>2. /\ control.MemWrite = FALSE /\ control.RegWrite = TRUE
      /\ ~control.Jump /\ ~control.Branch
  BY <1>1 DEF control, ControlUnit
<1>3. PCAfter = Trunc(pc + 4)
  BY <1>2 DEF PCAfter, NextPC, load_address, LoadAddress, control, halt, Is
<1>4. mem' = mem /\ RegsAfter' = WriteReg(regs, TRUE, imem_data.rd,
                                          WriteData(imem_data, ALUOut, dmem_rdata'))
  BY <1>2, CommitTick
<1> QED
  BY <1>3, <1>4, CommitTick, SameOperands, SameTrunc, SamePorts DEF Committing, Abstract!SetRd

\* Committing an R-type instruction is ADD, SUB, XOR, OR or AND.
LEMMA RtypeMaps ==
  ASSUME Committing, Listed(imem_data), Is(imem_data, {Rtype})
  PROVE  Abstract!Execute
<1> DEFINE f3 == imem_data.funct3
           f7 == imem_data.funct7
           value == ALU(ALUControlUnit(2, f3, Funct7Bit5(imem_data)), Source1, Source2)
<1>1. Abstract!SetRd(value)
  <2>1. Is(imem_data, {Rtype, Itype, LoadType})
    BY DEF Is
  <2>2. ~Is(imem_data, {Itype, LoadType, Stype, Jtype}) /\ ~Is(imem_data, {LoadType})
    BY DEF Is, Rtype, Itype, LoadType, Stype, Jtype
  <2>3. ~control.ALUSrc /\ control.ALUOps = 2 /\ ~control.MemtoReg
    BY <2>2 DEF control, ControlUnit
  <2>4. WriteData(imem_data, ALUOut, dmem_rdata') = value
    BY <2>3 DEF WriteData, ALUOut, ALUOutOf, ALUSrcB, control, Source1, Source2
  <2> QED
    BY <2>1, <2>4, CommitSetsRd
<1>2. /\ ~imem_data.zero /\ imem_data.opcode = Abstract!Rtype
      /\ <<f3, f7>> \in {<<0, 0>>, <<0, 32>>, <<4, 0>>, <<6, 0>>, <<7, 0>>}
  BY DEF Listed, Is, Rtype, Itype, LoadType, Stype, Btype, Jtype, Abstract!Rtype
<1>3. Source1 \in Word /\ Source2 \in Word
  BY SameOperands
<1>4. CASE f3 = 0 /\ f7 = 0
  <2>1. value = Trunc(Source1 + Source2)
    BY <1>3, <1>4, PlainOperations DEF ALUControlUnit, Funct7Bit5, ALU_ADD
  <2>2. Abstract!ADD
    BY <1>1, <1>2, <1>4, <2>1, SameOperands, SameTrunc
       DEF Abstract!ADD, Abstract!MatchesR, Abstract!Matches
  <2> QED
    BY <2>2, CommitMaps
<1>5. CASE f3 = 0 /\ f7 = 32
  <2>1. value = Trunc(Source1 - Source2)
    BY <1>3, <1>5, SubtractsThroughAdder DEF ALUControlUnit, Funct7Bit5, ALU_SUB
  <2>2. Abstract!SUB
    BY <1>1, <1>2, <1>5, <2>1, SameOperands, SameTrunc
       DEF Abstract!SUB, Abstract!MatchesR, Abstract!Matches
  <2> QED
    BY <2>2, CommitMaps
<1>6. CASE f3 = 4 /\ f7 = 0
  <2>1. value = BitXor(Source1, Source2)
    BY <1>3, <1>6, PlainOperations DEF ALUControlUnit, ALU_XOR
  <2>2. Abstract!XOR
    BY <1>1, <1>2, <1>6, <2>1, SameOperands, SameBitwise
       DEF Abstract!XOR, Abstract!MatchesR, Abstract!Matches
  <2> QED
    BY <2>2, CommitMaps
<1>7. CASE f3 = 6 /\ f7 = 0
  <2>1. value = BitOr(Source1, Source2)
    BY <1>3, <1>7, PlainOperations DEF ALUControlUnit, ALU_OR
  <2>2. Abstract!OR
    BY <1>1, <1>2, <1>7, <2>1, SameOperands, SameBitwise
       DEF Abstract!OR, Abstract!MatchesR, Abstract!Matches
  <2> QED
    BY <2>2, CommitMaps
<1>8. CASE f3 = 7 /\ f7 = 0
  <2>1. value = BitAnd(Source1, Source2)
    BY <1>3, <1>8, PlainOperations DEF ALUControlUnit, ALU_AND
  <2>2. Abstract!AND
    BY <1>1, <1>2, <1>8, <2>1, SameOperands, SameBitwise
       DEF Abstract!AND, Abstract!MatchesR, Abstract!Matches
  <2> QED
    BY <2>2, CommitMaps
<1> QED
  BY <1>2, <1>4, <1>5, <1>6, <1>7, <1>8

\* ADDI, LW and SW put rs1 + imm on the ALU's output.
LEMMA AddressOnALU ==
  ASSUME TypeOK, Is(imem_data, {Itype, LoadType, Stype})
  PROVE  ALUOut = Trunc(Source1 + ImmOut(imem_data))
<1>1. ~Is(imem_data, {Rtype}) /\ ~Is(imem_data, {Btype})
      /\ Is(imem_data, {Itype, LoadType, Stype, Jtype})
  BY DEF Is, Rtype, Itype, LoadType, Stype, Btype, Jtype
<1>2. control.ALUSrc /\ control.ALUOps = 0
  BY <1>1 DEF control, ControlUnit
<1>3. ALUOut = ALU(ALU_ADD, Source1, ImmOut(imem_data))
  BY <1>2 DEF ALUOut, ALUOutOf, ALUSrcB, control, ALUControlUnit, Source1
<1>4. Source1 \in Word /\ ImmOut(imem_data) \in Word
  <2>1. imem_data \in Instruction /\ imem_data.rs1 \in RegIdx
    BY SignalTypes DEF Instruction
  <2> QED
    BY <2>1, ReadRegType, ImmOutType DEF Source1, TypeOK
<1> QED
  BY <1>3, <1>4, PlainOperations

\* Committing an I-type instruction is ADDI.
LEMMA ItypeMaps ==
  ASSUME Committing, Listed(imem_data), Is(imem_data, {Itype})
  PROVE  Abstract!Execute
<1>1. Is(imem_data, {Rtype, Itype, LoadType}) /\ Is(imem_data, {Itype, LoadType, Stype})
      /\ Is(imem_data, {Itype, LoadType}) /\ ~Is(imem_data, {LoadType})
  BY DEF Is, Itype, LoadType
<1>2. WriteData(imem_data, ALUOut, dmem_rdata') = Trunc(Source1 + imem_data.Iimm)
  <2>1. ~control.MemtoReg
    BY <1>1 DEF control, ControlUnit
  <2> QED
    BY <1>1, <2>1, AddressOnALU, Immediates DEF WriteData, control, Committing
<1>3. Abstract!SetRd(Trunc(Source1 + imem_data.Iimm))
  BY <1>1, <1>2, CommitSetsRd
<1>4. ~imem_data.zero /\ imem_data.opcode = Abstract!Itype /\ imem_data.funct3 = 0
  BY DEF Listed, Is, Rtype, Itype, LoadType, Stype, Btype, Jtype, Abstract!Itype
<1>5. Abstract!ADDI
  BY <1>3, <1>4, SameOperands, SameTrunc DEF Abstract!ADDI, Abstract!Matches
<1> QED
  BY <1>5, CommitMaps

\* Committing a load in range is LW, wherever the program has it.
LEMMA LoadMaps ==
  ASSUME Committing, Listed(imem_data), Is(imem_data, {LoadType})
  PROVE  Abstract!Execute
<1> DEFINE address == Trunc(Source1 + imem_data.Iimm)
<1>1. Is(imem_data, {Rtype, Itype, LoadType}) /\ Is(imem_data, {Itype, LoadType, Stype})
      /\ Is(imem_data, {Itype, LoadType})
  BY DEF Is
<1>2. WriteData(imem_data, ALUOut, dmem_rdata') = mem[WordAddress(address, RAMWORDS)]
  <2>1. control.MemtoReg /\ control.MemRead
    BY DEF control, ControlUnit
  <2>2. ALUOut = address
    BY <1>1, AddressOnALU, Immediates DEF Committing
  <2> QED
    BY <2>1, <2>2, CommitTick DEF WriteData, control
<1>3. Abstract!SetRd(mem[WordAddress(address, RAMWORDS)])
  BY <1>1, <1>2, CommitSetsRd
<1>4. ~imem_data.zero /\ imem_data.opcode = Abstract!LoadType /\ imem_data.funct3 = 2
  BY DEF Listed, Is, Rtype, Itype, LoadType, Stype, Btype, Jtype, Abstract!LoadType
<1>5. Abstract!LW
  BY <1>3, <1>4, SameOperands, SameTrunc, SamePorts DEF Abstract!LW, Abstract!Matches
<1> QED
  BY <1>5, CommitMaps

\* Committing a store in range is SW.
LEMMA StoreMaps ==
  ASSUME Committing, Listed(imem_data), Is(imem_data, {Stype})
  PROVE  Abstract!Execute
<1>1. /\ Is(imem_data, {Itype, LoadType, Stype}) /\ ~Is(imem_data, {Jtype})
      /\ ~Is(imem_data, {Btype}) /\ ~Is(imem_data, {Rtype, Itype, LoadType, Jtype})
  BY DEF Is, Rtype, Itype, LoadType, Stype, Btype, Jtype
<1>2. control.MemWrite /\ control.RegWrite = FALSE /\ ~control.Jump /\ ~control.Branch
  BY <1>1 DEF control, ControlUnit
<1>3. PCAfter = Trunc(pc + 4)
  BY <1>2 DEF PCAfter, NextPC, load_address, LoadAddress, control, halt, Is
<1>4. RegsAfter' = regs
  BY <1>2, CommitTick DEF WriteReg
<1>5. mem' = [mem EXCEPT ![WordAddress(Trunc(Source1 + imem_data.Simm), RAMWORDS)] = Source2]
  BY <1>1, <1>2, CommitTick, AddressOnALU, Immediates DEF Committing
<1>6. ~imem_data.zero /\ imem_data.opcode = Abstract!Stype /\ imem_data.funct3 = 2
  BY DEF Listed, Is, Rtype, Itype, LoadType, Stype, Btype, Jtype, Abstract!Stype
<1>7. Abstract!SW
  BY <1>3, <1>4, <1>5, <1>6, CommitTick, SameOperands, SameTrunc, SamePorts
     DEF Committing, Abstract!SW, Abstract!Matches
<1> QED
  BY <1>7, CommitMaps

\* Committing a branch is BEQ or BNE.
LEMMA BranchMaps ==
  ASSUME Committing, Listed(imem_data), Is(imem_data, {Btype})
  PROVE  Abstract!Execute
<1> DEFINE taken == BranchTaken(imem_data, ALUOut)
<1>1. /\ ~Is(imem_data, {Itype, LoadType, Stype, Jtype}) /\ ~Is(imem_data, {Jtype})
      /\ ~Is(imem_data, {Stype}) /\ ~Is(imem_data, {Rtype, Itype, LoadType, Jtype})
      /\ ~Is(imem_data, {Rtype})
  BY DEF Is, Rtype, Itype, LoadType, Stype, Btype, Jtype
<1>2. /\ control.MemWrite = FALSE /\ control.RegWrite = FALSE /\ ~control.Jump /\ control.Branch
      /\ ~control.ALUSrc /\ control.ALUOps = 1
  BY <1>1 DEF control, ControlUnit
<1>3. ALUOut = Trunc(Source1 - Source2)
  <2>1. ALUOut = ALU(ALU_SUB, Source1, Source2)
    BY <1>2 DEF ALUOut, ALUOutOf, ALUSrcB, control, ALUControlUnit, Source1, Source2
  <2> QED
    BY <2>1, SubtractsThroughAdder, SameOperands
<1>4. (ALUOut = 0) <=> (Source1 = Source2)
  BY <1>3, ZeroDifference, SameOperands
<1>5. RegsAfter' = regs /\ mem' = mem
  BY <1>2, CommitTick DEF WriteReg
<1>6. PCAfter = Trunc(pc + (IF taken THEN imem_data.Bimm ELSE 4))
  <2>1. load_address <=> taken
    BY <1>2 DEF load_address, LoadAddress, control
  <2>2. AddressToLoad(imem_data, pc) = Trunc(pc + imem_data.Bimm)
    BY Immediates DEF AddressToLoad
  <2>3. ~halt
    BY DEF halt, Is
  <2> QED
    BY <2>1, <2>2, <2>3 DEF PCAfter, NextPC
<1>7. ~imem_data.zero /\ imem_data.opcode = Abstract!Btype /\ imem_data.funct3 \in {0, 1}
  BY DEF Listed, Is, Rtype, Itype, LoadType, Stype, Btype, Jtype, Abstract!Btype
<1>8. CASE imem_data.funct3 = 0
  <2>1. taken <=> Source1 = Source2
    BY <1>4, <1>8 DEF BranchTaken
  <2>2. Abstract!BEQ
    BY <1>5, <1>6, <1>7, <1>8, <2>1, CommitTick, SameOperands, SameTrunc
       DEF Committing, Abstract!BEQ, Abstract!Matches, Abstract!Branch
  <2> QED
    BY <2>2, CommitMaps
<1>9. CASE imem_data.funct3 = 1
  <2>1. taken <=> Source1 # Source2
    BY <1>4, <1>9 DEF BranchTaken
  <2>2. Abstract!BNE
    BY <1>5, <1>6, <1>7, <1>9, <2>1, CommitTick, SameOperands, SameTrunc
       DEF Committing, Abstract!BNE, Abstract!Matches, Abstract!Branch
  <2> QED
    BY <2>2, CommitMaps
<1> QED
  BY <1>7, <1>8, <1>9

\* Committing a jump that keeps no return address is JAL.
LEMMA JumpMaps ==
  ASSUME Committing, Listed(imem_data), Is(imem_data, {Jtype})
  PROVE  Abstract!Execute
<1>1. ~Is(imem_data, {Stype})
  BY DEF Is, Stype, Jtype
<1>2. control.MemWrite = FALSE /\ control.Jump
  BY <1>1 DEF control, ControlUnit
<1>3. ~imem_data.zero /\ imem_data.opcode = Abstract!Jtype /\ imem_data.rd = 0
  BY DEF Listed, Is, Rtype, Itype, LoadType, Stype, Btype, Jtype, Abstract!Jtype
<1>4. RegsAfter' = regs /\ mem' = mem
  BY <1>2, <1>3, CommitTick DEF WriteReg
<1>5. PCAfter = Trunc(pc + imem_data.Jimm)
  <2>1. load_address /\ ~halt
    BY <1>2 DEF load_address, LoadAddress, control, halt, Is
  <2>2. AddressToLoad(imem_data, pc) = Trunc(pc + imem_data.Jimm)
    BY Immediates DEF AddressToLoad
  <2> QED
    BY <2>1, <2>2 DEF PCAfter, NextPC
<1>6. Abstract!JAL
  BY <1>3, <1>4, <1>5, CommitTick, SameOperands, SameTrunc, SamePorts
     DEF Committing, Abstract!JAL, WriteReg
<1> QED
  BY <1>6, CommitMaps

----------------------------------------------------------------------------
(* Every step of the bench is a step of the instruction set, or invisible.  *)

\* The tick that ends an execute cycle writes what was committed.
LEMMA EndingTick ==
  ASSUME TypeOK, Tick(TRUE), execute_cycle
  PROVE  UNCHANGED Abstract!vars
<1>1. /\ execute_cycle' = FALSE /\ pc' = PCAfter /\ regs' = RegsAfter
      /\ areset' = areset /\ rom' = rom
  BY DEF Tick, TypeOK
<1>2. mem' = mem
  BY <1>1 DEF Tick, RamTick
<1> QED
  BY <1>1, <1>2 DEF Abstract!vars

\* Every step maps, in a state whose memory accesses are in range.
LEMMA StepMaps ==
  ASSUME Conditions, TypeOK, BenchInv, InRange, [Next]_vars
  PROVE  [Abstract!Next]_(Abstract!vars)
<1>1. CASE BeginReset
  <2>1. Abstract!Reset
    BY <1>1, SameConstants DEF BeginReset, Abstract!Reset
  <2> QED
    BY <2>1 DEF Abstract!Next
<1>2. CASE EndReset
  <2>1. Abstract!Release
    BY <1>2 DEF EndReset, BenchInv, Abstract!Release
  <2> QED
    BY <2>1 DEF Abstract!Next
<1>3. CASE Tick(TRUE) /\ execute_cycle
  BY <1>3, EndingTick
<1>4. CASE Tick(TRUE) /\ ~execute_cycle
  <2>1. Committing
    BY <1>4 DEF Committing
  <2>2. Listed(imem_data)
    BY DEF Conditions, TypeOK
  <2>3. \/ imem_data.zero \/ Is(imem_data, {Rtype}) \/ Is(imem_data, {Itype})
        \/ Is(imem_data, {LoadType}) \/ Is(imem_data, {Stype})
        \/ Is(imem_data, {Btype}) \/ Is(imem_data, {Jtype})
    BY <2>2 DEF Listed, Is
  <2> QED
    BY <2>1, <2>2, <2>3, HaltCommit, RtypeMaps, ItypeMaps, LoadMaps, StoreMaps, BranchMaps,
       JumpMaps DEF Abstract!Next
<1>5. CASE UNCHANGED vars
  <2>1. /\ areset' = areset /\ rom' = rom /\ mem' = mem /\ execute_cycle' = execute_cycle
        /\ pc' = pc /\ regs' = regs /\ imem_data' = imem_data /\ dmem_rdata' = dmem_rdata
    BY <1>5 DEF vars
  <2>2. PCAfter' = PCAfter /\ RegsAfter' = RegsAfter
    BY <2>1 DEF PCAfter, RegsAfter, halt, load_address, control, ALUOut, ALUOutOf
  <2> QED
    BY <2>1, <2>2 DEF Abstract!vars
<1> QED
  BY <1>1, <1>2, <1>3, <1>4, <1>5 DEF Next, Conditions

\* The bench starts in an initial state of the instruction set.
LEMMA InitMaps ==
  ASSUME Init
  PROVE  Abstract!Init
<1>1. rom \in [ROMIdx -> Instr] /\ mem \in [RAMIdx -> Word]
  BY BenchAssumption, ZeroIsWord DEF Init
<1> QED
  BY <1>1, SameConstants DEF Init, Abstract!Init

(* For every word width, number of registers, memory size and program of    *)
(* listed instructions, with resets at any time, what the simulated CPU     *)
(* does is what the instruction set table says, as long as its loads and    *)
(* stores stay in the array of tb_CPU.cpp's RAM.  Unlike the board it needs *)
(* nothing of the instruction before a load.                                *)
THEOREM BenchImplementsISA ==
  ASSUME Conditions
  PROVE  Spec /\ []InRange => ImplementsISA
<1>1. Init => BenchInv
  BY DEF Init, BenchInv, InputsCurrent
<1>2. TypeOK /\ BenchInv /\ [Next]_vars => BenchInv'
  BY NextKeepsBenchInv
<1>3. Init => Abstract!Init
  BY InitMaps
<1>4. TypeOK /\ BenchInv /\ InRange /\ [Next]_vars => [Abstract!Next]_(Abstract!vars)
  BY StepMaps
<1> QED
  BY <1>1, <1>2, <1>3, <1>4, TypeCorrect, PTL DEF Spec, ImplementsISA, Abstract!Spec

(* Nothing is asked of the program where the array holds every address.     *)
THEOREM WholeMemoryImplementsISA ==
  ASSUME Conditions, Radix <= 4 * RAMWORDS
  PROVE  Spec => ImplementsISA
<1>1. TypeOK => InRange
  <2> SUFFICES ASSUME ALUOut \in Word PROVE ALUOut \div 4 \in RAMIdx
    BY SignalTypes DEF InRange
  <2>1. ALUOut \in Nat /\ ALUOut < 4 * RAMWORDS
    BY RadixPositive, BenchAssumption DEF Word
  <2> QED
    BY <2>1, BenchAssumption DEF RAMIdx
<1> QED
  BY <1>1, TypeCorrect, BenchImplementsISA, PTL
----------------------------------------------------------------------------
(* The test of tb_CPU.cpp: what every instruction of its program commits.   *)

CommittedPC   == IF execute_cycle THEN PCAfter ELSE pc
CommittedRegs == IF execute_cycle THEN RegsAfter ELSE regs

\* A listed instruction commits as the operation of its opcode.
LEMMA CommitsListed ==
  ASSUME Committing, Listed(imem_data), ~imem_data.zero
  PROVE  Abstract!Execute
<1>1. \/ Is(imem_data, {Rtype}) \/ Is(imem_data, {Itype})
      \/ Is(imem_data, {LoadType}) \/ Is(imem_data, {Stype})
      \/ Is(imem_data, {Btype}) \/ Is(imem_data, {Jtype})
  BY DEF Listed, Is
<1> QED
  BY <1>1, RtypeMaps, ItypeMaps, LoadMaps, StoreMaps, BranchMaps, JumpMaps

\* Which operation it is.
LEMMA ExecutedIs ==
  ASSUME Committing, Listed(imem_data), ~imem_data.zero
  PROVE  /\ imem_data.opcode = Itype => Abstract!ADDI
         /\ imem_data.opcode = LoadType => Abstract!LW
         /\ imem_data.opcode = Stype => Abstract!SW
         /\ imem_data.opcode = Jtype => Abstract!JAL
         /\ imem_data.opcode = Btype /\ imem_data.funct3 = 1 => Abstract!BNE
         /\ imem_data.opcode = Rtype /\ imem_data.funct3 = 0 /\ imem_data.funct7 = 0
              => Abstract!ADD
<1>1. Abstract!Execute /\ Abstract!i = imem_data
  BY CommitsListed, SameOperands
<1>2. /\ Abstract!Rtype = 51 /\ Abstract!Itype = 19 /\ Abstract!Stype = 35
      /\ Abstract!Btype = 99 /\ Abstract!Jtype = 111 /\ Abstract!LoadType = 3
      /\ Rtype = 51 /\ Itype = 19 /\ Stype = 35 /\ Btype = 99 /\ Jtype = 111 /\ LoadType = 3
  BY DEF Rtype, Itype, Stype, Btype, Jtype, LoadType, Abstract!Rtype, Abstract!Itype,
         Abstract!Stype, Abstract!Btype, Abstract!Jtype, Abstract!LoadType
<1>3. /\ Abstract!ADD => imem_data.opcode = 51
      /\ Abstract!SUB => imem_data.opcode = 51 /\ imem_data.funct7 = 32
      /\ Abstract!AND => imem_data.opcode = 51 /\ imem_data.funct3 = 7
      /\ Abstract!OR  => imem_data.opcode = 51 /\ imem_data.funct3 = 6
      /\ Abstract!XOR => imem_data.opcode = 51 /\ imem_data.funct3 = 4
      /\ Abstract!ADDI => imem_data.opcode = 19
      /\ Abstract!LW => imem_data.opcode = 3
      /\ Abstract!SW => imem_data.opcode = 35
      /\ Abstract!BEQ => imem_data.opcode = 99 /\ imem_data.funct3 = 0
      /\ Abstract!BNE => imem_data.opcode = 99
      /\ Abstract!JAL => imem_data.opcode = 111
  BY <1>1, <1>2 DEF Abstract!ADD, Abstract!SUB, Abstract!AND, Abstract!OR, Abstract!XOR,
     Abstract!ADDI, Abstract!LW, Abstract!SW, Abstract!BEQ, Abstract!BNE, Abstract!JAL,
     Abstract!MatchesR, Abstract!Matches
<1>4. \/ Abstract!ADD \/ Abstract!SUB \/ Abstract!AND \/ Abstract!OR \/ Abstract!XOR
      \/ Abstract!ADDI \/ Abstract!LW \/ Abstract!SW \/ Abstract!BEQ \/ Abstract!BNE
      \/ Abstract!JAL
  BY <1>1 DEF Abstract!Execute
<1> QED
  BY <1>2, <1>3, <1>4

\* A tick that commits starts from the CPU's own PC and registers.
LEMMA CommitsFrom ==
  ASSUME Committing
  PROVE  CommittedPC = pc /\ CommittedRegs = regs
  BY DEF Committing, CommittedPC, CommittedRegs

\* The halt word commits nothing.
LEMMA CommitsHalt ==
  ASSUME Committing, imem_data.zero
  PROVE  CommittedPC' = pc /\ CommittedRegs' = regs /\ mem' = mem
  BY HaltCommit, CommitsFrom DEF Abstract!vars, CommittedPC, CommittedRegs

\* What SetRd sets.
LEMMA CommitsRd ==
  ASSUME Committing, NEW value, Abstract!SetRd(value)
  PROVE  /\ CommittedPC' = Trunc(pc + 4) /\ mem' = mem
         /\ CommittedRegs' = WriteReg(regs, TRUE, imem_data.rd, value)
  BY SameOperands, SamePorts, SameTrunc
     DEF Committing, Abstract!SetRd, CommittedPC, CommittedRegs

\* addi rd, rs1, imm.
LEMMA CommitsADDI ==
  ASSUME Committing, Listed(imem_data), NEW rd, NEW rs1, NEW imm,
         AddsImmediate(imem_data, rd, rs1, imm)
  PROVE  /\ CommittedPC' = Trunc(pc + 4) /\ mem' = mem
         /\ CommittedRegs' = WriteReg(regs, TRUE, rd, Trunc(ReadReg(regs, rs1) + imm))
<1>1. Abstract!SetRd(Trunc(Source1 + imem_data.Iimm))
  BY ExecutedIs, SameOperands, SameTrunc DEF AddsImmediate, Abstract!ADDI
<1> QED
  BY <1>1, CommitsRd DEF AddsImmediate, Source1

\* add rd, rs1, rs2.
LEMMA CommitsADD ==
  ASSUME Committing, Listed(imem_data), ~imem_data.zero, imem_data.opcode = Rtype,
         imem_data.funct3 = 0, imem_data.funct7 = 0
  PROVE  /\ CommittedPC' = Trunc(pc + 4) /\ mem' = mem
         /\ CommittedRegs' = WriteReg(regs, TRUE, imem_data.rd, Trunc(Source1 + Source2))
<1>1. Abstract!SetRd(Trunc(Source1 + Source2))
  BY ExecutedIs, SameOperands, SameTrunc DEF Abstract!ADD
<1> QED
  BY <1>1, CommitsRd

\* lw rd, imm(rs1).
LEMMA CommitsLW ==
  ASSUME Committing, Listed(imem_data), ~imem_data.zero, imem_data.opcode = LoadType
  PROVE  /\ CommittedPC' = Trunc(pc + 4) /\ mem' = mem
         /\ CommittedRegs' = WriteReg(regs, TRUE, imem_data.rd,
              mem[WordAddress(Trunc(Source1 + imem_data.Iimm), RAMWORDS)])
<1>1. Abstract!SetRd(mem[WordAddress(Trunc(Source1 + imem_data.Iimm), RAMWORDS)])
  BY ExecutedIs, SameOperands, SameTrunc, SamePorts DEF Abstract!LW
<1> QED
  BY <1>1, CommitsRd

\* sw rs2, imm(rs1).
LEMMA CommitsSW ==
  ASSUME Committing, Listed(imem_data), ~imem_data.zero, imem_data.opcode = Stype
  PROVE  /\ CommittedPC' = Trunc(pc + 4) /\ CommittedRegs' = regs
         /\ mem' = [mem EXCEPT ![WordAddress(Trunc(Source1 + imem_data.Simm), RAMWORDS)] = Source2]
  BY ExecutedIs, SameOperands, SameTrunc, SamePorts
     DEF Committing, Abstract!SW, CommittedPC, CommittedRegs

\* bne rs1, rs2, imm.
LEMMA CommitsBNE ==
  ASSUME Committing, Listed(imem_data), ~imem_data.zero, imem_data.opcode = Btype,
         imem_data.funct3 = 1
  PROVE  /\ CommittedPC' = Trunc(pc + (IF Source1 # Source2 THEN imem_data.Bimm ELSE 4))
         /\ CommittedRegs' = regs /\ mem' = mem
  BY ExecutedIs, SameOperands, SameTrunc
     DEF Committing, Abstract!BNE, Abstract!Branch, CommittedPC, CommittedRegs

\* jal x0, imm.
LEMMA CommitsJAL ==
  ASSUME Committing, Listed(imem_data), ~imem_data.zero, imem_data.opcode = Jtype,
         imem_data.rd = 0
  PROVE  /\ CommittedPC' = Trunc(pc + imem_data.Jimm)
         /\ CommittedRegs' = regs /\ mem' = mem
  BY ExecutedIs, SameOperands, SameTrunc, SamePorts
     DEF Committing, Abstract!JAL, WriteReg, CommittedPC, CommittedRegs

----------------------------------------------------------------------------
(* The array of tb_CPU.cpp, row after row, and the machine along it.        *)

\* The columns of the array are small numbers.
Columns(row) ==
  /\ row[1] \in 0 .. 60 /\ row[2] \in 0 .. 60 /\ row[3] \in 0 .. 60
  /\ row[4] \in 0 .. 60 /\ row[5] \in {0, 55}

\* The row that follows row when the instruction at its PC has executed.
Follows(row, next) ==
  /\ Columns(row) /\ Columns(next)
  /\ \/ row[1] = 0  /\ next = <<4, 0, row[3], row[4], row[5]>>
     \/ row[1] = 4  /\ next = <<8, row[2], 10, row[4], row[5]>>
     \/ row[1] = 8  /\ next = <<12, row[2] + row[3], row[3], row[4], row[5]>>
     \/ row[1] = 12 /\ row[3] > 0 /\ next = <<16, row[2], row[3] - 1, row[4], row[5]>>
     \/ row[1] = 16 /\ next = <<IF row[3] # 0 THEN 8 ELSE 20, row[2], row[3], row[4], row[5]>>
     \/ row[1] = 20 /\ next = <<24, row[2], row[3], row[4], row[5]>>
     \/ row[1] = 24 /\ next = <<28, row[2], row[3], row[4], 55>> /\ row[2] = 55
     \/ row[1] = 28 /\ next = <<32, row[2], row[3], 55, 55>> /\ row[5] = 55
     \/ row[1] = 32 /\ next = <<48, row[2], row[3], row[4], row[5]>>
     \/ row[1] = 48 /\ next = <<52, row[2], row[3], row[4] + 5, row[5]>>
     \/ row[1] = 52 /\ next = <<52, row[2], row[3], row[4], row[5]>>

\* Every row of the array follows the one before it.
LEMMA RowsFollow == \A k \in 1 .. Rows - 1 : Follows(Expected[k], Expected[k + 1])
<1>1. /\ Expected[1] = <<0, 0, 0, 0, 0>> /\ Expected[2] = <<4, 0, 0, 0, 0>>
      /\ Expected[3] = <<8, 0, 10, 0, 0>> /\ Expected[4] = <<12, 10, 10, 0, 0>>
      /\ Expected[5] = <<16, 10, 9, 0, 0>> /\ Expected[6] = <<8, 10, 9, 0, 0>>
      /\ Expected[7] = <<12, 19, 9, 0, 0>> /\ Expected[8] = <<16, 19, 8, 0, 0>>
      /\ Expected[9] = <<8, 19, 8, 0, 0>> /\ Expected[10] = <<12, 27, 8, 0, 0>>
      /\ Expected[11] = <<16, 27, 7, 0, 0>> /\ Expected[12] = <<8, 27, 7, 0, 0>>
      /\ Expected[13] = <<12, 34, 7, 0, 0>> /\ Expected[14] = <<16, 34, 6, 0, 0>>
      /\ Expected[15] = <<8, 34, 6, 0, 0>> /\ Expected[16] = <<12, 40, 6, 0, 0>>
      /\ Expected[17] = <<16, 40, 5, 0, 0>> /\ Expected[18] = <<8, 40, 5, 0, 0>>
      /\ Expected[19] = <<12, 45, 5, 0, 0>> /\ Expected[20] = <<16, 45, 4, 0, 0>>
      /\ Expected[21] = <<8, 45, 4, 0, 0>> /\ Expected[22] = <<12, 49, 4, 0, 0>>
      /\ Expected[23] = <<16, 49, 3, 0, 0>> /\ Expected[24] = <<8, 49, 3, 0, 0>>
      /\ Expected[25] = <<12, 52, 3, 0, 0>> /\ Expected[26] = <<16, 52, 2, 0, 0>>
      /\ Expected[27] = <<8, 52, 2, 0, 0>> /\ Expected[28] = <<12, 54, 2, 0, 0>>
      /\ Expected[29] = <<16, 54, 1, 0, 0>> /\ Expected[30] = <<8, 54, 1, 0, 0>>
      /\ Expected[31] = <<12, 55, 1, 0, 0>> /\ Expected[32] = <<16, 55, 0, 0, 0>>
      /\ Expected[33] = <<20, 55, 0, 0, 0>> /\ Expected[34] = <<24, 55, 0, 0, 0>>
      /\ Expected[35] = <<28, 55, 0, 0, 55>> /\ Expected[36] = <<32, 55, 0, 55, 55>>
      /\ Expected[37] = <<48, 55, 0, 55, 55>> /\ Expected[38] = <<52, 55, 0, 60, 55>>
      /\ Expected[39] = <<52, 55, 0, 60, 55>>
  BY SMT DEF Expected
<1>2. \A k \in 1 .. 10 : Follows(Expected[k], Expected[k + 1])
  BY <1>1 DEF Follows, Columns
<1>3. \A k \in 11 .. 20 : Follows(Expected[k], Expected[k + 1])
  BY <1>1 DEF Follows, Columns
<1>4. \A k \in 21 .. 30 : Follows(Expected[k], Expected[k + 1])
  BY <1>1 DEF Follows, Columns
<1>5. \A k \in 31 .. 38 : Follows(Expected[k], Expected[k + 1])
  BY <1>1 DEF Follows, Columns
<1> QED
  BY <1>2, <1>3, <1>4, <1>5 DEF Rows

\* The test's program running, and about to commit an instruction.
TestState == TestSetting /\ TypeOK /\ BenchInv /\ rom \in InitialRoms /\ Testing /\ ~areset
TestTick  == TestState /\ Tick(TRUE) /\ ~execute_cycle

\* The machine has committed to the columns of row; the program leaves x3 at
\* 0, and RAM[0] may hold the sum of a run that a reset cut short.
AtRow(row) ==
  /\ CommittedPC = row[1]
  /\ CommittedRegs[1] = row[2] /\ CommittedRegs[2] = row[3]
  /\ CommittedRegs[3] = 0 /\ CommittedRegs[5] = row[4]
  /\ mem[0] = row[5] \/ mem[0] = 55

\* Small numbers survive truncation, and -1 and -8 take away 1 and 8.
LEMMA SmallSums ==
  ASSUME Radix > 60
  PROVE  /\ \A n \in 0 .. 60 : Trunc(n) = n
         /\ \A n \in 1 .. 60 : Trunc(n + Trunc(0 - 1)) = n - 1
         /\ Trunc(16 + Trunc(0 - 8)) = 8
<1>1. Radix \in Nat
  BY RadixPositive
<1>2. \A n \in 0 .. 60 : n % Radix = n
  BY <1>1, SmallRemainder
<1>3. \A n \in Nat : n < Radix => (n + Radix) % Radix = n
  <2> SUFFICES ASSUME NEW n \in Nat, n < Radix PROVE (n + Radix) % Radix = n
    OBVIOUS
  <2>1. n + Radix = 1 * Radix + n
    BY <1>1
  <2> QED
    BY <1>1, <2>1
<1>4. \A d \in 1 .. 60 : (0 - d) % Radix = Radix - d
  BY <1>1
<1>5. ASSUME NEW n \in 1 .. 60 PROVE Trunc(n + Trunc(0 - 1)) = n - 1
  <2>1. Trunc(0 - 1) = Radix - 1 /\ n - 1 \in Nat /\ n - 1 < Radix
    BY <1>1, <1>4 DEF Trunc
  <2>2. n + Trunc(0 - 1) = (n - 1) + Radix
    BY <1>1, <2>1
  <2>3. ((n - 1) + Radix) % Radix = n - 1
    BY <1>3, <2>1
  <2> QED
    BY <2>2, <2>3 DEF Trunc
<1>6. Trunc(16 + Trunc(0 - 8)) = 8
  <2>1. Trunc(0 - 8) = Radix - 8
    BY <1>4 DEF Trunc
  <2>2. 16 + Trunc(0 - 8) = 8 + Radix
    BY <1>1, <2>1
  <2>3. (8 + Radix) % Radix = 8
    BY <1>1, <1>3
  <2> QED
    BY <2>2, <2>3 DEF Trunc
<1> QED
  BY <1>2, <1>5, <1>6 DEF Trunc

\* The program the test runs, and the word it is about to execute.
LEMMA TestWords ==
  ASSUME TestState
  PROVE  /\ IsSumProgram(rom, 10)
         /\ \A a \in 0 .. 13 : pc = 4 * a => imem_data = rom[a]
         /\ Listed(imem_data)
<1>1. rom = Image(TbCpuROM, ROMWORDS)
  BY DEF TestState, TestSetting, Testing
<1>2. IsSumProgram(rom, 10)
  BY <1>1, SumProgramsSum, BenchAssumption DEF TestState, TestSetting
<1>3. ASSUME NEW a \in 0 .. 13, pc = 4 * a
      PROVE  imem_data = rom[a]
  <2>1. pc \div 4 = a
    BY <1>3
  <2>2. a % ROMWORDS = a
    BY SmallRemainder, BenchAssumption DEF TestState, TestSetting
  <2> QED
    BY <2>1, <2>2 DEF TestState, BenchInv, InputsCurrent, RomEval, WordAddress
<1>4. Listed(imem_data)
  BY DEF TestState, TestSetting, Conditions, TypeOK
<1> QED
  BY <1>2, <1>3, <1>4

\* Its loads and stores name RAM[0], so every tick of it commits.
LEMMA TestCommits ==
  ASSUME TestTick, NEW row, Columns(row), AtRow(row),
         NEW a \in {0, 1, 2, 3, 4, 5, 6, 7, 8, 12, 13}, pc = 4 * a
  PROVE  Committing
<1> USE DEF TestTick
<1>1. imem_data = rom[a]
  BY TestWords
<1>2. ASSUME control.MemRead \/ control.MemWrite PROVE ALUOut \div 4 \in RAMIdx
  <2>1. Is(imem_data, {LoadType, Stype})
    BY <1>2 DEF control, ControlUnit, Is
  <2>2. a \in {6, 7}
    BY <1>1, <2>1, TestWords DEF Is, IsSumProgram, AddsImmediate, Itype, Rtype, Btype, Jtype,
       LoadType, Stype
  <2>3. Is(imem_data, {Itype, LoadType, Stype})
    BY <2>1 DEF Is
  <2>4. Source1 = 0
    BY <1>1, <2>2, TestWords DEF IsSumProgram, Source1, ReadReg, AtRow, CommittedRegs
  <2>5. ImmOut(imem_data) = 0
    BY <1>1, <2>1, <2>2, TestWords, Immediates DEF IsSumProgram, Is, LoadType, Stype
  <2>6. ALUOut = 0
    <3>1. ALUOut = Trunc(0)
      BY <2>3, <2>4, <2>5, AddressOnALU DEF TestState
    <3> QED
      BY <3>1, SmallSums DEF TestState, TestSetting
  <2> QED
    BY <2>6, BenchAssumption DEF RAMIdx
<1> QED
  BY <1>2 DEF Committing, InRange, TestState

\* The instruction at the PC of a row takes the machine to the next row.
LEMMA RowStep ==
  ASSUME TestTick, NEW row, NEW next, Follows(row, next), AtRow(row)
  PROVE  AtRow(next)'
<1>1. /\ pc = row[1] /\ regs[1] = row[2] /\ regs[2] = row[3] /\ regs[3] = 0
      /\ regs[5] = row[4] /\ (mem[0] = row[5] \/ mem[0] = 55)
  BY DEF TestTick, AtRow, CommittedPC, CommittedRegs
<1>2. regs \in [RegIdx -> Word] /\ 1 \in RegIdx /\ 2 \in RegIdx /\ 3 \in RegIdx /\ 5 \in RegIdx
      /\ mem \in [RAMIdx -> Word] /\ 0 \in RAMIdx
  BY RegisterAssumption, BenchAssumption
     DEF TestTick, TestState, TestSetting, TypeOK, RegIdx, RAMIdx
<1>3. /\ \A n \in 0 .. 60 : Trunc(n) = n
      /\ \A n \in 1 .. 60 : Trunc(n + Trunc(0 - 1)) = n - 1
      /\ Trunc(16 + Trunc(0 - 8)) = 8
  BY SmallSums DEF TestTick, TestState, TestSetting
<1>4. WordAddress(Trunc(0), RAMWORDS) = 0
  BY <1>3, BenchAssumption DEF WordAddress
<1>5. Columns(row) /\ Columns(next)
  BY DEF Follows
<1>6. \A a \in {0, 1, 2, 3, 4, 5, 6, 7, 8, 12, 13} :
        row[1] = 4 * a => Committing /\ imem_data = rom[a]
  BY <1>1, <1>5, TestCommits, TestWords DEF TestTick
<1>7. IsSumProgram(rom, 10) /\ Listed(imem_data)
  BY TestWords DEF TestTick
<1>8. CASE row[1] = 0
  <2>1. AddsImmediate(imem_data, 1, 0, 0) /\ Committing
    BY <1>6, <1>7, <1>8 DEF IsSumProgram
  <2>2. CommittedPC' = Trunc(pc + 4) /\ mem' = mem
        /\ CommittedRegs' = WriteReg(regs, TRUE, 1, Trunc(ReadReg(regs, 0) + 0))
    BY <1>7, <2>1, CommitsADDI
  <2>3. Trunc(pc + 4) = 4 /\ Trunc(ReadReg(regs, 0) + 0) = 0
    BY <1>1, <1>3, <1>8 DEF ReadReg
  <2>4. CommittedPC' = 4 /\ CommittedRegs' = WriteReg(regs, TRUE, 1, 0)
    BY <2>2, <2>3
  <2> QED
    BY <1>1, <1>2, <1>8, <2>2, <2>4 DEF Follows, AtRow, WriteReg
<1>9. CASE row[1] = 4
  <2>1. AddsImmediate(imem_data, 2, 0, 10) /\ Committing
    BY <1>6, <1>7, <1>9 DEF IsSumProgram
  <2>2. CommittedPC' = Trunc(pc + 4) /\ mem' = mem
        /\ CommittedRegs' = WriteReg(regs, TRUE, 2, Trunc(ReadReg(regs, 0) + 10))
    BY <1>7, <2>1, CommitsADDI
  <2>3. Trunc(pc + 4) = 8 /\ Trunc(ReadReg(regs, 0) + 10) = 10
    BY <1>1, <1>3, <1>9 DEF ReadReg
  <2>4. CommittedPC' = 8 /\ CommittedRegs' = WriteReg(regs, TRUE, 2, 10)
    BY <2>2, <2>3
  <2> QED
    BY <1>1, <1>2, <1>9, <2>2, <2>4 DEF Follows, AtRow, WriteReg
<1>10. CASE row[1] = 8
  <2>1. /\ ~imem_data.zero /\ imem_data.opcode = Rtype /\ imem_data.funct3 = 0
        /\ imem_data.funct7 = 0 /\ imem_data.rd = 1 /\ imem_data.rs1 = 1 /\ imem_data.rs2 = 2
        /\ Committing
    BY <1>6, <1>7, <1>10 DEF IsSumProgram
  <2>2. CommittedPC' = Trunc(pc + 4) /\ mem' = mem
        /\ CommittedRegs' = WriteReg(regs, TRUE, 1, Trunc(Source1 + Source2))
    BY <1>7, <2>1, CommitsADD
  <2>3. Source1 = row[2] /\ Source2 = row[3] /\ next[2] = row[2] + row[3]
        /\ next[2] \in 0 .. 60
    BY <1>1, <1>5, <1>10, <2>1 DEF Source1, Source2, ReadReg, Follows, Columns
  <2>4. Trunc(pc + 4) = 12 /\ Trunc(Source1 + Source2) = next[2]
    BY <1>1, <1>3, <1>10, <2>3
  <2>5. CommittedPC' = 12 /\ CommittedRegs' = WriteReg(regs, TRUE, 1, next[2])
    BY <2>2, <2>4
  <2> QED
    BY <1>1, <1>2, <1>10, <2>2, <2>5 DEF Follows, AtRow, WriteReg
<1>11. CASE row[1] = 12
  <2>1. AddsImmediate(imem_data, 2, 2, Trunc(0 - 1)) /\ Committing
    BY <1>6, <1>7, <1>11 DEF IsSumProgram
  <2>2. CommittedPC' = Trunc(pc + 4) /\ mem' = mem
        /\ CommittedRegs' = WriteReg(regs, TRUE, 2, Trunc(ReadReg(regs, 2) + Trunc(0 - 1)))
    BY <1>7, <2>1, CommitsADDI
  <2>3. ReadReg(regs, 2) = row[3] /\ row[3] \in 1 .. 60 /\ next[3] = row[3] - 1
    BY <1>1, <1>5, <1>11 DEF ReadReg, Follows, Columns
  <2>4. Trunc(pc + 4) = 16 /\ Trunc(ReadReg(regs, 2) + Trunc(0 - 1)) = next[3]
    BY <1>1, <1>3, <1>11, <2>3
  <2>5. CommittedPC' = 16 /\ CommittedRegs' = WriteReg(regs, TRUE, 2, next[3])
    BY <2>2, <2>4
  <2> QED
    BY <1>1, <1>2, <1>11, <2>2, <2>5 DEF Follows, AtRow, WriteReg
<1>12. CASE row[1] = 16
  <2>1. /\ ~imem_data.zero /\ imem_data.opcode = Btype /\ imem_data.funct3 = 1
        /\ imem_data.rs1 = 2 /\ imem_data.rs2 = 0 /\ imem_data.Bimm = Trunc(0 - 8)
        /\ Committing
    BY <1>6, <1>7, <1>12 DEF IsSumProgram
  <2>2. /\ CommittedPC' = Trunc(pc + (IF Source1 # Source2 THEN imem_data.Bimm ELSE 4))
        /\ CommittedRegs' = regs /\ mem' = mem
    BY <1>7, <2>1, CommitsBNE
  <2>3. Source1 = row[3] /\ Source2 = 0
    BY <1>1, <2>1 DEF Source1, Source2, ReadReg
  <2>4. CommittedPC' = IF row[3] # 0 THEN 8 ELSE 20
    BY <1>1, <1>3, <1>12, <2>1, <2>2, <2>3
  <2> QED
    BY <1>1, <1>12, <2>2, <2>4 DEF Follows, AtRow
<1>13. CASE row[1] = 20
  <2>1. AddsImmediate(imem_data, 3, 0, 0) /\ Committing
    BY <1>6, <1>7, <1>13 DEF IsSumProgram
  <2>2. CommittedPC' = Trunc(pc + 4) /\ mem' = mem
        /\ CommittedRegs' = WriteReg(regs, TRUE, 3, Trunc(ReadReg(regs, 0) + 0))
    BY <1>7, <2>1, CommitsADDI
  <2>3. Trunc(pc + 4) = 24 /\ Trunc(ReadReg(regs, 0) + 0) = 0
    BY <1>1, <1>3, <1>13 DEF ReadReg
  <2>4. CommittedPC' = 24 /\ CommittedRegs' = WriteReg(regs, TRUE, 3, 0)
    BY <2>2, <2>3
  <2> QED
    BY <1>1, <1>2, <1>13, <2>2, <2>4 DEF Follows, AtRow, WriteReg
<1>14. CASE row[1] = 24
  <2>1. /\ ~imem_data.zero /\ imem_data.opcode = Stype
        /\ imem_data.rs1 = 3 /\ imem_data.rs2 = 1 /\ imem_data.Simm = 0 /\ Committing
    BY <1>6, <1>7, <1>14 DEF IsSumProgram
  <2>2. /\ CommittedPC' = Trunc(pc + 4) /\ CommittedRegs' = regs
        /\ mem' = [mem EXCEPT ![WordAddress(Trunc(Source1 + 0), RAMWORDS)] = Source2]
    BY <1>7, <2>1, CommitsSW
  <2>3. Source1 = 0 /\ Source2 = row[2]
    BY <1>1, <2>1 DEF Source1, Source2, ReadReg
  <2>4. Trunc(pc + 4) = 28 /\ Trunc(Source1 + 0) = Trunc(0)
    BY <1>1, <1>3, <1>14, <2>3
  <2>5. CommittedPC' = 28 /\ mem' = [mem EXCEPT ![0] = row[2]]
    BY <1>4, <2>2, <2>3, <2>4
  <2> QED
    BY <1>1, <1>2, <1>14, <2>2, <2>5 DEF Follows, AtRow
<1>15. CASE row[1] = 28
  <2>1. /\ ~imem_data.zero /\ imem_data.opcode = LoadType /\ imem_data.rd = 5
        /\ imem_data.rs1 = 3 /\ imem_data.Iimm = 0 /\ Committing
    BY <1>6, <1>7, <1>15 DEF IsSumProgram
  <2>2. /\ CommittedPC' = Trunc(pc + 4) /\ mem' = mem
        /\ CommittedRegs' = WriteReg(regs, TRUE, 5, mem[WordAddress(Trunc(Source1 + 0), RAMWORDS)])
    BY <1>7, <2>1, CommitsLW
  <2>3. Source1 = 0
    BY <1>1, <2>1 DEF Source1, ReadReg
  <2>4. Trunc(pc + 4) = 32 /\ Trunc(Source1 + 0) = Trunc(0)
    BY <1>1, <1>3, <1>15, <2>3
  <2>5. CommittedPC' = 32 /\ CommittedRegs' = WriteReg(regs, TRUE, 5, mem[0])
    BY <1>4, <2>2, <2>4
  <2> QED
    BY <1>1, <1>2, <1>15, <2>2, <2>5 DEF Follows, AtRow, WriteReg
<1>16. CASE row[1] = 32
  <2>1. /\ ~imem_data.zero /\ imem_data.opcode = Jtype /\ imem_data.rd = 0
        /\ imem_data.Jimm = 16 /\ Committing
    BY <1>6, <1>7, <1>16 DEF IsSumProgram
  <2>2. CommittedPC' = Trunc(pc + 16) /\ CommittedRegs' = regs /\ mem' = mem
    BY <1>7, <2>1, CommitsJAL
  <2>3. CommittedPC' = 48
    BY <1>1, <1>3, <1>16, <2>2
  <2> QED
    BY <1>1, <1>16, <2>2, <2>3 DEF Follows, AtRow
<1>17. CASE row[1] = 48
  <2>1. AddsImmediate(imem_data, 5, 5, 5) /\ Committing
    BY <1>6, <1>7, <1>17 DEF IsSumProgram
  <2>2. CommittedPC' = Trunc(pc + 4) /\ mem' = mem
        /\ CommittedRegs' = WriteReg(regs, TRUE, 5, Trunc(ReadReg(regs, 5) + 5))
    BY <1>7, <2>1, CommitsADDI
  <2>3. ReadReg(regs, 5) = row[4] /\ next[4] = row[4] + 5 /\ next[4] \in 0 .. 60
    BY <1>1, <1>5, <1>17 DEF ReadReg, Follows, Columns
  <2>4. Trunc(pc + 4) = 52 /\ Trunc(ReadReg(regs, 5) + 5) = next[4]
    BY <1>1, <1>3, <1>17, <2>3
  <2>5. CommittedPC' = 52 /\ CommittedRegs' = WriteReg(regs, TRUE, 5, next[4])
    BY <2>2, <2>4
  <2> QED
    BY <1>1, <1>2, <1>17, <2>2, <2>5 DEF Follows, AtRow, WriteReg
<1>18. CASE row[1] = 52
  <2>1. imem_data.zero /\ Committing
    BY <1>6, <1>7, <1>18 DEF IsSumProgram
  <2>2. CommittedPC' = pc /\ CommittedRegs' = regs /\ mem' = mem
    BY <2>1, CommitsHalt
  <2> QED
    BY <1>1, <1>18, <2>2 DEF Follows, AtRow
<1> QED
  BY <1>8, <1>9, <1>10, <1>11, <1>12, <1>13, <1>14, <1>15, <1>16, <1>17, <1>18 DEF Follows

\* The row the test's program has committed to, by the ticks of the test.
TestInv ==
  /\ rom \in InitialRoms
  /\ Testing =>
       /\ mem[0] \in {0, 55}
       /\ areset => pc = 0 /\ regs = ZeroRegs
       /\ ~areset =>
            /\ ticks \in 0 .. 2 * (Rows - 1)
            /\ ticks < 2 * (Rows - 1) => (execute_cycle <=> ticks % 2 = 1)
            /\ ticks = 2 * (Rows - 1) => pc = 52
            /\ AtRow(Expected[(ticks + 1) \div 2 + 1])

\* Every program starts with the CPU and the RAM at zero.
LEMMA InitTestInv ==
  ASSUME TestInit
  PROVE  TestInv
<1>1. 0 \in RAMIdx
  BY BenchAssumption DEF RAMIdx
<1> QED
  BY <1>1 DEF TestInit, Init, TestInv

\* The end of a reset takes the machine to the first row.
LEMMA ReleaseAtFirstRow ==
  ASSUME TestSetting, BenchInv, TestInv, Testing, EndReset
  PROVE  AtRow(Expected[1])'
<1>1. pc = 0 /\ regs = ZeroRegs /\ ~execute_cycle /\ mem[0] \in {0, 55}
  BY DEF EndReset, BenchInv, TestInv
<1>2. CommittedPC' = 0 /\ CommittedRegs' = ZeroRegs /\ mem' = mem
  BY <1>1 DEF EndReset, CommittedPC, CommittedRegs
<1>3. ZeroRegs[1] = 0 /\ ZeroRegs[2] = 0 /\ ZeroRegs[3] = 0 /\ ZeroRegs[5] = 0
  BY RegisterAssumption DEF TestSetting, ZeroRegs, RegIdx
<1>4. Expected[1] = <<0, 0, 0, 0, 0>>
  BY SMT DEF Expected
<1> QED
  BY <1>1, <1>2, <1>3, <1>4 DEF AtRow

\* Every row has the columns of a row, and the halt keeps the last one.
LEMMA RowsAreRows ==
  /\ \A k \in 1 .. Rows : Columns(Expected[k])
  /\ Expected[Rows][1] = 52 /\ Follows(Expected[Rows], Expected[Rows])
<1>1. Rows = 39
  BY DEF Rows
<1>2. \A k \in 1 .. 38 : Follows(Expected[k], Expected[k + 1])
  BY RowsFollow DEF Rows
<1>3. \A k \in 1 .. 38 : Columns(Expected[k]) /\ Columns(Expected[k + 1])
  BY <1>2 DEF Follows
<1>4. Columns(Expected[39])
  <2>1. Columns(Expected[38 + 1])
    BY <1>3
  <2> QED
    BY <2>1
<1>5. \A k \in 1 .. 39 : Columns(Expected[k])
  BY <1>3, <1>4
<1>6. Expected[39] = <<52, 55, 0, 60, 55>>
  BY SMT DEF Expected
<1>7. Expected[39][1] = 52 /\ Follows(Expected[39], Expected[39])
  BY <1>6 DEF Follows, Columns
<1> QED
  BY <1>1, <1>5, <1>7

\* A tick of the test commits the next row, or writes what was committed.
LEMMA TickKeepsTestInv ==
  ASSUME TestSetting, TypeOK, BenchInv, TestInv, Testing, Tick(TRUE),
         ticks' = IF ticks < 2 * (Rows - 1) THEN ticks + 1 ELSE ticks
  PROVE  TestInv'
<1>1. ~areset /\ areset' = areset /\ rom' = rom /\ rom \in InitialRoms /\ Testing'
  BY DEF Tick, TestInv, Testing
<1>2. /\ ticks \in 0 .. 76
      /\ ticks < 76 => (execute_cycle <=> ticks % 2 = 1)
      /\ ticks = 76 => pc = 52
      /\ AtRow(Expected[(ticks + 1) \div 2 + 1]) /\ mem[0] \in {0, 55}
      /\ ticks' = IF ticks < 76 THEN ticks + 1 ELSE ticks
  BY <1>1 DEF TestInv, Rows
<1>3. execute_cycle' <=> ~execute_cycle
  BY DEF Tick, TypeOK
<1>4. SUFFICES /\ mem'[0] \in {0, 55} /\ ticks' \in 0 .. 76
               /\ ticks' < 76 => (execute_cycle' <=> ticks' % 2 = 1)
               /\ ticks' = 76 => pc' = 52
               /\ \A row : row = Expected[(ticks' + 1) \div 2 + 1] => AtRow(row)'
  <2>1. (\A row : row = Expected[(ticks' + 1) \div 2 + 1] => AtRow(row)')
          => AtRow(Expected[(ticks + 1) \div 2 + 1])'
    BY DEF AtRow
  <2> QED
    BY <1>1, <2>1 DEF TestInv, Rows
<1>5. ticks' \in 0 .. 76 /\ (ticks' < 76 => (execute_cycle' <=> ticks' % 2 = 1))
  <2>1. ticks < 76 => (ticks % 2 = 1 <=> ~((ticks + 1) % 2 = 1))
    BY <1>2
  <2>2. CASE ticks < 76
    BY <1>2, <1>3, <2>1, <2>2
  <2>3. CASE ticks = 76
    BY <1>2, <2>3
  <2> QED
    BY <1>2, <2>2, <2>3
<1>6. CASE execute_cycle
  <2>1. CommittedPC' = CommittedPC /\ CommittedRegs' = CommittedRegs /\ mem' = mem
        /\ CommittedPC' = pc'
    BY <1>3, <1>6, EndingTick DEF Abstract!vars, CommittedPC, CommittedRegs
  <2>2. (ticks' + 1) \div 2 = (ticks + 1) \div 2
    <3>1. ticks = 76 \/ ticks % 2 = 1
      BY <1>2, <1>6
    <3>2. ticks % 2 = 1 => (ticks + 1 + 1) \div 2 = (ticks + 1) \div 2
      BY <1>2
    <3> QED
      BY <1>2, <3>1, <3>2
  <2>3. ASSUME NEW row, row = Expected[(ticks' + 1) \div 2 + 1] PROVE AtRow(row)'
    BY <1>2, <2>1, <2>2, <2>3 DEF AtRow
  <2>4. ASSUME ticks' = 76 PROVE pc' = 52
    <3>1. (ticks + 1) \div 2 + 1 = Rows
      BY <2>2, <2>4 DEF Rows
    <3>2. CommittedPC = 52
      BY <1>2, <3>1, RowsAreRows DEF AtRow
    <3> QED
      BY <2>1, <3>2
  <2> QED
    BY <1>2, <1>5, <2>1, <2>3, <2>4
<1>7. CASE ~execute_cycle
  <2>1. TestTick
    BY <1>1, <1>7 DEF TestTick, TestState
  <2>2. pc' = pc
    BY <1>7 DEF Tick
  <2>3. CASE ticks < 76
    <3> DEFINE k == ticks \div 2 + 1
    <3>1. /\ k \in 1 .. Rows - 1 /\ (ticks + 1) \div 2 + 1 = k
          /\ (ticks' + 1) \div 2 + 1 = k + 1 /\ ticks' # 76
      BY <1>2, <1>7, <2>3 DEF Rows
    <3> HIDE DEF k
    <3>2. Follows(Expected[k], Expected[k + 1])
      BY <3>1, RowsFollow
    <3>3. ASSUME NEW row, row = Expected[k + 1] PROVE AtRow(row)'
      <4> DEFINE old == Expected[k]
      <4> HIDE DEF old
      <4>1. Follows(old, row) /\ AtRow(old)
        BY <1>2, <3>1, <3>2, <3>3 DEF old
      <4> QED
        BY <2>1, <4>1, RowStep
    <3>4. mem'[0] \in {0, 55}
      <4>1. PICK next : next = Expected[k + 1]
        OBVIOUS
      <4>2. Columns(next) /\ AtRow(next)'
        BY <3>2, <3>3, <4>1 DEF Follows
      <4> QED
        BY <4>2 DEF Columns, AtRow
    <3> QED
      BY <1>5, <3>1, <3>3, <3>4
  <2>4. CASE ticks = 76
    <3>1. pc = 52 /\ ticks' = ticks
      BY <1>2, <2>4
    <3>2. (ticks' + 1) \div 2 + 1 = 39 /\ (ticks + 1) \div 2 + 1 = 39
      BY <2>4, <3>1
    <3> DEFINE row == Expected[39]
    <3>3. AtRow(row) /\ Columns(row) /\ Follows(row, row)
      BY <1>2, <3>2, RowsAreRows DEF Rows
    <3> HIDE DEF row
    <3>4. AtRow(row)'
      BY <2>1, <3>3, RowStep
    <3>5. mem'[0] \in {0, 55}
      BY <3>3, <3>4 DEF AtRow, Columns
    <3>6. \A r : r = Expected[(ticks' + 1) \div 2 + 1] => AtRow(r)'
      BY <3>2, <3>4 DEF row
    <3> QED
      BY <1>5, <2>2, <3>1, <3>5, <3>6
  <2> QED
    BY <1>2, <2>3, <2>4
<1> QED
  BY <1>3, <1>6, <1>7

\* TestInv is inductive.
LEMMA NextKeepsTestInv ==
  ASSUME TestSetting, TypeOK, BenchInv, TestInv, [TestNext]_<<vars, ticks>>
  PROVE  TestInv'
<1>1. CASE BeginReset /\ ticks' = 0
  BY <1>1 DEF BeginReset, TestInv, Testing
<1>2. CASE EndReset /\ ticks' = 0
  <2>1. ~areset' /\ ~execute_cycle' /\ rom' = rom /\ mem' = mem /\ areset
    BY <1>2 DEF EndReset, BenchInv
  <2>2. SUFFICES ASSUME Testing PROVE TestInv'
    BY <2>1 DEF TestInv, Testing
  <2>3. AtRow(Expected[1])' /\ mem[0] \in {0, 55} /\ rom \in InitialRoms
    BY <1>2, <2>2, ReleaseAtFirstRow DEF TestInv
  <2>4. (ticks' + 1) \div 2 + 1 = 1 /\ ticks' \in 0 .. 2 * (Rows - 1) /\ ticks' < 2 * (Rows - 1)
        /\ ticks' % 2 = 0
    BY <1>2 DEF Rows
  <2>5. AtRow(Expected[(ticks + 1) \div 2 + 1])'
    BY <2>3, <2>4 DEF AtRow
  <2>6. rom' \in InitialRoms /\ mem'[0] \in {0, 55}
    BY <2>1, <2>3
  <2>7. ticks' # 2 * (Rows - 1) /\ ticks' % 2 # 1
    BY <1>2 DEF Rows
  <2> QED
    BY <2>1, <2>4, <2>5, <2>6, <2>7 DEF TestInv
<1>3. ASSUME NEW enable \in EnableInputs, Tick(enable),
             ticks' = IF Testing /\ ticks < 2 * (Rows - 1) THEN ticks + 1 ELSE ticks
      PROVE  TestInv'
  <2>1. Tick(TRUE)
    BY <1>3 DEF TestSetting, Conditions
  <2>2. rom' = rom
    BY <1>3 DEF Tick
  <2>3. CASE ~Testing
    BY <2>2, <2>3 DEF TestInv, Testing
  <2>4. CASE Testing
    BY <1>3, <2>1, <2>4, TickKeepsTestInv
  <2> QED
    BY <2>3, <2>4
<1>4. CASE UNCHANGED <<vars, ticks>>
  <2>1. /\ areset' = areset /\ rom' = rom /\ mem' = mem /\ execute_cycle' = execute_cycle
        /\ pc' = pc /\ regs' = regs /\ imem_data' = imem_data /\ dmem_rdata' = dmem_rdata
        /\ ticks' = ticks
    BY <1>4 DEF vars
  <2>2. CommittedPC' = CommittedPC /\ CommittedRegs' = CommittedRegs
    BY <2>1 DEF CommittedPC, CommittedRegs, PCAfter, RegsAfter, halt, load_address, control,
       ALUOut, ALUOutOf
  <2> QED
    BY <2>1, <2>2 DEF TestInv, Testing, AtRow
<1> QED
  BY <1>1, <1>2, <1>3, <1>4 DEF TestNext

\* At the even ticks the CPU itself is at the row, its PC and registers.
LEMMA TestInvMatches ==
  ASSUME TestSetting, BenchInv, TestInv, TypeOK
  PROVE  MatchesExpectedRows
<1> SUFFICES ASSUME Testing, ~areset, ticks % 2 = 0
             PROVE  LET row == Expected[ticks \div 2 + 1]
                    IN  /\ <<pc, regs[1], regs[2], regs[5]>> = <<row[1], row[2], row[3], row[4]>>
                        /\ mem[0] = row[5] \/ mem[0] = 55
  BY DEF MatchesExpectedRows
<1>1. /\ ticks \in 0 .. 76 /\ (ticks < 76 => (execute_cycle <=> ticks % 2 = 1))
      /\ ticks = 76 => pc = 52
      /\ AtRow(Expected[(ticks + 1) \div 2 + 1])
  BY DEF TestInv, Rows
<1>2. (ticks + 1) \div 2 + 1 = ticks \div 2 + 1
  BY <1>1
<1>3. CommittedPC = pc /\ CommittedRegs = regs
  <2>1. CASE ~execute_cycle
    BY <2>1 DEF CommittedPC, CommittedRegs
  <2>2. CASE execute_cycle
    <3>1. pc = 52
      BY <1>1, <2>2
    <3>2. imem_data.zero
      <4>1. TestState
        BY DEF TestState, TestInv
      <4>2. imem_data = rom[13]
        BY <3>1, <4>1, TestWords
      <4> QED
        BY <4>1, <4>2, TestWords DEF IsSumProgram
    <3>3. ~control.RegWrite /\ PCAfter = pc
      BY <3>2 DEF control, ControlUnit, Is, PCAfter, NextPC, halt
    <3> QED
      BY <2>2, <3>3 DEF CommittedPC, CommittedRegs, RegsAfter, WriteReg
  <2> QED
    BY <2>1, <2>2
<1> QED
  BY <1>1, <1>2, <1>3 DEF AtRow

(* For every word width that holds the numbers of the test, register count  *)
(* and memory size, with resets at any time: before every cpu_tick the      *)
(* simulated CPU running the program of tb_CPU.cpp is at the row its main   *)
(* expects (tb/tb_CPU.cpp, array c), and stays at the last one for ever.    *)
THEOREM TestMatchesExpectedRows ==
  ASSUME TestSetting
  PROVE  TestSpec => []MatchesExpectedRows
<1>1. TestInit => Init /\ BenchInv /\ TestInv
  BY InitTestInv DEF TestInit, Init, BenchInv, InputsCurrent
<1>2. [TestNext]_<<vars, ticks>> => [Next]_vars
  BY DEF TestNext, Next
<1>3. TypeOK /\ BenchInv /\ [Next]_vars => BenchInv'
  BY NextKeepsBenchInv
<1>4. TypeOK /\ BenchInv /\ TestInv /\ [TestNext]_<<vars, ticks>> => TestInv'
  BY NextKeepsTestInv
<1>5. BenchInv /\ TestInv /\ TypeOK => MatchesExpectedRows
  BY TestInvMatches
<1> QED
  BY <1>1, <1>2, <1>3, <1>4, <1>5, TypeCorrect, PTL DEF TestSpec, Spec
=============================================================================
