-------------------------- MODULE DatapathTheorems --------------------------
(* What the units of the data path return: every unit keeps a word a word,  *)
(* for every width, number of registers and memory size; and the decoding   *)
(* of an instruction is the inverse of its assembling.                      *)
EXTENDS Encoding, Programs, BitOps, TLAPS, WellFoundedInduction

(* Quotients by powers of two, and the bits of a word: a word is known by   *)
(* its bits, and every set of positions is the set of bits of a word.       *)

\* The quotient is the only number of divisors that leaves less than a divisor.
LEMMA QuotientIs ==
  ASSUME NEW a \in Int, NEW b \in Nat, b > 0, NEW q \in Int, NEW r \in Int,
         a = q * b + r, 0 <= r, r < b
  PROVE  a \div b = q
<1> DEFINE d == a \div b
<1>1. d \in Int /\ d * b <= a /\ a < d * b + b
  OBVIOUS
<1>2. q * b \in Int /\ d * b \in Int
  BY <1>1
<1>3. (q - d) * b = q * b - d * b
  BY <1>1
<1> HIDE DEF d
<1>4. (q - d) * b < b /\ -b < (q - d) * b
  BY <1>1, <1>2, <1>3
<1>5. ASSUME q - d >= 1 PROVE FALSE
  <2>1. (q - d - 1) * b >= 0
    BY <1>1, <1>5
  <2>2. (q - d - 1) * b = (q - d) * b - b /\ (q - d) * b \in Int
    BY <1>1
  <2> QED
    BY <1>4, <2>1, <2>2
<1>6. ASSUME q - d <= -1 PROVE FALSE
  <2>1. (d - q - 1) * b >= 0
    BY <1>1, <1>6
  <2>2. (d - q - 1) * b = -((q - d) * b) - b /\ (q - d) * b \in Int
    BY <1>1
  <2> QED
    BY <1>4, <2>1, <2>2
<1> QED
  BY <1>1, <1>5, <1>6 DEF d

\* What a quotient leaves.
LEMMA QuotientRest ==
  ASSUME NEW a \in Int, NEW b \in Nat, b > 0
  PROVE  \E r \in Int : a = (a \div b) * b + r /\ 0 <= r /\ r < b /\ a \div b \in Int
<1>1. WITNESS a - (a \div b) * b \in Int
<1> QED OBVIOUS

\* Two divisions are one by the product.
LEMMA QuotientOfQuotient ==
  ASSUME NEW a \in Int, NEW b \in Nat, b > 0, NEW c \in Nat, c > 0
  PROVE  (a \div b) \div c = a \div (b * c)
<1>1. PICK q, r : q = a \div b /\ q \in Int /\ r \in Int /\ a = q * b + r /\ 0 <= r /\ r < b
  BY QuotientRest
<1>2. PICK t, s : t = q \div c /\ t \in Int /\ s \in Int /\ q = t * c + s /\ 0 <= s /\ s < c
  BY <1>1, QuotientRest
<1>3. b * c \in Nat /\ b * c > 0
  OBVIOUS
<1>4. a = t * (b * c) + (s * b + r) /\ s * b + r \in Int
  <2>1. q * b = t * (b * c) + s * b
    BY <1>1, <1>2
  <2>2. q * b \in Int /\ t * (b * c) \in Int /\ s * b \in Int
    BY <1>1, <1>2, <1>3
  <2> QED
    BY <1>1, <2>1, <2>2
<1>5. 0 <= s * b + r /\ s * b + r < b * c
  <2>1. 0 <= s * b /\ s * b \in Int
    BY <1>2
  <2>2. 0 <= (c - 1 - s) * b
    BY <1>2
  <2>3. (c - 1 - s) * b = b * c - b - s * b
    BY <1>2
  <2> QED
    BY <1>1, <1>3, <2>1, <2>2, <2>3
<1>6. a \div (b * c) = t
  BY <1>2, <1>3, <1>4, <1>5, QuotientIs
<1> QED
  BY <1>1, <1>2, <1>6

\* The powers of two that are weights of bits.
LEMMA Weights ==
  /\ \A k \in BitIdx : 2^k \in Nat /\ 2^k > 0
  /\ \A j, k \in BitIdx : j + k \in BitIdx => 2^(j + k) = 2^j * 2^k
  /\ \A k \in BitIdx : k + 1 \in BitIdx => 2^(k + 1) = 2 * 2^k
  /\ Radix = 2 * 2^(XLEN - 1) /\ XLEN - 1 \in BitIdx /\ 2^0 = 1
<1>1. ASSUME NEW k \in BitIdx, k + 1 \in BitIdx PROVE 2^(k + 1) = 2 * 2^k
  <2>1. 1 \in BitIdx
    BY <1>1, WidthAssumption DEF BitIdx
  <2>2. 2^(k + 1) = 2^k * 2^1 /\ 2^1 = 2 /\ 2^k \in Nat
    BY <1>1, <2>1, BinaryNumerals
  <2> QED
    BY <2>2
<1>2. Radix = 2 * 2^(XLEN - 1) /\ XLEN - 1 \in BitIdx
  BY WidthAssumption DEF Radix, SignBit, BitIdx
<1> QED
  BY <1>1, <1>2, BinaryNumerals

\* The number of words is twice any weight times what is above it.
LEMMA RadixSplits ==
  ASSUME NEW k \in BitIdx
  PROVE  XLEN - 1 - k \in BitIdx /\ Radix = 2 * (2^k * 2^(XLEN - 1 - k)) /\ Radix \in Nat
<1>1. XLEN - 1 - k \in BitIdx /\ k + (XLEN - 1 - k) = XLEN - 1
  BY WidthAssumption DEF BitIdx
<1>2. XLEN - 1 \in BitIdx /\ Radix = 2 * 2^(XLEN - 1) /\ 2^(XLEN - 1) \in Nat
  BY Weights
<1>3. 2^(k + (XLEN - 1 - k)) = 2^k * 2^(XLEN - 1 - k)
  BY <1>1, <1>2, Weights
<1> QED
  BY <1>1, <1>2, <1>3

\* A set of naturals that is not empty has a least member.
LEMMA LeastNatural ==
  ASSUME NEW M \in SUBSET Nat, M # {}
  PROVE  \E n \in M : \A j \in M : n <= j
<1>1. PICK n \in M : \A j \in M : ~ (<<j, n>> \in OpToRel(<, Nat))
  BY NatLessThanWellFounded, WFMin, Zenon
<1>2. ASSUME NEW j \in M PROVE ~(j < n)
  <2>1. j \in Nat /\ n \in Nat
    BY Zenon
  <2>2. j < n => <<j, n>> \in OpToRel(<, Nat)
    BY <2>1, Zenon DEF OpToRel
  <2> QED
    BY <1>1, <2>2, Zenon
<1>3. \A j \in M : n <= j
  <2>1. \A j \in M : ~(j < n) /\ j \in Nat /\ n \in Nat
    BY <1>2
  <2> QED
    BY <2>1
<1> QED
  BY <1>3, Zenon

\* A word is known by its bits.
LEMMA SameBits ==
  ASSUME NEW v \in Word, NEW w \in Word, BitSet(v) = BitSet(w)
  PROVE  v = w
<1> DEFINE K == {k \in BitIdx : v \div 2^k = w \div 2^k}
<1>1. v \in Nat /\ w \in Nat /\ v < Radix /\ w < Radix
  BY WidthAssumption DEF Word, Radix
<1>2. \A k \in BitIdx : (v \div 2^k) % 2 = (w \div 2^k) % 2
  <2> TAKE k \in BitIdx
  <2>1. 2^k \in Nat /\ 2^k > 0
    BY Weights
  <2>2. v \div 2^k \in Int /\ w \div 2^k \in Int
    BY <1>1, <2>1
  <2>3. (v \div 2^k) % 2 \in {0, 1} /\ (w \div 2^k) % 2 \in {0, 1}
    BY <2>2
  <2>4. (v \div 2^k) % 2 = 1 <=> (w \div 2^k) % 2 = 1
    BY DEF BitSet
  <2> QED
    BY <2>3, <2>4
<1>3. XLEN - 1 \in K
  <2> DEFINE h == 2^(XLEN - 1)
  <2>1. h \in Nat /\ h > 0 /\ Radix = 2 * h /\ XLEN - 1 \in BitIdx
    BY Weights
  <2> HIDE DEF h
  <2>2. v \div h \in 0 .. 1 /\ w \div h \in 0 .. 1
    BY <1>1, <2>1
  <2>3. (v \div h) % 2 = (w \div h) % 2
    BY <1>2, <2>1 DEF h
  <2>4. v \div h = w \div h
    BY <2>2, <2>3
  <2> QED
    BY <2>1, <2>4 DEF h
<1>4. PICK k \in K : \A j \in K : k <= j
  <2>1. K \subseteq Nat
    BY DEF BitIdx
  <2> HIDE DEF K
  <2> QED
    BY <1>3, <2>1, LeastNatural
<1>5. k \in BitIdx /\ k \in Nat /\ v \div 2^k = w \div 2^k
  BY DEF BitIdx
<1>6. k = 0
  <2> SUFFICES ASSUME k # 0 PROVE FALSE
    OBVIOUS
  <2>1. k - 1 \in BitIdx /\ k - 1 \in Nat /\ k = (k - 1) + 1
    BY <1>5, WidthAssumption DEF BitIdx
  <2> DEFINE p == 2^(k - 1)
  <2>2. p \in Nat /\ p > 0 /\ 2^k = p * 2
    BY <1>5, <2>1, Weights
  <2>3. (v \div p) % 2 = (w \div p) % 2
    BY <1>2, <2>1
  <2> HIDE DEF p
  <2>4. (v \div p) \div 2 = v \div 2^k /\ (w \div p) \div 2 = w \div 2^k
    BY <1>1, <2>2, QuotientOfQuotient
  <2>5. v \div p \in Int /\ w \div p \in Int
    BY <1>1, <2>2
  <2>6. v \div p = w \div p
    BY <1>5, <2>3, <2>4, <2>5
  <2>7. k - 1 \in K
    BY <2>1, <2>6 DEF p
  <2> QED
    BY <1>4, <2>1, <2>7
<1>7. v \div 1 = w \div 1
  BY <1>5, <1>6, Weights
<1> QED
  BY <1>1, <1>7

\* Weights grow with the position.
LEMMA HigherWeight ==
  ASSUME NEW n \in BitIdx, NEW k \in BitIdx, n < k
  PROVE  2 * 2^n <= 2^k
<1> DEFINE j == k - (n + 1)
<1>1. n + 1 \in BitIdx /\ j \in BitIdx /\ (n + 1) + j = k
  BY WidthAssumption DEF BitIdx
<1>2. 2^((n + 1) + j) = 2^(n + 1) * 2^j /\ 2^(n + 1) = 2 * 2^n
  BY <1>1, Weights
<1>3. PICK a, b : a = 2^(n + 1) /\ b = 2^j /\ a \in Nat /\ b \in Nat /\ b > 0
  BY <1>1, Weights
<1>4. a * (b - 1) >= 0 /\ a * (b - 1) = a * b - a /\ a * b \in Int
  BY <1>3
<1>5. a <= a * b
  BY <1>3, <1>4
<1> QED
  BY <1>1, <1>2, <1>3, <1>5

\* A number smaller than the weight of bit n has that bit added by an addition.
LEMMA TopBit ==
  ASSUME NEW n \in BitIdx, NEW w \in Word, w < 2^n
  PROVE  w + 2^n \in Word /\ w + 2^n < 2 * 2^n /\ BitSet(w + 2^n) = BitSet(w) \cup {n}
<1> DEFINE p == 2^n  v == w + p
<1>1. p \in Nat /\ p > 0 /\ w \in Nat /\ n \in Int
  <2>1. Radix \in Nat
    BY RadixSplits
  <2> QED
    BY <2>1, Weights DEF Word, BitIdx
<1>2. 2 * p <= Radix /\ Radix \in Nat
  <2>1. Radix = 2 * (p * 2^(XLEN - 1 - n)) /\ XLEN - 1 - n \in BitIdx /\ Radix \in Nat
    BY RadixSplits
  <2>2. PICK r : r = 2^(XLEN - 1 - n) /\ r \in Nat /\ r > 0
    BY <2>1, Weights
  <2> HIDE DEF p
  <2>3. p * (r - 1) >= 0 /\ p * (r - 1) = p * r - p /\ p * r \in Int
    BY <1>1, <2>2
  <2> QED
    BY <1>1, <2>1, <2>2, <2>3
<1>3. v \in Word /\ v \in Nat /\ v < 2 * p
  BY <1>1, <1>2 DEF Word
<1> HIDE DEF p, v
<1>4. ASSUME NEW k \in BitIdx, k < n PROVE (v \div 2^k) % 2 = (w \div 2^k) % 2
  <2> DEFINE c == 2^k  h == 2^(n - k - 1)
  <2>1. n - k - 1 \in BitIdx /\ n - k \in BitIdx /\ k + (n - k) = n /\ (n - k - 1) + 1 = n - k
    BY <1>4, WidthAssumption DEF BitIdx
  <2>2. p = c * 2^(n - k) /\ 2^(n - k) = 2 * h /\ c \in Nat /\ c > 0 /\ h \in Nat
    <3>1. 2^(k + (n - k)) = c * 2^(n - k)
      BY <2>1, Weights
    <3>2. 2^((n - k - 1) + 1) = 2 * h
      BY <2>1, Weights
    <3> QED
      BY <2>1, <3>1, <3>2, Weights DEF p
  <2> HIDE DEF c, h
  <2> DEFINE d == w \div c
  <2>3. PICK e \in Int : d \in Int /\ w = d * c + e /\ 0 <= e /\ e < c
    BY <1>1, <2>2, QuotientRest
  <2> HIDE DEF d
  <2>4. PICK a : a = d + 2 * h /\ a \in Int /\ a % 2 = d % 2
    BY <2>2, <2>3
  <2>5. v = a * c + e
    <3>1. PICK b : b = 2 * h /\ b \in Int /\ p = c * b
      BY <2>2
    <3>2. (d + b) * c = d * c + c * b
      BY <2>2, <2>3, <3>1
    <3>3. d * c \in Int /\ c * b \in Int
      BY <2>2, <2>3, <3>1
    <3> QED
      BY <2>3, <2>4, <3>1, <3>2, <3>3 DEF v
  <2>6. v \div c = a
    BY <1>3, <2>2, <2>3, <2>4, <2>5, QuotientIs
  <2> QED
    BY <2>4, <2>6 DEF c, d
<1>5. (v \div 2^n) % 2 = 1
  <2>1. v = 1 * p + w /\ 0 <= w /\ w < p
    BY <1>1 DEF v, p
  <2>2. v \div p = 1
    BY <1>1, <1>3, <2>1, QuotientIs
  <2> QED
    BY <2>2 DEF p
<1>6. ASSUME NEW k \in BitIdx, n < k PROVE (v \div 2^k) % 2 = 0 /\ (w \div 2^k) % 2 = 0
  <2>1. 2 * p <= 2^k
    BY <1>6, HigherWeight DEF p
  <2>2. PICK c : c = 2^k /\ c \in Nat /\ c > 0 /\ v < c /\ w < c
    BY <1>1, <1>3, <2>1, Weights DEF p
  <2>3. v \div c = 0 /\ w \div c = 0
    BY <1>1, <1>3, <2>2
  <2> QED
    BY <2>2, <2>3
<1>7. \A k \in BitIdx : (v \div 2^k) % 2 = 1 <=> k \in BitSet(w) \/ k = n
  <2> TAKE k \in BitIdx
  <2>1. k < n \/ k = n \/ n < k
    BY <1>1 DEF BitIdx
  <2> QED
    BY <1>1, <1>4, <1>5, <1>6, <2>1 DEF BitSet
<1>8. BitSet(v) = BitSet(w) \cup {n}
  BY <1>7 DEF BitSet
<1> QED
  BY <1>3, <1>8 DEF v, p

\* Every set of bit positions is the set of bits of a word.
LEMMA EveryPattern ==
  ASSUME NEW S \in SUBSET BitIdx
  PROVE  \E w \in Word : BitSet(w) = S
<1> DEFINE Covered(n) == \A T \in SUBSET (0 .. n - 1) :
                        \E w \in Word : BitSet(w) = T /\ (n \in BitIdx => w < 2^n)
<1>1. Covered(0)
  <2>1. 0 \in Word
    BY RadixSplits, Weights DEF Word
  <2>2. \A k \in BitIdx : (0 \div 2^k) % 2 = 0
    <3> TAKE k \in BitIdx
    <3>1. PICK c : c = 2^k /\ c \in Nat /\ c > 0
      BY Weights
    <3>2. 0 \div c = 0
      BY <3>1
    <3> QED
      BY <3>1, <3>2
  <2>3. BitSet(0) = {}
    BY <2>2 DEF BitSet
  <2>4. 0 < 2^0
    BY Weights
  <2>5. \A T \in SUBSET (0 .. 0 - 1) : T = {}
    OBVIOUS
  <2> QED
    BY <2>1, <2>3, <2>4, <2>5
<1>2. ASSUME NEW n \in BitIdx, Covered(n) PROVE Covered(n + 1)
  <2> SUFFICES ASSUME NEW T \in SUBSET (0 .. n)
               PROVE  \E w \in Word : BitSet(w) = T /\ (n + 1 \in BitIdx => w < 2^(n + 1))
    BY DEF BitIdx
  <2>1. n \in Nat /\ 2^n \in Nat /\ (n + 1 \in BitIdx => 2^(n + 1) = 2 * 2^n)
    BY Weights DEF BitIdx
  <2>2. T \ {n} \in SUBSET (0 .. n - 1)
    BY <2>1
  <2>3. PICK w \in Word : BitSet(w) = T \ {n} /\ w < 2^n
    BY <1>2, <2>2
  <2>4. w \in Nat
    BY RadixSplits, Weights DEF Word
  <2>5. CASE n \notin T
    <3>1. BitSet(w) = T
      BY <2>3, <2>5
    <3>2. w < 2 * 2^n
      BY <2>1, <2>3, <2>4
    <3> QED
      BY <2>1, <3>1, <3>2
  <2>6. CASE n \in T
    <3>1. w + 2^n \in Word /\ w + 2^n < 2 * 2^n /\ BitSet(w + 2^n) = BitSet(w) \cup {n}
      BY <2>3, TopBit
    <3>2. BitSet(w + 2^n) = T
      BY <2>3, <2>6, <3>1
    <3> QED
      BY <2>1, <3>1, <3>2
  <2> QED
    BY <2>5, <2>6
<1>3. Covered(XLEN)
  <2> DEFINE M == {n \in 0 .. XLEN : ~ Covered(n)}
  <2> HIDE DEF Covered
  <2> SUFFICES ASSUME M # {} PROVE FALSE
    BY WidthAssumption
  <2>1. M \subseteq Nat
    OBVIOUS
  <2>2. PICK n \in M : \A j \in M : n <= j
    <3> HIDE DEF M
    <3> QED
      BY <2>1, LeastNatural
  <2>3. n # 0 /\ n \in 0 .. XLEN /\ ~ Covered(n)
    BY <1>1
  <2>4. n - 1 \in BitIdx /\ n - 1 \in 0 .. XLEN /\ (n - 1) + 1 = n
    BY <2>3, WidthAssumption DEF BitIdx
  <2>5. Covered(n - 1)
    BY <2>2, <2>3, <2>4
  <2> QED
    BY <1>2, <2>3, <2>4, <2>5
<1> QED
  BY <1>3 DEF BitIdx

\* A word whose bits are a set is the word of the set.
LEMMA WordOfBits ==
  ASSUME NEW w \in Word, NEW S \in SUBSET BitIdx, BitSet(w) = S
  PROVE  WordOf(S) = w
<1>1. WordOf(S) \in Word /\ BitSet(WordOf(S)) = S
  BY EveryPattern DEF WordOf
<1> QED
  BY <1>1, SameBits

----------------------------------------------------------------------------
(* The types of what the units return.                                      *)

\* A vector of width XLEN keeps some word of any integer.
LEMMA TruncType ==
  ASSUME NEW n \in Int
  PROVE  Trunc(n) \in Word
<1>1. Radix \in Nat /\ Radix > 0
  BY WidthAssumption DEF Radix
<1> QED
  BY <1>1 DEF Trunc, Word

\* 0 is a word at every width.
LEMMA ZeroIsWord == 0 \in Word
  BY WidthAssumption DEF Word, Radix

\* The word with a given set of 1 bits exists, and is a word.
LEMMA WordOfType ==
  ASSUME NEW S \in SUBSET BitIdx
  PROVE  WordOf(S) \in Word
  BY EveryPattern DEF WordOf

\* The bitwise operators return words.
LEMMA BitwiseType ==
  ASSUME NEW x, NEW y
  PROVE  BitAnd(x, y) \in Word /\ BitOr(x, y) \in Word /\ BitXor(x, y) \in Word
<1>1. BitSet(x) \subseteq BitIdx /\ BitSet(y) \subseteq BitIdx
  BY DEF BitSet
<1> QED
  BY <1>1, WordOfType DEF BitAnd, BitOr, BitXor

\* A read port of the RegFile returns a word.
LEMMA ReadRegType ==
  ASSUME NEW regs \in [RegIdx -> Word], NEW a \in RegIdx
  PROVE  ReadReg(regs, a) \in Word
  BY ZeroIsWord DEF ReadReg

\* The RegFile's write port leaves words in all registers.
LEMMA WriteRegType ==
  ASSUME NEW regs \in [RegIdx -> Word], NEW a \in RegIdx, NEW en, NEW d \in Word
  PROVE  WriteReg(regs, en, a, d) \in [RegIdx -> Word]
  BY DEF WriteReg

\* The ImmGen returns a word.
LEMMA ImmOutType ==
  ASSUME NEW i \in Instruction
  PROVE  ImmOut(i) \in Word
  BY DEF ImmOut, Instruction

\* A byte address selects a word inside the memory.
LEMMA WordAddressType ==
  ASSUME NEW a \in Word, NEW n \in Nat, n > 0
  PROVE  WordAddress(a, n) \in 0 .. n - 1
<1>1. a \in Nat
  BY DEF Word
<1>2. (a \div 4) \in Nat
  BY <1>1
<1> QED
  BY <1>2 DEF WordAddress

\* The PC's next value is a word.
LEMMA NextPCType ==
  ASSUME NEW p \in Word, NEW en, NEW halt, NEW load, NEW target \in Word
  PROVE  NextPC(p, en, halt, load, target) \in Word
<1>1. p + 4 \in Int
  BY DEF Word
<1> QED
  BY <1>1, TruncType DEF NextPC

(* The immediate each class of instructions uses.                           *)
LEMMA Immediates ==
  ASSUME NEW i
  PROVE  /\ Is(i, {Itype, LoadType}) => ImmOut(i) = i.Iimm
         /\ Is(i, {Stype}) => ImmOut(i) = i.Simm
         /\ Is(i, {Btype}) => ImmOut(i) = i.Bimm
         /\ Is(i, {Jtype}) => ImmOut(i) = i.Jimm
<1>1. Is(i, {Itype, LoadType}) => ~Is(i, {Stype}) /\ ~Is(i, {Btype}) /\ ~Is(i, {Jtype})
  BY DEF Is, Itype, LoadType, Stype, Btype, Jtype
<1>2. Is(i, {Stype}) => ~Is(i, {Btype}) /\ ~Is(i, {Jtype})
  BY DEF Is, Stype, Btype, Jtype
<1>3. Is(i, {Btype}) => ~Is(i, {Stype}) /\ ~Is(i, {Jtype})
  BY DEF Is, Stype, Btype, Jtype
<1>4. /\ ControlUnit(i).Jump = Is(i, {Jtype})
      /\ ControlUnit(i).MemWrite = Is(i, {Stype})
      /\ ControlUnit(i).Branch = Is(i, {Btype})
  BY DEF ControlUnit
<1> QED
  BY <1>1, <1>2, <1>3, <1>4 DEF ImmOut

(* The difference of two words is 0 exactly when they are equal: what the   *)
(* branch comparison rests on.                                              *)
LEMMA ZeroDifference ==
  ASSUME NEW x \in Word, NEW y \in Word
  PROVE  (Trunc(x - y) = 0) <=> (x = y)
<1>1. Radix \in Nat /\ Radix > 0
  BY WidthAssumption DEF Radix
<1>2. x \in Int /\ y \in Int /\ 0 <= x /\ x < Radix /\ 0 <= y /\ y < Radix
  BY <1>1 DEF Word
<1>3. CASE x = y
  BY <1>1, <1>2, <1>3 DEF Trunc
<1>4. Trunc(x - y) = (x - y) % Radix
  BY DEF Trunc
<1>5. CASE x > y
  <2>1. x - y \in Int /\ 0 < x - y /\ x - y < Radix
    BY <1>1, <1>2, <1>5
  <2>2. (x - y) % Radix = x - y
    BY <1>1, <2>1
  <2> QED
    BY <1>2, <1>4, <1>5, <2>1, <2>2
<1>6. CASE x < y
  <2>1. x - y \in Int /\ -Radix < x - y /\ x - y < 0
    BY <1>1, <1>2, <1>6
  <2>2. (x - y) % Radix = x - y + Radix
    BY <1>1, <2>1
  <2> QED
    BY <1>1, <1>2, <1>4, <1>6, <2>1, <2>2
<1> QED
  BY <1>2, <1>3, <1>5, <1>6

----------------------------------------------------------------------------
(* The instruction formats: what is assembled is what is decoded.           *)

\* The bits of an I or S immediate are the immediate modulo their number.
LEMMA ImmediateI ==
  ASSUME NEW imm \in Int, -2048 <= imm, imm < 2048, NEW top, NEW low,
         top = Slice(imm, 11, 5), low = Slice(imm, 4, 0)
  PROVE  top \in 0 .. 127 /\ low \in 0 .. 31 /\ top * 32 + low = imm % 4096
BY SMT DEF Slice

\* Sign extension of what is left of a number by as many bits as it needs.
LEMMA Wraps ==
  ASSUME NEW half \in Nat, half > 0, NEW n \in Int, -half <= n, n < half
  PROVE  LET v == n % (2 * half) IN (IF v >= half THEN v - 2 * half ELSE v) = n
<1>1. n % (2 * half) = IF n < 0 THEN n + 2 * half ELSE n
  BY SMT
<1> QED
  BY <1>1, SMT

\* The 12 bits of an I or S immediate, sign-extended, are the immediate.
LEMMA Extends12 ==
  ASSUME NEW imm \in Int, -2048 <= imm, imm < 2048
  PROVE  SignExtend(imm % 4096, 12) = Trunc(imm)
<1>1. (IF imm % 4096 >= 2048 THEN (imm % 4096) - 4096 ELSE imm % 4096) = imm
  BY Wraps, SMT
<1> QED
  BY <1>1, SMT DEF SignExtend

\* The 13 bits of a B immediate, sign-extended, are the immediate.
LEMMA Extends13 ==
  ASSUME NEW imm \in Int, -4096 <= imm, imm < 4096
  PROVE  SignExtend(imm % 8192, 13) = Trunc(imm)
<1>1. (IF imm % 8192 >= 4096 THEN (imm % 8192) - 8192 ELSE imm % 8192) = imm
  BY Wraps, SMT
<1> QED
  BY <1>1, SMT DEF SignExtend

\* The 21 bits of a J immediate, sign-extended, are the immediate.
LEMMA Extends21 ==
  ASSUME NEW imm \in Int, -1048576 <= imm, imm < 1048576
  PROVE  SignExtend(imm % 2097152, 21) = Trunc(imm)
<1>1. (IF imm % 2097152 >= 1048576 THEN (imm % 2097152) - 2097152 ELSE imm % 2097152) = imm
  BY Wraps, SMT
<1> QED
  BY <1>1, SMT DEF SignExtend

\* The pieces of a B immediate add up to the immediate, modulo the
\* number of its bits, whose lowest is 0 and not in the instruction.
LEMMA ImmediateB ==
  ASSUME NEW imm \in Int, imm % 2 = 0
  PROVE  /\ Slice(imm, 12, 12) \in 0 .. 1 /\ Slice(imm, 11, 11) \in 0 .. 1
         /\ Slice(imm, 10, 5) \in 0 .. 63 /\ Slice(imm, 4, 1) \in 0 .. 15
         /\ Slice(imm, 12, 12) * 4096 + Slice(imm, 11, 11) * 2048 + Slice(imm, 10, 5) * 32
              + Slice(imm, 4, 1) * 2 = imm % 8192
<1> DEFINE a == imm \div 2  b == imm \div 32  c == imm \div 2048  d == imm \div 4096
<1>1. Slice(imm, 12, 12) = d % 2 /\ Slice(imm, 11, 11) = c % 2
      /\ Slice(imm, 10, 5) = b % 64 /\ Slice(imm, 4, 1) = a % 16
  BY SMT DEF Slice
<1>2. a % 16 = a - 16 * b
  BY SMT
<1>3. b % 64 = b - 64 * c
  BY SMT
<1>4. c % 2 = c - 2 * d
  BY SMT
<1>5. imm = 2 * a
  BY SMT
<1>6. imm % 8192 = imm - 8192 * (d \div 2)
  BY SMT
<1>7. d % 2 = d - 2 * (d \div 2)
  BY SMT
<1>8. a % 16 \in 0 .. 15 /\ b % 64 \in 0 .. 63 /\ c % 2 \in 0 .. 1 /\ d % 2 \in 0 .. 1
  BY SMT
<1>9. a \in Int /\ b \in Int /\ c \in Int /\ d \in Int /\ d \div 2 \in Int
  BY SMT
<1> HIDE DEF a, b, c, d
<1> QED
  BY <1>1, <1>2, <1>3, <1>4, <1>5, <1>6, <1>7, <1>8, <1>9, SMT

\* The same of a J immediate.
LEMMA ImmediateJ ==
  ASSUME NEW imm \in Int, imm % 2 = 0
  PROVE  /\ Slice(imm, 20, 20) \in 0 .. 1 /\ Slice(imm, 11, 11) \in 0 .. 1
         /\ Slice(imm, 19, 12) \in 0 .. 255 /\ Slice(imm, 10, 1) \in 0 .. 1023
         /\ Slice(imm, 20, 20) * 1048576 + Slice(imm, 19, 12) * 4096
              + Slice(imm, 11, 11) * 2048 + Slice(imm, 10, 1) * 2 = imm % 2097152
<1> DEFINE a == imm \div 2  b == imm \div 2048  c == imm \div 4096  d == imm \div 1048576
<1>1. /\ Slice(imm, 20, 20) = d % 2 /\ Slice(imm, 11, 11) = b % 2
      /\ Slice(imm, 19, 12) = c % 256 /\ Slice(imm, 10, 1) = a % 1024
  BY SMT DEF Slice
<1>2. a % 1024 = a - 1024 * b
  BY SMT
<1>3. b % 2 = b - 2 * c
  BY SMT
<1>4. c % 256 = c - 256 * d
  BY SMT
<1>5. imm = 2 * a
  BY SMT
<1>6. imm % 2097152 = imm - 2097152 * (d \div 2)
  BY SMT
<1>7. d % 2 = d - 2 * (d \div 2)
  BY SMT
<1>8. a % 1024 \in 0 .. 1023 /\ b % 2 \in 0 .. 1 /\ c % 256 \in 0 .. 255 /\ d % 2 \in 0 .. 1
  BY SMT
<1>9. a \in Int /\ b \in Int /\ c \in Int /\ d \in Int /\ d \div 2 \in Int
  BY SMT
<1> HIDE DEF a, b, c, d
<1>10. (d % 2) * 1048576 + (c % 256) * 4096 + (b % 2) * 2048 + (a % 1024) * 2 = imm % 2097152
  BY <1>2, <1>3, <1>4, <1>5, <1>6, <1>7, <1>9, SMT
<1> QED
  BY <1>1, <1>8, <1>10, SMT

\* The part-selects of the halves of a jump.
JumpFields(hi, lo, s, low, m, high, rd, opcode) ==
  /\ hi \in Int /\ lo \in Int
  /\ Bits(lo, 6, 0) = opcode /\ Bits(lo, 11, 7) = rd
  /\ Bits(hi, 15, 15) = s /\ Bits(hi, 14, 5) = low /\ Bits(hi, 4, 4) = m
  /\ Bits(hi, 3, 0) * 16 + Bits(lo, 15, 12) = high

\* The fields of a jump before they are put together.
JumpPieces(s, low, m, high, rd, opcode) ==
  /\ s \in 0 .. 1 /\ low \in 0 .. 1023 /\ m \in 0 .. 1 /\ high \in 0 .. 255
  /\ rd \in 0 .. 31 /\ opcode \in 0 .. 127

\* The part-selects find a jump's fields where JumpHalves put them.
LEMMA FieldsOfJump ==
  ASSUME NEW s, NEW low, NEW m, NEW high, NEW rd, NEW opcode,
         JumpPieces(s, low, m, high, rd, opcode)
  PROVE  JumpFields(JumpHalves(s, low, m, high, rd, opcode)[1],
                    JumpHalves(s, low, m, high, rd, opcode)[2], s, low, m, high, rd, opcode)
<1> PICK hi, lo : hi = JumpHalves(s, low, m, high, rd, opcode)[1]
                  /\ lo = JumpHalves(s, low, m, high, rd, opcode)[2]
  OBVIOUS
<1> /\ s \in 0 .. 1 /\ low \in 0 .. 1023 /\ m \in 0 .. 1 /\ high \in 0 .. 255
    /\ rd \in 0 .. 31 /\ opcode \in 0 .. 127
  BY DEF JumpPieces
<1> DEFINE upper == s * 524288 + low * 512 + m * 256 + high
<1>1. hi = upper \div 16 /\ lo = (upper % 16) * 4096 + rd * 128 + opcode
  BY DEF JumpHalves
<1>2. upper \in Int /\ hi \in Int /\ lo \in Int /\ upper % 16 \in 0 .. 15
  BY <1>1, SMT
<1>3. hi = s * 32768 + low * 32 + m * 16 + high \div 16 /\ upper % 16 = high % 16
  BY <1>1, SMT
<1> DEFINE v == upper % 16
<1>4. v \in 0 .. 15 /\ lo = v * 4096 + rd * 128 + opcode
  BY <1>1, <1>2
<1> HIDE DEF v
<1>5. Bits(lo, 6, 0) = opcode
  BY <1>4, SMT DEF Bits
<1>6. Bits(lo, 11, 7) = rd
  BY <1>4, SMT DEF Bits
<1>7. Bits(lo, 15, 12) = v
  BY <1>4, SMT DEF Bits
<1>8. Bits(hi, 15, 15) = s
  BY <1>3, SMT DEF Bits
<1>9. Bits(hi, 14, 5) = low
  BY <1>3, SMT DEF Bits
<1>10. Bits(hi, 4, 4) = m
  <2>1. hi \div 16 = s * 2048 + low * 2 + m
    BY <1>3, SMT
  <2>2. (s * 2048 + low * 2 + m) % 2 = m
    BY SMT
  <2> QED
    BY <2>1, <2>2, SMT DEF Bits
<1>11. Bits(hi, 3, 0) = high \div 16
  BY <1>3, SMT DEF Bits
<1>12. Bits(hi, 3, 0) * 16 + Bits(lo, 15, 12) = high
  BY <1>3, <1>7, <1>11, SMT DEF v
<1> QED
  BY <1>2, <1>5, <1>6, <1>8, <1>9, <1>10, <1>12 DEF JumpFields

\* What the hardware decodes of the halves of any other format.
Fields(i, top, b, a, f3, low, opcode) ==
  /\ ~i.zero /\ i.opcode = opcode /\ i.rd = low % NREG /\ i.funct3 = f3
  /\ i.rs1 = a % NREG /\ i.rs2 = b % NREG /\ i.funct7 = top
  /\ i.Iimm = SignExtend(top * 32 + b, 12)
  /\ i.Simm = SignExtend(top * 32 + low, 12)
  /\ i.Bimm = SignExtend((top \div 64) * 4096 + (low % 2) * 2048 + (top % 64) * 32
                            + (low \div 2) * 2, 13)

\* They are the fields that Halves put there.
LEMMA DecodedHalves ==
  ASSUME NEW top \in 0 .. 127, NEW b \in 0 .. 31, NEW a \in 0 .. 31, NEW f3 \in 0 .. 7,
         NEW low \in 0 .. 31, NEW opcode \in 0 .. 127, opcode # 0,
         NEW hi, NEW lo, hi = Halves(top, b, a, f3, low, opcode)[1],
         lo = Halves(top, b, a, f3, low, opcode)[2]
  PROVE  Fields(Decode(hi, lo), top, b, a, f3, low, opcode)
<1>1. hi = top * 512 + b * 16 + a \div 2 /\ lo = (a % 2) * 32768 + f3 * 4096 + low * 128 + opcode
  BY DEF Halves
<1>2. /\ hi \in Int /\ lo \in Int
      /\ Bits(lo, 6, 0) = opcode /\ Bits(lo, 11, 7) = low /\ Bits(lo, 14, 12) = f3
      /\ Bits(hi, 3, 0) * 2 + Bits(lo, 15, 15) = a /\ Bits(hi, 8, 4) = b /\ Bits(hi, 15, 9) = top
  <2>1. Bits(lo, 6, 0) = opcode
    BY <1>1, SMT DEF Bits
  <2>2. Bits(lo, 11, 7) = low
    BY <1>1, SMT DEF Bits
  <2>3. Bits(lo, 14, 12) = f3
    BY <1>1, SMT DEF Bits
  <2>4. Bits(hi, 3, 0) * 2 + Bits(lo, 15, 15) = a
    <3>1. Bits(hi, 3, 0) = a \div 2
      BY <1>1, SMT DEF Bits
    <3>2. Bits(lo, 15, 15) = a % 2
      BY <1>1, SMT DEF Bits
    <3> QED
      BY <3>1, <3>2
  <2>5. Bits(hi, 8, 4) = b
    <3>1. hi \div 16 = top * 32 + b
      BY <1>1, SMT
    <3>2. (top * 32 + b) % 32 = b
      BY SMT
    <3> QED
      BY <3>1, <3>2, SMT DEF Bits
  <2>6. Bits(hi, 15, 9) = top
    BY <1>1, SMT DEF Bits
  <2> QED
    BY <1>1, <2>1, <2>2, <2>3, <2>4, <2>5, <2>6
<1>3. lo # 0
  BY <1>2, SMT DEF Bits
<1>4. Bits(hi, 15, 4) = top * 32 + b
  <2>1. hi \div 16 = top * 32 + b
    BY <1>1, SMT
  <2>2. (top * 32 + b) % 4096 = top * 32 + b
    BY SMT
  <2> QED
    BY <2>1, <2>2, SMT DEF Bits
<1>5. Bits(lo, 7, 7) = low % 2 /\ Bits(lo, 11, 8) = low \div 2
  <2>1. (lo \div 128) % 32 = low
    BY <1>2, SMT DEF Bits
  <2>2. (lo \div 128) % 2 = ((lo \div 128) % 32) % 2
    BY <1>2, SMT
  <2>3. (lo \div 256) % 16 = ((lo \div 128) % 32) \div 2
    <3> DEFINE x == lo \div 128
    <3>1. x \in Int /\ lo \div 256 = x \div 2
      BY <1>2, SMT
    <3> HIDE DEF x
    <3>2. (x \div 2) % 16 = (x % 32) \div 2
      BY <3>1, SMT
    <3> QED
      BY <3>1, <3>2 DEF x
  <2> QED
    BY <2>1, <2>2, <2>3, SMT DEF Bits
<1>6. Bits(hi, 15, 15) = top \div 64 /\ Bits(hi, 14, 9) = top % 64
  <2>1. (hi \div 512) % 128 = top
    BY <1>2, SMT DEF Bits
  <2>2. (hi \div 32768) % 2 = ((hi \div 512) % 128) \div 64
    BY <1>2, SMT
  <2>3. (hi \div 512) % 64 = ((hi \div 512) % 128) % 64
    BY <1>2, SMT
  <2> QED
    BY <2>1, <2>2, <2>3, SMT DEF Bits
<1>7. IimmField(hi, lo) = top * 32 + b
  BY <1>4 DEF IimmField
<1>8. SimmField(hi, lo) = top * 32 + low
  BY <1>2, SMT DEF SimmField
<1>9. BimmField(hi, lo) = (top \div 64) * 4096 + (low % 2) * 2048 + (top % 64) * 32
                           + (low \div 2) * 2
  BY <1>5, <1>6, SMT DEF BimmField
<1> DEFINE i == Decode(hi, lo)
<1>10. i.zero = (hi = 0 /\ lo = 0) /\ i.opcode = Bits(lo, 6, 0) /\ i.rd = Bits(lo, 11, 7) % NREG
  BY DEF Decode
<1>11. /\ i.funct3 = Bits(lo, 14, 12) /\ i.funct7 = Bits(hi, 15, 9)
       /\ i.rs1 = (Bits(hi, 3, 0) * 2 + Bits(lo, 15, 15)) % NREG /\ i.rs2 = Bits(hi, 8, 4) % NREG
  BY DEF Decode
<1>12. /\ i.Iimm = SignExtend(IimmField(hi, lo), 12)
       /\ i.Simm = SignExtend(SimmField(hi, lo), 12)
       /\ i.Bimm = SignExtend(BimmField(hi, lo), 13)
  BY DEF Decode
<1> HIDE DEF i
<1>13. ~i.zero
  BY <1>3, <1>10
<1>14. i.opcode = opcode /\ i.rd = low % NREG /\ i.funct3 = f3
       /\ i.rs1 = a % NREG /\ i.rs2 = b % NREG /\ i.funct7 = top
  BY <1>2, <1>10, <1>11
<1>15. i.Bimm = SignExtend((top \div 64) * 4096 + (low % 2) * 2048 + (top % 64) * 32
                            + (low \div 2) * 2, 13)
  BY <1>9, <1>12, SMT
<1>16. i.Iimm = SignExtend(top * 32 + b, 12) /\ i.Simm = SignExtend(top * 32 + low, 12)
  BY <1>7, <1>8, <1>12, SMT
<1> QED
  BY <1>13, <1>14, <1>15, <1>16, SMT DEF i, Fields

\* The operands, one by one.
LEMMA OperandTypes ==
  ASSUME NEW f \in Assembled
  PROVE  /\ f.opcode \in {Rtype, Itype, LoadType, Stype, Btype, Jtype}
         /\ f.opcode \in 0 .. 127 /\ f.opcode # 0
         /\ f.funct3 \in 0 .. 7 /\ f.funct7 \in 0 .. 127 /\ f.imm \in Int /\ Fits(f)
         /\ f.rd \in 0 .. 31 /\ f.rs1 \in 0 .. 31 /\ f.rs2 \in 0 .. 31
         /\ f.rd % NREG = f.rd /\ f.rs1 % NREG = f.rs1 /\ f.rs2 % NREG = f.rs2
<1>1. /\ f.opcode \in {Rtype, Itype, LoadType, Stype, Btype, Jtype}
      /\ f.funct3 \in 0 .. 7 /\ f.funct7 \in 0 .. 127 /\ f.imm \in Int /\ Fits(f)
      /\ f.rd \in Registers /\ f.rs1 \in Registers /\ f.rs2 \in Registers
  BY DEF Assembled
<1>2. f.opcode \in 0 .. 127 /\ f.opcode # 0
  BY <1>1 DEF Rtype, Itype, LoadType, Stype, Btype, Jtype
<1>3. \A r \in Registers : r \in 0 .. 31 /\ r % NREG = r
  <2>1. \A r \in RegIdx : r % NREG = r
    BY RegisterAssumption DEF RegIdx
  <2> QED
    BY <2>1 DEF Registers
<1> QED
  BY <1>1, <1>2, <1>3

\* What ImmGen selects, and which of the other fields an opcode uses.
LEMMA Selects ==
  ASSUME NEW i, ~i.zero
  PROVE  /\ i.opcode \in {Itype, LoadType} => ImmOut(i) = i.Iimm
         /\ i.opcode = Stype => ImmOut(i) = i.Simm
         /\ i.opcode = Btype => ImmOut(i) = i.Bimm
         /\ i.opcode = Jtype => ImmOut(i) = i.Jimm
         /\ ControlUnit(i).RegWrite => i.opcode \in {Rtype, Itype, LoadType, Jtype}
         /\ ~ControlUnit(i).ALUSrc \/ ControlUnit(i).MemWrite
              => i.opcode \notin {Itype, LoadType, Jtype}
<1>1. \A S : Is(i, S) = (i.opcode \in S)
  BY DEF Is
<1>2. /\ i.opcode \in {Itype, LoadType} => ImmOut(i) = i.Iimm
      /\ i.opcode = Stype => ImmOut(i) = i.Simm
      /\ i.opcode = Btype => ImmOut(i) = i.Bimm
      /\ i.opcode = Jtype => ImmOut(i) = i.Jimm
  BY <1>1, Immediates
<1>3. /\ ControlUnit(i).MemWrite = (i.opcode \in {Stype})
      /\ ControlUnit(i).RegWrite = (i.opcode \in {Rtype, Itype, LoadType, Jtype})
      /\ ControlUnit(i).ALUSrc = (i.opcode \in {Itype, LoadType, Stype, Jtype})
  BY <1>1 DEF ControlUnit
<1>4. Stype \notin {Itype, LoadType, Jtype}
  BY DEF Itype, LoadType, Stype, Jtype
<1> QED
  BY <1>2, <1>3, <1>4

\* An instruction of format I comes out as it went in.
LEMMA AssembledI ==
  ASSUME PackageFormats, NEW f \in Assembled, f.opcode \in {Itype, LoadType}
  PROVE  RoundTrip(f)
<1>1. PICK top, b : top = Slice(f.imm, 11, 5) /\ b = Slice(f.imm, 4, 0)
  OBVIOUS
<1>2. PICK hi, lo : /\ hi = Halves(top, b, f.rs1, f.funct3, f.rd, f.opcode)[1]
                    /\ lo = Halves(top, b, f.rs1, f.funct3, f.rd, f.opcode)[2]
  OBVIOUS
<1>3. hi = Encode(f)[1] /\ lo = Encode(f)[2]
  BY <1>1, <1>2 DEF PackageFormats, Encode, FormatI
<1>4. -2048 <= f.imm /\ f.imm < 2048 /\ f.imm \in Int
  BY OperandTypes DEF Fits
<1>5. top \in 0 .. 127 /\ b \in 0 .. 31 /\ SignExtend(top * 32 + b, 12) = Trunc(f.imm)
  BY <1>1, <1>4, ImmediateI, Extends12, SMT
<1>6. PICK i : i = Decode(hi, lo)
  OBVIOUS
<1>7. Fields(i, top, b, f.rs1, f.funct3, f.rd, f.opcode)
  BY <1>2, <1>5, <1>6, OperandTypes, DecodedHalves, Zenon
<1>8. /\ ~i.zero /\ i.opcode = f.opcode /\ i.rd = f.rd % NREG /\ i.funct3 = f.funct3
      /\ i.rs1 = f.rs1 % NREG /\ i.Iimm = SignExtend(top * 32 + b, 12)
  BY <1>7 DEF Fields
<1>9. ImmOut(i) = Trunc(f.imm) /\ i.rd = f.rd /\ i.rs1 = f.rs1
      /\ ~(~ControlUnit(i).ALUSrc \/ ControlUnit(i).MemWrite)
  BY <1>5, <1>8, OperandTypes, Selects
<1>10. f.opcode # Rtype
  BY DEF Itype, LoadType, Rtype
<1> QED
  BY <1>3, <1>6, <1>8, <1>9, <1>10 DEF RoundTrip

\* The same of R, which has no immediate.
LEMMA AssembledR ==
  ASSUME PackageFormats, NEW f \in Assembled, f.opcode = Rtype
  PROVE  RoundTrip(f)
<1>1. PICK hi, lo :
        /\ hi = Halves(f.funct7, f.rs2, f.rs1, f.funct3, f.rd, f.opcode)[1]
        /\ lo = Halves(f.funct7, f.rs2, f.rs1, f.funct3, f.rd, f.opcode)[2]
  OBVIOUS
<1>2. hi = Encode(f)[1] /\ lo = Encode(f)[2]
  BY <1>1 DEF PackageFormats, Encode, FormatR
<1>3. PICK i : i = Decode(hi, lo)
  OBVIOUS
<1>4. Fields(i, f.funct7, f.rs2, f.rs1, f.funct3, f.rd, f.opcode)
  BY <1>1, <1>3, OperandTypes, DecodedHalves, Zenon
<1>5. /\ ~i.zero /\ i.opcode = f.opcode /\ i.rd = f.rd /\ i.funct3 = f.funct3
      /\ i.rs1 = f.rs1 /\ i.rs2 = f.rs2 /\ i.funct7 = f.funct7
  BY <1>4, OperandTypes DEF Fields
<1> QED
  BY <1>2, <1>3, <1>5 DEF RoundTrip

\* Of S, whose immediate is where I has rs2 and R has rd.
LEMMA AssembledS ==
  ASSUME PackageFormats, NEW f \in Assembled, f.opcode = Stype
  PROVE  RoundTrip(f)
<1>1. PICK top, low : top = Slice(f.imm, 11, 5) /\ low = Slice(f.imm, 4, 0)
  OBVIOUS
<1>2. PICK hi, lo : /\ hi = Halves(top, f.rs2, f.rs1, f.funct3, low, f.opcode)[1]
                    /\ lo = Halves(top, f.rs2, f.rs1, f.funct3, low, f.opcode)[2]
  OBVIOUS
<1>3. hi = Encode(f)[1] /\ lo = Encode(f)[2]
  BY <1>1, <1>2 DEF PackageFormats, Encode, FormatS
<1>4. -2048 <= f.imm /\ f.imm < 2048 /\ f.imm \in Int
  BY OperandTypes DEF Fits
<1>5. top \in 0 .. 127 /\ low \in 0 .. 31 /\ SignExtend(top * 32 + low, 12) = Trunc(f.imm)
  BY <1>1, <1>4, ImmediateI, Extends12, SMT
<1>6. PICK i : i = Decode(hi, lo)
  OBVIOUS
<1>7. Fields(i, top, f.rs2, f.rs1, f.funct3, low, f.opcode)
  BY <1>2, <1>5, <1>6, OperandTypes, DecodedHalves, Zenon
<1>8. /\ ~i.zero /\ i.opcode = f.opcode /\ i.funct3 = f.funct3
      /\ i.rs1 = f.rs1 /\ i.rs2 = f.rs2 /\ i.Simm = SignExtend(top * 32 + low, 12)
  BY <1>7, OperandTypes DEF Fields
<1>9. f.opcode \notin {Rtype, Itype, LoadType, Jtype}
  BY DEF Rtype, Itype, LoadType, Stype, Jtype
<1>10. ImmOut(i) = Trunc(f.imm) /\ ~ControlUnit(i).RegWrite
  BY <1>5, <1>8, <1>9, Selects
<1> QED
  BY <1>3, <1>6, <1>8, <1>9, <1>10 DEF RoundTrip

\* Of B, whose immediate is scattered over the same places.
LEMMA AssembledB ==
  ASSUME PackageFormats, NEW f \in Assembled, f.opcode = Btype
  PROVE  RoundTrip(f)
<1>1. PICK top, low : /\ top = Slice(f.imm, 12, 12) * 64 + Slice(f.imm, 10, 5)
                      /\ low = Slice(f.imm, 4, 1) * 2 + Slice(f.imm, 11, 11)
  OBVIOUS
<1>2. PICK hi, lo : /\ hi = Halves(top, f.rs2, f.rs1, f.funct3, low, f.opcode)[1]
                    /\ lo = Halves(top, f.rs2, f.rs1, f.funct3, low, f.opcode)[2]
  OBVIOUS
<1>3. hi = Encode(f)[1] /\ lo = Encode(f)[2]
  BY <1>1, <1>2 DEF PackageFormats, Encode, FormatB
<1>4. -4096 <= f.imm /\ f.imm < 4096 /\ f.imm \in Int /\ f.imm % 2 = 0
  BY OperandTypes DEF Fits
<1>5. /\ top \in 0 .. 127 /\ low \in 0 .. 31
      /\ top \div 64 = Slice(f.imm, 12, 12) /\ top % 64 = Slice(f.imm, 10, 5)
      /\ low \div 2 = Slice(f.imm, 4, 1) /\ low % 2 = Slice(f.imm, 11, 11)
  <2>1. /\ Slice(f.imm, 12, 12) \in 0 .. 1 /\ Slice(f.imm, 11, 11) \in 0 .. 1
        /\ Slice(f.imm, 10, 5) \in 0 .. 63 /\ Slice(f.imm, 4, 1) \in 0 .. 15
    BY <1>4, ImmediateB, SMT
  <2>2. \A x \in 0 .. 1, y \in 0 .. 63 :
          /\ x * 64 + y \in 0 .. 127 /\ (x * 64 + y) \div 64 = x /\ (x * 64 + y) % 64 = y
    BY SMT
  <2>3. \A x \in 0 .. 15, y \in 0 .. 1 :
          /\ x * 2 + y \in 0 .. 31 /\ (x * 2 + y) \div 2 = x /\ (x * 2 + y) % 2 = y
    BY SMT
  <2> QED
    BY <1>1, <2>1, <2>2, <2>3
<1>6. (top \div 64) * 4096 + (low % 2) * 2048 + (top % 64) * 32 + (low \div 2) * 2
        = f.imm % 8192
  BY <1>4, <1>5, ImmediateB, SMT
<1>7. SignExtend(f.imm % 8192, 13) = Trunc(f.imm)
  BY <1>4, Extends13
<1>8. PICK i : i = Decode(hi, lo)
  OBVIOUS
<1>9. Fields(i, top, f.rs2, f.rs1, f.funct3, low, f.opcode)
  BY <1>2, <1>5, <1>8, OperandTypes, DecodedHalves, Zenon
<1>10. /\ ~i.zero /\ i.opcode = f.opcode /\ i.funct3 = f.funct3
       /\ i.rs1 = f.rs1 /\ i.rs2 = f.rs2 /\ i.Bimm = SignExtend(f.imm % 8192, 13)
  BY <1>6, <1>9, OperandTypes, SMT DEF Fields
<1>11. f.opcode \notin {Rtype, Itype, LoadType, Jtype}
  BY DEF Rtype, Itype, LoadType, Btype, Jtype
<1>12. ImmOut(i) = Trunc(f.imm) /\ ~ControlUnit(i).RegWrite
  BY <1>7, <1>10, <1>11, Selects
<1> QED
  BY <1>3, <1>8, <1>10, <1>11, <1>12 DEF RoundTrip

\* Of J, whose immediate fills everything above rd.
LEMMA AssembledJ ==
  ASSUME PackageFormats, NEW f \in Assembled, f.opcode = Jtype
  PROVE  RoundTrip(f)
<1>1. PICK s, low, m, high : /\ s = Slice(f.imm, 20, 20) /\ low = Slice(f.imm, 10, 1)
                             /\ m = Slice(f.imm, 11, 11) /\ high = Slice(f.imm, 19, 12)
  OBVIOUS
<1>2. PICK hi, lo :
        /\ hi = JumpHalves(s, low, m, high, f.rd, f.opcode)[1]
        /\ lo = JumpHalves(s, low, m, high, f.rd, f.opcode)[2]
  OBVIOUS
<1>3. hi = Encode(f)[1] /\ lo = Encode(f)[2]
  BY <1>1, <1>2, SMT DEF PackageFormats, Encode, FormatJ
<1>4. -1048576 <= f.imm /\ f.imm < 1048576 /\ f.imm \in Int /\ f.imm % 2 = 0
  BY OperandTypes, SMT DEF Fits
<1>5. PICK r : r = f.imm % 2097152
  OBVIOUS
<1>6. s \in 0 .. 1 /\ low \in 0 .. 1023 /\ m \in 0 .. 1 /\ high \in 0 .. 255
  BY <1>1, <1>4, ImmediateJ, SMTT(30)
<1>7. s * 1048576 + high * 4096 + m * 2048 + low * 2 = r
  BY <1>1, <1>4, <1>5, ImmediateJ, SMT
<1>8. SignExtend(r, 21) = Trunc(f.imm)
  BY <1>4, <1>5, Extends21, SMT
<1>9. /\ hi \in Int /\ lo \in Int
      /\ Bits(lo, 6, 0) = f.opcode /\ Bits(lo, 11, 7) = f.rd
      /\ Bits(hi, 15, 15) = s /\ Bits(hi, 14, 5) = low /\ Bits(hi, 4, 4) = m
      /\ Bits(hi, 3, 0) * 16 + Bits(lo, 15, 12) = high
  <2>1. JumpFields(hi, lo, s, low, m, high, f.rd, f.opcode)
    <3>1. JumpPieces(s, low, m, high, f.rd, f.opcode)
      BY <1>6, OperandTypes DEF JumpPieces
    <3> QED
      BY <1>2, <3>1, FieldsOfJump, Zenon
  <2> QED
    BY <2>1 DEF JumpFields
<1>10. JimmField(hi, lo) = r
  BY <1>6, <1>9, <1>7, SMT DEF JimmField
<1>11. lo # 0
  BY <1>9, OperandTypes, SMT DEF Bits
<1>12. PICK i : i = Decode(hi, lo)
  OBVIOUS
<1>13. /\ i.zero = (hi = 0 /\ lo = 0) /\ i.opcode = Bits(lo, 6, 0)
       /\ i.rd = Bits(lo, 11, 7) % NREG /\ i.Jimm = SignExtend(JimmField(hi, lo), 21)
  BY <1>12 DEF Decode
<1>14. /\ ~i.zero /\ i.opcode = f.opcode /\ i.rd = f.rd
       /\ i.Jimm = SignExtend(r, 21)
  <2>1. (hi = 0 /\ lo = 0) = FALSE
    BY <1>11
  <2>2. i.rd = f.rd % NREG
    BY <1>9, <1>13
  <2>3. f.rd % NREG = f.rd
    BY OperandTypes, SMT
  <2>4. i.Jimm = SignExtend(r, 21)
    BY <1>10, <1>13, SMT
  <2>5. ~i.zero /\ i.opcode = f.opcode
    BY <1>9, <1>13, <2>1
  <2> QED
    BY <2>2, <2>3, <2>4, <2>5, SMT
<1>15. /\ ImmOut(i) = Trunc(f.imm)
       /\ ~(~ControlUnit(i).ALUSrc \/ ControlUnit(i).MemWrite)
  BY <1>8, <1>14, Selects, SMT
<1>16. f.opcode # Rtype
  BY DEF Jtype, Rtype
<1> QED
  BY <1>3, <1>12, <1>14, <1>15, <1>16 DEF RoundTrip

\* Whatever registers and whatever immediate that fits its format an assembler
\* puts into one of the listed opcodes, main.sv's part-selects, the ControlUnit
\* and ImmGen read the same registers and the sign-extended immediate from the
\* word, although its bits are scattered over it.
THEOREM EveryInstructionRoundTrips ==
  ASSUME PackageFormats, NEW f \in Assembled
  PROVE  RoundTrip(f)
BY OperandTypes, AssembledR, AssembledI, AssembledS, AssembledB, AssembledJ

----------------------------------------------------------------------------
(* The sum programs of tb_CPU.cpp and onchip_mem.mif, decoded.              *)

\* A natural number below R is its own remainder.
LEMMA SmallRemainder ==
  ASSUME NEW R \in Nat, NEW n \in Nat, n < R
  PROVE  n % R = n
  OBVIOUS

\* Only the all-zero word halts.
LEMMA OnlyZeroHalts ==
  ASSUME NEW hi, NEW lo
  PROVE  Decode(hi, lo).zero <=> hi = 0 /\ lo = 0
  BY DEF Decode

\* The words of a sum program in a memory of n words.
LEMMA SumImage ==
  ASSUME NEW n \in Nat, n > 13, NEW last, NEW load
  PROVE  LET p == Image(SumWords(last, load), n)
         IN  /\ p[0] = Decode(\h0000, \h0093)
             /\ p[1] = Decode(last[1], last[2])
             /\ p[2] = Decode(\h0020, \h80B3)
             /\ p[3] = Decode(\hFFF1, \h0113)
             /\ p[4] = Decode(\hFE01, \h1CE3)
             /\ p[5] = Decode(\h0000, \h0193)
             /\ p[6] = Decode(\h0011, \hA023)
             /\ p[7] = Decode(load[1], load[2])
             /\ p[8] = Decode(\h0100, \h006F)
             /\ p[12] = Decode(\h0052, \h8293)
             /\ p[13] = Decode(0, 0)
<1> DEFINE w == SumWords(last, load)
           p == Image(w, n)
<1>1. Len(w) = 13
  BY DEF SumWords
<1>2. \A a \in 0 .. 12 : p[a] = Decode(w[a + 1][1], w[a + 1][2])
  <2> HIDE DEF w
  <2> QED
    BY <1>1 DEF Image
<1>3. p[13] = Decode(0, 0)
  <2> HIDE DEF w
  <2> QED
    BY <1>1 DEF Image
<1> HIDE DEF p
<1>4. p[0] = Decode(w[1][1], w[1][2]) /\ p[1] = Decode(w[2][1], w[2][2])
      /\ p[2] = Decode(w[3][1], w[3][2]) /\ p[3] = Decode(w[4][1], w[4][2])
      /\ p[4] = Decode(w[5][1], w[5][2]) /\ p[5] = Decode(w[6][1], w[6][2])
      /\ p[6] = Decode(w[7][1], w[7][2]) /\ p[7] = Decode(w[8][1], w[8][2])
      /\ p[8] = Decode(w[9][1], w[9][2]) /\ p[12] = Decode(w[13][1], w[13][2])
  BY <1>2
<1>5. /\ w[1] = <<\h0000, \h0093>> /\ w[2] = last /\ w[3] = <<\h0020, \h80B3>>
      /\ w[4] = <<\hFFF1, \h0113>> /\ w[5] = <<\hFE01, \h1CE3>> /\ w[6] = <<\h0000, \h0193>>
      /\ w[7] = <<\h0011, \hA023>> /\ w[8] = load /\ w[9] = <<\h0100, \h006F>>
      /\ w[13] = <<\h0052, \h8293>>
  BY DEF SumWords
<1> HIDE DEF w
<1>6. p[0] = Decode(\h0000, \h0093) /\ p[1] = Decode(last[1], last[2])
      /\ p[2] = Decode(\h0020, \h80B3) /\ p[3] = Decode(\hFFF1, \h0113)
      /\ p[4] = Decode(\hFE01, \h1CE3) /\ p[5] = Decode(\h0000, \h0193)
      /\ p[6] = Decode(\h0011, \hA023) /\ p[7] = Decode(load[1], load[2])
      /\ p[8] = Decode(\h0100, \h006F) /\ p[12] = Decode(\h0052, \h8293)
  BY <1>4, <1>5
<1> QED
  BY <1>3, <1>6 DEF p, w

\* The instruction i is addi rd, rs1, imm.
AddsImmediate(i, rd, rs1, imm) ==
  ~i.zero /\ i.opcode = Itype /\ i.funct3 = 0 /\ i.rd = rd /\ i.rs1 = rs1 /\ i.Iimm = imm

\* The program p is the one of SumWords, with last in its second instruction:
\* what its run depends on.  The nops it jumps over are left out.
IsSumProgram(p, last) ==
  /\ AddsImmediate(p[0], 1, 0, 0)
  /\ AddsImmediate(p[1], 2, 0, last)
  /\ ~p[2].zero /\ p[2].opcode = Rtype /\ p[2].funct3 = 0 /\ p[2].funct7 = 0
  /\ p[2].rd = 1 /\ p[2].rs1 = 1 /\ p[2].rs2 = 2
  /\ AddsImmediate(p[3], 2, 2, Trunc(0 - 1))
  /\ ~p[4].zero /\ p[4].opcode = Btype /\ p[4].funct3 = 1
  /\ p[4].rs1 = 2 /\ p[4].rs2 = 0 /\ p[4].Bimm = Trunc(0 - 8)
  /\ AddsImmediate(p[5], 3, 0, 0)
  /\ ~p[6].zero /\ p[6].opcode = Stype /\ p[6].funct3 = 2
  /\ p[6].rs1 = 3 /\ p[6].rs2 = 1 /\ p[6].Simm = 0
  /\ ~p[7].zero /\ p[7].opcode = LoadType /\ p[7].funct3 = 2
  /\ p[7].rd = 5 /\ p[7].rs1 = 3 /\ p[7].Iimm = 0
  /\ ~p[8].zero /\ p[8].opcode = Jtype /\ p[8].rd = 0 /\ p[8].Jimm = 16
  /\ AddsImmediate(p[12], 5, 5, 5)
  /\ p[13].zero

\* The fields of a decoded word.
LEMMA DecodedFields ==
  ASSUME NEW hi, NEW lo
  PROVE  LET i == Decode(hi, lo)
         IN  /\ i.opcode = Bits(lo, 6, 0) /\ i.funct3 = Bits(lo, 14, 12)
             /\ i.funct7 = Bits(hi, 15, 9)
             /\ i.rd = Bits(lo, 11, 7) % NREG
             /\ i.rs1 = (Bits(hi, 3, 0) * 2 + Bits(lo, 15, 15)) % NREG
             /\ i.rs2 = Bits(hi, 8, 4) % NREG
             /\ i.Iimm = SignExtend(IimmField(hi, lo), 12)
             /\ i.Simm = SignExtend(SimmField(hi, lo), 12)
             /\ i.Bimm = SignExtend(BimmField(hi, lo), 13)
             /\ i.Jimm = SignExtend(JimmField(hi, lo), 21)
  BY DEF Decode

\* The fields that the words of the sum programs have.
LEMMA SumBits ==
  /\ Bits(\h006F, 6, 0) = 111 /\ Bits(\h006F, 11, 7) = 0
     /\ Bits(\h006F, 14, 12) = 0 /\ Bits(\h006F, 15, 15) = 0
  /\ Bits(\h0093, 6, 0) = 19 /\ Bits(\h0093, 11, 7) = 1
     /\ Bits(\h0093, 14, 12) = 0 /\ Bits(\h0093, 15, 15) = 0
  /\ Bits(\h0113, 6, 0) = 19 /\ Bits(\h0113, 11, 7) = 2
     /\ Bits(\h0113, 14, 12) = 0 /\ Bits(\h0113, 15, 15) = 0
  /\ Bits(\h0193, 6, 0) = 19 /\ Bits(\h0193, 11, 7) = 3
     /\ Bits(\h0193, 14, 12) = 0 /\ Bits(\h0193, 15, 15) = 0
  /\ Bits(\h1CE3, 6, 0) = 99 /\ Bits(\h1CE3, 11, 7) = 25
     /\ Bits(\h1CE3, 14, 12) = 1 /\ Bits(\h1CE3, 15, 15) = 0
  /\ Bits(\h80B3, 6, 0) = 51 /\ Bits(\h80B3, 11, 7) = 1
     /\ Bits(\h80B3, 14, 12) = 0 /\ Bits(\h80B3, 15, 15) = 1
  /\ Bits(\h8293, 6, 0) = 19 /\ Bits(\h8293, 11, 7) = 5
     /\ Bits(\h8293, 14, 12) = 0 /\ Bits(\h8293, 15, 15) = 1
  /\ Bits(\hA023, 6, 0) = 35 /\ Bits(\hA023, 11, 7) = 0
     /\ Bits(\hA023, 14, 12) = 2 /\ Bits(\hA023, 15, 15) = 1
  /\ Bits(\hA283, 6, 0) = 3 /\ Bits(\hA283, 11, 7) = 5
     /\ Bits(\hA283, 14, 12) = 2 /\ Bits(\hA283, 15, 15) = 1
  BY DEF Bits

\* The fields their upper halves have.
LEMMA SumHighBits ==
  /\ Bits(\h0000, 3, 0) = 0 /\ Bits(\h0000, 8, 4) = 0 /\ Bits(\h0000, 15, 9) = 0
  /\ Bits(\h0001, 3, 0) = 1 /\ Bits(\h0001, 8, 4) = 0 /\ Bits(\h0001, 15, 9) = 0
  /\ Bits(\h0011, 3, 0) = 1 /\ Bits(\h0011, 8, 4) = 1 /\ Bits(\h0011, 15, 9) = 0
  /\ Bits(\h0020, 3, 0) = 0 /\ Bits(\h0020, 8, 4) = 2 /\ Bits(\h0020, 15, 9) = 0
  /\ Bits(\h0052, 3, 0) = 2 /\ Bits(\h0052, 8, 4) = 5 /\ Bits(\h0052, 15, 9) = 0
  /\ Bits(\h00A0, 3, 0) = 0 /\ Bits(\h00A0, 8, 4) = 10 /\ Bits(\h00A0, 15, 9) = 0
  /\ Bits(\h0100, 3, 0) = 0 /\ Bits(\h0100, 8, 4) = 16 /\ Bits(\h0100, 15, 9) = 0
  /\ Bits(\h0640, 3, 0) = 0 /\ Bits(\h0640, 8, 4) = 4 /\ Bits(\h0640, 15, 9) = 3
  /\ Bits(\hFE01, 3, 0) = 1 /\ Bits(\hFE01, 8, 4) = 0 /\ Bits(\hFE01, 15, 9) = 127
  /\ Bits(\hFFF1, 3, 0) = 1 /\ Bits(\hFFF1, 8, 4) = 31 /\ Bits(\hFFF1, 15, 9) = 127
  BY DEF Bits

\* The immediates of the sum programs.
LEMMA SumImmediates ==
  /\ \A lo : /\ SignExtend(IimmField(\h0000, lo), 12) = Trunc(0)
             /\ SignExtend(IimmField(\h00A0, lo), 12) = Trunc(10)
             /\ SignExtend(IimmField(\h0640, lo), 12) = Trunc(100)
             /\ SignExtend(IimmField(\hFFF1, lo), 12) = Trunc(0 - 1)
             /\ SignExtend(IimmField(\h0001, lo), 12) = Trunc(0)
             /\ SignExtend(IimmField(\h0052, lo), 12) = Trunc(5)
  /\ SignExtend(SimmField(\h0011, \hA023), 12) = Trunc(0)
  /\ SignExtend(BimmField(\hFE01, \h1CE3), 13) = Trunc(0 - 8)
  /\ SignExtend(JimmField(\h0100, \h006F), 21) = Trunc(16)
<1>1. \A lo : /\ IimmField(\h0000, lo) = 0 /\ IimmField(\h00A0, lo) = 10
              /\ IimmField(\h0640, lo) = 100 /\ IimmField(\hFFF1, lo) = 4095
              /\ IimmField(\h0001, lo) = 0 /\ IimmField(\h0052, lo) = 5
  BY DEF IimmField, Bits
<1>2. SimmField(\h0011, \hA023) = 0
  BY DEF SimmField, Bits
<1>3. BimmField(\hFE01, \h1CE3) = 8184
  BY DEF BimmField, Bits
<1>4. JimmField(\h0100, \h006F) = 16
  BY SMT DEF JimmField, Bits
<1>5. /\ SignExtend(0, 12) = Trunc(0) /\ SignExtend(5, 12) = Trunc(5)
      /\ SignExtend(10, 12) = Trunc(10) /\ SignExtend(100, 12) = Trunc(100)
      /\ SignExtend(4095, 12) = Trunc(0 - 1) /\ SignExtend(8184, 13) = Trunc(0 - 8)
      /\ SignExtend(16, 21) = Trunc(16)
  BY SMT DEF SignExtend
<1> QED
  BY <1>1, <1>2, <1>3, <1>4, <1>5

\* The two programs of the repository that the runs use are sum programs.
LEMMA SumProgramsSum ==
  ASSUME NREG > 5, 60 < Radix, NEW n \in Nat, n > 13
  PROVE  /\ IsSumProgram(Image(TbCpuROM, n), 10)
         /\ IsSumProgram(Image(OnchipMem, n), Trunc(100))
<1>1. /\ 0 % NREG = 0 /\ 1 % NREG = 1 /\ 2 % NREG = 2 /\ 3 % NREG = 3 /\ 5 % NREG = 5
  BY RegisterAssumption, SmallRemainder
<1>2. Trunc(0) = 0 /\ Trunc(5) = 5 /\ Trunc(10) = 10 /\ Trunc(16) = 16
  BY RadixSplits, SmallRemainder, WidthAssumption DEF Trunc, Radix
<1>3. LET i == Decode(\h0000, \h0093)
      IN  AddsImmediate(i, 1, 0, 0)
  BY <1>1, <1>2, OnlyZeroHalts, DecodedFields, SumBits, SumHighBits, SumImmediates
     DEF AddsImmediate, Itype
<1>4. LET i == Decode(\h00A0, \h0113)
      IN  AddsImmediate(i, 2, 0, 10)
  BY <1>1, <1>2, OnlyZeroHalts, DecodedFields, SumBits, SumHighBits, SumImmediates
     DEF AddsImmediate, Itype
<1>5. LET i == Decode(\h0640, \h0113)
      IN  AddsImmediate(i, 2, 0, Trunc(100))
  BY <1>1, <1>2, OnlyZeroHalts, DecodedFields, SumBits, SumHighBits, SumImmediates
     DEF AddsImmediate, Itype
<1>6. LET i == Decode(\h0020, \h80B3)
      IN  /\ ~i.zero /\ i.opcode = Rtype /\ i.funct3 = 0 /\ i.funct7 = 0
          /\ i.rd = 1 /\ i.rs1 = 1 /\ i.rs2 = 2
  BY <1>1, <1>2, OnlyZeroHalts, DecodedFields, SumBits, SumHighBits, SumImmediates
     DEF Rtype
<1>7. LET i == Decode(\hFFF1, \h0113)
      IN  AddsImmediate(i, 2, 2, Trunc(0 - 1))
  BY <1>1, <1>2, OnlyZeroHalts, DecodedFields, SumBits, SumHighBits, SumImmediates
     DEF AddsImmediate, Itype
<1>8. LET i == Decode(\hFE01, \h1CE3)
      IN  /\ ~i.zero /\ i.opcode = Btype /\ i.funct3 = 1
          /\ i.rs1 = 2 /\ i.rs2 = 0 /\ i.Bimm = Trunc(0 - 8)
  BY <1>1, <1>2, OnlyZeroHalts, DecodedFields, SumBits, SumHighBits, SumImmediates
     DEF Btype
<1>9. LET i == Decode(\h0000, \h0193)
      IN  AddsImmediate(i, 3, 0, 0)
  BY <1>1, <1>2, OnlyZeroHalts, DecodedFields, SumBits, SumHighBits, SumImmediates
     DEF AddsImmediate, Itype
<1>10. LET i == Decode(\h0011, \hA023)
      IN  /\ ~i.zero /\ i.opcode = Stype /\ i.funct3 = 2
          /\ i.rs1 = 3 /\ i.rs2 = 1 /\ i.Simm = 0
  BY <1>1, <1>2, OnlyZeroHalts, DecodedFields, SumBits, SumHighBits, SumImmediates
     DEF Stype
<1>11. LET i == Decode(\h0001, \hA283)
      IN  /\ ~i.zero /\ i.opcode = LoadType /\ i.funct3 = 2
          /\ i.rd = 5 /\ i.rs1 = 3 /\ i.Iimm = 0
  BY <1>1, <1>2, OnlyZeroHalts, DecodedFields, SumBits, SumHighBits, SumImmediates
     DEF LoadType
<1>12. LET i == Decode(\h0100, \h006F)
      IN  ~i.zero /\ i.opcode = Jtype /\ i.rd = 0 /\ i.Jimm = 16
  BY <1>1, <1>2, OnlyZeroHalts, DecodedFields, SumBits, SumHighBits, SumImmediates
     DEF Jtype
<1>13. LET i == Decode(\h0052, \h8293)
      IN  AddsImmediate(i, 5, 5, 5)
  BY <1>1, <1>2, OnlyZeroHalts, DecodedFields, SumBits, SumHighBits, SumImmediates
     DEF AddsImmediate, Itype
<1>14. Decode(0, 0).zero
  BY OnlyZeroHalts
<1> USE DEF IsSumProgram
<1>15. IsSumProgram(Image(TbCpuROM, n), 10)
  <2> DEFINE last == <<\h00A0, \h0113>>  load == <<\h0001, \hA283>>
  <2>1. last[1] = \h00A0 /\ last[2] = \h0113 /\ load[1] = \h0001 /\ load[2] = \hA283
    OBVIOUS
  <2>2. TbCpuROM = SumWords(last, load)
    BY DEF TbCpuROM
  <2> HIDE DEF last, load
  <2> QED
    BY <1>3, <1>4, <1>6, <1>7, <1>8, <1>9, <1>10, <1>11, <1>12, <1>13, <1>14, <2>1, <2>2, SumImage
<1>16. IsSumProgram(Image(OnchipMem, n), Trunc(100))
  <2> DEFINE last == <<\h0640, \h0113>>  load == <<\h0001, \hA283>>
  <2>1. last[1] = \h0640 /\ last[2] = \h0113 /\ load[1] = \h0001 /\ load[2] = \hA283
    OBVIOUS
  <2>2. OnchipMem = SumWords(last, load)
    BY DEF OnchipMem
  <2> HIDE DEF last, load
  <2> QED
    BY <1>3, <1>5, <1>6, <1>7, <1>8, <1>9, <1>10, <1>11, <1>12, <1>13, <1>14, <2>1, <2>2, SumImage
<1> QED
  BY <1>15, <1>16
=============================================================================
