------------------------- MODULE DqsEnableTheorems -------------------------
(* Invariants of the search for the DQS enable setting, for every FIFO and  *)
(* every chain of phase and delay taps: first whatever the memory answers,  *)
(* then against read windows, which the setting that is kept must centre.   *)
EXTENDS ReadEye, TLAPS

----------------------------------------------------------------------------
(* Taps and places.                                                         *)

\* A quotient is at most a when the dividend is below a + 1 divisors.
LEMMA DivBound ==
  ASSUME NEW x \in Nat, NEW a \in Nat, NEW c \in Nat \ {0}, x < a * c + c
  PROVE  x \div c \in 0 .. a
<1> DEFINE q == x \div c
<1>1. q \in Nat /\ q * c <= x
  OBVIOUS
<1>2. ASSUME q >= a + 1 PROVE FALSE
  <2>1. q - (a + 1) \in Nat
    BY <1>1, <1>2
  <2>2. (q - (a + 1)) * c \in Nat
    BY <2>1
  <2>3. (q - (a + 1)) * c = q * c - a * c - c
    BY <1>1
  <2>4. q * c \in Int /\ a * c \in Int
    BY <1>1
  <2> HIDE DEF q
  <2> QED
    BY <1>1, <2>2, <2>3, <2>4
<1> QED
  BY <1>1, <1>2

\* What a quotient leaves is less than a divisor.
LEMMA DivRest ==
  ASSUME NEW x \in Nat, NEW c \in Nat \ {0}
  PROVE  x \div c \in Nat /\ x - (x \div c) * c \in 0 .. c - 1
OBVIOUS

\* The delay taps of a phase are taps the chain has.
LEMMA TapsType == DtapsPerPtap \in 0 .. DELAY_MAX
<1> DEFINE x == OPA_TAP + DCHAIN_TAP - 1
<1>1. DELAY_MAX \in Nat /\ DCHAIN_TAP \in Nat \ {0} /\ OPA_TAP \in Nat \ {0}
  BY DqsAssumption
<1>2. DELAY_MAX * DCHAIN_TAP \in Nat
  BY <1>1
<1>3. x \in Nat /\ x < DELAY_MAX * DCHAIN_TAP + DCHAIN_TAP /\ x >= DCHAIN_TAP
  BY <1>1, <1>2, DqsAssumption
<1> HIDE DEF x
<1>4. x \div DCHAIN_TAP \in 0 .. DELAY_MAX
  BY <1>1, <1>3, DivBound
<1>5. x \div DCHAIN_TAP # 0
  BY <1>1, <1>3, DivRest
<1> QED
  BY <1>1, <1>4, <1>5 DEF DtapsPerPtap, x

\* A place keeps its form when a tap is set.
LEMMA AtType ==
  ASSUME NEW x \in Settings, NEW p \in 0 .. PHASE_MAX, NEW d \in 0 .. DELAY_MAX
  PROVE  At(x, p, d) \in Settings /\ At(x, p, d).p = p /\ At(x, p, d).d = d
BY DEF At, Settings

\* The FIFO goes round; the taps stay.
LEMMA IncrType ==
  ASSUME NEW x \in Settings
  PROVE  Incr(x) \in Settings /\ Incr(x).p = x.p /\ Incr(x).d = x.d
<1>1. VFIFO_SIZE \in Nat \ {0} /\ x.v \in Nat
  BY DqsAssumption DEF Settings
<1>2. (x.v + 1) % VFIFO_SIZE \in 0 .. VFIFO_SIZE - 1
  BY <1>1
<1> QED
  BY <1>2 DEF Incr, Settings

LEMMA DecrType ==
  ASSUME NEW x \in Settings
  PROVE  Decr(x) \in Settings /\ Decr(x).p = x.p /\ Decr(x).d = x.d
<1>1. VFIFO_SIZE \in Nat \ {0} /\ x.v \in Nat
  BY DqsAssumption DEF Settings
<1>2. (x.v + VFIFO_SIZE - 1) % VFIFO_SIZE \in 0 .. VFIFO_SIZE - 1
  BY <1>1
<1> QED
  BY <1>2 DEF Decr, Settings

\* The taps of a setting are numbers the lemmas above can be used with.
LEMMA SettingType ==
  ASSUME NEW x \in Settings
  PROVE  x.p \in 0 .. PHASE_MAX /\ x.d \in 0 .. DELAY_MAX
BY DEF Settings

\* One phase back from a phase that can be set is a phase that can be set.
LEMMA BackPhaseType ==
  ASSUME NEW x \in Settings, x.p >= 1, NEW d \in 0 .. DELAY_MAX
  PROVE  BackPhase(x, d) \in Settings /\ BackPhase(x, d).p >= 1 /\ BackPhase(x, d).d = d
<1>1. x.p \in 0 .. PHASE_MAX /\ PHASE_MAX \in Nat /\ PHASE_MAX >= 3
  BY SettingType, DqsAssumption
<1>2. CASE x.p = 1
  BY <1>1, <1>2, DecrType, AtType DEF BackPhase
<1>3. CASE x.p # 1
  <2>1. x.p - 1 \in 0 .. PHASE_MAX /\ x.p - 1 >= 1
    BY <1>1, <1>3
  <2> QED
    BY <1>3, <2>1, AtType DEF BackPhase
<1> QED
  BY <1>2, <1>3

\* The centre of a window is a phase that can be set and taps the chain has,
\* wherever the window is.
LEMMA CentredType ==
  ASSUME NEW bgn \in Nat, NEW end \in Nat
  PROVE  Centred(bgn, end).p \in 1 .. PHASE_MAX /\ Centred(bgn, end).d \in 0 .. DELAY_MAX
<1> DEFINE mid   == (bgn + end) \div 2
           inner == ((mid - 1) % Cycle) + 1
           p     == (inner - 1) \div OPA_TAP
           x     == inner - p * OPA_TAP + DCHAIN_TAP - 1
<1>1. /\ DELAY_MAX \in Nat /\ DCHAIN_TAP \in Nat \ {0} /\ OPA_TAP \in Nat \ {0}
      /\ PHASE_MAX \in Nat /\ PHASE_MAX >= 3 /\ OPA_TAP <= DELAY_MAX * DCHAIN_TAP
  BY DqsAssumption
<1>2. Cycle \in Nat \ {0} /\ Cycle = PHASE_MAX * OPA_TAP + OPA_TAP
  BY <1>1 DEF Cycle
<1>3. mid \in Nat
  OBVIOUS
<1>4. inner - 1 \in Nat /\ inner \in Nat /\ inner - 1 < PHASE_MAX * OPA_TAP + OPA_TAP
  <2> HIDE DEF mid
  <2>1. (mid - 1) % Cycle \in 0 .. Cycle - 1
    BY <1>2, <1>3
  <2>2. inner - 1 = (mid - 1) % Cycle
    BY <2>1, <1>2
  <2> HIDE DEF inner
  <2> QED
    BY <2>1, <2>2, <1>2 DEF inner
<1> HIDE DEF inner
<1>5. p \in 0 .. PHASE_MAX
  BY <1>1, <1>4, DivBound
<1>6. inner - 1 - p * OPA_TAP \in 0 .. OPA_TAP - 1
  BY <1>1, <1>4, DivRest
<1>7. p * OPA_TAP \in Nat /\ DELAY_MAX * DCHAIN_TAP \in Nat
  BY <1>1, <1>5
<1> HIDE DEF p
<1>8. x \in Nat /\ x < DELAY_MAX * DCHAIN_TAP + DCHAIN_TAP
  BY <1>1, <1>4, <1>6, <1>7
<1> HIDE DEF x
<1>9. x \div DCHAIN_TAP \in 0 .. DELAY_MAX
  BY <1>1, <1>8, DivBound
<1>10. Centred(bgn, end) = IF p = 0 THEN [p |-> 1, d |-> 0]
                           ELSE [p |-> p, d |-> x \div DCHAIN_TAP]
  BY DEF Centred, p, x, inner
<1> QED
  BY <1>1, <1>5, <1>9, <1>10

----------------------------------------------------------------------------
(* Counting round a ring.                                                   *)

\* A number has one remainder.
LEMMA ModUnique ==
  ASSUME NEW R \in Nat \ {0}, NEW q \in Int, NEW r \in 0 .. R - 1
  PROVE  (q * R + r) % R = r
<1> DEFINE n == q * R + r
           t == n \div R
<1>1. n \in Int
  OBVIOUS
<1>2. t \in Int /\ n % R \in 0 .. R - 1 /\ n = t * R + (n % R)
  <2> HIDE DEF n
  <2> QED
    BY <1>1
<1>3. (q - t) * R = (n % R) - r
  <2> HIDE DEF t
  <2>1. (q - t) * R = q * R - t * R
    BY <1>2
  <2> QED
    BY <1>2, <2>1
<1>4. n % R \in Int /\ n % R < R /\ n % R >= 0
  BY <1>2
<1>5. q - t \in Int
  BY <1>2
<1>6. ASSUME q - t >= 1 PROVE FALSE
  <2>1. (q - t - 1) * R >= 0
    BY <1>5, <1>6
  <2>2. (q - t - 1) * R = (q - t) * R - R
    BY <1>5
  <2> HIDE DEF n, t
  <2> QED
    BY <1>3, <1>4, <2>1, <2>2
<1>7. ASSUME q - t <= -1 PROVE FALSE
  <2>1. (t - q - 1) * R >= 0
    BY <1>2, <1>5, <1>7
  <2>2. (t - q - 1) * R = -((q - t) * R) - R
    BY <1>2, <1>5
  <2> HIDE DEF n, t
  <2> QED
    BY <1>3, <1>4, <2>1, <2>2
<1>8. q - t = 0
  <2> HIDE DEF n, t
  <2> QED
    BY <1>5, <1>6, <1>7
<1> HIDE DEF n, t
<1> QED
  BY <1>3, <1>4, <1>8 DEF n

\* Every number is whole turns and its remainder.
LEMMA DivMod ==
  ASSUME NEW R \in Nat \ {0}, NEW w \in Int
  PROVE  \E q \in Int : w % R \in 0 .. R - 1 /\ w = q * R + (w % R)
<1>1. w \div R \in Int /\ w % R \in 0 .. R - 1 /\ w = (w \div R) * R + (w % R)
  OBVIOUS
<1> QED
  BY <1>1

\* Whole turns leave the remainder.
LEMMA ModTurns ==
  ASSUME NEW R \in Nat \ {0}, NEW w \in Int, NEW k \in Int
  PROVE  (w + k * R) % R = w % R
<1>1. PICK q \in Int, r \in 0 .. R - 1 : w = q * R + r /\ w % R = r
  BY DivMod
<1>2. w + k * R = (q + k) * R + r
  BY <1>1
<1>3. q + k \in Int
  OBVIOUS
<1> QED
  BY <1>1, <1>2, <1>3, ModUnique

\* The setting x, counted from position b, is w picoseconds on, give or take
\* whole turns of the FIFO.
Follows(b, x, w) == \E k \in Int : Position(x) - b = w + k * Ring

\* Where step 2 starts to count.
Start == base * Cycle

\* The lengths of a cycle and of the ring, in phase taps.
LEMMA Lengths ==
  /\ Cycle \in Nat \ {0} /\ Cycle = PHASE_MAX * OPA_TAP + OPA_TAP /\ Cycle >= 4 * OPA_TAP
  /\ Ring \in Nat \ {0} /\ Ring = VFIFO_SIZE * Cycle
<1>1. /\ VFIFO_SIZE \in Nat \ {0} /\ PHASE_MAX \in Nat /\ PHASE_MAX >= 3
      /\ OPA_TAP \in Nat \ {0}
  BY DqsAssumption
<1>2. (PHASE_MAX - 3) * OPA_TAP \in Nat
  BY <1>1
<1>3. (PHASE_MAX - 3) * OPA_TAP = PHASE_MAX * OPA_TAP - 3 * OPA_TAP
  BY <1>1
<1>4. PHASE_MAX * OPA_TAP \in Nat
  BY <1>1
<1>5. Cycle = PHASE_MAX * OPA_TAP + OPA_TAP
  BY <1>1 DEF Cycle
<1>6. Cycle \in Nat \ {0} /\ Cycle >= 4 * OPA_TAP
  BY <1>1, <1>2, <1>3, <1>4, <1>5
<1>7. Ring = VFIFO_SIZE * Cycle /\ Ring \in Nat \ {0}
  BY <1>1, <1>6 DEF Ring
<1> QED
  BY <1>5, <1>6, <1>7

\* A place's picoseconds are a number.
LEMMA PositionType ==
  ASSUME NEW x \in Settings
  PROVE  /\ Position(x) \in Int /\ x.v \in 0 .. VFIFO_SIZE - 1 /\ x.p \in Int /\ x.d \in Int
         /\ Position(x) = x.v * Cycle + x.p * OPA_TAP + x.d * DCHAIN_TAP
<1>1. /\ VFIFO_SIZE \in Nat \ {0} /\ PHASE_MAX \in Nat /\ DELAY_MAX \in Nat
      /\ OPA_TAP \in Nat \ {0} /\ DCHAIN_TAP \in Nat \ {0}
  BY DqsAssumption
<1>2. x.v \in 0 .. VFIFO_SIZE - 1 /\ x.p \in Int /\ x.d \in Int
  BY <1>1 DEF Settings
<1> QED
  BY <1>1, <1>2, Lengths DEF Position

\* The taps count their picoseconds ...
LEMMA FollowsAt ==
  ASSUME NEW b \in Int, NEW x \in Settings, NEW w \in Int, Follows(b, x, w),
         NEW p \in 0 .. PHASE_MAX, NEW d \in 0 .. DELAY_MAX
  PROVE  Follows(b, At(x, p, d), w + (p - x.p) * OPA_TAP + (d - x.d) * DCHAIN_TAP)
<1>1. OPA_TAP \in Int /\ DCHAIN_TAP \in Int /\ p \in Int /\ d \in Int /\ Cycle \in Int
  BY DqsAssumption, Lengths
<1>2. At(x, p, d) \in Settings /\ At(x, p, d).v = x.v /\ At(x, p, d).p = p /\ At(x, p, d).d = d
  BY AtType DEF At, Settings
<1>3. Position(At(x, p, d)) = x.v * Cycle + p * OPA_TAP + d * DCHAIN_TAP
  BY <1>2, PositionType
<1>4. x.p \in Int /\ x.d \in Int /\ x.v \in Int
      /\ Position(x) = x.v * Cycle + x.p * OPA_TAP + x.d * DCHAIN_TAP
  BY PositionType, DqsAssumption
<1>5. (p - x.p) * OPA_TAP = p * OPA_TAP - x.p * OPA_TAP
      /\ (d - x.d) * DCHAIN_TAP = d * DCHAIN_TAP - x.d * DCHAIN_TAP
  BY <1>1, <1>4
<1>6. PICK k \in Int : Position(x) - b = w + k * Ring
  BY DEF Follows
<1>7. /\ x.v * Cycle \in Int /\ p * OPA_TAP \in Int /\ d * DCHAIN_TAP \in Int /\ b \in Int
      /\ x.p * OPA_TAP \in Int /\ x.d * DCHAIN_TAP \in Int /\ k * Ring \in Int
  BY <1>1, <1>4, Lengths
<1>8. Position(At(x, p, d)) - b
        = w + (p - x.p) * OPA_TAP + (d - x.d) * DCHAIN_TAP + k * Ring
  <2>1. Position(At(x, p, d)) = Position(x) + (p - x.p) * OPA_TAP + (d - x.d) * DCHAIN_TAP
        /\ Position(x) \in Int
    BY <1>3, <1>4, <1>5, <1>7
  <2>2. (p - x.p) * OPA_TAP \in Int /\ (d - x.d) * DCHAIN_TAP \in Int
    BY <1>5, <1>7
  <2> QED
    BY <1>6, <1>7, <2>1, <2>2
<1> QED
  BY <1>8 DEF Follows

\* ... a place of the FIFO a cycle, also over its end, ...
LEMMA FollowsIncr ==
  ASSUME NEW b \in Int, NEW x \in Settings, NEW w \in Int, Follows(b, x, w)
  PROVE  Follows(b, Incr(x), w + Cycle)
<1>1. PICK k \in Int : Position(x) - b = w + k * Ring
  BY DEF Follows
<1>2. /\ x.v \in 0 .. VFIFO_SIZE - 1 /\ x.p \in Int /\ x.d \in Int /\ VFIFO_SIZE \in Nat \ {0}
      /\ Position(x) = x.v * Cycle + x.p * OPA_TAP + x.d * DCHAIN_TAP
      /\ OPA_TAP \in Int /\ DCHAIN_TAP \in Int
  BY PositionType, DqsAssumption
<1>3. Incr(x).p = x.p /\ Incr(x).d = x.d /\ Incr(x).v = (x.v + 1) % VFIFO_SIZE
      /\ Incr(x) \in Settings
  BY IncrType DEF Incr, Settings
<1>4. Position(Incr(x)) = Incr(x).v * Cycle + x.p * OPA_TAP + x.d * DCHAIN_TAP
  BY <1>3, PositionType
<1>5. /\ x.v * Cycle \in Int /\ x.p * OPA_TAP \in Int /\ x.d * DCHAIN_TAP \in Int
      /\ b \in Int /\ k * Ring \in Int /\ (k - 1) * Ring = k * Ring - Ring
      /\ (x.v + 1) * Cycle = x.v * Cycle + Cycle
  BY <1>2, Lengths
<1>6. CASE x.v + 1 < VFIFO_SIZE
  <2>1. Incr(x).v = x.v + 1
    BY <1>2, <1>3, <1>6
  <2>2. Position(Incr(x)) = Position(x) + Cycle
    BY <1>2, <1>4, <1>5, <2>1, Lengths
  <2>3. Position(Incr(x)) - b = w + Cycle + k * Ring
    <3>1. Position(x) \in Int /\ Cycle \in Int
      BY PositionType, Lengths
    <3> QED
      BY <1>1, <1>5, <2>2, <3>1
  <2> QED
    BY <2>3 DEF Follows
<1>7. CASE x.v + 1 = VFIFO_SIZE
  <2>1. Incr(x).v = 0
    BY <1>2, <1>3, <1>7
  <2>2. x.v * Cycle + Cycle = Ring
    BY <1>5, <1>7, Lengths
  <2>3. Position(Incr(x)) = Position(x) + Cycle - Ring
    <3>1. Incr(x).v * Cycle = 0
      BY <2>1, Lengths
    <3>2. x.v * Cycle = Ring - Cycle
      BY <1>5, <2>2, Lengths
    <3>3. Position(Incr(x)) = x.p * OPA_TAP + x.d * DCHAIN_TAP
      BY <1>4, <1>5, <3>1
    <3>4. Position(x) = Ring - Cycle + x.p * OPA_TAP + x.d * DCHAIN_TAP
      BY <1>2, <3>2
    <3> QED
      BY <1>5, <3>3, <3>4, Lengths
  <2>4. Position(Incr(x)) - b = w + Cycle + (k - 1) * Ring
    BY <1>1, <1>5, <2>3, PositionType, Lengths
  <2>5. k - 1 \in Int
    OBVIOUS
  <2> QED
    BY <2>4, <2>5 DEF Follows
<1> QED
  BY <1>2, <1>6, <1>7

\* ... and so does the way back.
LEMMA FollowsDecr ==
  ASSUME NEW b \in Int, NEW x \in Settings, NEW w \in Int, Follows(b, x, w)
  PROVE  Follows(b, Decr(x), w - Cycle)
<1>1. PICK k \in Int : Position(x) - b = w + k * Ring
  BY DEF Follows
<1>2. /\ x.v \in 0 .. VFIFO_SIZE - 1 /\ x.p \in Int /\ x.d \in Int /\ VFIFO_SIZE \in Nat \ {0}
      /\ Position(x) = x.v * Cycle + x.p * OPA_TAP + x.d * DCHAIN_TAP
      /\ OPA_TAP \in Int /\ DCHAIN_TAP \in Int
  BY PositionType, DqsAssumption
<1>3. Decr(x).p = x.p /\ Decr(x).d = x.d /\ Decr(x).v = (x.v + VFIFO_SIZE - 1) % VFIFO_SIZE
      /\ Decr(x) \in Settings
  BY DecrType DEF Decr, Settings
<1>4. Position(Decr(x)) = Decr(x).v * Cycle + x.p * OPA_TAP + x.d * DCHAIN_TAP
  BY <1>3, PositionType
<1>5. /\ x.v * Cycle \in Int /\ x.p * OPA_TAP \in Int /\ x.d * DCHAIN_TAP \in Int
      /\ b \in Int /\ k * Ring \in Int /\ (k + 1) * Ring = k * Ring + Ring
      /\ (x.v - 1) * Cycle = x.v * Cycle - Cycle
      /\ (VFIFO_SIZE - 1) * Cycle = Ring - Cycle
  BY <1>2, Lengths
<1>6. CASE x.v >= 1
  <2>1. x.v - 1 \in 0 .. VFIFO_SIZE - 1 /\ x.v + VFIFO_SIZE - 1 = 1 * VFIFO_SIZE + (x.v - 1)
    BY <1>2, <1>6
  <2>2. (1 * VFIFO_SIZE + (x.v - 1)) % VFIFO_SIZE = x.v - 1
    <3> DEFINE r == x.v - 1
    <3>1. r \in 0 .. VFIFO_SIZE - 1
      BY <2>1
    <3> HIDE DEF r
    <3>2. (1 * VFIFO_SIZE + r) % VFIFO_SIZE = r
      BY <1>2, <3>1, ModUnique
    <3> QED
      BY <3>2 DEF r
  <2>3. Decr(x).v = x.v - 1
    BY <1>3, <2>1, <2>2
  <2>4. Position(Decr(x)) = Position(x) - Cycle
    BY <1>2, <1>4, <1>5, <2>3, Lengths
  <2>5. Position(Decr(x)) - b = w - Cycle + k * Ring
    BY <1>1, <1>5, <2>4, PositionType, Lengths
  <2> QED
    BY <2>5 DEF Follows
<1>7. CASE x.v = 0
  <2>1. Decr(x).v = VFIFO_SIZE - 1
    BY <1>2, <1>3, <1>7
  <2>2. Position(Decr(x)) = Position(x) + Ring - Cycle
    BY <1>2, <1>4, <1>5, <1>7, <2>1, Lengths
  <2>3. Position(Decr(x)) - b = w - Cycle + (k + 1) * Ring
    BY <1>1, <1>5, <2>2, PositionType, Lengths
  <2>4. k + 1 \in Int
    OBVIOUS
  <2> QED
    BY <2>3, <2>4 DEF Follows
<1> QED
  BY <1>2, <1>6, <1>7

\* A count that follows the setting has its offset, modulo the ring.
LEMMA FollowsOffset ==
  ASSUME Start \in Int, NEW x \in Settings, NEW w \in Int, Follows(Start, x, w)
  PROVE  Offset(x) = w % Ring
<1>1. PICK k \in Int : Position(x) - Start = w + k * Ring
  BY DEF Follows
<1> QED
  BY <1>1, ModTurns, Lengths DEF Offset, Start

----------------------------------------------------------------------------
(* The inductive invariant.  A count stays a natural number because it is    *)
(* ahead of what the next loop takes back from it, and the delay taps of a   *)
(* phase are positive because the edge lies behind the tap that failed.      *)

RoomLeft == at \in {"hunt", "begin", "centre"} => turns < VFIFO_SIZE

CountsAhead ==
  /\ at = "hunt"    => tmp = 0
  /\ at = "begin"   => work_bgn >= tmp + OPA_TAP /\ (s.d > 0 => tmp >= DCHAIN_TAP)
  /\ at = "backoff" => work_end >= OPA_TAP
  /\ at = "end"     => work_end >= 2 * OPA_TAP
  /\ at = "dtap"    => (s.d > 0 => work_end >= DCHAIN_TAP)

EdgeBehind ==
  /\ at = "pass" => edge <= s.d
  /\ at = "fail" => edge < s.d

IInv == TypeOK /\ s.p >= 1 /\ RoomLeft /\ CountsAhead /\ EdgeBehind /\ TrackingCounts

\* What the steps below need of the constants.
LEMMA Chains ==
  /\ VFIFO_SIZE \in Nat \ {0} /\ PHASE_MAX \in Nat /\ PHASE_MAX >= 3
  /\ DELAY_MAX \in Nat /\ OPA_TAP \in Nat \ {0} /\ DCHAIN_TAP \in Nat \ {0}
BY DqsAssumption

LEMMA InitIInv == Init => IInv
<1> SUFFICES ASSUME Init PROVE IInv
  OBVIOUS
<1>1. s \in Settings /\ s.p = 1 /\ s.d = 0
  BY DEF Init
<1>2. dtaps = DtapsPerPtap /\ DtapsPerPtap \in 0 .. DELAY_MAX
  BY TapsType DEF Init
<1>3. TypeOK
  BY <1>1, <1>2, Chains DEF Init, TypeOK, Stages
<1> QED
  BY <1>1, <1>2, <1>3, Chains
     DEF Init, IInv, RoomLeft, CountsAhead, EdgeBehind, TrackingCounts

\* The start of step 4a, whichever phase it is from.
LEMMA EndFromType ==
  ASSUME s \in Settings, NEW p \in 1 .. PHASE_MAX + 2, NEW end \in Nat,
         end >= 2 * OPA_TAP, EndFrom(s, p, end)
  PROVE  /\ s' \in Settings /\ s'.p >= 1 /\ s'.d = 0
         /\ work_end' \in Nat /\ work_end' >= 2 * OPA_TAP /\ fresh' \in BOOLEAN
<1>1. CASE p > PHASE_MAX
  <2>1. Incr(s) \in Settings
    BY IncrType
  <2>2. 1 \in 0 .. PHASE_MAX /\ 0 \in 0 .. DELAY_MAX
    BY Chains
  <2>3. s' = At(Incr(s), 1, 0) /\ work_end' = end + OPA_TAP /\ fresh' = FALSE
    BY <1>1 DEF EndFrom
  <2>4. s' \in Settings /\ s'.p = 1 /\ s'.d = 0
    BY <2>1, <2>2, <2>3, AtType
  <2>5. work_end' \in Nat /\ work_end' >= 2 * OPA_TAP
    BY <2>3, Chains
  <2>6. fresh' \in BOOLEAN
    BY <2>3
  <2>7. s'.p >= 1
    BY <2>4
  <2> QED
    BY <2>4, <2>5, <2>6, <2>7
<1>2. CASE ~(p > PHASE_MAX)
  <2>1. p \in 0 .. PHASE_MAX /\ 0 \in 0 .. DELAY_MAX
    BY <1>2, Chains
  <2>2. s' = At(s, p, 0) /\ work_end' = end /\ fresh' = TRUE
    BY <1>2 DEF EndFrom
  <2>3. s' \in Settings /\ s'.p = p /\ s'.d = 0
    BY <2>1, <2>2, AtType
  <2>4. p >= 1
    BY Chains
  <2> QED
    BY <2>2, <2>3, <2>4
<1> QED
  BY <1>1, <1>2

\* Going to the centre keeps the invariant, whatever window it is of.
LEMMA CentreKeeps ==
  ASSUME IInv, NEW x \in Settings, NEW end \in Nat, NEW n \in 0 .. DELAY_MAX,
         n = DtapsPerPtap \/ n > 0,
         Centre(x, work_bgn, end, n), work_end' \in Nat, edge' \in 0 .. DELAY_MAX + 1,
         UNCHANGED <<eye, fails, tmp, work_bgn, fresh, base>>
  PROVE  IInv'
<1> DEFINE c == Centred(work_bgn, end)
<1>1. c.p \in 1 .. PHASE_MAX /\ c.d \in 0 .. DELAY_MAX
  BY CentredType DEF IInv, TypeOK
<1>2. s' = At(x, c.p, c.d) /\ at' = "centre" /\ turns' = 0 /\ dtaps' = n
  BY DEF Centre
<1> HIDE DEF c
<1>3. s' \in Settings /\ s'.p >= 1
  <2>1. c.p \in 0 .. PHASE_MAX /\ c.p >= 1
    BY <1>1, Chains
  <2>2. s' \in Settings /\ s'.p = c.p
    BY <1>1, <1>2, <2>1, AtType
  <2> QED
    BY <2>1, <2>2
<1>4. TypeOK'
  BY <1>2, <1>3, Chains DEF IInv, TypeOK, Stages
<1> QED
  BY <1>2, <1>3, <1>4, Chains
     DEF IInv, RoomLeft, CountsAhead, EdgeBehind, TrackingCounts

\* A step that keeps the count for tracking keeps the invariant when it keeps
\* these of its parts.
LEMMA PartsKeep ==
  ASSUME IInv, s' \in Settings, s'.p >= 1, at' \in Stages, turns' \in 0 .. VFIFO_SIZE,
         fails' \in 0 .. 2, tmp' \in Nat, work_bgn' \in Nat, work_end' \in Nat,
         edge' \in 0 .. DELAY_MAX + 1, fresh' \in BOOLEAN, base' \in 0 .. VFIFO_SIZE - 1,
         UNCHANGED <<eye, dtaps>>,
         RoomLeft', CountsAhead', EdgeBehind'
  PROVE  IInv'
BY DEF IInv, TypeOK, TrackingCounts

----------------------------------------------------------------------------
(* One lemma per action.                                                    *)


\* The settings the actions go to from one that is typed.
LEMMA Moves ==
  ASSUME IInv
  PROVE  /\ s \in Settings /\ s.v \in 0 .. VFIFO_SIZE - 1
         /\ s.p \in 1 .. PHASE_MAX /\ s.d \in 0 .. DELAY_MAX
         /\ Incr(s) \in Settings /\ Incr(s).p = s.p /\ Incr(s).d = s.d
         /\ \A p \in 1 .. PHASE_MAX, d \in 0 .. DELAY_MAX :
              /\ At(s, p, d) \in Settings /\ At(s, p, d).p = p /\ At(s, p, d).d = d
              /\ Incr(At(s, p, d)) \in Settings
              /\ Incr(At(s, p, d)).p = p /\ Incr(At(s, p, d)).d = d
<1>1. s \in Settings /\ s.p >= 1
  BY DEF IInv, TypeOK
<1>2. s.p \in 1 .. PHASE_MAX /\ s.d \in 0 .. DELAY_MAX /\ s.v \in 0 .. VFIFO_SIZE - 1
  BY <1>1, Chains DEF Settings
<1>3. ASSUME NEW p \in 1 .. PHASE_MAX, NEW d \in 0 .. DELAY_MAX
      PROVE  /\ At(s, p, d) \in Settings /\ At(s, p, d).p = p /\ At(s, p, d).d = d
             /\ Incr(At(s, p, d)) \in Settings
             /\ Incr(At(s, p, d)).p = p /\ Incr(At(s, p, d)).d = d
  <2>1. p \in 0 .. PHASE_MAX
    BY Chains
  <2> QED
    BY <1>1, <2>1, AtType, IncrType
<1> QED
  BY <1>1, <1>2, <1>3, IncrType

LEMMA HuntKeeps == IInv /\ Hunt => IInv'
<1> SUFFICES ASSUME IInv, Hunt PROVE IInv'
  OBVIOUS
<1> USE Chains
<1>1. PICK ok \in BOOLEAN :
        \/ /\ ~ok /\ fails = 1
           /\ at' = "begin" /\ s' = At(s, 1, 0) /\ base' = s.v
           /\ turns' = 0 /\ fails' = 2 /\ work_bgn' = OPA_TAP
           /\ UNCHANGED <<tmp, work_end, edge, fresh, dtaps>>
        \/ /\ ok \/ fails = 0
           /\ s' = Incr(s) /\ UNCHANGED base
           /\ \/ /\ turns + 1 < VFIFO_SIZE /\ turns' = turns + 1
                 /\ fails' = IF ok THEN fails ELSE fails + 1
                 /\ UNCHANGED <<at, tmp, work_bgn, work_end, edge, fresh, dtaps>>
              \/ turns + 1 = VFIFO_SIZE /\ Stop("none")
  BY DEF Hunt
<1>2. UNCHANGED eye /\ at = "hunt"
  BY DEF Hunt
<1>3. CASE /\ ~ok /\ fails = 1
           /\ at' = "begin" /\ s' = At(s, 1, 0) /\ base' = s.v
           /\ turns' = 0 /\ fails' = 2 /\ work_bgn' = OPA_TAP
           /\ UNCHANGED <<tmp, work_end, edge, fresh, dtaps>>
  <2>1. s' \in Settings /\ s'.p = 1 /\ s'.d = 0
    BY <1>3, Moves
  <2>2. RoomLeft' /\ CountsAhead' /\ EdgeBehind'
    BY <1>2, <1>3, <2>1 DEF IInv, RoomLeft, CountsAhead, EdgeBehind
  <2> QED
    BY <1>2, <1>3, <2>1, <2>2, Moves, PartsKeep DEF IInv, TypeOK, Stages
<1>4. CASE /\ ok \/ fails = 0
           /\ s' = Incr(s) /\ UNCHANGED base
           /\ turns + 1 < VFIFO_SIZE /\ turns' = turns + 1
           /\ fails' = IF ok THEN fails ELSE fails + 1
           /\ UNCHANGED <<at, tmp, work_bgn, work_end, edge, fresh, dtaps>>
  <2>1. s' \in Settings /\ s'.p = s.p
    BY <1>4, Moves
  <2>2. RoomLeft' /\ CountsAhead' /\ EdgeBehind'
    BY <1>2, <1>4 DEF IInv, RoomLeft, CountsAhead, EdgeBehind
  <2>3. fails' \in 0 .. 2 /\ turns' \in 0 .. VFIFO_SIZE
    BY <1>4 DEF IInv, TypeOK
  <2> QED
    BY <1>2, <1>4, <2>1, <2>2, <2>3, Moves, PartsKeep DEF IInv, TypeOK, Stages
<1>5. CASE s' = Incr(s) /\ UNCHANGED base /\ Stop("none")
  <2>1. RoomLeft' /\ CountsAhead' /\ EdgeBehind'
    BY <1>5 DEF RoomLeft, CountsAhead, EdgeBehind, Stop
  <2> QED
    BY <1>2, <1>5, <2>1, Moves, PartsKeep DEF IInv, TypeOK, Stages, Stop
<1> QED
  BY <1>1, <1>3, <1>4, <1>5

LEMMA BackOffKeeps ==
  ASSUME IInv, at = "begin", BackOff,
         UNCHANGED <<eye, turns, fails, work_bgn, edge, dtaps, base>>
  PROVE  IInv'
<1> USE Chains
<1>1. work_bgn \in Nat /\ work_bgn >= OPA_TAP
  BY DEF IInv, TypeOK, CountsAhead
<1>2. CASE s.p = 1
  <2>1. at' = "end" /\ tmp' = tmp /\ EndFrom(s, 3, work_bgn + OPA_TAP)
    BY <1>2 DEF BackOff
  <2>2. /\ s' \in Settings /\ s'.p >= 1
        /\ work_end' \in Nat /\ work_end' >= 2 * OPA_TAP /\ fresh' \in BOOLEAN
    <3>1. 3 \in 1 .. PHASE_MAX + 2 /\ work_bgn + OPA_TAP \in Nat
          /\ work_bgn + OPA_TAP >= 2 * OPA_TAP
      BY <1>1
    <3> QED
      BY <2>1, <3>1, Moves, EndFromType
  <2>3. RoomLeft' /\ CountsAhead' /\ EdgeBehind'
    BY <2>1, <2>2 DEF RoomLeft, CountsAhead, EdgeBehind
  <2> QED
    BY <2>1, <2>2, <2>3, PartsKeep DEF IInv, TypeOK, Stages
<1>3. CASE s.p # 1
  <2>1. at' = "backoff" /\ tmp' = work_bgn - OPA_TAP /\ work_end' = work_bgn /\ fresh' = fresh
        /\ s' = At(s, s.p - 1, 0)
    BY <1>3 DEF BackOff
  <2>2. s' \in Settings /\ s'.p >= 1
    BY <1>3, <2>1, Moves
  <2>3. RoomLeft' /\ CountsAhead' /\ EdgeBehind'
    BY <1>1, <2>1 DEF RoomLeft, CountsAhead, EdgeBehind
  <2> QED
    BY <1>1, <2>1, <2>2, <2>3, PartsKeep DEF IInv, TypeOK, Stages
<1> QED
  BY <1>2, <1>3

LEMMA FindBeginKeeps == IInv /\ FindBegin => IInv'
<1> SUFFICES ASSUME IInv, FindBegin PROVE IInv'
  OBVIOUS
<1> USE Chains
<1>1. at = "begin" /\ UNCHANGED <<eye, base>>
  BY DEF FindBegin
<1>2. /\ turns \in Nat /\ turns < VFIFO_SIZE /\ tmp \in Nat /\ work_bgn \in Nat
      /\ work_bgn >= tmp + OPA_TAP /\ (s.d > 0 => tmp >= DCHAIN_TAP)
      /\ s.p \in 1 .. PHASE_MAX /\ s.d \in 0 .. DELAY_MAX /\ s \in Settings
  BY <1>1, Moves DEF IInv, TypeOK, RoomLeft, CountsAhead
<1>3. CASE s.d = 0 /\ BackOff /\ UNCHANGED <<turns, fails, work_bgn, edge, dtaps>>
  BY <1>1, <1>3, BackOffKeeps
<1>4. CASE /\ s.d > 0 /\ at' = "dtap" /\ work_end' = work_bgn
           /\ UNCHANGED <<s, turns, fails, tmp, work_bgn, edge, fresh, dtaps>>
  <2>1. RoomLeft' /\ CountsAhead' /\ EdgeBehind'
    BY <1>2, <1>4 DEF RoomLeft, CountsAhead, EdgeBehind
  <2> QED
    BY <1>1, <1>2, <1>4, <2>1, PartsKeep DEF IInv, TypeOK, Stages
<1>5. CASE /\ s.p < PHASE_MAX /\ s' = At(s, s.p + 1, s.d)
           /\ work_bgn' = work_bgn + OPA_TAP
           /\ UNCHANGED <<at, turns, fails, tmp, work_end, edge, fresh, dtaps>>
  <2>1. s' \in Settings /\ s'.p >= 1 /\ s'.d = s.d
    BY <1>2, <1>5, Moves
  <2>2. RoomLeft' /\ CountsAhead' /\ EdgeBehind'
    BY <1>1, <1>2, <1>5, <2>1 DEF RoomLeft, CountsAhead, EdgeBehind
  <2> QED
    BY <1>1, <1>2, <1>5, <2>1, <2>2, PartsKeep DEF IInv, TypeOK, Stages
<1>6. CASE /\ turns + 1 < VFIFO_SIZE /\ s' = Incr(At(s, 1, s.d)) /\ turns' = turns + 1
           /\ work_bgn' = work_bgn + 2 * OPA_TAP
           /\ UNCHANGED <<at, fails, tmp, work_end, edge, fresh, dtaps>>
  <2>1. s' \in Settings /\ s'.p >= 1 /\ s'.d = s.d
    BY <1>2, <1>6, Moves
  <2>2. RoomLeft' /\ CountsAhead' /\ EdgeBehind'
    BY <1>1, <1>2, <1>6, <2>1 DEF RoomLeft, CountsAhead, EdgeBehind
  <2> QED
    BY <1>1, <1>2, <1>6, <2>1, <2>2, PartsKeep DEF IInv, TypeOK, Stages
<1>7. CASE /\ s.d < DtapsPerPtap /\ s' = Incr(At(s, 1, s.d + 1)) /\ turns' = 0
           /\ tmp' = tmp + DCHAIN_TAP /\ work_bgn' = tmp + DCHAIN_TAP + OPA_TAP
           /\ UNCHANGED <<at, fails, work_end, edge, fresh, dtaps>>
  <2>1. s.d + 1 \in 0 .. DELAY_MAX
    BY <1>2, <1>7, TapsType
  <2>2. s' \in Settings /\ s'.p >= 1
    BY <1>2, <1>7, <2>1, Moves
  <2>3. RoomLeft' /\ CountsAhead' /\ EdgeBehind'
    BY <1>1, <1>2, <1>7 DEF RoomLeft, CountsAhead, EdgeBehind
  <2> QED
    BY <1>1, <1>2, <1>7, <2>2, <2>3, PartsKeep DEF IInv, TypeOK, Stages
<1>8. CASE s' = Incr(s) /\ Stop("none")
  <2>1. RoomLeft' /\ CountsAhead' /\ EdgeBehind'
    BY <1>8 DEF RoomLeft, CountsAhead, EdgeBehind, Stop
  <2> QED
    BY <1>1, <1>8, <2>1, Moves, PartsKeep DEF IInv, TypeOK, Stages, Stop
<1> QED
  BY <1>3, <1>4, <1>5, <1>6, <1>7, <1>8 DEF FindBegin

LEMMA BackoffStepKeeps == IInv /\ BackoffStep => IInv'
<1> SUFFICES ASSUME IInv, BackoffStep PROVE IInv'
  OBVIOUS
<1> USE Chains
<1>1. at = "backoff" /\ UNCHANGED <<eye, turns, fails, edge, dtaps, base>>
  BY DEF BackoffStep
<1>2. /\ tmp \in Nat /\ work_bgn \in Nat /\ work_end \in Nat /\ work_end >= OPA_TAP
      /\ s.p \in 1 .. PHASE_MAX /\ s.d \in 0 .. DELAY_MAX /\ s \in Settings
  BY <1>1, Moves DEF IInv, TypeOK, CountsAhead
<1>3. CASE /\ at' = "end" /\ (work_bgn' = tmp \/ work_bgn' = work_bgn)
           /\ EndFrom(s, s.p + 2, work_end + OPA_TAP) /\ UNCHANGED tmp
  <2>1. s.p + 2 \in 1 .. PHASE_MAX + 2 /\ work_end + OPA_TAP \in Nat
        /\ work_end + OPA_TAP >= 2 * OPA_TAP
    BY <1>2
  <2>2. /\ s' \in Settings /\ s'.p >= 1
        /\ work_end' \in Nat /\ work_end' >= 2 * OPA_TAP /\ fresh' \in BOOLEAN
    BY <1>2, <1>3, <2>1, EndFromType
  <2>3. RoomLeft' /\ CountsAhead' /\ EdgeBehind'
    BY <1>3, <2>2 DEF RoomLeft, CountsAhead, EdgeBehind
  <2> QED
    BY <1>1, <1>2, <1>3, <2>2, <2>3, PartsKeep DEF IInv, TypeOK, Stages
<1>4. CASE /\ s.d # DELAY_MAX /\ s' = At(s, s.p, s.d + 1) /\ tmp' = tmp + DCHAIN_TAP
           /\ UNCHANGED <<at, work_bgn, work_end, fresh>>
  <2>1. s' \in Settings /\ s'.p >= 1
    BY <1>2, <1>4, Moves
  <2>2. RoomLeft' /\ CountsAhead' /\ EdgeBehind'
    BY <1>1, <1>2, <1>4 DEF RoomLeft, CountsAhead, EdgeBehind
  <2> QED
    BY <1>1, <1>2, <1>4, <2>1, <2>2, PartsKeep DEF IInv, TypeOK, Stages
<1> QED
  BY <1>3, <1>4 DEF BackoffStep

LEMMA FindEndKeeps == IInv /\ FindEnd => IInv'
<1> SUFFICES ASSUME IInv, FindEnd PROVE IInv'
  OBVIOUS
<1> USE Chains
<1>1. at = "end" /\ UNCHANGED <<eye, fails, tmp, edge, dtaps, base>>
  BY DEF FindEnd
<1>2. /\ work_bgn \in Nat /\ work_end \in Nat /\ work_end >= 2 * OPA_TAP
      /\ turns \in 0 .. VFIFO_SIZE
      /\ s.p \in 1 .. PHASE_MAX /\ s.d \in 0 .. DELAY_MAX /\ s \in Settings
  BY <1>1, Moves DEF IInv, TypeOK, CountsAhead
<1>3. CASE /\ at' = "dtap"
           /\ s' = IF s.p = 1 THEN At(Decr(s), PHASE_MAX, 0) ELSE At(s, s.p - 1, 0)
           /\ work_end' = work_end - (IF s.p = 1 THEN 2 ELSE 1) * OPA_TAP
           /\ UNCHANGED <<turns, work_bgn, fresh>>
  <2>1. s' = BackPhase(s, 0) /\ 0 \in 0 .. DELAY_MAX
    BY <1>3 DEF BackPhase
  <2>2. s' \in Settings /\ s'.p >= 1 /\ s'.d = 0
    BY <1>2, <2>1, BackPhaseType
  <2>3. work_end' \in Nat
    BY <1>2, <1>3
  <2>4. RoomLeft' /\ CountsAhead' /\ EdgeBehind'
    BY <1>3, <2>2 DEF RoomLeft, CountsAhead, EdgeBehind
  <2> QED
    BY <1>1, <1>3, <2>2, <2>3, <2>4, PartsKeep DEF IInv, TypeOK, Stages
<1>4. ASSUME work_bgn' = work_bgn \/ work_bgn' = work_end, fresh' = FALSE,
             \/ /\ s.p < PHASE_MAX /\ s' = At(s, s.p + 1, 0)
                /\ work_end' = work_end + OPA_TAP /\ UNCHANGED <<at, turns>>
             \/ /\ turns < VFIFO_SIZE /\ s' = Incr(At(s, 1, 0)) /\ turns' = turns + 1
                /\ work_end' = work_end + 2 * OPA_TAP /\ UNCHANGED at
             \/ /\ s' = Incr(s) /\ at' = "none" /\ UNCHANGED <<turns, work_end>>
      PROVE  IInv'
  <2>1. s' \in Settings /\ s'.p >= 1
    BY <1>2, <1>4, Moves
  <2>2. /\ turns' \in 0 .. VFIFO_SIZE /\ work_end' \in Nat /\ work_end' >= 2 * OPA_TAP
        /\ at' \in {"end", "none"}
    BY <1>1, <1>2, <1>4
  <2>3. RoomLeft' /\ CountsAhead' /\ EdgeBehind'
    BY <2>2 DEF RoomLeft, CountsAhead, EdgeBehind
  <2> QED
    BY <1>1, <1>2, <1>4, <2>1, <2>2, <2>3, PartsKeep DEF IInv, TypeOK, Stages
<1> QED
  BY <1>3, <1>4 DEF FindEnd

LEMMA FindEdgeKeeps == IInv /\ FindEdge => IInv'
<1> SUFFICES ASSUME IInv, FindEdge PROVE IInv'
  OBVIOUS
<1> USE Chains
<1>1. at = "dtap" /\ UNCHANGED <<eye, fails, tmp, work_bgn, fresh, base>>
  BY DEF FindEdge
<1>2. /\ work_end \in Nat /\ (s.d > 0 => work_end >= DCHAIN_TAP)
      /\ s.p \in 1 .. PHASE_MAX /\ s.d \in 0 .. DELAY_MAX /\ s \in Settings
  BY <1>1, Moves DEF IInv, TypeOK, CountsAhead
<1>3. dtaps \in 0 .. DELAY_MAX /\ (dtaps = DtapsPerPtap \/ dtaps > 0)
  BY DEF IInv, TypeOK, TrackingCounts
<1>4. BackPhase(s, s.d) \in Settings /\ BackPhase(s, s.d).p >= 1 /\ BackPhase(s, s.d).d = s.d
  <2>1. s.p >= 1
    BY <1>2
  <2> QED
    BY <1>2, <2>1, BackPhaseType
<1>5. CASE /\ s.d < DELAY_MAX /\ s' = At(s, s.p, s.d + 1)
           /\ work_end' = work_end + DCHAIN_TAP
           /\ UNCHANGED <<at, turns, edge, dtaps>>
  <2>1. s' \in Settings /\ s'.p >= 1
    BY <1>2, <1>5, Moves
  <2>2. RoomLeft' /\ CountsAhead' /\ EdgeBehind'
    BY <1>1, <1>2, <1>5 DEF RoomLeft, CountsAhead, EdgeBehind
  <2> QED
    BY <1>1, <1>2, <1>5, <2>1, <2>2, PartsKeep DEF IInv, TypeOK, Stages
<1>6. CASE /\ work_end' = work_end /\ edge' = DELAY_MAX + 1
           /\ Centre(BackPhase(s, s.d), work_bgn, work_end, dtaps)
  BY <1>1, <1>2, <1>3, <1>4, <1>6, CentreKeeps
<1>7. CASE /\ work_end' = work_end /\ edge' = DELAY_MAX + 1
           /\ at' = "none" /\ UNCHANGED <<s, turns, dtaps>>
  <2>1. RoomLeft' /\ CountsAhead' /\ EdgeBehind'
    BY <1>7 DEF RoomLeft, CountsAhead, EdgeBehind
  <2> QED
    BY <1>1, <1>2, <1>7, <2>1, PartsKeep DEF IInv, TypeOK, Stages
<1>8. ASSUME work_end' = IF s.d = 0 THEN work_end ELSE work_end - DCHAIN_TAP,
             edge' = s.d, UNCHANGED <<turns, dtaps>>,
             \/ at' = "pass" /\ s' = BackPhase(s, s.d)
             \/ at' = "none" /\ s' = s
      PROVE  IInv'
  <2>1. s' \in Settings /\ s'.p >= 1 /\ s'.d = s.d
    BY <1>2, <1>4, <1>8
  <2>2. work_end' \in Nat
    BY <1>2, <1>8
  <2>3. RoomLeft' /\ CountsAhead' /\ EdgeBehind'
    BY <1>2, <1>8, <2>1 DEF RoomLeft, CountsAhead, EdgeBehind
  <2> QED
    BY <1>1, <1>2, <1>8, <2>1, <2>2, <2>3, PartsKeep DEF IInv, TypeOK, Stages
<1> QED
  BY <1>5, <1>6, <1>7, <1>8 DEF FindEdge

LEMMA TrackPassKeeps == IInv /\ TrackPass => IInv'
<1> SUFFICES ASSUME IInv, TrackPass PROVE IInv'
  OBVIOUS
<1> USE Chains
<1>1. at = "pass" /\ UNCHANGED <<eye, fails, tmp, work_bgn, work_end, edge, fresh, base>>
  BY DEF TrackPass
<1>2. /\ edge \in Nat /\ edge <= s.d
      /\ s.p \in 1 .. PHASE_MAX /\ s.d \in 0 .. DELAY_MAX /\ s \in Settings
  BY <1>1, Moves DEF IInv, TypeOK, EdgeBehind
<1>3. CASE /\ s.d < DELAY_MAX /\ at' \in {"fail", "pass"} /\ s' = At(s, s.p, s.d + 1)
           /\ UNCHANGED <<turns, dtaps>>
  <2>1. s' \in Settings /\ s'.p >= 1 /\ s'.d = s.d + 1
    BY <1>2, <1>3, Moves
  <2>2. RoomLeft' /\ CountsAhead' /\ EdgeBehind'
    BY <1>1, <1>2, <1>3, <2>1 DEF RoomLeft, CountsAhead, EdgeBehind
  <2> QED
    BY <1>1, <1>2, <1>3, <2>1, <2>2, PartsKeep DEF IInv, TypeOK, Stages
<1>4. CASE Centre(s, work_bgn, work_end, dtaps)
  <2>1. dtaps \in 0 .. DELAY_MAX /\ (dtaps = DtapsPerPtap \/ dtaps > 0)
        /\ work_end \in Nat /\ edge' \in 0 .. DELAY_MAX + 1
    BY <1>1 DEF IInv, TypeOK, TrackingCounts
  <2> QED
    BY <1>1, <1>2, <1>4, <2>1, CentreKeeps
<1> QED
  BY <1>1, <1>3, <1>4 DEF TrackPass

LEMMA TrackFailKeeps == IInv /\ TrackFail => IInv'
<1> SUFFICES ASSUME IInv, TrackFail PROVE IInv'
  OBVIOUS
<1> USE Chains
<1>1. at = "fail" /\ UNCHANGED <<eye, fails, tmp, work_bgn, work_end, edge, fresh, base>>
  BY DEF TrackFail
<1>2. /\ edge \in Nat /\ edge < s.d
      /\ s.p \in 1 .. PHASE_MAX /\ s.d \in 0 .. DELAY_MAX /\ s \in Settings
  BY <1>1, Moves DEF IInv, TypeOK, EdgeBehind
<1>3. CASE s.d < DELAY_MAX /\ s' = At(s, s.p, s.d + 1) /\ UNCHANGED <<at, turns, dtaps>>
  <2>1. s' \in Settings /\ s'.p >= 1 /\ s'.d = s.d + 1
    BY <1>2, <1>3, Moves
  <2>2. RoomLeft' /\ CountsAhead' /\ EdgeBehind'
    BY <1>1, <1>2, <1>3, <2>1 DEF RoomLeft, CountsAhead, EdgeBehind
  <2> QED
    BY <1>1, <1>2, <1>3, <2>1, <2>2, PartsKeep DEF IInv, TypeOK, Stages
<1>4. ASSUME NEW n \in {dtaps, s.d - edge}, Centre(s, work_bgn, work_end, n)
      PROVE  IInv'
  <2>1. n \in 0 .. DELAY_MAX /\ (n = DtapsPerPtap \/ n > 0)
    BY <1>2, <1>4 DEF IInv, TypeOK, TrackingCounts
  <2>2. work_end \in Nat /\ work_end' \in Nat /\ edge' \in 0 .. DELAY_MAX + 1
    BY <1>1 DEF IInv, TypeOK
  <2> QED
    BY <1>1, <1>2, <1>4, <2>1, <2>2, CentreKeeps
<1> QED
  BY <1>3, <1>4 DEF TrackFail

LEMMA FindCentreKeeps == IInv /\ FindCentre => IInv'
<1> SUFFICES ASSUME IInv, FindCentre PROVE IInv'
  OBVIOUS
<1> USE Chains
<1>1. at = "centre" /\ UNCHANGED <<eye, fails, tmp, work_bgn, work_end, edge, fresh, dtaps, base>>
  BY DEF FindCentre
<1>2. turns \in Nat /\ turns < VFIFO_SIZE
  BY <1>1 DEF IInv, TypeOK, RoomLeft
<1>3. CASE at' = "found" /\ UNCHANGED <<s, turns>>
  <2>1. RoomLeft' /\ CountsAhead' /\ EdgeBehind'
    BY <1>3 DEF RoomLeft, CountsAhead, EdgeBehind
  <2> QED
    BY <1>1, <1>3, <2>1, PartsKeep DEF IInv, TypeOK, Stages
<1>4. CASE /\ s' = Incr(s) /\ turns' = turns + 1
           /\ at' = IF turns + 1 = VFIFO_SIZE THEN "none" ELSE at
  <2>1. RoomLeft' /\ CountsAhead' /\ EdgeBehind'
    BY <1>1, <1>2, <1>4 DEF RoomLeft, CountsAhead, EdgeBehind
  <2>2. s' \in Settings /\ s'.p >= 1 /\ turns' \in 0 .. VFIFO_SIZE /\ at' \in {"none", "centre"}
    BY <1>1, <1>2, <1>4, Moves
  <2> QED
    BY <1>1, <2>1, <2>2, PartsKeep DEF IInv, TypeOK, Stages
<1> QED
  BY <1>3, <1>4 DEF FindCentre

----------------------------------------------------------------------------
\* The invariant is kept by every step of the search.
LEMMA NextKeeps == IInv /\ [Next]_vars => IInv'
<1> SUFFICES ASSUME IInv, [Next]_vars PROVE IInv'
  OBVIOUS
<1>1. CASE UNCHANGED vars
  BY <1>1 DEF vars, IInv, TypeOK, RoomLeft, CountsAhead, EdgeBehind, TrackingCounts
<1> QED
  BY <1>1, HuntKeeps, FindBeginKeeps, BackoffStepKeeps, FindEndKeeps, FindEdgeKeeps,
     TrackPassKeeps, TrackFailKeeps, FindCentreKeeps DEF Next

\* The inductive invariant of rw_mgr_mem_calibrate_vfifo_find_dqs_en_phase.
THEOREM Inductive == Spec => []IInv
BY InitIInv, NextKeeps, PTL DEF Spec

\* The search keeps its types: every setting it programs is a place of the
\* FIFO, a phase tap and a delay tap the hardware has, and none of its
\* picosecond counts goes below zero, whatever the memory answers.
THEOREM TypeCorrect == Spec => []TypeOK
<1>1. IInv => TypeOK
  BY DEF IInv
<1> QED
  BY <1>1, Inductive, PTL

\* No read test is issued at phase tap 0, whatever the memory answers: the
\* skips of the loops, the backing off over a FIFO place and the centre all
\* avoid the phase a hard PHY cannot be set to.
THEOREM PhaseZeroIsNeverSet == Spec => []PhaseZeroNeverSet
<1>1. IInv => PhaseZeroNeverSet
  BY DEF IInv, TypeOK, Settings, PhaseZeroNeverSet
<1> QED
  BY <1>1, Inductive, PTL

\* The delay taps of a phase handed to tracking are positive when they were
\* measured, whatever the memory answers: dtaps_per_ptap never goes to zero
\* or below in d - initial_failing_dtap.
THEOREM TrackingAlwaysCounts == Spec => []TrackingCounts
<1>1. IInv => TrackingCounts
  BY DEF IInv
<1> QED
  BY <1>1, Inductive, PTL

----------------------------------------------------------------------------
(* The counts follow the setting.  CountsFollowSetting says where a count is *)
(* while its loop runs; that the next loop starts from the right count needs *)
(* how far the sweep of step 2 is, which phase the backing off came from,    *)
(* and by how much the end lags when the beginning was at phase 1.           *)

Lags ==
  /\ Follows(Start, s, work_end + OPA_TAP)
  /\ work_bgn % Cycle \in {OPA_TAP, 2 * OPA_TAP}
  /\ at = "end" /\ fresh => work_end = work_bgn + OPA_TAP /\ work_bgn % Cycle = OPA_TAP

CountInv ==
  /\ at = "begin" =>
       /\ tmp = s.d * DCHAIN_TAP
       /\ work_bgn = tmp + turns * Cycle + s.p * OPA_TAP
       /\ Follows(Start, s, work_bgn)
  /\ at = "backoff" =>
       /\ s.p < PHASE_MAX
       /\ Follows(Start, s, tmp)
       /\ Follows(Start, At(s, s.p + 1, 0), work_end)
  /\ at = "end" => s.d = 0
  /\ at \in {"end", "dtap"} => Follows(Start, s, work_end) \/ Lags

\* The next phase tap, ...
LEMMA FollowsNextPhase ==
  ASSUME NEW b \in Int, NEW x \in Settings, NEW w \in Int, Follows(b, x, w), x.p < PHASE_MAX
  PROVE  Follows(b, At(x, x.p + 1, x.d), w + OPA_TAP)
<1>1. x.p + 1 \in 0 .. PHASE_MAX /\ x.d \in 0 .. DELAY_MAX /\ x.p \in Int /\ x.d \in Int
      /\ OPA_TAP \in Int /\ DCHAIN_TAP \in Int
  BY DqsAssumption DEF Settings
<1>2. Follows(b, At(x, x.p + 1, x.d),
              w + (x.p + 1 - x.p) * OPA_TAP + (x.d - x.d) * DCHAIN_TAP)
  BY <1>1, FollowsAt
<1>3. w + (x.p + 1 - x.p) * OPA_TAP + (x.d - x.d) * DCHAIN_TAP = w + OPA_TAP
  BY <1>1
<1> QED
  BY <1>2, <1>3

\* ... the next delay tap, ...
LEMMA FollowsNextDelay ==
  ASSUME NEW b \in Int, NEW x \in Settings, NEW w \in Int, Follows(b, x, w), x.d < DELAY_MAX
  PROVE  Follows(b, At(x, x.p, x.d + 1), w + DCHAIN_TAP)
<1>1. x.d + 1 \in 0 .. DELAY_MAX /\ x.p \in 0 .. PHASE_MAX /\ x.p \in Int /\ x.d \in Int
      /\ OPA_TAP \in Int /\ DCHAIN_TAP \in Int
  BY DqsAssumption DEF Settings
<1>2. Follows(b, At(x, x.p, x.d + 1),
              w + (x.p - x.p) * OPA_TAP + (x.d + 1 - x.d) * DCHAIN_TAP)
  BY <1>1, FollowsAt
<1>3. w + (x.p - x.p) * OPA_TAP + (x.d + 1 - x.d) * DCHAIN_TAP = w + DCHAIN_TAP
  BY <1>1
<1> QED
  BY <1>2, <1>3

\* ... and over a FIFO place, phase 0 being skipped, in both directions.
LEMMA FollowsOver ==
  ASSUME NEW b \in Int, NEW x \in Settings, NEW w \in Int, Follows(b, x, w),
         x.p = PHASE_MAX, NEW d \in 0 .. DELAY_MAX
  PROVE  Follows(b, Incr(At(x, 1, d)), w + 2 * OPA_TAP + (d - x.d) * DCHAIN_TAP)
<1>1. 1 \in 0 .. PHASE_MAX /\ PHASE_MAX \in Int /\ x.d \in Int /\ d \in Int
      /\ OPA_TAP \in Int /\ DCHAIN_TAP \in Int
  BY DqsAssumption DEF Settings
<1> DEFINE w1 == w + (1 - PHASE_MAX) * OPA_TAP + (d - x.d) * DCHAIN_TAP
<1>2. w1 \in Int
  BY <1>1
<1>3. Follows(b, At(x, 1, d), w1) /\ At(x, 1, d) \in Settings
  BY <1>1, FollowsAt, AtType
<1>4. w1 + Cycle = w + 2 * OPA_TAP + (d - x.d) * DCHAIN_TAP
  <2>1. (1 - PHASE_MAX) * OPA_TAP = OPA_TAP - PHASE_MAX * OPA_TAP
        /\ PHASE_MAX * OPA_TAP \in Int /\ (d - x.d) * DCHAIN_TAP \in Int
    BY <1>1
  <2> QED
    BY <1>1, <2>1, Lengths
<1> HIDE DEF w1
<1>5. Follows(b, Incr(At(x, 1, d)), w1 + Cycle)
  BY <1>2, <1>3, FollowsIncr
<1> QED
  BY <1>4, <1>5

LEMMA FollowsBackOver ==
  ASSUME NEW b \in Int, NEW x \in Settings, NEW w \in Int, Follows(b, x, w), x.p = 1, x.d = 0
  PROVE  Follows(b, At(Decr(x), PHASE_MAX, 0), w - 2 * OPA_TAP)
<1>1. PHASE_MAX \in 0 .. PHASE_MAX /\ 0 \in 0 .. DELAY_MAX /\ PHASE_MAX \in Int
      /\ OPA_TAP \in Int /\ DCHAIN_TAP \in Int /\ w - Cycle \in Int
  BY DqsAssumption, Lengths
<1>2. Follows(b, Decr(x), w - Cycle) /\ Decr(x) \in Settings
      /\ Decr(x).p = 1 /\ Decr(x).d = 0
  BY FollowsDecr, DecrType
<1>3. Follows(b, At(Decr(x), PHASE_MAX, 0),
              w - Cycle + (PHASE_MAX - 1) * OPA_TAP + (0 - 0) * DCHAIN_TAP)
  BY <1>1, <1>2, FollowsAt
<1>4. w - Cycle + (PHASE_MAX - 1) * OPA_TAP + (0 - 0) * DCHAIN_TAP = w - 2 * OPA_TAP
  <2>1. (PHASE_MAX - 1) * OPA_TAP = PHASE_MAX * OPA_TAP - OPA_TAP
        /\ PHASE_MAX * OPA_TAP \in Int /\ (0 - 0) * DCHAIN_TAP = 0
    BY <1>1
  <2> QED
    BY <1>1, <2>1, Lengths
<1> QED
  BY <1>3, <1>4

\* The numbers the steps below count with.
LEMMA CountTypes ==
  ASSUME IInv
  PROVE  /\ Start \in Int /\ tmp \in Int /\ work_bgn \in Int /\ work_end \in Int
         /\ turns \in Int /\ s.v \in Int /\ s.p \in Int /\ s.d \in Int
         /\ OPA_TAP \in Int /\ DCHAIN_TAP \in Int /\ Cycle \in Int
<1>1. base \in Int
  BY Chains DEF IInv, TypeOK
<1>2. Start \in Int
  BY <1>1, Lengths DEF Start
<1> QED
  BY <1>2, Moves, Chains, Lengths DEF IInv, TypeOK

LEMMA HuntCounts == IInv /\ CountInv /\ Hunt => CountInv'
<1> SUFFICES ASSUME IInv, CountInv, Hunt PROVE CountInv'
  OBVIOUS
<1>1. CASE /\ at' = "begin" /\ s' = At(s, 1, 0) /\ base' = s.v
           /\ turns' = 0 /\ work_bgn' = OPA_TAP /\ tmp' = tmp
  <2>1. tmp = 0
    BY DEF Hunt, IInv, CountsAhead
  <2>2. s' \in Settings /\ s'.p = 1 /\ s'.d = 0 /\ s'.v = s.v
    <3>1. s' \in Settings /\ s'.p = 1 /\ s'.d = 0
      BY <1>1, Moves, Chains
    <3>2. s'.v = s.v
      BY <1>1, Moves DEF At, Settings
    <3> QED
      BY <3>1, <3>2
  <2>3. Position(s') = s.v * Cycle + 1 * OPA_TAP + 0 * DCHAIN_TAP
    BY <2>2, PositionType
  <2>4. Position(s') - s.v * Cycle = OPA_TAP + 0 * Ring
    BY <2>3, CountTypes, Lengths
  <2>5. Follows(Start', s', work_bgn')
    BY <1>1, <2>4 DEF Follows, Start
  <2>6. tmp' = s'.d * DCHAIN_TAP /\ work_bgn' = tmp' + turns' * Cycle + s'.p * OPA_TAP
    BY <1>1, <2>1, <2>2, CountTypes
  <2> QED
    BY <1>1, <2>5, <2>6 DEF CountInv
<1>2. CASE at' \in {"hunt", "none"}
  BY <1>2 DEF CountInv
<1> QED
  BY <1>1, <1>2 DEF Hunt, Stop

\* The end is searched from two phases behind the one that passed, whichever
\* side of a FIFO place that is.
LEMMA EndFromFollows ==
  ASSUME NEW b \in Int, NEW x \in Settings, x.p < PHASE_MAX, NEW w \in Int,
         Follows(b, At(x, x.p + 1, 0), w), EndFrom(x, x.p + 2, w + OPA_TAP)
  PROVE  Follows(b, s', work_end') /\ s'.d = 0
<1> DEFINE y == At(x, x.p + 1, 0)
<1>1. y \in Settings /\ y.p = x.p + 1 /\ y.d = 0
  <2>1. x.p + 1 \in 0 .. PHASE_MAX /\ 0 \in 0 .. DELAY_MAX
    BY Chains DEF Settings
  <2> QED
    BY <2>1, AtType
<1>2. \A p, d : At(y, p, d) = At(x, p, d)
  BY DEF At, Settings
<1>3. CASE x.p + 2 > PHASE_MAX
  <2>1. s' = At(Incr(x), 1, 0) /\ work_end' = w + OPA_TAP + OPA_TAP
    BY <1>3 DEF EndFrom
  <2>2. At(Incr(x), 1, 0) = Incr(At(x, 1, 0))
    BY DEF At, Incr, Settings
  <2>3. s' = Incr(At(y, 1, 0))
    BY <1>2, <2>1, <2>2
  <2>4. y.p = PHASE_MAX
    BY <1>1, <1>3, Chains DEF Settings
  <2> HIDE DEF y
  <2>5. 0 \in 0 .. DELAY_MAX
    BY Chains
  <2>6. Follows(b, s', w + 2 * OPA_TAP + (0 - y.d) * DCHAIN_TAP)
    BY <1>1, <2>3, <2>4, <2>5, FollowsOver DEF y
  <2>7. w + 2 * OPA_TAP + (0 - y.d) * DCHAIN_TAP = work_end'
    BY <1>1, <2>1, Chains
  <2>8. s'.d = 0
    <3>1. 1 \in 0 .. PHASE_MAX
      BY Chains
    <3>2. At(y, 1, 0) \in Settings /\ At(y, 1, 0).d = 0
      BY <1>1, <2>5, <3>1, AtType
    <3> QED
      BY <2>3, <3>2, IncrType
  <2> QED
    BY <2>6, <2>7, <2>8
<1>4. CASE ~(x.p + 2 > PHASE_MAX)
  <2>1. s' = At(x, x.p + 2, 0) /\ work_end' = w + OPA_TAP
    BY <1>4 DEF EndFrom
  <2>2. s' = At(y, y.p + 1, y.d) /\ y.p < PHASE_MAX
    BY <1>1, <1>2, <1>4, <2>1, Chains DEF Settings
  <2>3. Follows(b, y, w)
    OBVIOUS
  <2> HIDE DEF y
  <2>4. Follows(b, At(y, y.p + 1, y.d), w + OPA_TAP)
    BY <1>1, <2>2, <2>3, FollowsNextPhase
  <2>5. y.p + 1 \in 0 .. PHASE_MAX /\ y.d \in 0 .. DELAY_MAX
    BY <1>1, <2>2, Chains DEF Settings
  <2>6. s'.d = 0
    BY <1>1, <2>2, <2>5, AtType
  <2> QED
    BY <2>1, <2>2, <2>4, <2>6
<1> QED
  BY <1>3, <1>4

LEMMA BackOffCounts ==
  ASSUME IInv, CountInv, at = "begin", s.d = 0, BackOff, UNCHANGED <<work_bgn, Start>>
  PROVE  CountInv'
<1>1. /\ tmp = 0 /\ work_bgn = turns * Cycle + s.p * OPA_TAP
      /\ Follows(Start, s, work_bgn)
  BY CountTypes DEF CountInv
<1>2. CASE s.p = 1
  <2>1. at' = "end" /\ EndFrom(s, 3, work_bgn + OPA_TAP)
    BY <1>2 DEF BackOff
  <2>2. s' = At(s, 3, 0) /\ work_end' = work_bgn + OPA_TAP
    BY <2>1, Chains DEF EndFrom
  <2>3. 3 \in 0 .. PHASE_MAX /\ 0 \in 0 .. DELAY_MAX
    BY Chains
  <2>4. Follows(Start, s', work_bgn + (3 - s.p) * OPA_TAP + (0 - s.d) * DCHAIN_TAP)
    BY <1>1, <2>2, <2>3, Moves, CountTypes, FollowsAt
  <2>5. work_bgn + (3 - s.p) * OPA_TAP + (0 - s.d) * DCHAIN_TAP = work_end' + OPA_TAP
    BY <1>2, <2>2, CountTypes
  <2>6. work_bgn % Cycle = OPA_TAP
    <3>1. OPA_TAP \in 0 .. Cycle - 1 /\ Cycle \in Nat \ {0} /\ turns \in Int
      BY Lengths, Chains, CountTypes
    <3>2. work_bgn = turns * Cycle + OPA_TAP
      BY <1>1, <1>2, CountTypes
    <3> QED
      BY <3>1, <3>2, ModUnique
  <2>7. s'.d = 0
    BY <2>2, <2>3, Moves, AtType
  <2>8. Lags'
    BY <2>2, <2>4, <2>5, <2>6 DEF Lags
  <2> QED
    BY <2>1, <2>7, <2>8 DEF CountInv
<1>3. CASE s.p # 1
  <2>1. at' = "backoff" /\ tmp' = work_bgn - OPA_TAP /\ work_end' = work_bgn
        /\ s' = At(s, s.p - 1, 0)
    BY <1>3 DEF BackOff
  <2>2. s.p - 1 \in 0 .. PHASE_MAX /\ 0 \in 0 .. DELAY_MAX /\ s.p \in 1 .. PHASE_MAX
    BY <1>3, Moves, Chains
  <2>3. Follows(Start, s', work_bgn + (s.p - 1 - s.p) * OPA_TAP + (0 - s.d) * DCHAIN_TAP)
    BY <1>1, <2>1, <2>2, Moves, CountTypes, FollowsAt
  <2>4. work_bgn + (s.p - 1 - s.p) * OPA_TAP + (0 - s.d) * DCHAIN_TAP = tmp'
    BY <2>1, CountTypes
  <2>5. s'.p = s.p - 1
    BY <2>1, <2>2, Moves, AtType
  <2>6. At(s', s'.p + 1, 0) = s
    <3>1. At(At(s, s.p - 1, 0), s.p, 0) = s
      BY Moves DEF At, Settings
    <3> QED
      BY <2>1, <2>5, <3>1, CountTypes
  <2>7. s'.p < PHASE_MAX
    BY <2>2, <2>5, Chains
  <2> QED
    BY <1>1, <2>1, <2>3, <2>4, <2>6, <2>7 DEF CountInv
<1> QED
  BY <1>2, <1>3

LEMMA FindBeginCounts == IInv /\ CountInv /\ FindBegin => CountInv'
<1> SUFFICES ASSUME IInv, CountInv, FindBegin PROVE CountInv'
  OBVIOUS
<1>1. at = "begin" /\ Start' = Start /\ turns < VFIFO_SIZE /\ turns \in Nat
  BY DEF FindBegin, IInv, RoomLeft, TypeOK, Start
<1>2. /\ tmp = s.d * DCHAIN_TAP /\ work_bgn = tmp + turns * Cycle + s.p * OPA_TAP
      /\ Follows(Start, s, work_bgn)
  BY <1>1 DEF CountInv
<1>3. CASE s.d = 0 /\ BackOff /\ UNCHANGED work_bgn
  BY <1>1, <1>3, BackOffCounts
<1>4. CASE at' = "dtap" /\ work_end' = work_bgn /\ UNCHANGED s
  BY <1>1, <1>2, <1>4 DEF CountInv
<1>5. CASE /\ s.p < PHASE_MAX /\ s' = At(s, s.p + 1, s.d)
           /\ work_bgn' = work_bgn + OPA_TAP /\ UNCHANGED <<at, turns, tmp>>
  <2>1. Follows(Start, s', work_bgn')
    BY <1>2, <1>5, Moves, CountTypes, FollowsNextPhase
  <2>2. s'.p = s.p + 1 /\ s'.d = s.d
    BY <1>5, Moves, Chains
  <2>3. work_bgn' = tmp' + turns' * Cycle + s'.p * OPA_TAP
    <3>1. (s.p + 1) * OPA_TAP = s.p * OPA_TAP + OPA_TAP
          /\ turns * Cycle \in Int /\ s.p * OPA_TAP \in Int
      BY CountTypes
    <3> QED
      BY <1>2, <1>5, <2>2, <3>1, CountTypes
  <2> QED
    BY <1>1, <1>2, <1>5, <2>1, <2>2, <2>3 DEF CountInv
<1>6. CASE /\ s.p = PHASE_MAX /\ s' = Incr(At(s, 1, s.d)) /\ turns' = turns + 1
           /\ work_bgn' = work_bgn + 2 * OPA_TAP /\ UNCHANGED <<at, tmp>>
  <2>1. Follows(Start, s', work_bgn + 2 * OPA_TAP + (s.d - s.d) * DCHAIN_TAP)
    BY <1>2, <1>6, Moves, CountTypes, FollowsOver
  <2>2. work_bgn + 2 * OPA_TAP + (s.d - s.d) * DCHAIN_TAP = work_bgn'
    BY <1>6, CountTypes
  <2>3. s'.p = 1 /\ s'.d = s.d
    BY <1>6, Moves, Chains
  <2>4. work_bgn' = tmp' + turns' * Cycle + s'.p * OPA_TAP
    <3>1. (turns + 1) * Cycle = turns * Cycle + Cycle
      BY CountTypes
    <3>2. turns * Cycle \in Int /\ PHASE_MAX * OPA_TAP \in Int
          /\ Cycle = PHASE_MAX * OPA_TAP + OPA_TAP
      BY CountTypes, Lengths, Chains
    <3>3. turns' * Cycle = turns * Cycle + PHASE_MAX * OPA_TAP + OPA_TAP
      BY <1>6, <3>1, <3>2, CountTypes
    <3>4. work_bgn' = tmp + turns * Cycle + PHASE_MAX * OPA_TAP + 2 * OPA_TAP
      BY <1>2, <1>6
    <3>5. s'.p * OPA_TAP = OPA_TAP /\ tmp' = tmp
      BY <1>6, <2>3, CountTypes
    <3> QED
      BY <3>2, <3>3, <3>4, <3>5, CountTypes
  <2> QED
    BY <1>1, <1>2, <1>6, <2>1, <2>2, <2>3, <2>4 DEF CountInv
<1>7. CASE /\ s.p = PHASE_MAX /\ turns + 1 = VFIFO_SIZE /\ s.d < DtapsPerPtap
           /\ s' = Incr(At(s, 1, s.d + 1)) /\ turns' = 0
           /\ tmp' = tmp + DCHAIN_TAP /\ work_bgn' = tmp + DCHAIN_TAP + OPA_TAP
           /\ UNCHANGED at
  <2>1. s.d + 1 \in 0 .. DELAY_MAX
    BY <1>7, Moves, TapsType, Chains
  <2>2. Follows(Start, s', work_bgn + 2 * OPA_TAP + (s.d + 1 - s.d) * DCHAIN_TAP)
    BY <1>2, <1>7, <2>1, Moves, CountTypes, FollowsOver
  <2>3. s'.p = 1 /\ s'.d = s.d + 1
    BY <1>7, <2>1, Moves, Chains
  <2>4. work_bgn + 2 * OPA_TAP + (s.d + 1 - s.d) * DCHAIN_TAP = work_bgn' + Ring
    <3>1. Ring = turns * Cycle + PHASE_MAX * OPA_TAP + OPA_TAP
      BY <1>1, <1>7, CountTypes, Lengths
    <3>2. turns * Cycle \in Int /\ PHASE_MAX * OPA_TAP \in Int
      BY CountTypes, Lengths, Chains
    <3>3. (s.d + 1 - s.d) * DCHAIN_TAP = DCHAIN_TAP
      BY CountTypes
    <3> QED
      BY <1>2, <1>7, <3>1, <3>2, <3>3, CountTypes
  <2>5. Follows(Start, s', work_bgn')
    <3>1. work_bgn' \in Int
      BY <1>7, CountTypes
    <3>2. PICK k \in Int : Position(s') - Start = work_bgn' + Ring + k * Ring
      BY <2>2, <2>4 DEF Follows
    <3>3. Ring + k * Ring = (k + 1) * Ring /\ k + 1 \in Int /\ k * Ring \in Int
      BY Lengths
    <3>4. Position(s') - Start = work_bgn' + (k + 1) * Ring
      BY <3>1, <3>2, <3>3, Lengths
    <3> QED
      BY <3>3, <3>4 DEF Follows
  <2>6. tmp' = s'.d * DCHAIN_TAP /\ work_bgn' = tmp' + turns' * Cycle + s'.p * OPA_TAP
    <3>1. (s.d + 1) * DCHAIN_TAP = s.d * DCHAIN_TAP + DCHAIN_TAP /\ 0 * Cycle = 0
      BY CountTypes
    <3> QED
      BY <1>2, <1>7, <2>3, <3>1, CountTypes
  <2> QED
    BY <1>1, <1>7, <2>5, <2>6 DEF CountInv
<1>8. CASE at' = "none"
  BY <1>8 DEF CountInv
<1> QED
  BY <1>1, <1>3, <1>4, <1>5, <1>6, <1>7, <1>8 DEF FindBegin, Stop

LEMMA BackoffStepCounts == IInv /\ CountInv /\ BackoffStep => CountInv'
<1> SUFFICES ASSUME IInv, CountInv, BackoffStep PROVE CountInv'
  OBVIOUS
<1>1. at = "backoff" /\ Start' = Start
  BY DEF BackoffStep, Start
<1>2. s.p < PHASE_MAX /\ Follows(Start, s, tmp) /\ Follows(Start, At(s, s.p + 1, 0), work_end)
  BY <1>1 DEF CountInv
<1>3. CASE at' = "end" /\ EndFrom(s, s.p + 2, work_end + OPA_TAP)
  <2>1. Follows(Start, s', work_end') /\ s'.d = 0
    BY <1>2, <1>3, Moves, CountTypes, EndFromFollows
  <2> QED
    BY <1>1, <1>3, <2>1 DEF CountInv
<1>4. CASE /\ s.d # DELAY_MAX /\ s' = At(s, s.p, s.d + 1) /\ tmp' = tmp + DCHAIN_TAP
           /\ UNCHANGED <<at, work_end>>
  <2>1. s.d < DELAY_MAX
    BY <1>4, Moves, Chains
  <2>2. Follows(Start, s', tmp')
    BY <1>2, <1>4, <2>1, Moves, CountTypes, FollowsNextDelay
  <2>3. s'.p = s.p
    BY <1>4, <2>1, Moves, Chains
  <2>4. At(s', s'.p + 1, 0) = At(s, s.p + 1, 0)
    BY <1>4, <2>3, Moves DEF At, Settings
  <2> QED
    BY <1>1, <1>2, <1>4, <2>2, <2>3, <2>4 DEF CountInv
<1> QED
  BY <1>3, <1>4 DEF BackoffStep

\* The end's count and setting move together, lagging or not.
LEMMA FindEndCounts == IInv /\ CountInv /\ FindEnd => CountInv'
<1> SUFFICES ASSUME IInv, CountInv, FindEnd PROVE CountInv'
  OBVIOUS
<1>1. at = "end" /\ Start' = Start /\ s.d = 0 /\ 0 \in 0 .. DELAY_MAX
  BY Chains DEF FindEnd, CountInv, Start
<1>2. PICK lag \in {0, OPA_TAP} :
        /\ Follows(Start, s, work_end + lag)
        /\ lag = OPA_TAP => Lags
  <2>1. work_end + 0 = work_end
    BY CountTypes
  <2>2. 0 # OPA_TAP
    BY Chains
  <2>3. CASE Follows(Start, s, work_end)
    BY <2>1, <2>2, <2>3
  <2>4. CASE Lags
    BY <2>4 DEF Lags
  <2> QED
    BY <1>1, <2>3, <2>4 DEF CountInv
<1>3. lag \in Int /\ work_end + lag \in Int
  BY <1>2, CountTypes
<1>4. ASSUME NEW diff \in Int, work_end' = work_end + diff,
             Follows(Start, s', work_end + lag + diff), at' \in {"end", "dtap"},
             at' = "end" => s'.d = 0 /\ fresh' = FALSE,
             work_bgn' = work_bgn \/ (fresh /\ work_bgn' = work_end)
      PROVE  CountInv'
  <2>1. work_end + lag + diff = work_end' + lag /\ work_end' + 0 = work_end'
    BY <1>2, <1>4, CountTypes
  <2>2. CASE lag = 0
    BY <1>1, <1>4, <2>1, <2>2 DEF CountInv
  <2>3. CASE lag = OPA_TAP
    <3>1. Lags
      BY <1>2, <2>3
    <3>2. ASSUME fresh, work_bgn' = work_end PROVE work_bgn' % Cycle = 2 * OPA_TAP
      <4>1. work_bgn % Cycle = OPA_TAP /\ work_bgn' = work_bgn + OPA_TAP
        BY <1>1, <3>1, <3>2 DEF Lags
      <4>2. PICK q \in Int : work_bgn = q * Cycle + OPA_TAP
        BY <4>1, DivMod, Lengths, CountTypes
      <4>3. work_bgn' = q * Cycle + 2 * OPA_TAP
        BY <4>1, <4>2, CountTypes
      <4> DEFINE r == 2 * OPA_TAP
      <4>4. r \in 0 .. Cycle - 1 /\ Cycle \in Nat \ {0}
        BY Lengths, Chains
      <4> HIDE DEF r
      <4>5. (q * Cycle + r) % Cycle = r
        BY <4>4, ModUnique
      <4> QED
        BY <4>3, <4>5 DEF r
    <3>3. work_bgn' % Cycle \in {OPA_TAP, 2 * OPA_TAP}
      BY <1>4, <3>1, <3>2 DEF Lags
    <3>4. Lags'
      BY <1>1, <1>4, <2>1, <2>3, <3>3 DEF Lags
    <3> QED
      BY <1>4, <3>4 DEF CountInv
  <2> QED
    BY <1>2, <2>2, <2>3
<1>5. CASE /\ ~fresh /\ at' = "dtap"
           /\ s' = IF s.p = 1 THEN At(Decr(s), PHASE_MAX, 0) ELSE At(s, s.p - 1, 0)
           /\ work_end' = work_end - (IF s.p = 1 THEN 2 ELSE 1) * OPA_TAP
           /\ UNCHANGED work_bgn
  <2>1. CASE s.p = 1
    <3>1. Follows(Start, s', work_end + lag - 2 * OPA_TAP)
      BY <1>1, <1>2, <1>3, <1>5, <2>1, Moves, CountTypes, FollowsBackOver
    <3>2. work_end + lag - 2 * OPA_TAP = work_end + lag + (-2 * OPA_TAP)
          /\ work_end' = work_end + (-2 * OPA_TAP) /\ -2 * OPA_TAP \in Int
      BY <1>3, <1>5, <2>1, CountTypes
    <3> QED
      BY <1>4, <1>5, <3>1, <3>2
  <2>2. CASE s.p # 1
    <3>1. s.p - 1 \in 0 .. PHASE_MAX
      BY <2>2, Moves, Chains
    <3>2. Follows(Start, s', work_end + lag + (s.p - 1 - s.p) * OPA_TAP
                              + (0 - s.d) * DCHAIN_TAP)
      BY <1>1, <1>2, <1>3, <1>5, <2>2, <3>1, Moves, CountTypes, FollowsAt
    <3>3. work_end + lag + (s.p - 1 - s.p) * OPA_TAP + (0 - s.d) * DCHAIN_TAP
            = work_end + lag + (-OPA_TAP)
      <4>1. (s.p - 1 - s.p) * OPA_TAP = -OPA_TAP /\ (0 - s.d) * DCHAIN_TAP = 0
        BY <1>1, CountTypes
      <4> QED
        BY <1>3, <4>1, CountTypes
    <3>4. work_end' = work_end + (-OPA_TAP) /\ -OPA_TAP \in Int
      BY <1>5, <2>2, CountTypes
    <3> QED
      BY <1>4, <1>5, <3>2, <3>3, <3>4
  <2> QED
    BY <2>1, <2>2
<1>6. CASE /\ work_bgn' = work_bgn \/ (fresh /\ work_bgn' = work_end)
           /\ fresh' = FALSE /\ s.p < PHASE_MAX /\ s' = At(s, s.p + 1, 0)
           /\ work_end' = work_end + OPA_TAP /\ UNCHANGED at
  <2>1. Follows(Start, s', work_end + lag + OPA_TAP)
    BY <1>1, <1>2, <1>3, <1>6, Moves, CountTypes, FollowsNextPhase
  <2>2. s'.d = 0
    BY <1>1, <1>6, Moves, Chains
  <2> QED
    BY <1>1, <1>4, <1>6, <2>1, <2>2, CountTypes
<1>7. CASE /\ work_bgn' = work_bgn \/ (fresh /\ work_bgn' = work_end)
           /\ fresh' = FALSE /\ s.p = PHASE_MAX /\ s' = Incr(At(s, 1, 0))
           /\ work_end' = work_end + 2 * OPA_TAP /\ UNCHANGED at
  <2>1. Follows(Start, s', work_end + lag + 2 * OPA_TAP + (0 - s.d) * DCHAIN_TAP)
    BY <1>1, <1>2, <1>3, <1>7, Moves, CountTypes, FollowsOver
  <2>2. work_end + lag + 2 * OPA_TAP + (0 - s.d) * DCHAIN_TAP = work_end + lag + 2 * OPA_TAP
        /\ 2 * OPA_TAP \in Int
    BY <1>1, <1>3, CountTypes
  <2>3. s'.d = 0
    BY <1>1, <1>7, Moves, Chains
  <2> QED
    BY <1>1, <1>4, <1>7, <2>1, <2>2, <2>3
<1>8. CASE at' = "none"
  BY <1>8 DEF CountInv
<1> QED
  BY <1>1, <1>5, <1>6, <1>7, <1>8 DEF FindEnd

LEMMA FindEdgeCounts == IInv /\ CountInv /\ FindEdge => CountInv'
<1> SUFFICES ASSUME IInv, CountInv, FindEdge PROVE CountInv'
  OBVIOUS
<1>1. at = "dtap" /\ Start' = Start /\ work_bgn' = work_bgn
  BY DEF FindEdge, Start
<1>2. CASE /\ s.d < DELAY_MAX /\ s' = At(s, s.p, s.d + 1)
           /\ work_end' = work_end + DCHAIN_TAP /\ UNCHANGED at
  <2>1. ASSUME Follows(Start, s, work_end) PROVE Follows(Start, s', work_end')
    BY <1>2, <2>1, Moves, CountTypes, FollowsNextDelay
  <2>2. ASSUME Lags PROVE Lags'
    <3>1. Follows(Start, s, work_end + OPA_TAP) /\ work_end + OPA_TAP \in Int
      BY <2>2, CountTypes DEF Lags
    <3>2. Follows(Start, s', work_end + OPA_TAP + DCHAIN_TAP)
      BY <1>2, <3>1, Moves, CountTypes, FollowsNextDelay
    <3>3. work_end + OPA_TAP + DCHAIN_TAP = work_end' + OPA_TAP
      BY <1>2, CountTypes
    <3> QED
      BY <1>1, <1>2, <2>2, <3>2, <3>3 DEF Lags
  <2> QED
    BY <1>1, <1>2, <2>1, <2>2 DEF CountInv
<1>3. CASE at' \in {"none", "pass", "centre"}
  BY <1>3 DEF CountInv
<1> QED
  BY <1>2, <1>3 DEF FindEdge, Centre

\* The invariant is kept by every step of the search.
LEMMA NextCounts == IInv /\ CountInv /\ [Next]_vars => CountInv'
<1> SUFFICES ASSUME IInv, CountInv, [Next]_vars PROVE CountInv'
  OBVIOUS
<1>1. CASE TrackPass \/ TrackFail \/ FindCentre
  <2>1. at' \in {"pass", "fail", "centre", "found", "none"}
    BY <1>1 DEF TrackPass, TrackFail, FindCentre, Centre
  <2> QED
    BY <2>1 DEF CountInv
<1>2. CASE UNCHANGED vars
  BY <1>2 DEF vars, CountInv, Lags, Start
<1> QED
  BY <1>1, <1>2, HuntCounts, FindBeginCounts, BackoffStepCounts, FindEndCounts,
     FindEdgeCounts DEF Next

\* Whatever the memory answers, and for every FIFO and chain: the picosecond
\* counts of rw_mgr_mem_calibrate_vfifo_find_dqs_en_phase, which the code
\* never checks against the hardware, are where the hardware samples, over
\* skipped phases, FIFO places and the FIFO's end, forwards and back; the end
\* is one phase tap behind only for a beginning at phase 1 or the tap after.
THEOREM CountsAlwaysFollow == Spec => []CountsFollowSetting
<1>1. Init => CountInv
  BY DEF Init, CountInv
<1>2. IInv /\ CountInv => CountsFollowSetting
  <2> SUFFICES ASSUME IInv, CountInv PROVE CountsFollowSetting
    OBVIOUS
  <2>1. s \in Settings /\ Start \in Int
    BY Moves, CountTypes
  <2>2. ASSUME NEW w \in Int, Follows(Start, s, w) PROVE Offset(s) = w % Ring
    BY <2>1, <2>2, FollowsOffset
  <2>3. work_bgn \in Int /\ tmp \in Int /\ work_end \in Int /\ work_end + OPA_TAP \in Int
    BY CountTypes
  <2> QED
    BY <2>2, <2>3 DEF CountInv, Lags, CountsFollowSetting
<1> QED
  BY <1>1, <1>2, Inductive, NextCounts, PTL DEF Spec

----------------------------------------------------------------------------
(* The search in a window.  E is how deep in the window the count 0 samples, *)
(* so that the count w samples at w + E; lag is what work_end is behind.     *)

Origin(E) == \E k \in Int : Start - eye.lo = E + k * Ring

\* The picoseconds from the phase sampled before phase p, and to the one after.
StepTo(p)   == IF p = 1 THEN 2 * OPA_TAP ELSE OPA_TAP
StepFrom(p) == IF p = PHASE_MAX THEN 2 * OPA_TAP ELSE OPA_TAP

InEye(e) == 0 <= e /\ e <= eye.width

\* Where the edges that are kept lie.
BeginNear(E, lag) ==
  0 <= work_bgn + E /\ work_bgn + E < (IF lag = 0 THEN DCHAIN_TAP ELSE 2 * OPA_TAP)
EndNear(E, lag) ==
  eye.width - OPA_TAP < work_end + lag + E /\ work_end + lag + E <= eye.width

\* The sweep starts ahead of the window and every sample before was ahead too.
OnBegin(E) ==
  /\ s.d = 0
  /\ eye.width < OPA_TAP + E + Ring
  /\ work_bgn + E < StepTo(s.p)

\* The phase that passed is less than a tap deep.
OnBackoff(E) ==
  /\ work_end = work_bgn
  /\ 0 <= work_bgn + E /\ work_bgn + E < OPA_TAP
  /\ tmp = work_bgn - OPA_TAP + s.d * DCHAIN_TAP
  /\ tmp + E < DCHAIN_TAP

\* The phase before this one is in the window.
OnEnd(E, lag) ==
  /\ Follows(Start, s, work_end + lag)
  /\ BeginNear(E, lag)
  /\ InEye(work_end + lag + E - StepTo(s.p))
  /\ fresh => work_end + lag + E < 4 * OPA_TAP

\* The edge is between this phase and the next.
OnEdge(E, lag) ==
  /\ Follows(Start, s, work_end + lag)
  /\ BeginNear(E, lag)
  /\ InEye(work_end + lag + E - s.d * DCHAIN_TAP)
  /\ eye.width < work_end + lag + E - s.d * DCHAIN_TAP + StepFrom(s.p)
  /\ s.d > 0 => work_end + lag + E - DCHAIN_TAP <= eye.width

\* Tracking is one phase back from the edge at the delay tap that failed, or
\* two phases back, over phase 0, from where no delay tap reaches it.
OnTrack(f) ==
  /\ Follows(eye.lo, s, f + s.d * DCHAIN_TAP)
  /\ eye.width - 2 * OPA_TAP < f + edge * DCHAIN_TAP
  /\ \/ /\ f + OPA_TAP + (edge - 1) * DCHAIN_TAP <= eye.width
        /\ eye.width < f + OPA_TAP + edge * DCHAIN_TAP
     \/ f + DELAY_MAX * DCHAIN_TAP <= eye.width
  /\ at = "pass" => s.d = edge /\ f + edge * DCHAIN_TAP <= eye.width
  /\ at = "fail" => f + (s.d - 1) * DCHAIN_TAP <= eye.width

\* The setting is m deep in the window, give or take whole cycles.
OnCentre(m) ==
  /\ 2 * m >= eye.width - 3 * OPA_TAP /\ 2 * m <= eye.width + 3 * OPA_TAP
  /\ \E j \in Int : (s.p * OPA_TAP + s.d * DCHAIN_TAP) - eye.lo = m + j * Cycle

InWindow(E) ==
  /\ Origin(E)
  /\ at = "begin"   => OnBegin(E)
  /\ at = "backoff" => OnBackoff(E)
  /\ at = "end"     => \E lag \in {0, OPA_TAP} : OnEnd(E, lag)
  /\ at = "dtap"    => \E lag \in {0, OPA_TAP} : OnEdge(E, lag)
  /\ at \in {"pass", "fail"} =>
       /\ \E lag \in {0, OPA_TAP} : BeginNear(E, lag) /\ EndNear(E, lag)
       /\ \E f \in Int : OnTrack(f)

EyeInv ==
  /\ at = "hunt" => s.p = 1 /\ s.d = 0
  /\ at \in {"begin", "backoff", "end", "dtap", "pass", "fail"} =>
       \E E \in Int : InWindow(E)
  /\ at \in {"centre", "found"} => \E m \in Int : OnCentre(m)
  /\ NearMiddle
  /\ IF at \in {"centre", "found"} THEN dtaps \in {DtapsPerPtap, DtapsPerPtap + 1}
                                   ELSE at # "none" => dtaps = DtapsPerPtap

\* What the steps below need of the window and of the chain.
LEMMA Eye ==
  ASSUME EyeSetting, IInv, Wide
  PROVE  /\ eye.lo \in Int /\ eye.width \in Nat /\ eye.jitter = 0
         /\ 4 * OPA_TAP <= eye.width /\ eye.width + 3 * OPA_TAP < 2 * Cycle
         /\ eye.width + 3 * OPA_TAP < Ring
         /\ DCHAIN_TAP <= OPA_TAP /\ DELAY_MAX * DCHAIN_TAP < 2 * OPA_TAP
         /\ OPA_TAP <= DELAY_MAX * DCHAIN_TAP
         /\ \A x \in Settings : Answers(eye, x) = EyeAnswers(eye, x)
<1>1. eye \in Eyes /\ eye.width \in EyeWidths /\ eye.jitter = 0
  BY DEF IInv, TypeOK, Wide
<1>2. /\ eye.lo \in Int /\ eye.width \in Nat
      /\ 4 * OPA_TAP <= eye.width /\ eye.width + 3 * OPA_TAP < 2 * Cycle
      /\ VFIFO_SIZE >= 2 /\ DCHAIN_TAP <= OPA_TAP /\ DELAY_MAX * DCHAIN_TAP < 2 * OPA_TAP
      /\ \A x \in Settings : Answers(eye, x) = EyeAnswers(eye, x)
  BY <1>1 DEF EyeSetting
<1>3. eye.width + 3 * OPA_TAP < Ring
  <2>1. (VFIFO_SIZE - 2) * Cycle >= 0
    BY <1>2, Chains, Lengths
  <2>2. (VFIFO_SIZE - 2) * Cycle = Ring - 2 * Cycle
    BY Chains, Lengths
  <2>3. 3 * OPA_TAP \in Int /\ Ring \in Int /\ Cycle \in Int
    BY Chains, Lengths
  <2> QED
    BY <1>2, <2>1, <2>2, <2>3
<1> QED
  BY <1>1, <1>2, <1>3, DqsAssumption

\* A read passes when it is as deep as the window is wide, counted either way
\* round the ring.
LEMMA ReadsDeep ==
  ASSUME EyeSetting, IInv, Wide, NEW e \in Int, Follows(eye.lo, s, e),
         eye.width - Ring < e, e < Ring
  PROVE  /\ Passes(TRUE) => InEye(e)
         /\ Passes(FALSE) => ~InEye(e)
<1> DEFINE depth == Depth(eye, Position(s))
<1>1. /\ eye.lo \in Int /\ eye.width \in Nat /\ eye.jitter = 0
      /\ s \in Settings /\ Ring \in Nat \ {0} /\ Ring \in Int /\ eye.width < Ring
      /\ Answers(eye, s) = EyeAnswers(eye, s)
  <2>1. 3 * OPA_TAP \in Nat
    BY Chains
  <2> QED
    BY <2>1, Eye, Lengths, Moves
<1>2. PICK k \in Int : Position(s) - eye.lo = e + k * Ring
  BY DEF Follows
<1>3. depth = IF e >= 0 THEN e ELSE e + Ring
  <2>1. CASE e >= 0
    <3>1. e \in 0 .. Ring - 1
      BY <1>1, <2>1
    <3>2. (k * Ring + e) % Ring = e
      BY <1>1, <3>1, ModUnique
    <3>3. k * Ring + e = e + k * Ring
      BY <1>1
    <3> QED
      BY <1>2, <2>1, <3>2, <3>3 DEF Depth
  <2>2. CASE e < 0
    <3>1. e + Ring \in 0 .. Ring - 1
      BY <1>1, <2>2
    <3>2. ((k - 1) * Ring + (e + Ring)) % Ring = e + Ring
      <4> DEFINE r == e + Ring
                 q == k - 1
      <4>1. r \in 0 .. Ring - 1 /\ q \in Int
        BY <3>1
      <4> HIDE DEF r, q
      <4>2. (q * Ring + r) % Ring = r
        BY <1>1, <4>1, ModUnique
      <4> QED
        BY <4>2 DEF r, q
    <3>3. (k - 1) * Ring = k * Ring - Ring /\ k * Ring \in Int
      BY <1>1
    <3>4. (k - 1) * Ring + (e + Ring) = e + k * Ring
      BY <1>1, <3>3
    <3> QED
      BY <1>2, <2>2, <3>2, <3>4 DEF Depth
  <2> QED
    BY <2>1, <2>2
<1>4. depth \in Int /\ 0 <= depth /\ depth < Ring
  BY <1>1, <1>3
<1>5. Answers(eye, s) = {depth <= eye.width}
  <2>1. ~(depth < eye.jitter \/ depth > Ring - eye.jitter)
    <3> HIDE DEF depth
    <3> QED
      BY <1>1, <1>4
  <2>2. depth \notin (eye.width - eye.jitter) + 1 .. (eye.width + eye.jitter) - 1
    <3> HIDE DEF depth
    <3> QED
      BY <1>1, <1>4
  <2> QED
    BY <1>1, <2>1, <2>2 DEF EyeAnswers
<1>6. depth <= eye.width <=> InEye(e)
  <2> HIDE DEF depth
  <2> QED
    BY <1>1, <1>3 DEF InEye
<1> HIDE DEF depth
<1>7. ASSUME NEW ok \in BOOLEAN, Passes(ok) PROVE ok <=> InEye(e)
  BY <1>5, <1>6, <1>7 DEF Passes
<1> QED
  BY <1>7, Zenon

\* A count of the loops read as a depth in the window.
LEMMA Deep ==
  ASSUME EyeSetting, IInv, Wide, NEW E \in Int, Origin(E), NEW w \in Int, Follows(Start, s, w)
  PROVE  Follows(eye.lo, s, w + E)
<1>1. PICK k \in Int : Position(s) - Start = w + k * Ring
  BY DEF Follows
<1>2. PICK j \in Int : Start - eye.lo = E + j * Ring
  BY DEF Origin
<1>3. /\ Position(s) \in Int /\ Start \in Int /\ eye.lo \in Int /\ k + j \in Int
      /\ k * Ring \in Int /\ j * Ring \in Int /\ (k + j) * Ring = k * Ring + j * Ring
  BY Moves, PositionType, CountTypes, Eye, Lengths
<1>4. Position(s) - eye.lo = (w + E) + (k + j) * Ring
  BY <1>1, <1>2, <1>3
<1> QED
  BY <1>3, <1>4 DEF Follows

\* The loops up to the centre keep the invariant when they keep its window, and
\* giving up keeps it.
LEMMA Enters ==
  ASSUME NEW E \in Int, InWindow(E)', dtaps' = DtapsPerPtap,
         at' \in {"begin", "backoff", "end", "dtap", "pass", "fail"}
  PROVE  EyeInv'
<1>1. NearMiddle'
  BY DEF NearMiddle
<1> QED
  BY <1>1 DEF EyeInv

LEMMA GivesUp ==
  ASSUME at' = "none"
  PROVE  EyeInv'
BY DEF EyeInv, NearMiddle

\* The hunt ends on a read that fails, so the sweep starts ahead of the window.
LEMMA HuntEye ==
  ASSUME EyeSetting, IInv, Wide, EyeInv, Hunt
  PROVE  EyeInv'
<1>1. at = "hunt" /\ eye' = eye /\ s.p = 1 /\ s.d = 0 /\ dtaps = DtapsPerPtap
  BY DEF Hunt, EyeInv
<1>2. ASSUME Passes(FALSE), at' = "begin", s' = At(s, 1, 0), base' = s.v,
             work_bgn' = OPA_TAP, UNCHANGED dtaps
      PROVE  EyeInv'
  <2> DEFINE n == Position(s) - eye.lo
             depth == n % Ring
  <2>1. /\ eye.lo \in Int /\ eye.width \in Nat /\ eye.jitter = 0
        /\ s \in Settings /\ Position(s) \in Int /\ Ring \in Nat \ {0} /\ OPA_TAP \in Nat \ {0}
        /\ Answers(eye, s) = EyeAnswers(eye, s) /\ s.v \in Int
        /\ Position(s) = s.v * Cycle + s.p * OPA_TAP + s.d * DCHAIN_TAP
    BY Eye, Lengths, Moves, PositionType, Chains
  <2>2. PICK q \in Int : depth \in 0 .. Ring - 1 /\ n = q * Ring + depth
    <3>1. n \in Int
      BY <2>1
    <3> HIDE DEF n
    <3> QED
      BY <2>1, <3>1, DivMod
  <2>3. depth \in Int /\ depth > eye.width
    <3> HIDE DEF depth
    <3>1. ~(depth < eye.jitter \/ depth > Ring - eye.jitter)
      BY <2>1, <2>2
    <3>2. depth \notin (eye.width - eye.jitter) + 1 .. (eye.width + eye.jitter) - 1
      BY <2>1, <2>2
    <3>3. Answers(eye, s) = {depth <= eye.width}
      BY <2>1, <3>1, <3>2 DEF EyeAnswers, Depth, depth, n
    <3>4. ~(depth <= eye.width)
      BY <1>2, <3>3 DEF Passes
    <3> QED
      BY <2>1, <2>2, <3>4
  <2> HIDE DEF depth
  <2>4. PICK E \in Int : E = depth - Ring - OPA_TAP
    BY <2>1, <2>3
  <2>10. eye.width < OPA_TAP + E + Ring /\ OPA_TAP + E < 0
    BY <2>1, <2>2, <2>3, <2>4
  <2>5. s' = s /\ Start' = s.v * Cycle
    <3>1. s' = s
      BY <1>1, <1>2, <2>1 DEF At, Settings
    <3> QED
      BY <1>2, <3>1 DEF Start
  <2>6. Start' - eye.lo = E + (q + 1) * Ring
    <3>1. s.v * Cycle \in Int /\ Position(s) = s.v * Cycle + OPA_TAP
      BY <1>1, <2>1, Lengths, Chains
    <3>2. (q + 1) * Ring = q * Ring + Ring /\ q * Ring \in Int
      BY <2>1, <2>2
    <3> QED
      BY <2>1, <2>2, <2>3, <2>4, <2>5, <3>1, <3>2
  <2>7. Origin(E)'
    <3>1. q + 1 \in Int
      BY <2>2
    <3> QED
      BY <1>1, <2>6, <3>1 DEF Origin
  <2>8. OnBegin(E)'
    BY <1>1, <1>2, <2>1, <2>5, <2>10 DEF OnBegin, StepTo
  <2>9. InWindow(E)'
    BY <1>2, <2>7, <2>8 DEF InWindow
  <2> QED
    BY <1>1, <1>2, <2>9, Enters
<1>3. CASE s' = Incr(s) /\ UNCHANGED <<at, dtaps>>
  <2>1. s'.p = 1 /\ s'.d = 0
    BY <1>1, <1>3, Moves
  <2> QED
    BY <1>1, <1>3, <2>1 DEF EyeInv, NearMiddle
<1>4. CASE at' = "none"
  BY <1>4, GivesUp
<1> QED
  BY <1>1, <1>2, <1>3, <1>4 DEF Hunt, Stop

\* The step of the loops up to the edge reads in the window or outside it as
\* the count says.
LEMMA ReadsAt ==
  ASSUME EyeSetting, IInv, Wide, NEW E \in Int, Origin(E),
         NEW w \in Int, Follows(Start, s, w),
         eye.width - Ring < w + E, w + E < Ring
  PROVE  /\ Passes(TRUE) => InEye(w + E)
         /\ Passes(FALSE) => ~InEye(w + E)
<1>1. Follows(eye.lo, s, w + E) /\ w + E \in Int
  BY Deep
<1> QED
  BY <1>1, ReadsDeep

\* Step 2 finds the window where it begins ...
LEMMA BackOffEye ==
  ASSUME EyeSetting, IInv, CountInv, Wide, EyeInv, at = "begin", s.d = 0, BackOff,
         NEW E \in Int, Origin(E), 0 <= work_bgn + E, work_bgn + E < StepTo(s.p),
         UNCHANGED <<eye, base, work_bgn, dtaps>>
  PROVE  EyeInv'
<1>1. /\ work_bgn \in Int /\ OPA_TAP \in Nat \ {0} /\ DCHAIN_TAP \in Nat \ {0}
      /\ Follows(Start, s, work_bgn) /\ dtaps = DtapsPerPtap
      /\ eye.width \in Nat /\ 4 * OPA_TAP <= eye.width
  BY CountTypes, Chains, Eye DEF CountInv, EyeInv
<1>2. Origin(E)'
  BY DEF Origin, Start
<1>3. CASE s.p = 1
  <2>1. at' = "end" /\ EndFrom(s, 3, work_bgn + OPA_TAP)
    BY <1>3 DEF BackOff
  <2>2. s' = At(s, 3, 0) /\ work_end' = work_bgn + OPA_TAP
    BY <2>1, Chains DEF EndFrom
  <2>3. 3 \in 0 .. PHASE_MAX /\ 3 \in 1 .. PHASE_MAX /\ 0 \in 0 .. DELAY_MAX
    BY Chains
  <2>4. Follows(Start, s', work_bgn + (3 - s.p) * OPA_TAP + (0 - s.d) * DCHAIN_TAP)
    BY <1>1, <2>2, <2>3, Moves, CountTypes, FollowsAt
  <2>5. work_bgn + (3 - s.p) * OPA_TAP + (0 - s.d) * DCHAIN_TAP = work_end' + OPA_TAP
    BY <1>1, <1>3, <2>2
  <2>6. s'.p = 3
    BY <2>2, <2>3, Moves
  <2>7. BeginNear(E, OPA_TAP)'
    BY <1>1, <1>3 DEF BeginNear, StepTo
  <2>8. OnEnd(E, OPA_TAP)'
    <3>2. /\ 0 <= work_end' + OPA_TAP + E - OPA_TAP
          /\ work_end' + OPA_TAP + E - OPA_TAP <= eye.width
          /\ work_end' + OPA_TAP + E < 4 * OPA_TAP
      <4>1. work_end' \in Int /\ 0 <= work_bgn + E /\ work_bgn + E < 2 * OPA_TAP
        BY <1>1, <1>3, <2>2 DEF StepTo
      <4> QED
        BY <1>1, <2>2, <4>1
    <3>3. StepTo(s'.p) = OPA_TAP
      BY <2>6 DEF StepTo
    <3>4. Follows(Start, s, work_end + OPA_TAP)'
      BY <2>4, <2>5 DEF Start, Follows
    <3>5. InEye(work_end + OPA_TAP + E - StepTo(s.p))'
      BY <3>2, <3>3 DEF InEye
    <3> QED
      BY <2>7, <3>2, <3>4, <3>5 DEF OnEnd
  <2>9. InWindow(E)'
    BY <1>2, <2>1, <2>8 DEF InWindow
  <2> QED
    BY <1>1, <2>1, <2>9, Enters
<1>4. CASE s.p # 1
  <2>1. at' = "backoff" /\ tmp' = work_bgn - OPA_TAP /\ work_end' = work_bgn
        /\ s' = At(s, s.p - 1, 0)
    BY <1>4 DEF BackOff
  <2>2. s'.d = 0
    <3>1. s.p - 1 \in 1 .. PHASE_MAX /\ 0 \in 0 .. DELAY_MAX
      BY <1>4, Moves, Chains
    <3> QED
      BY <2>1, <3>1, Moves
  <2>3. OnBackoff(E)'
    BY <1>1, <1>4, <2>1, <2>2 DEF OnBackoff, StepTo
  <2>4. InWindow(E)'
    BY <1>2, <2>1, <2>3 DEF InWindow
  <2> QED
    BY <1>1, <2>1, <2>4, Enters
<1> QED
  BY <1>3, <1>4

\* ... and never has to sweep again.
LEMMA FindBeginEye ==
  ASSUME EyeSetting, IInv, CountInv, Wide, EyeInv, FindBegin
  PROVE  EyeInv'
<1>1. /\ at = "begin" /\ UNCHANGED <<eye, base>> /\ dtaps = DtapsPerPtap
      /\ turns \in Nat /\ turns < VFIFO_SIZE /\ work_bgn >= tmp + OPA_TAP
  BY DEF FindBegin, EyeInv, IInv, RoomLeft, TypeOK, CountsAhead
<1>2. PICK E \in Int : Origin(E) /\ OnBegin(E)
  BY <1>1 DEF EyeInv, InWindow
<1>3. Origin(E)'
  BY <1>1, <1>2 DEF Origin, Start
<1>4. /\ s.d = 0 /\ tmp = 0 /\ work_bgn = turns * Cycle + s.p * OPA_TAP
      /\ Follows(Start, s, work_bgn)
      /\ eye.width < OPA_TAP + E + Ring /\ work_bgn + E < StepTo(s.p)
  <2>1. /\ s.d = 0 /\ tmp = s.d * DCHAIN_TAP /\ work_bgn = tmp + turns * Cycle + s.p * OPA_TAP
        /\ Follows(Start, s, work_bgn)
        /\ eye.width < OPA_TAP + E + Ring /\ work_bgn + E < StepTo(s.p)
    BY <1>1, <1>2 DEF CountInv, OnBegin
  <2>2. tmp = 0
    BY <2>1, CountTypes
  <2>3. turns * Cycle \in Int
    BY CountTypes
  <2> QED
    BY <2>1, <2>2, <2>3, CountTypes
<1>5. /\ work_bgn \in Int /\ OPA_TAP \in Nat \ {0} /\ Ring \in Nat /\ eye.width \in Nat
      /\ work_bgn >= OPA_TAP /\ StepTo(s.p) <= 2 * OPA_TAP /\ 4 * OPA_TAP <= eye.width
      /\ eye.width + 3 * OPA_TAP < Ring /\ StepTo(s.p) \in Int
  BY <1>1, <1>4, CountTypes, Chains, Eye, Lengths DEF StepTo
<1>6. /\ Passes(TRUE) => 0 <= work_bgn + E
      /\ Passes(FALSE) => work_bgn + E < 0
  <2>1. eye.width - Ring < work_bgn + E /\ work_bgn + E < Ring /\ work_bgn + E <= eye.width
    BY <1>4, <1>5
  <2>2. (Passes(TRUE) => InEye(work_bgn + E)) /\ (Passes(FALSE) => ~InEye(work_bgn + E))
    BY <1>2, <1>4, <1>5, <2>1, ReadsAt
  <2>3. InEye(work_bgn + E) <=> ~(work_bgn + E < 0)
    BY <1>5, <2>1 DEF InEye
  <2>4. ~(work_bgn + E < 0) => 0 <= work_bgn + E
    BY <1>5
  <2> QED
    BY <2>2, <2>3, <2>4, Zenon
<1>7. ASSUME Passes(TRUE), BackOff, UNCHANGED <<work_bgn, dtaps>> PROVE EyeInv'
  <2>1. 0 <= work_bgn + E
    BY <1>6, <1>7
  <2> QED
    BY <1>1, <1>2, <1>4, <1>7, <2>1, BackOffEye
<1>8. ASSUME Passes(FALSE), s.p < PHASE_MAX, s' = At(s, s.p + 1, s.d),
             work_bgn' = work_bgn + OPA_TAP, UNCHANGED <<at, dtaps>>
      PROVE  EyeInv'
  <2>1. work_bgn + E < 0
    BY <1>5, <1>6, <1>8
  <2>2. s'.d = 0 /\ s'.p = s.p + 1 /\ s'.p # 1
    BY <1>4, <1>8, Moves, Chains
  <2>3. OnBegin(E)'
    BY <1>1, <1>4, <1>5, <1>8, <2>1, <2>2 DEF OnBegin, StepTo
  <2>4. InWindow(E)'
    BY <1>1, <1>3, <1>8, <2>3 DEF InWindow
  <2> QED
    BY <1>1, <1>8, <2>4, Enters
<1>9. ASSUME Passes(FALSE), s' = Incr(At(s, 1, s.d)),
             work_bgn' = work_bgn + 2 * OPA_TAP, UNCHANGED <<at, dtaps>>
      PROVE  EyeInv'
  <2>1. work_bgn + E < 0
    BY <1>5, <1>6, <1>9
  <2>2. s'.d = 0 /\ s'.p = 1
    BY <1>4, <1>9, Moves, Chains
  <2>3. OnBegin(E)'
    BY <1>1, <1>4, <1>5, <1>9, <2>1, <2>2 DEF OnBegin, StepTo
  <2>4. InWindow(E)'
    BY <1>1, <1>3, <1>9, <2>3 DEF InWindow
  <2> QED
    BY <1>1, <1>9, <2>4, Enters
<1>10. ASSUME Passes(FALSE), s.p = PHASE_MAX, turns + 1 = VFIFO_SIZE PROVE FALSE
  <2>1. work_bgn + E < 0
    BY <1>5, <1>6, <1>10
  <2>2. Ring = turns * Cycle + PHASE_MAX * OPA_TAP + OPA_TAP
    BY <1>1, <1>10, CountTypes, Lengths
  <2>3. turns * Cycle \in Int /\ PHASE_MAX * OPA_TAP \in Int
    BY CountTypes, Lengths, Chains
  <2>4. work_bgn = Ring - OPA_TAP
    BY <1>4, <1>5, <1>10, <2>2, <2>3
  <2> QED
    BY <1>4, <1>5, <2>1, <2>4
<1>11. PICK ok \in BOOLEAN :
         /\ Passes(ok)
         /\ \/ ok /\ BackOff /\ UNCHANGED <<work_bgn, dtaps>>
            \/ ok /\ s.d > 0
            \/ /\ ~ok /\ s.p < PHASE_MAX /\ s' = At(s, s.p + 1, s.d)
               /\ work_bgn' = work_bgn + OPA_TAP /\ UNCHANGED <<at, dtaps>>
            \/ /\ ~ok /\ s' = Incr(At(s, 1, s.d))
               /\ work_bgn' = work_bgn + 2 * OPA_TAP /\ UNCHANGED <<at, dtaps>>
            \/ ~ok /\ s.p = PHASE_MAX /\ turns + 1 = VFIFO_SIZE
  BY DEF FindBegin
<1>12. CASE ok
  <2>1. Passes(TRUE)
    BY <1>11, <1>12, Zenon
  <2> QED
    BY <1>4, <1>7, <1>11, <1>12, <2>1
<1>13. CASE ~ok
  <2>1. Passes(FALSE)
    BY <1>11, <1>13
  <2> QED
    BY <1>8, <1>9, <1>10, <1>11, <1>13, <2>1
<1> QED
  BY <1>12, <1>13

\* Step 3a finds an edge less than a delay tap deep, or leaves the phase that
\* passed for one when it is that near.
LEMMA BackoffStepEye ==
  ASSUME EyeSetting, IInv, CountInv, Wide, EyeInv, BackoffStep
  PROVE  EyeInv'
<1>1. /\ at = "backoff" /\ UNCHANGED <<eye, base, dtaps>> /\ dtaps = DtapsPerPtap
      /\ s.p < PHASE_MAX /\ Follows(Start, s, tmp)
      /\ Follows(Start, At(s, s.p + 1, 0), work_end)
  BY DEF BackoffStep, EyeInv, CountInv
<1>2. PICK E \in Int : Origin(E) /\ OnBackoff(E)
  BY <1>1 DEF EyeInv, InWindow
<1>3. Origin(E)'
  BY <1>1, <1>2 DEF Origin, Start
<1>4. /\ work_end = work_bgn /\ 0 <= work_bgn + E /\ work_bgn + E < OPA_TAP
      /\ tmp = work_bgn - OPA_TAP + s.d * DCHAIN_TAP /\ tmp + E < DCHAIN_TAP
  BY <1>2 DEF OnBackoff
<1>5. /\ work_bgn \in Int /\ work_end \in Int /\ tmp \in Int /\ s.d * DCHAIN_TAP \in Nat
      /\ OPA_TAP \in Nat \ {0} /\ DCHAIN_TAP \in Nat \ {0} /\ Ring \in Nat /\ eye.width \in Nat
      /\ 4 * OPA_TAP <= eye.width /\ eye.width + 3 * OPA_TAP < Ring /\ DCHAIN_TAP <= OPA_TAP
  BY Moves, CountTypes, Chains, Eye, Lengths
<1>6. /\ Passes(TRUE) => 0 <= tmp + E
      /\ Passes(FALSE) => tmp + E < 0
  <2>1. eye.width - Ring < tmp + E /\ tmp + E < Ring /\ tmp + E <= eye.width
    BY <1>4, <1>5
  <2>2. (Passes(TRUE) => InEye(tmp + E)) /\ (Passes(FALSE) => ~InEye(tmp + E))
    BY <1>1, <1>2, <1>5, <2>1, ReadsAt
  <2>3. InEye(tmp + E) <=> ~(tmp + E < 0)
    BY <1>5, <2>1 DEF InEye
  <2>4. ~(tmp + E < 0) => 0 <= tmp + E
    BY <1>5
  <2> QED
    BY <2>2, <2>3, <2>4, Zenon
<1>7. ASSUME at' = "end", EndFrom(s, s.p + 2, work_end + OPA_TAP),
             0 <= work_bgn' + E, work_bgn' + E < DCHAIN_TAP
      PROVE  EyeInv'
  <2>1. Follows(Start, s', work_end')
    BY <1>1, <1>7, Moves, CountTypes, EndFromFollows
  <2>2. \/ s'.p = 1 /\ work_end' = work_end + 2 * OPA_TAP
        \/ s'.p = s.p + 2 /\ work_end' = work_end + OPA_TAP
    <3>1. CASE s.p + 2 > PHASE_MAX
      <4>1. s' = At(Incr(s), 1, 0) /\ work_end' = work_end + OPA_TAP + OPA_TAP
        BY <1>7, <3>1 DEF EndFrom
      <4>2. 1 \in 0 .. PHASE_MAX /\ 0 \in 0 .. DELAY_MAX
        BY Chains
      <4> QED
        BY <1>5, <4>1, <4>2, Moves, AtType
    <3>2. CASE ~(s.p + 2 > PHASE_MAX)
      <4>1. s' = At(s, s.p + 2, 0) /\ work_end' = work_end + OPA_TAP
        BY <1>7, <3>2 DEF EndFrom
      <4>2. s.p + 2 \in 1 .. PHASE_MAX /\ 0 \in 0 .. DELAY_MAX
        BY <3>2, Moves, Chains
      <4> QED
        BY <4>1, <4>2, Moves
    <3> QED
      BY <3>1, <3>2
  <2>3. work_end' + 0 + E - StepTo(s'.p) = work_end + E /\ work_end' + 0 + E < 4 * OPA_TAP
        /\ work_end' + 0 = work_end'
    <3>1. s.p + 2 # 1
      BY Moves, Chains
    <3> QED
      BY <1>4, <1>5, <2>2, <3>1 DEF StepTo
  <2>4. InEye(work_end + 0 + E - StepTo(s.p))'
    <3>1. 0 <= work_end + E /\ work_end + E <= eye.width
      BY <1>4, <1>5
    <3> QED
      BY <1>1, <2>3, <3>1 DEF InEye
  <2>5. BeginNear(E, 0)'
    BY <1>7 DEF BeginNear
  <2>6. Follows(Start, s, work_end + 0)'
    BY <1>1, <2>1, <2>3 DEF Follows, Start
  <2>7. OnEnd(E, 0)'
    BY <2>3, <2>4, <2>5, <2>6 DEF OnEnd
  <2>8. InWindow(E)'
    BY <1>3, <1>7, <2>7 DEF InWindow
  <2> QED
    BY <1>1, <1>7, <2>8, Enters
<1>8. ASSUME Passes(TRUE), at' = "end", EndFrom(s, s.p + 2, work_end + OPA_TAP), work_bgn' = tmp
      PROVE  EyeInv'
  BY <1>4, <1>6, <1>7, <1>8
<1>9. ASSUME Passes(FALSE), s.d = DELAY_MAX \/ tmp + DCHAIN_TAP >= work_bgn,
             at' = "end", EndFrom(s, s.p + 2, work_end + OPA_TAP), work_bgn' = work_bgn
      PROVE  EyeInv'
  <2>1. tmp + E < 0
    BY <1>6, <1>9
  <2>2. s.d # DELAY_MAX
    <3>1. OPA_TAP <= DELAY_MAX * DCHAIN_TAP
      BY DqsAssumption
    <3> QED
      BY <1>4, <1>5, <2>1, <3>1
  <2>3. work_bgn + E < DCHAIN_TAP
    BY <1>5, <1>9, <2>1, <2>2
  <2> QED
    BY <1>4, <1>7, <1>9, <2>3
<1>10. ASSUME Passes(FALSE), s.d # DELAY_MAX, s' = At(s, s.p, s.d + 1), tmp' = tmp + DCHAIN_TAP,
              UNCHANGED <<at, work_bgn, work_end>>
       PROVE  EyeInv'
  <2>1. tmp + E < 0
    BY <1>6, <1>10
  <2>2. s'.d = s.d + 1
    BY <1>10, Moves, Chains
  <2>3. s'.d * DCHAIN_TAP = s.d * DCHAIN_TAP + DCHAIN_TAP
    BY <2>2, CountTypes
  <2>4. tmp' = work_bgn - OPA_TAP + s'.d * DCHAIN_TAP
    BY <1>4, <1>5, <1>10, <2>3
  <2>5. tmp' + E < DCHAIN_TAP
    BY <1>5, <1>10, <2>1
  <2>6. OnBackoff(E)'
    BY <1>4, <1>10, <2>4, <2>5 DEF OnBackoff
  <2>7. InWindow(E)'
    BY <1>1, <1>3, <1>10, <2>6 DEF InWindow
  <2> QED
    BY <1>1, <1>10, <2>7, Enters
<1>11. PICK ok \in BOOLEAN :
         /\ Passes(ok)
         /\ \/ /\ ok /\ at' = "end" /\ EndFrom(s, s.p + 2, work_end + OPA_TAP)
               /\ work_bgn' = tmp
            \/ /\ ~ok /\ (s.d = DELAY_MAX \/ tmp + DCHAIN_TAP >= work_bgn)
               /\ at' = "end" /\ EndFrom(s, s.p + 2, work_end + OPA_TAP) /\ work_bgn' = work_bgn
            \/ /\ ~ok /\ s.d # DELAY_MAX /\ s' = At(s, s.p, s.d + 1)
               /\ tmp' = tmp + DCHAIN_TAP /\ UNCHANGED <<at, work_bgn, work_end>>
  BY DEF BackoffStep
<1>12. CASE ok
  <2>1. Passes(TRUE)
    BY <1>11, <1>12, Zenon
  <2> QED
    BY <1>8, <1>11, <1>12, <2>1
<1>13. CASE ~ok
  <2>1. Passes(FALSE)
    BY <1>11, <1>13
  <2> QED
    BY <1>9, <1>10, <1>11, <1>13, <2>1
<1> QED
  BY <1>12, <1>13

\* One phase back, over phase 0 and a place of the FIFO, the delay taps kept.
LEMMA FollowsBackPhase ==
  ASSUME NEW b \in Int, NEW x \in Settings, x.p >= 1, NEW w \in Int, Follows(b, x, w)
  PROVE  /\ Follows(b, BackPhase(x, x.d), w - StepTo(x.p))
         /\ BackPhase(x, x.d).p = IF x.p = 1 THEN PHASE_MAX ELSE x.p - 1
<1>1. /\ x.p \in 0 .. PHASE_MAX /\ x.d \in 0 .. DELAY_MAX /\ x.p \in Int /\ x.d \in Int
      /\ PHASE_MAX \in 0 .. PHASE_MAX /\ PHASE_MAX \in Int /\ OPA_TAP \in Int /\ DCHAIN_TAP \in Int
      /\ w - Cycle \in Int /\ (x.d - x.d) * DCHAIN_TAP = 0
  BY SettingType, Chains, Lengths
<1>2. CASE x.p = 1
  <2>1. Follows(b, Decr(x), w - Cycle) /\ Decr(x) \in Settings
        /\ Decr(x).p = 1 /\ Decr(x).d = x.d
    BY <1>2, FollowsDecr, DecrType
  <2>2. Follows(b, At(Decr(x), PHASE_MAX, x.d),
                w - Cycle + (PHASE_MAX - 1) * OPA_TAP + (x.d - x.d) * DCHAIN_TAP)
    BY <1>1, <2>1, FollowsAt
  <2>4. At(Decr(x), PHASE_MAX, x.d).p = PHASE_MAX
    BY <1>1, <2>1, AtType
  <2>3. w - Cycle + (PHASE_MAX - 1) * OPA_TAP + (x.d - x.d) * DCHAIN_TAP = w - 2 * OPA_TAP
    <3>1. (PHASE_MAX - 1) * OPA_TAP = PHASE_MAX * OPA_TAP - OPA_TAP /\ PHASE_MAX * OPA_TAP \in Int
      BY <1>1
    <3> QED
      BY <1>1, <3>1, Lengths
  <2> QED
    BY <1>2, <2>2, <2>3, <2>4 DEF BackPhase, StepTo
<1>3. CASE x.p # 1
  <2>1. x.p - 1 \in 0 .. PHASE_MAX
    BY <1>1, <1>3
  <2>2. Follows(b, At(x, x.p - 1, x.d),
                w + (x.p - 1 - x.p) * OPA_TAP + (x.d - x.d) * DCHAIN_TAP)
    BY <1>1, <2>1, FollowsAt
  <2>4. At(x, x.p - 1, x.d).p = x.p - 1
    BY <1>1, <2>1, AtType
  <2>3. w + (x.p - 1 - x.p) * OPA_TAP + (x.d - x.d) * DCHAIN_TAP = w - OPA_TAP
    BY <1>1
  <2> QED
    BY <1>3, <2>2, <2>3, <2>4 DEF BackPhase, StepTo
<1> QED
  BY <1>2, <1>3

\* Step 4a goes on from inside the window to the first phase behind it, and
\* step 5a is back in the window.
LEMMA FindEndEye ==
  ASSUME EyeSetting, IInv, CountInv, Wide, EyeInv, FindEnd
  PROVE  EyeInv'
<1>1. /\ at = "end" /\ UNCHANGED <<eye, base, dtaps>> /\ dtaps = DtapsPerPtap /\ s.d = 0
      /\ 0 \in 0 .. DELAY_MAX
  BY Chains DEF FindEnd, EyeInv, CountInv
<1>2. PICK E \in Int, lag \in {0, OPA_TAP} : Origin(E) /\ OnEnd(E, lag)
  BY <1>1 DEF EyeInv, InWindow
<1>3. Origin(E)'
  BY <1>1, <1>2 DEF Origin, Start
<1>4. /\ work_end \in Int /\ lag \in Int /\ OPA_TAP \in Nat \ {0} /\ Ring \in Nat
      /\ eye.width \in Nat /\ work_end + lag \in Int
      /\ 4 * OPA_TAP <= eye.width /\ eye.width + 3 * OPA_TAP < Ring
      /\ StepTo(s.p) \in Nat /\ StepTo(s.p) <= 2 * OPA_TAP
  BY <1>2, CountTypes, Chains, Eye, Lengths DEF StepTo
<1>5. /\ Follows(Start, s, work_end + lag) /\ BeginNear(E, lag)
      /\ 0 <= work_end + lag + E - StepTo(s.p)
      /\ work_end + lag + E - StepTo(s.p) <= eye.width
      /\ fresh => work_end + lag + E < 4 * OPA_TAP
  BY <1>2 DEF OnEnd, InEye
<1>6. /\ Passes(TRUE) => InEye(work_end + lag + E)
      /\ Passes(FALSE) => ~InEye(work_end + lag + E)
  <2>1. eye.width - Ring < work_end + lag + E /\ work_end + lag + E < Ring
    BY <1>4, <1>5
  <2> QED
    BY <1>2, <1>4, <1>5, <2>1, ReadsAt
<1>7. fresh => InEye(work_end + lag + E)
  BY <1>4, <1>5 DEF InEye
<1>8. ASSUME ~InEye(work_end + lag + E), at' = "dtap", s' = BackPhase(s, 0),
             work_end' = work_end - StepTo(s.p), UNCHANGED work_bgn
      PROVE  EyeInv'
  <2>1. /\ Follows(Start, s', work_end + lag - StepTo(s.p))
        /\ s'.p = IF s.p = 1 THEN PHASE_MAX ELSE s.p - 1
    <3>1. s.p >= 1
      BY Moves
    <3> QED
      BY <1>1, <1>4, <1>5, <1>8, <3>1, Moves, CountTypes, FollowsBackPhase
  <2>2. s'.d = 0
    <3>1. s.p >= 1
      BY Moves
    <3> QED
      BY <1>1, <1>8, <3>1, Moves, BackPhaseType
  <2>3. /\ work_end' + lag = work_end + lag - StepTo(s.p)
        /\ work_end' + lag + E - s'.d * DCHAIN_TAP = work_end + lag + E - StepTo(s.p)
    BY <1>4, <1>8, <2>2, Chains
  <2>4. StepFrom(s'.p) = StepTo(s.p)
    <3>1. s.p \in 1 .. PHASE_MAX /\ PHASE_MAX \in Int
      BY Moves, Chains
    <3> QED
      BY <2>1, <3>1 DEF StepFrom, StepTo
  <2>5. InEye(work_end + lag + E - s.d * DCHAIN_TAP)'
    BY <1>1, <1>5, <2>3 DEF InEye
  <2>6. eye'.width < work_end' + lag + E - s'.d * DCHAIN_TAP + StepFrom(s'.p)
    <3>1. eye.width < work_end + lag + E
      BY <1>4, <1>5, <1>8 DEF InEye
    <3>2. work_end + lag + E - StepTo(s.p) + StepTo(s.p) = work_end + lag + E
      BY <1>4
    <3> QED
      BY <1>1, <2>3, <2>4, <3>1, <3>2
  <2>7. BeginNear(E, lag)'
    BY <1>5, <1>8 DEF BeginNear
  <2>8. Follows(Start, s, work_end + lag)'
    BY <1>1, <2>1, <2>3 DEF Follows, Start
  <2>9. OnEdge(E, lag)'
    BY <2>2, <2>5, <2>6, <2>7, <2>8 DEF OnEdge
  <2>10. InWindow(E)'
    BY <1>2, <1>3, <1>8, <2>9 DEF InWindow
  <2> QED
    BY <1>1, <1>8, <2>10, Enters
<1>9. ASSUME InEye(work_end + lag + E), at' = "end", fresh' = FALSE, UNCHANGED work_bgn,
             work_end' = work_end + StepTo(s'.p), Follows(Start, s', work_end + lag + StepTo(s'.p))
      PROVE  EyeInv'
  <2>1. StepTo(s'.p) \in Int
    BY <1>4 DEF StepTo
  <2>2. /\ work_end' + lag = work_end + lag + StepTo(s'.p)
        /\ work_end' + lag + E - StepTo(s'.p) = work_end + lag + E
    BY <1>4, <1>9, <2>1
  <2>3. InEye(work_end + lag + E - StepTo(s.p))'
    BY <1>1, <1>9, <2>2 DEF InEye
  <2>4. BeginNear(E, lag)'
    BY <1>5, <1>9 DEF BeginNear
  <2>5. Follows(Start, s, work_end + lag)'
    BY <1>1, <1>9, <2>2 DEF Follows, Start
  <2>6. OnEnd(E, lag)'
    BY <1>9, <2>3, <2>4, <2>5 DEF OnEnd
  <2>7. InWindow(E)'
    BY <1>2, <1>3, <1>9, <2>6 DEF InWindow
  <2> QED
    BY <1>1, <1>9, <2>7, Enters
<1>10. ASSUME InEye(work_end + lag + E), fresh' = FALSE, UNCHANGED <<work_bgn, at>>,
              s.p < PHASE_MAX, s' = At(s, s.p + 1, 0), work_end' = work_end + OPA_TAP
       PROVE  EyeInv'
  <2>1. Follows(Start, s', work_end + lag + OPA_TAP)
    BY <1>1, <1>4, <1>5, <1>10, Moves, CountTypes, FollowsNextPhase
  <2>2. StepTo(s'.p) = OPA_TAP
    BY <1>1, <1>10, Moves, Chains DEF StepTo
  <2> QED
    BY <1>1, <1>9, <1>10, <2>1, <2>2
<1>11. ASSUME InEye(work_end + lag + E), fresh' = FALSE, UNCHANGED <<work_bgn, at>>,
              s.p = PHASE_MAX, s' = Incr(At(s, 1, 0)), work_end' = work_end + 2 * OPA_TAP
       PROVE  EyeInv'
  <2>1. Follows(Start, s', work_end + lag + 2 * OPA_TAP + (0 - s.d) * DCHAIN_TAP)
    BY <1>1, <1>4, <1>5, <1>11, Moves, CountTypes, FollowsOver
  <2>2. work_end + lag + 2 * OPA_TAP + (0 - s.d) * DCHAIN_TAP = work_end + lag + 2 * OPA_TAP
    BY <1>1, <1>4, Chains
  <2>3. StepTo(s'.p) = 2 * OPA_TAP
    BY <1>1, <1>11, Moves, Chains DEF StepTo
  <2> QED
    BY <1>1, <1>9, <1>11, <2>1, <2>2, <2>3
<1>12. CASE at' = "none"
  BY <1>12, GivesUp
<1>13. PICK ok \in BOOLEAN :
         /\ Passes(ok)
         /\ \/ /\ ~ok /\ ~fresh /\ at' = "dtap"
               /\ s' = IF s.p = 1 THEN At(Decr(s), PHASE_MAX, 0) ELSE At(s, s.p - 1, 0)
               /\ work_end' = work_end - (IF s.p = 1 THEN 2 ELSE 1) * OPA_TAP
               /\ UNCHANGED work_bgn
            \/ /\ ok \/ fresh
               /\ work_bgn' = IF ok THEN work_bgn ELSE work_end
               /\ fresh' = FALSE
               /\ \/ /\ s.p < PHASE_MAX /\ s' = At(s, s.p + 1, 0)
                     /\ work_end' = work_end + OPA_TAP /\ UNCHANGED at
                  \/ /\ s.p = PHASE_MAX /\ s' = Incr(At(s, 1, 0))
                     /\ work_end' = work_end + 2 * OPA_TAP /\ UNCHANGED at
                  \/ at' = "none"
  BY DEF FindEnd
<1>14. CASE ok
  <2>1. InEye(work_end + lag + E)
    BY <1>6, <1>13, <1>14, Zenon
  <2> QED
    BY <1>10, <1>11, <1>12, <1>13, <1>14, <2>1
<1>15. CASE ~ok
  <2>1. ~InEye(work_end + lag + E)
    <3>1. Passes(FALSE)
      BY <1>13, <1>15
    <3> QED
      BY <1>6, <3>1, Zenon
  <2>2. ~fresh
    BY <1>7, <2>1, Zenon
  <2>3. at' = "dtap" /\ s' = BackPhase(s, 0) /\ UNCHANGED work_bgn
        /\ work_end' = work_end - (IF s.p = 1 THEN 2 ELSE 1) * OPA_TAP
    BY <1>13, <1>15, <2>2 DEF BackPhase
  <2>4. (IF s.p = 1 THEN 2 ELSE 1) * OPA_TAP = StepTo(s.p)
    BY <1>4 DEF StepTo
  <2> QED
    BY <1>8, <2>1, <2>3, <2>4
<1> QED
  BY <1>14, <1>15

\* The centre of step 6 is within a phase tap and a half of the window's.
LEMMA CentreNear ==
  ASSUME EyeSetting, IInv, Wide, NEW E \in Int, Origin(E), NEW bgn \in Nat, NEW end \in Nat,
         NEW lag \in {0, OPA_TAP},
         0 <= bgn + E, bgn + E < (IF lag = 0 THEN DCHAIN_TAP ELSE 2 * OPA_TAP),
         eye.width - OPA_TAP < end + lag + E, end + lag + E <= eye.width
  PROVE  \E m \in Int :
           /\ 2 * m >= eye.width - 3 * OPA_TAP /\ 2 * m <= eye.width + 3 * OPA_TAP
           /\ \E j \in Int : (Centred(bgn, end).p * OPA_TAP + Centred(bgn, end).d * DCHAIN_TAP)
                               - eye.lo = m + j * Cycle
<1> DEFINE mid   == (bgn + end) \div 2
           before == mid - 1
           inner == (before % Cycle) + 1
           p     == (inner - 1) \div OPA_TAP
           y     == inner - p * OPA_TAP + DCHAIN_TAP - 1
           d     == y \div DCHAIN_TAP
           c     == Centred(bgn, end)
<1>1. /\ OPA_TAP \in Nat \ {0} /\ DCHAIN_TAP \in Nat \ {0} /\ Cycle \in Nat \ {0}
      /\ eye.width \in Nat /\ eye.lo \in Int /\ DCHAIN_TAP <= OPA_TAP
      /\ lag \in Int /\ VFIFO_SIZE \in Int /\ base \in Int
  BY Chains, Lengths, Eye DEF IInv, TypeOK
<1>2. mid \in Nat /\ 2 * mid <= bgn + end /\ bgn + end <= 2 * mid + 1
  OBVIOUS
<1> HIDE DEF mid
<1>3. /\ eye.width - 2 * OPA_TAP <= 2 * (mid + E)
      /\ 2 * (mid + E) <= eye.width + OPA_TAP
  BY <1>1, <1>2
<1>4. PICK q \in Int : before % Cycle \in 0 .. Cycle - 1 /\ before = q * Cycle + (before % Cycle)
  <2>1. before \in Int
    BY <1>2
  <2> HIDE DEF before
  <2> QED
    BY <1>1, <2>1, DivMod
<1>5. inner \in Nat /\ inner - 1 \in Nat /\ inner = mid - q * Cycle
  <2>1. q * Cycle \in Int
    BY <1>1
  <2> QED
    BY <1>1, <1>2, <1>4, <2>1
<1> HIDE DEF inner
<1>6. p \in Nat /\ inner - 1 - p * OPA_TAP \in 0 .. OPA_TAP - 1
  BY <1>1, <1>5, DivRest
<1>7. p * OPA_TAP \in Nat
  BY <1>1, <1>6
<1> HIDE DEF p
<1>8. y \in Nat
  BY <1>1, <1>5, <1>6, <1>7
<1> HIDE DEF y
<1>9. d \in Nat /\ y - d * DCHAIN_TAP \in 0 .. DCHAIN_TAP - 1
  BY <1>1, <1>8, DivRest
<1> HIDE DEF d
<1>19. d * DCHAIN_TAP \in Nat
  BY <1>1, <1>9
<1>10. c = IF p = 0 THEN [p |-> 1, d |-> 0] ELSE [p |-> p, d |-> d]
  BY DEF Centred, d, y, p, inner, before, mid
<1> HIDE DEF c
<1> DEFINE pos == c.p * OPA_TAP + c.d * DCHAIN_TAP
<1>11. pos \in Int /\ 0 <= pos - inner /\ pos - inner <= OPA_TAP - 1
  <2>1. CASE p = 0
    <3>1. c.p * OPA_TAP + c.d * DCHAIN_TAP = OPA_TAP
      BY <1>1, <1>10, <2>1
    <3>2. 0 <= OPA_TAP - inner /\ OPA_TAP - inner <= OPA_TAP - 1
      BY <1>1, <1>5, <1>6, <2>1
    <3> QED
      BY <1>1, <3>1, <3>2
  <2>2. CASE p # 0
    <3>1. c.p * OPA_TAP + c.d * DCHAIN_TAP = p * OPA_TAP + d * DCHAIN_TAP
      BY <1>10, <2>2
    <3>2. y = inner - p * OPA_TAP + DCHAIN_TAP - 1
      BY DEF y
    <3>3. /\ p * OPA_TAP + d * DCHAIN_TAP \in Int
          /\ 0 <= p * OPA_TAP + d * DCHAIN_TAP - inner
          /\ p * OPA_TAP + d * DCHAIN_TAP - inner <= OPA_TAP - 1
      BY <1>1, <1>5, <1>6, <1>7, <1>9, <1>19, <3>2
    <3>4. pos = p * OPA_TAP + d * DCHAIN_TAP
      BY <3>1 DEF pos
    <3> HIDE DEF pos
    <3> QED
      BY <1>5, <1>7, <1>19, <3>3, <3>4
  <2> QED
    BY <2>1, <2>2
<1> HIDE DEF pos
<1>12. q * Cycle \in Int
  BY <1>1
<1>13. PICK m \in Int : m = pos + E + q * Cycle
  BY <1>11, <1>12
<1>14. 2 * m >= eye.width - 3 * OPA_TAP /\ 2 * m <= eye.width + 3 * OPA_TAP
  <2>1. m = mid + E + (pos - inner)
    BY <1>2, <1>5, <1>11, <1>12, <1>13
  <2> QED
    BY <1>1, <1>2, <1>3, <1>5, <1>11, <2>1
<1>15. PICK k \in Int : Start - eye.lo = E + k * Ring
  BY DEF Origin
<1>16. pos - eye.lo = m + (k * VFIFO_SIZE - base - q) * Cycle
  <2>1. k * Ring = (k * VFIFO_SIZE) * Cycle
    BY <1>1, Lengths
  <2>2. k * VFIFO_SIZE \in Int
    BY <1>1
  <2>3. (k * VFIFO_SIZE - base - q) * Cycle = (k * VFIFO_SIZE) * Cycle - base * Cycle - q * Cycle
    BY <1>1, <2>2
  <2>4. (k * VFIFO_SIZE) * Cycle \in Int /\ base * Cycle \in Int
    BY <1>1, <2>2
  <2>5. base * Cycle - eye.lo = E + (k * VFIFO_SIZE) * Cycle
    BY <1>15, <2>1 DEF Start
  <2> QED
    BY <1>1, <1>11, <1>12, <1>13, <2>3, <2>4, <2>5
<1>17. k * VFIFO_SIZE - base - q \in Int
  BY <1>1
<1>18. (c.p * OPA_TAP + c.d * DCHAIN_TAP) - eye.lo = m + (k * VFIFO_SIZE - base - q) * Cycle
  BY <1>16 DEF pos
<1>20. \E j \in Int : (c.p * OPA_TAP + c.d * DCHAIN_TAP) - eye.lo = m + j * Cycle
  BY <1>17, <1>18
<1> QED
  BY <1>14, <1>20 DEF c

\* Step 6 from edges that are near the window's keeps its centre near.
LEMMA CentreEye ==
  ASSUME EyeSetting, IInv, Wide, NEW E \in Int, Origin(E), NEW lag \in {0, OPA_TAP},
         BeginNear(E, lag), NEW end \in Nat,
         eye.width - OPA_TAP < end + lag + E, end + lag + E <= eye.width,
         NEW x \in Settings, NEW n \in {DtapsPerPtap, DtapsPerPtap + 1},
         Centre(x, work_bgn, end, n), eye' = eye
  PROVE  EyeInv'
<1> DEFINE c == Centred(work_bgn, end)
<1>1. work_bgn \in Nat
  BY DEF IInv, TypeOK
<1>2. PICK m \in Int :
        /\ 2 * m >= eye.width - 3 * OPA_TAP /\ 2 * m <= eye.width + 3 * OPA_TAP
        /\ \E j \in Int : (c.p * OPA_TAP + c.d * DCHAIN_TAP) - eye.lo = m + j * Cycle
  BY <1>1, CentreNear DEF BeginNear
<1>3. c.p \in 0 .. PHASE_MAX /\ c.d \in 0 .. DELAY_MAX
  BY <1>1, CentredType, Chains
<1>4. at' = "centre" /\ s' = At(x, c.p, c.d) /\ dtaps' = n
  BY DEF Centre
<1> HIDE DEF c
<1>5. s'.p = c.p /\ s'.d = c.d
  BY <1>3, <1>4, AtType
<1>6. OnCentre(m)'
  BY <1>2, <1>5 DEF OnCentre
<1> QED
  BY <1>4, <1>6 DEF EyeInv, NearMiddle

\* The edge lies between a delay tap that passed and one that failed, or behind
\* the last delay tap of a phase whose next is phase 0.
LEMMA FindEdgeEye ==
  ASSUME EyeSetting, IInv, CountInv, Wide, EyeInv, FindEdge
  PROVE  EyeInv'
<1>1. at = "dtap" /\ UNCHANGED <<eye, base, work_bgn>> /\ dtaps = DtapsPerPtap
  BY DEF FindEdge, EyeInv
<1>2. PICK E \in Int, lag \in {0, OPA_TAP} : Origin(E) /\ OnEdge(E, lag)
  BY <1>1 DEF EyeInv, InWindow
<1>3. Origin(E)'
  BY <1>1, <1>2 DEF Origin, Start
<1> DEFINE e == work_end + lag + E
           f == e - s.d * DCHAIN_TAP
<1>4. /\ work_end \in Nat /\ lag \in Int /\ OPA_TAP \in Nat \ {0} /\ DCHAIN_TAP \in Nat \ {0}
      /\ Ring \in Nat /\ eye.width \in Nat /\ work_end + lag \in Int /\ e \in Int
      /\ s.d \in 0 .. DELAY_MAX /\ s.d * DCHAIN_TAP \in Nat /\ f \in Int
      /\ 4 * OPA_TAP <= eye.width /\ eye.width + 3 * OPA_TAP < Ring /\ DCHAIN_TAP <= OPA_TAP
      /\ DELAY_MAX * DCHAIN_TAP < 2 * OPA_TAP /\ OPA_TAP <= DELAY_MAX * DCHAIN_TAP
      /\ DELAY_MAX * DCHAIN_TAP \in Nat
  BY <1>2, Moves, CountTypes, Chains, Eye, Lengths DEF IInv, TypeOK
<1>5. /\ Follows(Start, s, work_end + lag) /\ BeginNear(E, lag)
      /\ 0 <= f /\ f <= eye.width /\ eye.width < f + StepFrom(s.p)
      /\ s.d > 0 => e - DCHAIN_TAP <= eye.width
  <2>1. /\ Follows(Start, s, work_end + lag) /\ BeginNear(E, lag)
        /\ 0 <= work_end + lag + E - s.d * DCHAIN_TAP
        /\ work_end + lag + E - s.d * DCHAIN_TAP <= eye.width
        /\ eye.width < work_end + lag + E - s.d * DCHAIN_TAP + StepFrom(s.p)
        /\ s.d > 0 => work_end + lag + E - DCHAIN_TAP <= eye.width
    BY <1>2 DEF OnEdge, InEye
  <2>2. StepFrom(s.p) \in Int
    BY <1>4 DEF StepFrom
  <2> QED
    BY <1>4, <2>1, <2>2
<1>6. 0 <= e /\ e <= eye.width + DCHAIN_TAP /\ (s.d = 0 => e <= eye.width)
  <2>1. f = e - s.d * DCHAIN_TAP
    OBVIOUS
  <2> HIDE DEF e, f
  <2>2. CASE s.d = 0
    <3>1. s.d * DCHAIN_TAP = 0
      BY <1>4, <2>2
    <3>2. f = e
      BY <1>4, <2>1, <3>1
    <3> QED
      BY <1>4, <1>5, <3>2
  <2>3. CASE s.d # 0
    <3>1. e - DCHAIN_TAP <= eye.width
      BY <1>4, <1>5, <2>3
    <3> QED
      BY <1>4, <1>5, <2>1, <2>3, <3>1
  <2> QED
    BY <2>2, <2>3
<1>7. /\ Passes(TRUE) => e <= eye.width
      /\ Passes(FALSE) => eye.width < e
  <2>1. eye.width - Ring < e /\ e < Ring
    <3> HIDE DEF e
    <3> QED
      BY <1>4, <1>6
  <2>2. (Passes(TRUE) => InEye(e)) /\ (Passes(FALSE) => ~InEye(e))
    BY <1>2, <1>4, <1>5, <2>1, ReadsAt
  <2> HIDE DEF e
  <2>3. (InEye(e) <=> e <= eye.width) /\ (~(e <= eye.width) => eye.width < e)
    BY <1>4, <1>6 DEF InEye
  <2> QED
    BY <2>2, <2>3, Zenon
<1>8. ASSUME Passes(TRUE), s.d < DELAY_MAX, s' = At(s, s.p, s.d + 1),
             work_end' = work_end + DCHAIN_TAP, UNCHANGED <<at, dtaps>>
      PROVE  EyeInv'
  <2>1. s'.p = s.p /\ s'.d = s.d + 1
    BY <1>8, Moves, Chains
  <2>2. s'.d * DCHAIN_TAP = s.d * DCHAIN_TAP + DCHAIN_TAP
    BY <1>4, <2>1
  <2>3. Follows(Start, s', (work_end + lag) + DCHAIN_TAP)
    BY <1>4, <1>5, <1>8, Moves, CountTypes, FollowsNextDelay
  <2>4. /\ work_end' + lag = (work_end + lag) + DCHAIN_TAP
        /\ work_end' + lag + E - s'.d * DCHAIN_TAP = f
        /\ work_end' + lag + E - DCHAIN_TAP = e
    BY <1>4, <1>8, <2>2
  <2> HIDE DEF e, f
  <2>5. e <= eye.width
    BY <1>7, <1>8
  <2>6. InEye(work_end + lag + E - s.d * DCHAIN_TAP)'
    BY <1>1, <1>5, <2>4 DEF InEye
  <2>7. eye'.width < work_end' + lag + E - s'.d * DCHAIN_TAP + StepFrom(s'.p)
    BY <1>1, <1>5, <2>1, <2>4
  <2>8. BeginNear(E, lag)'
    BY <1>1, <1>5 DEF BeginNear
  <2>9. Follows(Start, s, work_end + lag)'
    BY <1>1, <2>3, <2>4 DEF Follows, Start
  <2>10. s'.d > 0 => work_end' + lag + E - DCHAIN_TAP <= eye'.width
    BY <1>1, <2>4, <2>5
  <2>11. OnEdge(E, lag)'
    BY <2>6, <2>7, <2>8, <2>9, <2>10 DEF OnEdge
  <2>12. InWindow(E)'
    BY <1>1, <1>2, <1>3, <1>8, <2>11 DEF InWindow
  <2> QED
    BY <1>1, <1>8, <2>12, Enters
<1>9. ASSUME Passes(TRUE), s.d = DELAY_MAX, Centre(BackPhase(s, s.d), work_bgn, work_end, dtaps)
      PROVE  EyeInv'
  <2>1. eye.width - OPA_TAP < e /\ e <= eye.width
    <3>1. StepFrom(s.p) \in Int /\ StepFrom(s.p) <= 2 * OPA_TAP
      BY <1>4 DEF StepFrom
    <3>2. f = e - DELAY_MAX * DCHAIN_TAP
      BY <1>9
    <3>3. e <= eye.width
      BY <1>7, <1>9
    <3> HIDE DEF e, f
    <3> QED
      BY <1>4, <1>5, <3>1, <3>2, <3>3
  <2>2. BackPhase(s, s.d) \in Settings
    BY <1>4, Moves, Chains, BackPhaseType
  <2> QED
    BY <1>1, <1>2, <1>4, <1>5, <1>9, <2>1, <2>2, CentreEye
<1>10. ASSUME Passes(FALSE), at' = "pass", s' = BackPhase(s, s.d), edge' = s.d,
              work_end' = (IF s.d = 0 THEN work_end ELSE work_end - DCHAIN_TAP), UNCHANGED dtaps
       PROVE  EyeInv'
  <2> DEFINE step == StepTo(s.p)
  <2>1. eye.width < e /\ s.d > 0 /\ work_end' = work_end - DCHAIN_TAP
    <3>1. eye.width < e
      BY <1>7, <1>10
    <3> HIDE DEF e, f
    <3>2. s.d # 0
      BY <1>4, <1>6, <3>1
    <3> QED
      BY <1>4, <1>10, <3>1, <3>2
  <2>2. /\ step \in Int /\ OPA_TAP <= step /\ step <= 2 * OPA_TAP
        /\ (s.p # 1 => step = OPA_TAP) /\ (s.p = 1 => step = 2 * OPA_TAP)
    BY <1>4 DEF StepTo
  <2>3. Follows(eye.lo, s', e - step) /\ s'.d = s.d
    <3>1. Follows(eye.lo, s, (work_end + lag) + E) /\ eye.lo \in Int /\ s.p >= 1 /\ s \in Settings
      BY <1>2, <1>4, <1>5, Deep, Eye, Moves
    <3>2. e = (work_end + lag) + E
      BY <1>4
    <3>3. s'.d = s.d
      BY <1>4, <1>10, <3>1, BackPhaseType
    <3> HIDE DEF e
    <3>4. Follows(eye.lo, s', e - step)
      BY <1>4, <1>10, <3>1, <3>2, FollowsBackPhase
    <3> QED
      BY <3>3, <3>4
  <2>11. PICK g \in Int : g = f - step
    BY <1>4, <2>2
  <2>4. e - step = g + s.d * DCHAIN_TAP /\ (s.d - 1) * DCHAIN_TAP = s.d * DCHAIN_TAP - DCHAIN_TAP
    <3>1. f = e - s.d * DCHAIN_TAP
      OBVIOUS
    <3>2. (s.d - 1) * DCHAIN_TAP = s.d * DCHAIN_TAP - DCHAIN_TAP
      BY <1>4
    <3> HIDE DEF e, f, step
    <3>3. e - step = g + s.d * DCHAIN_TAP
      BY <1>4, <2>2, <2>11, <3>1
    <3> QED
      BY <3>2, <3>3
  <2>5. work_end' + lag + E = e - DCHAIN_TAP
    BY <1>4, <2>1
  <2>10. f = e - s.d * DCHAIN_TAP
    OBVIOUS
  <2> HIDE DEF e, f, step
  <2>6. OnTrack(g)'
    <3>1. Follows(eye.lo, s, g + s.d * DCHAIN_TAP)'
      BY <1>1, <2>3, <2>4 DEF Follows
    <3>2. eye.width - 2 * OPA_TAP < g + s.d * DCHAIN_TAP /\ g + s.d * DCHAIN_TAP <= eye.width
      BY <1>4, <1>6, <2>1, <2>2, <2>4
    <3>3. CASE s.p # 1
      <4>1. /\ g + OPA_TAP + (s.d - 1) * DCHAIN_TAP <= eye.width
            /\ eye.width < g + OPA_TAP + s.d * DCHAIN_TAP
        BY <1>4, <1>5, <2>1, <2>2, <2>4, <3>3
      <4> QED
        BY <1>1, <1>10, <2>3, <3>1, <3>2, <4>1 DEF OnTrack
    <3>4. CASE s.p = 1
      <4>1. g + DELAY_MAX * DCHAIN_TAP <= eye.width
        BY <1>4, <1>5, <2>2, <2>4, <2>11, <3>4
      <4> QED
        BY <1>1, <1>10, <2>3, <3>1, <3>2, <4>1 DEF OnTrack
    <3> QED
      BY <3>3, <3>4
  <2>7. BeginNear(E, lag)'
    BY <1>1, <1>5 DEF BeginNear
  <2>8. EndNear(E, lag)'
    <3>1. eye.width - OPA_TAP < e - DCHAIN_TAP /\ e - DCHAIN_TAP <= eye.width
      BY <1>4, <1>6, <2>1
    <3> QED
      BY <1>1, <2>5, <3>1 DEF EndNear
  <2>9. InWindow(E)'
    BY <1>2, <1>3, <1>10, <2>4, <2>6, <2>7, <2>8 DEF InWindow
  <2> QED
    BY <1>1, <1>10, <2>9, Enters
<1>11. CASE at' = "none"
  BY <1>11, GivesUp
<1>12. PICK ok \in BOOLEAN :
         /\ Passes(ok)
         /\ \/ /\ ok /\ s.d < DELAY_MAX /\ s' = At(s, s.p, s.d + 1)
               /\ work_end' = work_end + DCHAIN_TAP /\ UNCHANGED <<at, dtaps>>
            \/ /\ ok /\ s.d = DELAY_MAX
               /\ Centre(BackPhase(s, s.d), work_bgn, work_end, dtaps)
            \/ /\ ~ok /\ at' = "pass" /\ s' = BackPhase(s, s.d) /\ edge' = s.d
               /\ work_end' = (IF s.d = 0 THEN work_end ELSE work_end - DCHAIN_TAP)
               /\ UNCHANGED dtaps
            \/ at' = "none"
  BY DEF FindEdge
<1>13. CASE ok
  <2>1. Passes(TRUE)
    BY <1>12, <1>13, Zenon
  <2> QED
    BY <1>8, <1>9, <1>11, <1>12, <1>13, <2>1
<1>14. CASE ~ok
  <2>1. Passes(FALSE)
    BY <1>12, <1>14
  <2> QED
    BY <1>10, <1>11, <1>12, <1>14, <2>1
<1> QED
  BY <1>13, <1>14

\* Delay taps that reach past a phase tap, one less of which do not, are the
\* delay taps of a phase or one more.
LEMMA OnePhase ==
  ASSUME NEW n \in Int, OPA_TAP < (n + 1) * DCHAIN_TAP, (n - 1) * DCHAIN_TAP < OPA_TAP
  PROVE  n \in {DtapsPerPtap, DtapsPerPtap + 1}
<1> DEFINE y == OPA_TAP + DCHAIN_TAP - 1
           q == y \div DCHAIN_TAP
<1>1. OPA_TAP \in Nat \ {0} /\ DCHAIN_TAP \in Nat \ {0}
  BY Chains
<1>2. y \in Nat /\ y = OPA_TAP + DCHAIN_TAP - 1
  BY <1>1
<1> HIDE DEF y
<1>3. q \in Nat /\ y - q * DCHAIN_TAP \in 0 .. DCHAIN_TAP - 1
  BY <1>1, <1>2, DivRest
<1> HIDE DEF q
<1>4. q * DCHAIN_TAP \in Nat
  BY <1>1, <1>3
<1>5. (n + 1) * DCHAIN_TAP = n * DCHAIN_TAP + DCHAIN_TAP
      /\ (n - 1) * DCHAIN_TAP = n * DCHAIN_TAP - DCHAIN_TAP /\ n * DCHAIN_TAP \in Int
  BY <1>1
<1>6. ASSUME n <= q - 2 PROVE FALSE
  <2>1. (q - 2 - n) * DCHAIN_TAP >= 0
    BY <1>1, <1>3, <1>6
  <2>2. (q - 2 - n) * DCHAIN_TAP = (q * DCHAIN_TAP - 2 * DCHAIN_TAP) - n * DCHAIN_TAP
    BY <1>1, <1>3
  <2> QED
    BY <1>1, <1>2, <1>3, <1>4, <1>5, <2>1, <2>2
<1>7. ASSUME n >= q + 1 PROVE FALSE
  <2>1. (n - (q + 1)) * DCHAIN_TAP >= 0
    BY <1>1, <1>3, <1>7
  <2>2. (n - (q + 1)) * DCHAIN_TAP = n * DCHAIN_TAP - (q * DCHAIN_TAP + DCHAIN_TAP)
    BY <1>1, <1>3
  <2> QED
    BY <1>1, <1>2, <1>3, <1>4, <1>5, <2>1, <2>2
<1>8. n = q - 1 \/ n = q
  BY <1>3, <1>6, <1>7
<1>9. DtapsPerPtap = q - 1
  BY DEF DtapsPerPtap, q, y
<1> QED
  BY <1>3, <1>8, <1>9

\* What tracking starts from: a centre it goes to keeps the invariant.
LEMMA TrackEye ==
  ASSUME EyeSetting, IInv, Wide, EyeInv, at \in {"pass", "fail"}
  PROVE  /\ dtaps = DtapsPerPtap
         /\ \E E \in Int : Origin(E)
         /\ \E f \in Int : OnTrack(f)
         /\ \A n \in {DtapsPerPtap, DtapsPerPtap + 1} :
              Centre(s, work_bgn, work_end, n) /\ eye' = eye => EyeInv'
         /\ \A f \in Int : OnTrack(f)' /\ at' \in {"pass", "fail"}
                           /\ UNCHANGED <<eye, base, work_bgn, work_end, dtaps>> => EyeInv'
<1>1. dtaps = DtapsPerPtap
  BY DEF EyeInv
<1>2. PICK E \in Int, lag \in {0, OPA_TAP}, f \in Int :
        Origin(E) /\ BeginNear(E, lag) /\ EndNear(E, lag) /\ OnTrack(f)
  BY DEF EyeInv, InWindow
<1>3. ASSUME NEW n \in {DtapsPerPtap, DtapsPerPtap + 1},
             Centre(s, work_bgn, work_end, n), eye' = eye
      PROVE  EyeInv'
  <2>1. s \in Settings /\ work_end \in Nat
    BY DEF IInv, TypeOK
  <2>2. eye.width - OPA_TAP < work_end + lag + E /\ work_end + lag + E <= eye.width
    BY <1>2 DEF EndNear
  <2> QED
    BY <1>2, <1>3, <2>1, <2>2, CentreEye
<1>4. ASSUME NEW g \in Int, OnTrack(g)', at' \in {"pass", "fail"},
             UNCHANGED <<eye, base, work_bgn, work_end, dtaps>>
      PROVE  EyeInv'
  <2>1. Origin(E)' /\ BeginNear(E, lag)' /\ EndNear(E, lag)'
    BY <1>2, <1>4 DEF Origin, Start, BeginNear, EndNear
  <2>2. InWindow(E)'
    BY <1>2, <1>4, <2>1 DEF InWindow
  <2> QED
    BY <1>1, <1>4, <2>2, Enters
<1> QED
  BY <1>1, <1>2, <1>3, <1>4

\* The numbers of the delay taps tracking counts.
LEMMA TrackTypes ==
  ASSUME EyeSetting, IInv, Wide, NEW f \in Int
  PROVE  /\ edge \in Nat /\ edge * DCHAIN_TAP \in Nat
         /\ s \in Settings /\ s.d \in 0 .. DELAY_MAX /\ s.d * DCHAIN_TAP \in Nat
         /\ f + s.d * DCHAIN_TAP \in Int
         /\ (s.d + 1) * DCHAIN_TAP = s.d * DCHAIN_TAP + DCHAIN_TAP
         /\ (s.d - 1) * DCHAIN_TAP = s.d * DCHAIN_TAP - DCHAIN_TAP
         /\ (edge - 1) * DCHAIN_TAP = edge * DCHAIN_TAP - DCHAIN_TAP
         /\ OPA_TAP \in Nat \ {0} /\ DCHAIN_TAP \in Nat \ {0} /\ Ring \in Nat /\ eye.width \in Nat
         /\ 4 * OPA_TAP <= eye.width /\ eye.width + 3 * OPA_TAP < Ring /\ DCHAIN_TAP <= OPA_TAP
<1>1. edge \in Nat /\ s \in Settings /\ s.d \in 0 .. DELAY_MAX
  BY Moves, Chains DEF IInv, TypeOK
<1>2. /\ OPA_TAP \in Nat \ {0} /\ DCHAIN_TAP \in Nat \ {0} /\ Ring \in Nat /\ eye.width \in Nat
      /\ 4 * OPA_TAP <= eye.width /\ eye.width + 3 * OPA_TAP < Ring /\ DCHAIN_TAP <= OPA_TAP
  BY Chains, Eye, Lengths
<1>3. edge * DCHAIN_TAP \in Nat /\ s.d * DCHAIN_TAP \in Nat
  BY <1>1, <1>2
<1>4. /\ (s.d + 1) * DCHAIN_TAP = s.d * DCHAIN_TAP + DCHAIN_TAP
      /\ (s.d - 1) * DCHAIN_TAP = s.d * DCHAIN_TAP - DCHAIN_TAP
      /\ (edge - 1) * DCHAIN_TAP = edge * DCHAIN_TAP - DCHAIN_TAP
  BY <1>1, <1>2
<1>5. f + s.d * DCHAIN_TAP \in Int
  BY <1>3
<1> QED
  BY <1>1, <1>2, <1>3, <1>4, <1>5

\* The first read of tracking, a phase back, passes.
LEMMA TrackPassEye ==
  ASSUME EyeSetting, IInv, Wide, EyeInv, TrackPass
  PROVE  EyeInv'
<1>1. at = "pass" /\ UNCHANGED <<eye, work_bgn, work_end, edge, base>>
  BY DEF TrackPass
<1>2. PICK f \in Int : OnTrack(f)
  BY <1>1, TrackEye
<1>3. /\ Follows(eye.lo, s, f + s.d * DCHAIN_TAP) /\ s.d = edge
      /\ eye.width - 2 * OPA_TAP < f + edge * DCHAIN_TAP
      /\ f + edge * DCHAIN_TAP <= eye.width
  BY <1>1, <1>2 DEF OnTrack
<1> DEFINE x == f + s.d * DCHAIN_TAP
<1>4. x \in Int /\ eye.width - 2 * OPA_TAP < x /\ x <= eye.width
  BY <1>3, TrackTypes
<1>5. ~Passes(FALSE)
  <2> HIDE DEF x
  <2>1. eye.width - Ring < x /\ x < Ring /\ InEye(x)
    BY <1>4, TrackTypes DEF InEye
  <2>2. Follows(eye.lo, s, x)
    BY <1>3 DEF x
  <2> QED
    BY <1>4, <2>1, <2>2, ReadsDeep
<1>6. ASSUME at' = "fail", s.d < DELAY_MAX, s' = At(s, s.p, s.d + 1), UNCHANGED dtaps
      PROVE  EyeInv'
  <2>1. s'.d = s.d + 1
    BY <1>6, Moves, Chains
  <2>2. Follows(eye.lo, s', f + s.d * DCHAIN_TAP + DCHAIN_TAP)
    BY <1>3, <1>6, TrackTypes, Eye, FollowsNextDelay
  <2>3. f + s.d * DCHAIN_TAP + DCHAIN_TAP = f + s'.d * DCHAIN_TAP
        /\ s'.d - 1 = s.d
    BY <2>1, TrackTypes
  <2>4. Follows(eye.lo, s, f + s.d * DCHAIN_TAP)'
    BY <1>1, <2>2, <2>3 DEF Follows
  <2>5. OnTrack(f)'
    BY <1>1, <1>2, <1>3, <1>6, <2>3, <2>4 DEF OnTrack
  <2> QED
    BY <1>1, <1>6, <2>5, TrackEye
<1>7. ASSUME Centre(s, work_bgn, work_end, dtaps) PROVE EyeInv'
  BY <1>1, <1>7, TrackEye
<1>8. PICK ok \in BOOLEAN :
         /\ Passes(ok)
         /\ \/ /\ s.d < DELAY_MAX /\ at' = (IF ok THEN "fail" ELSE at)
               /\ s' = At(s, s.p, s.d + 1) /\ UNCHANGED dtaps
            \/ Centre(s, work_bgn, work_end, dtaps)
  BY DEF TrackPass
<1>9. ok
  BY <1>5, <1>8, Zenon
<1> QED
  BY <1>6, <1>7, <1>8, <1>9

\* The delay taps from the edge a phase on to the edge from here are a phase's.
LEMMA TrackFailEye ==
  ASSUME EyeSetting, IInv, Wide, EyeInv, TrackFail
  PROVE  EyeInv'
<1>1. /\ at = "fail" /\ UNCHANGED <<eye, work_bgn, work_end, edge, base>>
      /\ edge < s.d
  BY DEF TrackFail, IInv, EdgeBehind
<1>2. PICK f \in Int : OnTrack(f)
  BY <1>1, TrackEye
<1>3. /\ Follows(eye.lo, s, f + s.d * DCHAIN_TAP)
      /\ eye.width - 2 * OPA_TAP < f + edge * DCHAIN_TAP
      /\ f + (s.d - 1) * DCHAIN_TAP <= eye.width
      /\ \/ /\ f + OPA_TAP + (edge - 1) * DCHAIN_TAP <= eye.width
            /\ eye.width < f + OPA_TAP + edge * DCHAIN_TAP
         \/ f + DELAY_MAX * DCHAIN_TAP <= eye.width
  BY <1>1, <1>2 DEF OnTrack
<1> DEFINE x == f + s.d * DCHAIN_TAP
<1>4. /\ x \in Int /\ eye.width - 2 * OPA_TAP < x /\ x <= eye.width + DCHAIN_TAP
  <2>1. (s.d - edge) * DCHAIN_TAP >= 0
    BY <1>1, TrackTypes
  <2>2. (s.d - edge) * DCHAIN_TAP = s.d * DCHAIN_TAP - edge * DCHAIN_TAP
    BY TrackTypes
  <2>3. s.d * DCHAIN_TAP - edge * DCHAIN_TAP >= 0
    BY <2>1, <2>2
  <2> QED
    BY <1>3, <2>3, TrackTypes
<1>5. /\ Passes(TRUE) => x <= eye.width
      /\ Passes(FALSE) => eye.width < x
  <2> HIDE DEF x
  <2>1. eye.width - Ring < x /\ x < Ring
    BY <1>4, TrackTypes
  <2>2. Follows(eye.lo, s, x)
    BY <1>3 DEF x
  <2>3. (InEye(x) <=> x <= eye.width) /\ (~(x <= eye.width) => eye.width < x)
    BY <1>4, TrackTypes DEF InEye
  <2>4. (Passes(TRUE) => InEye(x)) /\ (Passes(FALSE) => ~InEye(x))
    BY <1>4, <2>1, <2>2, ReadsDeep
  <2> QED
    BY <2>3, <2>4, Zenon
<1>6. ASSUME Passes(TRUE), s.d < DELAY_MAX, s' = At(s, s.p, s.d + 1), UNCHANGED <<at, dtaps>>
      PROVE  EyeInv'
  <2>1. s'.d = s.d + 1
    BY <1>6, Moves, Chains
  <2>2. Follows(eye.lo, s', f + s.d * DCHAIN_TAP + DCHAIN_TAP)
    BY <1>3, <1>6, TrackTypes, Eye, FollowsNextDelay
  <2>3. f + s.d * DCHAIN_TAP + DCHAIN_TAP = f + s'.d * DCHAIN_TAP
        /\ s'.d - 1 = s.d
    BY <2>1, TrackTypes
  <2>4. Follows(eye.lo, s, f + s.d * DCHAIN_TAP)'
    BY <1>1, <2>2, <2>3 DEF Follows
  <2>5. f + (s'.d - 1) * DCHAIN_TAP <= eye.width
    BY <1>5, <1>6, <2>3
  <2>6. OnTrack(f)'
    BY <1>1, <1>3, <1>6, <2>4, <2>5 DEF OnTrack
  <2> QED
    BY <1>1, <1>6, <2>6, TrackEye
<1>7. ASSUME Centre(s, work_bgn, work_end, dtaps) PROVE EyeInv'
  BY <1>1, <1>7, TrackEye
<1>8. ASSUME Passes(FALSE), Centre(s, work_bgn, work_end, s.d - edge) PROVE EyeInv'
  <2>1. eye.width < x
    BY <1>5, <1>8
  <2>2. ~(f + DELAY_MAX * DCHAIN_TAP <= eye.width)
    <3>1. (DELAY_MAX - s.d) * DCHAIN_TAP >= 0 /\ DELAY_MAX \in Nat
      BY TrackTypes, Chains
    <3>2. (DELAY_MAX - s.d) * DCHAIN_TAP = DELAY_MAX * DCHAIN_TAP - s.d * DCHAIN_TAP
          /\ DELAY_MAX * DCHAIN_TAP \in Int
      BY TrackTypes, Chains
    <3>3. DELAY_MAX * DCHAIN_TAP - s.d * DCHAIN_TAP >= 0
      BY <3>1, <3>2
    <3> QED
      BY <2>1, <3>2, <3>3, TrackTypes
  <2> DEFINE n == s.d - edge
  <2>3. n \in Int /\ (n + 1) * DCHAIN_TAP = (s.d * DCHAIN_TAP - edge * DCHAIN_TAP) + DCHAIN_TAP
        /\ (n - 1) * DCHAIN_TAP = (s.d * DCHAIN_TAP - edge * DCHAIN_TAP) - DCHAIN_TAP
    BY TrackTypes
  <2> HIDE DEF n
  <2>4. OPA_TAP < (n + 1) * DCHAIN_TAP /\ (n - 1) * DCHAIN_TAP < OPA_TAP
    BY <1>3, <2>1, <2>2, <2>3, TrackTypes
  <2>5. n \in {DtapsPerPtap, DtapsPerPtap + 1}
    BY <2>3, <2>4, OnePhase
  <2>6. Centre(s, work_bgn, work_end, n)
    BY <1>8 DEF n
  <2> QED
    BY <1>1, <2>5, <2>6, TrackEye
<1>9. PICK ok \in BOOLEAN :
         /\ Passes(ok)
         /\ \/ /\ ok /\ s.d < DELAY_MAX
               /\ s' = At(s, s.p, s.d + 1) /\ UNCHANGED <<at, dtaps>>
            \/ ok /\ Centre(s, work_bgn, work_end, dtaps)
            \/ ~ok /\ Centre(s, work_bgn, work_end, s.d - edge)
  BY DEF TrackFail
<1>10. CASE ok
  <2>1. Passes(TRUE)
    BY <1>9, <1>10, Zenon
  <2> QED
    BY <1>6, <1>7, <1>9, <1>10, <2>1
<1>11. CASE ~ok
  <2>1. Passes(FALSE)
    BY <1>9, <1>11
  <2> QED
    BY <1>8, <1>9, <1>11, <2>1
<1> QED
  BY <1>10, <1>11

\* Two depths a number of whole cycles apart and less than a cycle apart are
\* one.
LEMMA SameCycle ==
  ASSUME NEW a \in Int, NEW b \in Int, NEW t \in Int, a = b + t * Cycle,
         a - b < Cycle, b - a < Cycle
  PROVE  a = b
<1>1. Cycle \in Nat \ {0} /\ t * Cycle \in Int
  BY Lengths
<1>2. ASSUME t >= 1 PROVE FALSE
  <2>1. (t - 1) * Cycle >= 0 /\ (t - 1) * Cycle = t * Cycle - Cycle
    BY <1>1, <1>2
  <2> QED
    BY <1>1, <2>1
<1>3. ASSUME t <= -1 PROVE FALSE
  <2>1. (-1 - t) * Cycle >= 0 /\ (-1 - t) * Cycle = -Cycle - t * Cycle
    BY <1>1, <1>3
  <2> QED
    BY <1>1, <2>1
<1>4. t = 0
  BY <1>2, <1>3
<1> QED
  BY <1>1, <1>4

\* The place of the FIFO in which the centre passes is the window's.
LEMMA PassesInPlace ==
  ASSUME EyeSetting, IInv, Wide, NEW m \in Int, OnCentre(m), Passes(TRUE)
  PROVE  Depth(eye, Position(s)) = m
<1> DEFINE n     == Position(s) - eye.lo
           depth == n % Ring
<1>1. /\ Position(s) \in Int /\ eye.lo \in Int /\ eye.width \in Nat /\ Ring \in Nat \ {0}
      /\ s.v \in Int /\ VFIFO_SIZE \in Int /\ Cycle \in Nat /\ s.p \in Int /\ s.d \in Int
      /\ OPA_TAP \in Nat \ {0} /\ DCHAIN_TAP \in Nat \ {0}
      /\ eye.width + 3 * OPA_TAP < 2 * Cycle /\ eye.width + 3 * OPA_TAP < Ring
      /\ Position(s) = s.v * Cycle + s.p * OPA_TAP + s.d * DCHAIN_TAP
      /\ Ring = VFIFO_SIZE * Cycle
  BY Moves, PositionType, Eye, Lengths, Chains
<1>2. n \in Int
  BY <1>1
<1>3. PICK q \in Int : depth \in 0 .. Ring - 1 /\ n = q * Ring + depth
  <2> HIDE DEF n
  <2> QED
    BY <1>1, <1>2, DivMod
<1>4. depth \in Int /\ 0 <= depth /\ depth < Ring
  <2> HIDE DEF depth
  <2> QED
    BY <1>1, <1>3
<1> HIDE DEF depth
<1>5. q * Ring \in Int
  BY <1>1
<1>6. Follows(eye.lo, s, depth)
  <2>1. Position(s) - eye.lo = depth + q * Ring
    BY <1>3, <1>4, <1>5
  <2> QED
    BY <2>1 DEF Follows
<1>7. 0 <= depth /\ depth <= eye.width
  <2>1. eye.width - Ring < depth
    BY <1>1, <1>4
  <2>2. InEye(depth)
    BY <1>4, <1>6, <2>1, ReadsDeep
  <2> QED
    BY <2>2 DEF InEye
<1>8. PICK j \in Int : (s.p * OPA_TAP + s.d * DCHAIN_TAP) - eye.lo = m + j * Cycle
  BY DEF OnCentre
<1>9. 2 * m >= eye.width - 3 * OPA_TAP /\ 2 * m <= eye.width + 3 * OPA_TAP
  BY DEF OnCentre
<1> DEFINE t == j + s.v - q * VFIFO_SIZE
<1>10. depth = m + t * Cycle
  <2>1. q * Ring = (q * VFIFO_SIZE) * Cycle /\ q * VFIFO_SIZE \in Int
    BY <1>1
  <2>2. t * Cycle = j * Cycle + s.v * Cycle - (q * VFIFO_SIZE) * Cycle
    BY <1>1, <2>1
  <2>3. j * Cycle \in Int /\ s.v * Cycle \in Int /\ (q * VFIFO_SIZE) * Cycle \in Int
        /\ s.p * OPA_TAP \in Int /\ s.d * DCHAIN_TAP \in Int
    BY <1>1, <2>1
  <2> HIDE DEF t
  <2>4. s.v * Cycle + ((s.p * OPA_TAP + s.d * DCHAIN_TAP) - eye.lo) = q * Ring + depth
    BY <1>1, <1>3, <2>3
  <2> QED
    BY <1>4, <1>8, <2>1, <2>2, <2>3, <2>4
<1>11. t \in Int
  BY <1>1
<1> HIDE DEF t
<1>12. depth - m < Cycle /\ m - depth < Cycle
  BY <1>1, <1>4, <1>7, <1>9
<1>13. depth = m
  BY <1>4, <1>10, <1>11, <1>12, SameCycle
<1> QED
  BY <1>13 DEF depth, n, Depth

\* Step 6 tries the places of the FIFO with the taps of the centre and keeps the
\* one that passes.
LEMMA FindCentreEye ==
  ASSUME EyeSetting, IInv, Wide, EyeInv, FindCentre
  PROVE  EyeInv'
<1>1. /\ at = "centre" /\ UNCHANGED <<eye, dtaps>>
      /\ dtaps \in {DtapsPerPtap, DtapsPerPtap + 1}
  BY DEF FindCentre, EyeInv
<1>2. PICK m \in Int : OnCentre(m)
  BY <1>1 DEF EyeInv
<1>3. ASSUME Passes(TRUE), at' = "found", UNCHANGED s PROVE EyeInv'
  <2>1. Depth(eye, Position(s)) = m
    BY <1>2, <1>3, PassesInPlace
  <2>2. 2 * m >= eye.width - 3 * OPA_TAP /\ 2 * m <= eye.width + 3 * OPA_TAP
    BY <1>2 DEF OnCentre
  <2>3. NearMiddle'
    BY <1>1, <1>3, <2>1, <2>2 DEF NearMiddle, Depth, Position
  <2>4. OnCentre(m)'
    BY <1>1, <1>2, <1>3 DEF OnCentre
  <2> QED
    BY <1>1, <1>3, <2>3, <2>4 DEF EyeInv
<1>4. ASSUME s' = Incr(s), at' = "centre" PROVE EyeInv'
  <2>1. s'.p = s.p /\ s'.d = s.d
    BY <1>4, Moves
  <2>2. OnCentre(m)'
    BY <1>1, <1>2, <2>1 DEF OnCentre
  <2>3. NearMiddle'
    BY <1>4 DEF NearMiddle
  <2> QED
    BY <1>1, <1>4, <2>2, <2>3 DEF EyeInv
<1>5. CASE at' = "none"
  BY <1>5, GivesUp
<1>6. PICK ok \in BOOLEAN :
        /\ Passes(ok)
        /\ \/ ok /\ at' = "found" /\ UNCHANGED s
           \/ ~ok /\ s' = Incr(s) /\ at' \in {"none", "centre"}
  BY <1>1 DEF FindCentre
<1>7. CASE ok
  <2>1. Passes(TRUE)
    BY <1>6, <1>7, Zenon
  <2> QED
    BY <1>3, <1>6, <1>7, <2>1
<1>8. CASE ~ok
  BY <1>4, <1>5, <1>6, <1>8
<1> QED
  BY <1>7, <1>8

\* The invariant is kept by every step of the search in a wide window.
LEMMA NextEye ==
  EyeSetting /\ IInv /\ CountInv /\ (Wide => EyeInv) /\ [Next]_vars => (Wide => EyeInv)'
<1> SUFFICES ASSUME EyeSetting, IInv, CountInv, Wide => EyeInv, [Next]_vars, Wide'
             PROVE  EyeInv'
  OBVIOUS
<1>1. eye' = eye
  BY DEF Next, vars, Hunt, FindBegin, BackoffStep, FindEnd, FindEdge, TrackPass, TrackFail,
         FindCentre
<1>2. Wide /\ EyeInv
  BY <1>1 DEF Wide
<1>3. CASE UNCHANGED vars
  BY <1>2, <1>3 DEF vars, EyeInv, NearMiddle, Wide, Depth, Position, InWindow, Origin, Start,
     OnBegin, OnBackoff, OnEnd, OnEdge, OnTrack, OnCentre, InEye, BeginNear, EndNear, Follows
<1> QED
  BY <1>2, <1>3, HuntEye, FindBeginEye, BackoffStepEye, FindEndEye, FindEdgeEye, TrackPassEye,
     TrackFailEye, FindCentreEye DEF Next

\* Both halves of the invariant, along every run.
LEMMA EyeInductive ==
  ASSUME EyeSetting
  PROVE  Spec => [](IInv /\ CountInv /\ (Wide => EyeInv))
<1>1. Init => CountInv
  BY DEF Init, CountInv
<1>2. Init => EyeInv
  BY DEF Init, EyeInv, NearMiddle
<1>3. IInv /\ CountInv /\ (Wide => EyeInv) /\ [Next]_vars
        => (IInv /\ CountInv /\ (Wide => EyeInv))'
  BY NextKeeps, NextCounts, NextEye
<1> QED
  BY <1>1, <1>2, <1>3, InitIInv, PTL DEF Spec

----------------------------------------------------------------------------
(* The results.                                                             *)

\* In a window as wide as the search is built for, the setting that
\* rw_mgr_mem_calibrate_vfifo_find_dqs_en_phase keeps samples within a phase
\* tap and a half of the middle: the edges its loops count are near the
\* window's, and only one place of the FIFO passes with the centre's taps.
THEOREM KeepsNearMiddle ==
  ASSUME EyeSetting
  PROVE  Spec => []NearMiddle
<1>1. IInv /\ CountInv /\ (Wide => EyeInv) => NearMiddle
  BY DEF EyeInv, NearMiddle
<1> QED
  BY <1>1, EyeInductive, PTL

\* The delay taps that the same function measures from the end edge a phase back
\* to the end edge (dtaps_per_ptap), or the number it falls back to, span one
\* phase tap: the taps that first reach as far as a phase, or one more.
THEOREM SpansOnePhase ==
  ASSUME EyeSetting
  PROVE  Spec => []TracksOnePhase
<1>1. IInv /\ CountInv /\ (Wide => EyeInv) => TracksOnePhase
  BY DEF EyeInv, TracksOnePhase
<1> QED
  BY <1>1, EyeInductive, PTL

=============================================================================
