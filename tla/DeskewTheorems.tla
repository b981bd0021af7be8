---------------------------- MODULE DeskewTheorems ----------------------------
(* Proofs about both sides of the per-bit deskew: for any number of bits,   *)
(* chains of any length and any windows, and for the first two theorems     *)
(* whatever the memory answers.                                             *)
EXTENDS MCDeskew, TLAPS, WellFoundedInduction

----------------------------------------------------------------------------
\* The least of a set of integers that something bounds from below.
LEMMA LeastExists ==
  ASSUME NEW S \in SUBSET Int, S # {}, NEW n \in Int, \A x \in S : n <= x
  PROVE  Min(S) \in S /\ \A x \in S : Min(S) <= x
<1> DEFINE T == {x - n : x \in S}
<1>1. T \subseteq Nat /\ T # {}
  <2>1. \A x \in S : x - n \in Nat
    OBVIOUS
  <2> QED
    BY <2>1
<1>2. PICK m \in T : \A y \in T : ~ (<<y, m>> \in OpToRel(<, Nat))
  BY <1>1, NatLessThanWellFounded, WFMin
<1> HIDE DEF T
<1>3. \A y \in T : m <= y
  <2> TAKE y \in T
  <2>1. y \in Nat /\ m \in Nat /\ ~ (y < m)
    BY <1>1, <1>2 DEF OpToRel
  <2> QED
    BY <2>1
<1>4. PICK x \in S : m = x - n
  BY <1>2 DEF T
<1>5. \A y \in S : x <= y
  <2> TAKE y \in S
  <2>1. y - n \in T
    BY DEF T
  <2>2. m <= y - n /\ y \in Int /\ x \in Int
    BY <2>1, <1>3
  <2> QED
    BY <2>2, <1>4
<1>6. Min(S) = CHOOSE y \in S : \A z \in S : y =< z
  BY DEF Min
<1> QED
  BY <1>5, <1>6

\* A number attached to every bit, between bounds: the least is one of them.
LEMMA LeastOverBits ==
  ASSUME NEW f \in [Bits -> Int], NEW n \in Int, \A i \in Bits : n <= f[i]
  PROVE  LET m == Min({f[i] : i \in Bits})
         IN  m \in Int /\ n <= m /\ (\E i \in Bits : m = f[i]) /\ \A i \in Bits : m <= f[i]
<1> DEFINE S == {f[i] : i \in Bits}
<1>1. S \in SUBSET Int /\ S # {} /\ \A x \in S : n <= x
  BY DeskewAssumption DEF Bits
<1>2. Min(S) \in S /\ \A x \in S : Min(S) <= x
  BY <1>1, LeastExists
<1> QED
  BY <1>1, <1>2

----------------------------------------------------------------------------
\* The two sides have the same code with chains of different lengths: the
\* operators of Deskew for chains of max taps.
None(max)            == max + 1
EdgeValues(max)      == -None(max) .. None(max)
EdgesOf(max)         == [Bits -> [l : EdgeValues(max), r : EdgeValues(max)]]
LeftTo(e, n, ok, max) ==
  [i \in Bits |->
     IF i \in ok THEN [e[i] EXCEPT !.l = n]
     ELSE IF e[i].l = None(max) THEN [e[i] EXCEPT !.r = -(n + 1)]
     ELSE e[i]]
ClearedTo(e, max) ==
  [i \in Bits |-> IF e[i].l = None(max) THEN [e[i] EXCEPT !.r = None(max)] ELSE e[i]]
RightTo(e, n, ok, max) ==
  [i \in Bits |->
     IF i \in ok THEN [e[i] EXCEPT !.r = n]
     ELSE IF e[i].r # None(max) THEN e[i]
     ELSE IF n = 0 /\ e[i].l # None(max) THEN [e[i] EXCEPT !.r = -1]
     ELSE [e[i] EXCEPT !.l = -(n + 1)]]
BothOf(e, max)       == {i \in Bits : e[i].l # None(max) /\ e[i].r # None(max)}
ShiftTo(e, i, m, max) == Clamp(Half(Off(e, i) - Least(e)) + MidMin(e) - m, max)
MarginsTo(e, m, max) ==
  [dq  |-> Min({None(max)} \cup {e[i].l - ShiftTo(e, i, m, max) - m : i \in Bits}),
   dqs |-> Min({None(max)} \cup {e[i].r + ShiftTo(e, i, m, max) + m : i \in Bits})]

\* They are the operators of the read side ...
LEMMA ReadSideIs ==
  /\ Illegal = None(DELAY_MAX)
  /\ \A e, n, ok : /\ LeftEdges(e, n, ok) = LeftTo(e, n, ok, DELAY_MAX)
                   /\ RightEdges(e, n, ok) = RightTo(e, n, ok, DELAY_MAX)
  /\ \A e : Cleared(e) = ClearedTo(e, DELAY_MAX) /\ HasBoth(e) = BothOf(e, DELAY_MAX)
  /\ \A e, i, m : ShiftDq(e, i, m) = ShiftTo(e, i, m, DELAY_MAX)
  /\ \A e, m : Margins(e, m) = MarginsTo(e, m, DELAY_MAX)
<1>1. Illegal = None(DELAY_MAX)
  BY DEF Illegal, None
<1>2. \A e, n, ok : /\ LeftEdges(e, n, ok) = LeftTo(e, n, ok, DELAY_MAX)
                    /\ RightEdges(e, n, ok) = RightTo(e, n, ok, DELAY_MAX)
  BY <1>1 DEF LeftEdges, RightEdges, LeftTo, RightTo
<1>3. \A e : Cleared(e) = ClearedTo(e, DELAY_MAX) /\ HasBoth(e) = BothOf(e, DELAY_MAX)
  BY <1>1 DEF Cleared, ClearedTo, HasBoth, BothOf
<1>4. \A e, i, m : ShiftDq(e, i, m) = ShiftTo(e, i, m, DELAY_MAX)
  BY DEF ShiftDq, ShiftTo
<1>5. \A e, m : Margins(e, m) = MarginsTo(e, m, DELAY_MAX)
  BY <1>1, <1>4 DEF Margins, MarginsTo
<1> QED
  BY <1>1, <1>2, <1>3, <1>4, <1>5

\* ... and, of chains of WRITE_MAX taps, those of the write side.
LEMMA WriteSideIs ==
  /\ W!Bits = Bits /\ W!Illegal = None(WRITE_MAX)
  /\ \A e, n, ok : /\ W!LeftEdges(e, n, ok) = LeftTo(e, n, ok, WRITE_MAX)
                   /\ W!RightEdges(e, n, ok) = RightTo(e, n, ok, WRITE_MAX)
  /\ \A e : W!Cleared(e) = ClearedTo(e, WRITE_MAX) /\ W!HasBoth(e) = BothOf(e, WRITE_MAX)
  /\ \A e, i, m : W!ShiftDq(e, i, m) = ShiftTo(e, i, m, WRITE_MAX)
  /\ \A e, m : W!Margins(e, m) = MarginsTo(e, m, WRITE_MAX)
<1>1. W!Bits = Bits /\ W!Illegal = None(WRITE_MAX)
  BY DEF W!Illegal, None, W!Bits, Bits
<1>2. \A e, n, ok : /\ W!LeftEdges(e, n, ok) = LeftTo(e, n, ok, WRITE_MAX)
                    /\ W!RightEdges(e, n, ok) = RightTo(e, n, ok, WRITE_MAX)
  BY <1>1 DEF W!LeftEdges, W!RightEdges, LeftTo, RightTo
<1>3. \A e : W!Cleared(e) = ClearedTo(e, WRITE_MAX) /\ W!HasBoth(e) = BothOf(e, WRITE_MAX)
  BY <1>1 DEF W!Cleared, ClearedTo, W!HasBoth, BothOf
<1>4. \A e, i, m : W!ShiftDq(e, i, m) = ShiftTo(e, i, m, WRITE_MAX)
  <2>1. \A n, m : W!Half(n) = Half(n) /\ W!Clamp(n, m) = Clamp(n, m)
    BY DEF W!Half, Half, W!Clamp, Clamp
  <2>2. \A e, i : W!Off(e, i) = Off(e, i)
    BY DEF W!Off, Off
  <2>3. \A e : W!Least(e) = Least(e)
    BY <1>1, <2>2 DEF W!Least, Least, W!Min, Min
  <2>4. \A e : W!MidMin(e) = MidMin(e)
    BY <2>1, <2>3 DEF W!MidMin, MidMin
  <2> QED
    BY <2>1, <2>2, <2>3, <2>4 DEF W!ShiftDq, ShiftTo
<1>5. \A e, m : W!Margins(e, m) = MarginsTo(e, m, WRITE_MAX)
  <2> TAKE e, m
  <2>1. \A S : W!Min(S) = Min(S)
    BY DEF W!Min, Min
  <2>2. \A i : W!ShiftDq(e, i, m) = ShiftTo(e, i, m, WRITE_MAX)
    BY <1>4
  <2> DEFINE A == {e[i].l - ShiftTo(e, i, m, WRITE_MAX) - m : i \in Bits}
             B == {e[i].r + ShiftTo(e, i, m, WRITE_MAX) + m : i \in Bits}
  <2>3. /\ {e[i].l - W!ShiftDq(e, i, m) - m : i \in W!Bits} = A
        /\ {e[i].r + W!ShiftDq(e, i, m) + m : i \in W!Bits} = B
    BY <1>1, <2>2
  <2>4. W!Margins(e, m) = [dq |-> W!Min({W!Illegal} \cup A), dqs |-> W!Min({W!Illegal} \cup B)]
    BY <2>3 DEF W!Margins
  <2>5. MarginsTo(e, m, WRITE_MAX)
        = [dq |-> Min({None(WRITE_MAX)} \cup A), dqs |-> Min({None(WRITE_MAX)} \cup B)]
    BY DEF MarginsTo
  <2> QED
    BY <1>1, <2>1, <2>4, <2>5
<1> QED
  BY <1>1, <1>2, <1>3, <1>4, <1>5

\* The edges stay numbers of the chain.
LEMMA EdgesStay ==
  ASSUME NEW max \in Nat, NEW e \in EdgesOf(max), NEW n \in 0 .. max, NEW ok \in SUBSET Bits
  PROVE  /\ LeftTo(e, n, ok, max) \in EdgesOf(max)
         /\ RightTo(e, n, ok, max) \in EdgesOf(max)
         /\ ClearedTo(e, max) \in EdgesOf(max)
<1>1. n \in EdgeValues(max) /\ -(n + 1) \in EdgeValues(max) /\ -1 \in EdgeValues(max)
      /\ None(max) \in EdgeValues(max)
  BY DEF EdgeValues, None
<1> QED
  BY <1>1 DEF EdgesOf, LeftTo, RightTo, ClearedTo

----------------------------------------------------------------------------
\* Halving loses at most one, towards zero.
LEMMA HalfIsNear ==
  ASSUME NEW n \in Int
  PROVE  /\ Half(n) \in Int
         /\ n >= 0 => Half(n) >= 0 /\ 2 * Half(n) \in {n - 1, n}
         /\ n <= 0 => Half(n) <= 0 /\ 2 * Half(n) \in {n, n + 1}
BY DEF Half

\* The least distance is that of some bit, and mid_min is half of it, rounded
\* up.
LEMMA LeastKnown ==
  ASSUME NEW max \in Nat, NEW e \in EdgesOf(max)
  PROVE  /\ \A i \in Bits : Off(e, i) \in Int /\ Least(e) <= Off(e, i)
         /\ Least(e) \in Int /\ MidMin(e) \in Int
         /\ 2 * MidMin(e) \in {Least(e), Least(e) + 1}
<1> DEFINE f == [i \in Bits |-> Off(e, i)]
<1>1. \A i \in Bits : Off(e, i) \in Int /\ -2 * None(max) <= Off(e, i)
  BY DEF EdgesOf, EdgeValues, None, Off
<1>2. f \in [Bits -> Int] /\ \A i \in Bits : -2 * None(max) <= f[i]
  BY <1>1
<1>3. Least(e) = Min({f[i] : i \in Bits})
  BY DEF Least
<1>4. Least(e) \in Int /\ \A i \in Bits : Least(e) <= f[i]
  <2> HIDE DEF f
  <2>1. -2 * None(max) \in Int
    BY DEF None
  <2> QED
    BY <1>2, <1>3, <2>1, LeastOverBits
<1>5. MidMin(e) = Half(IF Least(e) > 0 THEN Least(e) + 1 ELSE Least(e))
  BY DEF MidMin
<1>6. MidMin(e) \in Int /\ 2 * MidMin(e) \in {Least(e), Least(e) + 1}
  <2>1. CASE Least(e) > 0
    BY <2>1, <1>4, <1>5, HalfIsNear
  <2>2. CASE ~ (Least(e) > 0)
    <3>1. Least(e) <= 0 /\ MidMin(e) = Half(Least(e))
      BY <2>2, <1>4, <1>5
    <3> QED
      BY <3>1, <1>4, HalfIsNear
  <2> QED
    BY <2>1, <2>2
<1> QED
  BY <1>1, <1>4, <1>6

\* The delay of a pin stays within its chain.
LEMMA ShiftStays ==
  ASSUME NEW max \in Nat, NEW e \in EdgesOf(max), NEW i \in Bits, NEW m \in Int
  PROVE  /\ Half(Off(e, i) - Least(e)) \in Int
         /\ ShiftTo(e, i, m, max) \in 0 .. max
<1>1. Off(e, i) - Least(e) \in Int /\ MidMin(e) \in Int
  BY LeastKnown
<1>2. Half(Off(e, i) - Least(e)) \in Int
  BY <1>1, HalfIsNear
<1> QED
  BY <1>1, <1>2 DEF ShiftTo, Clamp

\* The margins are the least over the bits of what is left to their edges.
LEMMA MarginsAreLeast ==
  ASSUME NEW max \in Nat, NEW e \in EdgesOf(max), NEW m \in Int
  PROVE  LET g == MarginsTo(e, m, max)
             u(i) == e[i].l - ShiftTo(e, i, m, max) - m
             v(i) == e[i].r + ShiftTo(e, i, m, max) + m
         IN  /\ g.dq \in Int /\ g.dqs \in Int /\ g = [dq |-> g.dq, dqs |-> g.dqs]
             /\ \A i \in Bits : g.dq <= u(i) /\ g.dqs <= v(i)
             /\ (\A i \in Bits : u(i) >= 0 /\ v(i) >= 0) => g.dq >= 0 /\ g.dqs >= 0
<1> DEFINE u(i) == e[i].l - ShiftTo(e, i, m, max) - m
           v(i) == e[i].r + ShiftTo(e, i, m, max) + m
           U == {None(max)} \cup {u(i) : i \in Bits}
           V == {None(max)} \cup {v(i) : i \in Bits}
           n == -None(max) - max - (IF m >= 0 THEN m ELSE -m)
<1>1. /\ n \in Int /\ None(max) \in Int /\ n <= None(max)
      /\ \A i \in Bits : u(i) \in Int /\ v(i) \in Int /\ n <= u(i) /\ n <= v(i)
  BY ShiftStays DEF EdgesOf, EdgeValues, None
<1>2. MarginsTo(e, m, max) = [dq |-> Min(U), dqs |-> Min(V)]
  BY DEF MarginsTo
<1>3. None(max) >= 0
  BY DEF None
<1> HIDE DEF u, v, n
<1>4. U \in SUBSET Int /\ U # {} /\ \A x \in U : n <= x
  BY <1>1
<1>5. V \in SUBSET Int /\ V # {} /\ \A x \in V : n <= x
  BY <1>1
<1>6. Min(U) \in U /\ \A x \in U : Min(U) <= x
  <2> HIDE DEF U
  <2> QED
    BY <1>1, <1>4, LeastExists
<1>7. Min(V) \in V /\ \A x \in V : Min(V) <= x
  <2> HIDE DEF V
  <2> QED
    BY <1>1, <1>5, LeastExists
<1>8. Min(U) \in Int /\ Min(V) \in Int
  BY <1>4, <1>5, <1>6, <1>7
<1>9. \A i \in Bits : Min(U) <= u(i) /\ Min(V) <= v(i)
  BY <1>6, <1>7
<1>10. (\A i \in Bits : u(i) >= 0 /\ v(i) >= 0) => Min(U) >= 0 /\ Min(V) >= 0
  BY <1>6, <1>7, <1>3
<1> HIDE DEF U, V
<1>11. /\ MarginsTo(e, m, max).dq = Min(U) /\ MarginsTo(e, m, max).dqs = Min(V)
       /\ MarginsTo(e, m, max)
          = [dq |-> MarginsTo(e, m, max).dq, dqs |-> MarginsTo(e, m, max).dqs]
  BY <1>2
<1> QED
  BY <1>8, <1>9, <1>10, <1>11 DEF u, v

----------------------------------------------------------------------------
(* Whatever the memory answers: where the delays are at every test.         *)

ReadPlaces ==
  /\ at = "left" => dq = All(d) /\ dqs = start
  /\ at = "right" => dq = All(0) /\ dqs = start + d /\ d <= DQS_IN_MAX - start
  /\ at \in {"left", "right", "found"} => failing = NoBit

ReadStands == TypeOK /\ edge \in EdgesOf(DELAY_MAX) /\ ReadPlaces /\ FailureRestores

LEMMA ReadStandsAtFirst == Init => ReadStands
<1> SUFFICES ASSUME Init PROVE ReadStands
  OBVIOUS
<1> USE DeskewAssumption, ReadCenterAssumption
<1>1. edge \in EdgesOf(DELAY_MAX)
  BY DEF Init, NoEdges, EdgesOf, EdgeValues, None, Illegal
<1>2. edge \in [Bits -> [l : Int, r : Int]] /\ margin \in [dq : Int, dqs : Int]
  BY DEF Init, NoEdges, Illegal
<1>3. TypeOK
  BY <1>2 DEF TypeOK, Init, Stages, All, NoBit
<1>4. ReadPlaces /\ FailureRestores
  BY DEF ReadPlaces, FailureRestores, Init
<1> QED
  BY <1>1, <1>3, <1>4 DEF ReadStands

LEMMA EdgesAreNumbers ==
  ASSUME NEW max \in Nat, NEW e \in EdgesOf(max)
  PROVE  e \in [Bits -> [l : Int, r : Int]]
BY DEF EdgesOf, EdgeValues, None

LEMMA LeftKeepsStanding == ReadStands /\ Left => ReadStands'
<1> SUFFICES ASSUME ReadStands, Left PROVE ReadStands'
  OBVIOUS
<1> USE DeskewAssumption, ReadCenterAssumption
<1>1. PICK ok \in SUBSET Bits :
        LET e == IF Stops(ok, sticky) THEN edge ELSE LeftEdges(edge, d, ok)
        IN  IF Stops(ok, sticky) \/ d = DELAY_MAX
            THEN /\ at' = "right" /\ d' = 0
                 /\ dq' = All(0)
                 /\ edge' = Cleared(e)
                 /\ sticky' = HasBoth(Cleared(e))
            ELSE /\ d' = d + 1
                 /\ dq' = All(d + 1)
                 /\ edge' = e
                 /\ sticky' = sticky \cup ok
                 /\ UNCHANGED at
  BY DEF Left
<1> DEFINE e == IF Stops(ok, sticky) THEN edge ELSE LeftTo(edge, d, ok, DELAY_MAX)
<1>2. at = "left" /\ UNCHANGED <<eye, dqs, start, margin, failing>>
  BY DEF Left
<1>3. TypeOK /\ edge \in EdgesOf(DELAY_MAX) /\ d \in 0 .. DELAY_MAX
  BY DEF ReadStands, TypeOK
<1>4. e \in EdgesOf(DELAY_MAX)
  BY <1>3, EdgesStay
<1>5. /\ e = IF Stops(ok, sticky) THEN edge ELSE LeftEdges(edge, d, ok)
      /\ Cleared(e) = ClearedTo(e, DELAY_MAX)
  BY ReadSideIs
<1>6. dqs = start /\ start \in 0 .. DQS_IN_MAX /\ failing = NoBit
  BY <1>2 DEF ReadStands, ReadPlaces, TypeOK
<1>7. CASE Stops(ok, sticky) \/ d = DELAY_MAX
  <2>1. /\ at' = "right" /\ d' = 0 /\ dq' = All(0) /\ edge' = ClearedTo(e, DELAY_MAX)
        /\ sticky' \subseteq Bits
    BY <1>1, <1>5, <1>7 DEF HasBoth
  <2>2. edge' \in EdgesOf(DELAY_MAX)
    BY <2>1, <1>4, EdgesStay
  <2>3. edge' \in [Bits -> [l : Int, r : Int]]
    BY <2>2, EdgesAreNumbers
  <2>4. TypeOK'
    BY <1>2, <1>3, <2>1, <2>3 DEF TypeOK, Stages, All
  <2>5. ReadPlaces' /\ FailureRestores'
    BY <1>2, <1>6, <2>1 DEF ReadPlaces, FailureRestores, All
  <2> QED
    BY <2>2, <2>4, <2>5 DEF ReadStands
<1>8. CASE ~ (Stops(ok, sticky) \/ d = DELAY_MAX)
  <2>1. /\ at' = "left" /\ d' = d + 1 /\ dq' = All(d + 1) /\ edge' = e
        /\ sticky' = sticky \cup ok /\ d' \in 0 .. DELAY_MAX
    BY <1>1, <1>2, <1>3, <1>5, <1>8
  <2>2. edge' \in [Bits -> [l : Int, r : Int]]
    BY <2>1, <1>4, EdgesAreNumbers
  <2>3. TypeOK'
    BY <1>2, <1>3, <2>1, <2>2 DEF TypeOK, Stages, All
  <2>4. ReadPlaces' /\ FailureRestores'
    BY <1>2, <1>6, <2>1 DEF ReadPlaces, FailureRestores, All
  <2> QED
    BY <1>4, <2>1, <2>3, <2>4 DEF ReadStands
<1> QED
  BY <1>7, <1>8

\* The bit that is reported is a bit.
LEMMA ReportedIsBit ==
  ASSUME NEW S \in SUBSET Bits, S # {}
  PROVE  Min(S) \in S
<1>1. S \in SUBSET Int /\ \A x \in S : 0 <= x
  BY DEF Bits
<1> QED
  BY <1>1, LeastExists

LEMMA RightKeepsStanding == ReadStands /\ Right => ReadStands'
<1> SUFFICES ASSUME ReadStands, Right PROVE ReadStands'
  OBVIOUS
<1> USE DeskewAssumption, ReadCenterAssumption
<1>1. PICK ok \in SUBSET Bits :
        LET last == Stops(ok, sticky) \/ d = DQS_IN_MAX - start
            e    == IF Stops(ok, sticky) THEN edge ELSE RightEdges(edge, d, ok)
        IN  /\ edge' = e
            /\ sticky' = sticky \cup ok
            /\ \/ ~last /\ d' = d + 1 /\ dqs' = dqs + 1
                  /\ UNCHANGED <<at, dq, margin, failing>>
               \/ last /\ HasBoth(e) # Bits /\ GiveUp(e) /\ UNCHANGED d
               \/ last /\ HasBoth(e) = Bits /\ Settle(e) /\ UNCHANGED d
  BY DEF Right
<1> DEFINE last == Stops(ok, sticky) \/ d = DQS_IN_MAX - start
           e == IF Stops(ok, sticky) THEN edge ELSE RightTo(edge, d, ok, DELAY_MAX)
<1>2. at = "right" /\ UNCHANGED <<eye, start>>
  BY DEF Right
<1>3. TypeOK /\ edge \in EdgesOf(DELAY_MAX) /\ d \in 0 .. DELAY_MAX
  BY DEF ReadStands, TypeOK
<1>4. e \in EdgesOf(DELAY_MAX)
  BY <1>3, EdgesStay
<1>5. e = IF Stops(ok, sticky) THEN edge ELSE RightEdges(edge, d, ok)
  BY ReadSideIs
<1>6. /\ dq = All(0) /\ dqs = start + d /\ d <= DQS_IN_MAX - start
      /\ start \in 0 .. DQS_IN_MAX /\ failing = NoBit
  BY <1>2 DEF ReadStands, ReadPlaces, TypeOK
<1>7. /\ edge' = e /\ edge' \in EdgesOf(DELAY_MAX) /\ edge' \in [Bits -> [l : Int, r : Int]]
      /\ sticky' \subseteq Bits
  BY <1>1, <1>3, <1>4, <1>5, EdgesAreNumbers DEF TypeOK
<1>8. CASE ~last /\ d' = d + 1 /\ dqs' = dqs + 1 /\ UNCHANGED <<at, dq, margin, failing>>
  <2>1. d' <= DQS_IN_MAX - start
    BY <1>3, <1>6, <1>8
  <2>2. TypeOK'
    BY <1>2, <1>3, <1>6, <1>7, <1>8, <2>1 DEF TypeOK
  <2>3. ReadPlaces' /\ FailureRestores'
    BY <1>2, <1>3, <1>6, <1>8, <2>1 DEF ReadPlaces, FailureRestores, All
  <2> QED
    BY <1>7, <2>2, <2>3 DEF ReadStands
<1>9. CASE last /\ HasBoth(e) # Bits /\ GiveUp(e) /\ UNCHANGED d
  <2>1. /\ at' = "none" /\ dqs' = start /\ UNCHANGED <<dq, margin>>
        /\ failing' = Min(Bits \ HasBoth(e))
    BY <1>9 DEF GiveUp
  <2>2. failing' \in Bits
    BY <2>1, <1>9, ReportedIsBit DEF HasBoth
  <2>3. TypeOK'
    BY <1>2, <1>3, <1>6, <1>7, <1>9, <2>1, <2>2 DEF TypeOK, Stages
  <2>4. ReadPlaces' /\ FailureRestores'
    BY <1>2, <1>6, <2>1 DEF ReadPlaces, FailureRestores, All
  <2> QED
    BY <1>7, <2>3, <2>4 DEF ReadStands
<1>10. CASE last /\ HasBoth(e) = Bits /\ Settle(e) /\ UNCHANGED d
  <2> DEFINE new == Clamp(start - MidMin(e), DQS_IN_MAX)
  <2>1. MidMin(e) \in Int /\ new \in 0 .. DQS_IN_MAX /\ start - new \in Int
    BY <1>4, <1>6, LeastKnown DEF Clamp
  <2>2. /\ dqs' = new /\ margin' = Margins(e, start - new)
        /\ dq' = [i \in Bits |-> ShiftDq(e, i, start - new)]
        /\ at' \in {"found", "none"} /\ UNCHANGED failing
    BY <1>10 DEF Settle
  <2> HIDE DEF new, e
  <2>3. dq' \in [Bits -> 0 .. DELAY_MAX]
    <3>1. \A i \in Bits : ShiftDq(e, i, start - new) \in 0 .. DELAY_MAX
      BY <1>4, <2>1, ShiftStays, ReadSideIs
    <3> QED
      BY <2>2, <3>1
  <2>4. margin' \in [dq : Int, dqs : Int]
    <3>1. margin' = MarginsTo(e, start - new, DELAY_MAX)
      BY <2>2, ReadSideIs
    <3>2. /\ margin'.dq \in Int /\ margin'.dqs \in Int
          /\ margin' = [dq |-> margin'.dq, dqs |-> margin'.dqs]
      BY <3>1, <1>4, <2>1, MarginsAreLeast
    <3> QED
      BY <3>2
  <2>5. TypeOK'
    BY <1>2, <1>3, <1>7, <1>10, <2>1, <2>2, <2>3, <2>4 DEF TypeOK, Stages
  <2>6. ReadPlaces' /\ FailureRestores'
    BY <1>6, <2>2 DEF ReadPlaces, FailureRestores
  <2> QED
    BY <1>7, <2>5, <2>6 DEF ReadStands
<1> QED
  BY <1>1, <1>5, <1>8, <1>9, <1>10

LEMMA ReadStandsStill == ReadStands /\ UNCHANGED vars => ReadStands'
BY DEF ReadStands, TypeOK, ReadPlaces, FailureRestores, vars

----------------------------------------------------------------------------
\* The same of the write side, whose mask is searched last.  A run is on the
\* axis of the mask, or none.
OnAxis(run) == run.bgn >= -WRITE_MAX /\ run.end >= -WRITE_MAX

WritePlaces ==
  /\ w_at = "left" => w_out = [dq |-> All(w_d), dqs |-> w_start, dm |-> 0]
  /\ w_at = "right" => /\ w_out = [dq |-> All(0), dqs |-> w_start + w_d, dm |-> 0]
                       /\ w_d <= WRITE_MAX - w_start
  /\ w_at = "dm" => w_out = [dq |-> w_out.dq, dqs |-> w_start, dm |-> w_d]
  /\ w_at = "dqs" => /\ w_out = [dq |-> w_out.dq, dqs |-> w_start + w_d, dm |-> 0]
                     /\ w_d <= WRITE_MAX - w_start
  /\ w_at \in {"left", "right"} => w_curr = W!NoRun /\ w_best = W!NoRun /\ w_margin.dm = 0
  /\ w_at # "none" => w_failing = W!NoBit

WriteStands ==
  /\ W!TypeOK
  /\ w_edge \in EdgesOf(WRITE_MAX)
  /\ OnAxis(w_curr) /\ OnAxis(w_best)
  /\ WritePlaces

\* What the write side calls the same is the same.
LEMMA AllIs == \A x : W!All(x) = All(x)
BY WriteSideIs DEF W!All, All

LEMMA NoRunIs ==
  /\ W!NoRun = [bgn |-> None(WRITE_MAX), end |-> None(WRITE_MAX)]
  /\ W!NoRun \in [bgn : Int, end : Int] /\ OnAxis(W!NoRun)
BY WriteSideIs, WriteAssumption DEF W!NoRun, OnAxis, None

LEMMA WriteStandsAtFirst == W!Init => WriteStands
<1> SUFFICES ASSUME W!Init PROVE WriteStands
  OBVIOUS
<1> USE DeskewAssumption, WriteAssumption
<1>1. w_edge \in EdgesOf(WRITE_MAX)
  BY WriteSideIs DEF W!Init, W!NoEdges, EdgesOf, EdgeValues, None
<1>2. w_edge \in [Bits -> [l : Int, r : Int]]
  BY <1>1, EdgesAreNumbers
<1>3. w_out = [dq |-> All(0), dqs |-> w_start, dm |-> 0] /\ w_start \in 0 .. WRITE_MAX
  BY AllIs DEF W!Init, W!Delays
<1>4. w_out \in [dq : [Bits -> 0 .. WRITE_MAX], dqs : 0 .. WRITE_MAX, dm : 0 .. WRITE_MAX]
  BY <1>3 DEF All
<1>5. w_margin \in [dq : Int, dqs : Int, dm : Int] /\ w_margin.dm = 0
  BY WriteSideIs DEF W!Init, None
<1>6. /\ w_curr = W!NoRun /\ w_best = W!NoRun /\ w_at = "left" /\ w_d = 0
      /\ w_sticky = {} /\ w_failing = W!NoBit
  BY DEF W!Init
<1>7. W!TypeOK
  BY <1>2, <1>3, <1>4, <1>5, <1>6, NoRunIs, WriteSideIs
     DEF W!TypeOK, W!Init, W!Stages, W!Delays, W!NoBit
<1>8. WritePlaces
  BY <1>3, <1>5, <1>6 DEF WritePlaces
<1> QED
  BY <1>1, <1>6, <1>7, <1>8, NoRunIs DEF WriteStands

LEMMA WriteLeftKeepsStanding == WriteStands /\ W!Left => WriteStands'
<1> SUFFICES ASSUME WriteStands, W!Left PROVE WriteStands'
  OBVIOUS
<1> USE DeskewAssumption, WriteAssumption
<1>1. PICK ok \in SUBSET Bits :
        LET e == IF W!Stops(ok, w_sticky) THEN w_edge ELSE W!LeftEdges(w_edge, w_d, ok)
        IN  IF W!Stops(ok, w_sticky) \/ w_d = WRITE_MAX
            THEN /\ w_at' = "right" /\ w_d' = 0
                 /\ w_out' = [w_out EXCEPT !.dq = W!All(0)]
                 /\ w_edge' = W!Cleared(e)
                 /\ w_sticky' = W!HasLeft(W!Cleared(e))
            ELSE /\ w_d' = w_d + 1
                 /\ w_out' = [w_out EXCEPT !.dq = W!All(w_d + 1)]
                 /\ w_edge' = e
                 /\ w_sticky' = w_sticky \cup ok
                 /\ UNCHANGED w_at
  BY WriteSideIs DEF W!Left
<1> DEFINE e == IF W!Stops(ok, w_sticky) THEN w_edge ELSE LeftTo(w_edge, w_d, ok, WRITE_MAX)
<1>2. w_at = "left" /\ UNCHANGED <<w_eye, w_start, w_curr, w_best, w_margin, w_failing>>
  BY DEF W!Left
<1>3. W!TypeOK /\ w_edge \in EdgesOf(WRITE_MAX) /\ w_d \in 0 .. WRITE_MAX
      /\ w_sticky \subseteq Bits
  BY WriteSideIs DEF WriteStands, W!TypeOK, W!Delays
<1>4. e \in EdgesOf(WRITE_MAX)
  BY <1>3, EdgesStay
<1>5. /\ e = IF W!Stops(ok, w_sticky) THEN w_edge ELSE W!LeftEdges(w_edge, w_d, ok)
      /\ W!Cleared(e) = ClearedTo(e, WRITE_MAX)
  BY WriteSideIs
<1>6. /\ w_out = [dq |-> All(w_d), dqs |-> w_start, dm |-> 0] /\ w_start \in 0 .. WRITE_MAX
      /\ w_curr = W!NoRun /\ w_best = W!NoRun /\ w_margin.dm = 0 /\ w_failing = W!NoBit
  BY <1>2 DEF WriteStands, WritePlaces, W!TypeOK, W!Delays
<1>7. OnAxis(w_curr)' /\ OnAxis(w_best)'
  BY <1>2, <1>6, NoRunIs
<1>8. CASE W!Stops(ok, w_sticky) \/ w_d = WRITE_MAX
  <2>1. /\ w_at' = "right" /\ w_d' = 0 /\ w_out' = [w_out EXCEPT !.dq = All(0)]
        /\ w_edge' = ClearedTo(e, WRITE_MAX) /\ w_sticky' \subseteq Bits
    BY <1>1, <1>5, <1>8, AllIs, WriteSideIs DEF W!HasLeft
  <2>2. w_edge' \in EdgesOf(WRITE_MAX)
    BY <2>1, <1>4, EdgesStay
  <2>3. w_edge' \in [Bits -> [l : Int, r : Int]]
    BY <2>2, EdgesAreNumbers
  <2>4. w_out' = [dq |-> All(0), dqs |-> w_start, dm |-> 0]
    BY <2>1, <1>6
  <2>5. w_out' \in [dq : [Bits -> 0 .. WRITE_MAX], dqs : 0 .. WRITE_MAX, dm : 0 .. WRITE_MAX]
    BY <2>4, <1>6 DEF All
  <2>6. W!TypeOK'
    BY <1>2, <1>3, <2>1, <2>3, <2>5, WriteSideIs DEF W!TypeOK, W!Stages, W!Delays
  <2>7. WritePlaces'
    BY <1>2, <1>6, <2>1, <2>4 DEF WritePlaces, All
  <2> QED
    BY <1>7, <2>2, <2>6, <2>7 DEF WriteStands
<1>9. CASE ~ (W!Stops(ok, w_sticky) \/ w_d = WRITE_MAX)
  <2>1. /\ w_at' = "left" /\ w_d' = w_d + 1 /\ w_out' = [w_out EXCEPT !.dq = All(w_d + 1)]
        /\ w_edge' = e /\ w_sticky' = w_sticky \cup ok /\ w_d' \in 0 .. WRITE_MAX
    BY <1>1, <1>2, <1>3, <1>5, <1>9, AllIs
  <2>2. w_edge' \in [Bits -> [l : Int, r : Int]] /\ w_sticky' \subseteq Bits
    BY <2>1, <1>3, <1>4, EdgesAreNumbers
  <2>3. w_out' = [dq |-> All(w_d'), dqs |-> w_start, dm |-> 0]
    BY <2>1, <1>6
  <2>4. w_out' \in [dq : [Bits -> 0 .. WRITE_MAX], dqs : 0 .. WRITE_MAX, dm : 0 .. WRITE_MAX]
    BY <2>1, <2>3, <1>6 DEF All
  <2>5. W!TypeOK'
    BY <1>2, <1>3, <2>1, <2>2, <2>4, WriteSideIs DEF W!TypeOK, W!Stages, W!Delays
  <2>6. WritePlaces'
    BY <1>2, <1>6, <2>1, <2>3 DEF WritePlaces, All
  <2> QED
    BY <1>4, <1>7, <2>1, <2>5, <2>6 DEF WriteStands
<1> QED
  BY <1>8, <1>9



LEMMA WriteRightKeepsStanding == WriteStands /\ W!Right => WriteStands'
<1> SUFFICES ASSUME WriteStands, W!Right PROVE WriteStands'
  OBVIOUS
<1> USE DeskewAssumption, WriteAssumption
<1>1. PICK ok \in SUBSET Bits :
        LET stop == W!Stops(ok, w_sticky)
            last == stop \/ w_d = WRITE_MAX - w_start
            e    == IF stop /\ w_d > 0 THEN w_edge ELSE W!RightEdges(w_edge, w_d, ok)
        IN  /\ w_edge' = e
            /\ w_sticky' = w_sticky \cup ok
            /\ \/ ~last /\ w_d' = w_d + 1 /\ w_out' = [w_out EXCEPT !.dqs = @ + 1]
                  /\ UNCHANGED <<w_at, w_margin, w_failing>>
               \/ last /\ W!HasBoth(e) # W!Bits /\ W!GiveUp(e)
               \/ last /\ W!HasBoth(e) = W!Bits /\ W!Settle(e)
  BY WriteSideIs DEF W!Right
<1> DEFINE stop == W!Stops(ok, w_sticky)
           last == stop \/ w_d = WRITE_MAX - w_start
           e == IF stop /\ w_d > 0 THEN w_edge ELSE RightTo(w_edge, w_d, ok, WRITE_MAX)
<1>2. w_at = "right" /\ UNCHANGED <<w_eye, w_start, w_curr, w_best>>
  BY DEF W!Right
<1>3. W!TypeOK /\ w_edge \in EdgesOf(WRITE_MAX) /\ w_d \in 0 .. WRITE_MAX
      /\ w_sticky \subseteq Bits
  BY WriteSideIs DEF WriteStands, W!TypeOK, W!Delays
<1>4. e \in EdgesOf(WRITE_MAX)
  BY <1>3, EdgesStay
<1>5. /\ e = IF stop /\ w_d > 0 THEN w_edge ELSE W!RightEdges(w_edge, w_d, ok)
      /\ W!HasBoth(e) = BothOf(e, WRITE_MAX)
  BY WriteSideIs
<1>6. /\ w_out = [dq |-> All(0), dqs |-> w_start + w_d, dm |-> 0]
      /\ w_d <= WRITE_MAX - w_start /\ w_start \in 0 .. WRITE_MAX
      /\ w_curr = W!NoRun /\ w_best = W!NoRun /\ w_margin.dm = 0 /\ w_failing = W!NoBit
  BY <1>2 DEF WriteStands, WritePlaces, W!TypeOK, W!Delays
<1>7. OnAxis(w_curr)' /\ OnAxis(w_best)'
  BY <1>2, <1>6, NoRunIs
<1>8. /\ w_edge' = e /\ w_edge' \in EdgesOf(WRITE_MAX)
      /\ w_edge' \in [Bits -> [l : Int, r : Int]] /\ w_sticky' \subseteq Bits
  BY <1>1, <1>3, <1>4, <1>5, EdgesAreNumbers
<1> HIDE DEF e
<1>9. CASE ~last /\ w_d' = w_d + 1 /\ w_out' = [w_out EXCEPT !.dqs = @ + 1]
           /\ UNCHANGED <<w_at, w_margin, w_failing>>
  <2>1. /\ w_d' <= WRITE_MAX - w_start /\ w_d' \in 0 .. WRITE_MAX
        /\ w_out' = [dq |-> All(0), dqs |-> w_start + w_d', dm |-> 0]
    BY <1>3, <1>6, <1>9
  <2>2. w_out' \in [dq : [Bits -> 0 .. WRITE_MAX], dqs : 0 .. WRITE_MAX, dm : 0 .. WRITE_MAX]
    <3>1. w_start + (w_d + 1) \in 0 .. WRITE_MAX
      BY <2>1, <1>3, <1>6, <1>9
    <3> QED
      BY <2>1, <3>1, <1>6, <1>9 DEF All
  <2>3. W!TypeOK'
    BY <1>2, <1>3, <1>8, <1>9, <2>1, <2>2, WriteSideIs DEF W!TypeOK, W!Delays
  <2>4. WritePlaces'
    BY <1>2, <1>6, <1>9, <2>1 DEF WritePlaces, All
  <2> QED
    BY <1>7, <1>8, <2>3, <2>4 DEF WriteStands
<1>10. CASE last /\ W!HasBoth(e) # W!Bits /\ W!GiveUp(e)
  <2>1. /\ w_at' = "none" /\ UNCHANGED <<w_d, w_out, w_margin>>
        /\ w_failing' = W!Min(Bits \ BothOf(e, WRITE_MAX))
    BY <1>10, WriteSideIs DEF W!GiveUp
  <2>2. w_failing' \in Bits
    <3>1. \A S : W!Min(S) = Min(S)
      BY DEF W!Min, Min
    <3>2. Bits \ BothOf(e, WRITE_MAX) \in SUBSET Bits /\ Bits \ BothOf(e, WRITE_MAX) # {}
      BY <1>10, WriteSideIs DEF BothOf
    <3> QED
      BY <2>1, <3>1, <3>2, ReportedIsBit
  <2>3. W!TypeOK'
    BY <1>2, <1>3, <1>8, <2>1, <2>2, WriteSideIs DEF W!TypeOK, W!Stages
  <2>4. WritePlaces'
    BY <2>1 DEF WritePlaces
  <2> QED
    BY <1>7, <1>8, <2>3, <2>4 DEF WriteStands
<1>11. CASE last /\ W!HasBoth(e) = W!Bits /\ W!Settle(e)
  <2>1. /\ w_at' = "dm" /\ w_d' = WRITE_MAX /\ UNCHANGED w_failing
        /\ w_out' = [dq |-> [i \in Bits |-> ShiftTo(e, i, 0, WRITE_MAX)], dqs |-> w_start,
                     dm |-> WRITE_MAX]
        /\ w_margin' = [w_margin EXCEPT !.dq = MarginsTo(e, 0, WRITE_MAX).dq,
                                        !.dqs = MarginsTo(e, 0, WRITE_MAX).dqs]
    BY <1>11, WriteSideIs DEF W!Settle
  <2>2. \A i \in Bits : ShiftTo(e, i, 0, WRITE_MAX) \in 0 .. WRITE_MAX
    BY <1>4, ShiftStays
  <2>3. w_out' \in [dq : [Bits -> 0 .. WRITE_MAX], dqs : 0 .. WRITE_MAX, dm : 0 .. WRITE_MAX]
    BY <2>1, <2>2, <1>6
  <2>4. w_margin' \in [dq : Int, dqs : Int, dm : Int]
    <3>1. MarginsTo(e, 0, WRITE_MAX).dq \in Int /\ MarginsTo(e, 0, WRITE_MAX).dqs \in Int
      BY <1>4, MarginsAreLeast
    <3>2. w_margin \in [dq : Int, dqs : Int, dm : Int]
      BY <1>3 DEF W!TypeOK
    <3> QED
      BY <2>1, <3>1, <3>2
  <2>5. W!TypeOK'
    BY <1>2, <1>3, <1>8, <2>1, <2>3, <2>4, WriteSideIs DEF W!TypeOK, W!Stages, W!Delays
  <2>6. WritePlaces'
    <3>1. w_out' = [dq |-> w_out'.dq, dqs |-> w_start', dm |-> w_d'] /\ w_failing' = W!NoBit'
      BY <1>2, <1>6, <2>1 DEF W!NoBit
    <3> QED
      BY <2>1, <3>1 DEF WritePlaces
  <2> QED
    BY <1>7, <1>8, <2>5, <2>6 DEF WriteStands
<1> QED
  BY <1>1, <1>5, <1>9, <1>10, <1>11

\* A run that a test prolongs or ends is on the axis.
LEMMA RunsStay ==
  ASSUME WriteStands, NEW x \in -WRITE_MAX .. WRITE_MAX, NEW pass \in BOOLEAN
  PROVE  /\ W!Run(x, pass) \in [bgn : Int, end : Int] /\ OnAxis(W!Run(x, pass))
         /\ W!Better(W!Run(x, pass)) \in [bgn : Int, end : Int]
         /\ OnAxis(W!Better(W!Run(x, pass)))
<1>1. /\ w_curr \in [bgn : Int, end : Int] /\ w_best \in [bgn : Int, end : Int]
      /\ OnAxis(w_curr) /\ OnAxis(w_best)
  BY DEF WriteStands, W!TypeOK
<1>2. W!Run(x, pass) \in [bgn : Int, end : Int] /\ OnAxis(W!Run(x, pass))
  <2>1. CASE ~pass
    BY <2>1, NoRunIs DEF W!Run
  <2>2. CASE pass
    <3>1. W!Run(x, pass) = [bgn |-> IF w_curr.bgn = W!Illegal THEN x ELSE w_curr.bgn, end |-> x]
      BY <2>2 DEF W!Run
    <3> QED
      BY <3>1, <1>1, WriteAssumption DEF OnAxis
  <2> QED
    BY <2>1, <2>2
<1> QED
  BY <1>1, <1>2 DEF W!Better

LEMMA MaskKeepsStanding == WriteStands /\ W!Mask => WriteStands'
<1> SUFFICES ASSUME WriteStands, W!Mask PROVE WriteStands'
  OBVIOUS
<1> USE DeskewAssumption, WriteAssumption
<1>1. PICK pass \in BOOLEAN :
        LET run == W!Run(-w_d, pass) IN
          /\ w_best' = W!Better(run)
          /\ w_curr' = IF w_d = 0 /\ run.end # 0 THEN W!NoRun ELSE run
          /\ IF w_d > 0
             THEN w_d' = w_d - 1 /\ w_out' = [w_out EXCEPT !.dm = w_d - 1] /\ UNCHANGED w_at
             ELSE w_at' = "dqs" /\ UNCHANGED <<w_d, w_out>>
  BY DEF W!Mask, W!MaskedPass
<1>2. w_at = "dm" /\ UNCHANGED <<w_eye, w_start, w_sticky, w_edge, w_margin, w_failing>>
  BY DEF W!Mask
<1>3. W!TypeOK /\ w_d \in 0 .. WRITE_MAX /\ w_start \in 0 .. WRITE_MAX
  BY DEF WriteStands, W!TypeOK, W!Delays
<1>4. w_out = [dq |-> w_out.dq, dqs |-> w_start, dm |-> w_d] /\ w_failing = W!NoBit
  BY <1>2 DEF WriteStands, WritePlaces
<1>5. w_out.dq \in [Bits -> 0 .. WRITE_MAX]
  BY <1>3, WriteSideIs DEF W!TypeOK, W!Delays
<1>6. /\ w_curr' \in [bgn : Int, end : Int] /\ w_best' \in [bgn : Int, end : Int]
      /\ OnAxis(w_curr)' /\ OnAxis(w_best)'
  <2>1. -w_d \in -WRITE_MAX .. WRITE_MAX
    BY <1>3
  <2>2. OnAxis(w_curr') /\ OnAxis(w_best') /\ w_curr' \in [bgn : Int, end : Int]
        /\ w_best' \in [bgn : Int, end : Int]
    BY <1>1, <2>1, RunsStay, NoRunIs
  <2> QED
    BY <2>2 DEF OnAxis
<1>7. CASE w_d > 0
  <2>1. /\ w_d' = w_d - 1 /\ w_d' \in 0 .. WRITE_MAX /\ w_at' = "dm"
        /\ w_out' = [dq |-> w_out.dq, dqs |-> w_start, dm |-> w_d - 1]
    BY <1>1, <1>2, <1>3, <1>4, <1>7
  <2>2. w_out' \in [dq : [Bits -> 0 .. WRITE_MAX], dqs : 0 .. WRITE_MAX, dm : 0 .. WRITE_MAX]
    BY <2>1, <1>3, <1>5
  <2>3. W!TypeOK'
    BY <1>2, <1>3, <1>6, <2>1, <2>2, WriteSideIs DEF W!TypeOK, W!Delays
  <2>4. WritePlaces'
    BY <1>2, <1>4, <2>1 DEF WritePlaces
  <2> QED
    BY <1>2, <1>6, <2>3, <2>4 DEF WriteStands
<1>8. CASE ~ (w_d > 0)
  <2>1. w_d = 0 /\ w_at' = "dqs" /\ UNCHANGED <<w_d, w_out>>
    BY <1>1, <1>3, <1>8
  <2>2. W!TypeOK'
    BY <1>2, <1>3, <1>6, <2>1 DEF W!TypeOK, W!Stages
  <2>3. WritePlaces'
    BY <1>2, <1>3, <1>4, <2>1 DEF WritePlaces
  <2> QED
    BY <1>2, <1>6, <2>2, <2>3 DEF WriteStands
<1> QED
  BY <1>7, <1>8

\* The middle of a run on the axis is a delay of the mask.
LEMMA MidStays ==
  ASSUME NEW run \in [bgn : Int, end : Int], OnAxis(run)
  PROVE  /\ W!Mid(run) \in 0 .. WRITE_MAX
         /\ run.bgn <= run.end =>
              /\ run.bgn <= 0 => W!Mid(run) <= -run.bgn
              /\ W!Mid(run) <= -run.bgn => -W!Mid(run) <= run.end
<1>1. \A n : W!Half(n) = Half(n)
  BY DEF W!Half, Half
<1>2. -run.bgn - run.end \in Int /\ WRITE_MAX \in Nat
  BY WriteAssumption
<1> QED
  BY <1>1, <1>2, HalfIsNear DEF W!Mid, OnAxis

LEMMA MaskDqsKeepsStanding == WriteStands /\ W!MaskDqs => WriteStands'
<1> SUFFICES ASSUME WriteStands, W!MaskDqs PROVE WriteStands'
  OBVIOUS
<1> USE DeskewAssumption, WriteAssumption
<1>1. PICK pass \in BOOLEAN :
        LET run      == W!Run(w_d, pass)
            hopeless == ~pass /\ W!Length(w_best) - 1 > WRITE_MAX - w_start - w_d
        IN  /\ w_best' = W!Better(run)
            /\ w_curr' = run
            /\ \/ /\ w_d < WRITE_MAX - w_start /\ ~hopeless
                  /\ w_d' = w_d + 1
                  /\ w_out' = [w_out EXCEPT !.dqs = w_start + w_d + 1]
                  /\ UNCHANGED <<w_at, w_margin>>
               \/ /\ w_d = WRITE_MAX - w_start \/ hopeless
                  /\ W!Finish(w_best')
                  /\ UNCHANGED w_d
  BY DEF W!MaskDqs, W!MaskedPass
<1>2. w_at = "dqs" /\ UNCHANGED <<w_eye, w_start, w_sticky, w_edge, w_failing>>
  BY DEF W!MaskDqs
<1>3. /\ W!TypeOK /\ w_d \in 0 .. WRITE_MAX /\ w_start \in 0 .. WRITE_MAX
      /\ w_margin \in [dq : Int, dqs : Int, dm : Int]
  BY DEF WriteStands, W!TypeOK, W!Delays
<1>4. /\ w_out = [dq |-> w_out.dq, dqs |-> w_start + w_d, dm |-> 0] /\ w_failing = W!NoBit
      /\ w_d <= WRITE_MAX - w_start
  BY <1>2 DEF WriteStands, WritePlaces
<1>5. w_out.dq \in [Bits -> 0 .. WRITE_MAX]
  BY <1>3, WriteSideIs DEF W!TypeOK, W!Delays
<1>6. /\ w_curr' \in [bgn : Int, end : Int] /\ w_best' \in [bgn : Int, end : Int]
      /\ OnAxis(w_curr') /\ OnAxis(w_best') /\ OnAxis(w_curr)' /\ OnAxis(w_best)'
  <2>1. w_d \in -WRITE_MAX .. WRITE_MAX
    BY <1>3
  <2>2. OnAxis(w_curr') /\ OnAxis(w_best') /\ w_curr' \in [bgn : Int, end : Int]
        /\ w_best' \in [bgn : Int, end : Int]
    BY <1>1, <2>1, RunsStay, NoRunIs
  <2> QED
    BY <2>2 DEF OnAxis
<1>7. CASE /\ w_d < WRITE_MAX - w_start
           /\ w_d' = w_d + 1
           /\ w_out' = [w_out EXCEPT !.dqs = w_start + w_d + 1]
           /\ UNCHANGED <<w_at, w_margin>>
  <2>1. /\ w_d' \in 0 .. WRITE_MAX /\ w_d' <= WRITE_MAX - w_start
        /\ w_start + w_d + 1 \in 0 .. WRITE_MAX
        /\ w_out' = [dq |-> w_out.dq, dqs |-> w_start + w_d + 1, dm |-> 0]
    BY <1>3, <1>4, <1>7
  <2>2. w_out' \in [dq : [Bits -> 0 .. WRITE_MAX], dqs : 0 .. WRITE_MAX, dm : 0 .. WRITE_MAX]
    BY <2>1, <1>3, <1>5
  <2>3. W!TypeOK'
    BY <1>2, <1>3, <1>6, <1>7, <2>1, <2>2, WriteSideIs DEF W!TypeOK, W!Delays
  <2>4. WritePlaces'
    <3>1. w_start + w_d + 1 = w_start + (w_d + 1) /\ w_out'.dq = w_out.dq
      BY <1>3, <2>1
    <3>2. w_out' = [dq |-> w_out'.dq, dqs |-> w_start' + w_d', dm |-> 0] /\ w_failing' = W!NoBit'
      BY <1>2, <1>4, <1>7, <2>1, <3>1 DEF W!NoBit
    <3> QED
      BY <1>2, <1>7, <2>1, <3>2 DEF WritePlaces
  <2> QED
    BY <1>2, <1>6, <2>3, <2>4 DEF WriteStands
<1>8. CASE W!Finish(w_best') /\ UNCHANGED w_d
  <2>1. W!Mid(w_best') \in 0 .. WRITE_MAX
    BY <1>6, MidStays
  <2>2. /\ w_out' = [dq |-> w_out.dq, dqs |-> w_start, dm |-> W!Mid(w_best')]
        /\ w_at' \in {"found", "none"}
        /\ w_margin' = [w_margin EXCEPT !.dm = IF w_best' = W!NoRun THEN -1
                                               ELSE -w_best'.bgn - W!Mid(w_best')]
    BY <1>4, <1>8 DEF W!Finish
  <2>3. w_out' \in [dq : [Bits -> 0 .. WRITE_MAX], dqs : 0 .. WRITE_MAX, dm : 0 .. WRITE_MAX]
    BY <1>3, <1>5, <2>1, <2>2
  <2>4. w_margin' \in [dq : Int, dqs : Int, dm : Int]
    <3>1. (IF w_best' = W!NoRun THEN -1 ELSE -w_best'.bgn - W!Mid(w_best')) \in Int
      BY <1>6, <2>1
    <3> QED
      BY <1>3, <2>2, <3>1
  <2>5. W!TypeOK'
    BY <1>2, <1>3, <1>6, <1>8, <2>2, <2>3, <2>4, WriteSideIs DEF W!TypeOK, W!Delays, W!Stages
  <2>6. WritePlaces'
    BY <1>2, <1>4, <2>2 DEF WritePlaces, W!NoBit
  <2> QED
    BY <1>2, <1>6, <2>5, <2>6 DEF WriteStands
<1> QED
  BY <1>1, <1>7, <1>8

LEMMA WriteStandsStill == WriteStands /\ UNCHANGED w_vars => WriteStands'
BY DEF WriteStands, W!TypeOK, WritePlaces, OnAxis, w_vars, W!NoBit, W!NoRun, W!Illegal

\* Both sides stand at every step.
LEMMA Stand == MCSpec => [](ReadStands /\ WriteStands)
<1>1. MCInit => ReadStands /\ WriteStands
  BY ReadStandsAtFirst, WriteStandsAtFirst DEF MCInit
<1>2. ReadStands /\ WriteStands /\ [MCNext]_<<side, vars, w_vars>> => (ReadStands /\ WriteStands)'
  BY LeftKeepsStanding, RightKeepsStanding, ReadStandsStill, WriteLeftKeepsStanding,
     WriteRightKeepsStanding, MaskKeepsStanding, MaskDqsKeepsStanding, WriteStandsStill
     DEF MCNext, Next, W!Next
<1> QED
  BY <1>1, <1>2, PTL DEF MCSpec

\* Whatever the memory answers the delays of both sides stay within their
\* chains, though the middle of a window may lie outside them and nothing but
\* the arithmetic of the code keeps what is programmed inside.
THEOREM DelaysStayInChains == MCSpec => []TypesOK
<1>1. ReadStands /\ WriteStands => TypesOK
  BY DEF ReadStands, WriteStands, TypesOK
<1> QED
  BY <1>1, Stand, PTL

\* Whatever the memory answers, a read group that is reported as having no
\* window leaves DQS and the pins where they were found.
THEOREM FailureAlwaysRestores == MCSpec => []FailureRestores
<1>1. ReadStands => FailureRestores
  BY DEF ReadStands
<1> QED
  BY <1>1, Stand, PTL
----------------------------------------------------------------------------
(* Boards with windows: what the edges say of the windows at every test.  A *)
(* bit with the window w is sampled at s - n when its pin is delayed by n,  *)
(* and at s + n when DQS is, where s is the delay DQS started with.         *)

LowerOf(a, b) == IF a <= b THEN a ELSE b

\* One of the first n tests of the loop read the bit.
LeftSeen(w, s, n)  == n >= 1 /\ w.lo <= s /\ w.hi >= s - n + 1
RightSeen(w, s, n) == n >= 1 /\ w.lo <= s + n - 1 /\ w.hi >= s

\* The edges p of a bit after n tests of the first loop, between the loops,
\* and after n tests of the second.
LeftBit(p, w, s, n, max) ==
  IF LeftSeen(w, s, n)
  THEN p.l = LowerOf(n - 1, s - w.lo) /\ p.r = IF w.hi >= s THEN None(max) ELSE w.hi - s
  ELSE p.l = None(max) /\ p.r = IF n = 0 THEN None(max) ELSE -n

RightBit(p, w, s, n, max) ==
  IF w.hi < s
  THEN IF w.hi >= s - max THEN p.l = LowerOf(max, s - w.lo) /\ p.r = w.hi - s
       ELSE p.r = None(max) /\ p.l = IF n = 0 THEN None(max) ELSE -n
  ELSE IF w.lo <= s
  THEN /\ p.l = LowerOf(max, s - w.lo)
       /\ p.r = IF n = 0 THEN None(max) ELSE LowerOf(n - 1, w.hi - s)
  ELSE IF RightSeen(w, s, n) THEN p.l = s - w.lo /\ p.r = LowerOf(n - 1, w.hi - s)
  ELSE p.r = None(max) /\ p.l = IF n = 0 THEN None(max) ELSE -n

\* The edges of a bit when DQS has been delayed by up to last: its window is
\* out of reach, or they are those of the part in reach.
DoneBit(p, w, s, max, last) ==
  IF w.lo > s + last \/ w.hi < s - max
  THEN p.l = None(max) \/ p.r = None(max)
  ELSE /\ p.l = IF w.lo <= s THEN LowerOf(max, s - w.lo) ELSE s - w.lo
       /\ p.r = IF w.hi >= s THEN LowerOf(last, w.hi - s) ELSE w.hi - s

\* Between the loops a bit that the second loop need not see.
Below(w, s, max) == w.hi < s /\ w.hi >= s - max

Edges   == [l : Int, r : Int]
Windows == [lo : Int, hi : Int]

\* A test of the first loop.
LEMMA LeftBitStep ==
  ASSUME NEW max \in Nat, NEW p \in Edges, NEW w \in Windows, w.lo <= w.hi,
         NEW s \in Int, NEW n \in 0 .. max, LeftBit(p, w, s, n, max)
  PROVE  /\ Spans(w, s - n) => LeftBit([p EXCEPT !.l = n], w, s, n + 1, max)
         /\ ~Spans(w, s - n) /\ p.l = None(max)
              => LeftBit([p EXCEPT !.r = -(n + 1)], w, s, n + 1, max)
         /\ ~Spans(w, s - n) /\ p.l # None(max) => LeftBit(p, w, s, n + 1, max)
         /\ LeftSeen(w, s, n + 1) <=> (LeftSeen(w, s, n) \/ Spans(w, s - n))
<1> DEFINE q1 == [p EXCEPT !.l = n]
           q2 == [p EXCEPT !.r = -(n + 1)]
<1>1. /\ q1.l = n /\ q1.r = p.r /\ q2.l = p.l /\ q2.r = -(n + 1)
      /\ p.l \in Int /\ p.r \in Int /\ w.lo \in Int /\ w.hi \in Int
  BY DEF Edges, Windows
<1> HIDE DEF q1, q2
<1>2. Spans(w, s - n) => LeftBit(q1, w, s, n + 1, max)
  BY <1>1 DEF LeftBit, LeftSeen, LowerOf, Spans, None
<1>3. ~Spans(w, s - n) /\ p.l = None(max) => LeftBit(q2, w, s, n + 1, max)
  BY <1>1 DEF LeftBit, LeftSeen, LowerOf, Spans, None
<1>4. ~Spans(w, s - n) /\ p.l # None(max) => LeftBit(p, w, s, n + 1, max)
  BY <1>1 DEF LeftBit, LeftSeen, LowerOf, Spans, None
<1>5. LeftSeen(w, s, n + 1) <=> (LeftSeen(w, s, n) \/ Spans(w, s - n))
  BY <1>1 DEF LeftSeen, Spans
<1> QED
  BY <1>2, <1>3, <1>4, <1>5 DEF q1, q2

\* Between the loops: the first ended after max + 1 tests, or when the bit had
\* passed and did not pass any more.
LEMMA LeftBitDone ==
  ASSUME NEW max \in Nat, NEW p \in Edges, NEW w \in Windows, w.lo <= w.hi,
         NEW s \in Nat, NEW n \in 0 .. max + 1, LeftBit(p, w, s, n, max),
         n = max + 1 \/ (n <= max /\ LeftSeen(w, s, n) /\ ~Spans(w, s - n))
  PROVE  LET q == IF p.l = None(max) THEN [p EXCEPT !.r = None(max)] ELSE p
         IN  /\ RightBit(q, w, s, 0, max)
             /\ q.l # None(max) => w.lo <= s /\ w.hi >= s - max
             /\ q.l # None(max) /\ q.r # None(max) => Below(w, s, max)
<1> DEFINE q == IF p.l = None(max) THEN [p EXCEPT !.r = None(max)] ELSE p
<1>1. /\ q.l = p.l /\ q.r = IF p.l = None(max) THEN None(max) ELSE p.r
      /\ p.l \in Int /\ p.r \in Int /\ w.lo \in Int /\ w.hi \in Int
  BY DEF Edges, Windows
<1> HIDE DEF q
<1>2. RightBit(q, w, s, 0, max)
  BY <1>1 DEF LeftBit, LeftSeen, RightBit, RightSeen, LowerOf, Spans, None
<1>3. q.l # None(max) => w.lo <= s /\ w.hi >= s - max
  BY <1>1 DEF LeftBit, LeftSeen, LowerOf, Spans, None
<1>4. q.l # None(max) /\ q.r # None(max) => Below(w, s, max)
  BY <1>1 DEF LeftBit, LeftSeen, LowerOf, Spans, None, Below
<1> QED
  BY <1>2, <1>3, <1>4 DEF q

\* A test of the second loop.
LEMMA RightBitStep ==
  ASSUME NEW max \in Nat, NEW p \in Edges, NEW w \in Windows, w.lo <= w.hi,
         NEW s \in Nat, NEW n \in 0 .. max, RightBit(p, w, s, n, max)
  PROVE  LET q == IF Spans(w, s + n) THEN [p EXCEPT !.r = n]
                  ELSE IF p.r # None(max) THEN p
                  ELSE IF n = 0 /\ p.l # None(max) THEN [p EXCEPT !.r = -1]
                  ELSE [p EXCEPT !.l = -(n + 1)]
         IN  /\ RightBit(q, w, s, n + 1, max)
             /\ RightSeen(w, s, n + 1) <=> (RightSeen(w, s, n) \/ Spans(w, s + n))
<1> DEFINE q1 == [p EXCEPT !.r = n]
           q2 == [p EXCEPT !.r = -1]
           q3 == [p EXCEPT !.l = -(n + 1)]
<1>1. /\ q1.l = p.l /\ q1.r = n /\ q3.r = p.r /\ q3.l = -(n + 1)
      /\ p.l \in Int /\ p.r \in Int /\ w.lo \in Int /\ w.hi \in Int
  BY DEF Edges, Windows
<1> HIDE DEF q1, q2, q3
<1>2. CASE Spans(w, s + n)
  BY <1>1, <1>2 DEF RightBit, RightSeen, LowerOf, Spans, None, q1
<1>3. CASE ~Spans(w, s + n) /\ p.r # None(max)
  BY <1>1, <1>3 DEF RightBit, RightSeen, LowerOf, Spans, None
<1>4. CASE ~Spans(w, s + n) /\ p.r = None(max)
  <2>1. ~ (n = 0 /\ p.l # None(max))
    BY <1>1, <1>4 DEF RightBit, RightSeen, LowerOf, Spans, None
  <2>2. RightBit(q3, w, s, n + 1, max)
    BY <1>1, <1>4 DEF RightBit, RightSeen, LowerOf, Spans, None
  <2>3. RightSeen(w, s, n + 1) <=> (RightSeen(w, s, n) \/ Spans(w, s + n))
    BY <1>1 DEF RightSeen, Spans
  <2> QED
    BY <1>4, <2>1, <2>2, <2>3 DEF q3
<1> QED
  BY <1>2, <1>3, <1>4

\* The second loop ended at the end of the chain, or when the bit had been
\* seen and did not pass any more.
LEMMA RightBitDone ==
  ASSUME NEW max \in Nat, NEW p \in Edges, NEW w \in Windows, w.lo <= w.hi,
         NEW s \in Nat, NEW last \in 0 .. max, NEW n \in 0 .. last + 1,
         RightBit(p, w, s, n, max),
         \/ n = last + 1
         \/ n <= last /\ ~Spans(w, s + n) /\ (Below(w, s, max) \/ RightSeen(w, s, n))
  PROVE  /\ DoneBit(p, w, s, max, last)
         /\ p.l # None(max) /\ p.r # None(max) =>
              /\ w.lo <= s + last /\ w.hi >= s - max
              /\ p.l <= s - w.lo /\ p.r <= w.hi - s
              /\ p.l + p.r >= 0
              /\ s - max <= w.lo => p.l = s - w.lo
              /\ w.hi <= s + last => p.r = w.hi - s
<1>1. p.l \in Int /\ p.r \in Int /\ w.lo \in Int /\ w.hi \in Int
  BY DEF Edges, Windows
<1>2. DoneBit(p, w, s, max, last)
  BY <1>1 DEF RightBit, RightSeen, LowerOf, Spans, None, Below, DoneBit
<1> QED
  BY <1>1, <1>2 DEF DoneBit, LowerOf
----------------------------------------------------------------------------
(* What the settled delays are worth.                                       *)

\* A delay that no end of a chain stopped puts a bit within half a tap of the
\* middle of its edges; m is what DQS moved.
LEMMA SettledBit ==
  ASSUME NEW max \in Nat, NEW e \in EdgesOf(max), NEW i \in Bits, NEW m \in Int,
         LET c == ShiftTo(e, i, m, max)
         IN  c < max /\ (c > 0 \/ m = MidMin(e))
  PROVE  LET c == ShiftTo(e, i, m, max)
         IN  /\ 2 * (c + m) - Off(e, i) \in -1 .. 1
             /\ e[i].l + e[i].r >= 0 => e[i].l - c - m >= 0 /\ e[i].r + c + m >= 0
<1> DEFINE c == ShiftTo(e, i, m, max)
           h == Half(Off(e, i) - Least(e))
<1>1. /\ Off(e, i) \in Int /\ Least(e) <= Off(e, i) /\ Least(e) \in Int /\ MidMin(e) \in Int
      /\ 2 * MidMin(e) \in {Least(e), Least(e) + 1}
  BY LeastKnown
<1>2. h \in Int /\ h >= 0 /\ 2 * h \in {Off(e, i) - Least(e) - 1, Off(e, i) - Least(e)}
  BY <1>1, HalfIsNear
<1>3. c = Clamp(h + MidMin(e) - m, max)
  BY DEF ShiftTo
<1>4. e[i].l \in Int /\ e[i].r \in Int /\ Off(e, i) = e[i].l - e[i].r
  BY EdgesAreNumbers DEF Off
<1> HIDE DEF h, c
<1>5. c < max /\ (c > 0 \/ m = MidMin(e))
  BY DEF c
<1>6. c = h + MidMin(e) - m
  BY <1>1, <1>2, <1>3, <1>5 DEF Clamp
<1>7. 2 * (c + m) = 2 * h + 2 * MidMin(e)
  BY <1>1, <1>2, <1>6
<1>8. 2 * (c + m) - Off(e, i) \in -1 .. 1 /\ c \in Int
  BY <1>1, <1>2, <1>6, <1>7
<1>9. e[i].l + e[i].r >= 0 => e[i].l - c - m >= 0 /\ e[i].r + c + m >= 0
  <2> DEFINE t == c + m
  <2>1. t \in Int /\ 2 * t - (e[i].l - e[i].r) \in -1 .. 1
    BY <1>4, <1>8
  <2> HIDE DEF t
  <2>2. e[i].l + e[i].r >= 0 => e[i].l - t >= 0 /\ e[i].r + t >= 0
    BY <1>4, <2>1
  <2>3. e[i].l - c - m = e[i].l - t /\ e[i].r + c + m = e[i].r + t
    BY <1>4, <1>8 DEF t
  <2> QED
    BY <2>2, <2>3
<1> QED
  BY <1>8, <1>9 DEF c

----------------------------------------------------------------------------
(* The read side.                                                           *)

\* The edges, at every test, are those of the windows.
ReadKnows ==
  /\ at = "left" =>
       /\ \A i \in Bits : LeftBit(edge[i], eye[i], start, d, DELAY_MAX)
       /\ \A i \in sticky : LeftSeen(eye[i], start, d)
  /\ at = "right" =>
       /\ \A i \in Bits : RightBit(edge[i], eye[i], start, d, DELAY_MAX)
       /\ \A i \in sticky : Below(eye[i], start, DELAY_MAX) \/ RightSeen(eye[i], start, d)

ReadResults == ReadMarginsAreReal /\ Centred /\ ReadFailsForCause

ReadInv == ReadStands /\ (eye # All(AnyWindow) => ReadKnows /\ ReadResults)

\* A board with windows, and what a test of it answers.
LEMMA ReadBoard ==
  ASSUME ReadStands, eye # All(AnyWindow)
  PROVE  /\ \A i \in Bits : eye[i] \in Windows /\ eye[i].lo <= eye[i].hi /\ edge[i] \in Edges
         /\ start \in 0 .. DQS_IN_MAX /\ start \in Nat /\ DELAY_MAX \in Nat
         /\ DQS_IN_MAX \in 0 .. DELAY_MAX
         /\ d \in 0 .. DELAY_MAX /\ sticky \subseteq Bits
         /\ \A ok : ok \in Answers(eye, dq, dqs)
                      => ok = {i \in Bits : Spans(eye[i], dqs - dq[i])}
<1>1. /\ eye \in Eyes /\ dq \in [Bits -> 0 .. DELAY_MAX] /\ dqs \in 0 .. DQS_IN_MAX
      /\ edge \in [Bits -> [l : Int, r : Int]] /\ d \in 0 .. DELAY_MAX /\ sticky \subseteq Bits
      /\ start \in 0 .. DQS_IN_MAX
  BY DEF ReadStands, TypeOK
<1>2. /\ eye \in [Bits -> [lo : Int, hi : Int]] /\ \A i \in Bits : eye[i].lo <= eye[i].hi
      /\ Answers(eye, dq, dqs) = MCAnswers(eye, dq, dqs)
  BY <1>1, ReadAssumption
<1>3. \A ok : ok \in Answers(eye, dq, dqs) => ok = {i \in Bits : Spans(eye[i], dqs - dq[i])}
  BY <1>2 DEF MCAnswers
<1> QED
  BY <1>1, <1>2, <1>3, DeskewAssumption, ReadCenterAssumption DEF Windows, Edges

LEMMA ReadInvAtFirst == MCInit => ReadInv
<1> SUFFICES ASSUME MCInit PROVE ReadInv
  OBVIOUS
<1>1. /\ Init /\ at = "left" /\ d = 0 /\ edge = NoEdges /\ sticky = {}
  BY DEF MCInit, Init
<1>2. \A i \in Bits : edge[i].l = None(DELAY_MAX) /\ edge[i].r = None(DELAY_MAX)
  BY <1>1, ReadSideIs DEF NoEdges
<1>3. ReadKnows
  BY <1>1, <1>2 DEF ReadKnows, LeftBit, LeftSeen
<1>4. ReadResults
  BY <1>1 DEF ReadResults, ReadMarginsAreReal, Centred, ReadFailsForCause
<1> QED
  BY <1>1, <1>3, <1>4, ReadStandsAtFirst DEF ReadInv

LEMMA LeftKeepsKnowing ==
  ASSUME ReadInv, Left, eye # All(AnyWindow)
  PROVE  ReadKnows' /\ ReadResults'
<1>1. PICK ok \in SUBSET Bits :
        /\ ok \in Answers(eye, dq, dqs)
        /\ LET e == IF Stops(ok, sticky) THEN edge ELSE LeftEdges(edge, d, ok)
           IN  IF Stops(ok, sticky) \/ d = DELAY_MAX
               THEN /\ at' = "right" /\ d' = 0
                    /\ dq' = All(0)
                    /\ edge' = Cleared(e)
                    /\ sticky' = HasBoth(Cleared(e))
               ELSE /\ d' = d + 1
                    /\ dq' = All(d + 1)
                    /\ edge' = e
                    /\ sticky' = sticky \cup ok
                    /\ UNCHANGED at
  BY DEF Left
<1> DEFINE stop == Stops(ok, sticky)
           f == LeftTo(edge, d, ok, DELAY_MAX)
           e == IF stop THEN edge ELSE f
<1>2. at = "left" /\ UNCHANGED <<eye, dqs, start, margin, failing>>
  BY DEF Left
<1>3. /\ ReadStands /\ \A i \in Bits : LeftBit(edge[i], eye[i], start, d, DELAY_MAX)
      /\ \A i \in sticky : LeftSeen(eye[i], start, d)
  BY <1>2 DEF ReadInv, ReadKnows
<1>4. /\ \A i \in Bits : eye[i] \in Windows /\ eye[i].lo <= eye[i].hi /\ edge[i] \in Edges
      /\ start \in Int /\ start \in Nat /\ DELAY_MAX \in Nat /\ d \in 0 .. DELAY_MAX
      /\ ok = {i \in Bits : Spans(eye[i], dqs - dq[i])} /\ sticky \subseteq Bits
  BY <1>1, <1>3, ReadBoard
<1>5. \A i \in Bits : i \in ok <=> Spans(eye[i], start - d)
  <2>1. dqs = start /\ dq = All(d)
    BY <1>2, <1>3 DEF ReadStands, ReadPlaces
  <2> QED
    BY <1>4, <2>1 DEF All
<1>6. /\ e = IF Stops(ok, sticky) THEN edge ELSE LeftEdges(edge, d, ok)
      /\ Cleared(e) = ClearedTo(e, DELAY_MAX)
      /\ HasBoth(Cleared(e)) = BothOf(ClearedTo(e, DELAY_MAX), DELAY_MAX)
  BY ReadSideIs
<1>7. \A i \in Bits : /\ f[i] \in Edges
                      /\ LeftBit(f[i], eye[i], start, d + 1, DELAY_MAX)
                      /\ i \in sticky \cup ok => LeftSeen(eye[i], start, d + 1)
  <2> TAKE i \in Bits
  <2>1. f[i] = IF i \in ok THEN [edge[i] EXCEPT !.l = d]
               ELSE IF edge[i].l = None(DELAY_MAX) THEN [edge[i] EXCEPT !.r = -(d + 1)]
               ELSE edge[i]
    BY DEF LeftTo
  <2>2. f[i] \in Edges
    BY <2>1, <1>4 DEF Edges
  <2> HIDE DEF f
  <2>3. LeftBit(f[i], eye[i], start, d + 1, DELAY_MAX)
    <3> DEFINE p == edge[i]
               w == eye[i]
    <3>1. /\ p \in Edges /\ w \in Windows /\ w.lo <= w.hi
          /\ LeftBit(p, w, start, d, DELAY_MAX)
      BY <1>3, <1>4
    <3> HIDE DEF p, w
    <3>2. /\ Spans(w, start - d) => LeftBit([p EXCEPT !.l = d], w, start, d + 1, DELAY_MAX)
          /\ ~Spans(w, start - d) /\ p.l = None(DELAY_MAX)
               => LeftBit([p EXCEPT !.r = -(d + 1)], w, start, d + 1, DELAY_MAX)
          /\ ~Spans(w, start - d) /\ p.l # None(DELAY_MAX)
               => LeftBit(p, w, start, d + 1, DELAY_MAX)
      BY <1>4, <3>1, LeftBitStep
    <3> QED
      BY <1>5, <2>1, <3>2 DEF p, w
  <2>4. i \in sticky \cup ok => LeftSeen(eye[i], start, d + 1)
    BY <1>3, <1>4, <1>5, LeftBitStep
  <2> QED
    BY <2>2, <2>3, <2>4
<1>8. ReadResults'
  <2>1. at' \in {"left", "right"}
    BY <1>1, <1>2
  <2> QED
    BY <2>1 DEF ReadResults, ReadMarginsAreReal, Centred, ReadFailsForCause
<1>9. CASE ~ (stop \/ d = DELAY_MAX)
  <2>1. at' = "left" /\ d' = d + 1 /\ edge' = f /\ sticky' = sticky \cup ok
    BY <1>1, <1>2, <1>6, <1>9
  <2> HIDE DEF f
  <2>2. ReadKnows'
    BY <1>2, <1>4, <1>7, <2>1 DEF ReadKnows
  <2> QED
    BY <1>8, <2>2
<1>10. CASE stop \/ d = DELAY_MAX
  <2> DEFINE g == ClearedTo(e, DELAY_MAX)
             n == IF stop THEN d ELSE DELAY_MAX + 1
  <2>1. at' = "right" /\ d' = 0 /\ edge' = g /\ sticky' = BothOf(g, DELAY_MAX)
    BY <1>1, <1>6, <1>10
  <2>2. \A i \in Bits : /\ RightBit(g[i], eye[i], start, 0, DELAY_MAX)
                        /\ i \in BothOf(g, DELAY_MAX) => Below(eye[i], start, DELAY_MAX)
    <3> TAKE i \in Bits
    <3>1. g[i] = IF e[i].l = None(DELAY_MAX) THEN [e[i] EXCEPT !.r = None(DELAY_MAX)] ELSE e[i]
      BY DEF ClearedTo
    <3>2. e[i] \in Edges /\ LeftBit(e[i], eye[i], start, n, DELAY_MAX)
      BY <1>3, <1>4, <1>7, <1>10
    <3>3. /\ n \in 0 .. DELAY_MAX + 1
          /\ \/ n = DELAY_MAX + 1
             \/ n <= DELAY_MAX /\ LeftSeen(eye[i], start, n) /\ ~Spans(eye[i], start - n)
      BY <1>3, <1>4, <1>5, <1>10 DEF Stops
    <3> HIDE DEF e, n
    <3>4. /\ RightBit(g[i], eye[i], start, 0, DELAY_MAX)
          /\ g[i].l # None(DELAY_MAX) /\ g[i].r # None(DELAY_MAX)
               => Below(eye[i], start, DELAY_MAX)
      BY <1>4, <3>1, <3>2, <3>3, LeftBitDone
    <3> QED
      BY <3>4 DEF BothOf
  <2> HIDE DEF g
  <2>3. ReadKnows'
    BY <1>2, <2>1, <2>2 DEF ReadKnows, BothOf
  <2> QED
    BY <1>8, <2>3
<1> QED
  BY <1>9, <1>10
\* The delays that a read group is settled at, and what is left when it fails.
LEMMA ReadSettles ==
  ASSUME ReadStands, eye # All(AnyWindow), Right,
         NEW e \in EdgesOf(DELAY_MAX), Settle(e),
         \A i \in Bits : /\ e[i].l <= start - eye[i].lo /\ e[i].r <= eye[i].hi - start
                         /\ e[i].l + e[i].r >= 0
                         /\ start - DELAY_MAX <= eye[i].lo => e[i].l = start - eye[i].lo
                         /\ eye[i].hi <= DQS_IN_MAX => e[i].r = eye[i].hi - start
  PROVE  ReadResults'
<1> DEFINE new == Clamp(start - MidMin(e), DQS_IN_MAX)
           m == start - new
           c(i) == ShiftTo(e, i, m, DELAY_MAX)
<1>1. /\ \A i \in Bits : eye[i] \in Windows /\ eye[i].lo \in Int /\ eye[i].hi \in Int
      /\ start \in 0 .. DQS_IN_MAX /\ DELAY_MAX \in Nat /\ DQS_IN_MAX \in 0 .. DELAY_MAX
  BY ReadBoard DEF Windows
<1>2. UNCHANGED <<eye, start>>
  BY DEF Right
<1>3. /\ dqs' = new /\ margin' = MarginsTo(e, m, DELAY_MAX)
      /\ dq' = [i \in Bits |-> c(i)]
      /\ at' = IF margin'.dq >= 0 /\ margin'.dqs >= 0 THEN "found" ELSE "none"
      /\ UNCHANGED failing
  BY ReadSideIs DEF Settle
<1>4. /\ MidMin(e) \in Int /\ new \in 0 .. DQS_IN_MAX
      /\ new \notin {0, DQS_IN_MAX} => new = start - MidMin(e)
  BY <1>1, LeastKnown DEF Clamp
<1>5. m \in Int /\ new = start - m /\ (new \notin {0, DQS_IN_MAX} => m = MidMin(e))
  BY <1>1, <1>4
<1> HIDE DEF new, m
<1>6. \A i \in Bits : c(i) \in 0 .. DELAY_MAX
  BY <1>1, <1>5, ShiftStays
<1>7. \A i \in Bits : margin'.dq <= e[i].l - c(i) - m /\ margin'.dqs <= e[i].r + c(i) + m
  BY <1>1, <1>3, <1>5, MarginsAreLeast
<1>8. (\A i \in Bits : e[i].l - c(i) - m >= 0 /\ e[i].r + c(i) + m >= 0)
        => margin'.dq >= 0 /\ margin'.dqs >= 0
  BY <1>1, <1>3, <1>5, MarginsAreLeast
<1>9. margin'.dq \in Int /\ margin'.dqs \in Int
  BY <1>1, <1>3, <1>5, MarginsAreLeast
<1>10. \A i \in Bits : m = MidMin(e) /\ c(i) < DELAY_MAX
         => /\ 2 * (c(i) + m) - Off(e, i) \in -1 .. 1
            /\ e[i].l - c(i) - m >= 0 /\ e[i].r + c(i) + m >= 0
  BY <1>1, <1>5, SettledBit
<1>11. \A i \in Bits : /\ e[i].l \in Int /\ e[i].r \in Int
                       /\ Off(e, i) = e[i].l - e[i].r
  BY <1>1, EdgesAreNumbers DEF Off
<1> HIDE DEF c
<1>12. \A i \in Bits : /\ After(i)' = new - c(i) - eye[i].lo
                       /\ Before(i)' = eye[i].hi - (new - c(i))
  BY <1>2, <1>3 DEF After, Before
<1>13. ReadMarginsAreReal'
  <2> SUFFICES ASSUME NEW i \in Bits
               PROVE  margin'.dq <= After(i)' /\ margin'.dqs <= Before(i)'
    BY DEF ReadMarginsAreReal
  <2>1. /\ e[i].l <= start - eye[i].lo /\ e[i].r <= eye[i].hi - start
        /\ margin'.dq <= e[i].l - c(i) - m /\ margin'.dqs <= e[i].r + c(i) + m
        /\ eye[i].lo \in Int /\ eye[i].hi \in Int /\ e[i].l \in Int /\ e[i].r \in Int
        /\ c(i) \in Int /\ m \in Int /\ start \in Int /\ new = start - m
    BY <1>1, <1>5, <1>6, <1>7, <1>11
  <2>2. /\ margin'.dq <= new - c(i) - eye[i].lo
        /\ margin'.dqs <= eye[i].hi - (new - c(i))
    BY <2>1, <1>9
  <2> QED
    BY <2>2, <1>12
<1>14. Centred'
  <2> SUFFICES ASSUME NEW i \in Bits,
                      c(i) \in 1 .. DELAY_MAX - 1, new \in 1 .. DQS_IN_MAX - 1,
                      start - DELAY_MAX <= eye[i].lo, eye[i].hi <= DQS_IN_MAX
               PROVE  After(i)' - Before(i)' \in -1 .. 1
    BY <1>2, <1>3 DEF Centred
  <2>1. m = MidMin(e) /\ c(i) < DELAY_MAX
    BY <1>1, <1>5
  <2>2. /\ 2 * (c(i) + m) - (e[i].l - e[i].r) \in -1 .. 1
        /\ e[i].l = start - eye[i].lo /\ e[i].r = eye[i].hi - start
    BY <2>1, <1>10, <1>11
  <2>3. /\ eye[i].lo \in Int /\ eye[i].hi \in Int /\ c(i) \in Int /\ m \in Int
        /\ start \in Int /\ new = start - m
    BY <1>1, <1>5, <1>6
  <2>4. (new - c(i) - eye[i].lo) - (eye[i].hi - (new - c(i))) \in -1 .. 1
    BY <2>2, <2>3
  <2> QED
    BY <2>4, <1>12
<1>15. ReadFailsForCause'
  <2>1. failing' = NoBit
    <3>1. at = "right"
      BY DEF Right
    <3> QED
      BY <3>1, <1>3 DEF ReadStands, ReadPlaces
  <2> SUFFICES ASSUME at' = "none", new \notin {0, DQS_IN_MAX}
               PROVE  \E i \in Bits : c(i) = DELAY_MAX
    <3>1. NoBit' = NoBit
      BY DEF NoBit
    <3>2. \A i \in Bits : dq'[i] = c(i)
      BY <1>3
    <3> QED
      BY <1>3, <2>1, <3>1, <3>2 DEF ReadFailsForCause
  <2>2. ~ \A i \in Bits : e[i].l - c(i) - m >= 0 /\ e[i].r + c(i) + m >= 0
    BY <1>3, <1>8
  <2>3. \E i \in Bits : ~ (c(i) < DELAY_MAX)
    BY <1>5, <1>10, <2>2
  <2> QED
    BY <1>1, <1>6, <2>3
<1> QED
  BY <1>13, <1>14, <1>15 DEF ReadResults

LEMMA RightKeepsKnowing ==
  ASSUME ReadInv, Right, eye # All(AnyWindow)
  PROVE  ReadKnows' /\ ReadResults'
<1>1. PICK ok \in SUBSET Bits :
        /\ ok \in Answers(eye, dq, dqs)
        /\ LET last == Stops(ok, sticky) \/ d = DQS_IN_MAX - start
               e    == IF Stops(ok, sticky) THEN edge ELSE RightEdges(edge, d, ok)
           IN  /\ edge' = e
               /\ sticky' = sticky \cup ok
               /\ \/ ~last /\ d' = d + 1 /\ dqs' = dqs + 1
                     /\ UNCHANGED <<at, dq, margin, failing>>
                  \/ last /\ HasBoth(e) # Bits /\ GiveUp(e) /\ UNCHANGED d
                  \/ last /\ HasBoth(e) = Bits /\ Settle(e) /\ UNCHANGED d
  BY DEF Right
<1> DEFINE stop == Stops(ok, sticky)
           last == stop \/ d = DQS_IN_MAX - start
           f == RightTo(edge, d, ok, DELAY_MAX)
           e == IF stop THEN edge ELSE f
<1>2. at = "right" /\ UNCHANGED <<eye, start>>
  BY DEF Right
<1>3. /\ ReadStands /\ \A i \in Bits : RightBit(edge[i], eye[i], start, d, DELAY_MAX)
      /\ \A i \in sticky : Below(eye[i], start, DELAY_MAX) \/ RightSeen(eye[i], start, d)
  BY <1>2 DEF ReadInv, ReadKnows
<1>4. /\ \A i \in Bits : eye[i] \in Windows /\ eye[i].lo <= eye[i].hi /\ edge[i] \in Edges
      /\ start \in Int /\ start \in Nat /\ DELAY_MAX \in Nat /\ d \in 0 .. DELAY_MAX
      /\ start \in 0 .. DQS_IN_MAX /\ DQS_IN_MAX \in 0 .. DELAY_MAX
      /\ ok = {i \in Bits : Spans(eye[i], dqs - dq[i])} /\ sticky \subseteq Bits
  BY <1>1, <1>3, ReadBoard
<1>5. /\ \A i \in Bits : i \in ok <=> Spans(eye[i], start + d)
      /\ d <= DQS_IN_MAX - start
  <2>1. dqs = start + d /\ dq = All(0) /\ d <= DQS_IN_MAX - start
    BY <1>2, <1>3 DEF ReadStands, ReadPlaces
  <2>2. \A i \in Bits : dqs - dq[i] = start + d
    BY <1>4, <2>1 DEF All
  <2> QED
    BY <1>4, <2>1, <2>2
<1>6. /\ e = IF Stops(ok, sticky) THEN edge ELSE RightEdges(edge, d, ok)
      /\ HasBoth(e) = BothOf(e, DELAY_MAX)
  BY ReadSideIs
<1>7. \A i \in Bits : /\ f[i] \in Edges
                      /\ RightBit(f[i], eye[i], start, d + 1, DELAY_MAX)
                      /\ i \in sticky \cup ok
                           => \/ Below(eye[i], start, DELAY_MAX)
                              \/ RightSeen(eye[i], start, d + 1)
  <2> TAKE i \in Bits
  <2> DEFINE p == edge[i]
             w == eye[i]
  <2>1. f[i] = IF i \in ok THEN [p EXCEPT !.r = d]
               ELSE IF p.r # None(DELAY_MAX) THEN p
               ELSE IF d = 0 /\ p.l # None(DELAY_MAX) THEN [p EXCEPT !.r = -1]
               ELSE [p EXCEPT !.l = -(d + 1)]
    BY DEF RightTo
  <2>2. f[i] \in Edges
    BY <2>1, <1>4 DEF Edges
  <2>3. p \in Edges /\ w \in Windows /\ w.lo <= w.hi /\ RightBit(p, w, start, d, DELAY_MAX)
        /\ (i \in ok <=> Spans(w, start + d))
    BY <1>3, <1>4, <1>5
  <2> HIDE DEF f, p, w
  <2>4. /\ RightBit(f[i], w, start, d + 1, DELAY_MAX)
        /\ RightSeen(w, start, d + 1) <=> (RightSeen(w, start, d) \/ Spans(w, start + d))
    BY <1>4, <2>1, <2>3, RightBitStep
  <2>5. i \in sticky \cup ok
          => Below(w, start, DELAY_MAX) \/ RightSeen(w, start, d + 1)
    BY <1>3, <2>3, <2>4 DEF w
  <2> QED
    BY <2>2, <2>4, <2>5 DEF w
<1>8. /\ edge' = e /\ sticky' = sticky \cup ok
      /\ \/ ~last /\ d' = d + 1 /\ dqs' = dqs + 1
            /\ UNCHANGED <<at, dq, margin, failing>>
         \/ last /\ BothOf(e, DELAY_MAX) # Bits /\ GiveUp(e) /\ UNCHANGED d
         \/ last /\ BothOf(e, DELAY_MAX) = Bits /\ Settle(e) /\ UNCHANGED d
  BY <1>1, <1>6
<1>9. CASE ~last /\ d' = d + 1 /\ UNCHANGED at
  <2>1. at' = "right" /\ edge' = f /\ sticky' = sticky \cup ok
    BY <1>2, <1>8, <1>9
  <2> HIDE DEF f
  <2>2. ReadKnows'
    BY <1>2, <1>4, <1>7, <1>9, <2>1 DEF ReadKnows
  <2>3. ReadResults'
    BY <2>1 DEF ReadResults, ReadMarginsAreReal, Centred, ReadFailsForCause
  <2> QED
    BY <2>2, <2>3
<1>10. ASSUME last
       PROVE  \A i \in Bits :
                /\ DoneBit(e[i], eye[i], start, DELAY_MAX, DQS_IN_MAX - start)
                /\ e[i].l # None(DELAY_MAX) /\ e[i].r # None(DELAY_MAX) =>
                     /\ e[i].l <= start - eye[i].lo /\ e[i].r <= eye[i].hi - start
                     /\ e[i].l + e[i].r >= 0
                     /\ start - DELAY_MAX <= eye[i].lo => e[i].l = start - eye[i].lo
                     /\ eye[i].hi <= DQS_IN_MAX => e[i].r = eye[i].hi - start
  <2> TAKE i \in Bits
  <2> DEFINE n == IF stop THEN d ELSE d + 1
             p == e[i]
             w == eye[i]
             l == DQS_IN_MAX - start
  <2>1. /\ p \in Edges /\ w \in Windows /\ w.lo <= w.hi
        /\ RightBit(p, w, start, n, DELAY_MAX)
    BY <1>3, <1>4, <1>7
  <2>2. l \in 0 .. DELAY_MAX /\ n \in 0 .. l + 1
    BY <1>4, <1>5, <1>10
  <2>3. \/ n = l + 1
        \/ n <= l /\ ~Spans(w, start + n)
           /\ (Below(w, start, DELAY_MAX) \/ RightSeen(w, start, n))
    BY <1>3, <1>4, <1>5, <1>10 DEF Stops
  <2>4. start + l = DQS_IN_MAX
    BY <1>4
  <2> HIDE DEF n, p, w, l
  <2>5. /\ DoneBit(p, w, start, DELAY_MAX, l)
        /\ p.l # None(DELAY_MAX) /\ p.r # None(DELAY_MAX) =>
             /\ p.l <= start - w.lo /\ p.r <= w.hi - start
             /\ p.l + p.r >= 0
             /\ start - DELAY_MAX <= w.lo => p.l = start - w.lo
             /\ w.hi <= start + l => p.r = w.hi - start
    BY <1>4, <2>1, <2>2, <2>3, RightBitDone
  <2> QED
    BY <2>4, <2>5 DEF p, w, l
<1>11. CASE last /\ BothOf(e, DELAY_MAX) # Bits /\ GiveUp(e)
  <2>1. at' = "none" /\ failing' = Min(Bits \ BothOf(e, DELAY_MAX))
    BY <1>6, <1>11 DEF GiveUp
  <2>2. failing' \in Bits \ BothOf(e, DELAY_MAX)
    <3>1. Bits \ BothOf(e, DELAY_MAX) \in SUBSET Bits /\ Bits \ BothOf(e, DELAY_MAX) # {}
      BY <1>11 DEF BothOf
    <3> QED
      BY <2>1, <3>1, ReportedIsBit
  <2> HIDE DEF e
  <2>3. /\ DoneBit(e[failing'], eye[failing'], start, DELAY_MAX, DQS_IN_MAX - start)
        /\ e[failing'].l = None(DELAY_MAX) \/ e[failing'].r = None(DELAY_MAX)
    BY <1>10, <1>11, <2>2 DEF BothOf
  <2>4. eye[failing'] \in Windows /\ eye[failing'].lo <= eye[failing'].hi
    BY <1>4, <2>2
  <2>5. eye[failing'].hi < start - DELAY_MAX \/ eye[failing'].lo > DQS_IN_MAX
    <3> DEFINE w == eye[failing']
               p == e[failing']
    <3>1. w.lo \in Int /\ w.hi \in Int /\ w.lo <= w.hi
      BY <2>4 DEF Windows
    <3>2. /\ DoneBit(p, w, start, DELAY_MAX, DQS_IN_MAX - start)
          /\ p.l = None(DELAY_MAX) \/ p.r = None(DELAY_MAX)
      BY <2>3
    <3>3. start + (DQS_IN_MAX - start) = DQS_IN_MAX
      BY <1>4
    <3> HIDE DEF w, p
    <3>4. w.hi < start - DELAY_MAX \/ w.lo > DQS_IN_MAX
      BY <1>4, <3>1, <3>2, <3>3 DEF DoneBit, LowerOf, None
    <3> QED
      BY <3>4 DEF w
  <2>6. ReadFailsForCause'
    <3>1. failing' # NoBit'
      BY <2>2, DeskewAssumption DEF NoBit, Bits
    <3> QED
      BY <1>2, <2>5, <3>1 DEF ReadFailsForCause
  <2> QED
    BY <2>1, <2>6 DEF ReadResults, ReadMarginsAreReal, Centred, ReadKnows
<1>12. CASE last /\ BothOf(e, DELAY_MAX) = Bits /\ Settle(e)
  <2>1. e \in EdgesOf(DELAY_MAX)
    <3>1. edge \in EdgesOf(DELAY_MAX)
      BY <1>3 DEF ReadStands
    <3> QED
      BY <1>4, <3>1, EdgesStay
  <2>2. at' \in {"found", "none"}
    BY <1>12 DEF Settle
  <2> HIDE DEF e
  <2>3. ReadResults'
    BY <1>3, <1>10, <1>12, <2>1, ReadSettles DEF BothOf
  <2> QED
    BY <2>2, <2>3 DEF ReadKnows
<1> QED
  BY <1>8, <1>9, <1>11, <1>12

LEMMA ReadInvStays == ReadInv /\ [Next]_vars => ReadInv'
<1> SUFFICES ASSUME ReadInv, [Next]_vars PROVE ReadInv'
  OBVIOUS
<1>1. ReadStands'
  BY LeftKeepsStanding, RightKeepsStanding, ReadStandsStill DEF ReadInv, Next
<1>2. ASSUME eye' # All(AnyWindow) PROVE ReadKnows' /\ ReadResults'
  <2>1. eye # All(AnyWindow)
    BY <1>2 DEF Next, Left, Right, vars
  <2>2. CASE Left
    BY <2>1, <2>2, LeftKeepsKnowing
  <2>3. CASE Right
    BY <2>1, <2>3, RightKeepsKnowing
  <2>4. CASE UNCHANGED vars
    <3>1. ReadKnows /\ ReadMarginsAreReal /\ Centred /\ ReadFailsForCause
      BY <2>1 DEF ReadInv, ReadResults
    <3>2. ReadKnows'
      BY <3>1, <2>4 DEF ReadKnows, vars
    <3>3. ReadMarginsAreReal' /\ Centred' /\ ReadFailsForCause'
      BY <3>1, <2>4 DEF ReadMarginsAreReal, Centred, ReadFailsForCause, After, Before, vars,
         NoBit
    <3> QED
      BY <3>2, <3>3 DEF ReadResults
  <2> QED
    BY <2>2, <2>3, <2>4 DEF Next
<1>3. (eye # All(AnyWindow))' <=> eye' # All(AnyWindow)
  BY DEF All, AnyWindow, Window
<1> QED
  BY <1>1, <1>2, <1>3 DEF ReadInv
----------------------------------------------------------------------------
(* The write side: the bits.                                                *)

\* Between the loops of a write a left edge makes a bit one the second loop
\* need not see.
HasLeftEdge(w, s, max) == w.lo <= s /\ w.hi >= s - max

WriteKnows ==
  /\ w_at = "left" =>
       /\ \A i \in Bits : LeftBit(w_edge[i], w_eye.bit[i], w_start, w_d, WRITE_MAX)
       /\ \A i \in w_sticky : LeftSeen(w_eye.bit[i], w_start, w_d)
  /\ w_at = "right" =>
       /\ \A i \in Bits : RightBit(w_edge[i], w_eye.bit[i], w_start, w_d, WRITE_MAX)
       /\ \A i \in w_sticky : \/ HasLeftEdge(w_eye.bit[i], w_start, WRITE_MAX)
                              \/ RightSeen(w_eye.bit[i], w_start, w_d)

\* A bit that is reported has no window in reach.
ReportedHasNone ==
  w_failing # W!NoBit =>
    \/ w_eye.bit[w_failing].hi < w_start - WRITE_MAX
    \/ w_eye.bit[w_failing].lo > WRITE_MAX

\* After the bits, the margins are those of the settled pins, and a margin
\* below zero is the doing of an end of the chain.
BitsSettled ==
  w_at \notin {"left", "right"} /\ w_failing = W!NoBit =>
    /\ \A i \in Bits : /\ w_margin.dq <= w_start - w_out.dq[i] - w_eye.bit[i].lo
                       /\ w_margin.dqs <= w_eye.bit[i].hi - (w_start - w_out.dq[i])
    /\ w_margin.dq < 0 \/ w_margin.dqs < 0
         => \E i \in Bits : w_out.dq[i] \in {0, WRITE_MAX}

WriteBits == WriteKnows /\ ReportedHasNone /\ BitsSettled

LEMMA WriteBoard ==
  ASSUME WriteStands, w_eye # WriteAny
  PROVE  /\ \A i \in Bits : /\ w_eye.bit[i] \in Windows /\ w_eye.bit[i].lo <= w_eye.bit[i].hi
                            /\ w_edge[i] \in Edges
         /\ w_start \in 0 .. WRITE_MAX /\ w_start \in Nat /\ WRITE_MAX \in Nat
         /\ w_d \in 0 .. WRITE_MAX /\ w_sticky \subseteq Bits
         /\ w_out.dq \in [Bits -> 0 .. WRITE_MAX] /\ w_out.dqs \in Int /\ w_out.dm \in Int
         /\ \A ok : ok \in WriteAnswers(w_eye, w_out, FALSE)
                      => ok = {i \in Bits : Spans(w_eye.bit[i], w_out.dqs - w_out.dq[i])}
<1>1. /\ w_eye \in WriteEyes \cup {WriteAny} /\ w_edge \in [Bits -> [l : Int, r : Int]]
      /\ w_d \in 0 .. WRITE_MAX /\ w_sticky \subseteq Bits /\ w_start \in 0 .. WRITE_MAX
      /\ w_out \in [dq : [Bits -> 0 .. WRITE_MAX], dqs : 0 .. WRITE_MAX, dm : 0 .. WRITE_MAX]
  BY WriteSideIs DEF WriteStands, W!TypeOK, W!Delays
<1>2. w_eye.bit \in [Bits -> WriteWindows]
  BY <1>1 DEF WriteEyes
<1>3. \A i \in Bits : w_eye.bit[i] \in Windows /\ w_eye.bit[i].lo <= w_eye.bit[i].hi
  BY <1>2, WriteAssumption DEF Windows
<1>4. \A ok : ok \in WriteAnswers(w_eye, w_out, FALSE)
                => ok = {i \in Bits : Spans(w_eye.bit[i], w_out.dqs - w_out.dq[i])}
  BY DEF WriteAnswers, Inside, Sampled
<1>5. \A i \in Bits : w_edge[i] \in Edges
  BY <1>1 DEF Edges
<1>6. WRITE_MAX \in Nat
  BY WriteAssumption
<1>7. w_start \in Nat
  BY <1>1
<1>8. /\ w_out.dq \in [Bits -> 0 .. WRITE_MAX]
      /\ w_out.dqs \in Int /\ w_out.dm \in Int
  BY <1>1
<1>9. \A i \in Bits : /\ w_eye.bit[i] \in Windows /\ w_eye.bit[i].lo <= w_eye.bit[i].hi
                      /\ w_edge[i] \in Edges
  BY <1>3, <1>5
<1> QED
  BY <1>1, <1>4, <1>6, <1>7, <1>8, <1>9

LEMMA WriteBitsAtFirst == W!Init => WriteBits
<1> SUFFICES ASSUME W!Init PROVE WriteBits
  OBVIOUS
<1>1. /\ w_at = "left" /\ w_d = 0 /\ w_edge = W!NoEdges /\ w_sticky = {}
      /\ w_failing = W!NoBit
  BY DEF W!Init
<1>2. \A i \in Bits : w_edge[i].l = None(WRITE_MAX) /\ w_edge[i].r = None(WRITE_MAX)
  BY <1>1, WriteSideIs DEF W!NoEdges
<1>3. WriteKnows
  BY <1>1, <1>2 DEF WriteKnows, LeftBit, LeftSeen
<1> QED
  BY <1>1, <1>3 DEF WriteBits, ReportedHasNone, BitsSettled

LEMMA WriteLeftKeepsBits ==
  ASSUME WriteStands, WriteBits, W!Left, w_eye # WriteAny
  PROVE  WriteBits'
<1>1. PICK ok \in SUBSET Bits :
        /\ ok \in WriteAnswers(w_eye, w_out, FALSE)
        /\ LET e == IF W!Stops(ok, w_sticky) THEN w_edge ELSE W!LeftEdges(w_edge, w_d, ok)
           IN  IF W!Stops(ok, w_sticky) \/ w_d = WRITE_MAX
               THEN /\ w_at' = "right" /\ w_d' = 0
                    /\ w_out' = [w_out EXCEPT !.dq = W!All(0)]
                    /\ w_edge' = W!Cleared(e)
                    /\ w_sticky' = W!HasLeft(W!Cleared(e))
               ELSE /\ w_d' = w_d + 1
                    /\ w_out' = [w_out EXCEPT !.dq = W!All(w_d + 1)]
                    /\ w_edge' = e
                    /\ w_sticky' = w_sticky \cup ok
                    /\ UNCHANGED w_at
  BY WriteSideIs DEF W!Left
<1> DEFINE stop == W!Stops(ok, w_sticky)
           f == LeftTo(w_edge, w_d, ok, WRITE_MAX)
           e == IF stop THEN w_edge ELSE f
<1>2. w_at = "left" /\ UNCHANGED <<w_eye, w_start, w_curr, w_best, w_margin, w_failing>>
  BY DEF W!Left
<1>3. /\ \A i \in Bits : LeftBit(w_edge[i], w_eye.bit[i], w_start, w_d, WRITE_MAX)
      /\ \A i \in w_sticky : LeftSeen(w_eye.bit[i], w_start, w_d)
  BY <1>2 DEF WriteBits, WriteKnows
<1>4. /\ \A i \in Bits : /\ w_eye.bit[i] \in Windows /\ w_eye.bit[i].lo <= w_eye.bit[i].hi
                         /\ w_edge[i] \in Edges
      /\ w_start \in Int /\ w_start \in Nat /\ WRITE_MAX \in Nat /\ w_d \in 0 .. WRITE_MAX
      /\ ok = {i \in Bits : Spans(w_eye.bit[i], w_out.dqs - w_out.dq[i])}
      /\ w_sticky \subseteq Bits
  <2>1. w_start \in Nat => w_start \in Int
    OBVIOUS
  <2> QED
    BY <1>1, <2>1, WriteBoard
<1>5. \A i \in Bits : i \in ok <=> Spans(w_eye.bit[i], w_start - w_d)
  <2>1. w_out.dqs = w_start /\ w_out.dq = All(w_d)
    BY <1>2 DEF WriteStands, WritePlaces
  <2> QED
    BY <1>4, <2>1 DEF All
<1>6. /\ e = IF W!Stops(ok, w_sticky) THEN w_edge ELSE W!LeftEdges(w_edge, w_d, ok)
      /\ W!Cleared(e) = ClearedTo(e, WRITE_MAX)
      /\ W!HasLeft(W!Cleared(e))
         = {i \in Bits : ClearedTo(e, WRITE_MAX)[i].l # None(WRITE_MAX)}
  BY WriteSideIs DEF W!HasLeft
<1>7. \A i \in Bits : /\ f[i] \in Edges
                      /\ LeftBit(f[i], w_eye.bit[i], w_start, w_d + 1, WRITE_MAX)
                      /\ i \in w_sticky \cup ok => LeftSeen(w_eye.bit[i], w_start, w_d + 1)
  <2> TAKE i \in Bits
  <2> DEFINE p == w_edge[i]
             w == w_eye.bit[i]
  <2>1. f[i] = IF i \in ok THEN [p EXCEPT !.l = w_d]
               ELSE IF p.l = None(WRITE_MAX) THEN [p EXCEPT !.r = -(w_d + 1)]
               ELSE p
    BY DEF LeftTo
  <2>2. f[i] \in Edges
    BY <2>1, <1>4 DEF Edges
  <2>3. /\ p \in Edges /\ w \in Windows /\ w.lo <= w.hi
        /\ LeftBit(p, w, w_start, w_d, WRITE_MAX)
        /\ i \in ok <=> Spans(w, w_start - w_d)
        /\ i \in w_sticky => LeftSeen(w, w_start, w_d)
    BY <1>3, <1>4, <1>5
  <2> HIDE DEF f, p, w
  <2>4. /\ Spans(w, w_start - w_d)
             => LeftBit([p EXCEPT !.l = w_d], w, w_start, w_d + 1, WRITE_MAX)
        /\ ~Spans(w, w_start - w_d) /\ p.l = None(WRITE_MAX)
             => LeftBit([p EXCEPT !.r = -(w_d + 1)], w, w_start, w_d + 1, WRITE_MAX)
        /\ ~Spans(w, w_start - w_d) /\ p.l # None(WRITE_MAX)
             => LeftBit(p, w, w_start, w_d + 1, WRITE_MAX)
        /\ LeftSeen(w, w_start, w_d + 1)
             <=> (LeftSeen(w, w_start, w_d) \/ Spans(w, w_start - w_d))
    BY <1>4, <2>3, LeftBitStep
  <2>5. LeftBit(f[i], w, w_start, w_d + 1, WRITE_MAX)
    BY <2>1, <2>3, <2>4
  <2>6. i \in w_sticky \cup ok => LeftSeen(w, w_start, w_d + 1)
    BY <2>3, <2>4
  <2> QED
    BY <2>2, <2>5, <2>6 DEF w
<1>8. w_failing' = W!NoBit' /\ w_at' \in {"left", "right"}
  BY <1>1, <1>2 DEF WriteStands, WritePlaces, W!NoBit
<1>9. ReportedHasNone' /\ BitsSettled'
  BY <1>8 DEF ReportedHasNone, BitsSettled
<1>10. CASE ~ (stop \/ w_d = WRITE_MAX)
  <2>1. w_at' = "left" /\ w_d' = w_d + 1 /\ w_edge' = f /\ w_sticky' = w_sticky \cup ok
    BY <1>1, <1>2, <1>6, <1>10
  <2> HIDE DEF f
  <2>2. WriteKnows'
    BY <1>2, <1>4, <1>7, <2>1 DEF WriteKnows
  <2> QED
    BY <1>9, <2>2 DEF WriteBits
<1>11. CASE stop \/ w_d = WRITE_MAX
  <2> DEFINE g == ClearedTo(e, WRITE_MAX)
             n == IF stop THEN w_d ELSE WRITE_MAX + 1
  <2>1. /\ w_at' = "right" /\ w_d' = 0 /\ w_edge' = g
        /\ w_sticky' = {i \in Bits : g[i].l # None(WRITE_MAX)}
    BY <1>1, <1>6, <1>11
  <2>2. \A i \in Bits : /\ RightBit(g[i], w_eye.bit[i], w_start, 0, WRITE_MAX)
                        /\ g[i].l # None(WRITE_MAX)
                             => HasLeftEdge(w_eye.bit[i], w_start, WRITE_MAX)
    <3> TAKE i \in Bits
    <3>1. g[i] = IF e[i].l = None(WRITE_MAX) THEN [e[i] EXCEPT !.r = None(WRITE_MAX)] ELSE e[i]
      BY DEF ClearedTo
    <3>2. e[i] \in Edges /\ LeftBit(e[i], w_eye.bit[i], w_start, n, WRITE_MAX)
      BY <1>3, <1>4, <1>7, <1>11
    <3>3. /\ n \in 0 .. WRITE_MAX + 1
          /\ \/ n = WRITE_MAX + 1
             \/ /\ n <= WRITE_MAX /\ LeftSeen(w_eye.bit[i], w_start, n)
                /\ ~Spans(w_eye.bit[i], w_start - n)
      <4>1. CASE stop
        <5>1. i \notin ok /\ i \in w_sticky
          BY <4>1, WriteSideIs DEF W!Stops
        <5> QED
          BY <1>3, <1>4, <1>5, <4>1, <5>1
      <4>2. CASE ~stop
        BY <1>4, <4>2
      <4> QED
        BY <4>1, <4>2
    <3> HIDE DEF e, n
    <3>4. /\ RightBit(g[i], w_eye.bit[i], w_start, 0, WRITE_MAX)
          /\ g[i].l # None(WRITE_MAX)
               => w_eye.bit[i].lo <= w_start /\ w_eye.bit[i].hi >= w_start - WRITE_MAX
      BY <1>4, <3>1, <3>2, <3>3, LeftBitDone
    <3> QED
      BY <3>4 DEF HasLeftEdge
  <2> HIDE DEF g
  <2>3. WriteKnows'
    BY <1>2, <2>1, <2>2 DEF WriteKnows
  <2> QED
    BY <1>9, <2>3 DEF WriteBits
<1> QED
  BY <1>10, <1>11
\* The pins that a write group is settled at, and the margins left.
LEMMA WriteSettles ==
  ASSUME WriteStands, w_eye # WriteAny, W!Right,
         NEW e \in EdgesOf(WRITE_MAX), W!Settle(e),
         \A i \in Bits : /\ e[i].l <= w_start - w_eye.bit[i].lo
                         /\ e[i].r <= w_eye.bit[i].hi - w_start
                         /\ e[i].l + e[i].r >= 0
  PROVE  BitsSettled'
<1> DEFINE c(i) == ShiftTo(e, i, 0, WRITE_MAX)
<1>1. /\ \A i \in Bits : w_eye.bit[i].lo \in Int /\ w_eye.bit[i].hi \in Int
      /\ w_start \in Int /\ WRITE_MAX \in Nat
  BY WriteBoard DEF Windows
<1>2. UNCHANGED <<w_eye, w_start>> /\ w_margin \in [dq : Int, dqs : Int, dm : Int]
  BY DEF W!Right, WriteStands, W!TypeOK
<1>3. /\ w_out' = [dq |-> [i \in Bits |-> c(i)], dqs |-> w_start, dm |-> WRITE_MAX]
      /\ w_margin'.dq = MarginsTo(e, 0, WRITE_MAX).dq
      /\ w_margin'.dqs = MarginsTo(e, 0, WRITE_MAX).dqs
  BY <1>2, WriteSideIs DEF W!Settle
<1>4. \A i \in Bits : w_out'.dq[i] = c(i)
  BY <1>3
<1>5. \A i \in Bits : c(i) \in 0 .. WRITE_MAX
  BY <1>1, ShiftStays
<1>6. /\ \A i \in Bits : w_margin'.dq <= e[i].l - c(i) - 0 /\ w_margin'.dqs <= e[i].r + c(i) + 0
      /\ (\A i \in Bits : e[i].l - c(i) - 0 >= 0 /\ e[i].r + c(i) + 0 >= 0)
           => w_margin'.dq >= 0 /\ w_margin'.dqs >= 0
      /\ w_margin'.dq \in Int /\ w_margin'.dqs \in Int
  BY <1>1, <1>3, MarginsAreLeast
<1>7. \A i \in Bits : c(i) \notin {0, WRITE_MAX} => e[i].l - c(i) - 0 >= 0 /\ e[i].r + c(i) + 0 >= 0
  <2> TAKE i \in Bits
  <2> SUFFICES ASSUME c(i) \notin {0, WRITE_MAX}
               PROVE  e[i].l - c(i) - 0 >= 0 /\ e[i].r + c(i) + 0 >= 0
    OBVIOUS
  <2>1. c(i) < WRITE_MAX /\ c(i) > 0
    <3>1. \A x \in 0 .. WRITE_MAX : x \notin {0, WRITE_MAX} => x < WRITE_MAX /\ x > 0
      BY <1>1
    <3> HIDE DEF c
    <3> QED
      BY <1>5, <3>1
  <2> QED
    BY <1>1, <2>1, SettledBit
<1>8. \A i \in Bits : e[i].l \in Int /\ e[i].r \in Int
  BY <1>1, EdgesAreNumbers
<1> HIDE DEF c
<1>9. \A i \in Bits : /\ w_margin'.dq <= w_start - c(i) - w_eye.bit[i].lo
                      /\ w_margin'.dqs <= w_eye.bit[i].hi - (w_start - c(i))
  <2> TAKE i \in Bits
  <2>1. /\ w_margin'.dq <= e[i].l - c(i) - 0 /\ w_margin'.dqs <= e[i].r + c(i) + 0
        /\ e[i].l <= w_start - w_eye.bit[i].lo /\ e[i].r <= w_eye.bit[i].hi - w_start
        /\ w_margin'.dq \in Int /\ w_margin'.dqs \in Int /\ c(i) \in Int
        /\ e[i].l \in Int /\ e[i].r \in Int
        /\ w_eye.bit[i].lo \in Int /\ w_eye.bit[i].hi \in Int /\ w_start \in Int
    BY <1>1, <1>5, <1>6, <1>8
  <2> QED
    BY <2>1
<1>10. w_margin'.dq < 0 \/ w_margin'.dqs < 0 => \E i \in Bits : c(i) \in {0, WRITE_MAX}
  BY <1>6, <1>7
<1> QED
  BY <1>2, <1>4, <1>9, <1>10 DEF BitsSettled

LEMMA WriteRightKeepsBits ==
  ASSUME WriteStands, WriteBits, W!Right, w_eye # WriteAny
  PROVE  WriteBits'
<1>1. PICK ok \in SUBSET Bits :
        /\ ok \in WriteAnswers(w_eye, w_out, FALSE)
        /\ LET stop == W!Stops(ok, w_sticky)
               last == stop \/ w_d = WRITE_MAX - w_start
               e    == IF stop /\ w_d > 0 THEN w_edge ELSE W!RightEdges(w_edge, w_d, ok)
           IN  /\ w_edge' = e
               /\ w_sticky' = w_sticky \cup ok
               /\ \/ ~last /\ w_d' = w_d + 1 /\ w_out' = [w_out EXCEPT !.dqs = @ + 1]
                     /\ UNCHANGED <<w_at, w_margin, w_failing>>
                  \/ last /\ W!HasBoth(e) # W!Bits /\ W!GiveUp(e)
                  \/ last /\ W!HasBoth(e) = W!Bits /\ W!Settle(e)
  BY WriteSideIs DEF W!Right
<1> DEFINE stop == W!Stops(ok, w_sticky)
           last == stop \/ w_d = WRITE_MAX - w_start
           f == RightTo(w_edge, w_d, ok, WRITE_MAX)
           e == IF stop /\ w_d > 0 THEN w_edge ELSE f
<1>2. w_at = "right" /\ UNCHANGED <<w_eye, w_start>>
  BY DEF W!Right
<1>3. /\ \A i \in Bits : RightBit(w_edge[i], w_eye.bit[i], w_start, w_d, WRITE_MAX)
      /\ \A i \in w_sticky : \/ HasLeftEdge(w_eye.bit[i], w_start, WRITE_MAX)
                             \/ RightSeen(w_eye.bit[i], w_start, w_d)
  BY <1>2 DEF WriteBits, WriteKnows
<1>4. /\ \A i \in Bits : /\ w_eye.bit[i] \in Windows /\ w_eye.bit[i].lo <= w_eye.bit[i].hi
                         /\ w_edge[i] \in Edges
      /\ w_start \in Nat /\ WRITE_MAX \in Nat /\ w_d \in 0 .. WRITE_MAX
      /\ w_start \in 0 .. WRITE_MAX
      /\ ok = {i \in Bits : Spans(w_eye.bit[i], w_out.dqs - w_out.dq[i])}
      /\ w_sticky \subseteq Bits
  BY <1>1, WriteBoard
<1>5. /\ \A i \in Bits : i \in ok <=> Spans(w_eye.bit[i], w_start + w_d)
      /\ w_d <= WRITE_MAX - w_start
      /\ w_failing = W!NoBit
  <2>1. /\ w_out = [dq |-> All(0), dqs |-> w_start + w_d, dm |-> 0]
        /\ w_d <= WRITE_MAX - w_start /\ w_failing = W!NoBit
    BY <1>2 DEF WriteStands, WritePlaces
  <2>2. \A i \in Bits : w_out.dqs - w_out.dq[i] = w_start + w_d
    BY <1>4, <2>1 DEF All
  <2> QED
    BY <1>4, <2>1, <2>2
<1>6. /\ e = IF stop /\ w_d > 0 THEN w_edge ELSE W!RightEdges(w_edge, w_d, ok)
      /\ W!HasBoth(e) = BothOf(e, WRITE_MAX)
  BY WriteSideIs
<1>7. \A i \in Bits : /\ f[i] \in Edges
                      /\ RightBit(f[i], w_eye.bit[i], w_start, w_d + 1, WRITE_MAX)
                      /\ i \in w_sticky \cup ok
                           => \/ HasLeftEdge(w_eye.bit[i], w_start, WRITE_MAX)
                              \/ RightSeen(w_eye.bit[i], w_start, w_d + 1)
  <2> TAKE i \in Bits
  <2> DEFINE p == w_edge[i]
             w == w_eye.bit[i]
  <2>1. f[i] = IF i \in ok THEN [p EXCEPT !.r = w_d]
               ELSE IF p.r # None(WRITE_MAX) THEN p
               ELSE IF w_d = 0 /\ p.l # None(WRITE_MAX) THEN [p EXCEPT !.r = -1]
               ELSE [p EXCEPT !.l = -(w_d + 1)]
    BY DEF RightTo
  <2>2. f[i] \in Edges
    BY <2>1, <1>4 DEF Edges
  <2>3. p \in Edges /\ w \in Windows /\ w.lo <= w.hi /\ RightBit(p, w, w_start, w_d, WRITE_MAX)
        /\ (i \in ok <=> Spans(w, w_start + w_d))
    BY <1>3, <1>4, <1>5
  <2> HIDE DEF f, p, w
  <2>4. /\ RightBit(f[i], w, w_start, w_d + 1, WRITE_MAX)
        /\ RightSeen(w, w_start, w_d + 1)
             <=> (RightSeen(w, w_start, w_d) \/ Spans(w, w_start + w_d))
    BY <1>4, <2>1, <2>3, RightBitStep
  <2>5. i \in w_sticky \cup ok
          => HasLeftEdge(w, w_start, WRITE_MAX) \/ RightSeen(w, w_start, w_d + 1)
    BY <1>3, <2>3, <2>4 DEF w
  <2> QED
    BY <2>2, <2>4, <2>5 DEF w
<1>8. /\ w_edge' = e /\ w_sticky' = w_sticky \cup ok
      /\ \/ ~last /\ w_d' = w_d + 1 /\ UNCHANGED <<w_at, w_margin, w_failing>>
         \/ last /\ BothOf(e, WRITE_MAX) # Bits /\ W!GiveUp(e)
         \/ last /\ BothOf(e, WRITE_MAX) = Bits /\ W!Settle(e)
  BY <1>1, <1>6, WriteSideIs
<1>9. CASE ~last /\ w_d' = w_d + 1 /\ UNCHANGED <<w_at, w_margin, w_failing>>
  <2>1. w_at' = "right" /\ w_edge' = f /\ w_sticky' = w_sticky \cup ok
        /\ w_failing' = W!NoBit'
    BY <1>2, <1>5, <1>8, <1>9 DEF W!NoBit
  <2> HIDE DEF f
  <2>2. WriteKnows'
    BY <1>2, <1>4, <1>7, <1>9, <2>1 DEF WriteKnows
  <2>3. ReportedHasNone' /\ BitsSettled'
    BY <2>1 DEF ReportedHasNone, BitsSettled
  <2> QED
    BY <2>2, <2>3 DEF WriteBits
<1>10. ASSUME stop, NEW i \in Bits
       PROVE  /\ e[i] = w_edge[i] /\ ~Spans(w_eye.bit[i], w_start + w_d)
              /\ \/ Below(w_eye.bit[i], w_start, WRITE_MAX)
                 \/ RightSeen(w_eye.bit[i], w_start, w_d)
  <2> DEFINE p == w_edge[i]
             w == w_eye.bit[i]
  <2>1. i \notin ok /\ i \in w_sticky
    BY <1>10, WriteSideIs DEF W!Stops
  <2>2. /\ ~Spans(w, w_start + w_d) /\ RightBit(p, w, w_start, w_d, WRITE_MAX)
        /\ HasLeftEdge(w, w_start, WRITE_MAX) \/ RightSeen(w, w_start, w_d)
        /\ w.lo \in Int /\ w.hi \in Int /\ w.lo <= w.hi
    BY <1>3, <1>4, <1>5, <2>1 DEF Windows
  <2> HIDE DEF p, w
  <2>3. Below(w, w_start, WRITE_MAX) \/ RightSeen(w, w_start, w_d)
    BY <1>4, <2>2 DEF HasLeftEdge, Below, RightSeen, Spans
  <2>4. w_d = 0 => p.r # None(WRITE_MAX)
    <3>1. SUFFICES ASSUME w_d = 0 PROVE p.r # None(WRITE_MAX)
      OBVIOUS
    <3>2. Below(w, w_start, WRITE_MAX)
      BY <2>3, <3>1 DEF RightSeen
    <3>3. p.r = w.hi - w_start
      BY <1>4, <2>2, <3>2 DEF RightBit, Below
    <3> QED
      BY <1>4, <2>2, <3>2, <3>3 DEF Below, None
  <2>5. e[i] = p
    <3>1. CASE w_d > 0
      BY <1>10, <3>1 DEF p
    <3>2. CASE ~ (w_d > 0)
      <4>1. w_d = 0
        BY <1>4, <3>2
      <4>2. f[i] = p
        BY <2>1, <2>4, <4>1 DEF RightTo, p
      <4> QED
        BY <3>2, <4>2
    <3> QED
      BY <3>1, <3>2
  <2> QED
    BY <2>2, <2>3, <2>5 DEF p, w
<1>11. ASSUME last
       PROVE  \A i \in Bits :
                /\ DoneBit(e[i], w_eye.bit[i], w_start, WRITE_MAX, WRITE_MAX - w_start)
                /\ e[i].l # None(WRITE_MAX) /\ e[i].r # None(WRITE_MAX) =>
                     /\ e[i].l <= w_start - w_eye.bit[i].lo
                     /\ e[i].r <= w_eye.bit[i].hi - w_start
                     /\ e[i].l + e[i].r >= 0
  <2> TAKE i \in Bits
  <2> DEFINE n == IF stop THEN w_d ELSE w_d + 1
             p == e[i]
             w == w_eye.bit[i]
             l == WRITE_MAX - w_start
  <2>1. /\ p \in Edges /\ w \in Windows /\ w.lo <= w.hi
        /\ RightBit(p, w, w_start, n, WRITE_MAX)
    <3>1. CASE stop
      <4>1. p = w_edge[i] /\ n = w_d
        BY <3>1, <1>10
      <4> HIDE DEF p, n
      <4> QED
        BY <4>1, <1>3, <1>4
    <3>2. CASE ~stop
      BY <3>2, <1>4, <1>7
    <3> QED
      BY <3>1, <3>2
  <2>2. l \in 0 .. WRITE_MAX /\ n \in 0 .. l + 1
    BY <1>4, <1>5, <1>11
  <2>3. \/ n = l + 1
        \/ n <= l /\ ~Spans(w, w_start + n)
           /\ (Below(w, w_start, WRITE_MAX) \/ RightSeen(w, w_start, n))
    <3>1. CASE stop
      BY <3>1, <1>4, <1>5, <1>10
    <3>2. CASE ~stop
      BY <3>2, <1>4, <1>11
    <3> QED
      BY <3>1, <3>2
  <2> HIDE DEF n, p, w, l
  <2>4. /\ DoneBit(p, w, w_start, WRITE_MAX, l)
        /\ p.l # None(WRITE_MAX) /\ p.r # None(WRITE_MAX) =>
             /\ p.l <= w_start - w.lo /\ p.r <= w.hi - w_start
             /\ p.l + p.r >= 0
    BY <1>4, <2>1, <2>2, <2>3, RightBitDone
  <2> QED
    BY <2>4 DEF p, w, l
<1>12. CASE last /\ BothOf(e, WRITE_MAX) # Bits /\ W!GiveUp(e)
  <2>1. w_at' = "none" /\ w_failing' = Min(Bits \ BothOf(e, WRITE_MAX))
    <3>1. \A S : W!Min(S) = Min(S)
      BY DEF W!Min, Min
    <3> QED
      BY <1>6, <1>12, <3>1, WriteSideIs DEF W!GiveUp
  <2>2. w_failing' \in Bits \ BothOf(e, WRITE_MAX)
    <3>1. Bits \ BothOf(e, WRITE_MAX) \in SUBSET Bits /\ Bits \ BothOf(e, WRITE_MAX) # {}
      BY <1>12 DEF BothOf
    <3> QED
      BY <2>1, <3>1, ReportedIsBit
  <2> DEFINE w == w_eye.bit[w_failing']
             p == e[w_failing']
  <2>3. /\ w.lo \in Int /\ w.hi \in Int /\ w.lo <= w.hi
    BY <1>4, <2>2 DEF Windows
  <2>4. /\ DoneBit(p, w, w_start, WRITE_MAX, WRITE_MAX - w_start)
        /\ p.l = None(WRITE_MAX) \/ p.r = None(WRITE_MAX)
    <3> HIDE DEF e
    <3> QED
      BY <1>11, <1>12, <2>2 DEF BothOf
  <2>5. w_start + (WRITE_MAX - w_start) = WRITE_MAX
    BY <1>4
  <2>6. w.hi < w_start - WRITE_MAX \/ w.lo > WRITE_MAX
    <3> HIDE DEF w, p, e
    <3> QED
      BY <1>4, <2>3, <2>4, <2>5 DEF DoneBit, LowerOf, None
  <2>7. w_failing' # W!NoBit'
    BY <2>2, DeskewAssumption DEF W!NoBit, Bits
  <2>8. ReportedHasNone' /\ BitsSettled'
    BY <1>2, <2>6, <2>7 DEF ReportedHasNone, BitsSettled
  <2> QED
    BY <2>1, <2>8 DEF WriteBits, WriteKnows
<1>13. CASE last /\ BothOf(e, WRITE_MAX) = Bits /\ W!Settle(e)
  <2>1. e \in EdgesOf(WRITE_MAX)
    <3>1. w_edge \in EdgesOf(WRITE_MAX)
      BY DEF WriteStands
    <3> QED
      BY <1>4, <3>1, EdgesStay
  <2>2. w_at' = "dm" /\ w_failing' = W!NoBit'
    BY <1>5, <1>13 DEF W!Settle, W!NoBit
  <2> HIDE DEF e
  <2>3. BitsSettled'
    BY <1>11, <1>13, <2>1, WriteSettles DEF BothOf
  <2> QED
    BY <2>2, <2>3 DEF WriteBits, WriteKnows, ReportedHasNone
<1> QED
  BY <1>8, <1>9, <1>12, <1>13
----------------------------------------------------------------------------
(* The write side: the mask.  P stands for the places of the mask's axis at *)
(* which a write passes, and t for the last place tested.                   *)

\* The current run is the whole run that ends at t, or none.
CurrIs(P, t, run) ==
  IF t \in P
  THEN /\ run = [bgn |-> run.bgn, end |-> t] /\ run.bgn \in Int /\ run.bgn <= t
       /\ run.bgn .. t \subseteq P /\ run.bgn - 1 \notin P
  ELSE run = W!NoRun

\* No run of places up to t is longer than the best, none as long begins
\* before it.
Beaten(P, t, run) ==
  \A x, y \in P : x <= y /\ y <= t /\ x .. y \subseteq P =>
    \/ y - x < run.end - run.bgn
    \/ y - x = run.end - run.bgn /\ run.bgn <= x

BestIs(P, t, run) ==
  IF \A x \in P : x > t THEN run = W!NoRun
  ELSE /\ run.bgn \in Int /\ run.end \in Int /\ run.bgn <= run.end /\ run.end <= t
       /\ run.bgn .. run.end \subseteq P
       /\ Beaten(P, t, run)

\* The length of a run that is one, and of none.
LEMMA LengthIs ==
  ASSUME NEW P \in SUBSET (-WRITE_MAX .. WRITE_MAX), NEW run,
         run.bgn \in Int, run.end \in Int, run.bgn <= run.end,
         run.bgn .. run.end \subseteq P
  PROVE  W!Length(run) = run.end - run.bgn + 1 /\ run.bgn # W!Illegal
<1>1. run.bgn \in P
  OBVIOUS
<1>2. run.bgn # W!Illegal
  BY <1>1, WriteSideIs, WriteAssumption DEF None
<1> QED
  BY <1>2 DEF W!Length

LEMMA NoRunHasNoLength == W!Length(W!NoRun) = 0
BY DEF W!Length, W!NoRun

\* The test of the next place.
LEMMA SearchStep ==
  ASSUME NEW P \in SUBSET (-WRITE_MAX .. WRITE_MAX), NEW t \in Int,
         CurrIs(P, t, w_curr), BestIs(P, t, w_best)
  PROVE  LET run == W!Run(t + 1, t + 1 \in P)
         IN  /\ CurrIs(P, t + 1, run) /\ BestIs(P, t + 1, W!Better(run))
             /\ t + 1 \notin P => W!Better(run) = w_best
<1> DEFINE u == t + 1
           run == W!Run(u, u \in P)
<1>1. /\ P \subseteq Int /\ u \in Int /\ u - 1 = t
      /\ \A y \in P : y <= u <=> (y <= t \/ y = u)
  BY WriteAssumption
<1>2. W!NoRun.bgn = W!Illegal /\ W!Illegal \notin P
  BY WriteSideIs, WriteAssumption DEF W!NoRun, None
<1>3. CASE u \notin P
  <2>1. run = W!NoRun
    BY <1>3 DEF W!Run
  <2>2. W!Better(run) = w_best
    <3>1. W!Length(w_best) >= 0
      <4>1. CASE \A x \in P : x > t
        BY <4>1, NoRunHasNoLength DEF BestIs
      <4>2. CASE ~ \A x \in P : x > t
        BY <4>2, LengthIs DEF BestIs
      <4> QED
        BY <4>1, <4>2
    <3>2. W!Length(w_best) \in Int
      <4>1. CASE \A x \in P : x > t
        BY <4>1, NoRunHasNoLength DEF BestIs
      <4>2. CASE ~ \A x \in P : x > t
        BY <4>2, LengthIs DEF BestIs
      <4> QED
        BY <4>1, <4>2
    <3> QED
      BY <2>1, <3>1, <3>2, NoRunHasNoLength DEF W!Better
  <2>3. \A y \in P : y <= u <=> y <= t
    BY <1>1, <1>3
  <2>4. BestIs(P, u, w_best)
    <3>1. (\A x \in P : x > t) <=> (\A x \in P : x > u)
      BY <1>1, <2>3
    <3>2. Beaten(P, t, w_best) => Beaten(P, u, w_best)
      BY <2>3 DEF Beaten
    <3> QED
      BY <1>1, <3>1, <3>2 DEF BestIs
  <2> QED
    BY <1>3, <2>1, <2>2, <2>4 DEF CurrIs
<1>4. CASE u \in P
  <2> DEFINE b == IF w_curr.bgn = W!Illegal THEN u ELSE w_curr.bgn
  <2>1. run = [bgn |-> b, end |-> u]
    BY <1>4 DEF W!Run
  <2>2. b \in Int /\ b <= u /\ b .. u \subseteq P /\ b - 1 \notin P
    <3>1. CASE t \in P
      <4>1. /\ w_curr.bgn \in Int /\ w_curr.bgn <= t /\ w_curr.bgn .. t \subseteq P
            /\ w_curr.bgn - 1 \notin P
        BY <3>1 DEF CurrIs
      <4>2. w_curr.bgn \in P
        BY <1>1, <4>1
      <4>3. b = w_curr.bgn
        BY <1>2, <4>2
      <4> HIDE DEF b
      <4>4. b .. u \subseteq P
        <5>1. \A z \in b .. u : z \in b .. t \/ z = u
          BY <1>1, <4>1, <4>3
        <5> QED
          BY <1>4, <4>1, <4>3, <5>1
      <4> QED
        BY <1>1, <4>1, <4>3, <4>4
    <3>2. CASE t \notin P
      <4>1. b = u
        BY <1>2, <3>2 DEF CurrIs
      <4> QED
        BY <1>1, <1>4, <3>2, <4>1
    <3> QED
      BY <3>1, <3>2
  <2> HIDE DEF b
  <2>3. CurrIs(P, u, run)
    BY <1>4, <2>1, <2>2 DEF CurrIs
  <2>4. \A x \in P : x <= u /\ x .. u \subseteq P => b <= x
    <3> SUFFICES ASSUME NEW x \in P, x <= u, x .. u \subseteq P, ~ (b <= x) PROVE FALSE
      OBVIOUS
    <3>1. b - 1 \in x .. u
      BY <1>1, <2>2
    <3> QED
      BY <2>2, <3>1
  <2>5. W!Length(run) = u - b + 1
    <3>1. run.bgn = b /\ run.end = u
      BY <2>1
    <3> HIDE DEF run
    <3> QED
      BY <1>1, <2>2, <3>1, LengthIs
  <2>6. ~ \A x \in P : x > u
    BY <1>1, <1>4
  <2>7. CASE \A x \in P : x > t
    <3>1. w_best = W!NoRun
      BY <2>7 DEF BestIs
    <3>2. W!Better(run) = run
      BY <1>1, <2>2, <2>5, <3>1, NoRunHasNoLength DEF W!Better
    <3>3. Beaten(P, u, run)
      <4> SUFFICES ASSUME NEW x \in P, NEW y \in P, x <= y, y <= u, x .. y \subseteq P
                   PROVE  y - x < u - b \/ (y - x = u - b /\ b <= x)
        BY <2>1 DEF Beaten
      <4>1. y = u
        BY <1>1, <2>7
      <4> QED
        BY <1>1, <2>2, <2>4, <4>1
    <3> QED
      BY <1>1, <1>4, <2>1, <2>2, <2>3, <2>6, <3>2, <3>3 DEF BestIs
  <2>8. CASE ~ \A x \in P : x > t
    <3> DEFINE g == w_best.bgn
               h == w_best.end
    <3>1. /\ g \in Int /\ h \in Int /\ g <= h /\ h <= t /\ g .. h \subseteq P
          /\ Beaten(P, t, w_best)
      BY <2>8 DEF BestIs
    <3>2. W!Length(w_best) = h - g + 1
      BY <3>1, LengthIs
    <3>3. \A x, y \in P : x <= y /\ y <= t /\ x .. y \subseteq P =>
            y - x < h - g \/ (y - x = h - g /\ g <= x)
      BY <3>1 DEF Beaten
    <3> HIDE DEF g, h
    <3>4. CASE u - b + 1 > h - g + 1
      <4>1. W!Better(run) = run
        BY <2>5, <3>2, <3>4 DEF W!Better
      <4>2. Beaten(P, u, run)
        <5> SUFFICES ASSUME NEW x \in P, NEW y \in P, x <= y, y <= u, x .. y \subseteq P
                     PROVE  y - x < u - b \/ (y - x = u - b /\ b <= x)
          BY <2>1 DEF Beaten
        <5>1. CASE y = u
          BY <1>1, <2>2, <2>4, <5>1
        <5>2. CASE y # u
          <6>1. y <= t
            BY <1>1, <5>2
          <6>2. y - x < h - g \/ y - x = h - g
            BY <3>3, <6>1
          <6> QED
            BY <1>1, <2>2, <3>1, <3>4, <6>2 DEF g, h
        <5> QED
          BY <5>1, <5>2
      <4> QED
        BY <1>1, <2>1, <2>2, <2>3, <2>6, <4>1, <4>2 DEF BestIs
    <3>5. CASE ~ (u - b + 1 > h - g + 1)
      <4>1. W!Better(run) = w_best
        BY <2>5, <3>2, <3>5 DEF W!Better
      <4>2. Beaten(P, u, w_best)
        <5> SUFFICES ASSUME NEW x \in P, NEW y \in P, x <= y, y <= u, x .. y \subseteq P
                     PROVE  y - x < h - g \/ (y - x = h - g /\ g <= x)
          BY DEF Beaten, g, h
        <5>1. CASE y = u
          <6>1. b <= x
            BY <2>4, <5>1
          <6>2. /\ x \in Int /\ u \in Int /\ g \in Int /\ h \in Int /\ b \in Int
                /\ h <= t /\ u = t + 1
            BY <1>1, <2>2, <3>1 DEF g, h
          <6> QED
            BY <3>5, <5>1, <6>1, <6>2
        <5>2. CASE y # u
          <6>1. y <= t
            BY <1>1, <5>2
          <6> QED
            BY <3>3, <6>1
        <5> QED
          BY <5>1, <5>2
      <4>3. w_best.end <= u
        BY <1>1, <3>1 DEF h
      <4> QED
        BY <2>3, <2>6, <3>1, <4>1, <4>2, <4>3 DEF BestIs, g, h
    <3> QED
      BY <3>4, <3>5
  <2> QED
    BY <1>4, <2>7, <2>8
<1> QED
  BY <1>3, <1>4

\* The test of a place that was the last tested changes nothing: the two loops
\* meet at 0.
LEMMA SearchAgain ==
  ASSUME NEW P \in SUBSET (-WRITE_MAX .. WRITE_MAX), NEW t \in Int,
         CurrIs(P, t, w_curr), BestIs(P, t, w_best)
  PROVE  LET run == W!Run(t, t \in P)
         IN  run = w_curr /\ W!Better(run) = w_best
<1> DEFINE run == W!Run(t, t \in P)
<1>1. P \subseteq Int /\ W!Illegal \notin P
  BY WriteSideIs, WriteAssumption DEF None
<1>2. CASE t \notin P
  <2>1. run = w_curr /\ run = W!NoRun
    BY <1>2 DEF W!Run, CurrIs
  <2>2. W!Length(w_best) \in Int /\ W!Length(w_best) >= 0
    <3>1. CASE \A x \in P : x > t
      BY <3>1, NoRunHasNoLength DEF BestIs
    <3>2. CASE ~ \A x \in P : x > t
      <4>1. /\ w_best.bgn \in Int /\ w_best.end \in Int /\ w_best.bgn <= w_best.end
            /\ w_best.bgn .. w_best.end \subseteq P
        BY <3>2 DEF BestIs
      <4>2. W!Length(w_best) = w_best.end - w_best.bgn + 1
        BY <4>1, LengthIs
      <4> QED
        BY <4>1, <4>2
    <3> QED
      BY <3>1, <3>2
  <2> QED
    BY <2>1, <2>2, NoRunHasNoLength DEF W!Better
<1>3. CASE t \in P
  <2>1. /\ w_curr = [bgn |-> w_curr.bgn, end |-> t] /\ w_curr.bgn \in Int /\ w_curr.bgn <= t
        /\ w_curr.bgn .. t \subseteq P
    BY <1>3 DEF CurrIs
  <2>2. w_curr.bgn \in P /\ w_curr.end = t
    BY <2>1
  <2>3. run = w_curr
    BY <1>1, <1>3, <2>1, <2>2 DEF W!Run
  <2>4. W!Length(w_curr) = t - w_curr.bgn + 1
    BY <2>1, <2>2, LengthIs
  <2>5. ~ \A x \in P : x > t
    BY <1>1, <1>3
  <2>6. /\ w_best.bgn \in Int /\ w_best.end \in Int
        /\ t - w_curr.bgn < w_best.end - w_best.bgn \/ t - w_curr.bgn = w_best.end - w_best.bgn
    BY <1>1, <1>3, <2>1, <2>2, <2>5 DEF BestIs, Beaten
  <2>7. W!Length(w_best) = w_best.end - w_best.bgn + 1
    BY <2>5, LengthIs DEF BestIs
  <2>8. ~ (t - w_curr.bgn + 1 > w_best.end - w_best.bgn + 1)
    BY <2>1, <2>6
  <2>9. W!Better(w_curr) = w_best
    BY <2>4, <2>7, <2>8 DEF W!Better
  <2> QED
    BY <2>3, <2>9
<1> QED
  BY <1>2, <1>3
\* A write with DQ delayed by q, DQS by a and the mask by b passes.
Passes(e, q, a, b) == (\A i \in Bits : Spans(e.bit[i], a - q[i])) /\ a - b \in e.mask

Outs == [dq : [Bits -> 0 .. WRITE_MAX], dqs : 0 .. WRITE_MAX, dm : 0 .. WRITE_MAX]

LEMMA WritesWorkIs ==
  ASSUME NEW e, NEW o \in Outs, NEW a, NEW b
  PROVE  /\ WritesWork(e, [o EXCEPT !.dqs = a, !.dm = b]) <=> Passes(e, o.dq, a, b)
         /\ WritesWork(e, [o EXCEPT !.dm = b]) <=> Passes(e, o.dq, o.dqs, b)
         /\ WritesWork(e, o) <=> Passes(e, o.dq, o.dqs, o.dm)
<1> DEFINE o1 == [o EXCEPT !.dqs = a, !.dm = b]
           o2 == [o EXCEPT !.dm = b]
<1>1. /\ o1.dqs = a /\ o1.dm = b /\ o1.dq = o.dq
      /\ o2.dqs = o.dqs /\ o2.dm = b /\ o2.dq = o.dq
  BY DEF Outs
<1> HIDE DEF o1, o2
<1>2. \A x : WritesWork(e, x) <=> Passes(e, x.dq, x.dqs, x.dm)
  BY DEF WritesWork, Inside, Obeyed, Sampled, Passes
<1> QED
  BY <1>1, <1>2 DEF o1, o2

\* The passing places, of the settled pins.
PassingOf(e, q, s) ==
  {x \in -WRITE_MAX .. WRITE_MAX - s :
     Passes(e, q, s + (IF x > 0 THEN x ELSE 0), IF x < 0 THEN -x ELSE 0)}

LEMMA PassingIs ==
  /\ w_out \in Outs => Passing = PassingOf(w_eye, w_out.dq, w_start)
  /\ w_out' \in Outs => Passing' = PassingOf(w_eye', w_out'.dq, w_start')
BY WritesWorkIs DEF Passing, Place, PassingOf

LEMMA WriteOuts == WriteStands => w_out \in Outs
BY WriteSideIs DEF WriteStands, W!TypeOK, W!Delays, Outs

\* The places of the axis: what passes at a place, and at the test of it.
LEMMA PassingAt ==
  ASSUME WriteStands
  PROVE  /\ Passing \in SUBSET (-WRITE_MAX .. WRITE_MAX)
         /\ \A x \in Passing : /\ w_start + x \in w_eye.mask
                               /\ x <= WRITE_MAX - w_start
         /\ w_at = "dm" => (WritesWork(w_eye, w_out) <=> -w_d \in Passing)
         /\ w_at = "dqs" => (WritesWork(w_eye, w_out) <=> w_d \in Passing)
<1>1. /\ w_start \in 0 .. WRITE_MAX /\ WRITE_MAX \in Nat /\ w_d \in 0 .. WRITE_MAX
      /\ w_out \in Outs
  BY WriteOuts, WriteAssumption DEF WriteStands, W!TypeOK, W!Delays
<1>2. Passing = PassingOf(w_eye, w_out.dq, w_start)
  BY <1>1, PassingIs
<1>3. Passing \in SUBSET (-WRITE_MAX .. WRITE_MAX)
  BY <1>1, <1>2 DEF PassingOf
<1>4. ASSUME NEW x \in Passing PROVE w_start + x \in w_eye.mask /\ x <= WRITE_MAX - w_start
  <2>1. /\ x \in -WRITE_MAX .. WRITE_MAX - w_start
        /\ (w_start + (IF x > 0 THEN x ELSE 0)) - (IF x < 0 THEN -x ELSE 0) \in w_eye.mask
    BY <1>2 DEF PassingOf, Passes
  <2>2. (w_start + (IF x > 0 THEN x ELSE 0)) - (IF x < 0 THEN -x ELSE 0) = w_start + x
    BY <1>1, <2>1
  <2> QED
    BY <1>1, <2>1, <2>2
<1>5. WritesWork(w_eye, w_out) <=> Passes(w_eye, w_out.dq, w_out.dqs, w_out.dm)
  BY <1>1, WritesWorkIs
<1>6. ASSUME w_at = "dm" PROVE WritesWork(w_eye, w_out) <=> -w_d \in Passing
  <2>1. w_out.dqs = w_start /\ w_out.dm = w_d
    BY <1>6 DEF WriteStands, WritePlaces
  <2> DEFINE x == -w_d
  <2>2. /\ x \in -WRITE_MAX .. WRITE_MAX - w_start
        /\ w_start + (IF x > 0 THEN x ELSE 0) = w_start /\ (IF x < 0 THEN -x ELSE 0) = w_d
    BY <1>1
  <2> HIDE DEF x
  <2>3. x \in Passing <=> Passes(w_eye, w_out.dq, w_start, w_d)
    BY <1>2, <2>2 DEF PassingOf
  <2> QED
    BY <1>5, <2>1, <2>3 DEF x
<1>7. ASSUME w_at = "dqs" PROVE WritesWork(w_eye, w_out) <=> w_d \in Passing
  <2>1. w_out.dqs = w_start + w_d /\ w_out.dm = 0 /\ w_d <= WRITE_MAX - w_start
    BY <1>7 DEF WriteStands, WritePlaces
  <2>2. /\ w_d \in -WRITE_MAX .. WRITE_MAX - w_start
        /\ w_start + (IF w_d > 0 THEN w_d ELSE 0) = w_start + w_d
        /\ (IF w_d < 0 THEN -w_d ELSE 0) = 0
    BY <1>1, <2>1
  <2>3. w_d \in Passing <=> Passes(w_eye, w_out.dq, w_start + w_d, 0)
    BY <1>2, <2>2 DEF PassingOf
  <2> QED
    BY <1>5, <2>1, <2>3
<1> QED
  BY <1>3, <1>4, <1>6, <1>7

\* A test with the mask passes when a write does.
LEMMA MaskedPassIs ==
  ASSUME WriteStands, w_eye # WriteAny, NEW ok \in WriteAnswers(w_eye, w_out, TRUE)
  PROVE  W!MaskedPass(ok) <=> WritesWork(w_eye, w_out)
<1>1. ok = Inside(w_eye, w_out) \cup (IF Obeyed(w_eye, w_out) THEN {MaskBit} ELSE {})
  BY DEF WriteAnswers
<1>2. MaskBit \notin Bits /\ Inside(w_eye, w_out) \subseteq Bits /\ W!MaskBit = MaskBit
      /\ W!Bits = Bits
  BY DeskewAssumption, WriteSideIs DEF MaskBit, Bits, Inside, W!MaskBit
<1>3. CASE Obeyed(w_eye, w_out)
  BY <1>1, <1>2, <1>3 DEF W!MaskedPass, WritesWork
<1>4. CASE ~Obeyed(w_eye, w_out)
  BY <1>1, <1>2, <1>4 DEF W!MaskedPass, WritesWork
<1> QED
  BY <1>3, <1>4

----------------------------------------------------------------------------
\* What the search knows before every test of the mask.
Searched ==
  /\ w_at = "dm" => CurrIs(Passing, -w_d - 1, w_curr) /\ BestIs(Passing, -w_d - 1, w_best)
  /\ w_at = "dqs" =>
       LET t == IF w_d = 0 THEN 0 ELSE w_d - 1
       IN  CurrIs(Passing, t, w_curr) /\ BestIs(Passing, t, w_best)

WriteResults == WriteMarginsAreReal /\ WriteFailsForCause /\ LongestRun

WriteInv == WriteStands /\ (w_eye # WriteAny => WriteBits /\ Searched /\ WriteResults)

\* The results are claimed where deskew has ended.
LEMMA NoResultsYet == w_at \notin {"found", "none"} => WriteResults
BY DEF WriteResults, WriteMarginsAreReal, WriteFailsForCause, LongestRun

LEMMA NoResultsYetNext == w_at' \notin {"found", "none"} => WriteResults'
BY DEF WriteResults, WriteMarginsAreReal, WriteFailsForCause, LongestRun

LEMMA WriteInvAtFirst == W!Init => WriteInv
<1> SUFFICES ASSUME W!Init PROVE WriteInv
  OBVIOUS
<1>1. w_at = "left"
  BY DEF W!Init
<1> QED
  BY <1>1, WriteStandsAtFirst, WriteBitsAtFirst, NoResultsYet DEF WriteInv, Searched

\* The search begins with nothing tested.
LEMMA SearchBegins ==
  ASSUME WriteStands, WriteStands', w_eye # WriteAny, W!Right, WriteBits'
  PROVE  Searched' /\ WriteResults'
<1>1. CASE w_at' \in {"right", "none"} /\ w_at' # "dm"
  <2>1. w_at' = "none" => w_failing' # W!NoBit'
    <3> SUFFICES ASSUME w_at' = "none" PROVE w_failing' # W!NoBit'
      OBVIOUS
    <3>1. PICK e : W!HasBoth(e) # W!Bits /\ W!GiveUp(e)
      <4>1. w_at = "right"
        BY DEF W!Right
      <4> QED
        BY <4>1 DEF W!Right, W!Settle
    <3>2. w_failing' = Min(Bits \ BothOf(e, WRITE_MAX)) /\ BothOf(e, WRITE_MAX) # Bits
      <4>1. \A S : W!Min(S) = Min(S)
        BY DEF W!Min, Min
      <4> QED
        BY <3>1, <4>1, WriteSideIs DEF W!GiveUp
    <3>3. w_failing' \in Bits
      <4>1. Bits \ BothOf(e, WRITE_MAX) \in SUBSET Bits /\ Bits \ BothOf(e, WRITE_MAX) # {}
        BY <3>2 DEF BothOf
      <4> QED
        BY <3>2, <4>1, ReportedIsBit
    <3> QED
      BY <3>3, DeskewAssumption DEF W!NoBit, Bits
  <2>2. w_at' = "none" => WriteResults'
    <3>1. w_at' = "none" => WriteMarginsAreReal'
      BY DEF WriteMarginsAreReal
    <3>2. w_at' = "none" => LongestRun'
      BY <2>1 DEF LongestRun, NoBit, W!NoBit
    <3>3. ReportedHasNone'
      BY DEF WriteBits
    <3>4. w_at' = "none" => WriteFailsForCause'
      BY <2>1, <3>3 DEF WriteFailsForCause, ReportedHasNone, NoBit, W!NoBit
    <3> QED
      BY <3>1, <3>2, <3>4 DEF WriteResults
  <2>3. w_at' # "none" => WriteResults'
    BY <1>1, NoResultsYetNext
  <2> QED
    BY <1>1, <2>2, <2>3 DEF Searched
<1>2. CASE w_at' = "dm"
  <2>1. /\ w_d' = WRITE_MAX /\ w_curr' = W!NoRun /\ w_best' = W!NoRun
    <3>1. w_at = "right" /\ UNCHANGED <<w_curr, w_best>>
      BY DEF W!Right
    <3>2. w_curr = W!NoRun /\ w_best = W!NoRun
      BY <3>1 DEF WriteStands, WritePlaces
    <3>3. w_d' = WRITE_MAX
      BY <1>2, <3>1 DEF W!Right, W!GiveUp, W!Settle
    <3> QED
      BY <3>1, <3>2, <3>3
  <2>2. Passing' \subseteq -WRITE_MAX .. WRITE_MAX
    <3>1. w_out' \in Outs /\ w_start' \in 0 .. WRITE_MAX
      BY WriteSideIs DEF WriteStands, W!TypeOK, W!Delays, Outs
    <3> QED
      BY <3>1, PassingIs, WriteAssumption DEF PassingOf
  <2> DEFINE t == -WRITE_MAX - 1
  <2>3. t \notin Passing' /\ \A x \in Passing' : x > t
    BY <2>2, WriteAssumption
  <2> HIDE DEF t
  <2>4. CurrIs(Passing', t, w_curr') /\ BestIs(Passing', t, w_best')
    BY <2>1, <2>3 DEF CurrIs, BestIs
  <2>5. /\ CurrIs(Passing, -w_d - 1, w_curr)' <=> CurrIs(Passing', -w_d' - 1, w_curr')
        /\ BestIs(Passing, -w_d - 1, w_best)' <=> BestIs(Passing', -w_d' - 1, w_best')
    BY DEF CurrIs, BestIs, Beaten, W!NoRun, W!Illegal
  <2>6. Searched'
    BY <1>2, <2>1, <2>4, <2>5 DEF Searched, t
  <2> QED
    BY <1>2, <2>6, NoResultsYetNext
<1>3. w_at' \in {"right", "dm", "none"}
  BY DEF W!Right, W!GiveUp, W!Settle
<1> QED
  BY <1>1, <1>2, <1>3
\* The search for the mask's window leaves what the bits settled.
LEMMA BitsKept ==
  ASSUME WriteStands, WriteBits, w_at \in {"dm", "dqs"}, w_at' \notin {"left", "right"},
         w_out'.dq = w_out.dq, w_margin'.dq = w_margin.dq, w_margin'.dqs = w_margin.dqs,
         UNCHANGED <<w_eye, w_start, w_failing>>
  PROVE  WriteBits'
<1>1. w_failing = W!NoBit /\ w_failing' = W!NoBit'
  BY DEF WriteStands, WritePlaces, W!NoBit
<1>2. BitsSettled
  BY DEF WriteBits
<1>3. BitsSettled'
  BY <1>1, <1>2 DEF BitsSettled, W!NoBit
<1> QED
  BY <1>1, <1>3 DEF WriteBits, WriteKnows, ReportedHasNone

LEMMA PassingStays ==
  ASSUME WriteStands, WriteStands', UNCHANGED <<w_eye, w_start>>, w_out'.dq = w_out.dq
  PROVE  Passing' = Passing
<1>1. w_out \in Outs /\ w_out' \in Outs
  BY WriteSideIs DEF WriteStands, W!TypeOK, W!Delays, Outs
<1> QED
  BY <1>1, PassingIs

\* A search in the next state, of places that are those of this one.
LEMMA SearchedNext ==
  ASSUME Passing' = Passing,
         NEW t, CurrIs(Passing, t, w_curr'), BestIs(Passing, t, w_best'),
         \/ w_at' = "dm" /\ t = -w_d' - 1
         \/ w_at' = "dqs" /\ t = IF w_d' = 0 THEN 0 ELSE w_d' - 1
         \/ w_at' \notin {"dm", "dqs"}
  PROVE  Searched'
<1>1. /\ CurrIs(Passing', t, w_curr') /\ BestIs(Passing', t, w_best')
  OBVIOUS
<1>2. CASE w_at' = "dm"
  BY <1>1, <1>2 DEF Searched, CurrIs, BestIs, Beaten, W!NoRun, W!Illegal
<1>3. CASE w_at' = "dqs"
  BY <1>1, <1>3 DEF Searched, CurrIs, BestIs, Beaten, W!NoRun, W!Illegal
<1>4. CASE w_at' \notin {"dm", "dqs"}
  BY <1>4 DEF Searched
<1> QED
  BY <1>2, <1>3, <1>4

LEMMA MaskKeepsSearch ==
  ASSUME WriteStands, WriteStands', w_eye # WriteAny, WriteBits, Searched, W!Mask
  PROVE  WriteBits' /\ Searched' /\ WriteResults'
<1>1. PICK ok :
        /\ ok \in WriteAnswers(w_eye, w_out, TRUE)
        /\ LET run == W!Run(-w_d, W!MaskedPass(ok)) IN
             /\ w_best' = W!Better(run)
             /\ w_curr' = IF w_d = 0 /\ run.end # 0 THEN W!NoRun ELSE run
             /\ IF w_d > 0
                THEN w_d' = w_d - 1 /\ w_out' = [w_out EXCEPT !.dm = w_d - 1] /\ UNCHANGED w_at
                ELSE w_at' = "dqs" /\ UNCHANGED <<w_d, w_out>>
  BY DEF W!Mask
<1>2. w_at = "dm" /\ UNCHANGED <<w_eye, w_start, w_sticky, w_edge, w_margin, w_failing>>
  BY DEF W!Mask
<1>3. w_d \in 0 .. WRITE_MAX /\ WRITE_MAX \in Nat /\ w_out \in Outs
  BY WriteOuts, WriteAssumption DEF WriteStands, W!TypeOK, W!Delays
<1> DEFINE t == -w_d - 1
           run == W!Run(t + 1, t + 1 \in Passing)
<1>4. t \in Int /\ t + 1 = -w_d /\ Passing \in SUBSET (-WRITE_MAX .. WRITE_MAX)
      /\ (W!MaskedPass(ok) <=> t + 1 \in Passing)
  <2>1. t \in Int /\ t + 1 = -w_d
    BY <1>3
  <2>2. W!MaskedPass(ok) <=> WritesWork(w_eye, w_out)
    BY <1>1, MaskedPassIs
  <2>3. /\ Passing \in SUBSET (-WRITE_MAX .. WRITE_MAX)
        /\ WritesWork(w_eye, w_out) <=> -w_d \in Passing
    BY <1>2, PassingAt
  <2> QED
    BY <2>1, <2>2, <2>3
<1>5. CurrIs(Passing, t, w_curr) /\ BestIs(Passing, t, w_best)
  BY <1>2 DEF Searched
<1>6. run = W!Run(-w_d, W!MaskedPass(ok))
  <2>1. CASE W!MaskedPass(ok)
    BY <2>1, <1>4 DEF W!Run
  <2>2. CASE ~W!MaskedPass(ok)
    BY <2>2, <1>4 DEF W!Run
  <2> QED
    BY <2>1, <2>2
<1> HIDE DEF t
<1>7. CurrIs(Passing, t + 1, run) /\ BestIs(Passing, t + 1, W!Better(run))
  BY <1>4, <1>5, SearchStep
<1>8. w_best' = W!Better(run) /\ w_curr' = run
  <2>1. w_d = 0 /\ run.end # 0 => run = W!NoRun
    <3>1. SUFFICES ASSUME w_d = 0, t + 1 \in Passing PROVE run.end = 0
      BY DEF W!Run
    <3>2. run.end = t + 1
      BY <3>1 DEF W!Run
    <3> QED
      BY <1>4, <3>1, <3>2
  <2> HIDE DEF run
  <2> QED
    BY <1>1, <1>6, <2>1
<1> HIDE DEF run
<1>9. CurrIs(Passing, t + 1, w_curr') /\ BestIs(Passing, t + 1, w_best')
  BY <1>7, <1>8
<1>10. w_at' \in {"dm", "dqs"} /\ w_out'.dq = w_out.dq
  BY <1>1, <1>2, <1>3 DEF Outs
<1>11. \/ w_at' = "dm" /\ t + 1 = -w_d' - 1
       \/ w_at' = "dqs" /\ t + 1 = IF w_d' = 0 THEN 0 ELSE w_d' - 1
  BY <1>1, <1>2, <1>3, <1>4
<1>12. Searched'
  BY <1>2, <1>9, <1>10, <1>11, PassingStays, SearchedNext
<1>13. WriteBits'
  BY <1>2, <1>10, BitsKept
<1> QED
  BY <1>10, <1>12, <1>13, NoResultsYetNext

\* The search is over: what its best run is worth.
LEMMA SearchEnds ==
  ASSUME WriteStands, WriteStands', w_eye # WriteAny, WriteBits, WriteBits',
         w_at = "dqs", UNCHANGED <<w_eye, w_start, w_failing>>,
         BestIs(Passing, w_d, w_best'), W!Finish(w_best'),
         \/ w_d = WRITE_MAX - w_start
         \/ /\ w_d \notin Passing /\ w_best' = w_best
            /\ W!Length(w_best) - 1 > WRITE_MAX - w_start - w_d
  PROVE  WriteResults'
<1> DEFINE P == Passing
           g == w_best'.bgn
           h == w_best'.end
           mid == W!Mid(w_best')
<1>1. /\ w_start \in 0 .. WRITE_MAX /\ WRITE_MAX \in Nat /\ w_d \in 0 .. WRITE_MAX
      /\ w_out \in Outs /\ w_margin \in [dq : Int, dqs : Int, dm : Int]
      /\ w_d <= WRITE_MAX - w_start /\ w_failing = W!NoBit /\ w_failing' = NoBit'
  BY WriteOuts, WriteAssumption DEF WriteStands, W!TypeOK, W!Delays, WritePlaces, W!NoBit, NoBit
<1>2. /\ w_best' \in [bgn : Int, end : Int] /\ OnAxis(w_best')
  BY DEF WriteStands, W!TypeOK, OnAxis
<1>3. /\ w_out' = [w_out EXCEPT !.dqs = w_start, !.dm = mid]
      /\ w_out'.dq = w_out.dq /\ w_out'.dqs = w_start /\ w_out'.dm = mid
      /\ w_margin'.dq = w_margin.dq /\ w_margin'.dqs = w_margin.dqs
      /\ w_margin'.dm = IF w_best' = W!NoRun THEN -1 ELSE -g - mid
      /\ w_at' = IF w_margin'.dq >= 0 /\ w_margin'.dqs >= 0 /\ w_margin'.dm >= 0
                 THEN "found" ELSE "none"
  BY <1>1 DEF W!Finish, Outs
<1>4. /\ P \in SUBSET (-WRITE_MAX .. WRITE_MAX) /\ P \subseteq Int
      /\ \A x \in P : w_start + x \in w_eye.mask /\ x <= WRITE_MAX - w_start
  BY PassingAt, <1>1
<1>5. P' = P
  BY <1>3, PassingStays
<1>6. mid \in 0 .. WRITE_MAX
      /\ (g <= h => /\ g <= 0 => mid <= -g
                    /\ mid <= -g => -mid <= h)
  BY <1>2, MidStays
<1>7. g \in Int /\ h \in Int
  BY <1>2
<1>8. /\ BitsSettled'
      /\ \A i \in Bits : w_eye.bit[i].lo \in Int /\ w_eye.bit[i].hi \in Int
                         /\ w_out.dq[i] \in Int
  <2>1. \A i \in Bits : w_eye.bit[i] \in Windows /\ w_out.dq[i] \in 0 .. WRITE_MAX
    BY <1>1, WriteBoard
  <2> QED
    BY <2>1 DEF WriteBits, Windows
<1>9. /\ \A i \in Bits : /\ w_margin'.dq <= w_start - w_out.dq[i] - w_eye.bit[i].lo
                         /\ w_margin'.dqs <= w_eye.bit[i].hi - (w_start - w_out.dq[i])
      /\ w_margin'.dq < 0 \/ w_margin'.dqs < 0
           => \E i \in Bits : w_out.dq[i] \in {0, WRITE_MAX}
  <2>1. w_at' \notin {"left", "right"} /\ w_failing' = W!NoBit'
    BY <1>1, <1>3 DEF W!NoBit, NoBit
  <2> QED
    BY <1>3, <1>8, <2>1 DEF BitsSettled
<1>10. ASSUME w_best' # W!NoRun
       PROVE  /\ g <= h /\ g .. h \subseteq P /\ g \in P /\ h \in P
              /\ Beaten(P, w_d, w_best')
  BY <1>7, <1>10 DEF BestIs
<1> HIDE DEF P, g, h, mid
<1>11. WriteMarginsAreReal'
  <2> SUFFICES ASSUME w_at' = "found"
               PROVE  /\ WritesWork(w_eye, w_out')
                      /\ \A i \in Bits :
                           /\ w_margin'.dq  <= Sampled(w_out', i) - w_eye.bit[i].lo
                           /\ w_margin'.dqs <= w_eye.bit[i].hi - Sampled(w_out', i)
                      /\ \A n \in 0 .. w_margin'.dm :
                           WritesWork(w_eye, [w_out' EXCEPT !.dm = @ + n])
    BY DEF WriteMarginsAreReal
  <2>1. w_margin'.dq >= 0 /\ w_margin'.dqs >= 0 /\ w_margin'.dm >= 0
    BY <1>3
  <2>2. w_best' # W!NoRun /\ w_margin'.dm = -g - mid
    BY <1>3, <2>1
  <2>3. g <= h /\ g .. h \subseteq P /\ mid <= -g /\ -mid <= h
    <3>1. mid <= -g
      BY <1>6, <1>7, <2>1, <2>2
    <3> QED
      BY <1>6, <1>10, <2>2, <3>1
  <2>4. \A n \in 0 .. w_margin'.dm : w_start - (mid + n) \in w_eye.mask
    <3> TAKE n \in 0 .. w_margin'.dm
    <3>1. -(mid + n) \in g .. h
      BY <1>6, <1>7, <2>2, <2>3
    <3>2. w_start + (-(mid + n)) = w_start - (mid + n)
      BY <1>1, <1>6, <2>2
    <3> QED
      BY <1>4, <2>3, <3>1, <3>2
  <2>5. \A i \in Bits : Spans(w_eye.bit[i], w_start - w_out.dq[i])
    <3> TAKE i \in Bits
    <3> DEFINE u == w_start - w_out.dq[i]
    <3>1. /\ 0 <= u - w_eye.bit[i].lo /\ 0 <= w_eye.bit[i].hi - u
          /\ u \in Int /\ w_eye.bit[i].lo \in Int /\ w_eye.bit[i].hi \in Int
      <4>1. /\ w_margin'.dq <= u - w_eye.bit[i].lo /\ w_margin'.dqs <= w_eye.bit[i].hi - u
            /\ w_margin'.dq \in Int /\ w_margin'.dqs \in Int
            /\ u \in Int /\ w_eye.bit[i].lo \in Int /\ w_eye.bit[i].hi \in Int
        BY <1>1, <1>3, <1>8, <1>9
      <4> HIDE DEF u
      <4> QED
        BY <2>1, <4>1
    <3> HIDE DEF u
    <3>2. Spans(w_eye.bit[i], u)
      BY <3>1 DEF Spans
    <3> QED
      BY <3>2 DEF u
  <2>6. w_out' \in Outs
    BY <1>1, <1>3, <1>6 DEF Outs
  <2>7. \A n \in 0 .. w_margin'.dm : WritesWork(w_eye, [w_out' EXCEPT !.dm = @ + n])
    <3> TAKE n \in 0 .. w_margin'.dm
    <3>1. Passes(w_eye, w_out'.dq, w_out'.dqs, mid + n)
      BY <1>3, <2>4, <2>5 DEF Passes
    <3>2. [w_out' EXCEPT !.dm = @ + n] = [w_out' EXCEPT !.dm = mid + n]
      BY <1>3
    <3>3. WritesWork(w_eye, [w_out' EXCEPT !.dm = mid + n])
      BY <2>6, <3>1, WritesWorkIs
    <3> QED
      BY <3>2, <3>3
  <2>8. WritesWork(w_eye, w_out')
    <3>1. w_margin'.dm \in Int /\ 0 \in 0 .. w_margin'.dm /\ mid + 0 = mid
      BY <1>6, <1>7, <2>1, <2>2
    <3>2. w_start - mid \in w_eye.mask
      BY <2>4, <3>1
    <3>3. Passes(w_eye, w_out'.dq, w_out'.dqs, w_out'.dm)
      BY <1>3, <2>5, <3>2 DEF Passes
    <3> QED
      BY <2>6, <3>3, WritesWorkIs
  <2>9. \A i \in Bits : Sampled(w_out', i) = w_start - w_out.dq[i]
    BY <1>3 DEF Sampled
  <2> QED
    BY <1>9, <2>7, <2>8, <2>9
<1>12. WriteFailsForCause'
  <2> SUFFICES ASSUME w_at' = "none"
               PROVE  \/ \E i \in Bits : w_out.dq[i] \in {0, WRITE_MAX}
                      \/ w_best' = W!NoRun \/ g > 0
    <3>1. W!NoRun' = W!NoRun
      BY DEF W!NoRun, W!Illegal
    <3> QED
      BY <1>1, <1>3, <3>1 DEF WriteFailsForCause, g
  <2>1. ~ (w_margin'.dq >= 0 /\ w_margin'.dqs >= 0 /\ w_margin'.dm >= 0)
    BY <1>3
  <2>2. CASE w_margin'.dq < 0 \/ w_margin'.dqs < 0
    BY <1>9, <2>2
  <2>3. CASE ~ (w_margin'.dm >= 0) /\ w_best' # W!NoRun
    <3>1. ~ (-g - mid >= 0)
      BY <1>3, <2>3
    <3>2. ~ (g <= 0)
      BY <1>6, <1>7, <1>10, <2>3, <3>1
    <3> QED
      BY <1>7, <3>2
  <2>4. w_margin'.dq \in Int /\ w_margin'.dqs \in Int
    BY <1>1, <1>3
  <2> QED
    BY <2>1, <2>2, <2>3, <2>4
<1>13. LongestRun'
  <2>1. W!NoRun' = W!NoRun
    BY DEF W!NoRun, W!Illegal
  <2>2. \A a, b : IsRun(a, b)' <=> a <= b /\ a .. b \subseteq P
    BY <1>5 DEF IsRun, P
  <2> SUFFICES IF P = {} THEN w_best' = W!NoRun
               ELSE /\ g <= h /\ g .. h \subseteq P
                    /\ \A a, b \in P : a <= b /\ a .. b \subseteq P =>
                         \/ b - a < h - g
                         \/ b - a = h - g /\ g <= a
    <3>1. LongestRun' <=>
            (w_at' \in {"found", "none"} /\ w_failing' = NoBit' /\ w_eye' # WriteAny' =>
               IF Passing' = {} THEN w_best' = W!NoRun'
               ELSE /\ IsRun(w_best.bgn, w_best.end)'
                    /\ \A a, b \in Passing' :
                         IsRun(a, b)' => \/ b - a < w_best'.end - w_best'.bgn
                                         \/ /\ b - a = w_best'.end - w_best'.bgn
                                            /\ w_best'.bgn <= a)
      BY DEF LongestRun
    <3>2. IsRun(w_best.bgn, w_best.end)' <=> g <= h /\ g .. h \subseteq P
      BY <1>5 DEF IsRun, P, g, h
    <3> QED
      BY <1>5, <2>1, <2>2, <3>1, <3>2 DEF P, g, h
  <2>3. CASE \A x \in P : x > w_d
    <3>1. w_best' = W!NoRun
      BY <2>3 DEF BestIs, P
    <3>2. w_d = WRITE_MAX - w_start
      <4>1. SUFFICES ASSUME w_best' = w_best, W!Length(w_best) - 1 > WRITE_MAX - w_start - w_d
                     PROVE  FALSE
        OBVIOUS
      <4> QED
        BY <1>1, <3>1, <4>1, NoRunHasNoLength
    <3>3. P = {}
      BY <1>1, <1>4, <2>3, <3>2
    <3> QED
      BY <3>1, <3>3
  <2>4. CASE ~ \A x \in P : x > w_d
    <3>1. /\ g <= h /\ h <= w_d /\ g .. h \subseteq P /\ Beaten(P, w_d, w_best') /\ P # {}
      BY <2>4 DEF BestIs, P, g, h
    <3>2. ASSUME NEW a \in P, NEW b \in P, a <= b, a .. b \subseteq P
          PROVE  b - a < h - g \/ (b - a = h - g /\ g <= a)
      <4>1. CASE b <= w_d
        BY <3>1, <3>2, <4>1 DEF Beaten, g, h
      <4>2. CASE ~ (b <= w_d)
        <5>1. a \in Int /\ b \in Int /\ b <= WRITE_MAX - w_start /\ b > w_d
          BY <1>1, <1>4, <4>2
        <5>2. w_d \notin P /\ w_best' = w_best
              /\ W!Length(w_best) - 1 > WRITE_MAX - w_start - w_d
          BY <1>1, <5>1 DEF P
        <5>3. a > w_d
          <6>1. SUFFICES ASSUME a <= w_d PROVE FALSE
            BY <1>1, <5>1
          <6>2. w_d \in a .. b
            BY <1>1, <5>1, <6>1
          <6> QED
            BY <3>2, <5>2, <6>2
        <5>4. W!Length(w_best) = h - g + 1
          BY <1>4, <1>7, <3>1, <5>2, LengthIs DEF g, h
        <5> QED
          BY <1>1, <1>7, <5>1, <5>2, <5>3, <5>4
      <4> QED
        BY <4>1, <4>2
    <3> QED
      BY <3>1, <3>2
  <2> QED
    BY <2>3, <2>4
<1> QED
  BY <1>11, <1>12, <1>13 DEF WriteResults

LEMMA MaskDqsKeepsSearch ==
  ASSUME WriteStands, WriteStands', w_eye # WriteAny, WriteBits, Searched, W!MaskDqs
  PROVE  WriteBits' /\ Searched' /\ WriteResults'
<1>1. PICK ok :
        /\ ok \in WriteAnswers(w_eye, w_out, TRUE)
        /\ LET run      == W!Run(w_d, W!MaskedPass(ok))
               hopeless == /\ ~W!MaskedPass(ok)
                           /\ W!Length(w_best) - 1 > WRITE_MAX - w_start - w_d
           IN  /\ w_best' = W!Better(run)
               /\ w_curr' = run
               /\ \/ /\ w_d < WRITE_MAX - w_start /\ ~hopeless
                     /\ w_d' = w_d + 1
                     /\ w_out' = [w_out EXCEPT !.dqs = w_start + w_d + 1]
                     /\ UNCHANGED <<w_at, w_margin>>
                  \/ /\ w_d = WRITE_MAX - w_start \/ hopeless
                     /\ W!Finish(w_best')
                     /\ UNCHANGED w_d
  BY DEF W!MaskDqs
<1>2. w_at = "dqs" /\ UNCHANGED <<w_eye, w_start, w_sticky, w_edge, w_failing>>
  BY DEF W!MaskDqs
<1>3. /\ w_d \in 0 .. WRITE_MAX /\ w_start \in 0 .. WRITE_MAX /\ WRITE_MAX \in Nat
      /\ w_out \in Outs /\ w_margin \in [dq : Int, dqs : Int, dm : Int]
  BY WriteOuts, WriteAssumption DEF WriteStands, W!TypeOK, W!Delays
<1> DEFINE t == IF w_d = 0 THEN 0 ELSE w_d - 1
           run == W!Run(w_d, w_d \in Passing)
<1>4. /\ t \in Int /\ Passing \in SUBSET (-WRITE_MAX .. WRITE_MAX)
      /\ (W!MaskedPass(ok) <=> w_d \in Passing)
  <2>1. t \in Int
    BY <1>3
  <2>2. W!MaskedPass(ok) <=> WritesWork(w_eye, w_out)
    BY <1>1, MaskedPassIs
  <2>3. /\ Passing \in SUBSET (-WRITE_MAX .. WRITE_MAX)
        /\ WritesWork(w_eye, w_out) <=> w_d \in Passing
    BY <1>2, PassingAt
  <2> QED
    BY <2>1, <2>2, <2>3
<1>5. CurrIs(Passing, t, w_curr) /\ BestIs(Passing, t, w_best)
  BY <1>2 DEF Searched
<1>6. run = W!Run(w_d, W!MaskedPass(ok))
  <2>1. CASE W!MaskedPass(ok)
    BY <2>1, <1>4 DEF W!Run
  <2>2. CASE ~W!MaskedPass(ok)
    BY <2>2, <1>4 DEF W!Run
  <2> QED
    BY <2>1, <2>2
<1>7. /\ CurrIs(Passing, w_d, run) /\ BestIs(Passing, w_d, W!Better(run))
      /\ w_d \notin Passing => W!Better(run) = w_best
  <2>1. CASE w_d = 0
    <3>1. t = w_d
      BY <2>1
    <3> HIDE DEF t
    <3> QED
      BY <1>4, <1>5, <3>1, SearchAgain
  <2>2. CASE w_d # 0
    <3>1. t + 1 = w_d
      BY <1>3, <2>2
    <3> HIDE DEF t
    <3> QED
      BY <1>4, <1>5, <3>1, SearchStep
  <2> QED
    BY <2>1, <2>2
<1> HIDE DEF t, run
<1>8. /\ w_best' = W!Better(run) /\ w_curr' = run
      /\ CurrIs(Passing, w_d, w_curr') /\ BestIs(Passing, w_d, w_best')
      /\ w_d \notin Passing => w_best' = w_best
  BY <1>1, <1>6, <1>7
<1>9. CASE /\ w_d < WRITE_MAX - w_start
           /\ w_d' = w_d + 1
           /\ w_out' = [w_out EXCEPT !.dqs = w_start + w_d + 1]
           /\ UNCHANGED <<w_at, w_margin>>
  <2>1. w_out'.dq = w_out.dq /\ w_at' = "dqs"
    BY <1>2, <1>3, <1>9 DEF Outs
  <2>2. w_d = IF w_d' = 0 THEN 0 ELSE w_d' - 1
    BY <1>3, <1>9
  <2>3. Searched'
    BY <1>2, <1>8, <2>1, <2>2, PassingStays, SearchedNext
  <2>4. WriteBits'
    BY <1>2, <1>9, <2>1, BitsKept
  <2> QED
    BY <2>1, <2>3, <2>4, NoResultsYetNext
<1>10. CASE /\ \/ w_d = WRITE_MAX - w_start
               \/ /\ ~W!MaskedPass(ok)
                  /\ W!Length(w_best) - 1 > WRITE_MAX - w_start - w_d
            /\ W!Finish(w_best')
            /\ UNCHANGED w_d
  <2>1. /\ w_out'.dq = w_out.dq /\ w_at' \in {"found", "none"}
        /\ w_margin'.dq = w_margin.dq /\ w_margin'.dqs = w_margin.dqs
    BY <1>3, <1>10 DEF W!Finish, Outs
  <2>2. WriteBits'
    BY <1>2, <2>1, BitsKept
  <2>3. WriteResults'
    BY <1>2, <1>4, <1>8, <1>10, <2>2, SearchEnds
  <2> QED
    BY <2>1, <2>2, <2>3 DEF Searched
<1> QED
  BY <1>1, <1>9, <1>10
LEMMA WriteInvStays == WriteInv /\ [W!Next]_w_vars => WriteInv'
<1> SUFFICES ASSUME WriteInv, [W!Next]_w_vars PROVE WriteInv'
  OBVIOUS
<1>1. WriteStands /\ WriteStands'
  BY WriteLeftKeepsStanding, WriteRightKeepsStanding, MaskKeepsStanding,
     MaskDqsKeepsStanding, WriteStandsStill DEF WriteInv, W!Next
<1>2. ASSUME w_eye' # WriteAny PROVE WriteBits' /\ Searched' /\ WriteResults'
  <2>1. w_eye # WriteAny
    BY <1>2 DEF W!Next, W!Left, W!Right, W!Mask, W!MaskDqs, w_vars
  <2>2. WriteBits /\ Searched /\ WriteResults
    BY <2>1 DEF WriteInv
  <2>3. CASE W!Left
    <3>1. w_at' \in {"left", "right"}
      BY <2>3 DEF W!Left
    <3> QED
      BY <1>1, <2>1, <2>2, <2>3, <3>1, WriteLeftKeepsBits, NoResultsYetNext DEF Searched
  <2>4. CASE W!Right
    <3>1. WriteBits'
      BY <1>1, <2>1, <2>2, <2>4, WriteRightKeepsBits
    <3> QED
      BY <1>1, <2>1, <2>4, <3>1, SearchBegins
  <2>5. CASE W!Mask
    BY <1>1, <2>1, <2>2, <2>5, MaskKeepsSearch
  <2>6. CASE W!MaskDqs
    BY <1>1, <2>1, <2>2, <2>6, MaskDqsKeepsSearch
  <2>7. CASE UNCHANGED w_vars
    <3>1. /\ UNCHANGED <<w_eye, w_at, w_d, w_out, w_start, w_sticky, w_edge>>
          /\ UNCHANGED <<w_curr, w_best, w_margin, w_failing>>
      BY <2>7 DEF w_vars
    <3>2. WriteBits'
      BY <2>2, <3>1 DEF WriteBits, WriteKnows, ReportedHasNone, BitsSettled, W!NoBit
    <3>3. Passing' = Passing
      BY <1>1, <3>1, PassingStays
    <3>4. Searched'
      BY <2>2, <3>1, <3>3 DEF Searched, CurrIs, BestIs, Beaten, W!NoRun, W!Illegal
    <3>5. WriteMarginsAreReal' /\ WriteFailsForCause'
      BY <2>2, <3>1 DEF WriteResults, WriteMarginsAreReal, WriteFailsForCause, NoBit,
                        W!NoRun, W!Illegal
    <3>6. LongestRun'
      BY <2>2, <3>1, <3>3 DEF WriteResults, LongestRun, IsRun, NoBit, W!NoRun, W!Illegal
    <3> QED
      BY <3>2, <3>4, <3>5, <3>6 DEF WriteResults
  <2> QED
    BY <2>3, <2>4, <2>5, <2>6, <2>7 DEF W!Next
<1>3. (w_eye # WriteAny)' <=> w_eye' # WriteAny
  BY DEF WriteAny, All, AnyWindow, Window
<1> QED
  BY <1>1, <1>2, <1>3 DEF WriteInv

\* What is known of the windows holds at every step of either side.
LEMMA Known == MCSpec => [](ReadInv /\ WriteInv)
<1>1. MCInit => ReadInv /\ WriteInv
  BY ReadInvAtFirst, WriteInvAtFirst DEF MCInit
<1>2. ReadInv /\ WriteInv /\ [MCNext]_<<side, vars, w_vars>> => (ReadInv /\ WriteInv)'
  <2>1. [MCNext]_<<side, vars, w_vars>> => [Next]_vars /\ [W!Next]_w_vars
    BY DEF MCNext
  <2> QED
    BY <2>1, ReadInvStays, WriteInvStays
<1> QED
  BY <1>1, <1>2, PTL DEF MCSpec

\* The margins are the results of two loops, of a middle that is rounded and
\* of delays cut off at the ends of their chains; still, for every length of
\* the chains, number of bits and windows, a read group is sampled, and a write
\* and its mask arrive, at least the margins away from where they would fail.
THEOREM MarginsAreAlwaysReal == MCSpec => []MarginsAreReal
<1>1. ReadInv /\ WriteInv => MarginsAreReal
  BY DEF ReadInv, ReadResults, WriteInv, WriteResults, MarginsAreReal, ReadMarginsAreReal,
         WriteMarginsAreReal
<1> QED
  BY <1>1, Known, PTL

\* The two roundings of read deskew, of mid_min and of a pin's delay, do not add
\* up: a bit that no chain's end stopped is within half a tap of the middle.
THEOREM AlwaysCentred == MCSpec => []Centred
<1>1. ReadInv => Centred
  BY DEF ReadInv, ReadResults, Centred
<1> QED
  BY <1>1, Known, PTL

\* Deskew, of reads or of writes, fails only when a window is out of reach, a
\* chain is too short or the mask would need DQS to move: the roundings and
\* the early stops of the loops cost no window.
THEOREM AlwaysFailsForCause == MCSpec => []FailsForCause
<1>1. ReadInv /\ WriteInv => FailsForCause
  BY DEF ReadInv, ReadResults, WriteInv, WriteResults, FailsForCause, ReadFailsForCause,
         WriteFailsForCause
<1> QED
  BY <1>1, Known, PTL

\* The window of the mask that the search keeps is the longest there is over
\* the two chains laid end to end, the first of equals, for chains of every
\* length and whatever delays the mask works at: measuring 0 in both loops
\* counts no place twice, and stopping early misses no longer run.
THEOREM LongestRunIsKept == MCSpec => []LongestRun
<1>1. WriteInv => LongestRun
  BY DEF WriteInv, WriteResults, LongestRun
<1> QED
  BY <1>1, Known, PTL
=============================================================================
