-------------------------- MODULE GridNumberingProofs --------------------------
(***************************************************************************)
(* The walk and the formula agree on grids of every side.                  *)
(*                                                                         *)
(* The argument: while the walk is on a ring, the number of squares met is *)
(* the number of those in the smaller rings, 4 (r-1)^2, plus the distance  *)
(* walked on this ring; one more where the current square has been met,    *)
(* which is so just after a corner has been turned.                        *)
(*                                                                         *)
(* Ring and distance determine a square, so that no number is given twice; *)
(* as many are given as there are squares.  What is looked up by number is *)
(* therefore found: points, squares of the binary layout, and the rows of  *)
(* write_squares.                                                          *)
(*                                                                         *)
(* The last part is about calculate_traffic.  The squares near a path form *)
(* a band; where it is bolder than half the diagonal of a square, it has no *)
(* gaps: from every square of it one of the squares next to it is in the   *)
(* band too and nearer to the start (StepToStart).  The search of MarkPath *)
(* starts there and has the neighbours of all squares it marks wait, so    *)
(* that when none waits any more it has marked the whole band, every square *)
(* once; the traffic of a square is the sum over the paths told.           *)
(***************************************************************************)
EXTENDS SquarePrograms, SumTheorems, FiniteSetTheorems, TLAPS

Square == Int \X Int

\* The squares of side d of ring w, the end of one side being the start of the
\* next.
OnSide(c, w, d) ==
  /\ c[1] \in -w..(w - 1) /\ c[2] \in -w..(w - 1)
  /\ d = 0 => c[2] = -w
  /\ d = 1 => c[1] = w - 1
  /\ d = 2 => c[2] = w - 1
  /\ d = 3 => c[1] = -w

\* The distance walked on the ring.
Walked(c, w, d) ==
  CASE d = 0 -> c[1] + w
    [] d = 1 -> 3 * w - 1 + c[2]
    [] d = 2 -> 5 * w - 3 - c[1]
    [] d = 3 -> 7 * w - 4 - c[2]

Due == 4 * (r - 1) * (r - 1) + Walked(at, r, j)

TypeInv ==
  /\ side \in Sides /\ r \in 1..side /\ j \in 0..3
  /\ at \in Square /\ res \in Seq(Square) /\ ended \in BOOLEAN

PlaceInv ==
  /\ OnSide(at, r, j)
  /\ \/ Len(res) = Due
     \/ Len(res) = Due + 1 /\ res[Len(res)] = at /\ ~Closed
  /\ ended => Closed /\ r = side

\* The inductive invariant.
WalkInv == TypeInv /\ PlaceInv /\ WalkMatchesFormula

-------------------------------------------------------------------------------
(* Operators.                                                              *)

\* The ring of a square is the one of the side it is on.
LEMMA RingOfSide ==
  ASSUME NEW w \in Int, NEW d \in 0..3, NEW c \in Square, OnSide(c, w, d)
  PROVE  Ring(c) = w
<1> DEFINE S == {-c[1], c[1] + 1, -c[2], c[2] + 1}
           Top(m) == m >= -c[1] /\ m >= c[1] + 1 /\ m >= -c[2] /\ m >= c[2] + 1
<1>1. c[1] \in Int /\ c[2] \in Int
  BY DEF Square
<1>2. w \in S /\ Top(w)
  BY <1>1 DEF OnSide
<1>3. \A m \in S : Top(m) => m = w
  BY <1>1, <1>2
<1>4. Ring(c) = CHOOSE m \in S : Top(m)
  BY DEF Ring
<1>5. Ring(c) \in S /\ Top(Ring(c))
  <2> HIDE DEF S, Top
  <2> QED BY <1>2, <1>4
<1> QED BY <1>3, <1>5

\* No square is beyond its ring.
LEMMA RingBounds ==
  ASSUME NEW c \in Square
  PROVE  Ring(c) >= -c[1] /\ Ring(c) >= c[1] + 1 /\ Ring(c) >= -c[2] /\ Ring(c) >= c[2] + 1
<1> DEFINE S == {-c[1], c[1] + 1, -c[2], c[2] + 1}
           Top(m) == m >= -c[1] /\ m >= c[1] + 1 /\ m >= -c[2] /\ m >= c[2] + 1
<1>1. c[1] \in Int /\ c[2] \in Int
  BY DEF Square
<1>2. \E m \in S : Top(m)
  BY <1>1
<1>3. Ring(c) = CHOOSE m \in S : Top(m)
  BY DEF Ring
<1>4. Top(Ring(c))
  <2> HIDE DEF S, Top
  <2> QED BY <1>2, <1>3
<1> QED BY <1>4

\* The formula counts the distance walked, but where the ring is closed.
LEMMA FormulaOfSide ==
  ASSUME NEW w \in Int, w > 0, NEW d \in 0..3, NEW c \in Square, OnSide(c, w, d),
         ~(d = 3 /\ c = Corner(w))
  PROVE  SquareId(c) = 4 * (w - 1) * (w - 1) + Walked(c, w, d)
<1>1. Ring(c) = w
  BY RingOfSide
<1>2. c[1] \in Int /\ c[2] \in Int /\ c = <<c[1], c[2]>>
  BY DEF Square
<1>3. ~(d = 3 /\ c[2] = -w)
  BY <1>2 DEF OnSide, Corner
<1>4. IdInRing(c, w) = Walked(c, w, d)
  <2>1. CASE c[2] = -w
    BY <2>1, <1>2, <1>3 DEF OnSide, IdInRing, Walked
  <2>2. CASE c[2] # -w /\ d = 1
    BY <2>2, <1>2, <1>3 DEF OnSide, IdInRing, Walked
  <2>3. CASE c[2] # -w /\ d = 2
    BY <2>3, <1>2, <1>3 DEF OnSide, IdInRing, Walked
  <2>4. CASE c[2] # -w /\ d = 3
    BY <2>4, <1>2, <1>3 DEF OnSide, IdInRing, Walked
  <2> QED BY <2>1, <2>2, <2>3, <2>4 DEF OnSide
<1> QED BY <1>1, <1>4 DEF SquareId

\* The distance walked is a natural number.
LEMMA WalkedIsNat ==
  ASSUME NEW w \in Int, w > 0, NEW d \in 0..3, NEW c \in Square, OnSide(c, w, d)
  PROVE  Walked(c, w, d) \in Nat
<1>1. c[1] \in Int /\ c[2] \in Int
  BY DEF Square
<1>2. CASE d = 0
  BY <1>1, <1>2 DEF OnSide, Walked
<1>3. CASE d = 1
  BY <1>1, <1>3 DEF OnSide, Walked
<1>4. CASE d = 2
  BY <1>1, <1>4 DEF OnSide, Walked
<1>5. CASE d = 3
  BY <1>1, <1>5 DEF OnSide, Walked
<1> QED BY <1>2, <1>3, <1>4, <1>5

\* The rings the walk is on are proper ones.
LEMMA Positive ==
  ASSUME TypeInv
  PROVE  r \in Int /\ r > 0 /\ side \in Int /\ side > 0
BY SidesAssumption DEF TypeInv

\* The number due is a natural number.
LEMMA DueIsNat ==
  ASSUME TypeInv, OnSide(at, r, j)
  PROVE  Due \in Nat
<1> DEFINE a == 4 * (r - 1) * (r - 1)
<1>1. r \in Int /\ r > 0
  BY Positive
<1>2. a \in Nat
  <2>1. r - 1 \in Nat /\ 4 * (r - 1) \in Nat
    BY <1>1
  <2>2. \A m, n \in Nat : m * n \in Nat
    OBVIOUS
  <2> QED BY <2>1, <2>2, Zenon
<1>3. Walked(at, r, j) \in Nat
  BY <1>1, WalkedIsNat DEF TypeInv
<1>4. Due = a + Walked(at, r, j)
  BY DEF Due
<1> HIDE DEF a
<1> QED BY <1>2, <1>3, <1>4

-------------------------------------------------------------------------------
(* The invariant is inductive.                                             *)

LEMMA WalkInvInit == Init => WalkInv
<1> SUFFICES ASSUME Init PROVE WalkInv
  OBVIOUS
<1>1. TypeInv
  <2>1. side \in Nat \ {0}
    BY SidesAssumption DEF Init
  <2>2. at \in Square
    BY DEF Init, Square, Corner
  <2>3. res \in Seq(Square)
    BY DEF Init
  <2>4. ended \in BOOLEAN
    BY Zenon DEF Init
  <2>5. side \in Sides /\ r \in 1..side /\ j \in 0..3
    BY <2>1 DEF Init
  <2> QED BY <2>2, <2>3, <2>4, <2>5 DEF TypeInv
<1>2. PlaceInv
  <2>1. OnSide(at, r, j)
    BY DEF Init, OnSide, Corner
  <2>2. Due = 0
    BY DEF Init, Due, Walked, Corner
  <2> QED BY <2>1, <2>2 DEF Init, PlaceInv
<1>3. WalkMatchesFormula
  BY DEF Init, WalkMatchesFormula
<1> QED BY <1>1, <1>2, <1>3 DEF WalkInv

\* Once a turn has looked at its square, the square has been met and the next
\* number is due to the one after it.
LEMMA MeetKeepsNumbers ==
  ASSUME WalkInv, ~ended, ~Closed, Meet
  PROVE  /\ res' \in Seq(Square)
         /\ Len(res') = Due + 1 /\ res'[Len(res')] = at
         /\ \A i \in 1..Len(res') : SquareId(res'[i]) = i - 1
<1>1. /\ TypeInv /\ res \in Seq(Square) /\ at \in Square /\ j \in 0..3
      /\ r \in Int /\ r > 0
  BY Positive DEF WalkInv, TypeInv
<1>2. SquareId(at) = Due
  BY <1>1, FormulaOfSide DEF WalkInv, PlaceInv, Closed, Due
<1>3. Due \in Nat
  BY DueIsNat DEF WalkInv, PlaceInv
<1>4. CASE Len(res) = Due
  <2>1. res = <<>> \/ res[Len(res)] # at
    <3> SUFFICES ASSUME res # <<>>, res[Len(res)] = at PROVE FALSE
      OBVIOUS
    <3>1. Len(res) \in 1..Len(res)
      BY <1>1
    <3>2. SquareId(res[Len(res)]) = Len(res) - 1
      BY <3>1 DEF WalkInv, WalkMatchesFormula
    <3> QED BY <3>2, <1>2, <1>3, <1>4
  <2>2. res' = Append(res, at)
    BY <2>1 DEF Meet
  <2>3. res' \in Seq(Square) /\ Len(res') = Due + 1 /\ res'[Len(res')] = at
    BY <2>2, <1>1, <1>4
  <2>4. ASSUME NEW i \in 1..Len(res') PROVE SquareId(res'[i]) = i - 1
    <3>1. CASE i = Len(res')
      BY <3>1, <2>3, <1>2, <1>3
    <3>2. CASE i # Len(res')
      <4>1. i \in 1..Len(res)
        BY <3>2, <2>3, <1>3, <1>4
      <4>2. res'[i] = res[i]
        BY <4>1, <2>2, <1>1
      <4> QED BY <4>1, <4>2 DEF WalkInv, WalkMatchesFormula
    <3> QED BY <3>1, <3>2
  <2> QED BY <2>3, <2>4
<1>5. CASE Len(res) # Due
  <2>1. Len(res) = Due + 1 /\ res[Len(res)] = at
    BY <1>5 DEF WalkInv, PlaceInv
  <2>2. res # <<>>
    BY <2>1, <1>3
  <2>3. res' = res
    BY <2>1, <2>2 DEF Meet
  <2> QED BY <2>1, <2>3, <1>1 DEF WalkInv, WalkMatchesFormula
<1> QED BY <1>4, <1>5

\* A step along the side stays on it, and one more square is due.
LEMMA AheadOnSide ==
  ASSUME NEW w \in Int, w > 0, NEW d \in 0..3, NEW c \in Square, OnSide(c, w, d),
         Ring(Ahead(c, d)) = w
  PROVE  /\ Ahead(c, d) \in Square /\ OnSide(Ahead(c, d), w, d)
         /\ Walked(Ahead(c, d), w, d) = Walked(c, w, d) + 1
<1>1. c[1] \in Int /\ c[2] \in Int
  BY DEF Square
<1>2. CASE d = 0
  <2>1. Ahead(c, d) = <<c[1] + 1, c[2]>>
    BY <1>2 DEF Ahead
  <2> QED BY <1>1, <1>2, <2>1, RingBounds DEF OnSide, Walked, Square
<1>3. CASE d = 1
  <2>1. Ahead(c, d) = <<c[1], c[2] + 1>>
    BY <1>3 DEF Ahead
  <2> QED BY <1>1, <1>3, <2>1, RingBounds DEF OnSide, Walked, Square
<1>4. CASE d = 2
  <2>1. Ahead(c, d) = <<c[1] - 1, c[2]>>
    BY <1>4 DEF Ahead
  <2> QED BY <1>1, <1>4, <2>1, RingBounds DEF OnSide, Walked, Square
<1>5. CASE d = 3
  <2>1. Ahead(c, d) = <<c[1], c[2] - 1>>
    BY <1>5 DEF Ahead
  <2> QED BY <1>1, <1>5, <2>1, RingBounds DEF OnSide, Walked, Square
<1> QED BY <1>2, <1>3, <1>4, <1>5

\* Where the side ends the next one starts, and nothing more is due.
LEMMA TurnOnSide ==
  ASSUME NEW w \in Int, w > 0, NEW d \in 0..3, NEW c \in Square, OnSide(c, w, d),
         Ring(Ahead(c, d)) # w, ~(d = 3 /\ c = Corner(w))
  PROVE  /\ d + 1 \in 0..3 /\ OnSide(c, w, d + 1)
         /\ Walked(c, w, d + 1) = Walked(c, w, d)
         /\ c # Corner(w)
<1>1. c[1] \in Int /\ c[2] \in Int /\ c = <<c[1], c[2]>>
  BY DEF Square
<1>2. Ahead(c, d) \in Square => ~OnSide(Ahead(c, d), w, d)
  BY RingOfSide
<1>3. CASE d = 0
  <2>1. Ahead(c, d) = <<c[1] + 1, c[2]>>
    BY <1>3 DEF Ahead
  <2>2. c[1] = w - 1
    BY <1>1, <1>2, <1>3, <2>1 DEF OnSide, Square
  <2> QED BY <1>1, <1>3, <2>2 DEF OnSide, Walked, Corner
<1>4. CASE d = 1
  <2>1. Ahead(c, d) = <<c[1], c[2] + 1>>
    BY <1>4 DEF Ahead
  <2>2. c[2] = w - 1
    BY <1>1, <1>2, <1>4, <2>1 DEF OnSide, Square
  <2> QED BY <1>1, <1>4, <2>2 DEF OnSide, Walked, Corner
<1>5. CASE d = 2
  <2>1. Ahead(c, d) = <<c[1] - 1, c[2]>>
    BY <1>5 DEF Ahead
  <2>2. c[1] = -w
    BY <1>1, <1>2, <1>5, <2>1 DEF OnSide, Square
  <2> QED BY <1>1, <1>5, <2>2 DEF OnSide, Walked, Corner
<1>6. CASE d = 3
  <2>1. Ahead(c, d) = <<c[1], c[2] - 1>>
    BY <1>6 DEF Ahead
  <2>2. c[2] = -w
    BY <1>1, <1>2, <1>6, <2>1 DEF OnSide, Square
  <2> QED BY <1>1, <1>6, <2>2 DEF OnSide, Corner
<1> QED BY <1>3, <1>4, <1>5, <1>6

LEMMA WalkKeepsInv ==
  ASSUME WalkInv, Walk
  PROVE  WalkInv'
<1>1. /\ ~ended /\ ~Closed /\ Meet
      /\ side' = side /\ r' = r /\ ended' = ended
  BY DEF Walk
<1>2. /\ r \in Int /\ r > 0 /\ j \in 0..3 /\ at \in Square
      /\ OnSide(at, r, j) /\ TypeInv /\ ~(j = 3 /\ at = Corner(r))
  BY <1>1, Positive DEF WalkInv, TypeInv, PlaceInv, Closed
<1>3. /\ res' \in Seq(Square) /\ Len(res') = Due + 1 /\ res'[Len(res')] = at
      /\ WalkMatchesFormula'
  BY <1>1, MeetKeepsNumbers DEF WalkMatchesFormula
<1>4. at' \in Square /\ j' \in 0..3 /\ PlaceInv'
  <2>1. CASE Ring(Ahead(at, j)) = r /\ at' = Ahead(at, j) /\ j' = j
    <3>1. /\ at' \in Square /\ OnSide(at', r, j)
          /\ Walked(at', r, j) = Walked(at, r, j) + 1
      BY <2>1, <1>2, AheadOnSide
    <3>2. Walked(at, r, j) \in Nat
      BY <1>2, WalkedIsNat
    <3>3. Due' = Due + 1
      <4> DEFINE a == 4 * (r - 1) * (r - 1)
      <4>1. a \in Int
        BY <1>2
      <4>2. Due = a + Walked(at, r, j) /\ Due' = a + Walked(at', r, j)
        BY <2>1, <1>1 DEF Due
      <4> HIDE DEF a
      <4> QED BY <4>1, <4>2, <3>1, <3>2
    <3> QED BY <3>1, <3>3, <2>1, <1>1, <1>2, <1>3 DEF PlaceInv
  <2>2. CASE Turn
    <3>1. at' = at /\ j' = j + 1 /\ Ring(Ahead(at, j)) # r
      BY <2>2 DEF Turn
    <3>2. /\ j' \in 0..3 /\ OnSide(at', r, j')
          /\ Walked(at', r, j') = Walked(at, r, j) /\ at' # Corner(r)
      BY <3>1, <1>2, TurnOnSide
    <3>3. Due' = Due /\ ~Closed'
      BY <3>2, <1>1 DEF Due, Closed
    <3> QED BY <3>1, <3>2, <3>3, <1>1, <1>2, <1>3 DEF PlaceInv
  <2> QED BY <2>1, <2>2 DEF Walk
<1>5. TypeInv'
  BY <1>1, <1>2, <1>3, <1>4 DEF TypeInv
<1> QED BY <1>3, <1>4, <1>5 DEF WalkInv

\* When a ring is closed all its squares have been met.
LEMMA RingIsFull ==
  ASSUME WalkInv, Closed
  PROVE  Len(res) = 4 * r * r
<1>1. r \in Int /\ j = 3 /\ at[2] = -r
  BY Positive DEF WalkInv, Closed, Corner
<1>2. Walked(at, r, j) = 8 * r - 4
  BY <1>1 DEF Walked
<1>3. Len(res) = Due
  BY DEF WalkInv, PlaceInv
<1>4. 4 * (r - 1) * (r - 1) + (8 * r - 4) = 4 * r * r
  BY <1>1
<1> QED BY <1>2, <1>3, <1>4 DEF Due

LEMMA NextRingKeepsInv ==
  ASSUME WalkInv, NextRing
  PROVE  WalkInv'
<1>1. /\ r \in Int /\ r > 0 /\ side \in Int /\ r < side /\ TypeInv
      /\ side' = side /\ r' = r + 1 /\ j' = 0 /\ at' = <<-(r + 1), -(r + 1)>>
      /\ res' = res /\ ended' = ended /\ ~ended
  BY Positive DEF WalkInv, NextRing, Corner
<1>2. TypeInv'
  <2>1. at' \in Square
    BY <1>1 DEF Square
  <2>2. r' \in 1..side'
    BY <1>1
  <2>3. side' \in Sides /\ res' \in Seq(Square) /\ ended' \in BOOLEAN
    BY <1>1 DEF TypeInv
  <2> QED BY <2>1, <2>2, <2>3, <1>1 DEF TypeInv
<1>3. OnSide(at, r, j)'
  BY <1>1 DEF OnSide
<1>4. Len(res') = Due'
  <2>1. Walked(at', r', j') = 0
    BY <1>1 DEF Walked
  <2>2. Due' = 4 * r * r
    <3>1. r' - 1 = r
      BY <1>1
    <3>2. Due' = 4 * r * r + 0
      BY <2>1, <3>1 DEF Due
    <3> DEFINE a == 4 * r * r
    <3>3. a \in Int
      BY <1>1
    <3> HIDE DEF a
    <3>4. a + 0 = a
      BY <3>3
    <3> QED BY <3>2, <3>4 DEF a
  <2> QED BY <2>2, <1>1, RingIsFull DEF NextRing
<1>5. WalkMatchesFormula'
  BY <1>1 DEF WalkInv, WalkMatchesFormula
<1>6. ~ended'
  BY <1>1
<1> QED BY <1>2, <1>3, <1>4, <1>5, <1>6 DEF WalkInv, PlaceInv

LEMMA ReturnKeepsInv ==
  ASSUME WalkInv, Return
  PROVE  WalkInv'
<1>1. /\ side' = side /\ r' = r /\ j' = j /\ at' = at /\ res' = res
      /\ ended' = TRUE /\ Closed /\ r = side
  BY DEF Return
<1>2. TypeInv'
  BY <1>1 DEF WalkInv, TypeInv
<1>3. Due' = Due /\ Closed'
  BY <1>1 DEF Due, Closed
<1>4. OnSide(at, r, j)' /\ Len(res') = Due'
  BY <1>1, <1>3 DEF WalkInv, PlaceInv, OnSide
<1>5. WalkMatchesFormula'
  BY <1>1 DEF WalkInv, WalkMatchesFormula
<1> QED BY <1>1, <1>2, <1>3, <1>4, <1>5 DEF WalkInv, PlaceInv

LEMMA WalkInvNext == WalkInv /\ [Next]_vars => WalkInv'
<1> SUFFICES ASSUME WalkInv, [Next]_vars PROVE WalkInv'
  OBVIOUS
<1>1. CASE Walk
  BY <1>1, WalkKeepsInv
<1>2. CASE NextRing
  BY <1>2, NextRingKeepsInv
<1>3. CASE Return
  BY <1>3, ReturnKeepsInv
<1>4. CASE UNCHANGED vars
  <2>1. /\ side' = side /\ r' = r /\ j' = j /\ at' = at /\ res' = res
        /\ ended' = ended
    BY <1>4 DEF vars
  <2>2. TypeInv' /\ WalkMatchesFormula'
    BY <2>1 DEF WalkInv, TypeInv, WalkMatchesFormula
  <2>3. Due' = Due /\ (Closed' <=> Closed)
    BY <2>1 DEF Due, Closed
  <2>4. PlaceInv'
    BY <2>1, <2>3 DEF WalkInv, PlaceInv, OnSide
  <2> QED BY <2>2, <2>4 DEF WalkInv
<1> QED BY <1>1, <1>2, <1>3, <1>4 DEF Next

LEMMA WalkInvHolds == Spec => []WalkInv
BY WalkInvInit, WalkInvNext, PTL DEF Spec

-------------------------------------------------------------------------------
(* Every square has a number of its own.                                   *)

\* A square is on a side of its ring, and the corner a ring starts at is not
\* taken for the end of its last side.
LEMMA SideOfSquare ==
  ASSUME NEW c \in Square
  PROVE  /\ Ring(c) \in Int /\ Ring(c) > 0
         /\ \E d \in 0..3 : OnSide(c, Ring(c), d) /\ ~(d = 3 /\ c = Corner(Ring(c)))
<1> DEFINE S == {-c[1], c[1] + 1, -c[2], c[2] + 1}
           Top(m) == m >= -c[1] /\ m >= c[1] + 1 /\ m >= -c[2] /\ m >= c[2] + 1
<1>1. c[1] \in Int /\ c[2] \in Int /\ c = <<c[1], c[2]>>
  BY DEF Square
<1>2. \E m \in S : Top(m)
  BY <1>1
<1>3. Ring(c) = CHOOSE m \in S : Top(m)
  BY DEF Ring
<1>4. Ring(c) \in S /\ Top(Ring(c))
  <2> HIDE DEF S, Top
  <2> QED BY <1>2, <1>3
<1>5. PICK w : w = Ring(c)
  OBVIOUS
<1>6. w \in S /\ Top(w) /\ w \in Int /\ w > 0
  BY <1>1, <1>4, <1>5
<1>7. c[1] \in -w..(w - 1) /\ c[2] \in -w..(w - 1)
  BY <1>1, <1>6
<1>8. \E d \in 0..3 : OnSide(c, w, d) /\ ~(d = 3 /\ c = Corner(w))
  <2>1. CASE c[2] = -w
    BY <1>7, <2>1 DEF OnSide
  <2>2. CASE c[1] = w - 1
    BY <1>7, <2>2 DEF OnSide
  <2>3. CASE c[2] = w - 1
    BY <1>7, <2>3 DEF OnSide
  <2>4. CASE c[1] = -w /\ c[2] # -w
    <3>1. OnSide(c, w, 3)
      BY <1>7, <2>4 DEF OnSide
    <3>2. c # Corner(w)
      BY <2>4 DEF Corner
    <3> QED BY <3>1, <3>2
  <2> QED BY <1>1, <1>6, <2>1, <2>2, <2>3, <2>4
<1> QED BY <1>5, <1>6, <1>8

\* Where the sides are on the walk round a ring.
LEMMA WalkedBounds ==
  ASSUME NEW w \in Int, w > 0, NEW d \in 0..3, NEW c \in Square, OnSide(c, w, d),
         ~(d = 3 /\ c = Corner(w))
  PROVE  Walked(c, w, d) \in 0..(8 * w - 5)
<1>1. c[1] \in Int /\ c[2] \in Int /\ c = <<c[1], c[2]>>
  BY DEF Square
<1>2. CASE d = 0
  BY <1>1, <1>2 DEF OnSide, Walked
<1>3. CASE d = 1
  BY <1>1, <1>3 DEF OnSide, Walked
<1>4. CASE d = 2
  BY <1>1, <1>4 DEF OnSide, Walked
<1>5. CASE d = 3
  <2>1. c[1] = -w /\ c[2] # -w
    BY <1>1, <1>5 DEF OnSide, Corner
  <2> QED BY <1>1, <1>5, <2>1 DEF OnSide, Walked
<1> QED BY <1>2, <1>3, <1>4, <1>5

\* One place on the walk round a ring is one square.
LEMMA WalkedOnce ==
  ASSUME NEW w \in Int, w > 0,
         NEW d \in 0..3, NEW c \in Square, OnSide(c, w, d), ~(d = 3 /\ c = Corner(w)),
         NEW e \in 0..3, NEW b \in Square, OnSide(b, w, e), ~(e = 3 /\ b = Corner(w)),
         Walked(c, w, d) = Walked(b, w, e)
  PROVE  c = b
<1>1. /\ c[1] \in Int /\ c[2] \in Int /\ c = <<c[1], c[2]>>
      /\ b[1] \in Int /\ b[2] \in Int /\ b = <<b[1], b[2]>>
  BY DEF Square
<1>2. /\ d = 3 => c[2] # -w
      /\ e = 3 => b[2] # -w
  BY <1>1 DEF OnSide, Corner
<1>3. c[1] = b[1] /\ c[2] = b[2]
  <2>1. CASE d = 0
    BY <1>1, <1>2, <2>1 DEF OnSide, Walked
  <2>2. CASE d = 1
    BY <1>1, <1>2, <2>2 DEF OnSide, Walked
  <2>3. CASE d = 2
    BY <1>1, <1>2, <2>3 DEF OnSide, Walked
  <2>4. CASE d = 3
    BY <1>1, <1>2, <2>4 DEF OnSide, Walked
  <2> QED BY <2>1, <2>2, <2>3, <2>4
<1> QED BY <1>1, <1>3

LEMMA SquaresGrow ==
  ASSUME NEW m \in Nat, NEW n \in Nat, m <= n
  PROVE  m * m \in Nat /\ n * n \in Nat /\ m * m <= n * n
<1>1. m * m \in Nat /\ n * n \in Nat /\ m * n \in Nat
  OBVIOUS
<1>2. m * m <= m * n /\ m * n <= n * n
  OBVIOUS
<1> QED BY <1>1, <1>2

\* The numbers of a ring follow those of the smaller ones.
LEMMA NumbersOfRing ==
  ASSUME NEW c \in Square, NEW w, w = Ring(c)
  PROVE  /\ w \in Int /\ w > 0 /\ (w - 1) * (w - 1) \in Nat /\ w * w \in Nat
         /\ SquareId(c) \in Nat
         /\ 4 * ((w - 1) * (w - 1)) <= SquareId(c) /\ SquareId(c) < 4 * (w * w)
<1>1. w \in Int /\ w > 0
  BY SideOfSquare
<1>2. PICK d \in 0..3 : OnSide(c, w, d) /\ ~(d = 3 /\ c = Corner(w))
  BY SideOfSquare
<1>3. SquareId(c) = 4 * (w - 1) * (w - 1) + Walked(c, w, d)
  BY <1>1, <1>2, FormulaOfSide
<1>4. Walked(c, w, d) \in 0..(8 * w - 5)
  BY <1>1, <1>2, WalkedBounds
<1>5. /\ (w - 1) * (w - 1) \in Nat /\ w * w \in Nat
      /\ 4 * (w - 1) * (w - 1) = 4 * ((w - 1) * (w - 1))
      /\ w * w = (w - 1) * (w - 1) + 2 * w - 1
  <2>1. w - 1 \in Nat /\ w \in Nat
    BY <1>1
  <2>2. (w - 1) * (w - 1) \in Nat /\ w * w \in Nat
    BY <2>1
  <2>3. 4 * (w - 1) * (w - 1) = 4 * ((w - 1) * (w - 1))
    BY <1>1
  <2>4. w * w = (w - 1) * (w - 1) + 2 * w - 1
    BY <1>1
  <2> QED BY <2>2, <2>3, <2>4
<1>6. PICK a, z, x : /\ a = (w - 1) * (w - 1) /\ z = Walked(c, w, d) /\ x = w * w
  OBVIOUS
<1>7. /\ a \in Nat /\ x \in Nat /\ x = a + 2 * w - 1
      /\ z \in 0..(8 * w - 5) /\ SquareId(c) = 4 * a + z
  BY <1>3, <1>4, <1>5, <1>6
<1>8. SquareId(c) \in Nat /\ 4 * a <= SquareId(c) /\ SquareId(c) < 4 * x
  BY <1>1, <1>7
<1> QED BY <1>1, <1>5, <1>6, <1>8

\* A number is that of one square only.
LEMMA IdIsUnique ==
  ASSUME NEW c \in Square, NEW b \in Square, SquareId(c) = SquareId(b)
  PROVE  c = b
<1>1. ASSUME NEW x \in Square, NEW y \in Square, SquareId(x) = SquareId(y), Ring(x) < Ring(y)
      PROVE  FALSE
  <2>1. PICK p, w : p = Ring(x) /\ w = Ring(y)
    OBVIOUS
  <2>2. /\ p \in Int /\ p > 0 /\ p * p \in Nat /\ SquareId(x) \in Nat
        /\ SquareId(x) < 4 * (p * p)
    BY <2>1, NumbersOfRing
  <2>3. w \in Int /\ w > 0 /\ 4 * ((w - 1) * (w - 1)) <= SquareId(y)
    BY <2>1, NumbersOfRing
  <2>4. p \in Nat /\ w - 1 \in Nat /\ p <= w - 1
    BY <1>1, <2>1, <2>2, <2>3
  <2>5. p * p <= (w - 1) * (w - 1) /\ (w - 1) * (w - 1) \in Nat
    BY <2>4, SquaresGrow
  <2> QED BY <1>1, <2>2, <2>3, <2>5
<1>2. Ring(c) = Ring(b)
  <2>1. Ring(c) \in Int /\ Ring(b) \in Int
    BY SideOfSquare
  <2> QED BY <1>1, <2>1
<1>3. PICK w : w = Ring(c) /\ w = Ring(b) /\ w \in Int /\ w > 0
  BY <1>2, SideOfSquare
<1>4. PICK d \in 0..3 : OnSide(c, w, d) /\ ~(d = 3 /\ c = Corner(w))
  BY <1>3, SideOfSquare
<1>5. PICK e \in 0..3 : OnSide(b, w, e) /\ ~(e = 3 /\ b = Corner(w))
  BY <1>3, SideOfSquare
<1>6. Walked(c, w, d) = Walked(b, w, e)
  <2> DEFINE a == 4 * (w - 1) * (w - 1)
  <2>1. SquareId(c) = a + Walked(c, w, d) /\ SquareId(b) = a + Walked(b, w, e)
    BY <1>3, <1>4, <1>5, FormulaOfSide
  <2>2. Walked(c, w, d) \in Nat /\ Walked(b, w, e) \in Nat /\ a \in Int
    BY <1>3, <1>4, <1>5, WalkedIsNat
  <2> HIDE DEF a
  <2>3. \A k, v, z \in Int : k + v = k + z => v = z
    OBVIOUS
  <2>4. a + Walked(c, w, d) = a + Walked(b, w, e)
    BY <2>1
  <2>5. Walked(c, w, d) \in Int /\ Walked(b, w, e) \in Int /\ a \in Int
    BY <2>2
  <2> QED BY <2>3, <2>4, <2>5, Zenon
<1> QED BY <1>3, <1>4, <1>5, <1>6, WalkedOnce

\* The squares of a finished walk are those of the grid.
InGrid(c) == c[1] \in -side..(side - 1) /\ c[2] \in -side..(side - 1)

\* What lies between the rings' bounds lies between the grid's.
LEMMA BetweenBounds ==
  ASSUME NEW m \in Int, NEW w \in Int, w <= m, NEW x \in Int, w >= -x, w >= x + 1
  PROVE  x >= -m /\ x <= m - 1
  OBVIOUS

\* A coordinate outside the grid is in no row of its squares.
LEMMA OutsideSquares ==
  ASSUME NEW m \in Nat, NEW a \in Int, a >= -m, a <= m - 1,
         NEW u \in Int, ~(0 <= u /\ u <= 4 * m)
  PROVE  ~(2 * (a + m) <= u /\ u <= 2 * (a + m) + 2)
  OBVIOUS

\* The walk ends with every square of the grid, each at its number.
LEMMA AllSquaresMet ==
  ASSUME WalkInv, ended
  PROVE  /\ side \in Nat /\ side > 0 /\ side * side \in Nat /\ Len(res) = 4 * (side * side)
         /\ \A i \in 1..Len(res) : res[i] \in Square /\ InGrid(res[i])
         /\ \A c \in Square : InGrid(c) =>
              SquareId(c) \in 0..(Len(res) - 1) /\ res[SquareId(c) + 1] = c
<1>1. side \in Nat /\ side > 0 /\ side * side \in Nat
  BY SidesAssumption DEF WalkInv, TypeInv
<1>2. Len(res) = 4 * (side * side) /\ Len(res) \in Nat
  <2>1. Len(res) = 4 * side * side
    BY RingIsFull DEF WalkInv, PlaceInv
  <2>2. 4 * side * side = 4 * (side * side)
    BY <1>1
  <2> QED BY <1>1, <2>1, <2>2
<1>3. \A i \in 1..Len(res) : res[i] \in Square /\ SquareId(res[i]) = i - 1
  BY DEF WalkInv, TypeInv, WalkMatchesFormula
<1>4. ASSUME NEW i \in 1..Len(res)
      PROVE  InGrid(res[i])
  <2>1. PICK c \in Square : c = res[i] /\ SquareId(c) = i - 1
    BY <1>3
  <2>2. PICK w : w = Ring(c)
    OBVIOUS
  <2>3. /\ w \in Int /\ w > 0 /\ SquareId(c) \in Nat
        /\ 4 * ((w - 1) * (w - 1)) <= SquareId(c)
    BY <2>2, NumbersOfRing
  <2>4. w <= side
    <3> SUFFICES ASSUME w > side
                 PROVE  FALSE
      BY <1>1, <2>3
    <3>1. side <= w - 1 /\ w - 1 \in Nat
      BY <1>1, <2>3
    <3>2. side * side <= (w - 1) * (w - 1) /\ (w - 1) * (w - 1) \in Nat
      BY <1>1, <3>1, SquaresGrow
    <3> QED BY <1>1, <1>2, <2>1, <2>3, <3>2
  <2>5. w >= -c[1] /\ w >= c[1] + 1 /\ w >= -c[2] /\ w >= c[2] + 1
    BY <2>2, RingBounds
  <2>6. c[1] \in Int /\ c[2] \in Int
    BY DEF Square
  <2>7. /\ c[1] >= -side /\ c[1] <= side - 1
        /\ c[2] >= -side /\ c[2] <= side - 1
    <3>1. side \in Int /\ w \in Int
      BY <1>1, <2>3
    <3>2. PICK x, y : x = c[1] /\ y = c[2] /\ x \in Int /\ y \in Int
      BY <2>6
    <3>3. w >= -x /\ w >= x + 1 /\ w >= -y /\ w >= y + 1 /\ w <= side
      BY <2>4, <2>5, <3>2
    <3>4. x >= -side /\ x <= side - 1 /\ y >= -side /\ y <= side - 1
      BY <3>1, <3>2, <3>3, BetweenBounds
    <3> QED BY <3>2, <3>4
  <2>8. InGrid(c)
    BY <1>1, <2>6, <2>7 DEF InGrid
  <2> QED BY <2>1, <2>8
<1>5. ASSUME NEW c \in Square, InGrid(c)
      PROVE  SquareId(c) \in 0..(Len(res) - 1) /\ res[SquareId(c) + 1] = c
  <2>1. PICK w : w = Ring(c)
    OBVIOUS
  <2>2. /\ w \in Int /\ w > 0 /\ SquareId(c) \in Nat /\ w * w \in Nat
        /\ SquareId(c) < 4 * (w * w)
    BY <2>1, NumbersOfRing
  <2>3. w <= side
    <3>1. PICK d \in 0..3 : OnSide(c, w, d)
      BY <2>1, SideOfSquare
    <3>2. c[1] \in Int /\ c[2] \in Int
      BY DEF Square
    <3> QED BY <1>1, <1>5, <2>2, <3>1, <3>2 DEF OnSide, InGrid
  <2>4. w * w <= side * side
    BY <1>1, <2>2, <2>3, SquaresGrow
  <2>5. SquareId(c) \in 0..(Len(res) - 1) /\ SquareId(c) + 1 \in 1..Len(res)
    BY <1>1, <1>2, <2>2, <2>4
  <2>6. SquareId(res[SquareId(c) + 1]) = SquareId(c) /\ res[SquareId(c) + 1] \in Square
    BY <1>3, <2>2, <2>5
  <2> QED BY <2>5, <2>6, IdIsUnique
<1> QED BY <1>1, <1>2, <1>3, <1>4, <1>5

-------------------------------------------------------------------------------
(* The binary layout.                                                      *)

\* A number belongs to one ring.
LEMMA RingsBelowIs ==
  ASSUME NEW w \in Nat, NEW k \in 0..(8 * w + 3), NEW id, id = 4 * w * w + k
  PROVE  RingsBelow(id) = w
<1> DEFINE Below(m) == 4 * m * m <= id /\ id < 4 * (m + 1) * (m + 1)
<1>1. w * w \in Nat /\ w <= w * w
  <2>1. CASE w = 0
    BY <2>1
  <2>2. CASE w # 0
    BY <2>2
  <2> QED BY <2>1, <2>2
<1>2. PICK a : a = w * w
  OBVIOUS
<1>3. /\ a \in Nat /\ w <= a /\ 4 * w * w = 4 * a
      /\ 4 * (w + 1) * (w + 1) = 4 * a + 8 * w + 4
  <2>1. 4 * w * w = 4 * (w * w)
    OBVIOUS
  <2>2. 4 * (w + 1) * (w + 1) = 4 * (w * w) + 8 * w + 4
    OBVIOUS
  <2> QED BY <1>1, <1>2, <2>1, <2>2
<1>4. id \in Nat /\ id = 4 * a + k
  BY <1>3
<1>5. w \in 0..id /\ Below(w)
  BY <1>3, <1>4
<1>6. ASSUME NEW m \in 0..id, Below(m)
      PROVE  m = w
  <2>1. /\ 4 * m * m = 4 * (m * m) /\ m * m \in Nat
        /\ 4 * (m + 1) * (m + 1) = 4 * ((m + 1) * (m + 1)) /\ (m + 1) * (m + 1) \in Nat
    BY <1>4
  <2>2. CASE m < w
    <3>1. m + 1 \in Nat /\ m + 1 <= w
      BY <1>4, <2>2
    <3>2. (m + 1) * (m + 1) <= w * w
      BY <3>1, SquaresGrow
    <3> QED BY <1>2, <1>3, <1>4, <1>6, <2>1, <3>2
  <2>3. CASE m > w
    <3>1. m \in Nat /\ w + 1 <= m /\ w + 1 \in Nat
      BY <1>4, <2>3
    <3>2. (w + 1) * (w + 1) <= m * m /\ (w + 1) * (w + 1) \in Nat
      BY <3>1, SquaresGrow
    <3>3. 4 * (w + 1) * (w + 1) = 4 * ((w + 1) * (w + 1))
      OBVIOUS
    <3>4. 4 * (w + 1) * (w + 1) <= 4 * m * m
      BY <2>1, <3>2, <3>3
    <3>5. id < 4 * a + 8 * w + 4 /\ 4 * a + 8 * w + 4 <= 4 * m * m
      BY <1>3, <1>4, <3>4
    <3>6. 4 * m * m \in Nat
      BY <2>1
    <3> QED BY <1>3, <1>4, <1>6, <3>5, <3>6
  <2> QED BY <1>4, <2>2, <2>3
<1>7. RingsBelow(id) = CHOOSE m \in 0..id : Below(m)
  BY DEF RingsBelow
<1> HIDE DEF Below
<1> QED BY <1>5, <1>6, <1>7

\* The mirrored half rings stay in their ring.
LEMMA MirroredTwice ==
  ASSUME NEW l \in Nat, l > 0, NEW k \in 0..(8 * l - 5)
  PROVE  /\ Mirrored(k, l) \in 0..(8 * l - 5)
         /\ Mirrored(Mirrored(k, l), l) = k
<1>1. CASE k <= 6 * l - 3
  BY <1>1 DEF Mirrored
<1>2. CASE ~(k <= 6 * l - 3)
  BY <1>2 DEF Mirrored
<1> QED BY <1>1, <1>2

LEMMA RenumberedIs ==
  ASSUME NEW w \in Nat, NEW k \in 0..(8 * w + 3), NEW id, id = 4 * w * w + k
  PROVE  /\ Mirrored(k, w + 1) \in 0..(8 * w + 3)
         /\ Renumbered(id) = 4 * w * w + Mirrored(k, w + 1)
         /\ Renumbered(Renumbered(id)) = id
         /\ RingsBelow(id) = w /\ RingsBelow(Renumbered(id)) = w
<1> DEFINE a == 4 * w * w
<1>1. a \in Nat
  <2>1. 4 * w * w = 4 * (w * w) /\ w * w \in Nat
    OBVIOUS
  <2> QED BY <2>1
<1>2. PICK m : m = Mirrored(k, w + 1)
  OBVIOUS
<1>3. m \in 0..(8 * w + 3) /\ Mirrored(m, w + 1) = k
  <2>1. w + 1 \in Nat /\ w + 1 > 0 /\ 8 * (w + 1) - 5 = 8 * w + 3
    OBVIOUS
  <2>2. k \in 0..(8 * (w + 1) - 5)
    BY <2>1
  <2>3. /\ Mirrored(k, w + 1) \in 0..(8 * (w + 1) - 5)
        /\ Mirrored(Mirrored(k, w + 1), w + 1) = k
    BY <2>1, <2>2, MirroredTwice
  <2> QED BY <1>2, <2>1, <2>3
<1>4. RingsBelow(id) = w
  BY RingsBelowIs
<1>5. PICK n : n = 4 * w * w + m
  OBVIOUS
<1>6. RingsBelow(n) = w
  BY <1>3, <1>5, RingsBelowIs
<1>7. id = a + k /\ n = a + m
  BY <1>5
<1>8. /\ Renumbered(id) = a + Mirrored(id - a, w + 1)
      /\ Renumbered(n) = a + Mirrored(n - a, w + 1)
  BY <1>4, <1>6 DEF Renumbered
<1> HIDE DEF a
<1>9. id - a = k /\ n - a = m
  BY <1>1, <1>3, <1>7
<1>10. Renumbered(id) = n /\ Renumbered(n) = id
  BY <1>2, <1>3, <1>7, <1>8, <1>9
<1> QED BY <1>2, <1>3, <1>4, <1>5, <1>6, <1>10

\* Two squares that follow each other on a ring are neighbours.
LEMMA StepIsNeighbour ==
  ASSUME NEW w \in Int, w > 0,
         NEW d \in 0..3, NEW c \in Square, OnSide(c, w, d), ~(d = 3 /\ c = Corner(w)),
         NEW e \in 0..3, NEW b \in Square, OnSide(b, w, e), ~(e = 3 /\ b = Corner(w)),
         \/ Walked(b, w, e) = Walked(c, w, d) + 1
         \/ Walked(c, w, d) = 0 /\ Walked(b, w, e) = 8 * w - 5
  PROVE  Neighbours(c, b) /\ Neighbours(b, c)
<1>1. /\ c[1] \in Int /\ c[2] \in Int /\ c = <<c[1], c[2]>>
      /\ b[1] \in Int /\ b[2] \in Int /\ b = <<b[1], b[2]>>
  BY DEF Square
<1>2. /\ d = 3 => c[2] # -w
      /\ e = 3 => b[2] # -w
  BY <1>1 DEF OnSide, Corner
<1> DEFINE Beside == \/ c[1] = b[1] /\ c[2] = b[2] + 1
                     \/ c[1] = b[1] /\ c[2] = b[2] - 1
                     \/ c[2] = b[2] /\ c[1] = b[1] + 1
                     \/ c[2] = b[2] /\ c[1] = b[1] - 1
<1>3. Beside
  <2>1. CASE d = 0
    <3>1. CASE e = 0
      BY <1>1, <1>2, <2>1, <3>1 DEF OnSide, Walked
    <3>2. CASE e = 1
      BY <1>1, <1>2, <2>1, <3>2 DEF OnSide, Walked
    <3>3. CASE e = 2
      BY <1>1, <1>2, <2>1, <3>3 DEF OnSide, Walked
    <3>4. CASE e = 3
      BY <1>1, <1>2, <2>1, <3>4 DEF OnSide, Walked
    <3> QED BY <3>1, <3>2, <3>3, <3>4
  <2>2. CASE d = 1
    BY <1>1, <1>2, <2>2 DEF OnSide, Walked
  <2>3. CASE d = 2
    BY <1>1, <1>2, <2>3 DEF OnSide, Walked
  <2>4. CASE d = 3
    BY <1>1, <1>2, <2>4 DEF OnSide, Walked
  <2> QED BY <2>1, <2>2, <2>3, <2>4
<1>4. PICK x, y : x = c[1] - b[1] /\ y = c[2] - b[2]
  OBVIOUS
<1>5. /\ x \in {-1, 0, 1} /\ y \in {-1, 0, 1} /\ (x = 0 <=> y # 0)
      /\ b[1] - c[1] = -x /\ b[2] - c[2] = -y
  BY <1>1, <1>3, <1>4
<1>6. x * x + y * y = 1 /\ (-x) * (-x) + (-y) * (-y) = 1
  BY <1>5
<1> QED BY <1>4, <1>5, <1>6 DEF Neighbours

\* A number below that of the squares met, taken apart.
LEMMA NumberParts ==
  ASSUME WalkInv, NEW id \in 0..(Len(res) - 1)
  PROVE  \E w \in Nat : \E k \in 0..(8 * w + 3), d \in 0..3 :
           /\ id = 4 * w * w + k
           /\ res[id + 1] \in Square /\ SquareId(res[id + 1]) = id
           /\ Ring(res[id + 1]) = w + 1
           /\ OnSide(res[id + 1], w + 1, d) /\ ~(d = 3 /\ res[id + 1] = Corner(w + 1))
           /\ Walked(res[id + 1], w + 1, d) = k
<1>1. Len(res) \in Nat /\ id + 1 \in 1..Len(res)
  BY DEF WalkInv, TypeInv
<1>2. PICK c : c = res[id + 1]
  OBVIOUS
<1>3. c \in Square /\ SquareId(c) = id
  <2>1. res[id + 1] \in Square
    BY <1>1 DEF WalkInv, TypeInv
  <2>2. SquareId(res[id + 1]) = (id + 1) - 1
    BY <1>1 DEF WalkInv, WalkMatchesFormula
  <2> QED BY <1>2, <2>1, <2>2
<1>4. PICK p : p = Ring(c) /\ p \in Int /\ p > 0
  BY <1>3, SideOfSquare
<1>5. PICK d \in 0..3 : OnSide(c, p, d) /\ ~(d = 3 /\ c = Corner(p))
  BY <1>3, <1>4, SideOfSquare
<1>6. SquareId(c) = 4 * (p - 1) * (p - 1) + Walked(c, p, d)
  BY <1>3, <1>4, <1>5, FormulaOfSide
<1>7. Walked(c, p, d) \in 0..(8 * p - 5)
  BY <1>3, <1>4, <1>5, WalkedBounds
<1>8. PICK w \in Nat : w = p - 1 /\ w + 1 = p
  BY <1>4
<1>9. PICK k \in 0..(8 * w + 3) : k = Walked(c, p, d)
  BY <1>7, <1>8
<1> QED BY <1>2, <1>3, <1>4, <1>5, <1>6, <1>8, <1>9

-------------------------------------------------------------------------------
(* Theorems.                                                               *)

\* The walk never leaves the ring it is on (EnumerateGridCells, 144-167).
THEOREM TypeCorrect == Spec => []TypeOK
<1>1. WalkInv => TypeOK
  <2> SUFFICES ASSUME WalkInv PROVE TypeOK
    OBVIOUS
  <2>1. Ring(at) = r
    BY Positive, RingOfSide DEF WalkInv, PlaceInv, TypeInv
  <2> QED BY <2>1 DEF WalkInv, TypeInv, TypeOK, Square
<1> QED BY <1>1, WalkInvHolds, PTL

\* On a grid of any side, the i-th square of EnumerateGridCells is the one to
\* which GetSquareId gives the number i - 1: what a writer stores under the
\* position of a square is what a reader looks up for a point of it.
THEOREM NumbersAgree == Spec => []WalkMatchesFormula
<1>1. WalkInv => WalkMatchesFormula
  BY DEF WalkInv
<1> QED BY <1>1, WalkInvHolds, PTL

\* The assertion at the end of EnumerateGridCells (line 165) never fails.
THEOREM AssertionHolds == Spec => []AllMet
<1>1. WalkInv => AllMet
  BY RingIsFull DEF WalkInv, PlaceInv, AllMet
<1> QED BY <1>1, WalkInvHolds, PTL

\* On a grid of any side, GetSquareId finds each point of the grid, those on the
\* outer borders included, in a square of the walk that contains it, and no square
\* contains a point outside of the bounding box.
THEOREM PointsHaveSquares == Spec => []PointsAreFound
<1>1. WalkInv => PointsAreFound
  <2> SUFFICES ASSUME WalkInv, ended,
                      NEW p \in ((-1)..(4 * side + 1)) \X ((-1)..(4 * side + 1))
               PROVE  IF Located(p, side)
                        THEN /\ PointId(p, side) \in 0..(Len(res) - 1)
                             /\ CoversPoint(res[PointId(p, side) + 1], p, side)
                        ELSE \A i \in 1..Len(res) : ~CoversPoint(res[i], p, side)
    BY DEF PointsAreFound
  <2>1. /\ side \in Nat /\ side > 0
        /\ \A i \in 1..Len(res) : res[i] \in Square /\ InGrid(res[i])
        /\ \A c \in Square : InGrid(c) =>
             SquareId(c) \in 0..(Len(res) - 1) /\ res[SquareId(c) + 1] = c
    BY AllSquaresMet
  <2>2. p[1] \in Int /\ p[2] \in Int /\ p = <<p[1], p[2]>>
    BY <2>1
  <2>3. ASSUME Located(p, side)
        PROVE  /\ PointId(p, side) \in 0..(Len(res) - 1)
               /\ CoversPoint(res[PointId(p, side) + 1], p, side)
    <3>1. p[1] \in 0..(4 * side) /\ p[2] \in 0..(4 * side)
      BY <2>2, <2>3 DEF Located
    <3>2. ASSUME NEW h \in 0..(4 * side)
          PROVE  /\ RowOf(h, side) \in 0..(2 * side - 1)
                 /\ 2 * RowOf(h, side) <= h /\ h <= 2 * RowOf(h, side) + 2
      <4>1. h \div 2 \in Nat /\ 2 * (h \div 2) <= h /\ h <= 2 * (h \div 2) + 1
        BY <2>1
      <4>2. CASE h \div 2 < 2 * side
        BY <2>1, <4>1, <4>2 DEF RowOf
      <4>3. CASE ~(h \div 2 < 2 * side)
        <5>1. h = 4 * side
          BY <2>1, <4>1, <4>3
        <5> QED BY <2>1, <4>3, <5>1 DEF RowOf
      <4> QED BY <4>2, <4>3
    <3>3. PICK x, y : x = RowOf(p[1], side) /\ y = RowOf(p[2], side)
      OBVIOUS
    <3>4. /\ x \in 0..(2 * side - 1) /\ 2 * x <= p[1] /\ p[1] <= 2 * x + 2
          /\ y \in 0..(2 * side - 1) /\ 2 * y <= p[2] /\ p[2] <= 2 * y + 2
      BY <3>1, <3>2, <3>3
    <3>5. PICK c : c = <<x - side, y - side>>
      OBVIOUS
    <3>6. c[1] = x - side /\ c[2] = y - side /\ c \in Square
      BY <2>1, <3>4, <3>5 DEF Square
    <3>7. InGrid(c)
      BY <2>1, <3>4, <3>6 DEF InGrid
    <3>8. CoversPoint(c, p, side)
      <4>1. 2 * (c[1] + side) = 2 * x /\ 2 * (c[2] + side) = 2 * y
        <5>1. PICK a \in Int, b \in Int : a = c[1] /\ b = c[2] /\ a = x - side /\ b = y - side
          BY <2>1, <3>4, <3>6, SMTT(30)
        <5>2. a + side = x /\ b + side = y
          BY <2>1, <3>4, <5>1
        <5> QED BY <5>1, <5>2, SMTT(30)
      <4> QED BY <3>4, <4>1 DEF CoversPoint
    <3>9. PointId(p, side) = SquareId(c)
      BY <3>3, <3>5 DEF PointId
    <3> QED BY <2>1, <3>6, <3>7, <3>8, <3>9
  <2>4. ASSUME ~Located(p, side), NEW i \in 1..Len(res)
        PROVE  ~CoversPoint(res[i], p, side)
    <3>1. PICK c \in Square : c = res[i] /\ InGrid(c)
      BY <2>1
    <3>2. c[1] \in Int /\ c[2] \in Int
      BY DEF Square
    <3>3. /\ p[1] >= -1 /\ p[1] <= 4 * side + 1
          /\ p[2] >= -1 /\ p[2] <= 4 * side + 1
      BY <2>1, <2>2
    <3>4. \/ ~(0 <= p[1] /\ p[1] <= 4 * side)
          \/ ~(0 <= p[2] /\ p[2] <= 4 * side)
      <4>1. ~(p[1] \in 0..(4 * side) /\ p[2] \in 0..(4 * side))
        BY <2>2, <2>4 DEF Located
      <4>2. PICK u \in Int, v \in Int, m \in Int : u = p[1] /\ v = p[2] /\ m = 4 * side
        BY <2>1, <2>2
      <4>3. u \notin 0..m \/ v \notin 0..m
        BY <4>1, <4>2
      <4> QED BY <4>2, <4>3
    <3>5. /\ c[1] >= -side /\ c[1] <= side - 1
          /\ c[2] >= -side /\ c[2] <= side - 1
      BY <2>1, <3>1 DEF InGrid
    <3>6. CASE ~(0 <= p[1] /\ p[1] <= 4 * side)
      <4>1. ~(2 * (c[1] + side) <= p[1] /\ p[1] <= 2 * (c[1] + side) + 2)
        BY <2>1, <2>2, <3>2, <3>5, <3>6, OutsideSquares
      <4> QED BY <3>1, <4>1 DEF CoversPoint
    <3>7. CASE ~(0 <= p[2] /\ p[2] <= 4 * side)
      <4>1. ~(2 * (c[2] + side) <= p[2] /\ p[2] <= 2 * (c[2] + side) + 2)
        BY <2>1, <2>2, <3>2, <3>5, <3>7, OutsideSquares
      <4> QED BY <3>1, <4>1 DEF CoversPoint
    <3> QED BY <3>4, <3>6, <3>7
  <2> QED BY <2>3, <2>4
<1> QED BY <1>1, WalkInvHolds, PTL

\* On a grid of any side, bin_to_our and our_to_bin are inverses of each other, and
\* squares that follow each other in a ring of the binary layout are neighbours.
THEOREM LayoutKeepsNeighbours == Spec => []BinaryLayout
<1>1. WalkInv => BinaryLayout
  <2> SUFFICES ASSUME WalkInv, ended, NEW id \in 0..(Len(res) - 1)
               PROVE  /\ bin_to_our(our_to_bin(id)) = id
                      /\ our_to_bin(bin_to_our(id + 1)) = id + 1
                      /\ RingsBelow(id + 1) = RingsBelow(id) =>
                           /\ RingsBelow(bin_to_our(id + 1)) = RingsBelow(id)
                           /\ Neighbours(res[bin_to_our(id + 1) + 1],
                                         res[bin_to_our(id + 2) + 1])
    BY DEF BinaryLayout
  <2>1. Len(res) \in Nat /\ id \in Nat
    BY DEF WalkInv, TypeInv
  <2>2. PICK w \in Nat : \E k \in 0..(8 * w + 3) :
          id = 4 * w * w + k /\ Ring(res[id + 1]) = w + 1 /\ res[id + 1] \in Square
    BY NumberParts
  <2>2b. PICK k \in 0..(8 * w + 3) :
          id = 4 * w * w + k /\ Ring(res[id + 1]) = w + 1 /\ res[id + 1] \in Square
    BY <2>2
  <2> DEFINE a == 4 * w * w
  <2>3. a \in Nat /\ id = a + k
    <3>1. 4 * w * w = 4 * (w * w) /\ w * w \in Nat
      OBVIOUS
    <3> QED BY <2>2b, <3>1
  <2>4. PICK m : m = Mirrored(k, w + 1)
    OBVIOUS
  <2>5. /\ m \in 0..(8 * w + 3) /\ Renumbered(id) = a + m /\ Renumbered(a + m) = id
        /\ RingsBelow(id) = w /\ RingsBelow(a + m) = w
    BY <2>2b, <2>4, RenumberedIs
  <2>6. bin_to_our(id + 1) = a + m
    <3>1. (id + 1) - 1 = id
      BY <2>1
    <3> QED BY <2>5, <3>1 DEF bin_to_our
  <2>7. bin_to_our(our_to_bin(id)) = id
    <3>1. our_to_bin(id) = (a + m) + 1 /\ ((a + m) + 1) - 1 = a + m
      BY <2>3, <2>5 DEF our_to_bin
    <3> QED BY <2>5, <3>1 DEF bin_to_our
  <2>8. our_to_bin(bin_to_our(id + 1)) = id + 1
    BY <2>5, <2>6 DEF our_to_bin
  <2>9. ASSUME RingsBelow(id + 1) = RingsBelow(id)
        PROVE  /\ RingsBelow(bin_to_our(id + 1)) = RingsBelow(id)
               /\ Neighbours(res[bin_to_our(id + 1) + 1], res[bin_to_our(id + 2) + 1])
    <3>1. k + 1 \in 0..(8 * w + 3)
      <4> SUFFICES ASSUME k = 8 * w + 3
                   PROVE  FALSE
        OBVIOUS
      <4>1. 4 * (w + 1) * (w + 1) = a + 8 * w + 4
        OBVIOUS
      <4>2. id + 1 = 4 * (w + 1) * (w + 1) + 0
        <5> HIDE DEF a
        <5> QED BY <2>3, <4>1
      <4>3. w + 1 \in Nat /\ 0 \in 0..(8 * (w + 1) + 3)
        OBVIOUS
      <4>4. RingsBelow(id + 1) = w + 1
        BY <4>2, <4>3, RingsBelowIs
      <4> QED BY <2>5, <2>9, <4>4
    <3>2. PICK l : l = Mirrored(k + 1, w + 1)
      OBVIOUS
    <3>3. id + 1 = a + (k + 1)
      <4> HIDE DEF a
      <4> QED BY <2>3
    <3>4. l \in 0..(8 * w + 3) /\ Renumbered(id + 1) = a + l
      BY <3>1, <3>2, <3>3, RenumberedIs
    <3>5. bin_to_our(id + 2) = a + l
      <4>1. (id + 2) - 1 = id + 1
        BY <2>1
      <4> QED BY <3>4, <4>1 DEF bin_to_our
    <3>6. \/ m = l + 1
          \/ m = 0 /\ l = 8 * w + 3
      BY <2>4, <3>1, <3>2 DEF Mirrored
    <3>7. Len(res) = 4 * (side * side) /\ side \in Nat /\ side * side \in Nat
      BY AllSquaresMet
    <3>8. w + 1 <= side
      <4>1. InGrid(res[id + 1])
        BY <2>1, AllSquaresMet
      <4>2. PICK c \in Square : c = res[id + 1]
        BY <2>2b
      <4>3. PICK d \in 0..3 : OnSide(c, w + 1, d)
        BY <2>2b, <4>2, SideOfSquare
      <4>4. c[1] \in Int /\ c[2] \in Int
        BY DEF Square
      <4> QED BY <3>7, <4>1, <4>2, <4>3, <4>4 DEF OnSide, InGrid
    <3>9. a + 8 * w + 4 <= Len(res)
      <4>1. (w + 1) * (w + 1) <= side * side /\ (w + 1) * (w + 1) \in Nat
        BY <3>7, <3>8, SquaresGrow
      <4>2. 4 * ((w + 1) * (w + 1)) = a + 8 * w + 4
        OBVIOUS
      <4> HIDE DEF a
      <4> QED BY <2>3, <3>7, <4>1, <4>2
    <3>10. ASSUME NEW x \in 0..(8 * w + 3)
           PROVE  \E d \in 0..3 :
                    /\ res[(a + x) + 1] \in Square
                    /\ OnSide(res[(a + x) + 1], w + 1, d)
                    /\ ~(d = 3 /\ res[(a + x) + 1] = Corner(w + 1))
                    /\ Walked(res[(a + x) + 1], w + 1, d) = x
      <4>1. a + x \in 0..(Len(res) - 1)
        <5> HIDE DEF a
        <5> QED BY <2>1, <2>3, <3>9
      <4>2. RingsBelow(a + x) = w
        BY RingsBelowIs
      <4>3. PICK o \in 0..(Len(res) - 1) : o = a + x
        BY <4>1
      <4>4. PICK p \in Nat : \E y \in 0..(8 * p + 3), d \in 0..3 :
              /\ o = 4 * p * p + y
              /\ res[o + 1] \in Square /\ SquareId(res[o + 1]) = o
              /\ Ring(res[o + 1]) = p + 1
              /\ OnSide(res[o + 1], p + 1, d) /\ ~(d = 3 /\ res[o + 1] = Corner(p + 1))
              /\ Walked(res[o + 1], p + 1, d) = y
        BY NumberParts
      <4>5. PICK y \in 0..(8 * p + 3), d \in 0..3 :
              /\ o = 4 * p * p + y
              /\ res[o + 1] \in Square
              /\ OnSide(res[o + 1], p + 1, d) /\ ~(d = 3 /\ res[o + 1] = Corner(p + 1))
              /\ Walked(res[o + 1], p + 1, d) = y
        BY <4>4
      <4>6. RingsBelow(o) = p
        BY <4>5, RingsBelowIs
      <4>7. p = w
        BY <4>2, <4>3, <4>6
      <4>8. o = a + y
        BY <4>5, <4>7
      <4>9. x = y
        <5> HIDE DEF a
        <5> QED BY <2>3, <4>3, <4>7, <4>8
      <4> QED BY <4>3, <4>5, <4>7, <4>9
    <3>11. PICK d \in 0..3 :
             /\ res[(a + m) + 1] \in Square /\ OnSide(res[(a + m) + 1], w + 1, d)
             /\ ~(d = 3 /\ res[(a + m) + 1] = Corner(w + 1))
             /\ Walked(res[(a + m) + 1], w + 1, d) = m
      BY <2>5, <3>10
    <3>12. PICK e \in 0..3 :
             /\ res[(a + l) + 1] \in Square /\ OnSide(res[(a + l) + 1], w + 1, e)
             /\ ~(e = 3 /\ res[(a + l) + 1] = Corner(w + 1))
             /\ Walked(res[(a + l) + 1], w + 1, e) = l
      BY <3>4, <3>10
    <3>13. PICK c \in Square, b \in Square : c = res[(a + m) + 1] /\ b = res[(a + l) + 1]
      BY <3>11, <3>12
    <3>14. w + 1 \in Int /\ w + 1 > 0 /\ 8 * (w + 1) - 5 = 8 * w + 3
      OBVIOUS
    <3>15. Neighbours(c, b)
      <4>1. CASE m = l + 1
        <5>1. Walked(c, w + 1, d) = Walked(b, w + 1, e) + 1
          BY <3>11, <3>12, <3>13, <4>1
        <5> QED BY <3>11, <3>12, <3>13, <3>14, <5>1, StepIsNeighbour
      <4>2. CASE m = 0 /\ l = 8 * w + 3
        <5>1. Walked(c, w + 1, d) = 0 /\ Walked(b, w + 1, e) = 8 * (w + 1) - 5
          BY <3>11, <3>12, <3>13, <3>14, <4>2
        <5> QED BY <3>11, <3>12, <3>13, <3>14, <5>1, StepIsNeighbour
      <4> QED BY <3>6, <4>1, <4>2
    <3>16. Neighbours(res[(a + m) + 1], res[(a + l) + 1])
      BY <3>13, <3>15
    <3> QED BY <2>5, <2>6, <3>5, <3>16
  <2> QED BY <2>7, <2>8, <2>9
<1> QED BY <1>1, WalkInvHolds, PTL

-------------------------------------------------------------------------------
(* The table that write_squares makes from a finished walk.                *)

\* A number below m * m is m times a row, and a column.
LEMMA RowAndColumn ==
  ASSUME NEW m \in Nat, m > 0, NEW k \in 0..(m * m - 1)
  PROVE  \E a, b \in 0..(m - 1) : k = m * a + b
<1>0. m * m \in Nat /\ k \in Nat /\ k < m * m
  OBVIOUS
<1>1. PICK a \in Int, b \in Int : a = k \div m /\ b = k % m
  BY <1>0
<1>2. b \in 0..(m - 1) /\ k = m * a + b
  BY <1>0, <1>1
<1>3. a >= 0
  <2> SUFFICES ASSUME a <= -1 PROVE FALSE
    OBVIOUS
  <2>1. m * a <= -m
    OBVIOUS
  <2> QED BY <1>0, <1>2, <2>1
<1>4. a < m
  <2> SUFFICES ASSUME a >= m PROVE FALSE
    OBVIOUS
  <2>1. m * a >= m * m
    OBVIOUS
  <2> QED BY <1>0, <1>2, <2>1
<1> QED BY <1>2, <1>3, <1>4

LEMMA RowAndColumnNumber ==
  ASSUME NEW m \in Nat, m > 0, NEW a \in 0..(m - 1), NEW b \in 0..(m - 1)
  PROVE  m * a + b \in 0..(m * m - 1)
<1>1. m * a <= m * (m - 1) /\ m * a >= 0 /\ m * (m - 1) = m * m - m
  OBVIOUS
<1> QED BY <1>1

\* The square of a number, its centre, and the numbers of both.
LEMMA SquareOfNumber ==
  ASSUME WalkInv, ended, NEW id \in Ids
  PROVE  \E a, b \in 0..(2 * side - 1) :
           /\ CellOf(id) = <<a, b>>
           /\ res[id + 1] = <<a - side, b - side>>
           /\ SquareId(<<a - side, b - side>>) = id
           /\ GetSquareCoords(GetCenter(<<a, b>>), side) = <<a, b>>
           /\ PointId(GetCenter(<<a, b>>), side) = id
<1>1. /\ side \in Nat /\ side > 0 /\ Len(res) \in Nat
      /\ \A i \in 1..Len(res) : res[i] \in Square /\ InGrid(res[i])
  BY AllSquaresMet DEF WalkInv, TypeInv
<1>2. id + 1 \in 1..Len(res) /\ (id + 1) - 1 = id
  BY <1>1 DEF Ids
<1>2b. PICK c \in Square : c = res[id + 1] /\ InGrid(c)
  BY <1>1, <1>2
<1>3. PICK x \in Int, y \in Int : c = <<x, y>> /\ res[id + 1] = <<x, y>>
  BY <1>2b DEF Square
<1>4. x \in -side..(side - 1) /\ y \in -side..(side - 1)
  BY <1>1, <1>2b, <1>3 DEF InGrid
<1>5. PICK a, b \in 0..(2 * side - 1) : a = x + side /\ b = y + side
  BY <1>1, <1>4
<1>6. CellOf(id) = <<a, b>>
  BY <1>3, <1>5 DEF CellOf
<1>7. a - side = x /\ b - side = y
  BY <1>1, <1>5
<1>8. res[id + 1] = <<a - side, b - side>>
  BY <1>3, <1>7
<1>9. SquareId(<<a - side, b - side>>) = id
  BY <1>2, <1>8 DEF WalkInv, WalkMatchesFormula
<1>10. ASSUME NEW z \in 0..(2 * side - 1)
       PROVE  RowOf(2 * z + 1, side) = z
  <2>1. z \in Int /\ z < 2 * side /\ (2 * z + 1) \div 2 = z
    BY <1>1
  <2> QED BY <2>1 DEF RowOf
<1>11. GetCenter(<<a, b>>) = <<2 * a + 1, 2 * b + 1>>
  BY DEF GetCenter
<1>12. GetSquareCoords(GetCenter(<<a, b>>), side) = <<a, b>>
  BY <1>10, <1>11 DEF GetSquareCoords
<1>13. PointId(GetCenter(<<a, b>>), side) = id
  BY <1>9, <1>10, <1>11 DEF PointId
<1> QED BY <1>6, <1>8, <1>9, <1>12, <1>13

\* Every square of the grid has a number.
LEMMA NumberOfSquare ==
  ASSUME WalkInv, ended, NEW a \in 0..(2 * side - 1), NEW b \in 0..(2 * side - 1)
  PROVE  \E id \in Ids : CellOf(id) = <<a, b>>
<1>1. /\ side \in Nat /\ side > 0
      /\ \A c \in Square : InGrid(c) =>
           SquareId(c) \in 0..(Len(res) - 1) /\ res[SquareId(c) + 1] = c
  BY AllSquaresMet
<1>2. PICK x \in Int, y \in Int : x = a - side /\ y = b - side
  BY <1>1
<1>3. InGrid(<<x, y>>) /\ <<x, y>> \in Square
  BY <1>1, <1>2 DEF InGrid, Square
<1>4. PICK id \in Ids : res[id + 1] = <<x, y>>
  BY <1>1, <1>3 DEF Ids
<1>5. x + side = a /\ y + side = b
  BY <1>1, <1>2
<1> QED BY <1>4, <1>5 DEF CellOf

LEMMA CellsDiffer ==
  ASSUME WalkInv, ended, NEW i \in Ids, NEW n \in Ids, CellOf(i) = CellOf(n)
  PROVE  i = n
<1>1. PICK a, b \in 0..(2 * side - 1) :
        CellOf(i) = <<a, b>> /\ SquareId(<<a - side, b - side>>) = i
  BY SquareOfNumber
<1>2. PICK c, d \in 0..(2 * side - 1) :
        CellOf(n) = <<c, d>> /\ SquareId(<<c - side, d - side>>) = n
  BY SquareOfNumber
<1>3. <<a, b>> = <<c, d>>
  BY <1>1, <1>2
<1>4. a = c /\ b = d
  BY <1>3
<1> QED BY <1>1, <1>2, <1>4

\* What is written once is the row of each square of a finished walk.
RowsInv ==
  Written("write_squares") /\ scene.id \in ss =>
    ended /\ table = [id \in Ids |-> SquareRow(CellOf(id))]

LEMMA RowsStep ==
  ASSUME RowsInv, [ProgramStep \/ Refused]_squares
  PROVE  RowsInv'
<1>1. /\ scene' = scene
      /\ stage \in {"written", "rejected", "failed", "dead"} => UNCHANGED <<stage, table, walk>>
      /\ stage' = "written" /\ stage # "written" /\ scene.program = "write_squares" =>
           \/ scene.id \notin ss
           \/ ended /\ UNCHANGED walk /\ table' = [id \in Ids |-> SquareRow(CellOf(id))]
  BY DEF ProgramStep, Refused, Reject, LoadTraffic, LoadSquares, LoadLegacy, MarkPaths, Crash,
     PathsDone, Number, WriteTraffic, WriteSquares, WriteLegacy, Write, Go, Is, squares, program
<1>2. walk' = walk => /\ Ids' = Ids /\ ended' = ended /\ side' = side /\ res' = res
  BY DEF walk, vars, Ids
<1>3. CASE stage = "written"
  <2>1. table' = table /\ stage' = stage /\ res' = res /\ side' = side /\ ended' = ended
    BY <1>1, <1>2, <1>3
  <2>2. [id \in Ids |-> SquareRow(CellOf(id))]' = [id \in Ids |-> SquareRow(CellOf(id))]
    BY <2>1 DEF Ids, CellOf, SquareRow, LegacyId, GetCenter, GetSWCorner
  <2> QED BY <1>1, <2>1, <2>2 DEF RowsInv, Written, Is
<1>4. CASE stage # "written"
  <2> SUFFICES ASSUME stage' = "written", scene.program = "write_squares", scene.id \in ss
               PROVE  RowsInv'
    BY <1>1 DEF RowsInv, Written, Is
  <2>1. ended /\ UNCHANGED walk /\ table' = [id \in Ids |-> SquareRow(CellOf(id))]
    BY <1>1, <1>4
  <2>2. res' = res /\ side' = side /\ ended' = ended
    BY <1>2, <2>1
  <2>3. [id \in Ids |-> SquareRow(CellOf(id))]' = [id \in Ids |-> SquareRow(CellOf(id))]
    BY <2>2 DEF Ids, CellOf, SquareRow, LegacyId, GetCenter, GetSWCorner
  <2> QED BY <2>1, <2>2, <2>3 DEF RowsInv
<1> QED BY <1>3, <1>4

\* The rows of the table, with their squares.
LEMMA RowOfTable ==
  ASSUME WalkInv, ended, table = [id \in Ids |-> SquareRow(CellOf(id))], NEW id \in Ids
  PROVE  \E a, b \in 0..(2 * side - 1) :
           /\ CellOf(id) = <<a, b>> /\ PointId(table[id].center, side) = id
           /\ GetSquareCoords(table[id].center, side) = <<a, b>>
           /\ table[id].legacy = LegacyLine(<<a, b>>)
           /\ table[id].legacy = (2 * side) * a + b
           /\ table[id].center = <<2 * a + 1, 2 * b + 1>>
           /\ table[id].sw = <<2 * a, 2 * b>> /\ table[id].nw = <<2 * (a + 1), 2 * b>>
           /\ table[id].se = <<2 * a, 2 * (b + 1)>>
           /\ table[id].ne = <<2 * (a + 1), 2 * (b + 1)>>
<1>1. side \in Nat
  BY AllSquaresMet
<1>2. PICK a, b \in 0..(2 * side - 1) :
        /\ CellOf(id) = <<a, b>>
        /\ GetSquareCoords(GetCenter(<<a, b>>), side) = <<a, b>>
        /\ PointId(GetCenter(<<a, b>>), side) = id
  BY SquareOfNumber
<1>3. table[id] = SquareRow(<<a, b>>)
  BY <1>2
<1>4. a \in Int /\ b \in Int /\ side \in Int
  BY <1>1
<1>5. /\ table[id].legacy = LegacyLine(<<a, b>>) /\ table[id].center = GetCenter(<<a, b>>)
      /\ table[id].sw = <<2 * a, 2 * b>> /\ table[id].nw = <<2 * (a + 1), 2 * b>>
      /\ table[id].se = <<2 * a, 2 * (b + 1)>>
      /\ table[id].ne = <<2 * (a + 1), 2 * (b + 1)>>
  <2>1. PICK row : row = SquareRow(<<a, b>>)
    OBVIOUS
  <2>2. a * side * 2 = a * 2 * side
    BY <1>4
  <2>3. /\ row.legacy = LegacyLine(<<a, b>>) /\ row.center = GetCenter(<<a, b>>)
        /\ row.sw = <<2 * a, 2 * b>> /\ row.nw = <<2 * (a + 1), 2 * b>>
        /\ row.se = <<2 * a, 2 * (b + 1)>> /\ row.ne = <<2 * (a + 1), 2 * (b + 1)>>
    BY <2>1, <2>2 DEF SquareRow, LegacyId, LegacyLine, GetSWCorner
  <2> QED BY <1>3, <2>1, <2>3
<1>6. LegacyLine(<<a, b>>) = (2 * side) * a + b
  <2>1. a * 2 * side = (2 * side) * a
    BY <1>4
  <2> QED BY <2>1 DEF LegacyLine
<1>7. GetCenter(<<a, b>>) = <<2 * a + 1, 2 * b + 1>>
  BY DEF GetCenter
<1> QED BY <1>2, <1>5, <1>6, <1>7

LEMMA TableFits ==
  ASSUME WalkInv, RowsInv
  PROVE  SquareTableFits
<1> SUFFICES ASSUME ended, table = [id \in Ids |-> SquareRow(CellOf(id))]
             PROVE  SquareTableFits
  BY DEF RowsInv, SquareTableFits
<1> DEFINE m == 2 * side
<1>1. side \in Nat /\ side > 0 /\ side * side \in Nat /\ Len(res) = 4 * (side * side)
  BY AllSquaresMet
<1>2. /\ m \in Nat /\ m > 0 /\ m * m = 4 * side * side
      /\ Ids = 0..(m * m - 1) /\ DOMAIN table = 0..(4 * side * side - 1)
  <2>1. m * m = 4 * side * side /\ 4 * side * side = 4 * (side * side)
    BY <1>1
  <2> QED BY <1>1, <2>1 DEF Ids
<1>3. \A id \in Ids : \E a, b \in 0..(m - 1) :
        /\ CellOf(id) = <<a, b>> /\ PointId(table[id].center, side) = id
        /\ GetSquareCoords(table[id].center, side) = <<a, b>>
        /\ table[id].legacy = LegacyLine(<<a, b>>) /\ table[id].legacy = m * a + b
        /\ table[id].center = <<2 * a + 1, 2 * b + 1>>
        /\ table[id].sw = <<2 * a, 2 * b>> /\ table[id].nw = <<2 * (a + 1), 2 * b>>
        /\ table[id].se = <<2 * a, 2 * (b + 1)>>
        /\ table[id].ne = <<2 * (a + 1), 2 * (b + 1)>>
  <2> SUFFICES ASSUME NEW id \in Ids
               PROVE  \E a, b \in 0..(m - 1) :
                        /\ CellOf(id) = <<a, b>> /\ PointId(table[id].center, side) = id
                        /\ GetSquareCoords(table[id].center, side) = <<a, b>>
                        /\ table[id].legacy = LegacyLine(<<a, b>>) /\ table[id].legacy = m * a + b
                        /\ table[id].center = <<2 * a + 1, 2 * b + 1>>
                        /\ table[id].sw = <<2 * a, 2 * b>> /\ table[id].nw = <<2 * (a + 1), 2 * b>>
                        /\ table[id].se = <<2 * a, 2 * (b + 1)>>
                        /\ table[id].ne = <<2 * (a + 1), 2 * (b + 1)>>
    OBVIOUS
  <2> QED BY RowOfTable, Zenon
<1>4. {table[id].legacy : id \in Ids} = Ids
  <2> HIDE DEF m
  <2>1. ASSUME NEW id \in Ids PROVE table[id].legacy \in Ids
    <3>1. PICK a, b \in 0..(m - 1) : table[id].legacy = m * a + b
      BY <1>3
    <3> QED BY <1>2, <3>1, RowAndColumnNumber
  <2>2. ASSUME NEW k \in Ids PROVE \E id \in Ids : table[id].legacy = k
    <3>1. PICK a, b \in 0..(m - 1) : k = m * a + b
      BY <1>2, RowAndColumn
    <3>2. PICK id \in Ids : CellOf(id) = <<a, b>>
      BY <3>1, NumberOfSquare DEF m
    <3>3. PICK c, d \in 0..(m - 1) :
            CellOf(id) = <<c, d>> /\ table[id].legacy = m * c + d
      BY <1>3
    <3>4. <<a, b>> = <<c, d>>
      BY <3>2, <3>3
    <3> QED BY <3>1, <3>3, <3>4
  <2> QED BY <2>1, <2>2
<1>5. ASSUME NEW id \in Ids
      PROVE  LET row == table[id]  c == GetSquareCoords(row.center, side) IN
             /\ PointId(row.center, side) = id /\ GetGridCellsIds[c] = id
             /\ row.legacy = LegacyLine(c)
             /\ row.sw[1] < row.center[1] /\ row.center[1] < row.nw[1]
             /\ row.sw[2] < row.center[2] /\ row.center[2] < row.se[2]
             /\ \A n \in Ids : LET d == GetSquareCoords(table[n].center, side) IN
                  /\ d = <<c[1] + 1, c[2]>> => table[n].sw = row.nw /\ table[n].se = row.ne
                  /\ d = <<c[1], c[2] + 1>> => table[n].sw = row.se /\ table[n].nw = row.ne
  <2> DEFINE row == table[id]
             c == GetSquareCoords(row.center, side)
  <2>1. PICK a, b \in 0..(m - 1) :
          /\ CellOf(id) = <<a, b>> /\ PointId(row.center, side) = id
          /\ c = <<a, b>> /\ row.legacy = LegacyLine(<<a, b>>)
          /\ row.center = <<2 * a + 1, 2 * b + 1>>
          /\ row.sw = <<2 * a, 2 * b>> /\ row.nw = <<2 * (a + 1), 2 * b>>
          /\ row.se = <<2 * a, 2 * (b + 1)>> /\ row.ne = <<2 * (a + 1), 2 * (b + 1)>>
    BY <1>3
  <2> HIDE DEF row, c
  <2>2. GetGridCellsIds[c] = id
    <3>1. c \in CellsOf(side)
      BY <1>1, <2>1 DEF CellsOf
    <3>2. \A n \in Ids : CellOf(n) = c => n = id
      BY <2>1, CellsDiffer
    <3>3. (CHOOSE n \in Ids : CellOf(n) = c) = id
      BY <2>1, <3>2
    <3> QED BY <3>1, <3>3 DEF GetGridCellsIds
  <2>3. /\ row.sw[1] < row.center[1] /\ row.center[1] < row.nw[1]
        /\ row.sw[2] < row.center[2] /\ row.center[2] < row.se[2]
    BY <1>1, <2>1
  <2>4. ASSUME NEW n \in Ids
        PROVE  LET d == GetSquareCoords(table[n].center, side) IN
               /\ d = <<c[1] + 1, c[2]>> => table[n].sw = row.nw /\ table[n].se = row.ne
               /\ d = <<c[1], c[2] + 1>> => table[n].sw = row.se /\ table[n].nw = row.ne
    <3> DEFINE d == GetSquareCoords(table[n].center, side)
    <3>1. PICK x, y \in 0..(m - 1) :
            /\ d = <<x, y>> /\ table[n].sw = <<2 * x, 2 * y>>
            /\ table[n].nw = <<2 * (x + 1), 2 * y>> /\ table[n].se = <<2 * x, 2 * (y + 1)>>
      BY <1>3
    <3> HIDE DEF d
    <3>2. ASSUME d = <<c[1] + 1, c[2]>>
          PROVE  table[n].sw = row.nw /\ table[n].se = row.ne
      <4>1. <<x, y>> = <<a + 1, b>>
        BY <2>1, <3>1, <3>2
      <4>2. x = a + 1 /\ y = b
        BY <4>1
      <4> QED BY <2>1, <3>1, <4>2
    <3>3. ASSUME d = <<c[1], c[2] + 1>>
          PROVE  table[n].sw = row.se /\ table[n].nw = row.ne
      <4>1. <<x, y>> = <<a, b + 1>>
        BY <2>1, <3>1, <3>3
      <4>2. x = a /\ y = b + 1
        BY <4>1
      <4> QED BY <2>1, <3>1, <4>2
    <3> QED BY <3>2, <3>3 DEF d
  <2> QED BY <2>1, <2>2, <2>3, <2>4 DEF row, c
<1> HIDE DEF m
<1>6. /\ DOMAIN table = 0..(4 * side * side - 1)
      /\ {table[id].legacy : id \in Ids} = Ids
  BY <1>2, <1>4
<1> QED BY <1>5, <1>6, Zenon DEF SquareTableFits

\* In whatever way the programs run, fail or are refused, the rows that write_squares
\* leaves describe the squares that GetSquareId numbers, on grids of every side.
THEOREM SquaresAreDescribed == ProgramSpec => []SquareTableFits
<1>1. ProgramInit => WalkInv /\ RowsInv
  <2> SUFFICES ASSUME ProgramInit PROVE WalkInv /\ RowsInv
    OBVIOUS
  <2>1. WalkInv
    BY WalkInvInit DEF ProgramInit
  <2>2. RowsInv
    BY DEF ProgramInit, RowsInv, Written
  <2> QED BY <2>1, <2>2
<1>2. WalkInv /\ RowsInv /\ [ProgramStep \/ Refused]_squares => (WalkInv /\ RowsInv)'
  <2> SUFFICES ASSUME WalkInv, RowsInv, [ProgramStep \/ Refused]_squares
               PROVE  (WalkInv /\ RowsInv)'
    OBVIOUS
  <2>1. [Next]_vars
    BY DEF ProgramStep, Refused, Reject, LoadTraffic, LoadSquares, LoadLegacy, MarkPaths,
       Crash, PathsDone, Number, WriteTraffic, WriteSquares, WriteLegacy, Write, squares, walk
  <2> QED BY <2>1, WalkInvNext, RowsStep
<1>3. WalkInv /\ RowsInv => SquareTableFits
  BY TableFits
<1> QED BY <1>1, <1>2, <1>3, PTL DEF ProgramSpec

-------------------------------------------------------------------------------
(* The squares near a path (Traffic).                                      *)

Size(t) == IF t < 0 THEN -t ELSE t
\* One step towards zero.
Nearer(t, n) == (t > 0 /\ n = t - 1) \/ (t < 0 /\ n = t + 1)

\* The square <<x, y>> is near the path from <<0, 0>> to <<a, b>>: less than R, squared,
\* away from an end of it, or beside it and less than R away from its line.
IsPath(a, b, R) == a \in Nat /\ b \in Nat /\ a + b > 0 /\ R \in Nat /\ R > 5000
AtLine(k, a, b, R) == 10000 * (k * k) < R * (a * a + b * b)
Along(x, y, a, b) == x * a + y * b >= 0 /\ (x - a) * a + (y - b) * b <= 0
Onwards(x, y, a, b) == x * a + y * b > 0
\* Going from <<x, y>> to <<m, n>>.
Keeps(x, y, m, n, a, b) ==
  \/ Size(m * b - n * a) <= Size(x * b - y * a)
  \/ 2 * Size(m * b - n * a) <= a + b
Beside(x, y, a, b, R) == Along(x, y, a, b) /\ AtLine(x * b - y * a, a, b, R)
InDisc(x, y, R) == 10000 * (x * x + y * y) < R
NearPath(x, y, a, b, R) ==
  \/ InDisc(x, y, R)
  \/ InDisc(x - a, y - b, R)
  \/ Beside(x, y, a, b, R)

\* What is smaller has a smaller square.
LEMMA SquaresOfSmaller ==
  ASSUME NEW x \in Int, NEW y \in Int, Size(x) <= Size(y)
  PROVE  x * x <= y * y
BY DEF Size

LEMMA NonNegProduct ==
  ASSUME NEW x \in Int, NEW y \in Int, x >= 0, y >= 0
  PROVE  x * y \in Int /\ x * y >= 0
OBVIOUS

LEMMA NaturalsGrow ==
  ASSUME NEW a \in Nat
  PROVE  a * a \in Nat /\ a <= a * a
<1>1. CASE a = 0
  BY <1>1
<1>2. CASE a >= 1
  BY <1>2
<1> QED
  BY <1>1, <1>2

\* Half of the sum of the legs, squared, is at most half of the square of the diagonal.
LEMMA HalfOfLegs ==
  ASSUME NEW a, NEW b, NEW R, IsPath(a, b, R), NEW k \in Int, 2 * Size(k) <= a + b
  PROVE  AtLine(k, a, b, R)
<1> USE DEF IsPath
<1> DEFINE n == a * a + b * b
<1>1. n \in Nat /\ n > 0
  <2>1. a * a >= a /\ b * b >= b /\ a * a \in Nat /\ b * b \in Nat
    BY NaturalsGrow
  <2> QED
    BY <2>1
<1>2. 4 * (k * k) <= (a + b) * (a + b)
  <2>1. Size(2 * k) <= Size(a + b) /\ 2 * k \in Int /\ a + b \in Int
    BY DEF Size
  <2>2. (2 * k) * (2 * k) <= (a + b) * (a + b)
    BY <2>1, SquaresOfSmaller
  <2>3. (2 * k) * (2 * k) = 4 * (k * k)
    OBVIOUS
  <2> QED
    BY <2>2, <2>3
<1>3. (a + b) * (a + b) <= 2 * n
  <2>1. (a - b) * (a - b) >= 0
    OBVIOUS
  <2>2. (a + b) * (a + b) + (a - b) * (a - b) = 2 * n
    OBVIOUS
  <2>3. (a + b) * (a + b) \in Int /\ (a - b) * (a - b) \in Int
    OBVIOUS
  <2> HIDE DEF n
  <2> QED
    BY <1>1, <2>1, <2>2, <2>3
<1> HIDE DEF n
<1>4. 5000 * n < R * n
  BY <1>1
<1>5. k * k \in Int /\ (a + b) * (a + b) \in Int /\ R * n \in Int
  BY <1>1
<1>6. 10000 * (k * k) < R * n
  BY <1>1, <1>2, <1>3, <1>4, <1>5
<1> QED
  BY <1>6 DEF n, AtLine

\* What is no farther from the line, or within half of a diagonal, is near the line.
LEMMA NearLine ==
  ASSUME NEW a, NEW b, NEW R, IsPath(a, b, R),
         NEW k \in Int, NEW l \in Int, AtLine(l, a, b, R),
         Size(k) <= Size(l) \/ 2 * Size(k) <= a + b
  PROVE  AtLine(k, a, b, R)
<1>1. CASE Size(k) <= Size(l)
  <2>1. k * k <= l * l
    BY <1>1, SquaresOfSmaller
  <2>2. PICK p \in Int : p = k * k
    OBVIOUS
  <2>3. PICK v \in Int : v = l * l
    OBVIOUS
  <2>4. PICK n \in Int : n = R * (a * a + b * b)
    BY DEF IsPath
  <2>5. p <= v /\ 10000 * v < n
    BY <2>1, <2>2, <2>3, <2>4 DEF AtLine
  <2>6. 10000 * p < n
    BY <2>5
  <2> QED
    BY <2>2, <2>4, <2>6 DEF AtLine
<1>2. CASE 2 * Size(k) <= a + b
  BY <1>2, HalfOfLegs
<1> QED
  BY <1>1, <1>2

\* A step beside a path that does not lead away from its line, or stays within half
\* of a diagonal of it.
LEMMA StepBeside ==
  ASSUME NEW a, NEW b, NEW R, IsPath(a, b, R),
         NEW x \in Int, NEW y \in Int, Beside(x, y, a, b, R),
         NEW m \in Int, NEW n \in Int, Along(m, n, a, b), Keeps(x, y, m, n, a, b)
  PROVE  Beside(m, n, a, b, R)
<1>1. PICK k \in Int : k = m * b - n * a
  BY DEF IsPath
<1>2. PICK l \in Int : l = x * b - y * a
  BY DEF IsPath
<1>3. AtLine(l, a, b, R)
  BY <1>2 DEF Beside
<1>4. Size(k) <= Size(l) \/ 2 * Size(k) <= a + b
  BY <1>1, <1>2 DEF Keeps
<1>5. AtLine(k, a, b, R)
  BY <1>3, <1>4, NearLine
<1> QED
  BY <1>1, <1>5 DEF Beside

\* Beside the path there is a step to its start that stays beside it.
LEMMA OnBeside ==
  ASSUME NEW a, NEW b, NEW R, IsPath(a, b, R),
         NEW x \in Int, NEW y \in Int, Beside(x, y, a, b, R), Onwards(x, y, a, b)
  PROVE  \/ \E m \in Int : Nearer(x, m) /\ Beside(m, y, a, b, R)
         \/ \E n \in Int : Nearer(y, n) /\ Beside(x, n, a, b, R)
<1>0. a \in Nat /\ b \in Nat /\ a + b > 0
  BY DEF IsPath
<1> DEFINE k == x * b - y * a
           u == x * a + y * b
           w == (x - a) * a + (y - b) * b
           N == a * a + b * b
<1>1. k \in Int /\ u \in Int /\ w \in Int /\ N \in Int /\ u > 0 /\ w <= 0 /\ w = u - N
  BY <1>0 DEF Beside, Along, Onwards
<1>2. a + b <= N
  <2>1. a * a >= a /\ b * b >= b /\ a * a \in Nat /\ b * b \in Nat
    BY <1>0, NaturalsGrow
  <2> QED
    BY <1>0, <2>1
<1>3. /\ \A t \in Int : (x + t) * a + y * b = u + t * a /\ (x + t) * b - y * a = k + t * b
      /\ \A t \in Int : ((x + t) - a) * a + (y - b) * b = w + t * a
      /\ \A t \in Int : x * a + (y + t) * b = u + t * b /\ x * b - (y + t) * a = k - t * a
      /\ \A t \in Int : (x - a) * a + ((y + t) - b) * b = w + t * b
  BY <1>0
<1>4. /\ x * a \in Int /\ x * b \in Int /\ y * a \in Int /\ y * b \in Int
      /\ x <= 0 => x * a <= 0 /\ x * b <= 0
      /\ y <= 0 => y * a <= 0 /\ y * b <= 0
      /\ x >= 1 => x * a >= a /\ x * b >= b
      /\ y >= 1 => y * a >= a /\ y * b >= b
      /\ x <= -1 => x * a <= -a /\ x * b <= -b
      /\ y <= -1 => y * a <= -a /\ y * b <= -b
  BY <1>0
<1>5. k = x * b - y * a /\ u = x * a + y * b
  BY <1>0
<1>6. ASSUME NEW m \in Int, NEW n \in Int, Along(m, n, a, b), Keeps(x, y, m, n, a, b)
      PROVE  Beside(m, n, a, b, R)
  BY <1>6, StepBeside
<1>7. ASSUME NEW t \in {-1, 1}, Nearer(x, x + t), u + t * a >= 0, w + t * a <= 0,
             Size(k + t * b) <= Size(k) \/ 2 * Size(k + t * b) <= a + b
      PROVE  \E m \in Int : Nearer(x, m) /\ Beside(m, y, a, b, R)
  <2>1. PICK m \in Int : m = x + t
    OBVIOUS
  <2>2. /\ m * a + y * b = u + t * a /\ m * b - y * a = k + t * b
        /\ (m - a) * a + (y - b) * b = w + t * a
    BY <1>3, <2>1
  <2>3. Along(m, y, a, b) /\ Keeps(x, y, m, y, a, b)
    BY <1>5, <1>7, <2>2 DEF Along, Keeps
  <2> QED
    BY <1>6, <1>7, <2>1, <2>3
<1>8. ASSUME NEW t \in {-1, 1}, Nearer(y, y + t), u + t * b >= 0, w + t * b <= 0,
             Size(k - t * a) <= Size(k) \/ 2 * Size(k - t * a) <= a + b
      PROVE  \E n \in Int : Nearer(y, n) /\ Beside(x, n, a, b, R)
  <2>1. PICK n \in Int : n = y + t
    OBVIOUS
  <2>2. /\ x * a + n * b = u + t * b /\ x * b - n * a = k - t * a
        /\ (x - a) * a + (n - b) * b = w + t * b
    BY <1>3, <2>1
  <2>3. Along(x, n, a, b) /\ Keeps(x, y, x, n, a, b)
    BY <1>5, <1>8, <2>2 DEF Along, Keeps
  <2> QED
    BY <1>6, <1>8, <2>1, <2>3
<1> HIDE DEF k, u, w, N
<1>9. CASE 2 * k >= b - a
  <2>1. x >= 1
    <3>1. ASSUME x <= 0
          PROVE  FALSE
      <4>1. y >= 1
        BY <1>0, <1>1, <1>4, <1>5, <3>1
      <4> QED
        BY <1>0, <1>4, <1>5, <1>9, <3>1, <4>1
    <3> QED
      BY <3>1
  <2>2. CASE u - a >= 0
    <3>1. Nearer(x, x + (-1))
      BY <2>1 DEF Nearer
    <3>2. u + (-1) * a >= 0 /\ w + (-1) * a <= 0
      BY <1>0, <1>1, <2>2
    <3>3. Size(k + (-1) * b) <= Size(k) \/ 2 * Size(k + (-1) * b) <= a + b
      BY <1>0, <1>1, <1>9 DEF Size
    <3> QED
      BY <1>7, <3>1, <3>2, <3>3
  <2>3. CASE u - a < 0
    <3>1. y <= -1
      BY <1>0, <1>1, <1>4, <1>5, <2>1, <2>3
    <3>2. Nearer(y, y + 1)
      BY <3>1 DEF Nearer
    <3>3. u + 1 * b >= 0 /\ w + 1 * b <= 0
      BY <1>0, <1>1, <1>2, <2>3
    <3>4. k >= a + b
      BY <1>0, <1>4, <1>5, <2>1, <3>1
    <3>5. Size(k - 1 * a) <= Size(k)
      BY <1>0, <1>1, <3>4 DEF Size
    <3> QED
      BY <1>8, <3>2, <3>3, <3>5
  <2> QED
    BY <1>0, <1>1, <2>2, <2>3
<1>10. CASE 2 * k < b - a
  <2>1. y >= 1
    <3>1. ASSUME y <= 0
          PROVE  FALSE
      <4>1. x >= 1
        BY <1>0, <1>1, <1>4, <1>5, <3>1
      <4> QED
        BY <1>0, <1>4, <1>5, <1>10, <3>1, <4>1
    <3> QED
      BY <3>1
  <2>2. CASE u - b >= 0
    <3>1. Nearer(y, y + (-1))
      BY <2>1 DEF Nearer
    <3>2. u + (-1) * b >= 0 /\ w + (-1) * b <= 0
      BY <1>0, <1>1, <2>2
    <3>3. Size(k - (-1) * a) <= Size(k) \/ 2 * Size(k - (-1) * a) <= a + b
      BY <1>0, <1>1, <1>10 DEF Size
    <3> QED
      BY <1>8, <3>1, <3>2, <3>3
  <2>3. CASE u - b < 0
    <3>1. x <= -1
      BY <1>0, <1>1, <1>4, <1>5, <2>1, <2>3
    <3>2. Nearer(x, x + 1)
      BY <3>1 DEF Nearer
    <3>3. u + 1 * a >= 0 /\ w + 1 * a <= 0
      BY <1>0, <1>1, <1>2, <2>3
    <3>4. k <= -a - b
      BY <1>0, <1>4, <1>5, <2>1, <3>1
    <3>5. Size(k + 1 * b) <= Size(k)
      BY <1>0, <1>1, <3>4 DEF Size
    <3> QED
      BY <1>7, <3>2, <3>3, <3>5
  <2> QED
    BY <1>0, <1>1, <2>2, <2>3
<1> QED
  BY <1>0, <1>1, <1>9, <1>10

\* The squares of the distances to both ends of a path, and how they relate to the
\* distances along its line and from it.
IsMeasured(U, W, N, C, k) ==
  /\ U \in Nat /\ W \in Nat /\ N \in Nat /\ C \in Nat /\ k \in Int
  /\ U * N = C + k * k /\ W * N = C + (k - N) * (k - N)

\* The squares of the distances to both ends, and to the line of a path.
LEMMA Distances ==
  ASSUME NEW x \in Int, NEW y \in Int, NEW a \in Int, NEW b \in Int
  PROVE  LET u == x - a  w == y - b  l == x * b - y * a IN
         IsMeasured(x * x + y * y, u * u + w * w, a * a + b * b, l * l, x * a + y * b)
<1> DEFINE u == x - a
           w == y - b
           l == x * b - y * a
           k == x * a + y * b
           N == a * a + b * b
           U == x * x + y * y
           W == u * u + w * w
<1>1. \A n \in Int : n * n \in Nat
  <2> SUFFICES ASSUME NEW n \in Int PROVE n * n \in Nat
    OBVIOUS
  <2>1. CASE n >= 0
    BY <2>1
  <2>2. CASE n < 0
    <3>1. -n \in Nat /\ (-n) * (-n) = n * n
      BY <2>2
    <3>2. (-n) * (-n) \in Nat
      BY <3>1
    <3> QED
      BY <3>1, <3>2
  <2> QED
    BY <2>1, <2>2
<1>2. U \in Nat /\ W \in Nat /\ N \in Nat
  <2>1. \A m, n \in Int : m * m + n * n \in Nat
    BY <1>1
  <2>2. u \in Int /\ w \in Int
    OBVIOUS
  <2> HIDE DEF u, w
  <2> QED
    BY <2>1, <2>2
<1>3. l * l \in Nat /\ k \in Int
  <2>1. l \in Int /\ k \in Int
    OBVIOUS
  <2> HIDE DEF l
  <2> QED
    BY <1>1, <2>1
<1>4. U * N = l * l + k * k
  OBVIOUS
<1>5. W * N = (u * b - w * a) * (u * b - w * a) + (u * a + w * b) * (u * a + w * b)
  <2>1. u \in Int /\ w \in Int
    OBVIOUS
  <2> HIDE DEF u, w
  <2> QED
    BY <2>1
<1>6. u * b - w * a = l /\ u * a + w * b = k - N
  OBVIOUS
<1>7. W * N = l * l + (k - N) * (k - N)
  <2> HIDE DEF u, w, l, k, N, W
  <2> QED
    BY <1>5, <1>6
<1> HIDE DEF u, w, l, k, N, U, W
<1>8. IsMeasured(U, W, N, l * l, k)
  BY <1>2, <1>3, <1>4, <1>7 DEF IsMeasured
<1> QED
  BY <1>8 DEF u, w, l, k, N, U, W

\* Multiplying by what is positive keeps order.
LEMMA Scaled ==
  ASSUME NEW x \in Int, NEW y \in Int, NEW n \in Nat, n > 0
  PROVE  (x < y <=> x * n < y * n) /\ (x <= y <=> x * n <= y * n)
<1>1. ASSUME x < y PROVE x * n < y * n
  BY <1>1
<1>2. ASSUME x >= y PROVE x * n >= y * n
  BY <1>2
<1>3. ASSUME x > y PROVE x * n > y * n
  BY <1>3
<1>4. ASSUME x <= y PROVE x * n <= y * n
  BY <1>4
<1>5. x * n \in Int /\ y * n \in Int
  OBVIOUS
<1> QED
  BY <1>1, <1>2, <1>3, <1>4, <1>5

\* What is near an end of a path is near its line; what is near the line where the
\* path ends is near the end.
LEMMA NearAnEnd ==
  ASSUME NEW U, NEW W, NEW N, NEW C, NEW k, IsMeasured(U, W, N, C, k), N > 0,
         NEW R \in Nat
  PROVE  /\ 10000 * U < R \/ 10000 * W < R => 10000 * C < R * N
         /\ k = 0 => (10000 * U < R <=> 10000 * C < R * N)
         /\ k = N => (10000 * W < R <=> 10000 * C < R * N)
         /\ k = 0 => (10000 * U <= R <=> 10000 * C <= R * N)
         /\ k = N => (10000 * W <= R <=> 10000 * C <= R * N)
         /\ k <= 0 => U <= W
<1>1. U \in Nat /\ W \in Nat /\ N \in Nat /\ C \in Nat /\ k \in Int
  BY DEF IsMeasured
<1>2. PICK A \in Int, B \in Int, S \in Int, D \in Int, E \in Int :
        /\ A = U * N /\ B = W * N /\ S = R * N
        /\ D = k * k /\ E = (k - N) * (k - N)
  BY <1>1
<1>3. A = C + D /\ B = C + E
  BY <1>2 DEF IsMeasured
<1>4. D >= 0 /\ E >= 0 /\ (k = 0 => D = 0) /\ (k = N => E = 0) /\ (k <= 0 => D <= E)
  <2>1. \A n \in Int : n * n >= 0
    OBVIOUS
  <2>2. k - N \in Int /\ (k = N => k - N = 0) /\ (k <= 0 => Size(k) <= Size(k - N))
    BY <1>1 DEF Size
  <2>3. k <= 0 => D <= E
    BY <1>1, <1>2, <2>2, SquaresOfSmaller
  <2>4. PICK m \in Int : m = k - N
    BY <2>2
  <2> QED
    BY <1>1, <1>2, <2>1, <2>2, <2>3, <2>4
<1>5. 10000 * U \in Int /\ 10000 * W \in Int /\ R \in Int
      /\ (10000 * U) * N = 10000 * A /\ (10000 * W) * N = 10000 * B
  BY <1>1, <1>2
<1>6. /\ 10000 * U < R <=> 10000 * A < S
      /\ 10000 * W < R <=> 10000 * B < S
      /\ 10000 * U <= R <=> 10000 * A <= S
      /\ 10000 * W <= R <=> 10000 * B <= S
  BY <1>1, <1>2, <1>5, Scaled
<1>7. U <= W <=> A <= B
  BY <1>1, <1>2, Scaled
<1> QED
  BY <1>1, <1>2, <1>3, <1>4, <1>6, <1>7

\* What x, y, a and b have to do with the numbers above.
Measures(x, y, a, b, U, W, N, C, k) ==
  /\ U = x * x + y * y /\ W = (x - a) * (x - a) + (y - b) * (y - b)
  /\ N = a * a + b * b /\ C = (x * b - y * a) * (x * b - y * a) /\ k = x * a + y * b
  /\ (x - a) * a + (y - b) * b = k - N

\* How Along says whether the foot of a square on the line is on the path.
LEMMA PathMeasures ==
  ASSUME NEW x \in Int, NEW y \in Int, NEW a \in Int, NEW b \in Int, a # 0 \/ b # 0
  PROVE  \E U, W, N, C, k :
           Measures(x, y, a, b, U, W, N, C, k) /\ IsMeasured(U, W, N, C, k) /\ N > 0
<1>1. PICK U, W, N, C, k :
        /\ U = x * x + y * y /\ W = (x - a) * (x - a) + (y - b) * (y - b)
        /\ N = a * a + b * b /\ C = (x * b - y * a) * (x * b - y * a) /\ k = x * a + y * b
  OBVIOUS
<1>2. (x - a) * a + (y - b) * b = (x * a + y * b) - (a * a + b * b)
  OBVIOUS
<1>3. Measures(x, y, a, b, U, W, N, C, k)
  BY <1>1, <1>2 DEF Measures
<1>4. IsMeasured(x * x + y * y, (x - a) * (x - a) + (y - b) * (y - b), a * a + b * b,
                 (x * b - y * a) * (x * b - y * a), x * a + y * b)
  BY Distances
<1>5. N > 0
  <2>1. /\ a > 0 => a * a > 0
        /\ a < 0 => a * a > 0
        /\ b > 0 => b * b > 0
        /\ b < 0 => b * b > 0
        /\ a * a >= 0 /\ b * b >= 0 /\ a * a \in Int /\ b * b \in Int
    OBVIOUS
  <2> QED
    BY <1>1, <2>1
<1> QED
  BY <1>1, <1>3, <1>4, <1>5

\* From <<x, y>> a step towards <<0, 0>> stays near the path.
Beyond(x, y, a, b) == (x - a) * a + (y - b) * b > 0
Leads(x, y, a, b, R) ==
  \/ \E m \in Int : Nearer(x, m) /\ NearPath(m, y, a, b, R)
  \/ \E n \in Int : Nearer(y, n) /\ NearPath(x, n, a, b, R)

\* Near the start of the path any step leads to it.
LEMMA StepBehind ==
  ASSUME NEW a \in Int, NEW b \in Int, NEW R \in Nat, NEW x \in Int, NEW y \in Int,
         InDisc(x, y, R), x # 0 \/ y # 0
  PROVE  Leads(x, y, a, b, R)
<1>1. ASSUME NEW z \in Int, z # 0
      PROVE  \E m \in Int : Nearer(z, m) /\ m * m < z * z
  <2>1. CASE z > 0
    <3>1. Nearer(z, z - 1)
      BY <2>1 DEF Nearer
    <3>2. (z - 1) * (z - 1) = z * z - 2 * z + 1
      OBVIOUS
    <3> QED
      BY <2>1, <3>1, <3>2
  <2>2. CASE z < 0
    <3>1. Nearer(z, z + 1)
      BY <2>2 DEF Nearer
    <3>2. (z + 1) * (z + 1) = z * z + 2 * z + 1
      OBVIOUS
    <3> QED
      BY <2>2, <3>1, <3>2
  <2> QED
    BY <1>1, <2>1, <2>2
<1>2. CASE x # 0
  <2>1. PICK m \in Int : Nearer(x, m) /\ m * m < x * x
    BY <1>1, <1>2
  <2>2. 10000 * (m * m + y * y) < R
    BY <2>1 DEF InDisc
  <2> QED
    BY <2>1, <2>2 DEF Leads, NearPath, InDisc
<1>3. CASE y # 0
  <2>1. PICK n \in Int : Nearer(y, n) /\ n * n < y * y
    BY <1>1, <1>3
  <2>2. 10000 * (x * x + n * n) < R
    BY <2>1 DEF InDisc
  <2> QED
    BY <2>1, <2>2 DEF Leads, NearPath, InDisc
<1> QED
  BY <1>2, <1>3

\* Beyond the end of the path there is a step that leads to the end.
LEMMA StepBeyond ==
  ASSUME NEW a \in Nat, NEW b \in Nat, NEW R \in Nat, NEW x \in Int, NEW y \in Int,
         InDisc(x - a, y - b, R), Beyond(x, y, a, b)
  PROVE  Leads(x, y, a, b, R)
<1>1. PICK u \in Int, w \in Int : u = x - a /\ w = y - b
  OBVIOUS
<1>2. u > 0 \/ w > 0
  <2>1. u <= 0 => u * a <= 0
    OBVIOUS
  <2>2. w <= 0 => w * b <= 0
    OBVIOUS
  <2>3. u * a \in Int /\ w * b \in Int /\ u * a + w * b > 0
    BY <1>1 DEF Beyond
  <2> QED
    BY <2>1, <2>2, <2>3
<1>3. CASE u > 0
  <2>1. Nearer(x, x - 1) /\ (x - 1) - a = u - 1
    BY <1>1, <1>3 DEF Nearer
  <2>2. (u - 1) * (u - 1) < u * u
    BY <1>3
  <2>3. 10000 * ((u - 1) * (u - 1) + w * w) < R
    BY <1>1, <2>2 DEF InDisc
  <2>4. NearPath(x - 1, y, a, b, R)
    BY <1>1, <2>1, <2>3 DEF NearPath, InDisc
  <2> QED
    BY <2>1, <2>4 DEF Leads
<1>4. CASE w > 0
  <2>1. Nearer(y, y - 1) /\ (y - 1) - b = w - 1
    BY <1>1, <1>4 DEF Nearer
  <2>2. (w - 1) * (w - 1) < w * w
    BY <1>4
  <2>3. 10000 * (u * u + (w - 1) * (w - 1)) < R
    BY <1>1, <2>2 DEF InDisc
  <2>4. NearPath(x, y - 1, a, b, R)
    BY <1>1, <2>1, <2>3 DEF NearPath, InDisc
  <2> QED
    BY <2>1, <2>4 DEF Leads
<1> QED
  BY <1>2, <1>3, <1>4

\* From wherever it is near, a path to the north-east can be followed to its start.
LEMMA StepOnPath ==
  ASSUME NEW a, NEW b, NEW R, IsPath(a, b, R), NEW x \in Int, NEW y \in Int,
         NearPath(x, y, a, b, R), x # 0 \/ y # 0
  PROVE  Leads(x, y, a, b, R)
<1>0. a \in Nat /\ b \in Nat /\ a + b > 0 /\ R \in Nat
  BY DEF IsPath
<1>1. CASE InDisc(x, y, R)
  BY <1>0, <1>1, StepBehind
<1>2. PICK U, W, N, C, k :
        Measures(x, y, a, b, U, W, N, C, k) /\ IsMeasured(U, W, N, C, k) /\ N > 0
  BY <1>0, PathMeasures
<1>3. U \in Nat /\ W \in Nat /\ N \in Nat /\ C \in Nat /\ k \in Int /\ R * N \in Int
  BY <1>0, <1>2 DEF IsMeasured
<1>4. /\ InDisc(x, y, R) <=> 10000 * U < R
      /\ InDisc(x - a, y - b, R) <=> 10000 * W < R
  BY <1>2 DEF Measures, InDisc
<1>5. /\ Beside(x, y, a, b, R) <=> k >= 0 /\ k <= N /\ 10000 * C < R * N
      /\ Beyond(x, y, a, b) <=> k > N
      /\ Onwards(x, y, a, b) <=> k > 0
  BY <1>2, <1>3 DEF Beside, Along, AtLine, Onwards, Beyond, Measures
<1>6. /\ 10000 * W < R => 10000 * C < R * N
      /\ k = 0 => (10000 * U < R <=> 10000 * C < R * N)
      /\ k <= 0 => U <= W
  BY <1>0, <1>2, NearAnEnd
<1>8. CASE Beside(x, y, a, b, R)
  <2>1. CASE k = 0
    BY <1>1, <1>4, <1>5, <1>6, <1>8, <2>1
  <2>2. CASE k > 0
    <3>1. \/ \E m \in Int : Nearer(x, m) /\ Beside(m, y, a, b, R)
          \/ \E n \in Int : Nearer(y, n) /\ Beside(x, n, a, b, R)
      BY <1>5, <1>8, <2>2, OnBeside
    <3> QED
      BY <3>1 DEF Leads, NearPath
  <2> QED
    BY <1>3, <1>5, <1>8, <2>1, <2>2
<1>9. CASE InDisc(x - a, y - b, R)
  <2>1. CASE k <= 0
    <3>1. 10000 * U < R
      BY <1>0, <1>3, <1>4, <1>6, <1>9, <2>1
    <3> QED
      BY <1>1, <1>4, <3>1
  <2>2. CASE k > 0 /\ k <= N
    <3>1. Beside(x, y, a, b, R)
      BY <1>3, <1>4, <1>5, <1>6, <1>9, <2>2
    <3> QED
      BY <1>8, <3>1
  <2>3. CASE k > N
    <3>1. Beyond(x, y, a, b)
      BY <1>5, <2>3
    <3> QED
      BY <1>0, <1>9, <3>1, StepBeyond
  <2> QED
    BY <1>3, <2>1, <2>2, <2>3
<1> QED
  BY <1>1, <1>8, <1>9 DEF NearPath

-------------------------------------------------------------------------------
(* Paths in all directions.                                                *)

\* The numbers in capital letters are those of the same square and path in a mirror.
InMirror(x, y, a, b, X, Y, A, B) ==
  \/ X = -x /\ A = -a /\ Y = y /\ B = b
  \/ X = x /\ A = a /\ Y = -y /\ B = -b

\* Mirroring square and path keeps what is near.
LEMMA Mirrors ==
  ASSUME NEW x \in Int, NEW y \in Int, NEW a \in Int, NEW b \in Int, NEW R \in Nat,
         NEW X \in Int, NEW Y \in Int, NEW A \in Int, NEW B \in Int,
         InMirror(x, y, a, b, X, Y, A, B),
         NearPath(X, Y, A, B, R)
  PROVE  NearPath(x, y, a, b, R)
<1>1. /\ X * X = x * x /\ Y * Y = y * y /\ A * A = a * a /\ B * B = b * b
      /\ X * A = x * a /\ Y * B = y * b
      /\ (X - A) * (X - A) = (x - a) * (x - a) /\ (Y - B) * (Y - B) = (y - b) * (y - b)
      /\ (X - A) * A = (x - a) * a /\ (Y - B) * B = (y - b) * b
      /\ (X * B - Y * A) * (X * B - Y * A) = (x * b - y * a) * (x * b - y * a)
  <2>1. CASE X = -x /\ A = -a /\ Y = y /\ B = b
    BY <2>1
  <2>2. CASE X = x /\ A = a /\ Y = -y /\ B = -b
    BY <2>2
  <2> QED
    BY <2>1, <2>2 DEF InMirror
<1>2. InDisc(x, y, R) <=> InDisc(X, Y, R)
  BY <1>1 DEF InDisc
<1>3. InDisc(x - a, y - b, R) <=> InDisc(X - A, Y - B, R)
  BY <1>1 DEF InDisc
<1>4. Along(x, y, a, b) <=> Along(X, Y, A, B)
  BY <1>1 DEF Along
<1>5. AtLine(x * b - y * a, a, b, R) <=> AtLine(X * B - Y * A, A, B, R)
  <2>1. PICK l \in Int, m \in Int : l = x * b - y * a /\ m = X * B - Y * A
    OBVIOUS
  <2>2. PICK n \in Int, t \in Int : /\ n = l * l /\ n = m * m
                                    /\ t = a * a + b * b /\ t = A * A + B * B
    BY <1>1, <2>1
  <2>3. AtLine(l, a, b, R) <=> 10000 * n < R * t
    BY <2>2 DEF AtLine
  <2>4. AtLine(m, A, B, R) <=> 10000 * n < R * t
    <3>1. n = m * m /\ t = A * A + B * B
      BY <2>2
    <3> QED
      BY <3>1 DEF AtLine
  <2> QED
    BY <2>1, <2>3, <2>4
<1> QED
  BY <1>2, <1>3, <1>4, <1>5 DEF NearPath, Beside

\* A step to the start in the mirror is one here.
LEMMA LeadsInMirror ==
  ASSUME NEW x \in Int, NEW y \in Int, NEW a \in Int, NEW b \in Int, NEW R \in Nat,
         NEW X \in Int, NEW Y \in Int, NEW A \in Int, NEW B \in Int,
         InMirror(x, y, a, b, X, Y, A, B), Leads(X, Y, A, B, R)
  PROVE  Leads(x, y, a, b, R)
<1>1. ASSUME NEW m \in Int, Nearer(X, m), NearPath(m, Y, A, B, R)
      PROVE  Leads(x, y, a, b, R)
  <2>1. PICK n \in Int : Nearer(x, n) /\ InMirror(n, y, a, b, m, Y, A, B)
    <3>1. CASE X = -x /\ A = -a /\ Y = y /\ B = b
      <4>1. Nearer(x, -m) /\ -m \in Int /\ m = -(-m)
        BY <1>1, <3>1 DEF Nearer
      <4> QED
        BY <3>1, <4>1 DEF InMirror
    <3>2. CASE X = x /\ A = a /\ Y = -y /\ B = -b
      BY <1>1, <3>2 DEF InMirror
    <3> QED
      BY <3>1, <3>2 DEF InMirror
  <2>2. NearPath(n, y, a, b, R)
    BY <1>1, <2>1, Mirrors
  <2> QED
    BY <2>1, <2>2 DEF Leads
<1>2. ASSUME NEW m \in Int, Nearer(Y, m), NearPath(X, m, A, B, R)
      PROVE  Leads(x, y, a, b, R)
  <2>1. PICK n \in Int : Nearer(y, n) /\ InMirror(x, n, a, b, X, m, A, B)
    <3>1. CASE X = x /\ A = a /\ Y = -y /\ B = -b
      <4>1. Nearer(y, -m) /\ -m \in Int /\ m = -(-m)
        BY <1>2, <3>1 DEF Nearer
      <4> QED
        BY <3>1, <4>1 DEF InMirror
    <3>2. CASE X = -x /\ A = -a /\ Y = y /\ B = b
      BY <1>2, <3>2 DEF InMirror
    <3> QED
      BY <3>1, <3>2 DEF InMirror
  <2>2. NearPath(x, n, a, b, R)
    BY <1>2, <2>1, Mirrors
  <2> QED
    BY <2>1, <2>2 DEF Leads
<1> QED
  BY <1>1, <1>2 DEF Leads

\* From wherever it is near, a path that leads up can be followed to its start.
LEMMA StepDown ==
  ASSUME NEW x \in Int, NEW y \in Int, NEW a \in Int, NEW b \in Nat, a # 0 \/ b # 0,
         NEW R \in Nat, R > 5000, NearPath(x, y, a, b, R), x # 0 \/ y # 0
  PROVE  Leads(x, y, a, b, R)
<1>1. CASE a >= 0
  <2>1. IsPath(a, b, R)
    BY <1>1 DEF IsPath
  <2> QED
    BY <1>1, <2>1, StepOnPath
<1>2. CASE a < 0
  <2>1. PICK d \in Nat, z \in Int : d = -a /\ z = -x /\ d # 0 /\ (z # 0 \/ y # 0)
    BY <1>2
  <2>2. InMirror(x, y, a, b, z, y, d, b)
    BY <2>1 DEF InMirror
  <2>3. d \in Int /\ b \in Int
    BY <2>1
  <2>4. NearPath(z, y, d, b, R)
    <3>1. InMirror(z, y, d, b, x, y, a, b)
      BY <2>1 DEF InMirror
    <3> QED
      BY <2>3, <3>1, Mirrors, SMTT(30)
  <2>5. IsPath(d, b, R)
    BY <2>1 DEF IsPath
  <2>6. Leads(z, y, d, b, R)
    BY <2>1, <2>4, <2>5, StepOnPath
  <2> QED
    BY <2>2, <2>3, <2>6, LeadsInMirror, SMTT(30)
<1> QED
  BY <1>1, <1>2

\* From wherever it is near, a path can be followed to its start.
LEMMA StepToStart ==
  ASSUME NEW x \in Int, NEW y \in Int, NEW a \in Int, NEW b \in Int, a # 0 \/ b # 0,
         NEW R \in Nat, R > 5000, NearPath(x, y, a, b, R), x # 0 \/ y # 0
  PROVE  Leads(x, y, a, b, R)
<1>1. CASE b >= 0
  BY <1>1, StepDown
<1>2. CASE b < 0
  <2>1. PICK d \in Nat, z \in Int : d = -b /\ z = -y /\ d # 0 /\ (x # 0 \/ z # 0)
    BY <1>2
  <2>2. InMirror(x, y, a, b, x, z, a, d)
    BY <2>1 DEF InMirror
  <2>3. d \in Int
    BY <2>1
  <2>4. NearPath(x, z, a, d, R)
    <3>1. InMirror(x, z, a, d, x, y, a, b)
      BY <2>1 DEF InMirror
    <3> QED
      BY <2>3, <3>1, Mirrors, SMTT(30)
  <2>5. Leads(x, z, a, d, R)
    BY <2>1, <2>4, StepDown
  <2> QED
    BY <2>2, <2>3, <2>5, LeadsInMirror, SMTT(30)
<1> QED
  BY <1>1, <1>2

-------------------------------------------------------------------------------
(* What the search is told of a square.                                    *)

Bare(p) == p.from \in Square /\ p.to \in Square /\ p.from # p.to
R2 == view_radius * view_radius

\* What is asked of the numbers above.
Asked(c, p, U, W, N, C, k) ==
  /\ Inside(c, p) <=> \/ 10000 * U < R2 \/ 10000 * W < R2
                      \/ k > 0 /\ k < N /\ 10000 * C < R2 * N
  /\ InsideOrOn(c, p) <=> \/ 10000 * U <= R2 \/ 10000 * W <= R2
                          \/ k > 0 /\ k < N /\ 10000 * C <= R2 * N
  /\ NearPath(c[1] - p.from[1], c[2] - p.from[2], p.to[1] - p.from[1], p.to[2] - p.from[2], R2)
       <=> \/ 10000 * U < R2 \/ 10000 * W < R2
           \/ k >= 0 /\ k <= N /\ 10000 * C < R2 * N
  /\ p = path => Compared(c) = IF k < 0 \/ k > N THEN <<10000 * Min({U, W}), R2>>
                                                 ELSE <<10000 * C, R2 * N>>

\* The radius, squared, is a natural number.
LEMMA RadiusIsNat == R2 \in Nat
<1>1. view_radius \in Nat
  BY ViewRadiusAssumption
<1> QED
  BY <1>1, NaturalsGrow DEF R2

\* What Inside and InsideOrOn say in the numbers of the path that starts at zero.
LEMMA WhatIsAsked ==
  ASSUME NEW c \in Square, NEW p, Bare(p)
  PROVE  \E U, W, N, C, k :
           IsMeasured(U, W, N, C, k) /\ N > 0 /\ Asked(c, p, U, W, N, C, k)
<1>1. PICK f1 \in Int, f2 \in Int, t1 \in Int, t2 \in Int, c1 \in Int, c2 \in Int :
        /\ p.from = <<f1, f2>> /\ p.to = <<t1, t2>> /\ c = <<c1, c2>>
        /\ f1 # t1 \/ f2 # t2
  <2>1. PICK f1 \in Int, f2 \in Int : p.from = <<f1, f2>>
    BY DEF Square, Bare
  <2>2. PICK t1 \in Int, t2 \in Int : p.to = <<t1, t2>>
    BY DEF Square, Bare
  <2>3. PICK c1 \in Int, c2 \in Int : c = <<c1, c2>>
    BY DEF Square
  <2> QED
    BY <2>1, <2>2, <2>3 DEF Bare
<1>2. PICK x \in Int, y \in Int, a \in Int, b \in Int :
        /\ x = c1 - f1 /\ y = c2 - f2 /\ a = t1 - f1 /\ b = t2 - f2
        /\ a # 0 \/ b # 0
        /\ c1 - t1 = x - a /\ c2 - t2 = y - b
  BY <1>1
<1>3. PICK U, W, N, C, k :
        Measures(x, y, a, b, U, W, N, C, k) /\ IsMeasured(U, W, N, C, k) /\ N > 0
  BY <1>2, PathMeasures
<1>4. U \in Nat /\ W \in Nat /\ N \in Nat /\ C \in Nat /\ k \in Int /\ U * N = C + k * k
  BY <1>3 DEF IsMeasured
<1>5. /\ Minus(c, p.from) = <<x, y>> /\ Minus(p.to, p.from) = <<a, b>>
      /\ Minus(c, p.to) = <<x - a, y - b>>
  BY <1>1, <1>2 DEF Minus
<1>6. /\ NormSquared(<<x, y>>) = U /\ NormSquared(<<a, b>>) = N
      /\ NormSquared(<<x - a, y - b>>) = W
      /\ DotProduct(<<x, y>>, <<a, b>>) = k /\ DotProduct(<<x - a, y - b>>, <<a, b>>) = k - N
  BY <1>3 DEF Measures, NormSquared, DotProduct
<1>7. PICK l \in Int : l = CrossProduct(<<x, y>>, <<a, b>>) /\ C = l * l
  BY <1>3 DEF Measures, CrossProduct
<1>8. 10000 * l * l = 10000 * C
  BY <1>7
<1>9. PICK R : R = R2
  OBVIOUS
<1>10. /\ Inside(c, p) <=> \/ 10000 * U < R \/ 10000 * W < R
                           \/ k > 0 /\ k - N < 0 /\ 10000 * C < R * N
       /\ InsideOrOn(c, p) <=> \/ 10000 * U <= R \/ 10000 * W <= R
                               \/ k > 0 /\ k - N < 0 /\ 10000 * C <= R * N
  <2>1. 10000 * CrossProduct(<<x, y>>, <<a, b>>) * CrossProduct(<<x, y>>, <<a, b>>) = 10000 * C
    BY <1>7, <1>8
  <2> QED
    BY <1>5, <1>6, <1>9, <2>1 DEF Inside, InsideOrOn, Less, AtMost, Compare, R2
<1>11. k - N < 0 <=> k < N
  BY <1>4
<1>12. NearPath(x, y, a, b, R)
         <=> \/ 10000 * U < R \/ 10000 * W < R
             \/ k >= 0 /\ k <= N /\ 10000 * C < R * N
  <2>1. InDisc(x, y, R) <=> 10000 * U < R
    BY <1>3 DEF Measures, InDisc
  <2>2. InDisc(x - a, y - b, R) <=> 10000 * W < R
    BY <1>3 DEF Measures, InDisc
  <2>3. Beside(x, y, a, b, R) <=> k >= 0 /\ k <= N /\ 10000 * C < R * N
    BY <1>3, <1>4 DEF Beside, Along, AtLine, Measures
  <2> QED
    BY <2>1, <2>2, <2>3 DEF NearPath
<1>13. ASSUME p = path
       PROVE  Compared(c) = IF k < 0 \/ k > N THEN <<10000 * Min({U, W}), R>>
                                              ELSE <<10000 * C, R * N>>
  <2>1. U * N - k * k = C
    BY <1>4
  <2> QED
    BY <1>5, <1>6, <1>9, <1>13, <2>1 DEF Compared, R2
<1>14. /\ Inside(c, p) <=> \/ 10000 * U < R \/ 10000 * W < R
                           \/ k > 0 /\ k < N /\ 10000 * C < R * N
       /\ InsideOrOn(c, p) <=> \/ 10000 * U <= R \/ 10000 * W <= R
                               \/ k > 0 /\ k < N /\ 10000 * C <= R * N
  BY <1>10, <1>11
<1>15. Asked(c, p, U, W, N, C, k)
  BY <1>1, <1>2, <1>9, <1>12, <1>13, <1>14 DEF Asked
<1> QED
  BY <1>3, <1>15

\* The smaller of two distances.
LEMMA MinOfTwo ==
  ASSUME NEW U \in Nat, NEW W \in Nat
  PROVE  Min({U, W}) \in {U, W} /\ Min({U, W}) <= U /\ Min({U, W}) <= W
<1> DEFINE Least(m) == m \in {U, W} /\ \A n \in {U, W} : m <= n
<1>1. \E m : Least(m)
  <2>1. CASE U <= W
    <3>1. Least(U)
      BY <2>1
    <3> QED
      BY <3>1
  <2>2. CASE W <= U
    <3>1. Least(W)
      BY <2>2
    <3> QED
      BY <3>1
  <2> QED
    BY <2>1, <2>2
<1>2. Min({U, W}) = CHOOSE m \in {U, W} : \A n \in {U, W} : m <= n
  BY DEF Min
<1>3. Least(Min({U, W}))
  BY <1>1, <1>2
<1> QED
  BY <1>3

\* The strict band with its ends is the closed one.
LEMMA InsideIsNear ==
  ASSUME NEW c \in Square, NEW p, Bare(p)
  PROVE  Inside(c, p) <=> NearPath(c[1] - p.from[1], c[2] - p.from[2],
                                   p.to[1] - p.from[1], p.to[2] - p.from[2], R2)
<1>1. PICK U, W, N, C, k :
        IsMeasured(U, W, N, C, k) /\ N > 0 /\ Asked(c, p, U, W, N, C, k)
  BY WhatIsAsked
<1>2. PICK R \in Nat : R = R2
  BY RadiusIsNat
<1>3. N \in Nat /\ k \in Int
  BY <1>1 DEF IsMeasured
<1>4. /\ k = 0 => (10000 * U < R <=> 10000 * C < R * N)
      /\ k = N => (10000 * W < R <=> 10000 * C < R * N)
  BY <1>1, NearAnEnd
<1>5. k > 0 /\ k < N <=> k >= 0 /\ k <= N /\ k # 0 /\ k # N
  BY <1>3
<1>6. /\ Inside(c, p) <=> \/ 10000 * U < R \/ 10000 * W < R
                          \/ k > 0 /\ k < N /\ 10000 * C < R * N
      /\ NearPath(c[1] - p.from[1], c[2] - p.from[2],
                  p.to[1] - p.from[1], p.to[2] - p.from[2], R2)
           <=> \/ 10000 * U < R \/ 10000 * W < R
               \/ k >= 0 /\ k <= N /\ 10000 * C < R * N
  BY <1>1, <1>2 DEF Asked
<1> QED
  BY <1>4, <1>5, <1>6

\* Whatever rounding does, squares inside the band are marked, and no square is marked
\* that is not at least on its border.
LEMMA InsideIsMarked ==
  ASSUME NEW c \in Square, Bare(path)
  PROVE  /\ Inside(c, path) => TRUE \notin IsFar(c)
         /\ FALSE \in IsFar(c) => InsideOrOn(c, path)
<1>1. PICK U, W, N, C, k :
        IsMeasured(U, W, N, C, k) /\ N > 0 /\ Asked(c, path, U, W, N, C, k)
  BY WhatIsAsked
<1>2. PICK R \in Nat : R = R2
  BY RadiusIsNat
<1>3. U \in Nat /\ W \in Nat /\ N \in Nat /\ C \in Nat /\ k \in Int
  BY <1>1 DEF IsMeasured
<1>4. PICK M \in Nat : M = Min({U, W}) /\ M \in {U, W} /\ M <= U /\ M <= W
  BY <1>3, MinOfTwo
<1>5. PICK D \in Int, E \in Int : D = R * N /\ E = 10000 * C
  BY <1>3
<1>6. /\ 10000 * U < R \/ 10000 * W < R => E < D
      /\ k = 0 => (10000 * U <= R <=> E <= D)
      /\ k = N => (10000 * W <= R <=> E <= D)
  BY <1>1, <1>5, NearAnEnd
<1>7. PICK d : d = Compared(c) /\ d = IF k < 0 \/ k > N THEN <<10000 * M, R>> ELSE <<E, D>>
  BY <1>1, <1>2, <1>4, <1>5 DEF Asked
<1>8. /\ Inside(c, path) <=> \/ 10000 * U < R \/ 10000 * W < R
                             \/ k > 0 /\ k < N /\ E < D
      /\ InsideOrOn(c, path) <=> \/ 10000 * U <= R \/ 10000 * W <= R
                                 \/ k > 0 /\ k < N /\ E <= D
  BY <1>1, <1>2, <1>5 DEF Asked
<1>9. IsFar(c) = IF d[1] = d[2] /\ Inexact(c) THEN BOOLEAN ELSE {d[1] > d[2]}
  BY <1>7 DEF IsFar
<1>10. d[1] \in Int /\ d[2] \in Int
  BY <1>7
<1>11. Inside(c, path) => d[1] < d[2]
  BY <1>3, <1>4, <1>6, <1>7, <1>8
<1>12. d[1] <= d[2] => InsideOrOn(c, path)
  BY <1>3, <1>4, <1>6, <1>7, <1>8
<1>13. /\ d[1] < d[2] => TRUE \notin IsFar(c)
       /\ ~(d[1] <= d[2]) => IsFar(c) = {TRUE}
  <2>1. /\ d[1] < d[2] => d[1] # d[2] /\ ~(d[1] > d[2])
        /\ ~(d[1] <= d[2]) => d[1] # d[2] /\ d[1] > d[2]
    BY <1>10
  <2>2. ASSUME d[1] # d[2], ~(d[1] > d[2]) PROVE TRUE \notin IsFar(c)
    <3>1. IsFar(c) = {d[1] > d[2]}
      BY <1>9, <2>2, Zenon
    <3>2. ASSUME NEW g \in IsFar(c) PROVE ~g
      BY <2>2, <3>1, Zenon
    <3> QED
      BY <3>2
  <2>3. ASSUME d[1] # d[2], d[1] > d[2] PROVE IsFar(c) = {TRUE}
    BY <1>9, <2>3, Zenon
  <2> QED
    BY <2>1, <2>2, <2>3
<1> QED
  BY <1>11, <1>12, <1>13

\* The squares next to a square.
NextTo(c, d) ==
  \/ d = <<c[1] - 1, c[2]>> \/ d = <<c[1] + 1, c[2]>>
  \/ d = <<c[1], c[2] - 1>> \/ d = <<c[1], c[2] + 1>>
Apart(c, d) == Size(c[1] - d[1]) + Size(c[2] - d[2])

\* From a square inside the band one can go to the start of the path: a square next
\* to it is inside as well, and nearer to the start.
LEMMA BandHasNoGaps ==
  ASSUME NEW c \in Square, NEW p, Bare(p), Bold, Inside(c, p), c # p.from
  PROVE  \E d \in Square : /\ NextTo(c, d) /\ NextTo(d, c) /\ Inside(d, p)
                         /\ Apart(d, p.from) < Apart(c, p.from)
                         /\ \A s \in Nat : c \in CellsOf(s) /\ p.from \in CellsOf(s)
                                             => d \in CellsOf(s)
<1>1. PICK f1 \in Int, f2 \in Int, t1 \in Int, t2 \in Int, c1 \in Int, c2 \in Int :
        /\ p.from = <<f1, f2>> /\ p.to = <<t1, t2>> /\ c = <<c1, c2>>
  <2>1. PICK f1 \in Int, f2 \in Int : p.from = <<f1, f2>>
    BY DEF Square, Bare
  <2>2. PICK t1 \in Int, t2 \in Int : p.to = <<t1, t2>>
    BY DEF Square, Bare
  <2>3. PICK c1 \in Int, c2 \in Int : c = <<c1, c2>>
    BY DEF Square
  <2> QED
    BY <2>1, <2>2, <2>3
<1>2. (f1 # t1 \/ f2 # t2) /\ (c1 # f1 \/ c2 # f2)
  BY <1>1 DEF Bare
<1>3. PICK x \in Int, y \in Int, a \in Int, b \in Int :
        /\ x = c1 - f1 /\ y = c2 - f2 /\ a = t1 - f1 /\ b = t2 - f2
        /\ a # 0 \/ b # 0
        /\ x # 0 \/ y # 0
  BY <1>2
<1>4. PICK R \in Nat : R = R2 /\ R > 5000
  BY RadiusIsNat DEF Bold, R2
<1>5. NearPath(x, y, a, b, R)
  BY <1>1, <1>3, <1>4, InsideIsNear
<1>6. Leads(x, y, a, b, R)
  BY <1>3, <1>4, <1>5, StepToStart
<1>7. PICK m \in Int, n \in Int :
        /\ NearPath(m, n, a, b, R)
        /\ \/ Nearer(x, m) /\ n = y
           \/ Nearer(y, n) /\ m = x
  BY <1>6 DEF Leads
<1>8. PICK d1 \in Int, d2 \in Int : d1 = m + f1 /\ d2 = n + f2
  OBVIOUS
<1>9. PICK d \in Square : d = <<d1, d2>>
  BY DEF Square
<1>10. d1 - f1 = m /\ d2 - f2 = n
  BY <1>8
<1>11. Inside(d, p)
  BY <1>1, <1>3, <1>4, <1>7, <1>9, <1>10, InsideIsNear
<1>12. \/ d1 = c1 - 1 /\ d2 = c2 /\ f1 <= d1
       \/ d1 = c1 + 1 /\ d2 = c2 /\ d1 <= f1
       \/ d1 = c1 /\ d2 = c2 - 1 /\ f2 <= d2
       \/ d1 = c1 /\ d2 = c2 + 1 /\ d2 <= f2
  BY <1>3, <1>7, <1>8 DEF Nearer
<1>13. NextTo(c, d) /\ NextTo(d, c)
  BY <1>1, <1>9, <1>12 DEF NextTo
<1>14. Apart(d, p.from) < Apart(c, p.from)
  BY <1>1, <1>3, <1>7, <1>9, <1>10 DEF Apart, Size, Nearer
<1>15. ASSUME NEW s \in Nat, c \in CellsOf(s), p.from \in CellsOf(s)
       PROVE  d \in CellsOf(s)
  <2>1. /\ c1 \in 0..(2 * s - 1) /\ c2 \in 0..(2 * s - 1)
        /\ f1 \in 0..(2 * s - 1) /\ f2 \in 0..(2 * s - 1)
    BY <1>1, <1>15 DEF CellsOf
  <2>2. d1 \in 0..(2 * s - 1) /\ d2 \in 0..(2 * s - 1)
    BY <1>12, <2>1
  <2> QED
    BY <1>9, <2>2 DEF CellsOf
<1> QED
  BY <1>9, <1>11, <1>13, <1>14, <1>15

\* The squares of a grid, as pairs of integers.
LEMMA CellsAreCells ==
  ASSUME NEW s \in Nat
  PROVE  CellsOf(s) \subseteq Square /\ IsFiniteSet(CellsOf(s))
<1>1. IsFiniteSet(0..(2 * s - 1))
  <2>1. 0 \in Int /\ 2 * s - 1 \in Int
    OBVIOUS
  <2> QED
    BY <2>1, FS_Interval
<1> QED
  BY <1>1, FS_Product DEF CellsOf, Square

\* Among squares there is a first one.
LEMMA NextIsOne ==
  ASSUME NEW s \in Nat, NEW S, S \subseteq CellsOf(s), S # {}
  PROVE  NextOf(S) \in S
<1>1. \A c \in S : c[1] \in Nat /\ c[2] \in Nat
  BY DEF CellsOf
<1>2. PICK i \in {c[1] : c \in S} : \A k \in {c[1] : c \in S} : i <= k
  <2> DEFINE X == {c[1] : c \in S}
  <2>1. X \subseteq Nat /\ X # {}
    BY <1>1
  <2> HIDE DEF X
  <2> QED
    BY <2>1, LeastNatural DEF X
<1> DEFINE F == {c \in S : c[1] = i}
<1>3. PICK l \in {c[2] : c \in F} : \A k \in {c[2] : c \in F} : l <= k
  <2> DEFINE X == {c[2] : c \in F}
  <2>1. X \subseteq Nat /\ X # {}
    BY <1>1, <1>2
  <2> HIDE DEF X
  <2> QED
    BY <2>1, LeastNatural DEF X
<1>4. PICK c \in F : c[2] = l
  BY <1>3
<1>5. ASSUME NEW d \in S
      PROVE  RowMajor(c, d)
  <2>1. c[1] = i /\ i <= d[1] /\ c[1] \in Nat /\ d[1] \in Nat /\ c[2] \in Nat /\ d[2] \in Nat
    BY <1>1, <1>2, <1>4
  <2>2. d[1] = i => c[2] <= d[2]
    BY <1>3, <1>4
  <2> QED
    BY <2>1, <2>2 DEF RowMajor
<1>6. \E e \in S : \A d \in S : RowMajor(e, d)
  BY <1>4, <1>5
<1> QED
  BY <1>6 DEF NextOf

\* The squares of a path, of any length, that must be and that may be marked.
Ends(p) == p.from \in Square /\ p.to \in Square

\* The search finds all of them near and no others, and on a path of no length it finds
\* every square near.
LEMMA MarkedRightly ==
  ASSUME NEW c \in Square, Ends(path)
  PROVE  /\ MustMark(c, path) => TRUE \notin IsFar(c)
         /\ FALSE \in IsFar(c) => MayMark(c, path)
<1>1. CASE ~Floods(path)
  BY <1>1, InsideIsMarked DEF Ends, Bare, Floods, MustMark, MayMark
<1>2. CASE Floods(path)
  <2>1. PICK f1 \in Int, f2 \in Int, c1 \in Int, c2 \in Int :
          path.from = <<f1, f2>> /\ path.to = <<f1, f2>> /\ c = <<c1, c2>>
    BY <1>2 DEF Floods, Ends, Square
  <2>2. /\ Minus(path.to, path.from) = <<0, 0>>
        /\ Minus(c, path.from) = <<c1 - f1, c2 - f2>>
    BY <2>1 DEF Minus
  <2>3. PICK x \in Int, y \in Int : x = c1 - f1 /\ y = c2 - f2
    BY <2>1
  <2>4. /\ DotProduct(<<x, y>>, <<0, 0>>) = 0 /\ NormSquared(<<0, 0>>) = 0
        /\ NormSquared(<<x, y>>) \in Int
    BY DEF DotProduct, NormSquared
  <2>5. PICK rr \in Int : rr = view_radius * view_radius
    BY ViewRadiusAssumption
  <2>6. Compared(c) = <<10000 * (NormSquared(<<x, y>>) * 0 - 0 * 0), rr * 0>>
    BY <2>2, <2>3, <2>4, <2>5 DEF Compared
  <2>7. Compared(c) = <<0, 0>>
    BY <2>4, <2>6
  <2>8. ~Inexact(c)
    BY <2>2 DEF Inexact
  <2>9. IsFar(c) = {0 > 0}
    BY <2>7, <2>8 DEF IsFar
  <2>10. ~(0 > 0)
    OBVIOUS
  <2> HIDE DEF Floods
  <2> QED
    BY <1>2, <2>9, <2>10, Zenon DEF MayMark
<1> QED
  BY <1>1, <1>2

\* From a square that must be marked one can go to the start of the path: a square next
\* to it must be marked as well, and is nearer to the start.
LEMMA FoundFromStart ==
  ASSUME NEW c \in Square, NEW p, Ends(p), Bold, MustMark(c, p), c # p.from
  PROVE  \E d \in Square : /\ NextTo(c, d) /\ NextTo(d, c) /\ MustMark(d, p)
                         /\ Apart(d, p.from) < Apart(c, p.from)
                         /\ \A s \in Nat : c \in CellsOf(s) /\ p.from \in CellsOf(s)
                                             => d \in CellsOf(s)
<1>1. CASE ~Floods(p)
  <2>1. Bare(p) /\ Inside(c, p)
    BY <1>1 DEF Ends, Bare, Floods, MustMark
  <2>2. PICK d \in Square : /\ NextTo(c, d) /\ NextTo(d, c) /\ Inside(d, p)
                           /\ Apart(d, p.from) < Apart(c, p.from)
                           /\ \A s \in Nat : c \in CellsOf(s) /\ p.from \in CellsOf(s)
                                               => d \in CellsOf(s)
    BY <2>1, BandHasNoGaps
  <2> QED
    BY <2>2 DEF MustMark
<1>2. CASE Floods(p)
  <2>1. PICK f1 \in Int, f2 \in Int, c1 \in Int, c2 \in Int :
          p.from = <<f1, f2>> /\ c = <<c1, c2>>
    BY DEF Ends, Square
  <2>2. PICK d1 \in Int, d2 \in Int :
          \/ d1 = c1 - 1 /\ d2 = c2 /\ f1 <= d1
          \/ d1 = c1 + 1 /\ d2 = c2 /\ d1 <= f1
          \/ d1 = c1 /\ d2 = c2 - 1 /\ f2 <= d2
          \/ d1 = c1 /\ d2 = c2 + 1 /\ d2 <= f2
    <3>1. c1 # f1 \/ c2 # f2
      BY <2>1
    <3>2. c1 > f1 \/ c1 < f1 \/ c2 > f2 \/ c2 < f2
      BY <2>1, <3>1
    <3>3. c1 - 1 \in Int /\ c1 + 1 \in Int /\ c2 - 1 \in Int /\ c2 + 1 \in Int
      OBVIOUS
    <3> QED
      BY <3>2, <3>3
  <2>3. PICK d \in Square : d = <<d1, d2>>
    BY DEF Square
  <2>4. NextTo(c, d) /\ NextTo(d, c) /\ Apart(d, p.from) < Apart(c, p.from)
    <3>1. NextTo(c, d) /\ NextTo(d, c)
      BY <2>1, <2>2, <2>3 DEF NextTo
    <3>2. Size(d1 - f1) + Size(d2 - f2) < Size(c1 - f1) + Size(c2 - f2)
      BY <2>2 DEF Size
    <3> QED
      BY <2>1, <2>3, <3>1, <3>2 DEF Apart
  <2>5. ASSUME NEW s \in Nat, c \in CellsOf(s), p.from \in CellsOf(s)
        PROVE  d \in CellsOf(s)
    <3>1. /\ c1 \in 0..(2 * s - 1) /\ c2 \in 0..(2 * s - 1)
          /\ f1 \in 0..(2 * s - 1) /\ f2 \in 0..(2 * s - 1)
      BY <2>1, <2>5 DEF CellsOf
    <3>2. d1 \in 0..(2 * s - 1) /\ d2 \in 0..(2 * s - 1)
      BY <2>2, <3>1
    <3> QED
      BY <2>3, <3>2 DEF CellsOf
  <2> QED
    BY <1>2, <2>4, <2>5 DEF MustMark
<1> QED
  BY <1>1, <1>2

\* A set of squares with the start of a path, which has all squares next to those of its
\* squares that are inside the band, has the band.
LEMMA BandIsFound ==
  ASSUME NEW s \in Nat, NEW p, Ends(p), Bold, p.from \in CellsOf(s), NEW S, p.from \in S,
         \A c \in S, d \in CellsOf(s) : MustMark(c, p) /\ NextTo(c, d) => d \in S
  PROVE  \A c \in CellsOf(s) : MustMark(c, p) => c \in S
<1> DEFINE Lost == {c \in CellsOf(s) : MustMark(c, p) /\ c \notin S}
           X == {Apart(c, p.from) : c \in Lost}
<1> SUFFICES ASSUME Lost # {} PROVE FALSE
  OBVIOUS
<1>1. X \subseteq Nat /\ X # {}
  <2>1. ASSUME NEW c \in Square PROVE Apart(c, p.from) \in Nat
    <3>1. PICK m \in Int, n \in Int : m = c[1] - p.from[1] /\ n = c[2] - p.from[2]
      BY DEF Square, Ends
    <3>2. Size(m) \in Nat /\ Size(n) \in Nat
      BY DEF Size
    <3> QED
      BY <3>1, <3>2 DEF Apart
  <2> QED
    BY <2>1, CellsAreCells
<1>2. PICK n \in X : \A k \in X : n <= k
  <2> HIDE DEF X
  <2> QED
    BY <1>1, LeastNatural
<1>3. PICK c \in Lost : n = Apart(c, p.from)
  BY <1>2
<1>4. c \in Square /\ c \in CellsOf(s) /\ MustMark(c, p) /\ c # p.from
  BY <1>3, CellsAreCells
<1>5. PICK d \in Square : /\ NextTo(d, c) /\ MustMark(d, p) /\ d \in CellsOf(s)
                        /\ Apart(d, p.from) < Apart(c, p.from)
  BY <1>4, FoundFromStart
<1>6. d \in S
  <2> SUFFICES ASSUME d \in Lost PROVE FALSE
    BY <1>5
  <2>1. PICK k \in X : k = Apart(d, p.from)
    OBVIOUS
  <2>2. n <= k /\ n \in Nat /\ k \in Nat
    BY <1>1, <1>2, <2>1
  <2> QED
    BY <1>3, <1>5, <2>1, <2>2
<1>7. c \in S
  BY <1>4, <1>5, <1>6
<1> QED
  BY <1>3, <1>7

-------------------------------------------------------------------------------
(* Sums over paths.                                                        *)

\* The fold that sums the objects of paths, as the sum of SumTheorems.
LEMMA CountIsSum ==
  ASSUME NEW P, IsFiniteSet(P)
  PROVE  CountOf(P) = SumOf([p \in P |-> p.count], P)
<1> DEFINE V(p) == p.count
           v == [p \in P |-> V(p)]
           F(f) == f = [u \in SUBSET P |->
                          IF u = {} THEN 0
                          ELSE V(CHOOSE i \in u : TRUE) + f[u \ {CHOOSE i \in u : TRUE}]]
           h == CHOOSE f : F(f)
           k == CHOOSE f : Accumulates(v, f, P)
<1>1. MapThenSumSet(LAMBDA p : V(p), P) = h[P]
  BY DEF MapThenSumSet, MapThenFoldSet
<1>2. ASSUME NEW u \in SUBSET P, u # {}
      PROVE  v[CHOOSE i \in u : TRUE] = V(CHOOSE i \in u : TRUE)
  <2>1. (CHOOSE i \in u : TRUE) \in u
    BY <1>2
  <2> HIDE DEF V
  <2> QED
    BY <2>1
<1> HIDE DEF V, v
<1>3. Accumulates(v, k, P) /\ SumOf(v, P) = k[P]
  BY SumsExist DEF SumOf
<1>4. ASSUME NEW f
      PROVE  F(f) <=> Accumulates(v, f, P)
  <2>1. ASSUME NEW u \in SUBSET P
        PROVE  (IF u = {} THEN 0 ELSE V(CHOOSE i \in u : TRUE) + f[u \ {CHOOSE i \in u : TRUE}])
             = (IF u = {} THEN 0 ELSE v[CHOOSE i \in u : TRUE] + f[u \ {CHOOSE i \in u : TRUE}])
    BY <1>2
  <2> QED
    BY <2>1 DEF Accumulates
<1> HIDE DEF F, k
<1>5. F(h)
  <2>1. \E f : F(f)
    BY <1>3, <1>4
  <2> QED
    BY <2>1
<1> HIDE DEF h
<1>6. Accumulates(v, h, P)
  BY <1>4, <1>5
<1>7. h[P] = k[P]
  <2>1. PICK a, b, x, y : a = v /\ b = v /\ x = h /\ y = k
    OBVIOUS
  <2>2. /\ Accumulates(a, x, P) /\ Accumulates(b, y, P) /\ P \subseteq P
        /\ \A i \in P : a[i] = b[i]
    BY <1>3, <1>6, <2>1
  <2>3. \A u \in SUBSET P : x[u] = y[u]
    BY <2>2, SumsAgree
  <2> QED
    BY <2>1, <2>3
<1>8. MapThenSumSet(LAMBDA p : V(p), P) = SumOf(v, P)
  BY <1>1, <1>3, <1>7
<1> QED
  BY <1>8 DEF V, v, CountOf

Counted(P) == IsFiniteSet(P) /\ \A p \in P : p.count \in Nat

\* The objects of no path are none; those of one more path are added.
LEMMA CountSteps ==
  ASSUME NEW P, Counted(P)
  PROVE  /\ CountOf(P) \in Nat
         /\ P = {} => CountOf(P) = 0
         /\ \A p \in P : CountOf(P) = p.count + CountOf(P \ {p})
<1> DEFINE v == [p \in P |-> p.count]
<1>1. IsFiniteSet(P) /\ \A p \in P : v[p] \in Nat /\ v[p] \in Int
  BY DEF Counted
<1>2. CountOf(P) = SumOf(v, P)
  BY <1>1, CountIsSum
<1>3. ASSUME NEW p \in P
      PROVE  CountOf(P) = p.count + CountOf(P \ {p})
  <2> DEFINE Q == P \ {p}
             w == [x \in Q |-> x.count]
  <2>1. IsFiniteSet(Q) /\ \A x \in Q : v[x] = w[x]
    BY <1>1, FS_Subset
  <2>2. CountOf(Q) = SumOf(w, Q)
    BY <2>1, CountIsSum
  <2>3. v[p] = p.count /\ P \in SUBSET P
    OBVIOUS
  <2> HIDE DEF v, w
  <2>4. SumOf(v, Q) = SumOf(w, Q)
    BY <2>1, SameSum
  <2>5. SumOf(v, P) = v[p] + SumOf(v, Q)
    BY <1>1, <2>3, SumRemove
  <2> QED
    BY <1>2, <2>2, <2>3, <2>4, <2>5
<1> HIDE DEF v
<1>4. SumOf(v, P) \in Nat
  <2>1. P \in SUBSET P
    OBVIOUS
  <2> QED
    BY <1>1, <2>1, SumIsNat
<1>5. P = {} => SumOf(v, P) = 0
  BY <1>1, SumStep
<1> QED
  BY <1>2, <1>3, <1>4, <1>5

\* The traffic of the paths t in a square.
InSum(t, c) == CountOf({p \in t : MustMark(c, p)})
OnSum(t, c) == CountOf({p \in t : MayMark(c, p)})
InPart(x, u, c) == IF c \in u /\ MustMark(c, x) THEN x.count ELSE 0
OnPart(x, u, c) == IF c \in u /\ MayMark(c, x) THEN x.count ELSE 0

\* What paths bring to a square is a natural number.
LEMMA SumsAreNat ==
  ASSUME NEW t, Counted(t), NEW c
  PROVE  InSum(t, c) \in Nat /\ OnSum(t, c) \in Nat
<1>1. Counted({p \in t : MustMark(c, p)}) /\ Counted({p \in t : MayMark(c, p)})
  BY FS_Subset DEF Counted
<1> QED
  BY <1>1, CountSteps DEF InSum, OnSum

\* A path brings a square its objects once it has been looked at.
LEMMA OneMorePath ==
  ASSUME NEW t, Counted(t), NEW x \in t, NEW c, NEW u, c \in u
  PROVE  /\ InSum(t, c) = InSum(t \ {x}, c) + InPart(x, u, c)
         /\ OnSum(t, c) = OnSum(t \ {x}, c) + OnPart(x, u, c)
<1> DEFINE I == {p \in t : MustMark(c, p)}
           O == {p \in t : MayMark(c, p)}
           J == {p \in t \ {x} : MustMark(c, p)}
           Q == {p \in t \ {x} : MayMark(c, p)}
<1>1. Counted(I) /\ Counted(O) /\ Counted(J) /\ Counted(Q) /\ x.count \in Nat
  BY FS_Subset DEF Counted
<1>2. /\ IF MustMark(c, x) THEN x \in I /\ J = I \ {x} ELSE J = I
      /\ IF MayMark(c, x) THEN x \in O /\ Q = O \ {x} ELSE Q = O
  OBVIOUS
<1>3. InSum(t, c) = CountOf(I) /\ OnSum(t, c) = CountOf(O)
  BY DEF InSum, OnSum
<1>4. InSum(t \ {x}, c) = CountOf(J) /\ OnSum(t \ {x}, c) = CountOf(Q)
  BY DEF InSum, OnSum
<1> HIDE DEF I, O, J, Q
<1>5. CountOf(I) \in Nat /\ CountOf(O) \in Nat /\ CountOf(J) \in Nat /\ CountOf(Q) \in Nat
  BY <1>1, CountSteps
<1>6. InSum(t, c) = InSum(t \ {x}, c) + InPart(x, u, c)
  <2>1. CASE MustMark(c, x)
    <3>1. CountOf(I) = x.count + CountOf(J)
      BY <1>1, <1>2, <2>1, CountSteps
    <3> QED
      BY <1>1, <1>3, <1>4, <1>5, <2>1, <3>1 DEF InPart
  <2>2. CASE ~MustMark(c, x)
    BY <1>2, <1>3, <1>4, <1>5, <2>2 DEF InPart
  <2> QED
    BY <2>1, <2>2
<1>7. OnSum(t, c) = OnSum(t \ {x}, c) + OnPart(x, u, c)
  <2>1. CASE MayMark(c, x)
    <3>1. CountOf(O) = x.count + CountOf(Q)
      BY <1>1, <1>2, <2>1, CountSteps
    <3> QED
      BY <1>1, <1>3, <1>4, <1>5, <2>1, <3>1 DEF OnPart
  <2>2. CASE ~MayMark(c, x)
    BY <1>2, <1>3, <1>4, <1>5, <2>2 DEF OnPart
  <2> QED
    BY <2>1, <2>2
<1> QED
  BY <1>6, <1>7

-------------------------------------------------------------------------------
(* The search along one path.                                              *)

Members(s) == {s[i] : i \in 1..Len(s)}

\* t is a set of paths between squares of a grid of side s.
ArePaths(t, s) ==
  /\ IsFiniteSet(t)
  /\ \A p \in t : p.from \in CellsOf(s) /\ p.to \in CellsOf(s) /\ p.count \in Nat

\* The traffic g is that of the paths t.
Bands(t, g, s) == \A c \in CellsOf(s) : InSum(t, c) <= g[c] /\ g[c] <= OnSum(t, c)

\* The traffic g is that of the paths t, but that of x only in the squares u.
Partly(t, x, u, g, s) ==
  \A c \in CellsOf(s) : /\ InSum(t \ {x}, c) + InPart(x, u, c) <= g[c]
                        /\ g[c] <= OnSum(t \ {x}, c) + OnPart(x, u, c)

\* With the squares that have been looked at, u, and those that wait, w, the start of
\* the path is among them, and what is next to a square that has been marked.
Closes(x, u, w, s) ==
  /\ x.from \in u \cup w
  /\ \A c \in u, d \in CellsOf(s) : MustMark(c, x) /\ NextTo(c, d) => d \in u \cup w

\* When no square waits any more, the whole path has been marked.
LEMMA SearchEnds ==
  ASSUME NEW s \in Nat, NEW t, ArePaths(t, s), NEW x \in t, Bold,
         NEW g \in [CellsOf(s) -> Nat], NEW u, Partly(t, x, u, g, s), Closes(x, u, {}, s)
  PROVE  Bands(t, g, s)
<1>1. Ends(x) /\ x.from \in CellsOf(s) /\ Counted(t) /\ Counted(t \ {x})
  BY CellsAreCells, FS_Subset DEF ArePaths, Ends, Counted
<1>2. \A c \in CellsOf(s) : MustMark(c, x) => c \in u
  <2>1. /\ x.from \in u
        /\ \A c \in u, d \in CellsOf(s) : MustMark(c, x) /\ NextTo(c, d) => d \in u
    BY DEF Closes
  <2> QED
    BY <1>1, <2>1, BandIsFound
<1>3. ASSUME NEW c \in CellsOf(s)
      PROVE  InSum(t, c) <= g[c] /\ g[c] <= OnSum(t, c)
  <2>1. /\ InSum(t, c) = InSum(t \ {x}, c) + InPart(x, {c}, c)
        /\ OnSum(t, c) = OnSum(t \ {x}, c) + OnPart(x, {c}, c)
    BY <1>1, OneMorePath
  <2>2. InPart(x, {c}, c) = InPart(x, u, c)
    BY <1>2 DEF InPart
  <2>3. /\ OnPart(x, u, c) <= OnPart(x, {c}, c)
        /\ OnPart(x, u, c) \in Nat /\ OnPart(x, {c}, c) \in Nat
    BY DEF OnPart, ArePaths
  <2>4. OnSum(t \ {x}, c) \in Nat /\ g[c] \in Nat
    BY <1>1, SumsAreNat
  <2>5. InSum(t, c) <= g[c]
    BY <2>1, <2>2 DEF Partly
  <2>6. g[c] <= OnSum(t \ {x}, c) + OnPart(x, u, c)
    BY DEF Partly
  <2>7. g[c] <= OnSum(t, c)
    BY <2>1, <2>3, <2>4, <2>6
  <2> QED
    BY <2>5, <2>7
<1> QED
  BY <1>3 DEF Bands

\* A path that is new has been marked nowhere.
LEMMA SearchStarts ==
  ASSUME NEW s \in Nat, NEW t, NEW x, x \notin t, NEW g, Bands(t, g, s), ArePaths(t, s)
  PROVE  Partly(t \cup {x}, x, {}, g, s) /\ Closes(x, {}, {x.from}, s)
<1>1. (t \cup {x}) \ {x} = t
  OBVIOUS
<1>2. ASSUME NEW c \in CellsOf(s)
      PROVE  /\ InSum(t, c) + InPart(x, {}, c) = InSum(t, c)
             /\ OnSum(t, c) + OnPart(x, {}, c) = OnSum(t, c)
  <2>1. Counted(t)
    BY DEF ArePaths, Counted
  <2>2. InSum(t, c) \in Nat /\ OnSum(t, c) \in Nat
    BY <2>1, SumsAreNat
  <2> QED
    BY <2>2 DEF InPart, OnPart
<1>3. Partly(t \cup {x}, x, {}, g, s)
  BY <1>1, <1>2 DEF Partly, Bands
<1> QED
  BY <1>3 DEF Closes

\* A square that was looked at before may be dropped.
LEMMA SkipCloses ==
  ASSUME NEW x, NEW u, NEW w, NEW s, Closes(x, u, w, s), NEW e \in u, NEW v, w \subseteq v \cup {e}
  PROVE  Closes(x, u, v, s)
BY DEF Closes

\* A square outside of the band need not be marked, and its neighbours need not wait.
LEMMA FarKeeps ==
  ASSUME NEW s \in Nat, NEW t, ArePaths(t, s), NEW x \in t,
         NEW g \in [CellsOf(s) -> Nat], NEW u, NEW w, Partly(t, x, u, g, s), Closes(x, u, w, s),
         NEW e \in CellsOf(s), e \notin u, ~MustMark(e, x), NEW v, w \subseteq v \cup {e}
  PROVE  Partly(t, x, u \cup {e}, g, s) /\ Closes(x, u \cup {e}, v, s)
<1>1. Closes(x, u \cup {e}, v, s)
  BY DEF Closes
<1>2. ASSUME NEW c \in CellsOf(s)
      PROVE  /\ InSum(t \ {x}, c) + InPart(x, u \cup {e}, c) <= g[c]
             /\ g[c] <= OnSum(t \ {x}, c) + OnPart(x, u \cup {e}, c)
  <2>1. Counted(t \ {x}) /\ x.count \in Nat
    BY FS_Subset DEF ArePaths, Counted
  <2>2. InPart(x, u \cup {e}, c) = InPart(x, u, c)
    BY DEF InPart
  <2>3. /\ OnPart(x, u, c) <= OnPart(x, u \cup {e}, c)
        /\ OnPart(x, u, c) \in Nat /\ OnPart(x, u \cup {e}, c) \in Nat
    BY <2>1 DEF OnPart
  <2>4. OnSum(t \ {x}, c) \in Nat /\ g[c] \in Nat
    BY <2>1, SumsAreNat
  <2>5. g[c] <= OnSum(t \ {x}, c) + OnPart(x, u, c)
    BY DEF Partly
  <2>6. InSum(t \ {x}, c) + InPart(x, u \cup {e}, c) <= g[c]
    BY <2>2 DEF Partly
  <2>7. g[c] <= OnSum(t \ {x}, c) + OnPart(x, u \cup {e}, c)
    BY <2>3, <2>4, <2>5
  <2> QED
    BY <2>6, <2>7
<1> QED
  BY <1>1, <1>2 DEF Partly

\* A square that is marked has what is next to it wait.
LEMMA MarkKeeps ==
  ASSUME NEW s \in Nat, NEW t, ArePaths(t, s), NEW x \in t,
         NEW g \in [CellsOf(s) -> Nat], NEW u, NEW w, Partly(t, x, u, g, s), Closes(x, u, w, s),
         NEW e \in CellsOf(s), e \notin u, MayMark(e, x), NEW v, w \subseteq v \cup {e},
         \A d \in CellsOf(s) : NextTo(e, d) => d \in u \cup v \cup {e}
  PROVE  /\ Partly(t, x, u \cup {e}, [g EXCEPT ![e] = @ + x.count], s)
         /\ Closes(x, u \cup {e}, v, s)
<1>1. Closes(x, u \cup {e}, v, s)
  BY DEF Closes
<1> DEFINE h == [g EXCEPT ![e] = @ + x.count]
<1>2. ASSUME NEW c \in CellsOf(s)
      PROVE  /\ InSum(t \ {x}, c) + InPart(x, u \cup {e}, c) <= h[c]
             /\ h[c] <= OnSum(t \ {x}, c) + OnPart(x, u \cup {e}, c)
  <2>1. Counted(t \ {x}) /\ x.count \in Nat
    BY FS_Subset DEF ArePaths, Counted
  <2>2. CASE c # e
    <3>1. InPart(x, u \cup {e}, c) = InPart(x, u, c) /\ OnPart(x, u \cup {e}, c) = OnPart(x, u, c)
      BY <2>2 DEF InPart, OnPart
    <3>2. h[c] = g[c]
      BY <2>2
    <3> HIDE DEF h
    <3> QED
      BY <3>1, <3>2 DEF Partly
  <2>3. CASE c = e
    <3>1. /\ InPart(x, u, c) = 0 /\ OnPart(x, u, c) = 0
          /\ InPart(x, u \cup {e}, c) \in Nat /\ InPart(x, u \cup {e}, c) <= x.count
          /\ OnPart(x, u \cup {e}, c) = x.count
      BY <2>1, <2>3 DEF InPart, OnPart
    <3>2. h[c] = g[c] + x.count /\ g[c] \in Nat
      BY <2>3
    <3>3. InSum(t \ {x}, c) \in Nat /\ OnSum(t \ {x}, c) \in Nat
      BY <2>1, SumsAreNat
    <3>4. /\ InSum(t \ {x}, c) + InPart(x, u, c) <= g[c]
          /\ g[c] <= OnSum(t \ {x}, c) + OnPart(x, u, c)
      BY DEF Partly
    <3> HIDE DEF h
    <3> QED
      BY <2>1, <3>1, <3>2, <3>3, <3>4
  <2> QED
    BY <2>2, <2>3
<1> QED
  BY <1>1, <1>2 DEF Partly

-------------------------------------------------------------------------------
(* The queue.                                                              *)

\* Taking the first square leaves the others.
LEMMA MembersOfTail ==
  ASSUME NEW S, NEW s \in Seq(S), s # <<>>
  PROVE  /\ Head(s) \in S /\ Tail(s) \in Seq(S)
         /\ Members(s) \subseteq Members(Tail(s)) \cup {Head(s)}
<1>1. Len(s) \in Nat /\ Len(s) > 0 /\ Head(s) = s[1] /\ Tail(s) \in Seq(S) /\ Head(s) \in S
  OBVIOUS
<1>2. Len(Tail(s)) = Len(s) - 1 /\ \A i \in 1..(Len(s) - 1) : Tail(s)[i] = s[i + 1]
  OBVIOUS
<1>3. ASSUME NEW i \in 1..Len(s), i # 1
      PROVE  s[i] \in Members(Tail(s))
  <2>1. i - 1 \in 1..Len(Tail(s)) /\ Tail(s)[i - 1] = s[i]
    BY <1>1, <1>2, <1>3
  <2> QED
    BY <2>1 DEF Members
<1> QED
  BY <1>1, <1>3 DEF Members

\* What waits in two queues waits in one or the other.
LEMMA MembersOfBoth ==
  ASSUME NEW S, NEW s \in Seq(S), NEW t \in Seq(S)
  PROVE  /\ s \o t \in Seq(S)
         /\ Members(s) \subseteq Members(s \o t) /\ Members(t) \subseteq Members(s \o t)
<1>1. /\ s \o t \in Seq(S) /\ Len(s \o t) = Len(s) + Len(t) /\ Len(s) \in Nat /\ Len(t) \in Nat
      /\ \A i \in 1..Len(s) : (s \o t)[i] = s[i]
      /\ \A i \in 1..Len(t) : (s \o t)[Len(s) + i] = t[i]
  OBVIOUS
<1>2. ASSUME NEW i \in 1..Len(s) PROVE s[i] \in Members(s \o t)
  BY <1>1 DEF Members
<1>3. ASSUME NEW i \in 1..Len(t) PROVE t[i] \in Members(s \o t)
  <2>1. Len(s) + i \in 1..Len(s \o t)
    BY <1>1
  <2> QED
    BY <1>1, <2>1 DEF Members
<1> QED
  BY <1>1, <1>2, <1>3 DEF Members

-------------------------------------------------------------------------------
(* The search keeps the invariant.                                         *)

ObjectsOK(s) ==
  DOMAIN objects \subseteq CellsOf(s) /\ \A c \in DOMAIN objects : objects[c] \in Nat
\* A square with objects has its path once it has been looked at.
Looked(c, s) == (\A z \in Closest(c) : Located(stops[z], s)) => \E p \in told : p.from = c
PathsInv(s) ==
  /\ ArePaths(told, s) /\ \A p \in told : p.from \notin todo
  /\ todo \subseteq DOMAIN objects /\ \A c \in (DOMAIN objects) \ todo : Looked(c, s)
QueueInv(s) ==
  /\ q \in Seq(CellsOf(s)) /\ used \subseteq CellsOf(s) /\ (q # <<>> => path \in told)
  /\ data_grid \in [CellsOf(s) -> Nat]
SearchInv(s) == /\ path \in told /\ Partly(told, path, used, data_grid, s)
                /\ Closes(path, used, Members(q), s)
MarkedInv(s) == Bold => (q = <<>> /\ Bands(told, data_grid, s)) \/ SearchInv(s)
TrafficInv(s) == ObjectsOK(s) /\ PathsInv(s) /\ QueueInv(s) /\ MarkedInv(s)

\* Once no square waits, the paths told are all marked.
LEMMA PathsAreMarked ==
  ASSUME NEW s \in Nat, TrafficInv(s), q = <<>>, Bold
  PROVE  Bands(told, data_grid, s)
<1>1. CASE SearchInv(s)
  <2>1. Members(q) = {}
    BY DEF Members
  <2>2. PICK x \in told : x = path
    BY <1>1 DEF SearchInv
  <2>3. /\ Partly(told, x, used, data_grid, s) /\ Closes(x, used, {}, s)
        /\ ArePaths(told, s) /\ data_grid \in [CellsOf(s) -> Nat]
    BY <1>1, <2>1, <2>2 DEF SearchInv, TrafficInv, PathsInv, QueueInv
  <2> QED
    BY <2>2, <2>3, SearchEnds
<1> QED
  BY <1>1 DEF TrafficInv, MarkedInv

\* Places on the grid are in one of its rows.
LEMMA RowIsInGrid ==
  ASSUME NEW s \in Nat, s > 0, NEW h \in 0..(4 * s)
  PROVE  RowOf(h, s) \in 0..(2 * s - 1)
BY DEF RowOf

\* The next path is new, and its search starts with its square.
LEMMA NextPathKeeps ==
  ASSUME NEW s \in Nat, s > 0, TrafficInv(s), NextPath(s)
  PROVE  TrafficInv(s)'
<1>1. PICK c : c = NextOf(todo)
  OBVIOUS
<1>2. c \in todo /\ c \in CellsOf(s) /\ c \in DOMAIN objects /\ objects[c] \in Nat
  <2>1. todo \subseteq CellsOf(s) /\ todo # {}
    BY DEF NextPath, TrafficInv, PathsInv, ObjectsOK
  <2>2. c \in todo
    BY <1>1, <2>1, NextIsOne
  <2> QED
    BY <2>1, <2>2 DEF TrafficInv, PathsInv, ObjectsOK
<1>3. /\ q = <<>> /\ todo' = todo \ {c} /\ used' = {}
      /\ objects' = objects /\ stops' = stops /\ data_grid' = data_grid
  BY <1>1 DEF NextPath
<1>4. PICK z \in Closest(c) :
        IF Located(stops[z], s)
          THEN /\ path' = [from |-> c, to |-> GetSquareCoords(stops[z], s), count |-> objects[c]]
               /\ q' = <<c>> /\ told' = told \cup {path'}
          ELSE UNCHANGED <<path, q, told>>
  BY <1>1 DEF NextPath
<1>5. ObjectsOK(s)'
  BY <1>3 DEF TrafficInv, ObjectsOK
<1>6. ArePaths(told, s) /\ told \subseteq told' /\ Closest(c)' = Closest(c)
  BY <1>3, <1>4 DEF TrafficInv, PathsInv, Closest
<1>7. ASSUME NEW d \in (DOMAIN objects) \ todo, Looked(d, s)
      PROVE  Looked(d, s)'
  BY <1>3, <1>6, <1>7 DEF Looked, Closest
<1>8. CASE ~Located(stops[z], s)
  <2>1. told' = told /\ q' = <<>> /\ path' = path
    BY <1>3, <1>4, <1>8
  <2>2. Looked(c, s)'
    BY <1>3, <1>6, <1>8 DEF Looked
  <2>3. PathsInv(s)'
    BY <1>2, <1>3, <1>7, <2>1, <2>2 DEF TrafficInv, PathsInv
  <2>4. QueueInv(s)'
    BY <1>3, <2>1 DEF TrafficInv, QueueInv
  <2>5. MarkedInv(s)'
    <3> SUFFICES ASSUME Bold PROVE Bands(told, data_grid, s)'
      BY <2>1 DEF MarkedInv, Bold
    <3> QED
      BY <1>3, <2>1, PathsAreMarked
  <2> QED
    BY <1>5, <2>3, <2>4, <2>5 DEF TrafficInv
<1>9. CASE Located(stops[z], s)
  <2>1. PICK x : x = path' /\ x = [from |-> c, to |-> GetSquareCoords(stops[z], s), count |-> objects[c]]
    BY <1>4, <1>9
  <2>2. q' = <<c>> /\ told' = told \cup {x} /\ path' = x
    BY <1>4, <1>9, <2>1
  <2>3. x.from = c /\ x.count \in Nat /\ x.to \in CellsOf(s)
    <3>1. stops[z][1] \in 0..(4 * s) /\ stops[z][2] \in 0..(4 * s)
      BY <1>9 DEF Located
    <3>2. GetSquareCoords(stops[z], s) \in CellsOf(s)
      BY <3>1, RowIsInGrid DEF GetSquareCoords, CellsOf
    <3> QED
      BY <1>2, <2>1, <3>2
  <2>4. x \notin told
    BY <1>2, <2>3 DEF TrafficInv, PathsInv
  <2>5. ArePaths(told', s)
    <3>1. IsFiniteSet(told')
      BY <1>6, <2>2, FS_AddElement DEF ArePaths
    <3> QED
      BY <1>2, <1>6, <2>2, <2>3, <3>1 DEF ArePaths
  <2>6. PathsInv(s)'
    <3>1. Looked(c, s)'
      BY <2>2, <2>3 DEF Looked
    <3>2. \A p \in told' : p.from \notin todo'
      BY <1>3, <2>2, <2>3 DEF TrafficInv, PathsInv
    <3> QED
      BY <1>2, <1>3, <1>7, <2>5, <3>1, <3>2 DEF TrafficInv, PathsInv
  <2>7. QueueInv(s)'
    BY <1>2, <1>3, <2>2 DEF TrafficInv, QueueInv
  <2>8. MarkedInv(s)'
    <3> SUFFICES ASSUME Bold PROVE SearchInv(s)'
      BY DEF MarkedInv, Bold
    <3>2. Bands(told, data_grid, s)
      BY <1>3, PathsAreMarked
    <3>3. Partly(told \cup {x}, x, {}, data_grid, s) /\ Closes(x, {}, {x.from}, s)
      BY <1>6, <2>4, <3>2, SearchStarts
    <3>4. Members(q') = {c}
      BY <2>2 DEF Members
    <3> QED
      BY <1>3, <2>2, <2>3, <3>3, <3>4 DEF SearchInv
  <2> QED
    BY <1>5, <2>6, <2>7, <2>8 DEF TrafficInv
<1> QED
  BY <1>8, <1>9

\* What the other steps leave alone.
LEMMA SearchStays ==
  ASSUME NEW s \in Nat, TrafficInv(s), UNCHANGED <<objects, stops, todo, path, told>>
  PROVE  ObjectsOK(s)' /\ PathsInv(s)'
BY DEF TrafficInv, ObjectsOK, PathsInv, Looked, Closest

\* A square that was looked at is dropped.
LEMMA MarkUsedKeeps ==
  ASSUME NEW s \in Nat, TrafficInv(s), MarkUsed
  PROVE  TrafficInv(s)'
<1>1. ObjectsOK(s)' /\ PathsInv(s)'
  BY SearchStays DEF MarkUsed
<1>2. /\ q \in Seq(CellsOf(s)) /\ q # <<>> /\ q' = Tail(q) /\ Head(q) \in used
      /\ used' = used /\ path' = path /\ told' = told /\ data_grid' = data_grid
  BY DEF TrafficInv, QueueInv, MarkUsed, Cur
<1>3. q' \in Seq(CellsOf(s)) /\ Members(q) \subseteq Members(q') \cup {Head(q)}
  BY <1>2, MembersOfTail
<1>4. QueueInv(s)'
  BY <1>2, <1>3 DEF TrafficInv, QueueInv
<1>5. MarkedInv(s)'
  <2> SUFFICES ASSUME Bold PROVE SearchInv(s)'
    BY <1>1 DEF MarkedInv, Bold
  <2>1. SearchInv(s)
    BY <1>2 DEF TrafficInv, MarkedInv
  <2>2. Closes(path, used, Members(q'), s)
    BY <1>2, <1>3, <2>1, SkipCloses DEF SearchInv
  <2> QED
    BY <1>2, <2>1, <2>2 DEF SearchInv
<1> QED
  BY <1>1, <1>4, <1>5 DEF TrafficInv

\* A square that is too far away is dropped.
LEMMA MarkFarKeeps ==
  ASSUME NEW s \in Nat, TrafficInv(s), MarkFar
  PROVE  TrafficInv(s)'
<1>1. ObjectsOK(s)' /\ PathsInv(s)'
  BY SearchStays DEF MarkFar
<1>2. PICK e : e = Head(q)
  OBVIOUS
<1>3. /\ q \in Seq(CellsOf(s)) /\ q # <<>> /\ q' = Tail(q) /\ e \notin used /\ TRUE \in IsFar(e)
      /\ used' = used \cup {e} /\ path' = path /\ told' = told /\ data_grid' = data_grid
  BY <1>2 DEF TrafficInv, QueueInv, MarkFar, NewSquare, Cur
<1>4. /\ q' \in Seq(CellsOf(s)) /\ Members(q) \subseteq Members(q') \cup {e}
      /\ e \in CellsOf(s)
  BY <1>2, <1>3, MembersOfTail
<1>5. QueueInv(s)'
  BY <1>3, <1>4 DEF TrafficInv, QueueInv
<1>6. MarkedInv(s)'
  <2> SUFFICES ASSUME Bold PROVE SearchInv(s)'
    BY <1>1 DEF MarkedInv, Bold
  <2>1. SearchInv(s)
    BY <1>3 DEF TrafficInv, MarkedInv
  <2>2. ArePaths(told, s) /\ path \in told /\ Ends(path) /\ e \in Square
    BY <1>4, <2>1, CellsAreCells DEF TrafficInv, PathsInv, SearchInv, ArePaths, Ends
  <2>3. ~MustMark(e, path)
    BY <1>3, <2>2, MarkedRightly
  <2>4. /\ data_grid \in [CellsOf(s) -> Nat] /\ Partly(told, path, used, data_grid, s)
        /\ Closes(path, used, Members(q), s)
    BY <2>1 DEF TrafficInv, QueueInv, SearchInv
  <2>5. /\ Partly(told, path, used \cup {e}, data_grid, s)
        /\ Closes(path, used \cup {e}, Members(q'), s)
    BY <1>3, <1>4, <2>2, <2>3, <2>4, FarKeeps
  <2> QED
    BY <1>3, <2>2, <2>5 DEF SearchInv
<1> QED
  BY <1>1, <1>5, <1>6 DEF TrafficInv

\* What is next to a square that is marked waits, or has been looked at.
LEMMA MarkPushes ==
  ASSUME NEW s \in Nat, q \in Seq(CellsOf(s)), q # <<>>, Mark(s), Cur \in Square
  PROVE  /\ q' \in Seq(CellsOf(s)) /\ Members(Tail(q)) \subseteq Members(q')
         /\ \A d \in CellsOf(s) : NextTo(Cur, d) => d \in used' \cup Members(q')
<1> DEFINE S == CellsOf(s)
           a == Around(Cur)
           P(i) == Pushed(a[i], s)
<1>1. ASSUME NEW d
      PROVE  Pushed(d, s) \in Seq(S) /\ (d \in S => d \in used' \cup Members(Pushed(d, s)))
  <2>1. CASE d \in S \ used'
    <3>1. Pushed(d, s) = <<d>>
      BY <2>1 DEF Pushed
    <3> QED
      BY <2>1, <3>1 DEF Members
  <2>2. CASE d \notin S \ used'
    <3>1. Pushed(d, s) = <<>>
      BY <2>2 DEF Pushed
    <3> QED
      BY <2>2, <3>1
  <2> QED
    BY <2>1, <2>2
<1>2. PICK t, t1, t2, t3 : /\ t = Tail(q) /\ t1 = t \o P(1) /\ t2 = t1 \o P(2) /\ t3 = t2 \o P(3)
  OBVIOUS
<1>3. q' = t3 \o P(4)
  BY <1>2 DEF Mark
<1>4. t \in Seq(S)
  BY <1>2, MembersOfTail
<1>5. P(1) \in Seq(S) /\ P(2) \in Seq(S) /\ P(3) \in Seq(S) /\ P(4) \in Seq(S)
  BY <1>1
<1>6. \A d \in S : NextTo(Cur, d) => d = a[1] \/ d = a[2] \/ d = a[3] \/ d = a[4]
  BY DEF NextTo, Around
<1>7. \A d \in S : NextTo(Cur, d) =>
        d \in used' \cup Members(P(1)) \cup Members(P(2)) \cup Members(P(3)) \cup Members(P(4))
  BY <1>1, <1>6
<1> HIDE DEF S, a, P
<1>8. t1 \in Seq(S) /\ Members(t) \subseteq Members(t1) /\ Members(P(1)) \subseteq Members(t1)
  BY <1>2, <1>4, <1>5, MembersOfBoth
<1>9. t2 \in Seq(S) /\ Members(t1) \subseteq Members(t2) /\ Members(P(2)) \subseteq Members(t2)
  BY <1>2, <1>5, <1>8, MembersOfBoth
<1>10. t3 \in Seq(S) /\ Members(t2) \subseteq Members(t3) /\ Members(P(3)) \subseteq Members(t3)
  BY <1>2, <1>5, <1>9, MembersOfBoth
<1>11. q' \in Seq(S) /\ Members(t3) \subseteq Members(q') /\ Members(P(4)) \subseteq Members(q')
  BY <1>3, <1>5, <1>10, MembersOfBoth
<1>12. Members(t) \subseteq Members(q')
  BY <1>8, <1>9, <1>10, <1>11
<1>13. \A d \in S : NextTo(Cur, d) => d \in used' \cup Members(q')
  BY <1>7, <1>8, <1>9, <1>10, <1>11
<1> QED
  BY <1>2, <1>11, <1>12, <1>13 DEF S

\* A square that is near gets the objects, and its neighbours wait.
LEMMA MarkingKeeps ==
  ASSUME NEW s \in Nat, TrafficInv(s), Mark(s)
  PROVE  TrafficInv(s)'
<1>1. ObjectsOK(s)' /\ PathsInv(s)'
  BY SearchStays DEF Mark
<1>2. PICK e : e = Cur
  OBVIOUS
<1>3. /\ q \in Seq(CellsOf(s)) /\ q # <<>> /\ e = Head(q) /\ e \notin used /\ FALSE \in IsFar(e)
      /\ used' = used \cup {e} /\ path' = path /\ told' = told
      /\ data_grid' = [data_grid EXCEPT ![e] = @ + path.count]
      /\ path \in told /\ data_grid \in [CellsOf(s) -> Nat]
  BY <1>2 DEF TrafficInv, QueueInv, Mark, NewSquare, Cur
<1>4. /\ Members(q) \subseteq Members(Tail(q)) \cup {e} /\ e \in CellsOf(s) /\ e \in Square
  BY <1>2, <1>3, MembersOfTail, CellsAreCells
<1>5. /\ q' \in Seq(CellsOf(s)) /\ Members(Tail(q)) \subseteq Members(q')
      /\ \A d \in CellsOf(s) : NextTo(e, d) => d \in used' \cup Members(q')
  BY <1>2, <1>3, <1>4, MarkPushes
<1>6. QueueInv(s)'
  <2>1. path.count \in Nat
    BY <1>3 DEF TrafficInv, PathsInv, ArePaths
  <2>2. data_grid' \in [CellsOf(s) -> Nat]
    BY <1>3, <1>4, <2>1
  <2> QED
    BY <1>3, <1>4, <1>5, <2>2 DEF TrafficInv, QueueInv
<1>7. MarkedInv(s)'
  <2> SUFFICES ASSUME Bold PROVE SearchInv(s)'
    BY <1>1 DEF MarkedInv, Bold
  <2>1. SearchInv(s)
    BY <1>3 DEF TrafficInv, MarkedInv
  <2>2. ArePaths(told, s) /\ path \in told /\ Ends(path)
    BY <2>1, CellsAreCells DEF TrafficInv, PathsInv, SearchInv, ArePaths, Ends
  <2>3. MayMark(e, path)
    BY <1>3, <1>4, <2>2, MarkedRightly
  <2>4. Partly(told, path, used, data_grid, s) /\ Closes(path, used, Members(q), s)
    BY <2>1 DEF SearchInv
  <2>5. /\ Members(q) \subseteq Members(q') \cup {e}
        /\ \A d \in CellsOf(s) : NextTo(e, d) => d \in used \cup Members(q') \cup {e}
    BY <1>3, <1>4, <1>5
  <2>6. /\ Partly(told, path, used \cup {e}, [data_grid EXCEPT ![e] = @ + path.count], s)
        /\ Closes(path, used \cup {e}, Members(q'), s)
    BY <1>3, <1>4, <2>2, <2>3, <2>4, <2>5, MarkKeeps
  <2> QED
    BY <1>3, <2>2, <2>6 DEF SearchInv
<1> QED
  BY <1>1, <1>6, <1>7 DEF TrafficInv

\* No step of the search breaks its invariant.
LEMMA TrafficStepKeeps ==
  ASSUME NEW s \in Nat, s > 0, TrafficInv(s), TrafficStep(s)
  PROVE  TrafficInv(s)'
BY NextPathKeeps, MarkUsedKeeps, MarkFarKeeps, MarkingKeeps DEF TrafficStep

\* The rows of a grid's traffic.
TrafficRows == [id \in {i \in Ids : data_grid[CellOf(i)] # 0} |-> data_grid[CellOf(id)]]

BandsInv ==
  /\ scene \in Scenes /\ side = scene.side /\ objects = scene.objects
  /\ Is("calculate_traffic") =>
       /\ stage = "loading" => told = {} /\ q = <<>> /\ used = {} /\ todo = DOMAIN objects
       /\ stage \in {"paths", "walking", "written"} => TrafficInv(side)
       /\ stage \in {"walking", "written"} => q = <<>> /\ todo = {}
       /\ stage = "written" => ended /\ table = TrafficRows

\* Objects are in squares of the grid.
LEMMA SceneIsSmall ==
  ASSUME BandsInv
  PROVE  side \in Nat /\ side > 0 /\ ObjectsOK(side)
<1>1. PICK x \in Scenes : x.side = side /\ x.objects = objects
  BY DEF BandsInv
<1>2. /\ side \in Sides /\ DOMAIN objects \subseteq CellsOf(side)
      /\ \A c \in DOMAIN objects : objects[c] \in Nat \ {0}
  BY <1>1, ScenesAssumption
<1> QED
  BY <1>2, SidesAssumption DEF ObjectsOK

\* Steps of other programs do not touch the search.
LEMMA TrafficStays ==
  ASSUME NEW s \in Nat, TrafficInv(s), UNCHANGED traffic
  PROVE  TrafficInv(s)'
<1>1. /\ objects' = objects /\ stops' = stops /\ todo' = todo /\ path' = path /\ q' = q
      /\ used' = used /\ data_grid' = data_grid /\ told' = told
  BY DEF traffic
<1>2. ObjectsOK(s)' /\ PathsInv(s)'
  BY <1>1, SearchStays
<1>3. QueueInv(s)'
  BY <1>1 DEF TrafficInv, QueueInv
<1>4. MarkedInv(s)'
  BY <1>1, <1>2 DEF TrafficInv, MarkedInv, SearchInv, Bold
<1> QED
  BY <1>2, <1>3, <1>4 DEF TrafficInv

\* Where the objects have been read, nothing has been marked.
LEMMA TrafficStarts ==
  ASSUME NEW s \in Nat, ObjectsOK(s), told = {}, q = <<>>, used = {}, todo = DOMAIN objects,
         UNCHANGED <<objects, stops, todo, path, q, used, told>>,
         data_grid' = [c \in CellsOf(s) |-> 0]
  PROVE  TrafficInv(s)'
<1>1. ObjectsOK(s)'
  BY DEF ObjectsOK
<1>2. ArePaths({}, s)
  BY FS_EmptySet DEF ArePaths
<1>3. PathsInv(s)'
  BY <1>2 DEF PathsInv
<1>4. QueueInv(s)'
  BY DEF QueueInv
<1>5. Bands({}, [c \in CellsOf(s) |-> 0], s)
  <2>1. ASSUME NEW c \in CellsOf(s)
        PROVE  InSum({}, c) = 0 /\ OnSum({}, c) = 0
    <3>1. Counted({})
      BY FS_EmptySet DEF Counted
    <3>2. CountOf({}) = 0
      BY <3>1, CountSteps
    <3>3. {p \in {} : MustMark(c, p)} = {} /\ {p \in {} : MayMark(c, p)} = {}
      OBVIOUS
    <3> QED
      BY <3>2, <3>3 DEF InSum, OnSum
  <2> QED
    BY <2>1 DEF Bands
<1>6. MarkedInv(s)'
  BY <1>5 DEF MarkedInv
<1> QED
  BY <1>1, <1>3, <1>4, <1>6 DEF TrafficInv

\* The invariant of the search is about the grid that is loaded.
LEMMA SameSide ==
  ASSUME NEW s, side' = s, TrafficInv(s)'
  PROVE  TrafficInv(side)'
BY DEF TrafficInv, ObjectsOK, PathsInv, Looked, QueueInv, MarkedInv, SearchInv

\* Every step of the programs keeps the invariant.
LEMMA BandsStep ==
  ASSUME BandsInv, [ProgramStep \/ Refused]_squares
  PROVE  BandsInv'
<1>1. side \in Nat /\ side > 0 /\ ObjectsOK(side)
  BY SceneIsSmall
<1>2. scene' = scene /\ side' = side /\ objects' = objects
  BY DEF ProgramStep, Refused, Reject, LoadTraffic, LoadSquares, LoadLegacy, MarkPaths, Crash,
     PathsDone, Number, WriteTraffic, WriteSquares, WriteLegacy, Write, squares, program, walk,
     vars, traffic, Next, Walk, NextRing, Return, TrafficStep, NextPath, MarkUsed, MarkFar, Mark
<1> SUFFICES ASSUME Is("calculate_traffic")
             PROVE  /\ stage' = "loading" => /\ told' = {} /\ q' = <<>> /\ used' = {}
                                             /\ todo' = DOMAIN objects'
                    /\ stage' \in {"paths", "walking", "written"} => TrafficInv(side)'
                    /\ stage' \in {"walking", "written"} => q' = <<>> /\ todo' = {}
                    /\ stage' = "written" => ended' /\ table' = TrafficRows'
  BY <1>2 DEF BandsInv, Is
<1>3. PICK s \in Nat : s = side
  BY <1>1
<1>4. CASE LoadTraffic
  <2>1. /\ stage = "loading" /\ stage' = "paths" /\ data_grid' = [c \in CellsOf(s) |-> 0]
        /\ UNCHANGED <<objects, stops, todo, path, q, used, told>>
    BY <1>3, <1>4 DEF LoadTraffic, Go
  <2>2. told = {} /\ q = <<>> /\ used = {} /\ todo = DOMAIN objects
    BY <2>1 DEF BandsInv
  <2>3. TrafficInv(s)'
    BY <1>1, <1>3, <2>1, <2>2, TrafficStarts
  <2>4. TrafficInv(side)'
    BY <1>2, <1>3, <2>3, SameSide
  <2> QED
    BY <2>1, <2>4
<1>5. CASE MarkPaths
  <2>1. stage = "paths" /\ stage' = stage /\ TrafficStep(s) /\ TrafficInv(s)
    BY <1>3, <1>5 DEF MarkPaths, BandsInv, program
  <2>2. TrafficInv(s)'
    BY <1>1, <1>3, <2>1, TrafficStepKeeps
  <2>3. TrafficInv(side)'
    BY <1>2, <1>3, <2>2, SameSide
  <2> QED
    BY <2>1, <2>3
<1>6. CASE UNCHANGED traffic /\ stage \in {"paths", "walking", "written"}
  <2>1. /\ objects' = objects /\ stops' = stops /\ todo' = todo /\ path' = path /\ q' = q
        /\ used' = used /\ data_grid' = data_grid /\ told' = told
    BY <1>6 DEF traffic
  <2>2. TrafficInv(s)'
    BY <1>3, <1>6, TrafficStays DEF BandsInv
  <2>3. TrafficInv(side)'
    BY <1>2, <1>3, <2>2, SameSide
  <2>4. \/ UNCHANGED squares
        \/ stage \in {"paths", "walking"} /\ stage' \in {"gridless", "failed", "dead", "paths"}
        \/ PathsDone
        \/ Number
        \/ WriteTraffic
    BY <1>6 DEF ProgramStep, Refused, Reject, LoadTraffic, LoadSquares, LoadLegacy, MarkPaths,
       Crash, Go, Is, WriteSquares, WriteLegacy, program
  <2>5. CASE UNCHANGED squares
    <3>1. stage' = stage /\ table' = table /\ ended' = ended /\ res' = res /\ side' = side
      BY <2>5 DEF squares, program, walk, vars
    <3>2. TrafficRows' = TrafficRows
      BY <2>1, <3>1 DEF TrafficRows, Ids, CellOf
    <3> QED
      BY <1>6, <2>1, <2>3, <3>1, <3>2 DEF BandsInv
  <2>6. CASE stage \in {"paths", "walking"} /\ stage' \in {"gridless", "failed", "dead", "paths"}
    BY <2>3, <2>6
  <2>7. CASE PathsDone
    BY <2>1, <2>3, <2>7 DEF PathsDone, Go
  <2>8. CASE Number
    BY <2>1, <2>3, <2>8 DEF Number, BandsInv, program
  <2>9. CASE WriteTraffic
    <3>1. /\ stage = "walking" /\ stage' = "written" /\ ended /\ UNCHANGED walk
          /\ table' = TrafficRows
      BY <2>9 DEF WriteTraffic, Write, Go, TrafficRows
    <3>2. ended' = ended /\ res' = res /\ side' = side
      BY <3>1 DEF walk, vars
    <3>3. TrafficRows' = TrafficRows
      BY <2>1, <3>2 DEF TrafficRows, Ids, CellOf
    <3> QED
      BY <2>1, <2>3, <3>1, <3>2, <3>3 DEF BandsInv
  <2> QED
    BY <2>4, <2>5, <2>6, <2>7, <2>8, <2>9
<1>7. CASE stage = "loading" /\ UNCHANGED <<stage, traffic>>
  BY <1>7 DEF BandsInv, traffic
<1>8. CASE stage' \in {"gridless", "rejected", "failed", "dead"}
  BY <1>8
<1>9. \/ LoadTraffic \/ MarkPaths
      \/ UNCHANGED traffic /\ stage \in {"paths", "walking", "written"}
      \/ stage = "loading" /\ UNCHANGED <<stage, traffic>>
      \/ stage' \in {"gridless", "rejected", "failed", "dead"}
      \/ stage \in {"gridless", "rejected", "failed", "dead"} /\ stage' = stage
      \/ UNCHANGED squares
  BY DEF ProgramStep, Refused, Reject, LoadSquares, LoadLegacy, Crash,
     PathsDone, Number, WriteTraffic, WriteSquares, WriteLegacy, Write, Go, Is
<1>10. CASE UNCHANGED squares
  <2>1. stage' = stage /\ UNCHANGED traffic
    BY <1>10 DEF squares, program
  <2> QED
    BY <1>6, <1>7, <2>1 
<1>11. CASE stage \in {"gridless", "rejected", "failed", "dead"} /\ stage' = stage
  BY <1>11
<1> QED
  BY <1>4, <1>5, <1>6, <1>7, <1>8, <1>9, <1>10, <1>11

\* The number of a square leads to its traffic.
LEMMA TrafficIsFound ==
  ASSUME WalkInv, ended, table = TrafficRows, NEW c \in CellsOf(side),
         data_grid[c] \in Nat
  PROVE  FoundTraffic(c) = data_grid[c]
<1>1. PICK a, b \in 0..(2 * side - 1) : c = <<a, b>>
  BY DEF CellsOf
<1>2. PICK id \in Ids : CellOf(id) = <<a, b>>
  BY <1>1, NumberOfSquare
<1>3. PICK x, y \in 0..(2 * side - 1) :
        CellOf(id) = <<x, y>> /\ SquareId(<<x - side, y - side>>) = id
  BY SquareOfNumber
<1>4. x = a /\ y = b
  BY <1>2, <1>3
<1>5. SquareId(<<c[1] - side, c[2] - side>>) = id
  BY <1>1, <1>3, <1>4
<1>6. CASE data_grid[c] # 0
  <2>1. id \in DOMAIN table /\ table[id] = data_grid[c]
    BY <1>1, <1>2, <1>6 DEF TrafficRows
  <2> QED
    BY <1>5, <2>1 DEF FoundTraffic
<1>7. CASE data_grid[c] = 0
  <2>1. id \notin DOMAIN table
    BY <1>1, <1>2, <1>7 DEF TrafficRows
  <2> QED
    BY <1>5, <1>7, <2>1 DEF FoundTraffic
<1> QED
  BY <1>6, <1>7

\* The rows written are right where the search has ended.
LEMMA BandsAreWritten ==
  ASSUME WalkInv, BandsInv
  PROVE  TrafficIsBands
<1> SUFFICES ASSUME Written("calculate_traffic"), Bold
             PROVE  AreBands(FoundTraffic, side, MustMark, MayMark)
  BY DEF TrafficIsBands
<1>1. /\ TrafficInv(side) /\ q = <<>> /\ todo = {} /\ ended /\ table = TrafficRows
      /\ side \in Nat
  BY SceneIsSmall DEF BandsInv, Written
<1>2. Bands(told, data_grid, side)
  BY <1>1, PathsAreMarked
<1>3. ASSUME NEW c \in CellsOf(side)
      PROVE  FoundTraffic(c) \in Through(c, MustMark)..Through(c, MayMark)
  <2>1. data_grid[c] \in Nat /\ Counted(told)
    BY <1>1 DEF TrafficInv, QueueInv, PathsInv, ArePaths, Counted
  <2>2. FoundTraffic(c) = data_grid[c]
    BY <1>1, <2>1, TrafficIsFound
  <2>3. InSum(told, c) <= data_grid[c] /\ data_grid[c] <= OnSum(told, c)
    BY <1>2 DEF Bands
  <2>4. InSum(told, c) \in Nat /\ OnSum(told, c) \in Nat
    BY <2>1, SumsAreNat
  <2>5. Through(c, MustMark) = InSum(told, c) /\ Through(c, MayMark) = OnSum(told, c)
    BY DEF Through, InSum, OnSum
  <2> QED
    BY <2>1, <2>2, <2>3, <2>4, <2>5
<1>4. ASSUME NEW c \in DOMAIN objects, \A z \in Closest(c) : Located(stops[z], side)
      PROVE  \E p \in told : p.from = c
  BY <1>1, <1>4 DEF TrafficInv, PathsInv, Looked
<1> QED
  BY <1>3, <1>4 DEF AreBands

\* The traffic that readers find is that of bands of the width asked for, and of the
\* whole grid for objects that share a square with their stop, whatever grid, objects,
\* stops and width there are and however rounding falls, if bands that wide have no gaps:
\* the search of MarkPath marks them whole, each square once, and GetSquareId finds the
\* rows that the walk has numbered.
THEOREM BandsAreFound == ProgramSpec => []TrafficIsBands
<1>1. ProgramInit => WalkInv /\ BandsInv
  <2> SUFFICES ASSUME ProgramInit PROVE WalkInv /\ BandsInv
    OBVIOUS
  <2>1. WalkInv
    BY WalkInvInit DEF ProgramInit
  <2>2. BandsInv
    BY DEF ProgramInit, BandsInv, TrafficInit, Init
  <2> QED BY <2>1, <2>2
<1>2. WalkInv /\ BandsInv /\ [ProgramStep \/ Refused]_squares => (WalkInv /\ BandsInv)'
  <2> SUFFICES ASSUME WalkInv, BandsInv, [ProgramStep \/ Refused]_squares
               PROVE  (WalkInv /\ BandsInv)'
    OBVIOUS
  <2>1. [Next]_vars
    BY DEF ProgramStep, Refused, Reject, LoadTraffic, LoadSquares, LoadLegacy, MarkPaths,
       Crash, PathsDone, Number, WriteTraffic, WriteSquares, WriteLegacy, Write, squares, walk
  <2> QED BY <2>1, WalkInvNext, BandsStep
<1>3. WalkInv /\ BandsInv => TrafficIsBands
  BY BandsAreWritten
<1> QED BY <1>1, <1>2, <1>3, PTL DEF ProgramSpec
===============================================================================
