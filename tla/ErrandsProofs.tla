--------------------------- MODULE ErrandsProofs ---------------------------
(***************************************************************************)
(* What the behaviour tree's plans are worth, for every corridor, mission, *)
(* step and sequence of events.  In this order:                            *)
(*                                                                         *)
(*   - the arithmetic of the roundings: division, ticks, energy, edges;    *)
(*   - the figures of a route, along its edges (EdgeRight, EdgeLeft), when *)
(*     a tick's way of it is behind the vehicle (OneTickOn), and by way of *)
(*     a third point (WayRound);                                           *)
(*   - TypeInv, the types: the vehicle stays in the corridor (TypeCorrect),*)
(*     and bids are for what the tree sets out for (BidsServed);           *)
(*   - LateInv, what the agent knew when it set out: no deadline passes on *)
(*     a task in hand (NeverLate);                                         *)
(*   - PlanInv, what is left of the plan halfway through a tick: plans are *)
(*     kept (PlansAreKept).                                                *)
(***************************************************************************)
EXTENDS Errands, Induction

(* Multiplication by a natural number keeps the order.                     *)
LEMMA TimesGrows ==
  ASSUME NEW i \in Int, NEW j \in Int, NEW c \in Nat, i <= j
  PROVE  i * c \in Int /\ j * c \in Int /\ i * c <= j * c
<1>1. PICK d \in Nat : j = i + d
  <2>1. j - i \in Nat /\ j = i + (j - i)
    OBVIOUS
  <2> QED BY <2>1
<1>2. j * c = i * c + d * c
  BY <1>1
<1>3. d * c \in Nat
  OBVIOUS
<1> QED
  BY <1>2, <1>3

(* What a division by a positive number means ...                          *)
LEMMA DivBounds ==
  ASSUME NEW a \in Int, NEW b \in Nat \ {0}
  PROVE  a \div b \in Int /\ (a \div b) * b <= a /\ a < (a \div b) * b + b
OBVIOUS

(* ... and that nothing else is meant.                                     *)
LEMMA DivUnique ==
  ASSUME NEW a \in Int, NEW b \in Nat \ {0}, NEW k \in Int, k * b <= a, a < k * b + b
  PROVE  a \div b = k
<1> DEFINE q == a \div b
<1>1. q \in Int /\ q * b <= a /\ a < q * b + b
  BY DivBounds
<1>2. CASE q < k
  <2>1. (q + 1) * b <= k * b
    BY <1>1, <1>2, TimesGrows
  <2>2. (q + 1) * b = q * b + b
    BY <1>1
  <2> QED
    BY <1>1, <2>1, <2>2
<1>3. CASE k < q
  <2>1. (k + 1) * b <= q * b
    BY <1>1, <1>3, TimesGrows
  <2>2. (k + 1) * b = k * b + b
    OBVIOUS
  <2> QED
    BY <1>1, <2>1, <2>2
<1> QED
  BY <1>1, <1>2, <1>3

LEMMA DivOfMultiple ==
  ASSUME NEW k \in Int, NEW b \in Nat \ {0}
  PROVE  (k * b) \div b = k
BY DivUnique

(* Rounding up.                                                            *)
LEMMA CeilBounds ==
  ASSUME NEW a \in Nat, NEW b \in Nat \ {0}
  PROVE  CeilDiv(a, b) \in Nat /\ a <= CeilDiv(a, b) * b /\ CeilDiv(a, b) * b < a + b
<1> DEFINE q == a \div b
<1>1. q \in Int /\ q * b <= a /\ a < q * b + b
  BY DivBounds
<1>2. q \in Nat
  <2>1. CASE q < 0
    <3>1. (q + 1) * b <= 0 * b
      BY <1>1, <2>1, TimesGrows
    <3>2. (q + 1) * b = q * b + b
      BY <1>1
    <3> QED
      BY <1>1, <3>1, <3>2
  <2> QED
    BY <1>1, <2>1
<1>3. (q + 1) * b = q * b + b
  BY <1>1
<1>4. a = q * b + (a % b) /\ a % b \in Nat
  OBVIOUS
<1>5. CASE a % b = 0
  BY <1>1, <1>2, <1>4, <1>5 DEF CeilDiv
<1>6. CASE a % b # 0
  BY <1>1, <1>2, <1>3, <1>4, <1>6 DEF CeilDiv
<1> QED
  BY <1>5, <1>6

LEMMA CeilUnique ==
  ASSUME NEW a \in Nat, NEW b \in Nat \ {0}, NEW k \in Int, a <= k * b, k * b < a + b
  PROVE  CeilDiv(a, b) = k
<1> DEFINE c == CeilDiv(a, b)
<1>1. c \in Nat /\ a <= c * b /\ c * b < a + b
  BY CeilBounds
<1>2. CASE c < k
  <2>1. (c + 1) * b <= k * b /\ (c + 1) * b = c * b + b
    BY <1>1, <1>2, TimesGrows
  <2> QED
    BY <1>1, <2>1
<1>3. CASE k < c
  <2>1. (k + 1) * b <= c * b /\ (k + 1) * b = k * b + b
    BY <1>1, <1>3, TimesGrows
  <2> QED
    BY <1>1, <2>1
<1> HIDE DEF c
<1>4. c = k
  BY <1>1, <1>2, <1>3
<1> QED
  BY <1>4 DEF c

LEMMA CeilGrows ==
  ASSUME NEW a \in Nat, NEW d \in Nat, NEW b \in Nat \ {0}, a <= d
  PROVE  CeilDiv(a, b) <= CeilDiv(d, b)
<1> DEFINE c == CeilDiv(a, b)  e == CeilDiv(d, b)
<1>1. c \in Nat /\ a <= c * b /\ c * b < a + b
  BY CeilBounds
<1>2. e \in Nat /\ d <= e * b
  BY CeilBounds
<1>3. CASE e < c
  <2>1. (e + 1) * b <= c * b /\ (e + 1) * b = e * b + b
    BY <1>1, <1>2, <1>3, TimesGrows
  <2> QED
    BY <1>1, <1>2, <2>1
<1> HIDE DEF c, e
<1>4. c <= e
  BY <1>1, <1>2, <1>3
<1> QED
  BY <1>4 DEF c, e

LEMMA CeilOfNothing ==
  ASSUME NEW b \in Nat \ {0}
  PROVE  CeilDiv(0, b) = 0
BY CeilUnique

LEMMA CeilOfOne ==
  ASSUME NEW a \in Nat, NEW b \in Nat \ {0}, 0 < a, a <= b
  PROVE  CeilDiv(a, b) = 1
<1>1. a <= 1 * b /\ 1 * b < a + b
  OBVIOUS
<1> QED
  BY <1>1, CeilUnique

LEMMA CeilLessOne ==
  ASSUME NEW a \in Nat, NEW b \in Nat \ {0}, b <= a
  PROVE  CeilDiv(a - b, b) = CeilDiv(a, b) - 1
<1> DEFINE c == CeilDiv(a, b)
<1>1. c \in Nat /\ a <= c * b /\ c * b < a + b
  BY CeilBounds
<1>2. (c - 1) * b = c * b - b /\ c - 1 \in Int /\ a - b \in Nat
  BY <1>1
<1>3. a - b <= (c - 1) * b /\ (c - 1) * b < (a - b) + b
  BY <1>1, <1>2
<1> HIDE DEF c
<1>4. CeilDiv(a - b, b) = c - 1
  BY <1>2, <1>3, CeilUnique
<1> QED
  BY <1>4 DEF c

(* Two floors one after the other: what parts cost is no more than what the*)
(* whole costs.                                                            *)
LEMMA FloorOfSum ==
  ASSUME NEW a \in Int, NEW d \in Int, NEW b \in Nat \ {0}
  PROVE  a \div b + d \div b <= (a + d) \div b
<1> DEFINE p == a \div b  q == d \div b  r == (a + d) \div b
<1>1. p \in Int /\ p * b <= a /\ q \in Int /\ q * b <= d
  BY DivBounds
<1>2. r \in Int /\ a + d < r * b + b
  BY DivBounds
<1> HIDE DEF p, q, r
<1>3. (p + q) * b = p * b + q * b
  BY <1>1
<1>4. CASE r < p + q
  <2>1. (r + 1) * b <= (p + q) * b /\ (r + 1) * b = r * b + b
    BY <1>1, <1>2, <1>4, TimesGrows
  <2> QED
    BY <1>1, <1>2, <1>3, <2>1
<1>5. p + q <= r
  BY <1>1, <1>2, <1>4
<1> QED
  BY <1>5 DEF p, q, r

LEMMA FloorGrows ==
  ASSUME NEW a \in Int, NEW d \in Int, NEW b \in Nat \ {0}, a <= d
  PROVE  a \div b <= d \div b
<1> DEFINE p == a \div b  q == d \div b
<1>1. p \in Int /\ p * b <= a
  BY DivBounds
<1>2. q \in Int /\ d < q * b + b
  BY DivBounds
<1> HIDE DEF p, q
<1>3. CASE q < p
  <2>1. (q + 1) * b <= p * b /\ (q + 1) * b = q * b + b
    BY <1>1, <1>2, <1>3, TimesGrows
  <2> QED
    BY <1>1, <1>2, <2>1
<1>4. p <= q
  BY <1>1, <1>2, <1>3
<1> QED
  BY <1>4 DEF p, q

LEMMA FloorNatural ==
  ASSUME NEW a \in Nat, NEW b \in Nat \ {0}
  PROVE  a \div b \in Nat
<1>1. 0 \div b = 0
  BY DivUnique
<1> QED
  BY <1>1, FloorGrows, DivBounds

-----------------------------------------------------------------------------
(* The world.                                                              *)
LEMMA MissionFacts ==
  ASSUME mission \in Missions
  PROVE  /\ mission.speed \in Nat \ {0} /\ mission.cost \in Nat
         /\ mission.initial \in Nat \ {0}
         /\ \A e \in Edges : mission.terrain[e] \in Nat
         /\ \A i \in 0..Columns : mission.upTo[i] \in Nat
         /\ \A e \in Edges :
              mission.upTo[e + 1] - mission.upTo[e] = MotionEnergy(Cell, mission.terrain[e])
         /\ \A c \in Chargers : mission.chargers[c] \in Charger
         /\ \A h \in mission.home : h \in Resort
         /\ \A t \in Tasks : mission.tasks[t] \in Task
         /\ 0 \notin Tasks /\ 0 \notin Chargers
<1>1. WellFormed(mission)
  BY MissionsAssumption
<1>2. \A e \in Edges :
        mission.upTo[e + 1] - mission.upTo[e] = MotionEnergy(Cell, mission.terrain[e])
  <2> DEFINE Leg(n) == (((Cell * mission.cost) \div 1000) * n) \div 1000
  <2>1. \A e \in Edges : mission.upTo[e + 1] - mission.upTo[e] = Leg(mission.terrain[e])
    BY <1>1, Zenon DEF WellFormed
  <2>2. \A n : MotionEnergy(Cell, n) = Leg(n)
    BY Zenon DEF MotionEnergy
  <2> HIDE DEF Leg
  <2> QED
    BY <2>1, <2>2
<1>3. /\ mission.speed \in Nat \ {0} /\ mission.cost \in Nat
      /\ mission.initial \in Nat \ {0}
      /\ mission.terrain \in [Edges -> Nat]
      /\ mission.upTo \in [0..Columns -> Nat]
      /\ mission.chargers \in [Chargers -> Charger] /\ Chargers \subseteq Nat \ {0}
      /\ mission.home \subseteq Resort
      /\ mission.tasks \in [Tasks -> Task] /\ Tasks \subseteq Nat \ {0}
  BY <1>1, Zenon DEF WellFormed, Tasks, Chargers
<1> QED
  BY <1>2, <1>3

(* Ticks of a way.                                                         *)
Pace == (speed * Step) \div 1000

LEMMA RateIsPositive ==
  ASSUME speed \in Nat \ {0}
  PROVE  speed * Step \in Nat \ {0}
<1>1. Step \in Nat \ {0}
  BY WorldAssumption
<1>2. 1 * Step <= speed * Step
  BY <1>1, TimesGrows
<1> QED
  BY <1>1, <1>2

LEMMA TicksFacts ==
  ASSUME speed \in Nat \ {0}, NEW d \in Nat
  PROVE  Ticks(d) \in Nat /\ (d = 0 => Ticks(d) = 0) /\ (d # 0 => Ticks(d) >= 1)
<1>1. d * 1000 \in Nat /\ (d = 0 => d * 1000 = 0) /\ (d # 0 => d * 1000 > 0)
  OBVIOUS
<1>2. speed * Step \in Nat \ {0}
  BY RateIsPositive
<1>3. Ticks(d) \in Nat /\ d * 1000 <= Ticks(d) * (speed * Step)
  <2> DEFINE a == d * 1000
             r == speed * Step
  <2>1. Ticks(d) = CeilDiv(a, r)
    BY DEF Ticks
  <2>2. a \in Nat /\ r \in Nat \ {0}
    BY <1>1, <1>2
  <2> HIDE DEF a, r
  <2>3. CeilDiv(a, r) \in Nat /\ a <= CeilDiv(a, r) * r
    BY <2>2, CeilBounds
  <2> QED
    BY <2>1, <2>3 DEF a, r
<1>4. d = 0 => Ticks(d) = 0
  BY <1>1, <1>2, CeilOfNothing DEF Ticks
<1>5. d # 0 => Ticks(d) # 0
  <2>1. Ticks(d) = 0 => Ticks(d) * (speed * Step) = 0
    BY <1>2
  <2> QED
    BY <1>1, <1>3, <2>1
<1> QED
  BY <1>3, <1>4, <1>5

LEMMA TicksGrow ==
  ASSUME speed \in Nat \ {0}, NEW d \in Nat, NEW e \in Nat, d <= e
  PROVE  Ticks(d) <= Ticks(e)
<1>1. d * 1000 \in Nat /\ e * 1000 \in Nat /\ d * 1000 <= e * 1000
  OBVIOUS
<1> QED
  BY <1>1, RateIsPositive, CeilGrows DEF Ticks

(* At an exact speed a tick's way is Pace, and takes a tick.               *)
LEMMA PaceFacts ==
  ASSUME speed \in Nat \ {0}, Exact
  PROVE  Pace \in Nat \ {0} /\ speed * Step = Pace * 1000
<1>1. speed * Step \in Nat \ {0}
  BY RateIsPositive
<1> DEFINE r == speed * Step
<1>2. r \in Nat \ {0} /\ r % 1000 = 0
  BY <1>1 DEF Exact
<1> HIDE DEF r
<1>3. r \div 1000 \in Nat \ {0} /\ r = (r \div 1000) * 1000
  BY <1>2
<1> QED
  BY <1>3 DEF Pace, r

LEMMA OneTick ==
  ASSUME speed \in Nat \ {0}, Exact, NEW d \in Nat, 0 < d, d <= Pace
  PROVE  Ticks(d) = 1
<1>1. Pace \in Nat \ {0} /\ speed * Step = Pace * 1000 /\ speed * Step \in Nat \ {0}
  BY PaceFacts, RateIsPositive
<1>2. d * 1000 \in Nat /\ 0 < d * 1000 /\ d * 1000 <= speed * Step
  BY <1>1
<1> QED
  BY <1>1, <1>2, CeilOfOne DEF Ticks

LEMMA TickLess ==
  ASSUME speed \in Nat \ {0}, Exact, NEW d \in Nat, Pace <= d
  PROVE  Ticks(d - Pace) = Ticks(d) - 1
<1>1. Pace \in Nat \ {0} /\ speed * Step = Pace * 1000 /\ speed * Step \in Nat \ {0}
  BY PaceFacts, RateIsPositive
<1>2. d * 1000 \in Nat /\ speed * Step <= d * 1000
  BY <1>1
<1>3. (d - Pace) * 1000 = d * 1000 - speed * Step
  BY <1>1
<1> QED
  BY <1>1, <1>2, <1>3, CeilLessOne DEF Ticks

(* Energy of a way, and of its parts.                                      *)
LEMMA EnergyNatural ==
  ASSUME mission.cost \in Nat, NEW d \in Nat, NEW m \in Nat
  PROVE  MotionEnergy(d, m) \in Nat
<1>1. d * mission.cost \in Nat
  OBVIOUS
<1> DEFINE b == (d * mission.cost) \div 1000
<1>2. b \in Nat
  BY <1>1, FloorNatural
<1> HIDE DEF b
<1>3. b * m \in Nat
  BY <1>2
<1>4. (b * m) \div 1000 \in Nat
  BY <1>3, FloorNatural
<1> QED
  BY <1>4 DEF MotionEnergy, b

LEMMA EnergyOfParts ==
  ASSUME mission.cost \in Nat, NEW d \in Nat, NEW e \in Nat, NEW m \in Nat
  PROVE  MotionEnergy(d, m) + MotionEnergy(e, m) <= MotionEnergy(d + e, m)
<1> DEFINE pd == d * mission.cost
           pe == e * mission.cost
           ps == (d + e) * mission.cost
           bd == pd \div 1000
           be == pe \div 1000
           bs == ps \div 1000
           wd == bd * m
           we == be * m
           ws == bs * m
<1>1. pd \in Nat /\ pe \in Nat /\ ps = pd + pe
  OBVIOUS
<1> HIDE DEF pd, pe, ps
<1>2. bd \in Nat /\ be \in Nat /\ bs \in Nat
  BY <1>1, FloorNatural
<1>3. bd + be <= bs
  BY <1>1, FloorOfSum
<1> HIDE DEF bd, be, bs
<1>4. (bd + be) * m = wd + we /\ (bd + be) * m <= ws
  BY <1>2, <1>3, TimesGrows
<1>5. wd \in Nat /\ we \in Nat /\ ws \in Nat
  BY <1>2
<1> HIDE DEF wd, we, ws
<1>6. wd + we <= ws
  BY <1>4, <1>5
<1>7. wd \div 1000 + we \div 1000 <= (wd + we) \div 1000
  BY <1>5, FloorOfSum
<1>8. (wd + we) \div 1000 <= ws \div 1000
  BY <1>5, <1>6, FloorGrows
<1>9. /\ wd \div 1000 \in Int /\ we \div 1000 \in Int
      /\ (wd + we) \div 1000 \in Int /\ ws \div 1000 \in Int
  BY <1>5, DivBounds
<1>10. wd \div 1000 + we \div 1000 <= ws \div 1000
  BY <1>7, <1>8, <1>9
<1> QED
  BY <1>10 DEF MotionEnergy, pd, pe, ps, bd, be, bs, wd, we, ws

-----------------------------------------------------------------------------
(* The corridor.  From p to a grid point on the right the next grid point  *)
(* is the end of the edge k that p is on or at the start of; to the left   *)
(* it is the start of the edge that p is on or at the end of.              *)
LEMMA CellsGrow ==
  ASSUME NEW i \in Int, NEW j \in Int, i <= j
  PROVE  /\ i * Cell \in Int /\ j * Cell \in Int /\ i * Cell <= j * Cell
         /\ (i + 1) * Cell = i * Cell + Cell
BY TimesGrows, WorldAssumption

LEMMA CellsGrowStrictly ==
  ASSUME NEW i \in Int, NEW j \in Int, i * Cell < j * Cell
  PROVE  i < j
<1>1. CASE j <= i
  BY <1>1, CellsGrow
<1> QED
  BY <1>1

LEMMA DistanceOfPoints ==
  ASSUME NEW i \in Int, NEW j \in Int
  PROVE  /\ Distance(i * Cell, j * Cell) \div Cell = Distance(i, j)
         /\ (i * Cell) \div Cell = i
<1>1. Cell \in Nat \ {0}
  BY WorldAssumption
<1>2. (i * Cell) \div Cell = i
  BY <1>1, DivOfMultiple
<1>3. CASE i <= j
  <2>1. i * Cell <= j * Cell /\ j * Cell - i * Cell = (j - i) * Cell
    BY <1>1, <1>3, CellsGrow
  <2>2. ((j - i) * Cell) \div Cell = j - i
    BY <1>1, DivOfMultiple
  <2> QED
    BY <1>2, <1>3, <2>1, <2>2 DEF Distance
<1>4. CASE ~(i <= j)
  <2>1. i * Cell - j * Cell = (i - j) * Cell
    BY <1>1
  <2>2. ~(i * Cell <= j * Cell)
    <3>1. (j + 1) * Cell <= i * Cell /\ (j + 1) * Cell = j * Cell + Cell /\ j * Cell \in Int
      BY <1>4, CellsGrow
    <3> QED
      BY <1>1, <3>1
  <2>3. ((i - j) * Cell) \div Cell = i - j
    BY <1>1, DivOfMultiple
  <2> QED
    BY <1>2, <1>4, <2>1, <2>2, <2>3 DEF Distance
<1> QED
  BY <1>3, <1>4

LEMMA EdgeOnTheRight ==
  ASSUME NEW p \in Nat, NEW j \in 0..Columns, p < j * Cell
  PROVE  \E k \in Edges : k * Cell <= p /\ p < (k + 1) * Cell /\ k + 1 <= j
<1> DEFINE k == p \div Cell
<1>1. Cell \in Nat \ {0} /\ Columns \in Nat /\ j \in Int
  BY WorldAssumption
<1>2. k \in Nat /\ k * Cell <= p /\ p < k * Cell + Cell
  BY <1>1, DivBounds, FloorNatural
<1>3. (k + 1) * Cell = k * Cell + Cell /\ k * Cell \in Int
  BY <1>1, <1>2
<1>4. k < j
  <2> HIDE DEF k
  <2> QED
    BY <1>1, <1>2, <1>3, CellsGrowStrictly
<1>5. k \in Edges
  BY <1>1, <1>2, <1>4 DEF Edges
<1> QED
  BY <1>1, <1>2, <1>3, <1>4, <1>5

LEMMA EdgeOnTheLeft ==
  ASSUME NEW p \in 0..(Columns * Cell), NEW j \in 0..Columns, j * Cell < p
  PROVE  \E k \in Edges : k * Cell < p /\ p <= (k + 1) * Cell /\ j <= k
<1> DEFINE k == (p - 1) \div Cell
<1>1. Cell \in Nat \ {0} /\ Columns \in Nat \ {0} /\ j \in Nat
  BY WorldAssumption
<1>2. j * Cell \in Nat /\ Columns * Cell \in Int
  BY <1>1
<1>3. p - 1 \in Nat /\ p \in Int /\ p <= Columns * Cell
  BY <1>2
<1>4. k \in Nat /\ k * Cell <= p - 1 /\ p - 1 < k * Cell + Cell
  BY <1>1, <1>3, DivBounds, FloorNatural
<1>5. (k + 1) * Cell = k * Cell + Cell /\ k * Cell \in Int
  BY <1>1, <1>4
<1>6. j < k + 1 /\ k < Columns
  <2> HIDE DEF k
  <2>1. j * Cell < (k + 1) * Cell /\ k * Cell < Columns * Cell
    BY <1>1, <1>2, <1>3, <1>4, <1>5
  <2> QED
    BY <1>1, <1>4, <2>1, CellsGrowStrictly
<1>7. k \in Edges
  BY <1>1, <1>4, <1>6 DEF Edges
<1> HIDE DEF k
<1>8. k * Cell < p /\ p <= (k + 1) * Cell /\ j <= k
  BY <1>1, <1>3, <1>4, <1>5, <1>6
<1> QED
  BY <1>7, <1>8

LEMMA RunningEnergyGrows ==
  ASSUME mission \in Missions, NEW i \in 0..Columns, NEW j \in i..Columns
  PROVE  mission.upTo[i] <= mission.upTo[j]
<1> DEFINE u == mission.upTo
           S == {m \in Nat : u[i] <= u[m]}
<1>1. Columns \in Nat /\ i \in Nat /\ i \in 0..Columns /\ j \in i..Columns /\ Cell \in Nat
  BY WorldAssumption
<1>2. \A m \in 0..Columns : u[m] \in Nat
  BY MissionFacts
<1>3. \A e \in Edges : u[e + 1] - u[e] \in Nat
  BY <1>1, MissionFacts, EnergyNatural
<1> HIDE DEF u
<1>4. i \in S
  BY <1>1, <1>2
<1>5. \A m \in i..(Columns - 1) : m \in S => m + 1 \in S
  <2> SUFFICES ASSUME NEW m \in i..(Columns - 1), m \in S PROVE m + 1 \in S
    OBVIOUS
  <2>1. m \in Edges /\ m \in 0..Columns /\ m + 1 \in 0..Columns /\ m + 1 \in Nat
    BY <1>1 DEF Edges
  <2>2. u[m + 1] - u[m] \in Nat /\ u[m + 1] \in Nat /\ u[m] \in Nat /\ u[i] \in Nat /\ u[i] <= u[m]
    BY <1>2, <1>3, <2>1
  <2> QED
    BY <2>1, <2>2
<1>6. i..Columns \subseteq S
  <2> HIDE DEF S
  <2> QED
    BY <1>1, <1>4, <1>5, InductionUpTo
<1> QED
  BY <1>1, <1>6 DEF u

-----------------------------------------------------------------------------
(* A way that begins on edge k (or at its near end) and goes right: the    *)
(* rest of the edge, then whole edges.                                     *)
LEMMA WayRight ==
  ASSUME NEW k \in Edges, NEW j \in 0..Columns, NEW p \in Nat,
         k * Cell <= p, p < (k + 1) * Cell, k + 1 <= j
  PROVE  /\ Waypoint(p, Places(j)) = Places(k + 1)
         /\ RouteTicks(p, Places(j))
              = Ticks(Places(k + 1) - p) + (j - (k + 1)) * Ticks(Cell)
         /\ RouteEnergy(p, Places(j))
              = LegEnergy(p, Places(k + 1)) + Distance(mission.upTo[k + 1], mission.upTo[j])
<1>1. Cell \in Nat \ {0} /\ k \in Nat /\ j \in Nat /\ k + 1 \in Int
  BY WorldAssumption DEF Edges
<1>2. /\ (k + 1) * Cell = k * Cell + Cell /\ k * Cell \in Nat
      /\ (k + 1) * Cell <= j * Cell /\ j * Cell \in Int /\ (k + 1) * Cell \in Int
  BY <1>1, CellsGrow
<1>3. p \div Cell = k
  BY <1>1, <1>2, DivUnique
<1>4. p < j * Cell
  BY <1>2
<1>5. Waypoint(p, j * Cell) = (k + 1) * Cell
  BY <1>3, <1>4 DEF Waypoint
<1>6. Distance((k + 1) * Cell, j * Cell) \div Cell = j - (k + 1)
  <2>1. Distance(k + 1, j) = j - (k + 1)
    BY <1>1 DEF Distance
  <2> QED
    BY <1>1, <2>1, DistanceOfPoints
<1>7. ((k + 1) * Cell) \div Cell = k + 1 /\ (j * Cell) \div Cell = j
  BY <1>1, DistanceOfPoints
<1>8. Distance(p, (k + 1) * Cell) = (k + 1) * Cell - p
  BY <1>2 DEF Distance
<1> QED
  BY <1>5, <1>6, <1>7, <1>8, Zenon DEF RouteTicks, RouteEnergy, Places

LEMMA WayLeft ==
  ASSUME NEW k \in Edges, NEW j \in 0..Columns, NEW p \in Nat,
         k * Cell < p, p <= (k + 1) * Cell, j <= k
  PROVE  /\ Waypoint(p, Places(j)) = Places(k)
         /\ RouteTicks(p, Places(j)) = Ticks(p - Places(k)) + (k - j) * Ticks(Cell)
         /\ RouteEnergy(p, Places(j))
              = LegEnergy(p, Places(k)) + Distance(mission.upTo[k], mission.upTo[j])
<1>1. Cell \in Nat \ {0} /\ k \in Nat /\ j \in Nat
  BY WorldAssumption DEF Edges
<1>2. /\ (k + 1) * Cell = k * Cell + Cell /\ k * Cell \in Nat
      /\ j * Cell <= k * Cell /\ j * Cell \in Int
  BY <1>1, CellsGrow
<1>3. (p - 1) \div Cell = k
  BY <1>1, <1>2, DivUnique
<1>4. p > j * Cell /\ ~(p < j * Cell)
  BY <1>2
<1>5. Waypoint(p, j * Cell) = k * Cell
  BY <1>3, <1>4 DEF Waypoint
<1>6. Distance(k * Cell, j * Cell) \div Cell = k - j
  <2>1. Distance(k, j) = k - j
    BY <1>1 DEF Distance
  <2> QED
    BY <1>1, <2>1, DistanceOfPoints
<1>7. (k * Cell) \div Cell = k /\ (j * Cell) \div Cell = j
  BY <1>1, DistanceOfPoints
<1>8. Distance(p, k * Cell) = p - k * Cell
  BY <1>2 DEF Distance
<1> QED
  BY <1>5, <1>6, <1>7, <1>8, Zenon DEF RouteTicks, RouteEnergy, Places

LEMMA WayThere ==
  ASSUME mission \in Missions, speed \in Nat \ {0}, NEW j \in 0..Columns
  PROVE  /\ Waypoint(Places(j), Places(j)) = Places(j)
         /\ RouteTicks(Places(j), Places(j)) = 0
         /\ RouteEnergy(Places(j), Places(j)) = 0
<1>1. Cell \in Nat \ {0} /\ j \in Nat /\ j * Cell \in Nat
  BY WorldAssumption
<1>2. Waypoint(j * Cell, j * Cell) = j * Cell
  BY <1>1 DEF Waypoint
<1>3. Distance(j * Cell, j * Cell) = 0 /\ 0 \div Cell = 0
  BY <1>1, DivUnique DEF Distance
<1>4. Ticks(0) = 0 /\ 0 * Ticks(Cell) = 0
  BY <1>1, TicksFacts
<1>5. mission.upTo[j] \in Nat
  BY MissionFacts
<1>6. LegEnergy(j * Cell, j * Cell) = 0
  BY DEF LegEnergy
<1>7. Distance(mission.upTo[j], mission.upTo[j]) = 0
  BY <1>5 DEF Distance
<1>8. (j * Cell) \div Cell = j
  BY <1>1, DistanceOfPoints
<1>9. RouteTicks(j * Cell, j * Cell) = 0 + 0
  BY <1>2, <1>3, <1>4, Zenon DEF RouteTicks
<1>10. RouteEnergy(j * Cell, j * Cell) = 0 + 0
  BY <1>2, <1>6, <1>7, <1>8, Zenon DEF RouteEnergy
<1> QED
  BY <1>2, <1>9, <1>10 DEF Places

(* The energy of a way within edge k.                                      *)
LEMMA WithinAnEdge ==
  ASSUME mission \in Missions, NEW k \in Edges, NEW p \in Nat, NEW q \in Nat,
         k * Cell <= p, p <= (k + 1) * Cell, k * Cell <= q, q <= (k + 1) * Cell
  PROVE  LegEnergy(p, q) = MotionEnergy(Distance(p, q), mission.terrain[k])
<1>1. Cell \in Nat \ {0} /\ k \in Nat
  BY WorldAssumption DEF Edges
<1>2. (k + 1) * Cell = k * Cell + Cell /\ k * Cell \in Nat
  BY <1>1
<1>3. CASE p = q
  <2>1. MotionEnergy(0, mission.terrain[k]) = 0
    <3>1. mission.cost \in Nat /\ mission.terrain[k] \in Nat
      BY MissionFacts
    <3>2. 0 * mission.cost = 0 /\ 0 * mission.terrain[k] = 0 /\ 0 \div 1000 = 0
      BY <3>1
    <3> QED
      BY <3>2 DEF MotionEnergy
  <2>2. Distance(p, q) = 0
    BY <1>3 DEF Distance
  <2> QED
    BY <1>3, <2>1, <2>2 DEF LegEnergy
<1>4. CASE p # q
  <2>1. Least(p, q) \in Nat /\ k * Cell <= Least(p, q) /\ Least(p, q) < k * Cell + Cell
    <3> DEFINE s == k * Cell
    <3>1. s \in Nat /\ s <= p /\ s <= q /\ p <= s + Cell /\ q <= s + Cell
      BY <1>2
    <3> HIDE DEF s
    <3>2. Least(p, q) \in Nat /\ s <= Least(p, q) /\ Least(p, q) < s + Cell
      BY <1>1, <1>4, <3>1 DEF Least
    <3> QED
      BY <3>2 DEF s
  <2>2. Least(p, q) \div Cell = k
    BY <1>1, <1>2, <2>1, DivUnique
  <2> QED
    BY <1>4, <2>2 DEF LegEnergy
<1> QED
  BY <1>3, <1>4

LEMMA EdgeFacts ==
  ASSUME NEW k \in Edges
  PROVE  /\ Places(k) \in Nat /\ Places(k + 1) \in Nat /\ Places(k + 1) = Places(k) + Cell
         /\ Places(k + 1) <= Columns * Cell /\ Columns * Cell \in Nat
         /\ k \in Nat /\ k \in 0..Columns /\ k + 1 \in 0..Columns /\ Cell \in Nat \ {0}
<1>1. Cell \in Nat \ {0} /\ k \in Nat /\ k + 1 <= Columns /\ Columns \in Nat
  BY WorldAssumption DEF Edges
<1>2. k * Cell \in Nat /\ (k + 1) * Cell = k * Cell + Cell /\ Columns * Cell \in Nat
  BY <1>1
<1>3. (k + 1) * Cell <= Columns * Cell
  BY <1>1, CellsGrow
<1> QED
  BY <1>1, <1>2, <1>3 DEF Places

(* The same for every point of the edge, its far end included.             *)
LEMMA EdgeRight ==
  ASSUME mission \in Missions, speed \in Nat \ {0},
         NEW k \in Edges, NEW j \in 0..Columns, k + 1 <= j,
         NEW y \in Places(k)..Places(k + 1)
  PROVE  /\ RouteTicks(y, Places(j))
              = Ticks(Places(k + 1) - y) + (j - (k + 1)) * Ticks(Cell)
         /\ RouteEnergy(y, Places(j))
              = MotionEnergy(Places(k + 1) - y, mission.terrain[k])
                  + Distance(mission.upTo[k + 1], mission.upTo[j])
<1>1. /\ Places(k) \in Nat /\ Places(k + 1) \in Nat /\ Places(k + 1) = Places(k) + Cell
      /\ k \in Nat /\ k + 1 \in 0..Columns /\ Cell \in Nat \ {0} /\ j \in Nat /\ Columns \in Nat
  BY EdgeFacts, WorldAssumption
<1>2. CASE y < Places(k + 1)
  <2>1. y \in Nat /\ Places(k) <= y
    BY <1>1
  <2>2. /\ RouteTicks(y, Places(j))
             = Ticks(Places(k + 1) - y) + (j - (k + 1)) * Ticks(Cell)
        /\ RouteEnergy(y, Places(j))
             = LegEnergy(y, Places(k + 1)) + Distance(mission.upTo[k + 1], mission.upTo[j])
    BY <1>2, <2>1, WayRight DEF Places
  <2>3. LegEnergy(y, Places(k + 1)) = MotionEnergy(Distance(y, Places(k + 1)), mission.terrain[k])
    BY <1>1, <1>2, <2>1, WithinAnEdge DEF Places
  <2>4. Distance(y, Places(k + 1)) = Places(k + 1) - y
    BY <1>1, <1>2, <2>1 DEF Distance
  <2> QED
    BY <2>2, <2>3, <2>4, Zenon
<1>3. CASE y = Places(k + 1)
  <2>1. Places(k + 1) - y = 0 /\ Ticks(0) = 0 /\ Ticks(Cell) \in Nat
    BY <1>1, <1>3, TicksFacts
  <2>2. MotionEnergy(0, mission.terrain[k]) = 0
    <3>1. LegEnergy(y, y) = 0
      BY DEF LegEnergy
    <3>2. y \in Nat /\ Places(k) <= y /\ y <= Places(k + 1) /\ Distance(y, y) = 0
      BY <1>1, <1>3 DEF Distance
    <3>3. LegEnergy(y, y) = MotionEnergy(Distance(y, y), mission.terrain[k])
      BY <3>2, WithinAnEdge DEF Places
    <3> QED
      BY <3>1, <3>2, <3>3, Zenon
  <2>3. CASE k + 1 = j
    <3>1. RouteTicks(y, Places(j)) = 0 /\ RouteEnergy(y, Places(j)) = 0
      BY <1>3, <2>3, WayThere
    <3>2. Distance(mission.upTo[k + 1], mission.upTo[j]) = 0
      <4>1. mission.upTo[j] \in Nat
        BY MissionFacts
      <4> QED
        BY <2>3, <4>1 DEF Distance
    <3>3. (j - (k + 1)) * Ticks(Cell) = 0
      BY <1>1, <2>1, <2>3
    <3> QED
      BY <2>1, <2>2, <3>1, <3>2, <3>3
  <2>4. CASE k + 1 # j
    <3> DEFINE m == k + 1
    <3>1. m \in Edges /\ m + 1 <= j /\ m \in Nat /\ m + 1 \in 0..Columns
      BY <1>1, <2>4 DEF Edges
    <3>2. Places(m) \in Nat /\ Places(m + 1) = Places(m) + Cell /\ Places(m + 1) \in Nat
      BY <3>1, EdgeFacts
    <3>3. y = Places(m) /\ m + 1 - 1 = m
      BY <1>1, <1>3
    <3> HIDE DEF m
    <3>4. /\ RouteTicks(y, Places(j))
               = Ticks(Places(m + 1) - y) + (j - (m + 1)) * Ticks(Cell)
          /\ RouteEnergy(y, Places(j))
               = LegEnergy(y, Places(m + 1)) + Distance(mission.upTo[m + 1], mission.upTo[j])
      <4>1. y \in Nat /\ m * Cell <= y /\ y < (m + 1) * Cell
        BY <1>1, <3>2, <3>3 DEF Places
      <4> QED
        BY <3>1, <4>1, WayRight
    <3>5. LegEnergy(y, Places(m + 1)) = MotionEnergy(Distance(y, Places(m + 1)), mission.terrain[m])
      <4>1. y \in Nat /\ m * Cell <= y /\ y <= (m + 1) * Cell
        BY <1>1, <3>2, <3>3 DEF Places
      <4>2. /\ Places(m + 1) \in Nat
            /\ m * Cell <= Places(m + 1) /\ Places(m + 1) <= (m + 1) * Cell
        BY <1>1, <3>2, <3>3 DEF Places
      <4> QED
        BY <3>1, <4>1, <4>2, WithinAnEdge
    <3>6. Distance(y, Places(m + 1)) = Cell /\ Places(m + 1) - y = Cell
      BY <1>1, <3>2, <3>3 DEF Distance
    <3>7. mission.upTo[m + 1] - mission.upTo[m] = MotionEnergy(Cell, mission.terrain[m])
      BY <3>1, MissionFacts
    <3>8. /\ mission.upTo[m] <= mission.upTo[m + 1] /\ mission.upTo[m + 1] <= mission.upTo[j]
          /\ mission.upTo[m] \in Nat /\ mission.upTo[m + 1] \in Nat /\ mission.upTo[j] \in Nat
      <4>1. /\ mission.upTo[m] \in Nat /\ mission.upTo[m + 1] \in Nat /\ mission.upTo[j] \in Nat
            /\ m \in 0..Columns
        <5>1. m \in 0..Columns
          BY <1>1, <3>1
        <5> QED
          BY <3>1, <5>1, MissionFacts
      <4>2. m + 1 \in m..Columns /\ j \in (m + 1)..Columns
        BY <1>1, <3>1
      <4>3. mission.upTo[m] <= mission.upTo[m + 1]
        BY <4>1, <4>2, RunningEnergyGrows
      <4>4. mission.upTo[m + 1] <= mission.upTo[j]
        BY <3>1, <4>2, RunningEnergyGrows
      <4> QED
        BY <4>1, <4>3, <4>4
    <3>9. RouteEnergy(y, Places(j)) = Distance(mission.upTo[m], mission.upTo[j])
      <4> DEFINE a == mission.upTo[m]  b == mission.upTo[m + 1]  c == mission.upTo[j]
                 e == MotionEnergy(Cell, mission.terrain[m])
      <4>1. RouteEnergy(y, Places(j)) = e + Distance(b, c)
        BY <3>4, <3>5, <3>6, Zenon
      <4>2. b - a = e /\ a <= b /\ b <= c /\ a \in Nat /\ b \in Nat /\ c \in Nat
        BY <3>7, <3>8
      <4> HIDE DEF a, b, c, e
      <4>3. e + Distance(b, c) = Distance(a, c)
        BY <4>2 DEF Distance
      <4> QED
        BY <4>1, <4>3, Zenon DEF a, b, c
    <3>10. RouteTicks(y, Places(j)) = (j - m) * Ticks(Cell)
      <4> DEFINE c == Ticks(Cell)
      <4>1. c \in Nat /\ RouteTicks(y, Places(j)) = c + (j - (m + 1)) * c
        BY <2>1, <3>4, <3>6
      <4> HIDE DEF c
      <4>2. c + (j - (m + 1)) * c = (j - m) * c
        BY <1>1, <3>1, <4>1
      <4> QED
        BY <4>1, <4>2 DEF c
    <3>11. Distance(mission.upTo[m], mission.upTo[j]) \in Nat /\ (j - m) * Ticks(Cell) \in Int
      <4>1. (j - m) * Ticks(Cell) \in Int
        BY <1>1, <2>1, <3>1
      <4> QED
        BY <3>8, <4>1 DEF Distance
    <3>12. 0 + Distance(mission.upTo[m], mission.upTo[j]) = Distance(mission.upTo[m], mission.upTo[j])
           /\ 0 + (j - m) * Ticks(Cell) = (j - m) * Ticks(Cell)
      BY <3>11
    <3> QED
      BY <2>1, <2>2, <3>9, <3>10, <3>12, Zenon DEF m
  <2> QED
    BY <2>3, <2>4
<1> QED
  BY <1>1, <1>2, <1>3

LEMMA EdgeLeft ==
  ASSUME mission \in Missions, speed \in Nat \ {0},
         NEW k \in Edges, NEW j \in 0..Columns, j <= k,
         NEW y \in Places(k)..Places(k + 1)
  PROVE  /\ RouteTicks(y, Places(j)) = Ticks(y - Places(k)) + (k - j) * Ticks(Cell)
         /\ RouteEnergy(y, Places(j))
              = MotionEnergy(y - Places(k), mission.terrain[k])
                  + Distance(mission.upTo[k], mission.upTo[j])
<1>1. /\ Places(k) \in Nat /\ Places(k + 1) \in Nat /\ Places(k + 1) = Places(k) + Cell
      /\ k \in Nat /\ k \in 0..Columns /\ Cell \in Nat \ {0} /\ j \in Nat /\ Columns \in Nat
  BY EdgeFacts, WorldAssumption
<1>2. CASE Places(k) < y
  <2>1. y \in Nat /\ y <= Places(k + 1)
    BY <1>1
  <2>2. /\ RouteTicks(y, Places(j)) = Ticks(y - Places(k)) + (k - j) * Ticks(Cell)
        /\ RouteEnergy(y, Places(j))
             = LegEnergy(y, Places(k)) + Distance(mission.upTo[k], mission.upTo[j])
    BY <1>2, <2>1, WayLeft DEF Places
  <2>3. LegEnergy(y, Places(k)) = MotionEnergy(Distance(y, Places(k)), mission.terrain[k])
    BY <1>1, <1>2, <2>1, WithinAnEdge DEF Places
  <2>4. Distance(y, Places(k)) = y - Places(k)
    BY <1>1, <1>2, <2>1 DEF Distance
  <2> QED
    BY <2>2, <2>3, <2>4, Zenon
<1>3. CASE y = Places(k)
  <2>1. y - Places(k) = 0 /\ Ticks(0) = 0 /\ Ticks(Cell) \in Nat
    BY <1>1, <1>3, TicksFacts
  <2>2. MotionEnergy(0, mission.terrain[k]) = 0
    <3>1. LegEnergy(y, y) = 0
      BY DEF LegEnergy
    <3>2. y \in Nat /\ Places(k) <= y /\ y <= Places(k + 1) /\ Distance(y, y) = 0
      BY <1>1, <1>3 DEF Distance
    <3>3. LegEnergy(y, y) = MotionEnergy(Distance(y, y), mission.terrain[k])
      BY <3>2, WithinAnEdge DEF Places
    <3> QED
      BY <3>1, <3>2, <3>3, Zenon
  <2>3. CASE k = j
    <3>1. RouteTicks(y, Places(j)) = 0 /\ RouteEnergy(y, Places(j)) = 0
      BY <1>3, <2>3, WayThere
    <3>2. Distance(mission.upTo[k], mission.upTo[j]) = 0
      <4>1. mission.upTo[j] \in Nat
        BY MissionFacts
      <4> QED
        BY <2>3, <4>1 DEF Distance
    <3>3. (k - j) * Ticks(Cell) = 0
      BY <1>1, <2>1, <2>3
    <3> QED
      BY <2>1, <2>2, <3>1, <3>2, <3>3
  <2>4. CASE k # j
    <3> DEFINE m == k - 1
    <3>1. m \in Edges /\ j <= m /\ m \in Nat /\ m + 1 = k /\ m \in 0..Columns
      BY <1>1, <2>4 DEF Edges
    <3> HIDE DEF m
    <3>2. Places(m) \in Nat /\ Places(k) = Places(m) + Cell
      BY <3>1, EdgeFacts
    <3>4. /\ RouteTicks(y, Places(j)) = Ticks(y - Places(m)) + (m - j) * Ticks(Cell)
          /\ RouteEnergy(y, Places(j))
               = LegEnergy(y, Places(m)) + Distance(mission.upTo[m], mission.upTo[j])
      <4>1. y \in Nat /\ m * Cell < y /\ y <= (m + 1) * Cell
        BY <1>1, <1>3, <3>1, <3>2 DEF Places
      <4> QED
        BY <3>1, <4>1, WayLeft
    <3>5. LegEnergy(y, Places(m)) = MotionEnergy(Distance(y, Places(m)), mission.terrain[m])
      <4>1. y \in Nat /\ m * Cell <= y /\ y <= (m + 1) * Cell
        BY <1>1, <1>3, <3>1, <3>2 DEF Places
      <4>2. m * Cell <= Places(m) /\ Places(m) <= (m + 1) * Cell
        BY <1>1, <1>3, <3>1, <3>2 DEF Places
      <4> QED
        BY <3>1, <3>2, <4>1, <4>2, WithinAnEdge
    <3>6. Distance(y, Places(m)) = Cell /\ y - Places(m) = Cell
      BY <1>1, <1>3, <3>2 DEF Distance
    <3>7. mission.upTo[m + 1] - mission.upTo[m] = MotionEnergy(Cell, mission.terrain[m])
      BY <3>1, MissionFacts
    <3>8. /\ mission.upTo[m] <= mission.upTo[k] /\ mission.upTo[j] <= mission.upTo[m]
          /\ mission.upTo[m] \in Nat /\ mission.upTo[k] \in Nat /\ mission.upTo[j] \in Nat
      <4>1. mission.upTo[m] \in Nat /\ mission.upTo[k] \in Nat /\ mission.upTo[j] \in Nat
        BY <1>1, <3>1, MissionFacts
      <4>2. k \in m..Columns /\ m \in j..Columns
        BY <1>1, <3>1
      <4>3. mission.upTo[m] <= mission.upTo[k]
        BY <3>1, <4>2, RunningEnergyGrows
      <4>4. mission.upTo[j] <= mission.upTo[m]
        BY <4>2, RunningEnergyGrows
      <4> QED
        BY <4>1, <4>3, <4>4
    <3>9. RouteEnergy(y, Places(j)) = Distance(mission.upTo[k], mission.upTo[j])
      <4> DEFINE a == mission.upTo[j]  b == mission.upTo[m]  c == mission.upTo[k]
                 e == MotionEnergy(Cell, mission.terrain[m])
      <4>1. RouteEnergy(y, Places(j)) = e + Distance(b, a)
        BY <3>4, <3>5, <3>6, Zenon
      <4>2. c - b = e /\ a <= b /\ b <= c /\ a \in Nat /\ b \in Nat /\ c \in Nat
        BY <3>1, <3>7, <3>8
      <4> HIDE DEF a, b, c, e
      <4>3. e + Distance(b, a) = Distance(c, a)
        BY <4>2 DEF Distance
      <4> QED
        BY <4>1, <4>3, Zenon DEF a, b, c
    <3>10. RouteTicks(y, Places(j)) = (k - j) * Ticks(Cell)
      <4> DEFINE c == Ticks(Cell)
      <4>1. c \in Nat /\ RouteTicks(y, Places(j)) = c + (m - j) * c
        BY <2>1, <3>4, <3>6
      <4> HIDE DEF c
      <4>2. c + (m - j) * c = (k - j) * c
        BY <1>1, <3>1, <4>1
      <4> QED
        BY <4>1, <4>2 DEF c
    <3>11. Distance(mission.upTo[k], mission.upTo[j]) \in Nat /\ (k - j) * Ticks(Cell) \in Int
      <4>1. (k - j) * Ticks(Cell) \in Int
        BY <1>1, <2>1
      <4> QED
        BY <3>8, <4>1 DEF Distance
    <3>12. 0 + Distance(mission.upTo[k], mission.upTo[j]) = Distance(mission.upTo[k], mission.upTo[j])
           /\ 0 + (k - j) * Ticks(Cell) = (k - j) * Ticks(Cell)
      BY <3>11
    <3> QED
      BY <2>1, <2>2, <3>9, <3>10, <3>12, Zenon
  <2> QED
    BY <2>3, <2>4
<1> QED
  BY <1>1, <1>2, <1>3

(* From p on to q: the edge k that p is on, the next point w, and what the *)
(* route costs from every point up to there: the rest of the edge, then n  *)
(* whole edges, which take the energy f.                                   *)
Between(p, q) == Least(p, q)..Most(p, q)

OnTheWay(p, q, k, w, n, f) ==
  /\ k \in Edges /\ n \in Nat /\ f \in Nat
  /\ w = Waypoint(p, q) /\ w # p
  /\ p \in Places(k)..Places(k + 1) /\ w \in Places(k)..Places(k + 1)
  /\ (p < q /\ p < w /\ w <= q) \/ (q < p /\ w < p /\ q <= w)
  /\ \A y \in Between(p, w) :
       /\ RouteTicks(y, q) = Ticks(Distance(y, w)) + n * Ticks(Cell)
       /\ RouteEnergy(y, q) = MotionEnergy(Distance(y, w), mission.terrain[k]) + f

Grid == {Places(i) : i \in 0..Columns}

LEMMA GridFacts ==
  ASSUME NEW q \in Grid
  PROVE  q \in Nat /\ q \in 0..(Columns * Cell) /\ \E j \in 0..Columns : q = Places(j)
<1>1. PICK j \in 0..Columns : q = j * Cell
  BY DEF Grid, Places
<1>2. Cell \in Nat /\ Columns \in Nat /\ j \in Nat /\ j <= Columns
  BY WorldAssumption
<1>3. j * Cell \in Nat /\ Columns * Cell \in Nat /\ j * Cell <= Columns * Cell
  BY <1>2, CellsGrow
<1> QED
  BY <1>1, <1>3 DEF Places

LEMMA TheWay ==
  ASSUME mission \in Missions, speed \in Nat \ {0},
         NEW p \in 0..(Columns * Cell), NEW q \in Grid, p # q
  PROVE  \E k, w, n, f : OnTheWay(p, q, k, w, n, f)
<1>1. PICK j \in 0..Columns : q = Places(j)
  BY GridFacts
<1>2. q \in Nat /\ p \in Nat /\ Columns * Cell \in Nat /\ j \in Nat /\ Columns \in Nat
  <2>1. Columns \in Nat /\ Cell \in Nat
    BY WorldAssumption
  <2>2. Columns * Cell \in Nat
    BY <2>1
  <2> QED
    BY <2>1, <2>2, GridFacts
<1>3. CASE p < q
  <2>1. PICK k \in Edges : k * Cell <= p /\ p < (k + 1) * Cell /\ k + 1 <= j
    BY <1>1, <1>2, <1>3, EdgeOnTheRight DEF Places
  <2> DEFINE w == Places(k + 1)
             n == j - (k + 1)
             f == Distance(mission.upTo[k + 1], mission.upTo[j])
  <2>2. /\ Places(k) \in Nat /\ w \in Nat /\ k \in Nat /\ k + 1 \in 0..Columns
        /\ Places(k) <= p /\ p < w /\ Places(k) <= w
    BY <1>2, <2>1, EdgeFacts DEF Places
  <2>3. w = Waypoint(p, q)
    BY <1>1, <1>2, <2>1, WayRight DEF Places
  <2>4. n \in Nat /\ f \in Nat
    <3>1. mission.upTo[k + 1] \in Nat /\ mission.upTo[j] \in Nat
      BY <2>2, MissionFacts
    <3> QED
      BY <1>2, <2>1, <2>2, <3>1 DEF Distance
  <2>5. w <= q
    BY <1>1, <1>2, <2>1, <2>2, CellsGrow DEF Places
  <2>6. ASSUME NEW y \in Between(p, w)
        PROVE  /\ RouteTicks(y, q) = Ticks(Distance(y, w)) + n * Ticks(Cell)
               /\ RouteEnergy(y, q) = MotionEnergy(Distance(y, w), mission.terrain[k]) + f
    <3>1. y \in Places(k)..w /\ Distance(y, w) = w - y
      BY <1>2, <2>2, <2>6 DEF Between, Least, Most, Distance
    <3>2. /\ RouteTicks(y, Places(j)) = Ticks(w - y) + n * Ticks(Cell)
          /\ RouteEnergy(y, Places(j)) = MotionEnergy(w - y, mission.terrain[k]) + f
      BY <2>1, <3>1, EdgeRight
    <3> QED
      BY <1>1, <3>1, <3>2, Zenon
  <2>7. p \in Places(k)..w /\ w \in Places(k)..w
    BY <1>2, <2>2
  <2>8. (p < q /\ p < w /\ w <= q) \/ (q < p /\ w < p /\ q <= w)
    BY <1>3, <2>2, <2>5
  <2>9. w # p
    BY <1>2, <2>2
  <2>10. OnTheWay(p, q, k, w, n, f)
    BY <2>1, <2>3, <2>4, <2>6, <2>7, <2>8, <2>9, Zenon DEF OnTheWay
  <2> QED
    BY <2>10
<1>4. CASE q < p
  <2>1. PICK k \in Edges : k * Cell < p /\ p <= (k + 1) * Cell /\ j <= k
    BY <1>1, <1>2, <1>4, EdgeOnTheLeft DEF Places
  <2> DEFINE w == Places(k)
             n == k - j
             f == Distance(mission.upTo[k], mission.upTo[j])
  <2>2. /\ Places(k + 1) \in Nat /\ w \in Nat /\ k \in Nat /\ k \in 0..Columns
        /\ p <= Places(k + 1) /\ w < p /\ w <= Places(k + 1)
    BY <1>2, <2>1, EdgeFacts DEF Places
  <2>3. w = Waypoint(p, q)
    BY <1>1, <1>2, <2>1, WayLeft DEF Places
  <2>4. n \in Nat /\ f \in Nat
    <3>1. mission.upTo[k] \in Nat /\ mission.upTo[j] \in Nat
      BY <2>2, MissionFacts
    <3> QED
      BY <1>2, <2>1, <2>2, <3>1 DEF Distance
  <2>5. q <= w
    BY <1>1, <1>2, <2>1, <2>2, CellsGrow DEF Places
  <2>6. ASSUME NEW y \in Between(p, w)
        PROVE  /\ RouteTicks(y, q) = Ticks(Distance(y, w)) + n * Ticks(Cell)
               /\ RouteEnergy(y, q) = MotionEnergy(Distance(y, w), mission.terrain[k]) + f
    <3>1. y \in w..Places(k + 1) /\ Distance(y, w) = y - w
      BY <1>2, <2>2, <2>6 DEF Between, Least, Most, Distance
    <3>2. /\ RouteTicks(y, Places(j)) = Ticks(y - w) + n * Ticks(Cell)
          /\ RouteEnergy(y, Places(j)) = MotionEnergy(y - w, mission.terrain[k]) + f
      BY <2>1, <3>1, EdgeLeft
    <3> QED
      BY <1>1, <3>1, <3>2, Zenon
  <2>7. p \in w..Places(k + 1) /\ w \in w..Places(k + 1)
    BY <1>2, <2>2
  <2>8. (p < q /\ p < w /\ w <= q) \/ (q < p /\ w < p /\ q <= w)
    BY <1>4, <2>2, <2>5
  <2>9. w # p
    BY <1>2, <2>2
  <2>10. OnTheWay(p, q, k, w, n, f)
    BY <2>1, <2>3, <2>4, <2>6, <2>7, <2>8, <2>9, Zenon DEF OnTheWay
  <2> QED
    BY <2>10
<1> QED
  BY <1>2, <1>3, <1>4

(* So the figures of a route are natural numbers ...                       *)
LEMMA RouteFigures ==
  ASSUME mission \in Missions, speed \in Nat \ {0},
         NEW p \in 0..(Columns * Cell), NEW q \in Grid
  PROVE  /\ RouteTicks(p, q) \in Nat /\ RouteEnergy(p, q) \in Nat
         /\ p # q => RouteTicks(p, q) >= 1
         /\ p = q => RouteTicks(p, q) = 0 /\ RouteEnergy(p, q) = 0
<1>1. PICK j \in 0..Columns : q = Places(j)
  BY GridFacts
<1>2. CASE p = q
  BY <1>1, <1>2, WayThere
<1>3. CASE p # q
  <2>1. PICK k, w, n, f : OnTheWay(p, q, k, w, n, f)
    BY <1>3, TheWay
  <2>2. /\ k \in Edges /\ n \in Nat /\ f \in Nat /\ w # p
        /\ p \in Places(k)..Places(k + 1) /\ w \in Places(k)..Places(k + 1)
    BY <2>1, Zenon DEF OnTheWay
  <2>3. p \in Nat /\ w \in Nat /\ Cell \in Nat
    BY <2>2, EdgeFacts
  <2>4. p \in Between(p, w) /\ Distance(p, w) \in Nat /\ Distance(p, w) # 0
    BY <2>2, <2>3 DEF Between, Least, Most, Distance
  <2>5. /\ RouteTicks(p, q) = Ticks(Distance(p, w)) + n * Ticks(Cell)
        /\ RouteEnergy(p, q) = MotionEnergy(Distance(p, w), mission.terrain[k]) + f
    BY <2>1, <2>4, Zenon DEF OnTheWay
  <2>6. /\ Ticks(Distance(p, w)) \in Nat /\ Ticks(Distance(p, w)) >= 1
        /\ Ticks(Cell) \in Nat
    BY <2>3, <2>4, TicksFacts
  <2>7. MotionEnergy(Distance(p, w), mission.terrain[k]) \in Nat
    <3>1. mission.cost \in Nat /\ mission.terrain[k] \in Nat
      BY <2>2, MissionFacts
    <3> QED
      BY <2>4, <3>1, EnergyNatural
  <2>8. n * Ticks(Cell) \in Nat
    BY <2>2, <2>6
  <2> DEFINE a == n * Ticks(Cell)
  <2>9. a \in Nat /\ RouteTicks(p, q) = Ticks(Distance(p, w)) + a
    BY <2>5, <2>8
  <2> HIDE DEF a
  <2> QED
    BY <1>3, <2>2, <2>5, <2>6, <2>7, <2>9
<1> QED
  BY <1>2, <1>3

-----------------------------------------------------------------------------
(* The types.  What the stated invariant needs besides: an action carries a*)
(* velocity that leads no further than a point of the corridor, and service*)
(* that has begun is not yet done.                                         *)
Account == [released : BOOLEAN, status : {"pending", "completed", "missed"},
            mine : BOOLEAN, progress : Nat]

Order == [task : Tasks \cup {Nothing}, working : BOOLEAN, rejected : BOOLEAN,
          velocity : Int, charger : Chargers \cup {Nothing}]

Promise == [task : Tasks \cup {Nothing}, direct : BOOLEAN]

Reaches(v, q) ==
  \E h \in Nat : h <= CeilDiv(Distance(x, q) * 1000, Step) /\ v = IF q < x THEN -h ELSE h

Underway == {t \in Tasks : work[t].status = "pending" => work[t].progress = 0
                             \/ work[t].progress < mission.tasks[t].service}

TypeInv ==
  /\ TypeOK
  /\ work \in [Tasks -> Account] /\ act \in Order
  /\ Tasks \subseteq Underway
  /\ phase = "events" => \E q \in 0..(Columns * Cell) : Reaches(act.velocity, q)

(* What is assumed of the constants, as the proofs use it.                 *)
LEMMA Sizes ==
  /\ Cell \in Nat \ {0} /\ Columns \in Nat \ {0} /\ Columns * Cell \in Nat
  /\ Step \in Nat \ {0} /\ Step <= 1000 /\ MaxTicks \in Nat
  /\ Deltas \subseteq Int /\ Permilles \subseteq Nat \ {0} /\ MaxEvents \in Nat
<1>1. Cell \in Nat \ {0} /\ Columns \in Nat \ {0} /\ Step \in 1..1000
  BY WorldAssumption
<1>2. Columns * Cell \in Nat
  BY <1>1
<1> QED
  BY <1>1, <1>2, WorldAssumption

LEMMA WaypointInside ==
  ASSUME mission \in Missions, speed \in Nat \ {0},
         NEW p \in 0..(Columns * Cell), NEW q \in Grid
  PROVE  Waypoint(p, q) \in 0..(Columns * Cell)
<1>1. CASE p = q
  <2>1. p \in Nat
    BY Sizes
  <2>2. Waypoint(p, q) = p
    BY <1>1, <2>1 DEF Waypoint
  <2> QED
    BY <2>2
<1>2. CASE p # q
  <2>1. PICK k, w, n, f : OnTheWay(p, q, k, w, n, f)
    BY <1>2, TheWay
  <2>2. k \in Edges /\ w = Waypoint(p, q) /\ w \in Places(k)..Places(k + 1)
    BY <2>1, Zenon DEF OnTheWay
  <2> QED
    BY <2>2, EdgeFacts
<1> QED
  BY <1>1, <1>2

(* A velocity toward a point reaches no further.                           *)
LEMMA TowardReaches ==
  ASSUME mission \in Missions, speed \in Nat \ {0}, x \in 0..(Columns * Cell), NEW q \in Grid
  PROVE  Toward(q) \in Int /\ \E w \in 0..(Columns * Cell) : Reaches(Toward(q), w)
<1> DEFINE w == Waypoint(x, q)
           c == CeilDiv(Distance(x, w) * 1000, Step)
           h == Least(speed, c)
<1>1. w \in 0..(Columns * Cell)
  BY WaypointInside
<1>2. c \in Nat
  <2>1. x \in Nat /\ w \in Nat
    BY <1>1, Sizes
  <2> HIDE DEF w
  <2> DEFINE a == Distance(x, w) * 1000
  <2>2. a \in Nat
    BY <2>1 DEF Distance
  <2> HIDE DEF a
  <2>3. CeilDiv(a, Step) \in Nat
    BY <2>2, Sizes, CeilBounds
  <2> QED
    BY <2>3 DEF a
<1>3. Toward(q) = IF w < x THEN -h ELSE h
  BY DEF Toward, Velocity
<1> HIDE DEF w, c
<1>4. h \in Nat /\ h <= c
  BY <1>2 DEF Least
<1>5. Reaches(Toward(q), w)
  BY <1>3, <1>4 DEF Reaches, c
<1> QED
  BY <1>1, <1>3, <1>4, <1>5

LEMMA StayingReaches ==
  ASSUME x \in 0..(Columns * Cell)
  PROVE  \E w \in 0..(Columns * Cell) : Reaches(0, w)
<1>1. x \in Nat
  BY Sizes
<1>2. CeilDiv(Distance(x, x) * 1000, Step) \in Nat
  <2> DEFINE a == Distance(x, x) * 1000
  <2>1. a \in Nat
    BY <1>1 DEF Distance
  <2> HIDE DEF a
  <2>2. CeilDiv(a, Step) \in Nat
    BY <2>1, Sizes, CeilBounds
  <2> QED
    BY <2>2 DEF a
<1>3. Reaches(0, x)
  <2>1. 0 \in Nat /\ 0 <= CeilDiv(Distance(x, x) * 1000, Step) /\ ~(x < x)
    BY <1>1, <1>2
  <2> QED
    BY <2>1 DEF Reaches
<1> QED
  BY <1>3

(* Where a motion ends: not past the point it was meant for.  The velocity *)
(* is rounded up, by less than a millimetre in a second, and a tick lasts  *)
(* no longer than that.                                                    *)
LEMMA MotionEnds ==
  ASSUME speed \in Nat \ {0}, x \in Nat, NEW q \in Nat, Reaches(act.velocity, q)
  PROVE  Moved \in Between(x, q) /\ Moved \in Nat
<1> DEFINE g == Distance(x, q)
           c == CeilDiv(g * 1000, Step)
<1>1. PICK h \in Nat : h <= c /\ act.velocity = IF q < x THEN -h ELSE h
  BY DEF Reaches
<1>2. g \in Nat /\ g * 1000 \in Nat
  BY DEF Distance
<1>3. c \in Nat /\ c * Step < g * 1000 + Step
  <2> HIDE DEF g
  <2> QED
    BY <1>2, Sizes, CeilBounds
<1> DEFINE r == Least(Distance(0, act.velocity), speed)
           d == (r * Step) \div 1000
<1>4. r \in Nat /\ r <= c /\ (act.velocity < 0 => q < x) /\ (q < x => act.velocity < 0 \/ r = 0)
  <2> HIDE DEF c
  <2> QED
    BY <1>1, <1>3 DEF Least, Distance
<1>5. r * Step \in Nat /\ r * Step <= c * Step
  <2> HIDE DEF r, c
  <2> QED
    BY <1>3, <1>4, Sizes, TimesGrows
<1>6. d \in Nat /\ d * 1000 <= r * Step
  <2> DEFINE m == r * Step
  <2>1. m \in Nat
    BY <1>5
  <2> HIDE DEF m
  <2>2. m \div 1000 \in Nat /\ (m \div 1000) * 1000 <= m
    BY <2>1, FloorNatural, DivBounds
  <2> QED
    BY <2>2 DEF m
<1>7. r = 0 => d = 0
  <2> HIDE DEF r
  <2>1. r = 0 => r * Step = 0
    BY Sizes
  <2>2. 0 \div 1000 = 0
    OBVIOUS
  <2> QED
    BY <2>1, <2>2
<1>8. Moved = IF act.velocity < 0 THEN x - d ELSE x + d
  BY DEF Moved
<1> HIDE DEF d
<1>9. d <= g
  <2> DEFINE m == r * Step  e == c * Step
  <2>1. m \in Nat /\ m <= e /\ e < g * 1000 + Step /\ d * 1000 <= m /\ e \in Int
    BY <1>3, <1>5, <1>6, Sizes
  <2> HIDE DEF m, e, g, c
  <2> QED
    BY <1>2, <1>6, <2>1, Sizes
<1> HIDE DEF r, c
<1>10. Moved \in Between(x, q)
  BY <1>4, <1>6, <1>7, <1>8, <1>9 DEF Between, Least, Most, Distance
<1> QED
  BY <1>10 DEF Between, Least

LEMMA PlacesOnGrid ==
  ASSUME mission \in Missions
  PROVE  /\ \A t \in Tasks : Target(t) \in Grid
         /\ \A c \in Chargers : Site(c) \in Grid
         /\ \A h \in mission.home : Places(h.at) \in Grid
<1>1. /\ \A t \in Tasks : mission.tasks[t].target \in 0..Columns
      /\ \A c \in Chargers : mission.chargers[c].at \in 0..Columns
      /\ \A h \in mission.home : h.at \in 0..Columns
  BY MissionFacts DEF Task, Charger, Resort
<1> QED
  BY <1>1 DEF Target, Site, Grid

LEMMA TypeStart ==
  ASSUME Init
  PROVE  TypeInv
<1>1. mission \in Missions
  BY DEF Init
<1>2. mission.speed \in Nat \ {0} /\ mission.initial \in Nat \ {0}
  BY <1>1, MissionFacts
<1>3. \A t \in Tasks : mission.tasks[t].released \in BOOLEAN /\ mission.tasks[t].service \in Nat
  BY <1>1, MissionFacts DEF Task
<1>4. x \in 0..(Columns * Cell)
  <2>1. x \in Grid
    BY DEF Init, Grid
  <2> QED
    BY <2>1, GridFacts
<1>5. work \in [Tasks -> Account]
  BY <1>3 DEF Init, Account
<1>6. act \in Order
  BY DEF Init, Idle, Order, Nothing
<1>7. promise \in Promise
  BY DEF Init, NoPromise, Promise, Nothing
<1>8. \A t \in Tasks : work[t].progress = 0
  BY DEF Init
<1>9. TypeOK
  <2>1. tick \in 0..MaxTicks /\ events \in 0..MaxEvents /\ closed \subseteq Edges
    BY Sizes DEF Init
  <2>2. DOMAIN work = Tasks
    BY DEF Init
  <2>3. \A t \in Tasks : /\ work[t].released \in BOOLEAN /\ work[t].mine \in BOOLEAN
                         /\ work[t].status \in {"pending", "completed", "missed"}
                         /\ work[t].progress \in 0..mission.tasks[t].service
    BY <1>3, <1>5, <1>8 DEF Account
  <2> QED
    BY <1>1, <1>2, <1>4, <1>7, <2>1, <2>2, <2>3 DEF Init, TypeOK, Promise
<1>10. Tasks \subseteq Underway
  BY <1>8 DEF Underway
<1>11. phase # "events"
  BY DEF Init
<1> QED
  BY <1>5, <1>6, <1>9, <1>10, <1>11 DEF TypeInv

(* The agent changes its action and its promise.                           *)
LEMMA TypeOfDecisions ==
  ASSUME TypeInv, NEW a \in Order, NEW p \in Promise, Decide(a, p),
         \E q \in 0..(Columns * Cell) : Reaches(a.velocity, q)
  PROVE  TypeInv'
<1>1. /\ mission' = mission /\ tick' = tick /\ x' = x /\ energy' = energy
      /\ capacity' = capacity /\ speed' = speed /\ closed' = closed /\ work' = work
      /\ events' = events /\ act' = a /\ promise' = p /\ phase' = "events"
  BY DEF Decide
<1>2. TypeOK'
  BY <1>1 DEF TypeInv, TypeOK, Promise, Tasks
<1>3. work' \in [Tasks' -> Account] /\ act' \in Order' /\ Tasks' \subseteq Underway'
  BY <1>1 DEF TypeInv, Order, Tasks, Chargers, Underway
<1>4. (\E q \in 0..(Columns * Cell) : Reaches(act.velocity, q))'
  BY <1>1 DEF Reaches
<1> QED
  BY <1>2, <1>3, <1>4 DEF TypeInv

(* An event changes what it is about; the action stands.                   *)
LEMMA TypeOfEvents ==
  ASSUME TypeInv, Event, energy' \in Nat, capacity' \in Nat \ {0}, speed' \in Nat \ {0},
         closed' \subseteq Edges, work' \in [Tasks -> Account],
         \A t \in Tasks : /\ work'[t].progress = work[t].progress
                          /\ work'[t].status = work[t].status
  PROVE  TypeInv'
<1>1. /\ mission' = mission /\ phase' = phase /\ tick' = tick /\ x' = x /\ act' = act
      /\ events' \in 0..MaxEvents /\ promise' \in Promise
  <2>1. NoPromise \in Promise
    BY DEF NoPromise, Promise, Nothing
  <2>2. events + 1 \in 0..MaxEvents
    BY Sizes DEF Event, TypeInv, TypeOK
  <2> QED
    BY <2>1, <2>2 DEF Event
<1>2. Tasks' = Tasks /\ Chargers' = Chargers
  BY <1>1 DEF Tasks, Chargers
<1>3. \A t \in Tasks : /\ work'[t].released \in BOOLEAN /\ work'[t].mine \in BOOLEAN
                       /\ work'[t].status \in {"pending", "completed", "missed"}
                       /\ work'[t].progress \in 0..mission.tasks[t].service
  <2>1. \A t \in Tasks : work'[t] \in Account
    OBVIOUS
  <2>2. \A t \in Tasks : work[t].progress \in 0..mission.tasks[t].service
    BY DEF TypeInv, TypeOK
  <2> QED
    BY <2>1, <2>2 DEF Account
<1>4. TypeOK'
  BY <1>1, <1>2, <1>3 DEF TypeInv, TypeOK, Promise
<1>5. act' \in Order'
  BY <1>1, <1>2 DEF TypeInv, Order
<1>6. Tasks' \subseteq Underway'
  BY <1>1, <1>2 DEF TypeInv, Underway
<1>7. (phase = "events" => \E q \in 0..(Columns * Cell) : Reaches(act.velocity, q))'
  BY <1>1 DEF TypeInv, Reaches
<1> QED
  BY <1>2, <1>4, <1>5, <1>6, <1>7 DEF TypeInv

(* What the type invariant says of the numbers.                            *)
LEMMA TypeFacts ==
  ASSUME TypeInv
  PROVE  /\ mission \in Missions /\ tick \in Nat /\ x \in Nat /\ x \in 0..(Columns * Cell)
         /\ energy \in Nat /\ capacity \in Nat \ {0} /\ speed \in Nat \ {0}
         /\ \A t \in Tasks : work[t] \in Account
         /\ \A t \in Tasks : mission.tasks[t] \in Task /\ Target(t) \in Grid
         /\ \A c \in Chargers : mission.chargers[c] \in Charger /\ Site(c) \in Grid
         /\ act \in Order /\ Nothing \notin Tasks /\ Nothing \notin Chargers
<1>1. mission \in Missions
  BY DEF TypeInv, TypeOK
<1> QED
  BY <1>1, Sizes, PlacesOnGrid, MissionFacts DEF TypeInv, TypeOK, Nothing

LEMMA ReserveNatural ==
  ASSUME mission \in Missions
  PROVE  Reserve \in Nat
BY MissionFacts, CeilBounds DEF Reserve

(* Changing one field of an account, or two.                               *)
AccountOf(r, s, m, n) == [released |-> r, status |-> s, mine |-> m, progress |-> n]

LEMMA AccountKinds ==
  ASSUME NEW w \in Account, NEW n \in Nat
  PROVE  /\ AccountOf(w.released, w.status, FALSE, n) \in Account
         /\ \A s \in {"pending", "completed", "missed"} :
              AccountOf(w.released, s, w.mine, n) \in Account
BY DEF Account, AccountOf

LEMMA AccountEdit ==
  ASSUME NEW w \in Account, NEW v
  PROVE  /\ [w EXCEPT !.progress = v] = AccountOf(w.released, w.status, w.mine, v)
         /\ [w EXCEPT !.mine = v] = AccountOf(w.released, w.status, v, w.progress)
         /\ [w EXCEPT !.status = v] = AccountOf(w.released, v, w.mine, w.progress)
BY DEF Account, AccountOf

LEMMA GivenBack ==
  ASSUME NEW w \in Account
  PROVE  [w EXCEPT !.mine = FALSE, !.progress = 0] = AccountOf(w.released, w.status, FALSE, 0)
<1> DEFINE v == [w EXCEPT !.mine = FALSE]
<1>1. v = AccountOf(w.released, w.status, FALSE, w.progress)
  BY AccountEdit
<1>2. v \in Account
  BY DEF Account
<1> HIDE DEF v
<1>3. v.released = w.released /\ v.status = w.status /\ v.mine = FALSE
  BY <1>1 DEF AccountOf
<1>4. [v EXCEPT !.progress = 0] = AccountOf(v.released, v.status, v.mine, 0)
  BY <1>2, AccountEdit
<1>5. [v EXCEPT !.progress = 0] = AccountOf(w.released, w.status, FALSE, 0)
  BY <1>3, <1>4, Zenon
<1> QED
  BY <1>5, Zenon DEF v

LEMMA GivenUp ==
  ASSUME NEW w \in Account
  PROVE  [w EXCEPT !.status = "missed", !.progress = 0] = AccountOf(w.released, "missed", w.mine, 0)
<1> DEFINE v == [w EXCEPT !.status = "missed"]
<1>1. v = AccountOf(w.released, "missed", w.mine, w.progress)
  BY AccountEdit
<1>2. v \in Account
  BY DEF Account
<1> HIDE DEF v
<1>3. v.released = w.released /\ v.status = "missed" /\ v.mine = w.mine
  BY <1>1 DEF AccountOf
<1>4. [v EXCEPT !.progress = 0] = AccountOf(v.released, v.status, v.mine, 0)
  BY <1>2, AccountEdit
<1>5. [v EXCEPT !.progress = 0] = AccountOf(w.released, "missed", w.mine, 0)
  BY <1>3, <1>4, Zenon
<1> QED
  BY <1>5, Zenon DEF v

LEMMA WorkedOn ==
  ASSUME NEW w \in Account, NEW n \in Nat, NEW s
  PROVE  [w EXCEPT !.progress = n, !.status = s] = AccountOf(w.released, s, w.mine, n)
<1> DEFINE v == [w EXCEPT !.progress = n]
<1>1. v = AccountOf(w.released, w.status, w.mine, n)
  BY AccountEdit
<1>2. v \in Account
  BY DEF Account
<1> HIDE DEF v
<1>3. v.released = w.released /\ v.progress = n /\ v.mine = w.mine
  BY <1>1 DEF AccountOf
<1>4. [v EXCEPT !.status = s] = AccountOf(v.released, s, v.mine, v.progress)
  BY <1>2, AccountEdit
<1>5. [v EXCEPT !.status = s] = AccountOf(w.released, s, w.mine, n)
  BY <1>3, <1>4, Zenon
<1> QED
  BY <1>5, Zenon DEF v

(* The simulator applies the action.                                       *)
LEMMA TypeOfActions ==
  ASSUME TypeInv, ApplyActions
  PROVE  TypeInv'
<1> USE DEF Nothing
<1>1. /\ mission \in Missions /\ x \in Nat /\ energy \in Nat /\ capacity \in Nat \ {0}
      /\ speed \in Nat \ {0} /\ act \in Order /\ x \in 0..(Columns * Cell)
      /\ \A c \in Chargers : mission.chargers[c] \in Charger
      /\ \A t \in Tasks : work[t] \in Account
  BY TypeFacts
<1>2. /\ mission' = mission /\ tick' = tick /\ capacity' = capacity /\ speed' = speed
      /\ closed' = closed /\ act' = act /\ events' = events /\ promise' = promise
      /\ phase' = "tasks" /\ Tasks' = Tasks /\ Chargers' = Chargers /\ phase = "events"
  <2>1. /\ mission' = mission /\ tick' = tick /\ capacity' = capacity /\ speed' = speed
        /\ closed' = closed /\ act' = act /\ events' = events /\ promise' = promise
        /\ phase' = "tasks" /\ phase = "events"
    BY Zenon DEF ApplyActions
  <2> QED
    BY <2>1 DEF Tasks, Chargers
<1>3. Moved \in Nat /\ Moved \in 0..(Columns * Cell)
  <2>1. PICK q \in 0..(Columns * Cell) : Reaches(act.velocity, q)
    BY <1>2 DEF TypeInv
  <2>2. q \in Nat
    BY Sizes
  <2>3. Moved \in Between(x, q) /\ Moved \in Nat
    BY <1>1, <2>1, <2>2, MotionEnds
  <2> QED
    BY <1>1, <2>2, <2>3, Sizes DEF Between, Least, Most
<1>4. x' \in 0..(Columns * Cell)
  <2>1. x' = IF Goes THEN Moved ELSE x
    BY Zenon DEF ApplyActions
  <2> QED
    BY <1>1, <1>3, <2>1
<1>5. energy' \in Nat
  <2>0. energy' = IF act.charger # Nothing THEN Charged(act.charger)
                  ELSE IF Goes THEN energy - LegEnergy(x, Moved) ELSE energy
    BY Zenon DEF ApplyActions
  <2>1. CASE act.charger # Nothing
    <3>1. act.charger \in Chargers
      BY <1>1, <2>1 DEF Order
    <3>2. mission.chargers[act.charger].rate \in Nat
      BY <1>1, <3>1 DEF Charger
    <3>3. Charged(act.charger) \in Nat
      BY <1>1, <3>2 DEF Charged, Least
    <3> QED
      BY <2>0, <2>1, <3>3
  <2>2. CASE act.charger = Nothing /\ Goes
    <3>1. LegEnergy(x, Moved) \in Nat
      <4>1. CASE x = Moved
        BY <4>1 DEF LegEnergy
      <4>2. CASE x # Moved
        <5> DEFINE k == Least(x, Moved) \div Cell
        <5>1. k \in Edges
          <6> DEFINE a == Least(x, Moved)
          <6>1. a \in Nat /\ a < Columns * Cell
            BY <1>1, <1>3, <4>2, Sizes DEF Least
          <6> HIDE DEF a
          <6>2. a \div Cell \in Nat /\ (a \div Cell) * Cell <= a
            BY <6>1, Sizes, FloorNatural, DivBounds
          <6>3. (a \div Cell) * Cell < Columns * Cell
            BY <6>1, <6>2, Sizes
          <6>4. a \div Cell < Columns
            BY <6>2, <6>3, Sizes, CellsGrowStrictly
          <6> QED
            BY <6>2, <6>4, Sizes DEF Edges, a
        <5>2. mission.terrain[k] \in Nat /\ mission.cost \in Nat
          BY <1>1, <5>1, MissionFacts
        <5>3. Distance(x, Moved) \in Nat
          BY <1>1, <1>3 DEF Distance
        <5>4. MotionEnergy(Distance(x, Moved), mission.terrain[k]) \in Nat
          BY <5>2, <5>3, EnergyNatural
        <5> QED
          BY <4>2, <5>4 DEF LegEnergy
      <4> QED
        BY <4>1, <4>2
    <3>2. LegEnergy(x, Moved) <= energy
      BY <2>2 DEF Goes
    <3>3. energy' = energy - LegEnergy(x, Moved)
      BY <2>0, <2>2
    <3> QED
      BY <1>1, <3>1, <3>2, <3>3
  <2>3. CASE act.charger = Nothing /\ ~Goes
    BY <1>1, <2>0, <2>3
  <2> QED
    BY <2>1, <2>2, <2>3
<1>6. \A t \in Tasks : /\ work'[t] \in Account /\ work'[t].status = work[t].status
                       /\ work'[t].progress \in {0, work[t].progress}
  <2> TAKE t \in Tasks
  <2>1. \/ work'[t] = work[t]
        \/ work'[t] = [work[t] EXCEPT !.mine = FALSE, !.progress = 0]
    BY Zenon DEF ApplyActions
  <2>2. CASE work'[t] = [work[t] EXCEPT !.mine = FALSE, !.progress = 0]
    <3>1. work'[t] = AccountOf(work[t].released, work[t].status, FALSE, 0)
      BY <1>1, <2>2, GivenBack, Zenon
    <3> QED
      <4>0. /\ work'[t] \in Account /\ work'[t].status = work[t].status /\ work'[t].progress = 0
        <5>1. AccountOf(work[t].released, work[t].status, FALSE, 0) \in Account
          BY <1>1, AccountKinds
        <5> QED
          BY <3>1, <5>1 DEF AccountOf
      <4> QED
        BY <4>0
  <2>3. CASE work'[t] = work[t]
    BY <1>1, <2>3 DEF Account
  <2> QED
    BY <2>1, <2>2, <2>3
<1>7. work' \in [Tasks -> Account]
  <2>1. work' = [t \in Tasks |-> work'[t]]
    BY Zenon DEF ApplyActions
  <2> QED
    BY <1>6, <2>1
<1>8. \A t \in Tasks : /\ work'[t].released \in BOOLEAN /\ work'[t].mine \in BOOLEAN
                       /\ work'[t].status \in {"pending", "completed", "missed"}
                       /\ work'[t].progress \in 0..mission.tasks[t].service
  <2>1. \A t \in Tasks : work[t].progress \in 0..mission.tasks[t].service /\ mission.tasks[t] \in Task
    BY <1>1, MissionFacts DEF TypeInv, TypeOK
  <2> QED
    BY <1>6, <2>1 DEF Account, Task
<1>9. TypeOK'
  BY <1>2, <1>4, <1>5, <1>7, <1>8 DEF TypeInv, TypeOK
<1>10. act' \in Order'
  BY <1>1, <1>2 DEF Order
<1>11. Tasks' \subseteq Underway'
  BY <1>2, <1>6 DEF TypeInv, Underway
<1> QED
  BY <1>2, <1>7, <1>9, <1>10, <1>11 DEF TypeInv

(* A tick passes for the tasks.                                            *)
LEMMA TypeOfTasks ==
  ASSUME TypeInv, UpdateTasks
  PROVE  TypeInv'
<1>1. /\ mission \in Missions /\ tick \in Nat /\ energy \in Nat
      /\ \A t \in Tasks : work[t] \in Account /\ mission.tasks[t] \in Task
  BY TypeFacts
<1>2. /\ mission' = mission /\ x' = x /\ capacity' = capacity /\ speed' = speed
      /\ closed' = closed /\ act' = act /\ events' = events /\ promise' = promise
      /\ phase' = "agent" /\ Tasks' = Tasks /\ Chargers' = Chargers
  BY DEF UpdateTasks, Tasks, Chargers
<1>3. tick' \in 0..MaxTicks
  BY <1>1, Sizes DEF UpdateTasks
<1>4. energy' \in Nat
  <2>1. CASE \E t \in Tasks : Served(t)
    <3>1. PICK t \in Tasks : Served(t)
      BY <2>1
    <3>2. act.task = t /\ energy >= mission.tasks[t].cost + Reserve
      BY <3>1 DEF Served
    <3>3. mission.tasks[t].cost \in Nat /\ Reserve \in Nat
      BY <1>1, ReserveNatural DEF Task
    <3>4. energy' = energy - mission.tasks[t].cost
      BY <2>1, <3>2 DEF UpdateTasks
    <3> QED
      BY <1>1, <3>2, <3>3, <3>4
  <2>2. CASE ~\E t \in Tasks : Served(t)
    BY <1>1, <2>2, SMTT(30) DEF UpdateTasks
  <2> QED
    BY <2>1, <2>2
<1>5. ASSUME NEW t \in Tasks
      PROVE  /\ After(t) \in Account
             /\ After(t).progress \in 0..mission.tasks[t].service
             /\ After(t).status = "pending" => \/ After(t).progress = 0
                                               \/ After(t).progress < mission.tasks[t].service
  <2>1. /\ work[t] \in Account /\ work[t].progress \in 0..mission.tasks[t].service
        /\ mission.tasks[t].service \in Nat
        /\ work[t].status = "pending" => \/ work[t].progress = 0
                                         \/ work[t].progress < mission.tasks[t].service
    BY <1>1 DEF TypeInv, TypeOK, Underway, Task
  <2>2. CASE After(t) = work[t]
    BY <2>1, <2>2
  <2>3. CASE /\ After(t) = [work[t] EXCEPT !.status = "missed", !.progress = 0]
    <3>1. After(t) = AccountOf(work[t].released, "missed", work[t].mine, 0)
      BY <2>1, <2>3, GivenUp, Zenon
    <3> QED
      <4>0. After(t) \in Account /\ After(t).status = "missed" /\ After(t).progress = 0
        <5>1. AccountOf(work[t].released, "missed", work[t].mine, 0) \in Account
          BY <2>1, AccountKinds
        <5> QED
          BY <3>1, <5>1 DEF AccountOf
      <4> QED
        BY <2>1, <4>0
  <2>4. CASE After(t) = [work[t] EXCEPT !.status = "completed"]
    BY <2>1, <2>4 DEF Account
  <2>5. CASE After(t) = [work[t] EXCEPT !.progress = 0]
    BY <2>1, <2>5 DEF Account
  <2>6. CASE /\ Served(t)
             /\ After(t) = [work[t] EXCEPT !.progress = @ + 1,
                              !.status = IF work[t].progress + 1 >= mission.tasks[t].service
                                         THEN "completed" ELSE "pending"]
    <3>1. work[t].status = "pending" /\ mission.tasks[t].service > 0
      BY <2>6 DEF Served
    <3>2. work[t].progress \in Nat /\ work[t].progress < mission.tasks[t].service
      BY <2>1, <3>1
    <3> DEFINE n == work[t].progress + 1
               u == IF n >= mission.tasks[t].service THEN "completed" ELSE "pending"
    <3>3. n \in Nat /\ u \in {"pending", "completed", "missed"}
      BY <3>2
    <3>4. After(t) = [work[t] EXCEPT !.progress = n, !.status = u]
      BY <2>6, Zenon
    <3>5. /\ n \in Nat /\ n <= mission.tasks[t].service
          /\ u = "pending" => n < mission.tasks[t].service
      BY <2>1, <3>2
    <3> HIDE DEF n, u
    <3>6. After(t) = AccountOf(work[t].released, u, work[t].mine, n)
      BY <2>1, <3>3, <3>4, WorkedOn, Zenon
    <3>7. After(t) \in Account /\ After(t).progress = n /\ After(t).status = u
      <4>1. AccountOf(work[t].released, u, work[t].mine, n) \in Account
        BY <2>1, <3>3, AccountKinds
      <4> QED
        BY <3>6, <4>1 DEF AccountOf
    <3> QED
      BY <2>1, <3>5, <3>7
  <2> QED
    BY <2>2, <2>3, <2>4, <2>5, <2>6 DEF After
<1>6. work' = [t \in Tasks |-> After(t)]
  BY DEF UpdateTasks
<1>7. work' \in [Tasks -> Account]
  BY <1>5, <1>6
<1>8. \A t \in Tasks : /\ work'[t].released \in BOOLEAN /\ work'[t].mine \in BOOLEAN
                       /\ work'[t].status \in {"pending", "completed", "missed"}
                       /\ work'[t].progress \in 0..mission.tasks[t].service
  <2>1. \A t \in Tasks : After(t) \in Account /\ work'[t] = After(t)
    BY <1>5, <1>6
  <2> QED
    BY <1>5, <2>1 DEF Account
<1>9. TypeOK'
  BY <1>2, <1>3, <1>4, <1>7, <1>8 DEF TypeInv, TypeOK
<1>10. act' \in Order'
  BY <1>2 DEF TypeInv, Order
<1>11. Tasks' \subseteq Underway'
  BY <1>2, <1>5, <1>6 DEF Underway
<1> QED
  BY <1>2, <1>7, <1>9, <1>10, <1>11 DEF TypeInv

(* The agent's decisions: what it orders, and what it promises.            *)
LEMMA DetourIsPromise ==
  ASSUME NEW t \in Tasks
  PROVE  Detour(t) \in Promise
BY DEF Detour, NoPromise, Promise, Nothing

(* The actions the agent orders, field by field.                           *)
OrderOf(t, w, r, v, c) ==
  [task |-> t, working |-> w, rejected |-> r, velocity |-> v, charger |-> c]

LEMMA OrderEdit ==
  ASSUME NEW a \in Order, NEW v
  PROVE  /\ [a EXCEPT !.task = v] = OrderOf(v, a.working, a.rejected, a.velocity, a.charger)
         /\ [a EXCEPT !.working = v] = OrderOf(a.task, v, a.rejected, a.velocity, a.charger)
         /\ [a EXCEPT !.rejected = v] = OrderOf(a.task, a.working, v, a.velocity, a.charger)
         /\ [a EXCEPT !.velocity = v] = OrderOf(a.task, a.working, a.rejected, v, a.charger)
         /\ [a EXCEPT !.charger = v] = OrderOf(a.task, a.working, a.rejected, a.velocity, v)
BY DEF Order, OrderOf

LEMMA TheOrders ==
  ASSUME NEW t \in Tasks, NEW v
  PROVE  /\ [Idle EXCEPT !.task = t, !.rejected = TRUE] = OrderOf(t, FALSE, TRUE, 0, Nothing)
         /\ [Idle EXCEPT !.task = t, !.working = TRUE] = OrderOf(t, TRUE, FALSE, 0, Nothing)
         /\ [Idle EXCEPT !.task = t, !.charger = v] = OrderOf(t, FALSE, FALSE, 0, v)
         /\ [Idle EXCEPT !.task = t, !.velocity = v] = OrderOf(t, FALSE, FALSE, v, Nothing)
<1>1. Idle \in Order /\ Idle = OrderOf(Nothing, FALSE, FALSE, 0, Nothing)
  BY DEF Idle, OrderOf, Order, Nothing
<1>2. /\ Idle.working = FALSE /\ Idle.rejected = FALSE /\ Idle.velocity = 0
      /\ Idle.charger = Nothing
  BY DEF Idle
<1> DEFINE a == [Idle EXCEPT !.task = t]
<1>4. a = OrderOf(t, FALSE, FALSE, 0, Nothing)
  <2>1. a = OrderOf(t, Idle.working, Idle.rejected, Idle.velocity, Idle.charger)
    BY <1>1, OrderEdit, Zenon
  <2> HIDE DEF a
  <2> QED
    BY <1>2, <2>1, Zenon
<1> HIDE DEF a
<1>5. /\ a \in Order /\ a.task = t /\ a.working = FALSE /\ a.rejected = FALSE
      /\ a.velocity = 0 /\ a.charger = Nothing
  BY <1>4 DEF OrderOf, Order, Nothing
<1>6. /\ [a EXCEPT !.rejected = TRUE] = OrderOf(t, FALSE, TRUE, 0, Nothing)
      /\ [a EXCEPT !.working = TRUE] = OrderOf(t, TRUE, FALSE, 0, Nothing)
      /\ [a EXCEPT !.charger = v] = OrderOf(t, FALSE, FALSE, 0, v)
      /\ [a EXCEPT !.velocity = v] = OrderOf(t, FALSE, FALSE, v, Nothing)
  <2>1. \A u : /\ [a EXCEPT !.rejected = u] = OrderOf(a.task, a.working, u, a.velocity, a.charger)
               /\ [a EXCEPT !.working = u] = OrderOf(a.task, u, a.rejected, a.velocity, a.charger)
               /\ [a EXCEPT !.charger = u] = OrderOf(a.task, a.working, a.rejected, a.velocity, u)
               /\ [a EXCEPT !.velocity = u] = OrderOf(a.task, a.working, a.rejected, u, a.charger)
    BY <1>5, OrderEdit
  <2> QED
    BY <1>5, <2>1, Zenon
<1> QED
  BY <1>6, Zenon DEF a

LEMMA TypeOfAgent ==
  ASSUME TypeInv,
         \/ \E t \in Tasks : \/ GiveUp(t) \/ Work(t) \/ Travel(t)
                             \/ \E c \in Chargers : Charge(t, c) \/ GoCharging(t, c)
         \/ \E h \in mission.home : GoHome(h)
         \/ Rest
  PROVE  TypeInv'
<1>1. /\ mission \in Missions /\ x \in 0..(Columns * Cell) /\ speed \in Nat \ {0}
      /\ \A t \in Tasks : Target(t) \in Grid
      /\ \A c \in Chargers : Site(c) \in Grid
  BY TypeFacts
<1>2. \A h \in mission.home : Places(h.at) \in Grid
  BY <1>1, PlacesOnGrid
<1>3. \E q \in 0..(Columns * Cell) : Reaches(0, q)
  BY <1>1, StayingReaches
<1>4. \A g \in Grid : Toward(g) \in Int /\ \E q \in 0..(Columns * Cell) : Reaches(Toward(g), q)
  BY <1>1, TowardReaches
<1>5. NoPromise \in Promise /\ \A t \in Tasks : [task |-> t, direct |-> TRUE] \in Promise
  BY DEF NoPromise, Promise, Nothing
<1>6. CASE \E t \in Tasks : GiveUp(t)
  <2>1. PICK t \in Tasks : GiveUp(t)
    BY <1>6
  <2> DEFINE a == [Idle EXCEPT !.task = t, !.rejected = TRUE]
  <2>2. a \in Order /\ a.velocity = 0
    <3>1. a = OrderOf(t, FALSE, TRUE, 0, Nothing)
      BY TheOrders, Zenon
    <3> HIDE DEF a
    <3> QED
      BY <3>1 DEF OrderOf, Order, Nothing
  <2>3. Decide(a, NoPromise)
    BY <2>1, Zenon DEF GiveUp
  <2> HIDE DEF a
  <2> QED
    BY <1>3, <1>5, <2>2, <2>3, TypeOfDecisions
<1>7. CASE \E t \in Tasks : Work(t)
  <2>1. PICK t \in Tasks : Work(t)
    BY <1>7
  <2> DEFINE a == [Idle EXCEPT !.task = t, !.working = TRUE]
  <2>2. a \in Order /\ a.velocity = 0
    <3>1. a = OrderOf(t, TRUE, FALSE, 0, Nothing)
      BY TheOrders, Zenon
    <3> HIDE DEF a
    <3> QED
      BY <3>1 DEF OrderOf, Order, Nothing
  <2>3. Decide(a, [task |-> t, direct |-> TRUE])
    BY <2>1, Zenon DEF Work
  <2> HIDE DEF a
  <2> QED
    BY <1>3, <1>5, <2>2, <2>3, TypeOfDecisions
<1>8. CASE \E t \in Tasks : Travel(t)
  <2>1. PICK t \in Tasks : Travel(t)
    BY <1>8
  <2> DEFINE a == [Idle EXCEPT !.task = t, !.velocity = Toward(Target(t))]
  <2>2. a \in Order /\ a.velocity = Toward(Target(t))
    <3>1. a = OrderOf(t, FALSE, FALSE, Toward(Target(t)), Nothing)
      BY TheOrders, Zenon
    <3> HIDE DEF a
    <3> QED
      BY <1>1, <1>4, <3>1 DEF OrderOf, Order, Nothing
  <2>3. Decide(a, [task |-> t, direct |-> TRUE])
    BY <2>1, Zenon DEF Travel
  <2> HIDE DEF a
  <2> QED
    BY <1>1, <1>4, <1>5, <2>2, <2>3, TypeOfDecisions
<1>9. CASE \E t \in Tasks, c \in Chargers : Charge(t, c)
  <2>1. PICK t \in Tasks, c \in Chargers : Charge(t, c)
    BY <1>9
  <2> DEFINE a == [Idle EXCEPT !.task = t, !.charger = c]
  <2>2. a \in Order /\ a.velocity = 0
    <3>1. a = OrderOf(t, FALSE, FALSE, 0, c)
      BY TheOrders, Zenon
    <3> HIDE DEF a
    <3> QED
      BY <3>1 DEF OrderOf, Order, Nothing
  <2>3. Decide(a, Detour(t))
    BY <2>1, Zenon DEF Charge
  <2> HIDE DEF a
  <2> QED
    BY <1>3, <2>2, <2>3, DetourIsPromise, TypeOfDecisions
<1>10. CASE \E t \in Tasks, c \in Chargers : GoCharging(t, c)
  <2>1. PICK t \in Tasks, c \in Chargers : GoCharging(t, c)
    BY <1>10
  <2> DEFINE a == [Idle EXCEPT !.task = t, !.velocity = Toward(Site(c))]
  <2>2. a \in Order /\ a.velocity = Toward(Site(c))
    <3>1. a = OrderOf(t, FALSE, FALSE, Toward(Site(c)), Nothing)
      BY TheOrders, Zenon
    <3> HIDE DEF a
    <3> QED
      BY <1>1, <1>4, <3>1 DEF OrderOf, Order, Nothing
  <2>3. Decide(a, Detour(t))
    BY <2>1, Zenon DEF GoCharging
  <2> HIDE DEF a
  <2> QED
    BY <1>1, <1>4, <2>2, <2>3, DetourIsPromise, TypeOfDecisions
<1>11. CASE \E h \in mission.home : GoHome(h)
  <2>1. PICK h \in mission.home : GoHome(h)
    BY <1>11
  <2> DEFINE a == [Idle EXCEPT !.velocity = Toward(Places(h.at))]
  <2>2. a \in Order /\ a.velocity = Toward(Places(h.at))
    BY <1>2, <1>4 DEF Idle, Order, Nothing
  <2>3. Decide(a, NoPromise)
    BY <2>1, Zenon DEF GoHome
  <2> HIDE DEF a
  <2> QED
    BY <1>2, <1>4, <1>5, <2>2, <2>3, TypeOfDecisions
<1>12. CASE Rest
  <2>1. Idle \in Order /\ Idle.velocity = 0
    BY DEF Idle, Order, Nothing
  <2>2. Decide(Idle, NoPromise)
    BY <1>12, Zenon DEF Rest
  <2> QED
    BY <1>3, <1>5, <2>1, <2>2, TypeOfDecisions
<1> QED
  BY <1>6, <1>7, <1>8, <1>9, <1>10, <1>11, <1>12

(* The scenario's events.                                                  *)
SomeEvent ==
  \/ \E t \in Tasks : ReleaseTask(t)
  \/ \E v \in Deltas : EnergyDelta(v)
  \/ \E v \in Permilles : SetSpeed(v) \/ SetEndurance(v)
  \/ \E e \in Edges, value \in BOOLEAN : SetClosed(e, value)

(* An event of the world leaves the tasks as they are, or releases one.    *)
LEMMA EventFacts ==
  ASSUME SomeEvent
  PROVE  /\ Event
         /\ work' = work \/ \E u \in Tasks : work' = [work EXCEPT ![u].released = TRUE]
<1>1. ASSUME NEW t \in Tasks, ReleaseTask(t)
      PROVE  Event /\ work' = [work EXCEPT ![t].released = TRUE]
  BY <1>1, Zenon DEF ReleaseTask
<1>2. ASSUME NEW v \in Deltas, EnergyDelta(v) PROVE Event /\ work' = work
  BY <1>2, Zenon DEF EnergyDelta
<1>3. ASSUME NEW v \in Permilles, SetSpeed(v) PROVE Event /\ work' = work
  BY <1>3, Zenon DEF SetSpeed
<1>4. ASSUME NEW v \in Permilles, SetEndurance(v) PROVE Event /\ work' = work
  BY <1>4, Zenon DEF SetEndurance
<1>5. ASSUME NEW e \in Edges, NEW value \in BOOLEAN, SetClosed(e, value)
      PROVE  Event /\ work' = work
  BY <1>5, Zenon DEF SetClosed
<1> QED
  BY <1>1, <1>2, <1>3, <1>4, <1>5, Zenon DEF SomeEvent

LEMMA TypeOfSomeEvent ==
  ASSUME TypeInv, SomeEvent
  PROVE  TypeInv'
<1>1. /\ mission \in Missions /\ energy \in Nat /\ capacity \in Nat \ {0}
      /\ speed \in Nat \ {0} /\ closed \subseteq Edges /\ work \in [Tasks -> Account]
  BY TypeFacts DEF TypeInv, TypeOK
<1>2. mission.speed \in Nat /\ mission.initial \in Nat
  BY <1>1, MissionFacts
<1>3. \A v \in Permilles : /\ Most(1, (mission.speed * v) \div 1000) \in Nat \ {0}
                           /\ Most(1, (mission.initial * v) \div 1000) \in Nat \ {0}
  <2> TAKE v \in Permilles
  <2>1. v \in Nat
    BY Sizes
  <2>2. mission.speed * v \in Nat /\ mission.initial * v \in Nat
    BY <1>2, <2>1
  <2> DEFINE a == (mission.speed * v) \div 1000
             b == (mission.initial * v) \div 1000
  <2>3. a \in Nat /\ b \in Nat
    BY <2>2, FloorNatural
  <2> HIDE DEF a, b
  <2>4. Most(1, a) \in Nat \ {0} /\ Most(1, b) \in Nat \ {0}
    BY <2>3 DEF Most
  <2> QED
    BY <2>4 DEF a, b
<1>4. CASE \E t \in Tasks : ReleaseTask(t)
  <2>1. PICK t \in Tasks : ReleaseTask(t)
    BY <1>4
  <2>2. /\ Event /\ energy' = energy /\ capacity' = capacity /\ speed' = speed
        /\ closed' = closed /\ work' = [work EXCEPT ![t].released = TRUE]
    BY <2>1, Zenon DEF ReleaseTask
  <2>3. /\ work' \in [Tasks -> Account]
        /\ \A u \in Tasks : work'[u].progress = work[u].progress /\ work'[u].status = work[u].status
    <3>1. /\ [work[t] EXCEPT !.released = TRUE] \in Account
          /\ [work[t] EXCEPT !.released = TRUE].progress = work[t].progress
          /\ [work[t] EXCEPT !.released = TRUE].status = work[t].status
      <4>1. work[t] \in Account
        BY <1>1
      <4> QED
        BY <4>1 DEF Account
    <3> DEFINE r == [work[t] EXCEPT !.released = TRUE]
    <3>2. work' = [work EXCEPT ![t] = r]
      BY <2>2
    <3> HIDE DEF r
    <3>3. r \in Account /\ r.progress = work[t].progress /\ r.status = work[t].status
      BY <3>1 DEF r
    <3> QED
      BY <1>1, <3>2, <3>3
  <2> QED
    BY <1>1, <2>2, <2>3, TypeOfEvents
<1>5. CASE \E v \in Deltas : EnergyDelta(v)
  <2>1. PICK v \in Deltas : EnergyDelta(v)
    BY <1>5
  <2>2. /\ Event /\ capacity' = capacity /\ speed' = speed /\ closed' = closed /\ work' = work
        /\ energy' = Most(0, energy + v)
    BY <2>1, Zenon DEF EnergyDelta
  <2>3. energy' \in Nat
    BY <1>1, <2>2, Sizes DEF Most
  <2> QED
    BY <1>1, <2>2, <2>3, TypeOfEvents
<1>6. CASE \E v \in Permilles : SetSpeed(v)
  <2>1. PICK v \in Permilles : SetSpeed(v)
    BY <1>6
  <2>2. /\ Event /\ capacity' = capacity /\ energy' = energy /\ closed' = closed /\ work' = work
        /\ speed' = Most(1, (mission.speed * v) \div 1000)
    BY <2>1, Zenon DEF SetSpeed
  <2>3. speed' \in Nat \ {0}
    BY <1>3, <2>2
  <2> QED
    BY <1>1, <2>2, <2>3, TypeOfEvents
<1>7. CASE \E v \in Permilles : SetEndurance(v)
  <2>1. PICK v \in Permilles : SetEndurance(v)
    BY <1>7
  <2>2. /\ Event /\ speed' = speed /\ closed' = closed /\ work' = work
        /\ capacity' = Most(1, (mission.initial * v) \div 1000)
        /\ energy' = Least(energy, capacity')
    BY <2>1, Zenon DEF SetEndurance
  <2>3. capacity' \in Nat \ {0}
    BY <1>3, <2>2
  <2>4. energy' \in Nat
    BY <1>1, <2>2, <2>3 DEF Least
  <2> QED
    BY <1>1, <2>2, <2>3, <2>4, TypeOfEvents
<1>8. CASE \E e \in Edges, value \in BOOLEAN : SetClosed(e, value)
  <2>1. PICK e \in Edges, value \in BOOLEAN : SetClosed(e, value)
    BY <1>8
  <2>2. /\ Event /\ energy' = energy /\ capacity' = capacity /\ speed' = speed /\ work' = work
        /\ \/ closed' = closed \cup {e}
           \/ closed' = closed \ {e}
    BY <2>1, Zenon DEF SetClosed
  <2>3. closed' \subseteq Edges
    BY <1>1, <2>2
  <2> QED
    BY <1>1, <2>2, <2>3, TypeOfEvents
<1> QED
  BY <1>4, <1>5, <1>6, <1>7, <1>8 DEF SomeEvent

(* The steps, by whose turn it is.                                         *)
Agent ==
  \/ \E t \in Tasks : \/ GiveUp(t) \/ Work(t) \/ Travel(t)
                      \/ \E c \in Chargers : Charge(t, c) \/ GoCharging(t, c)
  \/ \E h \in mission.home : GoHome(h)
  \/ Rest

LEMMA Turns ==
  ASSUME Next
  PROVE  Agent \/ SomeEvent \/ ApplyActions \/ UpdateTasks
BY Zenon DEF Next, Agent, SomeEvent

LEMMA TypeStep ==
  ASSUME TypeInv, [Next]_vars
  PROVE  TypeInv'
<1>1. CASE Next
  <2>1. CASE Agent
    BY <2>1, TypeOfAgent, Zenon DEF Agent
  <2> QED
    BY <1>1, <2>1, Turns, TypeOfSomeEvent, TypeOfActions, TypeOfTasks
<1>2. CASE UNCHANGED vars
  BY <1>2 DEF vars, TypeInv, TypeOK, Order, Underway, Reaches, Tasks, Chargers
<1> QED
  BY <1>1, <1>2

(* The vehicle stays in the corridor and its energy is never negative: the *)
(* simulator's own safety invariants, for every mission and every sequence *)
(* of events.                                                              *)
THEOREM TypeCorrect == Spec => []TypeOK
<1>1. Init => TypeInv
  BY TypeStart
<1>2. TypeInv /\ [Next]_vars => TypeInv'
  BY TypeStep
<1>3. TypeInv => TypeOK
  BY DEF TypeInv
<1> QED
  BY <1>1, <1>2, <1>3, PTL DEF Spec

-----------------------------------------------------------------------------
(* The figures of a task.                                                  *)
LEMMA TaskFigures ==
  ASSUME TypeInv, NEW t \in Tasks
  PROVE  /\ RouteTicks(x, Target(t)) \in Nat /\ RouteEnergy(x, Target(t)) \in Nat
         /\ Left(t) \in Nat /\ Effort(t) \in Nat /\ Reserve \in Nat /\ Time(t) \in Int
<1>1. /\ mission \in Missions /\ x \in 0..(Columns * Cell) /\ speed \in Nat \ {0}
      /\ Target(t) \in Grid /\ mission.tasks[t] \in Task /\ tick \in Nat
  BY TypeFacts
<1>2. Left(t) \in Nat /\ mission.tasks[t].cost \in Nat
  BY <1>1 DEF Left, Task, TypeInv, TypeOK
<1>3. Effort(t) \in Nat
  <2> DEFINE n == Left(t)  c == mission.tasks[t].cost
  <2>1. n \in Nat /\ c \in Nat /\ Effort(t) = n * c
    BY <1>2 DEF Effort
  <2> HIDE DEF n, c
  <2> QED
    BY <2>1
<1>4. Time(t) \in Int
  BY <1>1 DEF Time, Task
<1> QED
  BY <1>1, <1>2, <1>3, <1>4, RouteFigures, ReserveNatural

(* An agent bids for exactly the tasks its behaviour tree would set out    *)
(* for: the planner's test, written as subtractions that must not go below *)
(* zero, and the tree's test, a sum, agree for every mission, whatever the *)
(* roundings of the figures they compare.                                  *)
THEOREM BidsServed == Spec => []BidsAreServed
<1>1. ASSUME TypeInv PROVE BidsAreServed
  <2> SUFFICES ASSUME NEW t \in Current
               PROVE  FeasibleRoute(t) <=> InTime(t) /\ ~Short(t)
    BY DEF BidsAreServed
  <2>1. t \in Tasks /\ work[t].status = "pending"
    BY DEF Current, Mine
  <2> DEFINE k == RouteTicks(x, Target(t))
             e == RouteEnergy(x, Target(t))
             n == Left(t)
             f == Effort(t)
             r == Reserve
             m == Time(t)
             a == mission.tasks[t].able /\ tick <= mission.tasks[t].deadline
                    /\ Allowed(x, Target(t))
  <2>2. k \in Nat /\ e \in Nat /\ n \in Nat /\ f \in Nat /\ r \in Nat /\ m \in Int /\ energy \in Nat
    BY <1>1, <2>1, TaskFigures, TypeFacts
  <2>3. FeasibleRoute(t) <=> /\ a /\ k <= m /\ n <= m - k /\ energy - r >= 0
                             /\ e <= energy - r /\ f <= energy - r - e
    BY <2>1, Zenon DEF FeasibleRoute
  <2>4. InTime(t) <=> a /\ k + n <= m
    BY Zenon DEF InTime
  <2>5. Short(t) <=> energy < e + f + r
    BY Zenon DEF Short
  <2> HIDE DEF k, e, n, f, r, m, a
  <2>6. (k <= m /\ n <= m - k /\ energy - r >= 0 /\ e <= energy - r /\ f <= energy - r - e)
          <=> (k + n <= m /\ ~(energy < e + f + r))
    BY <2>2
  <2> QED
    BY <2>3, <2>4, <2>5, <2>6, Zenon
<1>2. Init => TypeInv
  BY TypeStart
<1>3. TypeInv /\ [Next]_vars => TypeInv'
  BY TypeStep
<1>4. TypeInv => BidsAreServed
  BY <1>1
<1> QED
  BY <1>2, <1>3, <1>4, PTL DEF Spec

-----------------------------------------------------------------------------
(* What stands behind a promise.  At a decision, a task in hand is not one *)
(* that being there already completes, and service that has begun has the  *)
(* vehicle at the task.                                                    *)
Near(t) == Distance(x, Target(t)) <= mission.tasks[t].radius

Settled(t) ==
  Mine(t) => /\ work[t].progress > 0 => Near(t)
             /\ tick > 0 /\ mission.tasks[t].able /\ mission.tasks[t].service = 0 => ~Near(t)

(* Once the agent has set out: what it knew when it did.                   *)
Outset(t) ==
  /\ t \in Current /\ InTime(t) /\ tick < mission.tasks[t].deadline
  /\ \/ /\ promise.direct /\ ~Short(t) /\ Near(t)
        /\ act = OrderOf(t, TRUE, FALSE, 0, Nothing)
     \/ /\ promise.direct /\ ~Short(t) /\ ~Near(t) /\ work[t].progress = 0
        /\ act = OrderOf(t, FALSE, FALSE, Toward(Target(t)), Nothing)
     \/ /\ ~promise.direct /\ Short(t) /\ work[t].progress = 0
        /\ \E c \in Chargers :
             /\ Serves(t, c) /\ Distance(x, Site(c)) <= mission.chargers[c].radius
             /\ act = OrderOf(t, FALSE, FALSE, 0, c)
     \/ /\ ~promise.direct /\ Short(t) /\ work[t].progress = 0
        /\ \E c \in Chargers :
             /\ Serves(t, c) /\ Distance(x, Site(c)) > mission.chargers[c].radius
             /\ act = OrderOf(t, FALSE, FALSE, Toward(Site(c)), Nothing)

(* When the vehicle has moved or charged, and the tick is not yet counted: *)
(* unless it works, the plan would do with one tick less.                  *)
ServesIn(t, c, n) ==
  /\ Allowed(x, Site(c)) /\ RouteEnergy(x, Site(c)) <= energy
  /\ Allowed(Site(c), Target(t)) /\ Demand(t, c) <= capacity
  /\ RouteTicks(x, Site(c)) + ChargeTicks(t, c) + RouteTicks(Site(c), Target(t)) + Left(t) <= n

Midway(t) ==
  /\ t \in Current /\ mission.tasks[t].able /\ Allowed(x, Target(t)) /\ act.task = t
  /\ \/ /\ promise.direct /\ ~Short(t) /\ act.working /\ Near(t)
        /\ RouteTicks(x, Target(t)) + Left(t) <= Time(t)
     \/ /\ ~act.working /\ work[t].progress = 0
        /\ RouteTicks(x, Target(t)) + Left(t) <= Time(t) - 1
        /\ promise.direct => ~Short(t)
        /\ Short(t) => \E c \in Chargers : ServesIn(t, c, Time(t) - 1)

LateInv ==
  /\ TypeInv
  /\ phase = "agent" => \A t \in Tasks : Settled(t)
  /\ phase = "events" => \A t \in Tasks : promise.task = t => Outset(t)
  /\ phase = "tasks" => \A t \in Tasks : promise.task = t => tick < mission.tasks[t].deadline

PlanInv ==
  /\ LateInv
  /\ phase = "tasks" /\ Exact /\ (promise.direct \/ Centred) =>
       \A t \in Tasks : promise.task = t => Midway(t)
  /\ PlansHold

(* What does not change when the agent decides.                            *)
State == <<mission, tick, x, energy, capacity, speed, closed, work>>

LEMMA SameWays ==
  ASSUME UNCHANGED State
  PROVE  /\ Tasks' = Tasks /\ Chargers' = Chargers /\ Reserve' = Reserve
         /\ \A t \in Tasks : /\ Target(t)' = Target(t) /\ Left(t)' = Left(t)
                             /\ Time(t)' = Time(t) /\ Effort(t)' = Effort(t)
                             /\ Mine(t)' = Mine(t) /\ Near(t)' = Near(t)
                             /\ RouteTicks(x, Target(t))' = RouteTicks(x, Target(t))
                             /\ RouteEnergy(x, Target(t))' = RouteEnergy(x, Target(t))
                             /\ Allowed(x, Target(t))' = Allowed(x, Target(t))
                             /\ Toward(Target(t))' = Toward(Target(t))
         /\ \A c \in Chargers : /\ Distance(x, Site(c))' = Distance(x, Site(c))
                                /\ RouteTicks(x, Site(c))' = RouteTicks(x, Site(c))
                                /\ RouteEnergy(x, Site(c))' = RouteEnergy(x, Site(c))
                                /\ Allowed(x, Site(c))' = Allowed(x, Site(c))
                                /\ Toward(Site(c))' = Toward(Site(c))
         /\ \A t \in Tasks, c \in Chargers :
              /\ RouteTicks(Site(c), Target(t))' = RouteTicks(Site(c), Target(t))
              /\ RouteEnergy(Site(c), Target(t))' = RouteEnergy(Site(c), Target(t))
              /\ Allowed(Site(c), Target(t))' = Allowed(Site(c), Target(t))
<1>1. /\ mission' = mission /\ tick' = tick /\ x' = x /\ energy' = energy
      /\ capacity' = capacity /\ speed' = speed /\ closed' = closed /\ work' = work
  BY DEF State
<1>2. Tasks' = Tasks /\ Chargers' = Chargers /\ Reserve' = Reserve
  BY <1>1 DEF Tasks, Chargers, Reserve, CeilDiv
<1>3. \A t \in Tasks : /\ Target(t)' = Target(t) /\ Left(t)' = Left(t)
                       /\ Time(t)' = Time(t) /\ Effort(t)' = Effort(t)
                       /\ Mine(t)' = Mine(t) /\ Near(t)' = Near(t)
  BY <1>1 DEF Target, Left, Time, Effort, Mine, Near, Distance, Places
<1>4. \A t \in Tasks : RouteTicks(x, Target(t))' = RouteTicks(x, Target(t))
  BY <1>1 DEF RouteTicks, Waypoint, Ticks, CeilDiv, Distance, Target, Places
<1>5. \A t \in Tasks : RouteEnergy(x, Target(t))' = RouteEnergy(x, Target(t))
  BY <1>1 DEF RouteEnergy, LegEnergy, MotionEnergy, Waypoint, Distance, Least, Target, Places
<1>6. \A t \in Tasks : Allowed(x, Target(t))' = Allowed(x, Target(t))
  BY <1>1 DEF Allowed, Least, Most, Target, Places
<1>7. \A t \in Tasks : Toward(Target(t))' = Toward(Target(t))
  BY <1>1 DEF Toward, Velocity, Waypoint, Least, CeilDiv, Distance, Target, Places
<1>8. \A c \in Chargers : Distance(x, Site(c))' = Distance(x, Site(c))
  BY <1>1 DEF Distance, Site, Places
<1>9. \A c \in Chargers : RouteTicks(x, Site(c))' = RouteTicks(x, Site(c))
  BY <1>1 DEF RouteTicks, Waypoint, Ticks, CeilDiv, Distance, Site, Places
<1>10. \A c \in Chargers : RouteEnergy(x, Site(c))' = RouteEnergy(x, Site(c))
  BY <1>1 DEF RouteEnergy, LegEnergy, MotionEnergy, Waypoint, Distance, Least, Site, Places
<1>11. \A c \in Chargers : Allowed(x, Site(c))' = Allowed(x, Site(c))
  BY <1>1 DEF Allowed, Least, Most, Site, Places
<1>12. \A c \in Chargers : Toward(Site(c))' = Toward(Site(c))
  BY <1>1 DEF Toward, Velocity, Waypoint, Least, CeilDiv, Distance, Site, Places
<1>13. \A t \in Tasks, c \in Chargers :
         /\ RouteTicks(Site(c), Target(t))' = RouteTicks(Site(c), Target(t))
         /\ RouteEnergy(Site(c), Target(t))' = RouteEnergy(Site(c), Target(t))
         /\ Allowed(Site(c), Target(t))' = Allowed(Site(c), Target(t))
  <2> TAKE t \in Tasks, c \in Chargers
  <2>1. RouteTicks(Site(c), Target(t))' = RouteTicks(Site(c), Target(t))
    BY <1>1 DEF RouteTicks, Waypoint, Ticks, CeilDiv, Distance, Site, Target, Places
  <2>2. RouteEnergy(Site(c), Target(t))' = RouteEnergy(Site(c), Target(t))
    BY <1>1 DEF RouteEnergy, LegEnergy, MotionEnergy, Waypoint, Distance, Least, Site, Target,
                Places
  <2>3. Allowed(Site(c), Target(t))' = Allowed(Site(c), Target(t))
    BY <1>1 DEF Allowed, Least, Most, Site, Target, Places
  <2> QED
    BY <2>1, <2>2, <2>3
<1> QED
  BY <1>2, <1>3, <1>4, <1>5, <1>6, <1>7, <1>8, <1>9, <1>10, <1>11, <1>12, <1>13, Zenon

LEMMA SameFigures ==
  ASSUME UNCHANGED State
  PROVE  /\ Current' = Current
         /\ \A t \in Tasks : InTime(t)' = InTime(t) /\ Short(t)' = Short(t)
         /\ \A t \in Tasks, c \in Chargers : Serves(t, c)' = Serves(t, c)
<1>1. /\ mission' = mission /\ tick' = tick /\ x' = x /\ energy' = energy
      /\ capacity' = capacity /\ speed' = speed /\ closed' = closed /\ work' = work
  BY DEF State
<1>2. Current' = Current
  BY <1>1 DEF Current, Tasks, Mine, Sooner
<1>3. ASSUME NEW t \in Tasks
      PROVE  InTime(t)' = InTime(t) /\ Short(t)' = Short(t)
  <2>1. InTime(t)' = InTime(t)
    <3>1. /\ RouteTicks(x, Target(t))' = RouteTicks(x, Target(t)) /\ Left(t)' = Left(t)
          /\ Time(t)' = Time(t) /\ Allowed(x, Target(t))' = Allowed(x, Target(t))
      BY SameWays
    <3> QED
      BY <1>1, <3>1 DEF InTime
  <2>2. Short(t)' = Short(t)
    <3>1. /\ RouteEnergy(x, Target(t))' = RouteEnergy(x, Target(t)) /\ Effort(t)' = Effort(t)
          /\ Reserve' = Reserve
      BY SameWays
    <3> QED
      BY <1>1, <3>1 DEF Short
  <2> QED
    BY <2>1, <2>2
<1>4. ASSUME NEW t \in Tasks, NEW c \in Chargers
      PROVE  Serves(t, c)' = Serves(t, c)
  <2>1. /\ RouteTicks(x, Site(c))' = RouteTicks(x, Site(c)) /\ Left(t)' = Left(t)
        /\ RouteEnergy(x, Site(c))' = RouteEnergy(x, Site(c)) /\ Time(t)' = Time(t)
        /\ Allowed(x, Site(c))' = Allowed(x, Site(c)) /\ Effort(t)' = Effort(t)
        /\ RouteTicks(Site(c), Target(t))' = RouteTicks(Site(c), Target(t))
        /\ RouteEnergy(Site(c), Target(t))' = RouteEnergy(Site(c), Target(t))
        /\ Allowed(Site(c), Target(t))' = Allowed(Site(c), Target(t)) /\ Reserve' = Reserve
    BY SameWays
  <2>2. Demand(t, c)' = Demand(t, c)
    BY <2>1, Zenon DEF Demand
  <2>3. ChargeTicks(t, c)' = ChargeTicks(t, c)
    BY <1>1, <2>1, <2>2 DEF ChargeTicks, CeilDiv, Most
  <2> QED
    BY <1>1, <2>1, <2>2, <2>3 DEF Serves
<1> QED
  BY <1>2, <1>3, <1>4, Zenon

(* Whoever sets out in time is not late in this tick.                      *)
LEMMA NotLate ==
  ASSUME TypeInv, NEW t \in Current, InTime(t), Settled(t)
  PROVE  tick < mission.tasks[t].deadline
<1>1. t \in Tasks /\ Mine(t) /\ work[t].status = "pending"
  BY DEF Current, Mine
<1> DEFINE m == Time(t)  k == RouteTicks(x, Target(t))  n == Left(t)
<1>2. k \in Nat /\ n \in Nat /\ m \in Int /\ k + n <= m /\ mission.tasks[t].able
  BY <1>1, TaskFigures DEF InTime
<1>3. /\ tick \in Nat /\ x \in Nat /\ mission.tasks[t] \in Task /\ work[t] \in Account
      /\ Target(t) \in Grid /\ mission \in Missions /\ speed \in Nat \ {0}
      /\ x \in 0..(Columns * Cell)
  BY <1>1, TypeFacts
<1>4. m = mission.tasks[t].deadline - tick
  BY DEF Time
<1>5. mission.tasks[t].deadline \in Nat /\ mission.tasks[t].deadline >= 1
  BY <1>3, Sizes DEF Task
<1> HIDE DEF m, k, n
<1>6. CASE mission.tasks[t].service > 0
  <2>1. n >= 1
    <3>1. work[t].progress = 0 \/ work[t].progress < mission.tasks[t].service
      BY <1>1 DEF TypeInv, Underway
    <3>2. work[t].progress \in Nat /\ mission.tasks[t].service \in Nat
      BY <1>3 DEF Account, Task
    <3> QED
      BY <1>6, <3>1, <3>2 DEF n, Left
  <2> QED
    BY <1>2, <1>3, <1>4, <1>5, <2>1
<1>7. CASE x # Target(t)
  <2>1. k >= 1
    BY <1>3, <1>7, RouteFigures DEF k
  <2> QED
    BY <1>2, <1>3, <1>4, <1>5, <2>1
<1>8. CASE x = Target(t) /\ ~(mission.tasks[t].service > 0)
  <2>1. mission.tasks[t].service = 0 /\ mission.tasks[t].radius \in Nat
    BY <1>3, <1>8 DEF Task
  <2>2. Near(t)
    BY <1>3, <1>8, <2>1 DEF Near, Distance
  <2>3. tick = 0
    BY <1>1, <1>2, <1>3, <2>1, <2>2 DEF Settled
  <2> QED
    BY <1>5, <2>3
<1> QED
  BY <1>6, <1>7, <1>8

(* Setting out.                                                            *)
LEMMA SettingOut ==
  ASSUME TypeInv, NEW t \in Current, InTime(t), Settled(t), NEW a, NEW p, Decide(a, p),
         \/ /\ p.direct /\ ~Short(t) /\ Near(t)
            /\ a = OrderOf(t, TRUE, FALSE, 0, Nothing)
         \/ /\ p.direct /\ ~Short(t) /\ ~Near(t) /\ work[t].progress = 0
            /\ a = OrderOf(t, FALSE, FALSE, Toward(Target(t)), Nothing)
         \/ /\ ~p.direct /\ Short(t) /\ work[t].progress = 0
            /\ \E c \in Chargers :
                 /\ Serves(t, c) /\ Distance(x, Site(c)) <= mission.chargers[c].radius
                 /\ a = OrderOf(t, FALSE, FALSE, 0, c)
         \/ /\ ~p.direct /\ Short(t) /\ work[t].progress = 0
            /\ \E c \in Chargers :
                 /\ Serves(t, c) /\ Distance(x, Site(c)) > mission.chargers[c].radius
                 /\ a = OrderOf(t, FALSE, FALSE, Toward(Site(c)), Nothing)
  PROVE  Outset(t)'
<1>1. /\ UNCHANGED State /\ mission' = mission /\ tick' = tick /\ x' = x /\ work' = work
      /\ act' = a /\ promise' = p
  BY DEF Decide, State
<1>2. t \in Tasks
  BY DEF Current
<1>3. /\ Current' = Current /\ InTime(t)' = InTime(t) /\ Short(t)' = Short(t)
      /\ \A c \in Chargers : Serves(t, c)' = Serves(t, c)
  BY <1>1, <1>2, SameFigures
<1>4. /\ Near(t)' = Near(t) /\ Toward(Target(t))' = Toward(Target(t)) /\ Chargers' = Chargers
      /\ \A c \in Chargers : /\ Distance(x, Site(c))' = Distance(x, Site(c))
                             /\ Toward(Site(c))' = Toward(Site(c))
  BY <1>1, <1>2, SameWays
<1>5. (tick < mission.tasks[t].deadline)'
  BY <1>1, NotLate
<1>6. (t \in Current)' /\ InTime(t)'
  BY <1>3
<1>7. CASE p.direct /\ ~Short(t) /\ Near(t) /\ a = OrderOf(t, TRUE, FALSE, 0, Nothing)
  BY <1>1, <1>3, <1>4, <1>5, <1>6, <1>7 DEF Outset, OrderOf, Nothing
<1>8. CASE /\ p.direct /\ ~Short(t) /\ ~Near(t) /\ work[t].progress = 0
           /\ a = OrderOf(t, FALSE, FALSE, Toward(Target(t)), Nothing)
  BY <1>1, <1>3, <1>4, <1>5, <1>6, <1>8 DEF Outset, OrderOf, Nothing
<1>9. CASE /\ ~p.direct /\ Short(t) /\ work[t].progress = 0
           /\ \E c \in Chargers :
                /\ Serves(t, c) /\ Distance(x, Site(c)) <= mission.chargers[c].radius
                /\ a = OrderOf(t, FALSE, FALSE, 0, c)
  BY <1>1, <1>3, <1>4, <1>5, <1>6, <1>9 DEF Outset, OrderOf, Nothing
<1>10. CASE /\ ~p.direct /\ Short(t) /\ work[t].progress = 0
            /\ \E c \in Chargers :
                 /\ Serves(t, c) /\ Distance(x, Site(c)) > mission.chargers[c].radius
                 /\ a = OrderOf(t, FALSE, FALSE, Toward(Site(c)), Nothing)
  BY <1>1, <1>3, <1>4, <1>5, <1>6, <1>10 DEF Outset, OrderOf, Nothing
<1> QED
  BY <1>7, <1>8, <1>9, <1>10

LEMMA AgentSetsOut ==
  ASSUME TypeInv, \A t \in Tasks : Settled(t), Agent
  PROVE  phase' = "events" /\ (\A t \in Tasks : promise.task = t => Outset(t))'
<1>1. \A a, p : Decide(a, p) => /\ phase' = "events" /\ promise' = p /\ mission' = mission
                                /\ Tasks' = Tasks
  BY DEF Decide, Tasks
<1>2. Nothing \notin Tasks
  BY TypeFacts
<1>3. ASSUME NEW a, Decide(a, NoPromise)
      PROVE  phase' = "events" /\ (\A t \in Tasks : promise.task = t => Outset(t))'
  <2>1. phase' = "events" /\ promise' = NoPromise /\ Tasks' = Tasks
    BY <1>1, <1>3, Zenon
  <2>2. promise'.task \notin Tasks
    BY <1>2, <2>1 DEF NoPromise
  <2> QED
    BY <2>1, <2>2
<1>4. ASSUME NEW t \in Tasks, NEW a, NEW p, Decide(a, p), p.task = t, Outset(t)'
      PROVE  phase' = "events" /\ (\A u \in Tasks : promise.task = u => Outset(u))'
  <2>1. phase' = "events" /\ promise' = p /\ Tasks' = Tasks
    BY <1>1, <1>4, Zenon
  <2>2. promise'.task = t
    BY <1>4, <2>1
  <2>3. ASSUME NEW u \in Tasks', promise'.task = u PROVE Outset(u)'
    <3>1. u = t
      BY <2>2, <2>3
    <3> QED
      BY <1>4, <3>1
  <2> QED
    BY <2>1, <2>3
<1>5. ASSUME NEW t \in Current PROVE t \in Tasks /\ Mine(t) /\ Settled(t)
  BY DEF Current
<1>6. ASSUME NEW t \in Tasks
      PROVE  /\ Distance(x, Target(t)) \in Nat /\ mission.tasks[t].radius \in Nat
             /\ work[t].progress \in Nat
  <2>1. x \in Nat /\ Target(t) \in Nat /\ mission.tasks[t] \in Task /\ work[t] \in Account
    BY TypeFacts, GridFacts
  <2> QED
    BY <2>1 DEF Distance, Task, Account
<1>7. CASE \E t \in Tasks : GiveUp(t)
  <2>1. PICK t \in Tasks : GiveUp(t)
    BY <1>7
  <2>2. Decide([Idle EXCEPT !.task = t, !.rejected = TRUE], NoPromise)
    BY <2>1, Zenon DEF GiveUp
  <2> QED
    BY <1>3, <2>2, Zenon
<1>8. CASE \E h \in mission.home : GoHome(h)
  <2>1. PICK h \in mission.home : GoHome(h)
    BY <1>8
  <2>2. Decide([Idle EXCEPT !.velocity = Toward(Places(h.at))], NoPromise)
    BY <2>1, Zenon DEF GoHome
  <2> QED
    BY <1>3, <2>2, Zenon
<1>9. CASE Rest
  <2>1. Decide(Idle, NoPromise)
    BY <1>9, Zenon DEF Rest
  <2> QED
    BY <1>3, <2>1, Zenon
<1>10. CASE \E t \in Tasks : Work(t)
  <2>1. PICK t \in Tasks : Work(t)
    BY <1>10
  <2> DEFINE a == [Idle EXCEPT !.task = t, !.working = TRUE]
             p == [task |-> t, direct |-> TRUE]
  <2>2. /\ t \in Current /\ InTime(t) /\ ~Short(t) /\ Decide(a, p)
        /\ Distance(x, Target(t)) <= mission.tasks[t].radius
    BY <2>1, Zenon DEF Work
  <2>3. a = OrderOf(t, TRUE, FALSE, 0, Nothing)
    BY TheOrders, Zenon
  <2>4. Near(t) /\ p.direct /\ p.task = t
    BY <2>2 DEF Near
  <2> HIDE DEF a, p
  <2>5. Outset(t)'
    BY <1>5, <2>2, <2>3, <2>4, SettingOut
  <2> QED
    BY <1>4, <2>2, <2>4, <2>5, Zenon
<1>11. CASE \E t \in Tasks : Travel(t)
  <2>1. PICK t \in Tasks : Travel(t)
    BY <1>11
  <2> DEFINE a == [Idle EXCEPT !.task = t, !.velocity = Toward(Target(t))]
             p == [task |-> t, direct |-> TRUE]
  <2>2. /\ t \in Current /\ InTime(t) /\ ~Short(t) /\ Decide(a, p)
        /\ Distance(x, Target(t)) > mission.tasks[t].radius
    BY <2>1, Zenon DEF Travel
  <2>3. a = OrderOf(t, FALSE, FALSE, Toward(Target(t)), Nothing)
    BY TheOrders, Zenon
  <2>4. ~Near(t) /\ p.direct /\ p.task = t
    BY <1>6, <2>2 DEF Near
  <2>5. work[t].progress = 0
    BY <1>5, <1>6, <2>2, <2>4 DEF Settled
  <2> HIDE DEF a, p
  <2>6. Outset(t)'
    BY <1>5, <2>2, <2>3, <2>4, <2>5, SettingOut
  <2> QED
    BY <1>4, <2>2, <2>4, <2>6, Zenon
<1>12. CASE \E t \in Tasks, c \in Chargers : Charge(t, c)
  <2>1. PICK t \in Tasks, c \in Chargers : Charge(t, c)
    BY <1>12
  <2> DEFINE a == [Idle EXCEPT !.task = t, !.charger = c]
             p == [task |-> t, direct |-> FALSE]
  <2>2. /\ t \in Current /\ InTime(t) /\ Short(t) /\ Decide(a, Detour(t)) /\ c \in Selected(t)
        /\ Distance(x, Site(c)) <= mission.chargers[c].radius
    BY <2>1, Zenon DEF Charge
  <2>3. a = OrderOf(t, FALSE, FALSE, 0, c)
    BY TheOrders, Zenon
  <2>4. Serves(t, c)
    BY <2>2 DEF Selected
  <2>5. ~p.direct /\ p.task = t
    OBVIOUS
  <2>6. CASE work[t].progress = 0
    <3>1. Decide(a, p)
      BY <2>2, <2>6 DEF Detour
    <3> HIDE DEF a, p
    <3>2. Outset(t)'
      BY <1>5, <2>2, <2>3, <2>4, <2>5, <2>6, <3>1, SettingOut
    <3> QED
      BY <1>4, <2>5, <3>1, <3>2, Zenon
  <2>7. CASE work[t].progress # 0
    <3>1. Decide(a, NoPromise)
      BY <2>2, <2>7 DEF Detour
    <3> QED
      BY <1>3, <3>1, Zenon
  <2> QED
    BY <2>6, <2>7
<1>13. CASE \E t \in Tasks, c \in Chargers : GoCharging(t, c)
  <2>1. PICK t \in Tasks, c \in Chargers : GoCharging(t, c)
    BY <1>13
  <2> DEFINE a == [Idle EXCEPT !.task = t, !.velocity = Toward(Site(c))]
             p == [task |-> t, direct |-> FALSE]
  <2>2. /\ t \in Current /\ InTime(t) /\ Short(t) /\ Decide(a, Detour(t)) /\ c \in Selected(t)
        /\ Distance(x, Site(c)) > mission.chargers[c].radius
    BY <2>1, Zenon DEF GoCharging
  <2>3. a = OrderOf(t, FALSE, FALSE, Toward(Site(c)), Nothing)
    BY TheOrders, Zenon
  <2>4. Serves(t, c)
    BY <2>2 DEF Selected
  <2>5. ~p.direct /\ p.task = t
    OBVIOUS
  <2>6. CASE work[t].progress = 0
    <3>1. Decide(a, p)
      BY <2>2, <2>6 DEF Detour
    <3> HIDE DEF a, p
    <3>2. Outset(t)'
      BY <1>5, <2>2, <2>3, <2>4, <2>5, <2>6, <3>1, SettingOut
    <3> QED
      BY <1>4, <2>5, <3>1, <3>2, Zenon
  <2>7. CASE work[t].progress # 0
    <3>1. Decide(a, NoPromise)
      BY <2>2, <2>7 DEF Detour
    <3> QED
      BY <1>3, <3>1, Zenon
  <2> QED
    BY <2>6, <2>7
<1> QED
  BY <1>7, <1>8, <1>9, <1>10, <1>11, <1>12, <1>13, Zenon DEF Agent

(* What a tick leaves of a task.                                           *)
LEMMA AfterFacts ==
  ASSUME TypeInv, NEW t \in Tasks
  PROVE  /\ After(t).released = work[t].released /\ After(t).mine = work[t].mine
         /\ After(t).status = "missed" =>
              work[t].status = "missed" \/ tick + 1 > mission.tasks[t].deadline
         /\ work[t].released /\ work[t].mine /\ After(t).status = "pending" =>
              /\ work[t].status = "pending" /\ tick + 1 <= mission.tasks[t].deadline
              /\ mission.tasks[t].service = 0 => ~There(t) /\ After(t).progress = work[t].progress
              /\ mission.tasks[t].service # 0 =>
                   IF Served(t) THEN After(t).progress = work[t].progress + 1
                   ELSE After(t).progress = 0
         /\ work[t].status = "pending" /\ work[t].mine /\ work[t].released =>
              After(t).status \in {"pending", "completed", "missed"}
<1>1. work[t] \in Account /\ mission.tasks[t] \in Task /\ tick \in Nat
  BY TypeFacts
<1>2. /\ work[t].progress \in Nat /\ work[t].progress + 1 \in Nat
      /\ mission.tasks[t].service \in Nat /\ mission.tasks[t].deadline \in Nat
  BY <1>1 DEF Account, Task
<1>3. CASE ~work[t].released \/ work[t].status # "pending"
  <2>1. After(t) = work[t]
    BY <1>3, Zenon DEF After
  <2> QED
    BY <1>1, <1>3, <2>1
<1>4. CASE work[t].released /\ work[t].status = "pending" /\ tick + 1 > mission.tasks[t].deadline
  <2>1. After(t) = AccountOf(work[t].released, "missed", work[t].mine, 0)
    <3>1. After(t) = [work[t] EXCEPT !.status = "missed", !.progress = 0]
      BY <1>4, Zenon DEF After
    <3> QED
      BY <1>1, <3>1, GivenUp, Zenon
  <2> QED
    BY <1>1, <1>4, <2>1 DEF AccountOf
<1>5. CASE /\ work[t].released /\ work[t].status = "pending"
           /\ ~(tick + 1 > mission.tasks[t].deadline)
  <2>1. tick + 1 <= mission.tasks[t].deadline
    BY <1>1, <1>2, <1>5
  <2>2. CASE ~work[t].mine
    <3>1. After(t) = work[t]
      BY <1>5, <2>2, Zenon DEF After
    <3> QED
      BY <1>5, <2>2, <3>1
  <2>3. CASE work[t].mine /\ mission.tasks[t].service = 0 /\ There(t)
    <3>1. After(t) = [work[t] EXCEPT !.status = "completed"]
      BY <1>5, <2>3, Zenon DEF After
    <3>2. After(t) = AccountOf(work[t].released, "completed", work[t].mine, work[t].progress)
      BY <1>1, <3>1, AccountEdit, Zenon
    <3> QED
      BY <3>2 DEF AccountOf
  <2>4. CASE work[t].mine /\ mission.tasks[t].service = 0 /\ ~There(t)
    <3>1. After(t) = work[t]
      BY <1>5, <2>4, Zenon DEF After
    <3> QED
      BY <1>5, <2>1, <2>4, <3>1
  <2>5. CASE work[t].mine /\ mission.tasks[t].service # 0 /\ ~Served(t)
    <3>1. After(t) = [work[t] EXCEPT !.progress = 0]
      BY <1>5, <2>5, Zenon DEF After
    <3>2. After(t) = AccountOf(work[t].released, work[t].status, work[t].mine, 0)
      BY <1>1, <3>1, AccountEdit, Zenon
    <3> QED
      BY <1>5, <2>1, <2>5, <3>2 DEF AccountOf
  <2>6. CASE work[t].mine /\ mission.tasks[t].service # 0 /\ Served(t)
    <3> DEFINE n == work[t].progress + 1
               s == IF n >= mission.tasks[t].service THEN "completed" ELSE "pending"
    <3>1. After(t) = [work[t] EXCEPT !.progress = n, !.status = s]
      BY <1>5, <2>6, Zenon DEF After
    <3>2. n \in Nat /\ s \in {"pending", "completed"}
      BY <1>2
    <3> HIDE DEF s
    <3>3. After(t) = AccountOf(work[t].released, s, work[t].mine, n)
      <4> HIDE DEF n
      <4> QED
        BY <1>1, <3>1, <3>2, WorkedOn, Zenon
    <3> QED
      BY <1>5, <2>1, <2>6, <3>2, <3>3 DEF AccountOf
  <2> QED
    BY <1>5, <2>2, <2>3, <2>4, <2>5, <2>6
<1> QED
  BY <1>3, <1>4, <1>5

LEMMA TickSettles ==
  ASSUME TypeInv, UpdateTasks
  PROVE  (\A t \in Tasks : Settled(t))'
<1>1. /\ mission' = mission /\ x' = x /\ Tasks' = Tasks
      /\ work' = [t \in Tasks |-> After(t)]
  BY Zenon DEF UpdateTasks, Tasks
<1> SUFFICES ASSUME NEW t \in Tasks PROVE Settled(t)'
  BY <1>1
<1>2. work'[t] = After(t)
  BY <1>1
<1>3. Near(t)' <=> Near(t)
  BY <1>1 DEF Near, Distance, Target, Places
<1>4. ASSUME Mine(t)'
      PROVE  /\ work'[t].progress > 0 => Near(t)
             /\ mission.tasks[t].able /\ mission.tasks[t].service = 0 => ~Near(t)
  <2>1. /\ work'[t].released /\ work'[t].status = "pending" /\ work'[t].mine
    BY <1>4 DEF Mine
  <2>2. /\ work[t].released /\ work[t].mine /\ After(t).status = "pending"
    BY <1>2, <2>1, AfterFacts
  <2>3. /\ work[t].status = "pending"
        /\ mission.tasks[t].service = 0 => ~There(t) /\ After(t).progress = work[t].progress
        /\ mission.tasks[t].service # 0 =>
             IF Served(t) THEN After(t).progress = work[t].progress + 1
             ELSE After(t).progress = 0
    BY <2>2, AfterFacts
  <2>4. There(t) <=> mission.tasks[t].able /\ Near(t)
    BY <2>2 DEF There, Near
  <2>5. Served(t) => There(t)
    BY DEF Served
  <2>6. mission.tasks[t].service = 0 => work[t].progress = 0
    BY DEF TypeInv, TypeOK
  <2> QED
    BY <1>2, <2>3, <2>4, <2>5, <2>6
<1> QED
  BY <1>1, <1>3, <1>4 DEF Settled

LEMMA LateStart ==
  ASSUME Init
  PROVE  LateInv
<1>1. TypeInv /\ phase = "agent" /\ tick = 0
  BY TypeStart DEF Init
<1>2. \A t \in Tasks : work[t].progress = 0
  BY DEF Init
<1> QED
  BY <1>1, <1>2 DEF LateInv, Settled

LEMMA EventEndsPromise ==
  ASSUME TypeInv, SomeEvent
  PROVE  phase' = "events" /\ Tasks' = Tasks /\ promise'.task \notin Tasks' /\ promise' = NoPromise
<1>1. Event
  BY EventFacts
<1>2. phase' = "events" /\ promise' = NoPromise /\ mission' = mission
  BY <1>1 DEF Event
<1>3. NoPromise.task \notin Tasks
  BY TypeFacts DEF NoPromise
<1> QED
  BY <1>2, <1>3 DEF Tasks

LEMMA LateStep ==
  ASSUME LateInv, [Next]_vars
  PROVE  LateInv'
<1>1. TypeInv /\ TypeInv'
  BY TypeStep DEF LateInv
<1>2. CASE Agent
  <2>1. phase = "agent"
    BY <1>2, Zenon DEF Agent, GiveUp, Work, Travel, Charge, GoCharging, GoHome, Rest, Decide
  <2>2. phase' = "events" /\ (\A t \in Tasks : promise.task = t => Outset(t))'
    BY <1>1, <1>2, <2>1, AgentSetsOut DEF LateInv
  <2> QED
    BY <1>1, <2>2 DEF LateInv
<1>3. CASE SomeEvent
  <2>1. phase' = "events" /\ promise'.task \notin Tasks'
    BY <1>1, <1>3, EventEndsPromise
  <2> QED
    BY <1>1, <2>1 DEF LateInv
<1>4. CASE ApplyActions
  <2>1. /\ phase = "events" /\ phase' = "tasks" /\ mission' = mission /\ tick' = tick
        /\ promise' = promise
    BY <1>4, Zenon DEF ApplyActions
  <2>2. \A t \in Tasks : promise.task = t => tick < mission.tasks[t].deadline
    BY <2>1 DEF LateInv, Outset
  <2>3. (\A t \in Tasks : promise.task = t => tick < mission.tasks[t].deadline)'
    BY <2>1, <2>2 DEF Tasks
  <2> QED
    BY <1>1, <2>1, <2>3 DEF LateInv
<1>5. CASE UpdateTasks
  <2>1. phase' = "agent"
    BY <1>5, Zenon DEF UpdateTasks
  <2>2. (\A t \in Tasks : Settled(t))'
    BY <1>1, <1>5, TickSettles
  <2> QED
    BY <1>1, <2>1, <2>2 DEF LateInv
<1>6. CASE UNCHANGED vars
  <2>1. UNCHANGED State /\ act' = act /\ promise' = promise /\ phase' = phase /\ UNCHANGED vars
    BY <1>6 DEF vars, State
  <2>2. mission' = mission /\ tick' = tick /\ work' = work
    BY <2>1 DEF State
  <2>3. ASSUME NEW t \in Tasks
        PROVE  Settled(t)' = Settled(t) /\ Outset(t)' = Outset(t)
    <3>1. Near(t)' = Near(t) /\ Mine(t)' = Mine(t)
      BY <2>1, SameWays
    <3>2. Settled(t)' = Settled(t)
      BY <2>2, <3>1 DEF Settled
    <3>3. /\ Current' = Current /\ InTime(t)' = InTime(t) /\ Short(t)' = Short(t)
          /\ \A c \in Chargers : Serves(t, c)' = Serves(t, c)
      BY <2>1, SameFigures
    <3>4. /\ Toward(Target(t))' = Toward(Target(t)) /\ Chargers' = Chargers
          /\ \A c \in Chargers : /\ Distance(x, Site(c))' = Distance(x, Site(c))
                                 /\ Toward(Site(c))' = Toward(Site(c))
      BY <2>1, SameWays
    <3>5. Outset(t)' = Outset(t)
      BY <2>1, <2>2, <3>1, <3>3, <3>4 DEF Outset, OrderOf, Nothing
    <3> QED
      BY <3>2, <3>5
  <2>4. Tasks' = Tasks
    BY <2>2 DEF Tasks
  <2> QED
    BY <1>1, <2>1, <2>2, <2>3, <2>4 DEF LateInv
<1> QED
  BY <1>2, <1>3, <1>4, <1>5, <1>6, Turns

LEMMA NotMissed ==
  ASSUME LateInv, [Next]_vars, NEW t \in Tasks, promise.task = t, work[t].status = "pending"
  PROVE  work'[t].status # "missed"
<1>1. TypeInv /\ tick \in Nat /\ work[t] \in Account /\ mission.tasks[t].deadline \in Nat
  BY TypeFacts DEF LateInv, Task
<1>2. CASE Agent
  <2>1. work' = work
    BY <1>2, Zenon DEF Agent, GiveUp, Work, Travel, Charge, GoCharging, GoHome, Rest, Decide
  <2> QED
    BY <2>1
<1>3. CASE SomeEvent
  <2>1. work' = work \/ \E u \in Tasks : work' = [work EXCEPT ![u].released = TRUE]
    BY <1>3, EventFacts
  <2>2. CASE \E u \in Tasks : work' = [work EXCEPT ![u].released = TRUE]
    <3>1. PICK u \in Tasks : work' = [work EXCEPT ![u].released = TRUE]
      BY <2>2
    <3>2. work \in [Tasks -> Account] /\ work[u] \in Account
      BY <1>1 DEF TypeInv
    <3> DEFINE r == [work[u] EXCEPT !.released = TRUE]
    <3>3. r.status = work[u].status
      BY <3>2 DEF Account
    <3>4. work' = [work EXCEPT ![u] = r]
      BY <3>1
    <3> HIDE DEF r
    <3>5. work'[t].status = work[t].status
      BY <3>2, <3>3, <3>4
    <3> QED
      BY <3>5
  <2> QED
    BY <2>1, <2>2
<1>4. CASE ApplyActions
  <2>1. \/ work'[t] = work[t]
        \/ work'[t] = [work[t] EXCEPT !.mine = FALSE, !.progress = 0]
    BY <1>4, Zenon DEF ApplyActions
  <2>2. CASE work'[t] = [work[t] EXCEPT !.mine = FALSE, !.progress = 0]
    <3>1. work'[t] = AccountOf(work[t].released, work[t].status, FALSE, 0)
      BY <1>1, <2>2, GivenBack, Zenon
    <3> QED
      BY <3>1 DEF AccountOf
  <2> QED
    BY <2>1, <2>2
<1>5. CASE UpdateTasks
  <2>1. phase = "tasks" /\ work' = [u \in Tasks |-> After(u)]
    BY <1>5, Zenon DEF UpdateTasks
  <2>2. work'[t] = After(t)
    BY <2>1
  <2>3. tick < mission.tasks[t].deadline
    BY <2>1 DEF LateInv
  <2>4. ~(tick + 1 > mission.tasks[t].deadline)
    BY <1>1, <2>3
  <2> QED
    BY <1>1, <2>2, <2>4, AfterFacts
<1>6. CASE UNCHANGED vars
  BY <1>6 DEF vars
<1> QED
  BY <1>2, <1>3, <1>4, <1>5, <1>6, Turns

(* No deadline passes on a task the agent has set out for, at any speed,   *)
(* unless it was disturbed in that tick.                                   *)
THEOREM NeverLate == Spec => NeverLateInHand
<1>1. Init => LateInv
  BY LateStart
<1>2. LateInv /\ [Next]_vars => LateInv'
  BY LateStep
<1>3. LateInv /\ [Next]_vars =>
        \A t \in Tasks : promise.task = t /\ work[t].status = "pending" =>
          work'[t].status # "missed"
  BY NotMissed
<1>4. LateInv /\ [Next]_vars =>
        [\A t \in Tasks : promise.task = t /\ work[t].status = "pending" =>
           work'[t].status # "missed"]_vars
  BY <1>3
<1> QED
  BY <1>1, <1>2, <1>4, PTL DEF Spec, NeverLateInHand

-----------------------------------------------------------------------------
(* Motion at an exact speed: a tick's way, or up to the point.             *)
LEMMA ExactMotion ==
  ASSUME speed \in Nat \ {0}, Exact, x \in Nat, NEW w \in Nat, act.velocity = Velocity(w)
  PROVE  Moved \in Between(x, w) /\ Distance(x, Moved) = Least(Pace, Distance(x, w))
<1> DEFINE g == Distance(x, w)
           c == CeilDiv(g * 1000, Step)
           h == Least(speed, c)
           d == (h * Step) \div 1000
<1>1. g \in Nat /\ g * 1000 \in Nat
  BY DEF Distance
<1>2. c \in Nat /\ g * 1000 <= c * Step /\ c * Step < g * 1000 + Step
  <2> DEFINE a == g * 1000
  <2>1. a \in Nat
    BY <1>1
  <2> HIDE DEF a, g
  <2>2. CeilDiv(a, Step) \in Nat /\ a <= CeilDiv(a, Step) * Step
        /\ CeilDiv(a, Step) * Step < a + Step
    BY <2>1, Sizes, CeilBounds
  <2> QED
    BY <2>2 DEF a
<1>3. Pace \in Nat \ {0} /\ speed * Step = Pace * 1000
  BY PaceFacts
<1>4. act.velocity = IF w < x THEN -h ELSE h
  BY DEF Velocity
<1> HIDE DEF c
<1>5. h \in Nat /\ h <= speed
  BY <1>2 DEF Least
<1>6. Least(Distance(0, act.velocity), speed) = h /\ (act.velocity < 0 => w < x)
      /\ (w < x => act.velocity < 0 \/ h = 0)
  <2> HIDE DEF h
  <2> QED
    BY <1>4, <1>5 DEF Least, Distance
<1>7. Moved = IF act.velocity < 0 THEN x - d ELSE x + d
  BY <1>6 DEF Moved
<1>8. d = Least(Pace, g)
  <2>1. CASE c <= speed
    <3>1. h = c
      BY <1>2, <2>1 DEF Least
    <3>2. c * Step <= speed * Step
      BY <1>2, <2>1, Sizes, TimesGrows
    <3> DEFINE e == c * Step
    <3>3. e \in Int /\ g * 1000 <= e /\ e < g * 1000 + 1000 /\ e <= Pace * 1000
      BY <1>1, <1>2, <1>3, <3>2, Sizes
    <3> HIDE DEF e
    <3>4. e \div 1000 = g
      BY <1>1, <3>3, DivUnique
    <3>5. g <= Pace
      BY <1>1, <1>3, <3>3
    <3>6. d = g
      BY <3>1, <3>4 DEF e
    <3> HIDE DEF d, g, h
    <3> QED
      BY <1>1, <1>3, <3>5, <3>6 DEF Least
  <2>2. CASE ~(c <= speed)
    <3>1. h = speed
      BY <1>2, <2>2 DEF Least
    <3>2. d = Pace
      BY <3>1 DEF Pace
    <3>3. (speed + 1) * Step <= c * Step /\ (speed + 1) * Step = speed * Step + Step
      BY <1>2, <2>2, Sizes, TimesGrows
    <3> DEFINE e == c * Step
    <3>4. e \in Int /\ e < g * 1000 + Step /\ Pace * 1000 + Step <= e
      BY <1>2, <1>3, <3>3, Sizes
    <3> HIDE DEF e, g, h, d
    <3>5. Pace < g
      BY <1>1, <1>3, <3>4, Sizes
    <3> QED
      BY <1>1, <1>3, <3>2, <3>5 DEF Least
  <2> QED
    BY <2>1, <2>2
<1> HIDE DEF d, h, g
<1>9. d \in Nat /\ d <= g /\ (h = 0 => d = 0)
  <2>1. h = 0 => d = 0
    BY Sizes DEF d
  <2> QED
    BY <1>1, <1>3, <1>8, <2>1 DEF Least
<1>10. Moved \in Between(x, w) /\ Distance(x, Moved) = d
  BY <1>6, <1>7, <1>9 DEF Between, Least, Most, Distance, g
<1> QED
  BY <1>8, <1>10 DEF g

(* A tick's motion along a route: it takes a tick off, what it costs and   *)
(* what is left cost no more than what was expected, and neither part      *)
(* enters an edge that the whole does not enter.                           *)
LEMMA OneTickOn ==
  ASSUME mission \in Missions, speed \in Nat \ {0}, Exact,
         NEW p \in 0..(Columns * Cell), NEW q \in Grid, p # q,
         NEW y \in Between(p, Waypoint(p, q)),
         Distance(p, y) = Least(Pace, Distance(p, Waypoint(p, q)))
  PROVE  /\ y \in 0..(Columns * Cell)
         /\ RouteTicks(y, q) <= RouteTicks(p, q) - 1
         /\ LegEnergy(p, y) \in Nat
         /\ LegEnergy(p, y) + RouteEnergy(y, q) <= RouteEnergy(p, q)
         /\ y \in Between(p, q)
<1>1. PICK k, w, n, f : OnTheWay(p, q, k, w, n, f)
  BY TheWay
<1>2. /\ k \in Edges /\ n \in Nat /\ f \in Nat /\ w = Waypoint(p, q) /\ w # p
      /\ p \in Places(k)..Places(k + 1) /\ w \in Places(k)..Places(k + 1)
      /\ (p < q /\ p < w /\ w <= q) \/ (q < p /\ w < p /\ q <= w)
  BY <1>1, Zenon DEF OnTheWay
<1>3. /\ Places(k) \in Nat /\ Places(k + 1) \in Nat /\ Places(k + 1) <= Columns * Cell
      /\ Columns * Cell \in Nat /\ Cell \in Nat /\ q \in Nat
  BY <1>2, EdgeFacts, GridFacts
<1>4. p \in Nat /\ w \in Nat /\ y \in Between(p, w)
  BY <1>2, <1>3
<1>5. /\ y \in Nat /\ y \in Places(k)..Places(k + 1) /\ y \in 0..(Columns * Cell)
      /\ p \in Between(p, w) /\ y \in Between(p, q)
  BY <1>2, <1>3, <1>4 DEF Between, Least, Most
<1> DEFINE g == Distance(p, w)
           a == Distance(p, y)
           b == Distance(y, w)
<1>6. g \in Nat /\ a \in Nat /\ b \in Nat /\ g = a + b /\ g > 0
  BY <1>2, <1>4, <1>5 DEF Distance, Between, Least, Most
<1>7. a = Least(Pace, g)
  BY <1>2
<1>8. /\ RouteTicks(p, q) = Ticks(g) + n * Ticks(Cell)
      /\ RouteTicks(y, q) = Ticks(b) + n * Ticks(Cell)
      /\ RouteEnergy(p, q) = MotionEnergy(g, mission.terrain[k]) + f
      /\ RouteEnergy(y, q) = MotionEnergy(b, mission.terrain[k]) + f
  BY <1>1, <1>4, <1>5, Zenon DEF OnTheWay
<1>9. LegEnergy(p, y) = MotionEnergy(a, mission.terrain[k])
  BY <1>2, <1>4, <1>5, WithinAnEdge DEF Places
<1> HIDE DEF g, a, b
<1>10. /\ MotionEnergy(a, mission.terrain[k]) + MotionEnergy(b, mission.terrain[k])
            <= MotionEnergy(g, mission.terrain[k])
       /\ MotionEnergy(a, mission.terrain[k]) \in Nat
       /\ MotionEnergy(b, mission.terrain[k]) \in Nat
       /\ MotionEnergy(g, mission.terrain[k]) \in Nat
  <2>1. mission.cost \in Nat /\ mission.terrain[k] \in Nat
    BY <1>2, MissionFacts
  <2> QED
    BY <1>6, <2>1, EnergyOfParts, EnergyNatural
<1>11. Ticks(b) <= Ticks(g) - 1
  <2>1. Pace \in Nat \ {0} /\ Ticks(g) \in Nat /\ Ticks(g) >= 1
    BY <1>6, PaceFacts, TicksFacts
  <2>2. CASE Pace <= g
    <3>1. b = g - Pace
      BY <1>6, <1>7, <2>1, <2>2 DEF Least
    <3>2. Ticks(g - Pace) = Ticks(g) - 1
      BY <1>6, <2>2, TickLess
    <3> QED
      BY <2>1, <3>1, <3>2
  <2>3. CASE ~(Pace <= g)
    <3>1. b = 0
      BY <1>6, <1>7, <2>1, <2>3 DEF Least
    <3>2. Ticks(0) = 0
      BY TicksFacts
    <3> QED
      BY <2>1, <3>1, <3>2
  <2> QED
    BY <2>2, <2>3
<1>12. RouteTicks(y, q) <= RouteTicks(p, q) - 1
  <2> DEFINE m == n * Ticks(Cell)
  <2>1. m \in Nat /\ Ticks(b) \in Nat /\ Ticks(g) \in Nat
    <3>1. Ticks(Cell) \in Nat
      BY <1>3, TicksFacts
    <3> QED
      BY <1>2, <1>6, <3>1, TicksFacts
  <2>2. RouteTicks(p, q) = Ticks(g) + m /\ RouteTicks(y, q) = Ticks(b) + m
    BY <1>8
  <2> HIDE DEF m
  <2> QED
    BY <1>11, <2>1, <2>2
<1>13. LegEnergy(p, y) \in Nat /\ LegEnergy(p, y) + RouteEnergy(y, q) <= RouteEnergy(p, q)
  <2> DEFINE ea == MotionEnergy(a, mission.terrain[k])
             eb == MotionEnergy(b, mission.terrain[k])
             eg == MotionEnergy(g, mission.terrain[k])
  <2>1. ea \in Nat /\ eb \in Nat /\ eg \in Nat /\ ea + eb <= eg
    BY <1>10
  <2>2. LegEnergy(p, y) = ea /\ RouteEnergy(y, q) = eb + f /\ RouteEnergy(p, q) = eg + f
    BY <1>8, <1>9
  <2> HIDE DEF ea, eb, eg
  <2> QED
    BY <1>2, <2>1, <2>2
<1> QED
  BY <1>5, <1>12, <1>13

LEMMA AllowedParts ==
  ASSUME NEW p \in Nat, NEW q \in Nat, NEW y \in Between(p, q), closed \subseteq Edges,
         Allowed(p, q)
  PROVE  Allowed(p, y) /\ Allowed(y, q)
<1> SUFFICES ASSUME NEW e \in closed
             PROVE  /\ ~(Least(p, y) < (e + 1) * Cell /\ Most(p, y) > e * Cell)
                    /\ ~(Least(y, q) < (e + 1) * Cell /\ Most(y, q) > e * Cell)
  BY DEF Allowed
<1> DEFINE a == e * Cell
           b == (e + 1) * Cell
<1>1. a \in Nat /\ b \in Nat
  BY EdgeFacts DEF Places
<1>2. ~(Least(p, q) < b /\ Most(p, q) > a)
  BY DEF Allowed
<1> HIDE DEF a, b
<1>3. /\ ~(Least(p, y) < b /\ Most(p, y) > a)
      /\ ~(Least(y, q) < b /\ Most(y, q) > a)
  BY <1>1, <1>2 DEF Between, Least, Most
<1> QED
  BY <1>3 DEF a, b

LEMMA AllowedJoin ==
  ASSUME NEW p \in Nat, NEW s \in Nat, NEW q \in Nat, closed \subseteq Edges,
         Allowed(p, s), Allowed(s, q)
  PROVE  Allowed(p, q)
<1> SUFFICES ASSUME NEW e \in closed
             PROVE  ~(Least(p, q) < (e + 1) * Cell /\ Most(p, q) > e * Cell)
  BY DEF Allowed
<1> DEFINE a == e * Cell
           b == (e + 1) * Cell
<1>1. a \in Nat /\ b \in Nat /\ a < b
  BY EdgeFacts DEF Places
<1>2. ~(Least(p, s) < b /\ Most(p, s) > a) /\ ~(Least(s, q) < b /\ Most(s, q) > a)
  BY DEF Allowed
<1> HIDE DEF a, b
<1>3. ~(Least(p, q) < b /\ Most(p, q) > a)
  BY <1>1, <1>2 DEF Least, Most
<1> QED
  BY <1>3 DEF a, b

(* Every point of the corridor is on an edge.                              *)
LEMMA OnAnEdge ==
  ASSUME NEW p \in 0..(Columns * Cell)
  PROVE  \E k \in Edges : p \in Places(k)..Places(k + 1)
<1>1. CASE p = 0
  <2>1. 0 \in Edges
    BY Sizes DEF Edges
  <2>2. Places(0) = 0 /\ Places(0 + 1) \in Nat
    BY <2>1, Sizes, EdgeFacts DEF Places
  <2> QED
    BY <1>1, <2>1, <2>2
<1>2. CASE p # 0
  <2>1. 0 * Cell < p /\ 0 \in 0..Columns /\ p \in Nat
    BY <1>2, Sizes
  <2>2. PICK k \in Edges : k * Cell < p /\ p <= (k + 1) * Cell
    BY <2>1, EdgeOnTheLeft
  <2>3. p \in Places(k)..Places(k + 1)
    BY <2>1, <2>2, EdgeFacts DEF Places
  <2> QED
    BY <2>3
<1> QED
  BY <1>1, <1>2

(* No way round over another grid point takes fewer ticks.                 *)
LEMMA WayRound ==
  ASSUME mission \in Missions, speed \in Nat \ {0},
         NEW p \in 0..(Columns * Cell), NEW s \in Grid, NEW q \in Grid
  PROVE  RouteTicks(p, q) <= RouteTicks(p, s) + RouteTicks(s, q)
<1>1. PICK k \in Edges : p \in Places(k)..Places(k + 1)
  BY OnAnEdge
<1>2. PICK i \in 0..Columns : s = Places(i)
  BY GridFacts
<1>3. PICK j \in 0..Columns : q = Places(j)
  BY GridFacts
<1> DEFINE c == Ticks(Cell)
           a == Ticks(Places(k + 1) - p)
           b == Ticks(p - Places(k))
<1>4. /\ Places(k) \in Nat /\ Places(k + 1) \in Nat /\ Places(k + 1) = Places(k) + Cell
      /\ k \in Nat /\ i \in Nat /\ j \in Nat /\ k + 1 <= Columns /\ Columns \in Nat
      /\ Cell \in Nat /\ p \in Nat
  BY <1>1, EdgeFacts, Sizes DEF Edges
<1>5. c \in Nat /\ a \in Nat /\ b \in Nat /\ a <= c /\ b <= c
  <2>1. Places(k + 1) - p \in Nat /\ p - Places(k) \in Nat
        /\ Places(k + 1) - p <= Cell /\ p - Places(k) <= Cell
    BY <1>1, <1>4
  <2> QED
    BY <1>4, <2>1, TicksFacts, TicksGrow
<1>6. ASSUME NEW m \in 0..Columns
      PROVE  /\ k + 1 <= m => RouteTicks(p, Places(m)) = a + (m - (k + 1)) * c
             /\ m <= k => RouteTicks(p, Places(m)) = b + (k - m) * c
  BY <1>1, EdgeRight, EdgeLeft
<1>7. RouteTicks(s, q) = Distance(i, j) * c
  <2>1. CASE i = j
    <3>1. RouteTicks(s, q) = 0
      BY <1>2, <1>3, <2>1, WayThere
    <3>2. Distance(i, j) = 0
      BY <1>4, <2>1 DEF Distance
    <3> QED
      BY <1>5, <3>1, <3>2
  <2>2. CASE i < j
    <3>1. i \in Edges
      BY <1>4, <2>2 DEF Edges
    <3>2. Places(i) \in Nat /\ Places(i + 1) \in Nat /\ Places(i + 1) = Places(i) + Cell
      BY <3>1, EdgeFacts
    <3>3. RouteTicks(s, q) = Ticks(Places(i + 1) - s) + (j - (i + 1)) * Ticks(Cell)
      <4>1. s \in Places(i)..Places(i + 1) /\ i + 1 <= j
        BY <1>2, <1>4, <2>2, <3>2
      <4> QED
        BY <1>3, <3>1, <4>1, EdgeRight
    <3>4. Places(i + 1) - s = Cell
      BY <1>2, <1>4, <3>2
    <3>5. RouteTicks(s, q) = c + (j - (i + 1)) * c
      BY <3>3, <3>4
    <3> HIDE DEF c
    <3>6. c + (j - (i + 1)) * c = (j - i) * c /\ Distance(i, j) = j - i
      BY <1>4, <1>5, <2>2 DEF Distance
    <3> QED
      BY <3>5, <3>6
  <2>3. CASE j < i
    <3> DEFINE m == i - 1
    <3>1. m \in Edges /\ m + 1 = i /\ j <= m /\ m \in Nat
      BY <1>4, <2>3 DEF Edges
    <3> HIDE DEF m
    <3>2. Places(m) \in Nat /\ Places(i) = Places(m) + Cell
      BY <3>1, EdgeFacts
    <3>3. RouteTicks(s, q) = Ticks(s - Places(m)) + (m - j) * Ticks(Cell)
      <4>1. s \in Places(m)..Places(m + 1)
        BY <1>2, <1>4, <3>1, <3>2
      <4> QED
        BY <1>3, <3>1, <4>1, EdgeLeft
    <3>4. s - Places(m) = Cell
      BY <1>2, <1>4, <3>2
    <3>5. RouteTicks(s, q) = c + (m - j) * c
      BY <3>3, <3>4
    <3> HIDE DEF c
    <3>6. c + (m - j) * c = (i - j) * c /\ Distance(i, j) = i - j
      BY <1>4, <1>5, <2>3, <3>1 DEF Distance
    <3> QED
      BY <3>5, <3>6
  <2> QED
    BY <1>4, <2>1, <2>2, <2>3
<1> HIDE DEF a, b, c
<1>8. ASSUME NEW m \in Int, NEW n \in Int, m <= n PROVE m * c <= n * c /\ m * c \in Int /\ n * c \in Int
  BY <1>5, <1>8, TimesGrows
<1>9. \A m, n \in Int : (m + n) * c = m * c + n * c
  BY <1>5
<1>10. Distance(i, j) \in Nat /\ i + Distance(i, j) >= j /\ i - Distance(i, j) <= j
  BY <1>4 DEF Distance
<1> DEFINE d == Distance(i, j)
<1>11. RouteTicks(s, q) = d * c /\ d \in Nat /\ i + d >= j /\ i - d <= j
  BY <1>7, <1>10
<1> HIDE DEF d
<1>12. CASE k + 1 <= j
  <2>1. RouteTicks(p, q) = a + (j - (k + 1)) * c
    BY <1>3, <1>6, <1>12
  <2>2. CASE k + 1 <= i
    <3>1. RouteTicks(p, s) = a + (i - (k + 1)) * c
      BY <1>2, <1>6, <2>2
    <3>2. ((i - (k + 1)) + d) * c = (i - (k + 1)) * c + d * c
      BY <1>4, <1>9, <1>11
    <3>3. (j - (k + 1)) * c <= ((i - (k + 1)) + d) * c
      BY <1>4, <1>8, <1>11
    <3> DEFINE u == (j - (k + 1)) * c  v == (i - (k + 1)) * c  r == d * c
    <3>4. u \in Int /\ v \in Int /\ r \in Int /\ u <= v + r
      BY <1>4, <1>5, <1>11, <3>2, <3>3
    <3>5. RouteTicks(p, q) = a + u /\ RouteTicks(p, s) = a + v /\ RouteTicks(s, q) = r
      BY <1>11, <2>1, <3>1
    <3> HIDE DEF u, v, r
    <3> QED
      BY <1>5, <3>4, <3>5
  <2>3. CASE ~(k + 1 <= i)
    <3>1. RouteTicks(p, s) \in Nat
      BY RouteFigures
    <3>2. (j - k) * c <= d * c /\ (1 + (j - (k + 1))) * c = 1 * c + (j - (k + 1)) * c
      <4>1. /\ j - k \in Int /\ d \in Int /\ j - k <= d
            /\ 1 \in Int /\ j - (k + 1) \in Int
        BY <1>4, <1>11, <2>3
      <4>2. (j - k) * c <= d * c
        BY <1>8, <4>1
      <4>3. (1 + (j - (k + 1))) * c = 1 * c + (j - (k + 1)) * c
        BY <1>9, <4>1
      <4> QED
        BY <4>2, <4>3
    <3>3. 1 + (j - (k + 1)) = j - k /\ 1 * c = c
      BY <1>4, <1>5
    <3> DEFINE u == (j - (k + 1)) * c  r == d * c
    <3>4. u \in Int /\ r \in Int /\ c + u <= r
      BY <1>4, <1>5, <1>11, <3>2, <3>3
    <3>5. RouteTicks(p, q) = a + u /\ RouteTicks(s, q) = r
      BY <1>11, <2>1
    <3> HIDE DEF u, r
    <3> QED
      BY <1>5, <3>1, <3>4, <3>5
  <2> QED
    BY <2>2, <2>3
<1>13. CASE ~(k + 1 <= j)
  <2>1. RouteTicks(p, q) = b + (k - j) * c
    BY <1>3, <1>4, <1>6, <1>13
  <2>2. CASE i <= k
    <3>1. RouteTicks(p, s) = b + (k - i) * c
      BY <1>2, <1>6, <2>2
    <3>2. ((k - i) + d) * c = (k - i) * c + d * c
      BY <1>4, <1>9, <1>11
    <3>3. (k - j) * c <= ((k - i) + d) * c
      BY <1>4, <1>8, <1>11
    <3> DEFINE u == (k - j) * c  v == (k - i) * c  r == d * c
    <3>4. u \in Int /\ v \in Int /\ r \in Int /\ u <= v + r
      BY <1>4, <1>5, <1>11, <3>2, <3>3
    <3>5. RouteTicks(p, q) = b + u /\ RouteTicks(p, s) = b + v /\ RouteTicks(s, q) = r
      BY <1>11, <2>1, <3>1
    <3> HIDE DEF u, v, r
    <3> QED
      BY <1>5, <3>4, <3>5
  <2>3. CASE ~(i <= k)
    <3>1. RouteTicks(p, s) \in Nat
      BY RouteFigures
    <3>2. (k + 1 - j) * c <= d * c /\ (1 + (k - j)) * c = 1 * c + (k - j) * c
      <4>1. /\ k + 1 - j \in Int /\ d \in Int /\ k + 1 - j <= d
            /\ 1 \in Int /\ k - j \in Int
        BY <1>4, <1>11, <2>3
      <4>2. (k + 1 - j) * c <= d * c
        BY <1>8, <4>1
      <4>3. (1 + (k - j)) * c = 1 * c + (k - j) * c
        BY <1>9, <4>1
      <4> QED
        BY <4>2, <4>3
    <3>3. 1 + (k - j) = k + 1 - j /\ 1 * c = c
      BY <1>4, <1>5
    <3> DEFINE u == (k - j) * c  r == d * c
    <3>4. u \in Int /\ r \in Int /\ c + u <= r
      BY <1>4, <1>5, <1>11, <3>2, <3>3
    <3>5. RouteTicks(p, q) = b + u /\ RouteTicks(s, q) = r
      BY <1>11, <2>1
    <3> HIDE DEF u, r
    <3> QED
      BY <1>5, <3>1, <3>4, <3>5
  <2> QED
    BY <2>2, <2>3
<1> QED
  BY <1>12, <1>13

-----------------------------------------------------------------------------
(* The figures after a motion: those of where the vehicle then is.         *)
Standing == <<mission, tick, capacity, speed, closed, work>>

LEMMA NewWays ==
  ASSUME UNCHANGED Standing
  PROVE  /\ Tasks' = Tasks /\ Chargers' = Chargers /\ Reserve' = Reserve /\ Current' = Current
         /\ \A t \in Tasks : /\ Left(t)' = Left(t) /\ Time(t)' = Time(t)
                             /\ Effort(t)' = Effort(t)
                             /\ RouteTicks(x, Target(t))' = RouteTicks(x', Target(t))
                             /\ RouteEnergy(x, Target(t))' = RouteEnergy(x', Target(t))
                             /\ Allowed(x, Target(t))' = Allowed(x', Target(t))
         /\ \A c \in Chargers : /\ RouteTicks(x, Site(c))' = RouteTicks(x', Site(c))
                                /\ RouteEnergy(x, Site(c))' = RouteEnergy(x', Site(c))
                                /\ Allowed(x, Site(c))' = Allowed(x', Site(c))
         /\ \A t \in Tasks, c \in Chargers :
              /\ RouteTicks(Site(c), Target(t))' = RouteTicks(Site(c), Target(t))
              /\ RouteEnergy(Site(c), Target(t))' = RouteEnergy(Site(c), Target(t))
              /\ Allowed(Site(c), Target(t))' = Allowed(Site(c), Target(t))
<1>1. /\ mission' = mission /\ tick' = tick
      /\ capacity' = capacity /\ speed' = speed /\ closed' = closed /\ work' = work
  BY DEF Standing
<1>2. Tasks' = Tasks /\ Chargers' = Chargers /\ Reserve' = Reserve /\ Current' = Current
  BY <1>1 DEF Tasks, Chargers, Reserve, CeilDiv, Current, Mine, Sooner
<1>3. \A t \in Tasks : /\ Left(t)' = Left(t) /\ Time(t)' = Time(t) /\ Effort(t)' = Effort(t)
  BY <1>1 DEF Left, Time, Effort
<1>4. \A t \in Tasks : RouteTicks(x, Target(t))' = RouteTicks(x', Target(t))
  BY <1>1 DEF RouteTicks, Waypoint, Ticks, CeilDiv, Distance, Target, Places
<1>5. \A t \in Tasks : RouteEnergy(x, Target(t))' = RouteEnergy(x', Target(t))
  BY <1>1 DEF RouteEnergy, LegEnergy, MotionEnergy, Waypoint, Distance, Least, Target, Places
<1>6. \A t \in Tasks : Allowed(x, Target(t))' = Allowed(x', Target(t))
  BY <1>1 DEF Allowed, Least, Most, Target, Places
<1>9. \A c \in Chargers : RouteTicks(x, Site(c))' = RouteTicks(x', Site(c))
  BY <1>1 DEF RouteTicks, Waypoint, Ticks, CeilDiv, Distance, Site, Places
<1>10. \A c \in Chargers : RouteEnergy(x, Site(c))' = RouteEnergy(x', Site(c))
  BY <1>1 DEF RouteEnergy, LegEnergy, MotionEnergy, Waypoint, Distance, Least, Site, Places
<1>11. \A c \in Chargers : Allowed(x, Site(c))' = Allowed(x', Site(c))
  BY <1>1 DEF Allowed, Least, Most, Site, Places
<1>13. \A t \in Tasks, c \in Chargers :
         /\ RouteTicks(Site(c), Target(t))' = RouteTicks(Site(c), Target(t))
         /\ RouteEnergy(Site(c), Target(t))' = RouteEnergy(Site(c), Target(t))
         /\ Allowed(Site(c), Target(t))' = Allowed(Site(c), Target(t))
  <2> TAKE t \in Tasks, c \in Chargers
  <2>1. RouteTicks(Site(c), Target(t))' = RouteTicks(Site(c), Target(t))
    BY <1>1 DEF RouteTicks, Waypoint, Ticks, CeilDiv, Distance, Site, Target, Places
  <2>2. RouteEnergy(Site(c), Target(t))' = RouteEnergy(Site(c), Target(t))
    BY <1>1 DEF RouteEnergy, LegEnergy, MotionEnergy, Waypoint, Distance, Least, Site, Target,
                Places
  <2>3. Allowed(Site(c), Target(t))' = Allowed(Site(c), Target(t))
    BY <1>1 DEF Allowed, Least, Most, Site, Target, Places
  <2> QED
    BY <2>1, <2>2, <2>3
<1> QED
  BY <1>2, <1>3, <1>4, <1>5, <1>6, <1>9, <1>10, <1>11, <1>13, Zenon

ChargeTicksFrom(t, c, y, e) ==
  CeilDiv(Most(0, Demand(t, c) - (e - RouteEnergy(y, Site(c)))), mission.chargers[c].rate)

LEMMA NewFigures ==
  ASSUME UNCHANGED Standing, NEW t \in Tasks
  PROVE  /\ Short(t)' = (energy' < RouteEnergy(x', Target(t)) + Effort(t) + Reserve)
         /\ \A c \in Chargers : ServesIn(t, c, Time(t) - 1)' <=>
              /\ Allowed(x', Site(c)) /\ RouteEnergy(x', Site(c)) <= energy'
              /\ Allowed(Site(c), Target(t)) /\ Demand(t, c) <= capacity
              /\ RouteTicks(x', Site(c)) + ChargeTicksFrom(t, c, x', energy')
                   + RouteTicks(Site(c), Target(t)) + Left(t) <= Time(t) - 1
<1>1. Short(t)' = (energy' < RouteEnergy(x', Target(t)) + Effort(t) + Reserve)
  <2>1. /\ RouteEnergy(x, Target(t))' = RouteEnergy(x', Target(t))
        /\ Effort(t)' = Effort(t) /\ Reserve' = Reserve
    BY NewWays
  <2> QED
    BY <2>1, Zenon DEF Short
<1>2. ASSUME NEW c \in Chargers
      PROVE  ServesIn(t, c, Time(t) - 1)' <=>
              /\ Allowed(x', Site(c)) /\ RouteEnergy(x', Site(c)) <= energy'
              /\ Allowed(Site(c), Target(t)) /\ Demand(t, c) <= capacity
              /\ RouteTicks(x', Site(c)) + ChargeTicksFrom(t, c, x', energy')
                   + RouteTicks(Site(c), Target(t)) + Left(t) <= Time(t) - 1
  <2>1. /\ RouteTicks(x, Site(c))' = RouteTicks(x', Site(c)) /\ Left(t)' = Left(t)
        /\ RouteEnergy(x, Site(c))' = RouteEnergy(x', Site(c)) /\ Time(t)' = Time(t)
        /\ Allowed(x, Site(c))' = Allowed(x', Site(c)) /\ Effort(t)' = Effort(t)
        /\ RouteTicks(Site(c), Target(t))' = RouteTicks(Site(c), Target(t))
        /\ RouteEnergy(Site(c), Target(t))' = RouteEnergy(Site(c), Target(t))
        /\ Allowed(Site(c), Target(t))' = Allowed(Site(c), Target(t)) /\ Reserve' = Reserve
    BY NewWays
  <2>2. Demand(t, c)' = Demand(t, c)
    BY <2>1, Zenon DEF Demand
  <2>3. mission' = mission /\ capacity' = capacity
    BY DEF Standing
  <2>4. ChargeTicks(t, c)' = ChargeTicksFrom(t, c, x', energy')
    BY <2>1, <2>2, <2>3 DEF ChargeTicks, ChargeTicksFrom, CeilDiv, Most
  <2> QED
    BY <2>1, <2>2, <2>3, <2>4, Zenon DEF ServesIn
<1> QED
  BY <1>1, <1>2

(* The simulator applies an action that rejects nothing.                   *)
LEMMA NothingGivenBack ==
  ASSUME TypeInv, ApplyActions, act.rejected = FALSE
  PROVE  UNCHANGED Standing /\ act' = act /\ promise' = promise
<1>1. /\ mission' = mission /\ tick' = tick /\ capacity' = capacity /\ speed' = speed
      /\ closed' = closed /\ act' = act /\ promise' = promise
      /\ work' = [t \in Tasks |->
                    IF act.rejected /\ act.task = t /\ work[t].status = "pending" /\ work[t].mine
                    THEN [work[t] EXCEPT !.mine = FALSE, !.progress = 0] ELSE work[t]]
  BY Zenon DEF ApplyActions
<1>2. \A t \in Tasks : work'[t] = work[t]
  BY <1>1, Zenon
<1>3. work \in [Tasks -> Account] /\ work' = [t \in Tasks |-> work'[t]]
  BY <1>1, Zenon DEF TypeInv
<1>4. work' = work
  BY <1>2, <1>3
<1> QED
  BY <1>1, <1>4, Zenon DEF Standing

LEMMA StandingStill ==
  ASSUME TypeInv, ApplyActions, act.velocity = 0
  PROVE  /\ x' = x
         /\ act.charger = Nothing => energy' = energy
         /\ act.charger # Nothing => energy' = Charged(act.charger)
<1>1. x \in Nat /\ energy \in Nat /\ speed \in Nat \ {0}
  BY TypeFacts
<1>2. Moved = x
  <2>1. Least(Distance(0, act.velocity), speed) = 0
    BY <1>1 DEF Least, Distance
  <2>2. (0 * Step) \div 1000 = 0
    BY Sizes
  <2> QED
    BY <1>1, <2>1, <2>2 DEF Moved
<1>3. LegEnergy(x, Moved) = 0
  BY <1>2 DEF LegEnergy
<1>4. /\ x' = IF Goes THEN Moved ELSE x
      /\ energy' = IF act.charger # Nothing THEN Charged(act.charger)
                   ELSE IF Goes THEN energy - LegEnergy(x, Moved) ELSE energy
  BY Zenon DEF ApplyActions
<1> QED
  BY <1>1, <1>2, <1>3, <1>4

(* A tick along the route to a grid point q it has the energy for.         *)
LEMMA OneTickAlong ==
  ASSUME TypeInv, ApplyActions, Exact, NEW q \in Grid, x # q,
         act.velocity = Toward(q), act.charger = Nothing,
         Allowed(x, q), RouteEnergy(x, q) <= energy
  PROVE  /\ x' \in 0..(Columns * Cell) /\ energy' \in Nat
         /\ RouteTicks(x', q) <= RouteTicks(x, q) - 1
         /\ energy' - RouteEnergy(x', q) >= energy - RouteEnergy(x, q)
         /\ Allowed(x', q)
<1>1. /\ mission \in Missions /\ x \in Nat /\ x \in 0..(Columns * Cell) /\ energy \in Nat
      /\ speed \in Nat \ {0} /\ closed \subseteq Edges /\ q \in Nat
  BY TypeFacts, GridFacts DEF TypeInv, TypeOK
<1>2. Waypoint(x, q) \in Nat
  BY <1>1, WaypointInside, Sizes
<1>3. Moved \in Between(x, Waypoint(x, q))
      /\ Distance(x, Moved) = Least(Pace, Distance(x, Waypoint(x, q)))
  BY <1>1, <1>2, ExactMotion DEF Toward
<1>4. /\ Moved \in 0..(Columns * Cell)
      /\ RouteTicks(Moved, q) <= RouteTicks(x, q) - 1
      /\ LegEnergy(x, Moved) \in Nat
      /\ LegEnergy(x, Moved) + RouteEnergy(Moved, q) <= RouteEnergy(x, q)
      /\ Moved \in Between(x, q)
  BY <1>1, <1>3, OneTickOn
<1>5. Allowed(x, Moved) /\ Allowed(Moved, q)
  BY <1>1, <1>4, AllowedParts
<1>6. RouteEnergy(Moved, q) \in Nat /\ RouteEnergy(x, q) \in Nat
  BY <1>1, <1>4, RouteFigures
<1>7. LegEnergy(x, Moved) <= energy
  BY <1>1, <1>4, <1>6
<1>8. Goes
  BY <1>5, <1>7 DEF Goes
<1>9. x' = Moved /\ energy' = energy - LegEnergy(x, Moved)
  <2>1. /\ x' = IF Goes THEN Moved ELSE x
        /\ energy' = IF act.charger # Nothing THEN Charged(act.charger)
                     ELSE IF Goes THEN energy - LegEnergy(x, Moved) ELSE energy
    BY Zenon DEF ApplyActions
  <2> QED
    BY <1>8, <2>1
<1> DEFINE y == Moved
           l == LegEnergy(x, Moved)
           f == RouteEnergy(Moved, q)
           e == RouteEnergy(x, q)
<1>10. /\ x' = y /\ energy' = energy - l /\ l \in Nat /\ f \in Nat /\ e \in Nat /\ l + f <= e
       /\ l <= energy /\ y \in 0..(Columns * Cell) /\ Allowed(y, q)
       /\ RouteTicks(y, q) <= RouteTicks(x, q) - 1 /\ RouteEnergy(y, q) = f
  BY <1>4, <1>5, <1>6, <1>7, <1>9
<1>11. energy' - f >= energy - e /\ energy' \in Nat
  <2> HIDE DEF l, f, e, y
  <2> QED
    BY <1>1, <1>10
<1>12. RouteEnergy(x', q) = f /\ RouteTicks(x', q) = RouteTicks(y, q) /\ Allowed(x', q)
  <2> HIDE DEF l, f, e, y
  <2> QED
    BY <1>10
<1> QED
  BY <1>10, <1>11, <1>12, Zenon

(* Halfway through a tick, case by case.  The vehicle works: nothing else  *)
(* changes.                                                                *)
LEMMA MidwayWorking ==
  ASSUME TypeInv, ApplyActions, NEW t \in Current, InTime(t),
         promise.direct, ~Short(t), Near(t), act = OrderOf(t, TRUE, FALSE, 0, Nothing)
  PROVE  Midway(t)'
<1>1. /\ act.rejected = FALSE /\ act.velocity = 0 /\ act.charger = Nothing
      /\ act.working = TRUE /\ act.task = t
  BY DEF OrderOf
<1>2. UNCHANGED Standing /\ act' = act /\ promise' = promise /\ x' = x /\ energy' = energy
  BY <1>1, NothingGivenBack, StandingStill
<1>3. UNCHANGED State
  BY <1>2 DEF State, Standing
<1>4. t \in Tasks
  BY DEF Current
<1>5. Current' = Current /\ InTime(t)' = InTime(t) /\ Short(t)' = Short(t)
  BY <1>3, <1>4, SameFigures
<1>6. Near(t)' = Near(t)
  BY <1>3, <1>4, SameWays
<1>7. InTime(t)' => (/\ mission.tasks[t].able /\ Allowed(x, Target(t))
                     /\ RouteTicks(x, Target(t)) + Left(t) <= Time(t))'
  BY DEF InTime
<1>8. (t \in Current)' /\ InTime(t)' /\ (~Short(t))' /\ Near(t)' /\ promise'.direct
      /\ act'.working /\ act'.task = t
  BY <1>1, <1>2, <1>5, <1>6
<1> QED
  BY <1>7, <1>8 DEF Midway

(* It travels to the task.                                                 *)
LEMMA MidwayTravelling ==
  ASSUME TypeInv, ApplyActions, Exact, NEW t \in Current, InTime(t),
         promise.direct, ~Short(t), ~Near(t), work[t].progress = 0,
         act = OrderOf(t, FALSE, FALSE, Toward(Target(t)), Nothing)
  PROVE  Midway(t)'
<1>1. /\ act.rejected = FALSE /\ act.velocity = Toward(Target(t)) /\ act.charger = Nothing
      /\ act.working = FALSE /\ act.task = t
  BY DEF OrderOf
<1>2. UNCHANGED Standing /\ act' = act /\ promise' = promise /\ mission' = mission /\ work' = work
  BY <1>1, NothingGivenBack DEF Standing
<1>3. t \in Tasks
  BY DEF Current
<1>4. /\ x \in Nat /\ energy \in Nat /\ Target(t) \in Grid /\ Target(t) \in Nat
      /\ mission \in Missions /\ speed \in Nat \ {0} /\ mission.tasks[t] \in Task
  BY <1>3, TypeFacts, GridFacts
<1>5. x # Target(t)
  <2>1. mission.tasks[t].radius \in Nat
    BY <1>4 DEF Task
  <2>2. x = Target(t) => Distance(x, Target(t)) = 0
    BY <1>4 DEF Distance
  <2> QED
    BY <2>1, <2>2 DEF Near
<1> DEFINE e == RouteEnergy(x, Target(t))
           f == Effort(t)
           r == Reserve
           k == RouteTicks(x, Target(t))
           n == Left(t)
           m == Time(t)
<1>6. e \in Nat /\ f \in Nat /\ r \in Nat /\ k \in Nat /\ n \in Nat /\ m \in Int
  BY <1>3, TaskFigures
<1>7. Allowed(x, Target(t)) /\ k + n <= m /\ mission.tasks[t].able
  BY DEF InTime
<1>8. ~(energy < e + f + r)
  BY DEF Short
<1>9. e <= energy
  <2> HIDE DEF e, f, r
  <2> QED
    BY <1>4, <1>6, <1>8
<1>10. /\ x' \in 0..(Columns * Cell) /\ energy' \in Nat
       /\ RouteTicks(x', Target(t)) <= k - 1
       /\ energy' - RouteEnergy(x', Target(t)) >= energy - e
       /\ Allowed(x', Target(t))
  BY <1>1, <1>4, <1>5, <1>7, <1>9, OneTickAlong
<1>11. RouteTicks(x', Target(t)) \in Nat /\ RouteEnergy(x', Target(t)) \in Nat
  BY <1>4, <1>10, RouteFigures
<1> DEFINE i == RouteTicks(x', Target(t))
           j == RouteEnergy(x', Target(t))
<1>12. ~(energy' < j + f + r) /\ i + n <= m - 1
  <2>1. i \in Nat /\ j \in Nat /\ energy' \in Nat /\ i <= k - 1 /\ energy' - j >= energy - e
    BY <1>10, <1>11
  <2>2. energy \in Nat /\ k + n <= m /\ ~(energy < e + f + r)
    BY <1>4, <1>7, <1>8
  <2> HIDE DEF e, f, r, k, n, m, i, j
  <2>3. i + n <= m - 1
    BY <1>6, <2>1, <2>2
  <2>4. ~(energy' < j + f + r)
    BY <1>6, <2>1, <2>2
  <2> QED
    BY <2>3, <2>4
<1>13. (~Short(t))'
  <2>1. Short(t)' = (energy' < j + f + r)
    BY <1>2, <1>3, NewFigures
  <2> QED
    BY <1>12, <2>1
<1>14. /\ (RouteTicks(x, Target(t)) + Left(t) <= Time(t) - 1)'
       /\ Allowed(x, Target(t))' /\ (t \in Current)'
  <2>1. /\ RouteTicks(x, Target(t))' = i /\ Left(t)' = n /\ Time(t)' = m
        /\ Allowed(x, Target(t))' = Allowed(x', Target(t)) /\ Current' = Current
    BY <1>2, <1>3, NewWays
  <2> QED
    BY <1>10, <1>12, <2>1
<1>15. /\ (mission.tasks[t].able)' /\ act'.task = t /\ ~act'.working /\ work'[t].progress = 0
  BY <1>1, <1>2, <1>7
<1> QED
  BY <1>13, <1>14, <1>15 DEF Midway

(* The figures of a charger, for a vehicle at y with energy e.             *)
LEMMA ChargerFigures ==
  ASSUME TypeInv, NEW t \in Tasks, NEW c \in Chargers,
         NEW y \in 0..(Columns * Cell), NEW e \in Nat
  PROVE  /\ RouteTicks(y, Site(c)) \in Nat /\ RouteEnergy(y, Site(c)) \in Nat
         /\ RouteTicks(Site(c), Target(t)) \in Nat /\ RouteEnergy(Site(c), Target(t)) \in Nat
         /\ Demand(t, c) \in Nat /\ mission.chargers[c].rate \in Nat \ {0}
         /\ Most(0, Demand(t, c) - (e - RouteEnergy(y, Site(c)))) \in Nat
         /\ ChargeTicksFrom(t, c, y, e) \in Nat
<1>1. /\ mission \in Missions /\ speed \in Nat \ {0} /\ mission.chargers[c] \in Charger
      /\ Site(c) \in Grid /\ Target(t) \in Grid
  BY TypeFacts
<1>2. Site(c) \in 0..(Columns * Cell)
  BY <1>1, GridFacts
<1>3. /\ RouteTicks(y, Site(c)) \in Nat /\ RouteEnergy(y, Site(c)) \in Nat
      /\ RouteTicks(Site(c), Target(t)) \in Nat /\ RouteEnergy(Site(c), Target(t)) \in Nat
  BY <1>1, <1>2, RouteFigures
<1>4. Demand(t, c) \in Nat
  <2>1. Effort(t) \in Nat /\ Reserve \in Nat
    BY TaskFigures
  <2> QED
    BY <1>3, <2>1 DEF Demand
<1>5. mission.chargers[c].rate \in Nat \ {0}
  BY <1>1 DEF Charger
<1> DEFINE a == Most(0, Demand(t, c) - (e - RouteEnergy(y, Site(c))))
<1>6. a \in Nat
  BY <1>3, <1>4 DEF Most
<1> HIDE DEF a
<1>7. CeilDiv(a, mission.chargers[c].rate) \in Nat
  BY <1>5, <1>6, CeilBounds
<1> QED
  BY <1>3, <1>4, <1>5, <1>6, <1>7 DEF a, ChargeTicksFrom

(* It charges, at the place from which the charging was planned.           *)
LEMMA MidwayCharging ==
  ASSUME TypeInv, ApplyActions, Centred, NEW t \in Current, InTime(t),
         ~promise.direct, Short(t), work[t].progress = 0,
         NEW c \in Chargers, Serves(t, c), Distance(x, Site(c)) <= mission.chargers[c].radius,
         act = OrderOf(t, FALSE, FALSE, 0, c)
  PROVE  Midway(t)'
<1>1. /\ act.rejected = FALSE /\ act.velocity = 0 /\ act.charger = c
      /\ act.working = FALSE /\ act.task = t
  BY DEF OrderOf
<1>2. UNCHANGED Standing /\ act' = act /\ promise' = promise /\ mission' = mission /\ work' = work
  BY <1>1, NothingGivenBack DEF Standing
<1>3. t \in Tasks
  BY DEF Current
<1>4. /\ x \in Nat /\ energy \in Nat /\ Target(t) \in Grid /\ Site(c) \in Grid /\ Site(c) \in Nat
      /\ mission \in Missions /\ speed \in Nat \ {0} /\ c # Nothing
      /\ capacity \in Nat /\ x \in 0..(Columns * Cell)
  BY <1>3, TypeFacts, GridFacts
<1>5. x = Site(c)
  <2>1. Distance(x, Site(c)) <= 0
    BY DEF Centred
  <2> QED
    BY <1>4, <2>1 DEF Distance
<1>6. x' = x /\ energy' = Least(capacity, energy + mission.chargers[c].rate)
  BY <1>1, <1>4, StandingStill DEF Charged
<1> DEFINE r == mission.chargers[c].rate
           d == Demand(t, c)
           z == RouteTicks(Site(c), Target(t))
           n == Left(t)
           m == Time(t)
           h == CeilDiv(d - energy, r)
<1>7. /\ r \in Nat \ {0} /\ d \in Nat /\ z \in Nat /\ n \in Nat /\ m \in Int
      /\ RouteTicks(x, Site(c)) = 0 /\ RouteEnergy(x, Site(c)) = 0
  BY <1>3, <1>4, <1>5, ChargerFigures, TaskFigures, RouteFigures
<1>8. energy < d /\ \A e \in Nat : (e < RouteEnergy(x, Target(t)) + Effort(t) + Reserve) <=> e < d
  <2>1. /\ RouteEnergy(x, Target(t)) \in Nat /\ Effort(t) \in Nat /\ Reserve \in Nat
        /\ d = RouteEnergy(x, Target(t)) + Reserve + Effort(t)
    BY <1>3, <1>5, TaskFigures DEF Demand
  <2> DEFINE u == RouteEnergy(x, Target(t))  v == Effort(t)  w == Reserve
  <2>2. energy < u + v + w /\ u \in Nat /\ v \in Nat /\ w \in Nat /\ d = u + w + v
    BY <2>1 DEF Short
  <2> HIDE DEF u, v, w, d
  <2>3. energy < d /\ \A e \in Nat : (e < u + v + w) <=> e < d
    BY <1>4, <2>2
  <2> QED
    BY <2>3 DEF u, v, w
<1>9. d - energy \in Nat /\ d - energy > 0
  <2> HIDE DEF d
  <2> QED
    BY <1>4, <1>7, <1>8
<1>10. h \in Nat /\ h >= 1
  <2> DEFINE a == d - energy
  <2>1. a \in Nat /\ a > 0 /\ h = CeilDiv(a, r)
    BY <1>9
  <2> HIDE DEF a, r, h
  <2>2. h \in Nat /\ a <= h * r
    BY <1>7, <2>1, CeilBounds
  <2>3. h = 0 => h * r = 0
    BY <1>7
  <2> QED
    BY <2>1, <2>2, <2>3
<1>11. ChargeTicks(t, c) = h
  <2>1. Most(0, d - (energy - 0)) = d - energy
    <3> HIDE DEF d
    <3> QED
      BY <1>4, <1>7, <1>9 DEF Most
  <2> QED
    BY <1>7, <2>1, Zenon DEF ChargeTicks
<1>12. /\ 0 + h + z + n <= m /\ d <= capacity /\ Allowed(x, Site(c))
       /\ Allowed(Site(c), Target(t))
  BY <1>7, <1>11, Zenon DEF Serves
<1>13. z + n <= m - 1
  <2> HIDE DEF z, n, m, h
  <2> QED
    BY <1>7, <1>10, <1>12
<1>14. Short(t)' => energy' = energy + r /\ r <= d - energy
  <2>1. energy' \in Nat
    <3> HIDE DEF r
    <3>1. energy' = Least(capacity, energy + r)
      BY <1>6 DEF r
    <3> QED
      BY <1>4, <1>7, <3>1 DEF Least
  <2>2. Short(t)' => energy' < d
    <3>1. Short(t)' = (energy' < RouteEnergy(x', Target(t)) + Effort(t) + Reserve)
      BY <1>2, <1>3, NewFigures
    <3>2. Short(t)' = (energy' < RouteEnergy(x, Target(t)) + Effort(t) + Reserve)
      BY <1>6, <3>1
    <3> QED
      BY <1>8, <2>1, <3>2, Zenon
  <2>3. energy' = Least(capacity, energy + r)
    BY <1>6
  <2> HIDE DEF d, r
  <2>4. energy' < d => energy' = energy + r /\ r <= d - energy
    BY <1>4, <1>7, <1>12, <2>3 DEF Least
  <2> QED
    BY <2>2, <2>4
<1>15. ASSUME Short(t)'
       PROVE  ServesIn(t, c, Time(t) - 1)'
  <2>1. energy' = energy + r /\ r <= d - energy
    BY <1>14, <1>15
  <2>2. ChargeTicksFrom(t, c, x', energy') = h - 1
    <3>1. ChargeTicksFrom(t, c, x', energy') = CeilDiv(Most(0, d - (energy' - 0)), r)
      BY <1>6, <1>7, Zenon DEF ChargeTicksFrom
    <3> DEFINE a == d - energy
    <3>2. Most(0, d - (energy' - 0)) = a - r /\ a \in Nat /\ r <= a
      <4> HIDE DEF d, r
      <4> QED
        BY <1>4, <1>7, <1>9, <2>1 DEF Most
    <3>3. ChargeTicksFrom(t, c, x', energy') = CeilDiv(a - r, r) /\ h = CeilDiv(a, r)
      BY <3>1, <3>2, Zenon
    <3> HIDE DEF a, r, h, d
    <3>4. CeilDiv(a - r, r) = CeilDiv(a, r) - 1
      BY <1>7, <3>2, CeilLessOne
    <3> QED
      BY <3>3, <3>4
  <2>3. /\ RouteTicks(x', Site(c)) = 0 /\ RouteEnergy(x', Site(c)) = 0 /\ Allowed(x', Site(c))
    BY <1>6, <1>7, <1>12
  <2>4. 0 + (h - 1) + z + n <= m - 1 /\ 0 <= energy'
    <3>1. 0 <= energy'
      BY <1>4, <1>7, <2>1
    <3> HIDE DEF h, z, n, m
    <3> QED
      BY <1>7, <1>10, <1>12, <3>1
  <2>5. RouteTicks(x', Site(c)) + ChargeTicksFrom(t, c, x', energy') + z + n <= m - 1
    BY <2>2, <2>3, <2>4
  <2> QED
    BY <1>2, <1>3, <1>12, <2>3, <2>4, <2>5, NewFigures
<1>16. /\ (RouteTicks(x, Target(t)) + Left(t) <= Time(t) - 1)'
       /\ Allowed(x, Target(t))' /\ (t \in Current)' /\ Chargers' = Chargers
  <2>1. /\ RouteTicks(x, Target(t))' = RouteTicks(x', Target(t)) /\ Left(t)' = n /\ Time(t)' = m
        /\ Allowed(x, Target(t))' = Allowed(x', Target(t)) /\ Current' = Current
        /\ Chargers' = Chargers
    BY <1>2, <1>3, NewWays
  <2>2. RouteTicks(x', Target(t)) = z /\ Allowed(x', Target(t))
    BY <1>5, <1>6, <1>12
  <2> QED
    BY <1>13, <2>1, <2>2
<1>17. /\ (mission.tasks[t].able)' /\ act'.task = t /\ ~act'.working /\ work'[t].progress = 0
       /\ ~promise'.direct
  BY <1>1, <1>2 DEF InTime
<1> QED
  BY <1>15, <1>16, <1>17 DEF Midway

(* It travels to the charger.                                              *)
LEMMA MidwayGoing ==
  ASSUME TypeInv, ApplyActions, Exact, NEW t \in Current, InTime(t),
         ~promise.direct, Short(t), work[t].progress = 0,
         NEW c \in Chargers, Serves(t, c), Distance(x, Site(c)) > mission.chargers[c].radius,
         act = OrderOf(t, FALSE, FALSE, Toward(Site(c)), Nothing)
  PROVE  Midway(t)'
<1>1. /\ act.rejected = FALSE /\ act.velocity = Toward(Site(c)) /\ act.charger = Nothing
      /\ act.working = FALSE /\ act.task = t
  BY DEF OrderOf
<1>2. UNCHANGED Standing /\ act' = act /\ promise' = promise /\ mission' = mission /\ work' = work
  BY <1>1, NothingGivenBack DEF Standing
<1>3. t \in Tasks
  BY DEF Current
<1>4. /\ x \in Nat /\ energy \in Nat /\ Target(t) \in Grid /\ Site(c) \in Grid /\ Site(c) \in Nat
      /\ mission \in Missions /\ speed \in Nat \ {0} /\ mission.chargers[c] \in Charger
      /\ x \in 0..(Columns * Cell) /\ Target(t) \in Nat /\ closed \subseteq Edges
  BY <1>3, TypeFacts, GridFacts DEF TypeInv, TypeOK
<1>5. x # Site(c)
  <2>1. mission.chargers[c].radius \in Nat
    BY <1>4 DEF Charger
  <2>2. x = Site(c) => Distance(x, Site(c)) = 0
    BY <1>4 DEF Distance
  <2> QED
    BY <2>1, <2>2
<1> DEFINE z == RouteTicks(Site(c), Target(t))
           n == Left(t)
           m == Time(t)
           k == RouteTicks(x, Site(c))
           e == RouteEnergy(x, Site(c))
           h == ChargeTicks(t, c)
           d == Demand(t, c)
<1>6. /\ z \in Nat /\ n \in Nat /\ m \in Int /\ k \in Nat /\ e \in Nat /\ h \in Nat /\ d \in Nat
      /\ h = ChargeTicksFrom(t, c, x, energy)
  <2>1. h = ChargeTicksFrom(t, c, x, energy)
    BY Zenon DEF ChargeTicks, ChargeTicksFrom
  <2> QED
    BY <1>3, <1>4, <2>1, ChargerFigures, TaskFigures
<1>7. /\ Allowed(x, Site(c)) /\ e <= energy /\ Allowed(Site(c), Target(t)) /\ d <= capacity
      /\ k + h + z + n <= m
  BY Zenon DEF Serves
<1>8. /\ x' \in 0..(Columns * Cell) /\ energy' \in Nat
      /\ RouteTicks(x', Site(c)) <= k - 1
      /\ energy' - RouteEnergy(x', Site(c)) >= energy - e
      /\ Allowed(x', Site(c))
  BY <1>1, <1>4, <1>5, <1>7, OneTickAlong
<1> DEFINE i == RouteTicks(x', Site(c))
           j == RouteEnergy(x', Site(c))
           g == ChargeTicksFrom(t, c, x', energy')
           o == RouteTicks(x', Target(t))
<1>9. i \in Nat /\ j \in Nat /\ g \in Nat /\ o \in Nat /\ x' \in Nat
  BY <1>3, <1>4, <1>8, Sizes, ChargerFigures, RouteFigures
<1>10. j <= energy'
  <2> HIDE DEF j, e
  <2>1. energy' - j >= energy - e
    BY <1>8 DEF j
  <2> QED
    BY <1>4, <1>6, <1>7, <1>8, <1>9, <2>1
<1>11. g <= h
  <2> DEFINE a == Most(0, d - (energy' - j))
             b == Most(0, d - (energy - e))
             r == mission.chargers[c].rate
  <2>1. a \in Nat /\ b \in Nat /\ a <= b
    <3>1. energy' - j >= energy - e
      BY <1>8
    <3> HIDE DEF d, j, e
    <3> QED
      BY <1>4, <1>6, <1>8, <1>9, <3>1 DEF Most
  <2>2. r \in Nat \ {0}
    BY <1>4 DEF Charger
  <2>3. g = CeilDiv(a, r) /\ h = CeilDiv(b, r)
    BY <1>6, Zenon DEF ChargeTicksFrom
  <2> HIDE DEF a, b, r, g, h
  <2>4. CeilDiv(a, r) <= CeilDiv(b, r)
    BY <2>1, <2>2, CeilGrows
  <2> QED
    BY <2>3, <2>4
<1>12. o <= i + z
  BY <1>4, <1>8, WayRound
<1>13. i + g + z + n <= m - 1 /\ o + n <= m - 1
  <2>1. i <= k - 1
    BY <1>8
  <2> HIDE DEF i, g, z, n, m, o, k, h
  <2>2. k + h + z + n <= m
    BY <1>7
  <2>3. i + g + z + n <= m - 1
    BY <1>6, <1>9, <1>11, <2>1, <2>2
  <2>4. o + n <= m - 1
    BY <1>6, <1>9, <1>12, <2>1, <2>2
  <2> QED
    BY <2>3, <2>4
<1>14. ServesIn(t, c, Time(t) - 1)'
  BY <1>2, <1>3, <1>7, <1>8, <1>10, <1>13, NewFigures
<1>15. Allowed(x', Target(t))
  BY <1>4, <1>7, <1>8, <1>9, AllowedJoin
<1>16. /\ (RouteTicks(x, Target(t)) + Left(t) <= Time(t) - 1)'
       /\ Allowed(x, Target(t))' /\ (t \in Current)' /\ Chargers' = Chargers
  <2>1. /\ RouteTicks(x, Target(t))' = o /\ Left(t)' = n /\ Time(t)' = m
        /\ Allowed(x, Target(t))' = Allowed(x', Target(t)) /\ Current' = Current
        /\ Chargers' = Chargers
    BY <1>2, <1>3, NewWays
  <2> QED
    BY <1>13, <1>15, <2>1
<1>17. /\ (mission.tasks[t].able)' /\ act'.task = t /\ ~act'.working /\ work'[t].progress = 0
       /\ ~promise'.direct
  BY <1>1, <1>2 DEF InTime
<1> QED
  BY <1>14, <1>16, <1>17 DEF Midway

(* In every case the plan holds halfway through the tick.                  *)
LEMMA MidwayThrough ==
  ASSUME TypeInv, ApplyActions, Exact, promise.direct \/ Centred,
         NEW t \in Tasks, Outset(t)
  PROVE  Midway(t)'
<1>1. t \in Current /\ InTime(t)
  BY DEF Outset
<1>2. CASE /\ promise.direct /\ ~Short(t) /\ Near(t)
           /\ act = OrderOf(t, TRUE, FALSE, 0, Nothing)
  BY <1>1, <1>2, MidwayWorking
<1>3. CASE /\ promise.direct /\ ~Short(t) /\ ~Near(t) /\ work[t].progress = 0
           /\ act = OrderOf(t, FALSE, FALSE, Toward(Target(t)), Nothing)
  BY <1>1, <1>3, MidwayTravelling
<1>4. CASE /\ ~promise.direct /\ Short(t) /\ work[t].progress = 0
           /\ \E c \in Chargers :
                /\ Serves(t, c) /\ Distance(x, Site(c)) <= mission.chargers[c].radius
                /\ act = OrderOf(t, FALSE, FALSE, 0, c)
  BY <1>1, <1>4, MidwayCharging
<1>5. CASE /\ ~promise.direct /\ Short(t) /\ work[t].progress = 0
           /\ \E c \in Chargers :
                /\ Serves(t, c) /\ Distance(x, Site(c)) > mission.chargers[c].radius
                /\ act = OrderOf(t, FALSE, FALSE, Toward(Site(c)), Nothing)
  BY <1>1, <1>5, MidwayGoing
<1> QED
  BY <1>2, <1>3, <1>4, <1>5, Zenon DEF Outset

-----------------------------------------------------------------------------
(* The clock moves.  The ways are as they were.                            *)
LEMMA TickWays ==
  ASSUME TypeInv, UpdateTasks
  PROVE  /\ Tasks' = Tasks /\ Chargers' = Chargers /\ Reserve' = Reserve
         /\ \A t \in Tasks : /\ Time(t)' = Time(t) - 1
                             /\ RouteTicks(x, Target(t))' = RouteTicks(x, Target(t))
                             /\ RouteEnergy(x, Target(t))' = RouteEnergy(x, Target(t))
                             /\ Allowed(x, Target(t))' = Allowed(x, Target(t))
         /\ \A c \in Chargers : /\ RouteTicks(x, Site(c))' = RouteTicks(x, Site(c))
                                /\ RouteEnergy(x, Site(c))' = RouteEnergy(x, Site(c))
                                /\ Allowed(x, Site(c))' = Allowed(x, Site(c))
         /\ \A t \in Tasks, c \in Chargers :
              /\ RouteTicks(Site(c), Target(t))' = RouteTicks(Site(c), Target(t))
              /\ RouteEnergy(Site(c), Target(t))' = RouteEnergy(Site(c), Target(t))
              /\ Allowed(Site(c), Target(t))' = Allowed(Site(c), Target(t))
<1>1. /\ mission' = mission /\ tick' = tick + 1 /\ x' = x
      /\ capacity' = capacity /\ speed' = speed /\ closed' = closed
  BY Zenon DEF UpdateTasks
<1>2. Tasks' = Tasks /\ Chargers' = Chargers /\ Reserve' = Reserve
  BY <1>1 DEF Tasks, Chargers, Reserve, CeilDiv
<1>3. \A t \in Tasks : Time(t)' = Time(t) - 1
  <2>1. tick \in Nat /\ \A t \in Tasks : mission.tasks[t].deadline \in Nat
    BY TypeFacts, Sizes DEF Task
  <2> QED
    BY <1>1, <2>1 DEF Time
<1>4. \A t \in Tasks : RouteTicks(x, Target(t))' = RouteTicks(x, Target(t))
  BY <1>1 DEF RouteTicks, Waypoint, Ticks, CeilDiv, Distance, Target, Places
<1>5. \A t \in Tasks : RouteEnergy(x, Target(t))' = RouteEnergy(x, Target(t))
  BY <1>1 DEF RouteEnergy, LegEnergy, MotionEnergy, Waypoint, Distance, Least, Target, Places
<1>6. \A t \in Tasks : Allowed(x, Target(t))' = Allowed(x, Target(t))
  BY <1>1 DEF Allowed, Least, Most, Target, Places
<1>7. \A c \in Chargers : RouteTicks(x, Site(c))' = RouteTicks(x, Site(c))
  BY <1>1 DEF RouteTicks, Waypoint, Ticks, CeilDiv, Distance, Site, Places
<1>8. \A c \in Chargers : RouteEnergy(x, Site(c))' = RouteEnergy(x, Site(c))
  BY <1>1 DEF RouteEnergy, LegEnergy, MotionEnergy, Waypoint, Distance, Least, Site, Places
<1>9. \A c \in Chargers : Allowed(x, Site(c))' = Allowed(x, Site(c))
  BY <1>1 DEF Allowed, Least, Most, Site, Places
<1>10. \A t \in Tasks, c \in Chargers :
         /\ RouteTicks(Site(c), Target(t))' = RouteTicks(Site(c), Target(t))
         /\ RouteEnergy(Site(c), Target(t))' = RouteEnergy(Site(c), Target(t))
         /\ Allowed(Site(c), Target(t))' = Allowed(Site(c), Target(t))
  <2> TAKE t \in Tasks, c \in Chargers
  <2>1. RouteTicks(Site(c), Target(t))' = RouteTicks(Site(c), Target(t))
    BY <1>1 DEF RouteTicks, Waypoint, Ticks, CeilDiv, Distance, Site, Target, Places
  <2>2. RouteEnergy(Site(c), Target(t))' = RouteEnergy(Site(c), Target(t))
    BY <1>1 DEF RouteEnergy, LegEnergy, MotionEnergy, Waypoint, Distance, Least, Site, Target,
                Places
  <2>3. Allowed(Site(c), Target(t))' = Allowed(Site(c), Target(t))
    BY <1>1 DEF Allowed, Least, Most, Site, Target, Places
  <2> QED
    BY <2>1, <2>2, <2>3
<1> QED
  BY <1>2, <1>3, <1>4, <1>5, <1>6, <1>7, <1>8, <1>9, <1>10, Zenon

(* A task in hand that is not late is in hand after the tick, or completed.*)
LEMMA StillCurrent ==
  ASSUME TypeInv, UpdateTasks, NEW t \in Current, tick < mission.tasks[t].deadline
  PROVE  /\ work'[t] = After(t)
         /\ \/ work'[t].status = "completed"
            \/ (t \in Current)' /\ After(t).status = "pending"
         /\ tick' <= mission'.tasks[t].deadline
<1>1. /\ mission' = mission /\ tick' = tick + 1 /\ Tasks' = Tasks
      /\ work' = [u \in Tasks |-> After(u)]
  BY Zenon DEF UpdateTasks, Tasks
<1>2. t \in Tasks /\ Mine(t) /\ \A u \in Tasks : Mine(u) => t = u \/ Sooner(t, u)
  BY DEF Current
<1>3. tick \in Nat /\ mission.tasks[t].deadline \in Nat
  BY <1>2, TypeFacts, Sizes DEF Task
<1>4. tick + 1 <= mission.tasks[t].deadline
  BY <1>3
<1>5. \A u \in Tasks : work'[u] = After(u)
  BY <1>1
<1>6. \A u \in Tasks : Mine(u)' => Mine(u)
  <2> SUFFICES ASSUME NEW u \in Tasks, Mine(u)'
               PROVE  Mine(u)
    OBVIOUS
  <2>1. After(u).released /\ After(u).mine /\ After(u).status = "pending"
    BY <1>5 DEF Mine
  <2>2. work[u].released /\ work[u].mine
    BY <2>1, AfterFacts
  <2>3. work[u].status = "pending"
    BY <2>1, <2>2, AfterFacts
  <2> QED
    BY <2>2, <2>3 DEF Mine
<1>7. \A u \in Tasks : Sooner(t, u)' = Sooner(t, u)
  BY <1>1 DEF Sooner
<1>8. After(t).status \in {"pending", "completed"}
  <2>1. After(t).status \in {"pending", "completed", "missed"}
    BY <1>2, AfterFacts DEF Mine
  <2>2. After(t).status # "missed"
    BY <1>2, <1>3, <1>4, AfterFacts DEF Mine
  <2> QED
    BY <2>1, <2>2
<1>9. ASSUME After(t).status = "pending"
      PROVE  (t \in Current)'
  <2>1. Mine(t)'
    BY <1>2, <1>5, <1>9, AfterFacts DEF Mine
  <2> QED
    BY <1>1, <1>2, <1>6, <1>7, <2>1 DEF Current
<1>10. tick' <= mission'.tasks[t].deadline
  BY <1>1, <1>4
<1>11. work'[t] = After(t)
  BY <1>2, <1>5
<1> QED
  BY <1>8, <1>9, <1>10, <1>11

(* Nobody is served but the task the vehicle works on.                     *)
LEMMA ServedEnergy ==
  ASSUME TypeInv, UpdateTasks, NEW t \in Tasks, act.task = t
  PROVE  energy' = IF Served(t) THEN energy - mission.tasks[t].cost ELSE energy
<1>1. energy' = IF \E u \in Tasks : Served(u) THEN energy - mission.tasks[act.task].cost
                ELSE energy
  BY Zenon DEF UpdateTasks
<1>2. \A u \in Tasks : Served(u) => u = t
  BY DEF Served
<1> QED
  BY <1>1, <1>2

(* The vehicle works: one tick less to do, one tick less to do it in, and  *)
(* the energy of a tick less.                                              *)
LEMMA WorkDone ==
  ASSUME TypeInv, UpdateTasks, NEW t \in Current, tick < mission.tasks[t].deadline,
         mission.tasks[t].able, Allowed(x, Target(t)), act.task = t,
         promise.direct, ~Short(t), act.working, Near(t),
         RouteTicks(x, Target(t)) + Left(t) <= Time(t)
  PROVE  Done(t)' \/ OnTrack(t)'
<1>1. /\ t \in Tasks /\ Mine(t) /\ work[t].released /\ work[t].status = "pending"
      /\ work[t].mine
  BY DEF Current, Mine
<1>2. /\ mission' = mission /\ promise' = promise
  BY Zenon DEF UpdateTasks
<1>3. There(t)
  BY <1>1 DEF There, Near
<1> DEFINE s == mission.tasks[t].service
           p == work[t].progress
           c == mission.tasks[t].cost
           n == Left(t)
           k == RouteTicks(x, Target(t))
           e == RouteEnergy(x, Target(t))
           m == Time(t)
           r == Reserve
<1>4. /\ s \in Nat /\ p \in Nat /\ c \in Nat /\ n \in Nat /\ k \in Nat /\ e \in Nat
      /\ m \in Int /\ r \in Nat /\ energy \in Nat /\ n * c \in Nat
  <2>1. s \in Nat /\ p \in Nat /\ c \in Nat
    BY <1>1, TypeFacts DEF Task, Account
  <2> QED
    BY <1>1, <2>1, TaskFigures, TypeFacts
<1>5. /\ n = s - p /\ k + n <= m /\ ~(energy < e + n * c + r)
      /\ p = 0 \/ p < s
  <2>1. ~(energy < e + n * c + r)
    BY Zenon DEF Short, Effort
  <2>2. p = 0 \/ p < s
    BY <1>1 DEF TypeInv, Underway
  <2> QED
    BY <2>1, <2>2 DEF Left
<1>6. energy >= r
  <2> HIDE DEF s, p, c, n, k, e, m, r
  <2> DEFINE f == n * c
  <2>1. f \in Nat /\ ~(energy < e + f + r)
    BY <1>4, <1>5
  <2> HIDE DEF f
  <2> QED
    BY <1>4, <2>1
<1>7. /\ work'[t] = After(t)
      /\ \/ work'[t].status = "completed"
         \/ (t \in Current)' /\ After(t).status = "pending"
      /\ tick' <= mission'.tasks[t].deadline
  BY StillCurrent
<1>8. Reserve' = r
  BY TickWays
<1>9. energy' = IF Served(t) THEN energy - c ELSE energy
  BY <1>1, ServedEnergy
<1>10. CASE s = 0
  <2>1. work'[t].status = "completed"
    BY <1>1, <1>3, <1>7, <1>10, AfterFacts
  <2>2. ~Served(t)
    BY <1>10 DEF Served
  <2>3. energy' = energy
    BY <1>9, <2>2
  <2>4. energy' >= Reserve'
    BY <1>6, <1>8, <2>3
  <2> QED
    BY <2>1, <2>4 DEF Done
<1>11. CASE s # 0
  <2>1. n >= 1
    <3> HIDE DEF s, p, n
    <3> QED
      BY <1>4, <1>5, <1>11
  <2>2. /\ (n - 1) * c \in Nat /\ n * c = (n - 1) * c + c
    <3>1. n - 1 \in Nat
      <4> HIDE DEF n
      <4> QED
        BY <1>4, <2>1
    <3> HIDE DEF n, c
    <3> QED
      BY <1>4, <3>1
  <2> DEFINE g == (n - 1) * c
  <2>3. g \in Nat /\ ~(energy < e + (g + c) + r)
    BY <1>5, <2>2
  <2>4. /\ energy >= c + r /\ energy - c >= r /\ ~(energy - c < e + g + r)
        /\ k + (n - 1) <= m - 1
    <3>1. k + n <= m
      BY <1>5
    <3> HIDE DEF g, n, c, e, r, k, m
    <3> QED
      BY <1>4, <2>3, <3>1
  <2>5. Served(t)
    <3>1. s > 0
      BY <1>4, <1>11
    <3> QED
      BY <1>1, <1>3, <2>4, <3>1 DEF Served
  <2>6. energy' = energy - c
    BY <1>9, <2>5
  <2>7. CASE work'[t].status = "completed"
    <3>1. energy' >= Reserve'
      BY <1>8, <2>4, <2>6
    <3> QED
      BY <2>7, <3>1 DEF Done
  <2>8. CASE (t \in Current)' /\ After(t).status = "pending"
    <3>1. work'[t].progress = p + 1
      BY <1>1, <1>7, <1>11, <2>5, <2>8, AfterFacts
    <3>2. Left(t)' = n - 1
      <4>1. Left(t)' = s - (p + 1)
        BY <1>2, <3>1 DEF Left
      <4> HIDE DEF s, p, n
      <4> QED
        BY <1>4, <1>5, <4>1
    <3>3. Effort(t)' = g
      BY <1>2, <3>2 DEF Effort
    <3>4. /\ Time(t)' = m - 1 /\ RouteTicks(x, Target(t))' = k
          /\ RouteEnergy(x, Target(t))' = e /\ Allowed(x, Target(t))'
      BY <1>1, TickWays
    <3>5. InTime(t)'
      <4> HIDE DEF k, n, m
      <4>1. (RouteTicks(x, Target(t)) + Left(t) <= Time(t))'
        BY <2>4, <3>2, <3>4
      <4> QED
        BY <1>2, <1>7, <3>4, <4>1 DEF InTime
    <3>6. (~Short(t))'
      <4> HIDE DEF c, e, g, r
      <4>1. ~(energy' < RouteEnergy(x, Target(t))' + Effort(t)' + Reserve')
        BY <1>8, <2>4, <2>6, <3>3, <3>4
      <4> QED
        BY <4>1, Zenon DEF Short
    <3> QED
      BY <2>8, <3>5, <3>6 DEF OnTrack
  <2> QED
    BY <1>7, <2>7, <2>8
<1> QED
  BY <1>10, <1>11

(* The vehicle does not work: a tick of the way is behind it.              *)
LEMMA WayGone ==
  ASSUME TypeInv, UpdateTasks, NEW t \in Current, tick < mission.tasks[t].deadline,
         mission.tasks[t].able, Allowed(x, Target(t)), act.task = t,
         ~act.working, work[t].progress = 0,
         RouteTicks(x, Target(t)) + Left(t) <= Time(t) - 1,
         promise.direct => ~Short(t),
         Short(t) => \E c \in Chargers : ServesIn(t, c, Time(t) - 1)
  PROVE  Done(t)' \/ OnTrack(t)'
<1>1. /\ t \in Tasks /\ Mine(t) /\ work[t].released /\ work[t].status = "pending"
      /\ work[t].mine
  BY DEF Current, Mine
<1>2. /\ mission' = mission /\ promise' = promise /\ capacity' = capacity
  BY Zenon DEF UpdateTasks
<1>3. ~Served(t)
  BY DEF Served
<1>4. energy' = energy
  BY <1>1, <1>3, ServedEnergy
<1>5. /\ work'[t] = After(t)
      /\ \/ work'[t].status = "completed"
         \/ (t \in Current)' /\ After(t).status = "pending"
      /\ tick' <= mission'.tasks[t].deadline
  BY StillCurrent
<1>6. /\ Chargers' = Chargers /\ Reserve' = Reserve /\ Time(t)' = Time(t) - 1
      /\ RouteTicks(x, Target(t))' = RouteTicks(x, Target(t))
      /\ RouteEnergy(x, Target(t))' = RouteEnergy(x, Target(t))
      /\ Allowed(x, Target(t))' = Allowed(x, Target(t))
  BY <1>1, TickWays
<1>7. CASE work'[t].status = "completed"
  <2>1. promise.direct => energy >= Reserve
    <3> SUFFICES ASSUME promise.direct PROVE energy >= Reserve
      OBVIOUS
    <3> DEFINE e == RouteEnergy(x, Target(t))  f == Effort(t)  r == Reserve
    <3>1. e \in Nat /\ f \in Nat /\ r \in Nat /\ energy \in Nat
      BY <1>1, TaskFigures, TypeFacts
    <3>2. ~(energy < e + f + r)
      BY Zenon DEF Short
    <3> HIDE DEF e, f, r
    <3>3. energy >= r
      BY <3>1, <3>2
    <3> QED
      BY <3>3 DEF r
  <2>2. promise'.direct => energy' >= Reserve'
    BY <1>2, <1>4, <1>6, <2>1
  <2> QED
    BY <1>7, <2>2, Zenon DEF Done
<1>8. CASE (t \in Current)' /\ After(t).status = "pending"
  <2>1. work'[t].progress = work[t].progress
    BY <1>1, <1>3, <1>5, <1>8, AfterFacts
  <2>2. Left(t)' = Left(t) /\ Effort(t)' = Effort(t)
    BY <1>2, <2>1 DEF Left, Effort
  <2>3. InTime(t)'
    <3>1. (RouteTicks(x, Target(t)) + Left(t) <= Time(t))'
      BY <1>6, <2>2
    <3> QED
      BY <1>2, <1>5, <1>6, <3>1 DEF InTime
  <2>4. Short(t)' = Short(t)
    BY <1>4, <1>6, <2>2, Zenon DEF Short
  <2>5. ASSUME NEW c \in Chargers, ServesIn(t, c, Time(t) - 1)
        PROVE  Serves(t, c)'
    <3>1. /\ RouteTicks(x, Site(c))' = RouteTicks(x, Site(c))
          /\ RouteEnergy(x, Site(c))' = RouteEnergy(x, Site(c))
          /\ Allowed(x, Site(c))' = Allowed(x, Site(c))
          /\ RouteTicks(Site(c), Target(t))' = RouteTicks(Site(c), Target(t))
          /\ RouteEnergy(Site(c), Target(t))' = RouteEnergy(Site(c), Target(t))
          /\ Allowed(Site(c), Target(t))' = Allowed(Site(c), Target(t))
      BY <1>1, TickWays
    <3>2. Demand(t, c)' = Demand(t, c)
      BY <1>6, <2>2, <3>1, Zenon DEF Demand
    <3>3. ChargeTicks(t, c)' = ChargeTicks(t, c)
      BY <1>2, <1>4, <3>1, <3>2 DEF ChargeTicks, CeilDiv, Most
    <3> QED
      BY <1>2, <1>4, <1>6, <2>2, <2>5, <3>1, <3>2, <3>3, Zenon DEF ServesIn, Serves
  <2>6. (promise.direct => ~Short(t))'
    BY <1>2, <2>4
  <2>7. (Short(t) => \E c \in Chargers : Serves(t, c))'
    BY <1>6, <2>4, <2>5
  <2> QED
    BY <1>8, <2>3, <2>6, <2>7, Zenon DEF OnTrack
<1> QED
  BY <1>5, <1>7, <1>8

(* At the next decision, what the agent set out to do is done or on track. *)
LEMMA PlanHolds ==
  ASSUME TypeInv, UpdateTasks, NEW t \in Tasks, tick < mission.tasks[t].deadline, Midway(t)
  PROVE  Done(t)' \/ OnTrack(t)'
<1>1. /\ t \in Current /\ mission.tasks[t].able /\ Allowed(x, Target(t)) /\ act.task = t
      /\ \/ /\ promise.direct /\ ~Short(t) /\ act.working /\ Near(t)
            /\ RouteTicks(x, Target(t)) + Left(t) <= Time(t)
         \/ /\ ~act.working /\ work[t].progress = 0
            /\ RouteTicks(x, Target(t)) + Left(t) <= Time(t) - 1
            /\ promise.direct => ~Short(t)
            /\ Short(t) => \E c \in Chargers : ServesIn(t, c, Time(t) - 1)
  BY Zenon DEF Midway
<1>2. CASE /\ promise.direct /\ ~Short(t) /\ act.working /\ Near(t)
           /\ RouteTicks(x, Target(t)) + Left(t) <= Time(t)
  BY <1>1, <1>2, WorkDone
<1>3. CASE /\ ~act.working /\ work[t].progress = 0
           /\ RouteTicks(x, Target(t)) + Left(t) <= Time(t) - 1
           /\ promise.direct => ~Short(t)
           /\ Short(t) => \E c \in Chargers : ServesIn(t, c, Time(t) - 1)
  BY <1>1, <1>3, WayGone
<1> QED
  BY <1>1, <1>2, <1>3, Zenon

LEMMA PlanStart ==
  ASSUME Init
  PROVE  PlanInv
<1>1. LateInv /\ phase = "agent" /\ promise.task = Nothing
  BY LateStart DEF Init, NoPromise
<1> QED
  BY <1>1 DEF PlanInv, PlansHold

(* What an unchanged state keeps.                                          *)
LEMMA PlanStays ==
  ASSUME UNCHANGED vars, NEW t \in Tasks
  PROVE  /\ Midway(t)' = Midway(t) /\ Done(t)' = Done(t) /\ OnTrack(t)' = OnTrack(t)
         /\ Exact' = Exact /\ Centred' = Centred
<1>1. /\ UNCHANGED State /\ mission' = mission /\ tick' = tick /\ x' = x /\ energy' = energy
      /\ capacity' = capacity /\ speed' = speed /\ work' = work /\ act' = act
      /\ promise' = promise
  BY DEF vars, State
<1>2. /\ Near(t)' = Near(t) /\ Chargers' = Chargers /\ Reserve' = Reserve
      /\ Left(t)' = Left(t) /\ Time(t)' = Time(t) /\ Effort(t)' = Effort(t)
      /\ RouteTicks(x, Target(t))' = RouteTicks(x, Target(t))
      /\ Allowed(x, Target(t))' = Allowed(x, Target(t))
  BY <1>1, SameWays
<1>3. /\ Current' = Current /\ InTime(t)' = InTime(t) /\ Short(t)' = Short(t)
      /\ \A c \in Chargers : Serves(t, c)' = Serves(t, c)
  BY <1>1, SameFigures
<1>4. ASSUME NEW c \in Chargers
      PROVE  ServesIn(t, c, Time(t) - 1)' = ServesIn(t, c, Time(t) - 1)
  <2>1. /\ RouteTicks(x, Site(c))' = RouteTicks(x, Site(c))
        /\ RouteEnergy(x, Site(c))' = RouteEnergy(x, Site(c))
        /\ Allowed(x, Site(c))' = Allowed(x, Site(c))
        /\ RouteTicks(Site(c), Target(t))' = RouteTicks(Site(c), Target(t))
        /\ RouteEnergy(Site(c), Target(t))' = RouteEnergy(Site(c), Target(t))
        /\ Allowed(Site(c), Target(t))' = Allowed(Site(c), Target(t))
    BY <1>1, SameWays
  <2>2. Demand(t, c)' = Demand(t, c)
    BY <1>2, <2>1, Zenon DEF Demand
  <2>3. ChargeTicks(t, c)' = ChargeTicks(t, c)
    BY <1>1, <2>1, <2>2 DEF ChargeTicks, CeilDiv, Most
  <2> QED
    BY <1>1, <1>2, <2>1, <2>2, <2>3 DEF ServesIn
<1>5. Midway(t)' = Midway(t)
  BY <1>1, <1>2, <1>3, <1>4 DEF Midway
<1>6. Done(t)' = Done(t)
  BY <1>1, <1>2 DEF Done
<1>7. OnTrack(t)' = OnTrack(t)
  BY <1>1, <1>2, <1>3 DEF OnTrack
<1>8. Exact' = Exact /\ Centred' = Centred
  BY <1>1 DEF Exact, Centred, Chargers
<1> QED
  BY <1>5, <1>6, <1>7, <1>8

LEMMA PlanStep ==
  ASSUME PlanInv, [Next]_vars
  PROVE  PlanInv'
<1>1. LateInv /\ LateInv' /\ TypeInv
  BY LateStep DEF PlanInv, LateInv
<1>2. CASE Agent
  <2>1. phase' = "events"
    BY <1>2, Zenon DEF Agent, GiveUp, Work, Travel, Charge, GoCharging, GoHome, Rest, Decide
  <2> QED
    BY <1>1, <2>1 DEF PlanInv, PlansHold
<1>3. CASE SomeEvent
  <2>1. phase' = "events"
    BY <1>1, <1>3, EventEndsPromise
  <2> QED
    BY <1>1, <2>1 DEF PlanInv, PlansHold
<1>4. CASE ApplyActions
  <2>1. /\ phase = "events" /\ phase' = "tasks" /\ mission' = mission /\ speed' = speed
        /\ promise' = promise /\ Tasks' = Tasks
    BY <1>4, Zenon DEF ApplyActions, Tasks
  <2>2. Exact' = Exact /\ Centred' = Centred
    BY <2>1 DEF Exact, Centred, Chargers
  <2>3. ASSUME Exact', (promise.direct \/ Centred)', NEW t \in Tasks, promise.task = t
        PROVE  Midway(t)'
    <3>1. Outset(t)
      BY <1>1, <2>1, <2>3 DEF LateInv
    <3> QED
      BY <1>1, <1>4, <2>1, <2>2, <2>3, <3>1, MidwayThrough
  <2>4. (phase = "tasks" /\ Exact /\ (promise.direct \/ Centred) =>
           \A t \in Tasks : promise.task = t => Midway(t))'
    BY <2>1, <2>3
  <2>5. PlansHold'
    BY <2>1 DEF PlansHold
  <2> QED
    BY <1>1, <2>4, <2>5 DEF PlanInv
<1>5. CASE UpdateTasks
  <2>1. /\ phase = "tasks" /\ phase' = "agent" /\ mission' = mission /\ speed' = speed
        /\ promise' = promise
    BY <1>5, Zenon DEF UpdateTasks
  <2>2. Exact' = Exact /\ Centred' = Centred
    BY <2>1 DEF Exact, Centred, Chargers
  <2>3. ASSUME promise.task # Nothing, Exact', (promise.direct \/ Centred)'
        PROVE  Done(promise.task)' \/ OnTrack(promise.task)'
    <3> DEFINE t == promise.task
    <3>1. t \in Tasks
      BY <1>1, <2>3 DEF TypeInv, TypeOK
    <3>2. Midway(t) /\ tick < mission.tasks[t].deadline
      BY <1>1, <2>1, <2>2, <2>3, <3>1 DEF PlanInv, LateInv
    <3>3. PICK u \in Tasks : u = t /\ Midway(u) /\ tick < mission.tasks[u].deadline
      BY <3>1, <3>2
    <3>4. Done(u)' \/ OnTrack(u)'
      BY <1>1, <1>5, <3>3, PlanHolds
    <3>5. promise'.task = u
      BY <2>1, <3>3
    <3> QED
      BY <3>4, <3>5
  <2>4. PlansHold'
    BY <2>1, <2>3 DEF PlansHold
  <2> QED
    BY <1>1, <2>1, <2>4 DEF PlanInv
<1>6. CASE UNCHANGED vars
  <2>1. phase' = phase /\ promise' = promise /\ Tasks' = Tasks
    BY <1>6 DEF vars, Tasks
  <2>2. \A t \in Tasks : /\ Midway(t)' = Midway(t) /\ Done(t)' = Done(t)
                         /\ OnTrack(t)' = OnTrack(t)
                         /\ Exact' = Exact /\ Centred' = Centred
    BY <1>6, PlanStays
  <2>3. promise.task = Nothing \/ promise.task \in Tasks
    BY <1>1 DEF TypeInv, TypeOK
  <2> QED
    BY <1>1, <2>1, <2>2, <2>3 DEF PlanInv, PlansHold
<1> QED
  BY <1>2, <1>3, <1>4, <1>5, <1>6, Turns

(* No plan is spoilt by the simulator's roundings: an agent that has set   *)
(* out for a task, directly or over a charger at its centre, at a speed of *)
(* whole millimetres a tick, and that no event disturbs, finds the task at *)
(* every later decision either completed, with the reserve intact, or      *)
(* still in time, with energy enough or a charger that helps.              *)
THEOREM PlansAreKept == Spec => []PlansHold
<1>1. Init => PlanInv
  BY PlanStart
<1>2. PlanInv /\ [Next]_vars => PlanInv'
  BY PlanStep
<1>3. PlanInv => PlansHold
  BY DEF PlanInv
<1> QED
  BY <1>1, <1>2, <1>3, PTL DEF Spec
=============================================================================
