------------------------- MODULE DriveCurves_proofs --------------------------
(***************************************************************************)
(* The curves of drive.c at every point of their input and, for the        *)
(* throttle, for all settings of drive.h: they follow the formulas of      *)
(* DRIVING.md and never go back or jump.                                   *)
(***************************************************************************)
EXTENDS DriveCurves, TLAPS

\* Where the walk is.
OnTrack == lx \in Int /\ throttle \in -THROTTLE_REACH .. THROTTLE_REACH

\* The end of the travel on the side of lx.
Full(x) == IF x < 0 THEN STICK_HALF ELSE STICK_HALF - 1

\* The percent of the travel, and what the deadzone and the square make of it.
Travel(n, full) == imin((n * 100) \div full, 100)
Rescaled(p) == ((p - STEER_DEADZONE) * 100) \div (100 - STEER_DEADZONE)
Squared(p) == IF p <= STEER_DEADZONE THEN 0 ELSE (Rescaled(p) * Rescaled(p)) \div 100

-----------------------------------------------------------------------------
(* Steering. *)

\* drive_steer_percent() treats both sides of the stick alike.
LEMMA SteerParts ==
  ASSUME NEW x \in Int
  PROVE  /\ Travel(iabs(x), Full(x)) \in 0 .. 100
         /\ drive_steer_percent(x) = isign(x) * Squared(Travel(iabs(x), Full(x)))
<1> DEFINE n == iabs(x)
           p == (n * 100) \div Full(x)
           c == cdiv(x * 100, Full(x))
           y == clamp(c, -100, 100)
           t == Travel(n, Full(x))
<1>1. n \in Nat /\ x = isign(x) * n
  BY DEF iabs, isign
<1>2. p \in Nat
  BY <1>1, SMT DEF Full, STICK_HALF
<1>3. c = isign(x) * p
  <2>1. iabs(x * 100) = n * 100 /\ isign(x * 100) = isign(x)
    BY DEF iabs, isign
  <2> QED BY <2>1 DEF cdiv
<1> HIDE DEF c, p
<1>4. t \in 0 .. 100 /\ t = imin(p, 100)
  BY <1>2 DEF Travel, imin, p
<1>5. y = isign(x) * t
  BY <1>2, <1>3, <1>4 DEF clamp, isign, imin
<1>6. iabs(y) = t /\ (t > 0 => isign(y) = isign(x))
  BY <1>4, <1>5 DEF iabs, isign
<1>7. drive_steer_percent(x)
        = IF t <= STEER_DEADZONE THEN 0 ELSE isign(y) * ((Rescaled(t) * Rescaled(t)) \div 100)
  BY <1>6 DEF drive_steer_percent, Full, Rescaled, c
<1> HIDE DEF y, t
<1>8. CASE t <= STEER_DEADZONE
  BY <1>4, <1>7, <1>8 DEF Squared, isign, t, n
<1>9. CASE t > STEER_DEADZONE
  BY <1>4, <1>6, <1>7, <1>9 DEF Squared, STEER_DEADZONE, t, n
<1> QED BY <1>4, <1>8, <1>9 DEF STEER_DEADZONE, t, n

\* Outside the deadzone the rescaled travel is 10/9 of what is left of it.
LEMMA RescaledRange ==
  ASSUME NEW p \in 11 .. 100
  PROVE  /\ Rescaled(p) \in 0 .. 100
         /\ 9 * Rescaled(p) <= 10 * (p - 10) /\ 10 * (p - 10) <= 9 * Rescaled(p) + 8
BY SMT DEF Rescaled, STEER_DEADZONE

\* It starts at 1 and ends at 100.
LEMMA RescaledEnds == Rescaled(11) = 1 /\ Rescaled(100) = 100
BY SMT DEF Rescaled, STEER_DEADZONE

\* One percent of travel is one or two percent of it.
LEMMA RescaledStep ==
  ASSUME NEW p \in 11 .. 99
  PROVE  Rescaled(p + 1) - Rescaled(p) \in 0 .. 2
BY SMT DEF Rescaled, STEER_DEADZONE

\* The curve stays within the servo's range, and reaches its end.
LEMMA SquaredRange ==
  /\ \A p \in 0 .. 100 : Squared(p) \in 0 .. 100
  /\ Squared(100) = 100
<1>1. ASSUME NEW p \in 0 .. 100 PROVE Squared(p) \in 0 .. 100
  <2>1. CASE p <= 10
    BY <2>1 DEF Squared, STEER_DEADZONE
  <2>2. CASE p > 10
    <3> DEFINE a == Rescaled(p)
               s == a * a
    <3>1. p \in 11 .. 100
      BY <2>2
    <3>2. a \in 0 .. 100
      BY <3>1, RescaledRange, Zenon
    <3> HIDE DEF a
    <3>3. s \in 0 .. 10000
      <4>1. s \in Int /\ s >= 0 /\ s <= a * 100
        BY <3>2
      <4> QED BY <3>2, <4>1
    <3>4. Squared(p) = s \div 100
      BY <2>2 DEF Squared, STEER_DEADZONE, a
    <3> HIDE DEF s
    <3> QED BY <3>3, <3>4
  <2> QED BY <2>1, <2>2
<1>2. Squared(100) = 100
  BY RescaledEnds DEF Squared, STEER_DEADZONE
<1> QED BY <1>1, <1>2

\* Two percent more, squared, are four points at most.
LEMMA SquareStep ==
  ASSUME NEW a \in 0 .. 100, NEW b \in 0 .. 100, b - a \in 0 .. 2
  PROVE  (b * b) \div 100 - (a * a) \div 100 \in 0 .. 4
<1> DEFINE s == a * a
<1>1. s \in Nat
  OBVIOUS
<1>2. CASE b = a
  BY <1>1, <1>2
<1>3. CASE b = a + 1
  <2>1. b * b = s + 2 * a + 1 /\ a <= 99
    BY <1>3
  <2> HIDE DEF s
  <2> QED BY <1>1, <2>1 DEF s
<1>4. CASE b = a + 2
  <2>1. b * b = s + 4 * a + 4 /\ a <= 98
    BY <1>4
  <2> HIDE DEF s
  <2> QED BY <1>1, <2>1 DEF s
<1> QED BY <1>2, <1>3, <1>4

\* One percent of travel is at most four points of steering, and none back.
LEMMA SquaredStep ==
  ASSUME NEW p \in 0 .. 100, NEW q \in 0 .. 100, q - p \in 0 .. 1
  PROVE  Squared(q) - Squared(p) \in 0 .. 4
<1>1. CASE q = p
  <2>1. Squared(p) \in 0 .. 100
    BY SquaredRange, Zenon
  <2> QED BY <1>1, <2>1
<1>2. CASE q = p + 1 /\ p < 10
  BY <1>2 DEF Squared, STEER_DEADZONE
<1>3. CASE q = p + 1 /\ p = 10
  <2>1. Squared(11) = (1 * 1) \div 100 /\ Squared(10) = 0
    BY RescaledEnds DEF Squared, STEER_DEADZONE
  <2> QED BY <1>3, <2>1
<1>4. CASE q = p + 1 /\ p > 10
  <2>1. p \in 11 .. 99 /\ p \in 11 .. 100 /\ q \in 11 .. 100
    BY <1>4
  <2>2. Rescaled(p) \in 0 .. 100 /\ Rescaled(q) \in 0 .. 100
    BY <2>1, RescaledRange, Zenon
  <2>3. Rescaled(q) - Rescaled(p) \in 0 .. 2
    BY <1>4, <2>1, RescaledStep
  <2>4. /\ Squared(p) = (Rescaled(p) * Rescaled(p)) \div 100
        /\ Squared(q) = (Rescaled(q) * Rescaled(q)) \div 100
    BY <2>1 DEF Squared, STEER_DEADZONE
  <2> DEFINE a == Rescaled(p)
             b == Rescaled(q)
  <2> HIDE DEF a, b
  <2>5. (b * b) \div 100 - (a * a) \div 100 \in 0 .. 4
    BY <2>2, <2>3, SquareStep, Zenon DEF a, b
  <2> QED BY <2>4, <2>5 DEF a, b
<1> QED BY <1>1, <1>2, <1>3, <1>4

\* The travel of the stick as a percentage.
LEMMA TravelRange ==
  ASSUME NEW n \in Nat, NEW x \in Int
  PROVE  /\ Travel(n, Full(x)) \in 0 .. 100
         /\ n = 0 => Travel(n, Full(x)) = 0
         /\ n >= Full(x) => Travel(n, Full(x)) = 100
BY SMT DEF Travel, Full, STICK_HALF, imin

\* One count of the stick is at most one percent of the travel.
LEMMA TravelStep ==
  ASSUME NEW n \in Nat, NEW x \in Int
  PROVE  Travel(n + 1, Full(x)) - Travel(n, Full(x)) \in 0 .. 1
BY SMT DEF Travel, Full, STICK_HALF, imin

\* One count of the stick to the right steers by at most four points to the
\* right, and never to the left.
LEMMA SteerStep ==
  ASSUME NEW x \in Int
  PROVE  drive_steer_percent(x + 1) - drive_steer_percent(x) \in 0 .. 4
<1> DEFINE T(y) == Travel(iabs(y), Full(y))
<1>1. /\ drive_steer_percent(x) = isign(x) * Squared(T(x))
      /\ drive_steer_percent(x + 1) = isign(x + 1) * Squared(T(x + 1))
  BY SteerParts
<1>2. CASE x >= 0
  <2>1. x \in Nat /\ isign(x) = 1 /\ isign(x + 1) = 1
    BY <1>2 DEF isign
  <2>2. T(x) = Travel(x, Full(x)) /\ T(x + 1) = Travel(x + 1, Full(x))
    BY <1>2 DEF iabs, Full
  <2> HIDE DEF T
  <2> DEFINE P == T(x)
             Q == T(x + 1)
  <2>3. P \in 0 .. 100 /\ Q \in 0 .. 100 /\ Q - P \in 0 .. 1
    BY <2>1, <2>2, TravelRange, TravelStep, x + 1 \in Nat
  <2> HIDE DEF P, Q
  <2>4. Squared(Q) - Squared(P) \in 0 .. 4
    BY <2>3, SquaredStep, Zenon
  <2>5. Squared(P) \in 0 .. 100 /\ Squared(Q) \in 0 .. 100
    BY <2>3, SquaredRange, Zenon
  <2> QED BY <1>1, <2>1, <2>4, <2>5 DEF P, Q
<1>3. CASE x < 0
  <2> DEFINE n == 0 - (x + 1)
             T0 == Travel(n, Full(x))
  <2>1. n \in Nat /\ n + 1 \in Nat /\ isign(x) = -1
    BY <1>3 DEF isign
  <2>2. T(x) = Travel(n + 1, Full(x))
    <3>1. iabs(x) = n + 1
      BY <1>3 DEF iabs
    <3> QED BY <3>1
  <2>3. drive_steer_percent(x + 1) = 0 - Squared(T0)
    <3>1. CASE x = -1
      <4>1. T(x + 1) = 0 /\ T0 = 0
        <5>1. x + 1 = 0 /\ n = 0
          BY <3>1
        <5>2. iabs(x + 1) = 0
          BY <5>1 DEF iabs
        <5> QED BY <5>1, <5>2, TravelRange, 0 \in Nat, x + 1 \in Int
      <4>2. Squared(0) = 0 /\ isign(x + 1) = 1
        BY <3>1 DEF Squared, STEER_DEADZONE, isign
      <4> HIDE DEF T, T0
      <4> QED BY <1>1, <4>1, <4>2
    <3>2. CASE x < -1
      <4>1. iabs(x + 1) = n /\ Full(x + 1) = Full(x) /\ isign(x + 1) = -1
        BY <3>2 DEF iabs, Full, isign
      <4>2. T(x + 1) = T0
        BY <4>1
      <4> HIDE DEF T, T0, n
      <4>3. drive_steer_percent(x + 1) = (-1) * Squared(T0)
        BY <1>1, <4>1, <4>2
      <4>4. Squared(T0) \in Int
        <5>1. T0 \in 0 .. 100
          BY <2>1, TravelRange DEF T0
        <5>2. Squared(T0) \in 0 .. 100
          BY <5>1, SquaredRange, Zenon
        <5> QED BY <5>2
      <4> QED BY <4>3, <4>4
    <3> QED BY <1>3, <3>1, <3>2
  <2> HIDE DEF T, n
  <2> DEFINE T1 == T(x)
  <2>4. T0 \in 0 .. 100 /\ T1 \in 0 .. 100
    BY <2>1, <2>2, TravelRange
  <2>5. T1 - T0 \in 0 .. 1
    BY <2>1, <2>2, TravelStep
  <2> HIDE DEF T0, T1
  <2>6. Squared(T1) - Squared(T0) \in 0 .. 4
    BY <2>4, <2>5, SquaredStep, Zenon
  <2>7. Squared(T0) \in 0 .. 100 /\ Squared(T1) \in 0 .. 100
    BY <2>4, SquaredRange, Zenon
  <2>8. drive_steer_percent(x) = isign(x) * Squared(T1)
    BY <1>1, Zenon DEF T1
  <2>9. drive_steer_percent(x) = 0 - Squared(T1)
    BY <2>1, <2>7, <2>8
  <2> DEFINE a == Squared(T0)
             b == Squared(T1)
  <2> HIDE DEF a, b
  <2>10. a \in Int /\ b \in Int /\ b - a >= 0 /\ b - a <= 4
    BY <2>6, <2>7 DEF a, b
  <2>11. (0 - a) - (0 - b) = b - a
    BY <2>10
  <2>12. (0 - a) - (0 - b) \in 0 .. 4
    BY <2>10, <2>11
  <2> QED BY <2>3, <2>9, <2>12, Zenon DEF a, b
<1> QED BY <1>2, <1>3

\* A square grows with its root.
LEMMA ProductGrows ==
  ASSUME NEW a \in Nat, NEW b \in Nat, a <= b
  PROVE  a * a <= b * b
<1>1. a * a <= a * b /\ a * b <= b * b
  OBVIOUS
<1> QED BY <1>1

\* The same curve in hundredths: the code, which truncates three times,
\* stays below it, by four points at most.
LEMMA SquaredExact ==
  ASSUME NEW n \in Nat, NEW x \in Int
  PROVE  LET travel == imin((n * 1000) \div Full(x), 1000)
             scaled == IF travel <= 100 THEN 0 ELSE ((travel - 100) * 100) \div 90
             exact == (scaled * scaled) \div 10000
         IN  exact - Squared(Travel(n, Full(x))) \in 0 .. 4
<1> DEFINE p == Travel(n, Full(x))
           travel == imin((n * 1000) \div Full(x), 1000)
           scaled == IF travel <= 100 THEN 0 ELSE ((travel - 100) * 100) \div 90
           s == scaled * scaled
<1>1. /\ p \in 0 .. 100 /\ travel \in 0 .. 1000
      /\ 10 * p <= travel /\ travel <= 10 * p + 9
  BY SMT DEF Travel, Full, STICK_HALF, imin
<1> HIDE DEF p, travel
<1>2. CASE p <= 10
  <2>1. scaled \in 0 .. 10
    BY <1>1, <1>2
  <2> HIDE DEF scaled
  <2>2. s >= 0 /\ s <= 10 * scaled
    BY <2>1
  <2> HIDE DEF s
  <2>3. s \in Int /\ s \div 10000 = 0
    <3>1. s \in Int
      BY <2>1 DEF s
    <3> QED BY <2>1, <2>2, <3>1
  <2> QED BY <1>2, <2>3 DEF Squared, STEER_DEADZONE, p, travel, scaled, s
<1>3. CASE p > 10
  <2> DEFINE a == Rescaled(p)
             r == a * a
  <2>1. /\ a \in 0 .. 100
        /\ 9 * a <= 10 * (p - 10) /\ 10 * (p - 10) <= 9 * a + 8
    <3>1. p \in 11 .. 100
      BY <1>1, <1>3
    <3> QED BY <3>1, RescaledRange, Zenon
  <2>2. Squared(p) = r \div 100
    BY <1>1, <1>3 DEF Squared, STEER_DEADZONE
  <2> HIDE DEF a
  <2>3. scaled \in 10 * a .. 10 * a + 18 /\ scaled \in 0 .. 1000
    BY <1>1, <1>3, <2>1
  <2> HIDE DEF scaled
  <2>4. r \in Nat /\ r <= 100 * a
    BY <2>1
  <2>5. s >= 100 * r
    <3>1. s >= (10 * a) * (10 * a)
      BY <2>1, <2>3, ProductGrows, 10 * a \in Nat
    <3>2. (10 * a) * (10 * a) = 100 * r
      BY <2>1
    <3> HIDE DEF r, s
    <3> QED BY <3>1, <3>2
  <2>6. s <= 100 * r + 360 * a + 324
    <3>1. s <= (10 * a + 18) * (10 * a + 18)
      BY <2>1, <2>3, ProductGrows, scaled \in Nat, 10 * a + 18 \in Nat
    <3>2. (10 * a + 18) * (10 * a + 18) = 100 * r + 360 * a + 324
      BY <2>1
    <3> HIDE DEF r, s
    <3> QED BY <3>1, <3>2
  <2>7. s \in Nat
    BY <2>3
  <2> HIDE DEF s, r
  <2>8. s \div 10000 - r \div 100 \in 0 .. 4
    BY <2>1, <2>4, <2>5, <2>6, <2>7
  <2> QED BY <2>2, <2>8 DEF p, travel, scaled, s
<1> QED BY <1>1, <1>2, <1>3

-----------------------------------------------------------------------------
(* Throttle. *)

\* The output without its sign, a percent of trigger above the neutral band.
Output(a) ==
  DRIVE_MIN_OUTPUT
  + ((a - DRIVE_NEUTRAL) * (MODE_MAX - DRIVE_MIN_OUTPUT)) \div (100 - DRIVE_NEUTRAL)

\* A quotient is the largest factor that fits.
LEMMA Quotient ==
  ASSUME NEW x \in Nat, NEW z \in Nat \ {0}
  PROVE  /\ x \div z \in Nat
         /\ z * (x \div z) <= x /\ x < z * (x \div z) + z
         /\ \A k \in Nat : z * k <= x => k <= x \div z
<1> DEFINE q == x \div z
           r == x % z
<1>1. q \in Int /\ r \in 0 .. z - 1 /\ x = z * q + r
  OBVIOUS
<1> HIDE DEF q, r
<1>2. ASSUME NEW k \in Nat, z * k <= x PROVE k <= q
  <2> SUFFICES ASSUME k >= q + 1 PROVE FALSE
    BY <1>1
  <2>1. z * k >= z * (q + 1)
    BY <1>1
  <2>2. z * (q + 1) = z * q + z
    BY <1>1
  <2> QED BY <1>1, <1>2, <2>1, <2>2
<1>3. q >= 0
  BY <1>2, 0 \in Nat, z * 0 = 0, x >= 0
<1>4. z * q <= x /\ x < z * q + z
  <2> DEFINE p == z * q
  <2>1. p \in Int /\ x = p + r
    BY <1>1
  <2> HIDE DEF p
  <2> QED BY <1>1, <2>1 DEF p
<1> QED BY <1>1, <1>2, <1>3, <1>4 DEF q

\* The output above the neutral band, by the formula of DRIVING.md without
\* its fraction.
LEMMA OutputBounds ==
  ASSUME NEW a \in DRIVE_NEUTRAL + 1 .. 100
  PROVE  LET range == 100 - DRIVE_NEUTRAL
             curve == DRIVE_MIN_OUTPUT * range
                      + (a - DRIVE_NEUTRAL) * (MODE_MAX - DRIVE_MIN_OUTPUT)
         IN  /\ Output(a) \in Nat /\ Output(a) >= DRIVE_MIN_OUTPUT
             /\ Output(a) * range <= curve /\ (Output(a) + 1) * range > curve
             /\ a = 100 => Output(a) = MODE_MAX
<1> DEFINE m == DRIVE_MIN_OUTPUT
           y == MODE_MAX - DRIVE_MIN_OUTPUT
           z == 100 - DRIVE_NEUTRAL
           b == a - DRIVE_NEUTRAL
           x == b * y
           q == x \div z
<1>1. m \in Nat /\ y \in Nat /\ z \in Nat \ {0} /\ b \in Nat
  BY DriveAssumption, CurvesAssumption
<1>2. m + y = MODE_MAX /\ (a = 100 => b = z)
  BY DriveAssumption, CurvesAssumption
<1>3. Output(a) = m + q
  BY DEF Output
<1> HIDE DEF m, y, z, b
<1>4. x \in Nat
  BY <1>1
<1>5. q \in Nat /\ z * q <= x /\ x < z * q + z /\ \A k \in Nat : z * k <= x => k <= q
  <2> HIDE DEF x
  <2> QED BY <1>1, <1>4, Quotient
<1> HIDE DEF q
<1>6. /\ (m + q) * z = m * z + z * q
      /\ (m + q + 1) * z = m * z + z * q + z
  BY <1>1, <1>5
<1>7. (m + q) * z <= m * z + x /\ (m + q + 1) * z > m * z + x
  <2> DEFINE p == z * q
             n == m * z
  <2>1. p \in Int /\ n \in Int /\ p <= x /\ x < p + z
        /\ (m + q) * z = n + p /\ (m + q + 1) * z = n + p + z
    BY <1>1, <1>5, <1>6
  <2> HIDE DEF p, n, x
  <2> QED BY <1>1, <1>4, <2>1 DEF n
<1>8. a = 100 => q = y
  <2> SUFFICES ASSUME b = z PROVE q = y
    BY <1>2
  <2>1. x = z * y
    BY <1>1
  <2>2. q >= y
    BY <1>1, <1>5, <2>1
  <2>3. ~(q >= y + 1)
    <3> SUFFICES ASSUME q >= y + 1 PROVE FALSE
      OBVIOUS
    <3>1. z * q >= z * (y + 1) /\ z * (y + 1) = z * y + z
      BY <1>1, <1>5
    <3> QED BY <1>1, <1>5, <2>1, <3>1
  <2> QED BY <1>1, <1>5, <2>2, <2>3
<1>9. Output(a) \in Nat /\ Output(a) >= m /\ (a = 100 => Output(a) = MODE_MAX)
  BY <1>1, <1>2, <1>3, <1>5, <1>8
<1> QED BY <1>3, <1>7, <1>9 DEF m, y, z, b, x

\* More trigger is never less output.
LEMMA OutputGrows ==
  ASSUME NEW a \in DRIVE_NEUTRAL + 1 .. 99
  PROVE  Output(a) <= Output(a + 1)
<1> DEFINE y == MODE_MAX - DRIVE_MIN_OUTPUT
           z == 100 - DRIVE_NEUTRAL
           b == a - DRIVE_NEUTRAL
           x == b * y
           w == (b + 1) * y
<1>1. y \in Nat /\ z \in Nat \ {0} /\ b \in Nat /\ DRIVE_MIN_OUTPUT \in Nat
      /\ (a + 1) - DRIVE_NEUTRAL = b + 1
  BY DriveAssumption, CurvesAssumption
<1>2. Output(a) = DRIVE_MIN_OUTPUT + x \div z /\ Output(a + 1) = DRIVE_MIN_OUTPUT + w \div z
  BY <1>1 DEF Output
<1> HIDE DEF y, z, b
<1>3. x \in Nat /\ w \in Nat /\ x <= w
  <2>1. x \in Nat /\ w = x + y
    BY <1>1
  <2> HIDE DEF x, w
  <2> QED BY <1>1, <2>1
<1> HIDE DEF x, w
<1>4. /\ x \div z \in Nat /\ w \div z \in Nat
      /\ z * (x \div z) <= x
      /\ \A k \in Nat : z * k <= w => k <= w \div z
  BY <1>1, <1>3, Quotient
<1>5. z * (x \div z) <= w
  BY <1>1, <1>3, <1>4
<1>6. x \div z <= w \div z
  BY <1>4, <1>5
<1> QED BY <1>1, <1>2, <1>4, <1>6

\* drive_map_throttle() treats both directions alike.
LEMMA MapParts ==
  ASSUME NEW t \in Int
  PROVE  LET a == imin(iabs(t), 100)
         IN  /\ a \in 0 .. 100
             /\ a <= DRIVE_NEUTRAL => drive_map_throttle(t, MODE_MAX) = 0
             /\ a > DRIVE_NEUTRAL => drive_map_throttle(t, MODE_MAX) = isign(t) * Output(a)
<1>1. imin(iabs(t), 100) \in 0 .. 100
  BY DEF imin, iabs
<1> QED BY <1>1, DriveAssumption DEF drive_map_throttle, Output

\* One percent more forward, or less back, is never less drive.
LEMMA ThrottleStep ==
  ASSUME NEW t \in Int
  PROVE  /\ drive_map_throttle(t, MODE_MAX) \in Int
         /\ drive_map_throttle(t, MODE_MAX) <= drive_map_throttle(t + 1, MODE_MAX)
<1> DEFINE A(u) == imin(iabs(u), 100)
           M(u) == drive_map_throttle(u, MODE_MAX)
           N == DRIVE_NEUTRAL
<1>1. N \in 0 .. 99
  BY DriveAssumption
<1>2. ASSUME NEW u \in Int
      PROVE  /\ A(u) \in 0 .. 100
             /\ A(u) <= N => M(u) = 0
             /\ A(u) > N => Output(A(u)) \in Nat /\ M(u) = isign(u) * Output(A(u))
  <2>1. /\ A(u) \in 0 .. 100 /\ (A(u) <= N => M(u) = 0)
        /\ A(u) > N => M(u) = isign(u) * Output(A(u))
    BY MapParts
  <2>2. ASSUME A(u) > N PROVE Output(A(u)) \in Nat
    <3>1. A(u) \in N + 1 .. 100
      BY <1>1, <2>1, <2>2
    <3> HIDE DEF A
    <3> QED BY <3>1, OutputBounds
  <2> QED BY <2>1, <2>2
<1>3. ASSUME NEW u \in Int, A(u) > N
      PROVE  /\ u >= 0 => M(u) = Output(A(u))
             /\ u < 0 => M(u) = 0 - Output(A(u))
  BY <1>2, <1>3 DEF isign
<1>4. ASSUME NEW a \in N + 1 .. 100, NEW b \in N + 1 .. 100, b - a \in 0 .. 1
      PROVE  Output(a) \in Nat /\ Output(b) \in Nat /\ Output(a) <= Output(b)
  <2>1. Output(a) \in Nat /\ Output(b) \in Nat
    BY OutputBounds
  <2>2. CASE b = a
    BY <2>1, <2>2
  <2>3. CASE b = a + 1
    <3>1. a \in N + 1 .. 99
      BY <1>1, <2>3
    <3> QED BY <2>1, <2>3, <3>1, OutputGrows
  <2> QED BY <1>1, <1>4, <2>2, <2>3
<1>5. M(t) \in Int /\ M(t + 1) \in Int
  <2>1. ASSUME NEW u \in Int PROVE M(u) \in Int
    <3>1. isign(u) \in {-1, 1}
      BY DEF isign
    <3> HIDE DEF A, M
    <3> QED BY <1>1, <1>2, <3>1
  <2> QED BY <2>1, t + 1 \in Int
<1>6. CASE t >= 0
  <2>1. A(t + 1) - A(t) \in 0 .. 1 /\ A(t) \in 0 .. 100 /\ A(t + 1) \in 0 .. 100
    BY <1>6 DEF imin, iabs
  <2> HIDE DEF A, M
  <2>2. CASE A(t) <= N
    <3>1. A(t + 1) > N => Output(A(t + 1)) \in Nat /\ M(t + 1) = Output(A(t + 1))
      BY <1>2, <1>3, <1>6, t + 1 \in Int
    <3>2. A(t + 1) <= N => M(t + 1) = 0
      BY <1>2, t + 1 \in Int
    <3>3. M(t) = 0
      BY <1>2, <2>2
    <3> QED BY <1>1, <2>1, <3>1, <3>2, <3>3 DEF M
  <2>3. CASE A(t) > N
    <3>1. A(t) \in N + 1 .. 100 /\ A(t + 1) \in N + 1 .. 100
      BY <1>1, <2>1, <2>3
    <3>2. M(t) = Output(A(t)) /\ M(t + 1) = Output(A(t + 1))
      BY <1>1, <1>3, <1>6, <2>1, <2>3, t + 1 \in Int, t + 1 >= 0
    <3> QED BY <1>4, <1>5, <2>1, <3>1, <3>2 DEF M
  <2> QED BY <1>1, <2>1, <2>2, <2>3
<1>7. CASE t < 0
  <2>1. A(t) - A(t + 1) \in 0 .. 1 /\ A(t) \in 0 .. 100 /\ A(t + 1) \in 0 .. 100
        /\ (A(t + 1) > 0 => t + 1 < 0)
    BY <1>7 DEF imin, iabs
  <2> HIDE DEF A, M
  <2>2. CASE A(t + 1) <= N
    <3>1. A(t) > N => Output(A(t)) \in Nat /\ M(t) = 0 - Output(A(t))
      BY <1>2, <1>3, <1>7
    <3>2. A(t) <= N => M(t) = 0
      BY <1>2
    <3>3. M(t + 1) = 0
      BY <1>2, <2>2, t + 1 \in Int
    <3> QED BY <1>1, <2>1, <3>1, <3>2, <3>3, <1>5 DEF M
  <2>3. CASE A(t + 1) > N
    <3>1. A(t) \in N + 1 .. 100 /\ A(t + 1) \in N + 1 .. 100 /\ t + 1 < 0
      BY <1>1, <2>1, <2>3
    <3>2. M(t) = 0 - Output(A(t)) /\ M(t + 1) = 0 - Output(A(t + 1))
      BY <1>1, <1>3, <1>7, <3>1, t + 1 \in Int
    <3>3. Output(A(t)) \in Nat /\ Output(A(t + 1)) \in Nat /\ Output(A(t + 1)) <= Output(A(t))
      BY <1>4, <2>1, <3>1
    <3> QED BY <1>5, <3>2, <3>3 DEF M
  <2> QED BY <1>1, <2>1, <2>2, <2>3
<1> QED BY <1>5, <1>6, <1>7

-----------------------------------------------------------------------------
(* The walk. *)

\* The walk stays on the numbers.
LEMMA WalkTrack == Spec => []OnTrack
<1>1. Init => OnTrack
  BY CurvesAssumption DEF Init, OnTrack, THROTTLE_REACH
<1>2. OnTrack /\ [Walk]_vars => OnTrack'
  BY DEF OnTrack, Walk, vars, imin, THROTTLE_REACH
<1> QED BY <1>1, <1>2, PTL DEF Spec

\* At every position of the stick the steering is the formula of DRIVING.md
\* but for four points at most, and all of it at both ends of the travel.
THEOREM CurvesSteer == Spec => []SteerFollowsCurve
<1>1. OnTrack => SteerFollowsCurve
  <2> SUFFICES ASSUME lx \in Int PROVE SteerFollowsCurve
    BY DEF OnTrack
  <2> DEFINE n == iabs(lx)
             full == Full(lx)
             travel == imin((n * 1000) \div full, 1000)
             scaled == IF travel <= 100 THEN 0 ELSE ((travel - 100) * 100) \div 90
             exact == (scaled * scaled) \div 10000
             sq == Squared(Travel(n, full))
             out == drive_steer_percent(lx)
             curve == isign(lx) * exact
  <2>1. n \in Nat
    BY DEF iabs
  <2>2. out = isign(lx) * sq
    BY SteerParts
  <2>3. exact - sq \in 0 .. 4
    BY <2>1, SquaredExact
  <2>4. sq \in 0 .. 100 /\ (n >= full => sq = 100)
    <3>1. Travel(n, full) \in 0 .. 100 /\ (n >= full => Travel(n, full) = 100)
      BY <2>1, TravelRange
    <3> QED BY <3>1, SquaredRange
  <2>5. exact \in Int
    <3>1. travel \in Int /\ scaled \in Int
      BY <2>1, SMT DEF imin, Full, STICK_HALF
    <3> HIDE DEF scaled
    <3> DEFINE s == scaled * scaled
    <3>2. s \in Int
      BY <3>1
    <3> HIDE DEF s
    <3>3. s \div 10000 \in Int
      BY <3>2
    <3> QED BY <3>3 DEF s
  <2>6. 10 * STEER_DEADZONE = 100 /\ 100 - STEER_DEADZONE = 90
    BY DEF STEER_DEADZONE
  <2> HIDE DEF exact, sq, out
  <2>7. iabs(out) = sq /\ iabs(curve) = exact
    BY <2>2, <2>3, <2>4, <2>5 DEF iabs, isign
  <2>8. /\ iabs(out) <= iabs(curve) /\ iabs(curve) - iabs(out) <= 4
        /\ n >= full => iabs(out) = 100
    BY <2>3, <2>4, <2>5, <2>7
  <2> QED BY <2>6, <2>8 DEF SteerFollowsCurve, exact, out, Full
<1> QED BY <1>1, WalkTrack, PTL

\* No count of the stick steers back, or jumps by more than four points.
THEOREM CurvesSteerStep == Spec => SteerMonotone
<1>1. OnTrack /\ [Walk]_vars
        => [drive_steer_percent(lx') - drive_steer_percent(lx) \in 0 .. 4]_vars
  BY SteerStep DEF OnTrack, Walk
<1> QED BY <1>1, WalkTrack, PTL DEF Spec, SteerMonotone

\* For all settings of drive.h and every throttle: 0 in the neutral band,
\* enough to move outside of it, the formula of DRIVING.md but for its
\* fraction, all of max at the end, and the same in both directions.
THEOREM CurvesThrottle == Spec => []ThrottleFollowsCurve
<1>1. OnTrack => ThrottleFollowsCurve
  <2> SUFFICES ASSUME throttle \in Int PROVE ThrottleFollowsCurve
    BY DEF OnTrack, THROTTLE_REACH
  <2> DEFINE a == imin(iabs(throttle), 100)
             out == drive_map_throttle(throttle, MODE_MAX)
             back == drive_map_throttle(-throttle, MODE_MAX)
  <2>1. /\ a \in 0 .. 100
        /\ a <= DRIVE_NEUTRAL => out = 0
        /\ a > DRIVE_NEUTRAL => out = isign(throttle) * Output(a)
    BY MapParts
  <2>2. iabs(-throttle) = iabs(throttle) /\ -throttle \in Int
    BY DEF iabs
  <2>3. /\ a <= DRIVE_NEUTRAL => back = 0
        /\ a > DRIVE_NEUTRAL => back = isign(-throttle) * Output(a)
    BY <2>2, MapParts
  <2>4. DRIVE_NEUTRAL \in 0 .. 99 /\ DRIVE_MIN_OUTPUT \in Nat \ {0}
    BY DriveAssumption
  <2>5. a > DRIVE_NEUTRAL => throttle # 0
    BY <2>4 DEF imin, iabs
  <2> HIDE DEF out, back
  <2>6. CASE a <= DRIVE_NEUTRAL
    <3>1. out = 0 /\ back = 0 /\ a # 100
      BY <2>1, <2>3, <2>4, <2>6
    <3> QED BY <3>1, <2>6 DEF ThrottleFollowsCurve, out, back
  <2>7. CASE a > DRIVE_NEUTRAL
    <3> DEFINE range == 100 - DRIVE_NEUTRAL
               curve == DRIVE_MIN_OUTPUT * range
                        + (a - DRIVE_NEUTRAL) * (MODE_MAX - DRIVE_MIN_OUTPUT)
               o == Output(a)
    <3>1. a \in DRIVE_NEUTRAL + 1 .. 100
      BY <2>1, <2>4, <2>7
    <3> HIDE DEF a
    <3>2. /\ o \in Nat /\ o >= DRIVE_MIN_OUTPUT
          /\ o * range <= curve /\ (o + 1) * range > curve
          /\ a = 100 => o = MODE_MAX
      BY <3>1, OutputBounds
    <3> HIDE DEF o, range, curve
    <3>3. out = isign(throttle) * o /\ back = isign(-throttle) * o
      BY <2>1, <2>3, <2>7 DEF o
    <3>4. out = -back /\ iabs(out) = o /\ out # 0
      BY <2>4, <2>5, <2>7, <3>2, <3>3 DEF isign, iabs
    <3>5. /\ out = -back
          /\ a <= DRIVE_NEUTRAL <=> out = 0
          /\ out # 0 => /\ DRIVE_MIN_OUTPUT <= iabs(out)
                        /\ iabs(out) * range <= curve
                        /\ (iabs(out) + 1) * range > curve
          /\ a = 100 => iabs(out) = MODE_MAX
      BY <2>4, <2>7, <3>1, <3>2, <3>4
    <3> QED BY <3>5 DEF ThrottleFollowsCurve, out, back, a, range, curve
  <2> QED BY <2>1, <2>4, <2>6, <2>7
<1> QED BY <1>1, WalkTrack, PTL

\* For all settings of drive.h, more trigger is never less drive.
THEOREM CurvesThrottleStep == Spec => ThrottleMonotone
<1>1. OnTrack /\ [Walk]_vars
        => [drive_map_throttle(throttle', MODE_MAX)
              >= drive_map_throttle(throttle, MODE_MAX)]_vars
  <2> SUFFICES ASSUME OnTrack, Walk
               PROVE  drive_map_throttle(throttle', MODE_MAX)
                        >= drive_map_throttle(throttle, MODE_MAX)
    OBVIOUS
  <2>1. throttle \in Int /\ throttle' \in {throttle, throttle + 1}
    BY DEF OnTrack, Walk, imin, THROTTLE_REACH
  <2>2. /\ drive_map_throttle(throttle, MODE_MAX) \in Int
        /\ drive_map_throttle(throttle + 1, MODE_MAX) \in Int
        /\ drive_map_throttle(throttle, MODE_MAX) <= drive_map_throttle(throttle + 1, MODE_MAX)
    BY <2>1, ThrottleStep, throttle + 1 \in Int
  <2> QED BY <2>1, <2>2
<1> QED BY <1>1, WalkTrack, PTL DEF Spec, ThrottleMonotone
=============================================================================
