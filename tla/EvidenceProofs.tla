--------------------------- MODULE EvidenceProofs ---------------------------
(***************************************************************************)
(* Proofs about the way of a position to a published document: what the    *)
(* constructors accept, what likelihoods may be, and what a document tells *)
(* of its records.                                                         *)
(***************************************************************************)
EXTENDS EvidencePath, FiniteSetTheorems, SequenceTheorems, TLAPS

(* The numbers of the grid, with the non-finite ones past its ends.        *)
LEMMA FloatNumbers ==
    /\ MaxFinite \in Nat /\ MaxFinite >= 2
    /\ Infinity = MaxFinite + 1 /\ NegInfinity = -(MaxFinite + 1) /\ NaN = MaxFinite + 2
    /\ MaxAccuracy \in 1..MaxFinite /\ Scale \in Nat /\ Scale >= 1 /\ One \in 1..MaxFinite
    /\ Float = -(MaxFinite + 1)..(MaxFinite + 2)
BY FloatAssumption, SpatialAssumption, EvidenceAssumption
   DEF Infinity, NegInfinity, NaN, Float

-----------------------------------------------------------------------------
(* Probability::saturating is Probability::try_new where the latter        *)
(* accepts.                                                                *)
LEMMA ProbabilityIsValid ==
    ASSUME NEW value \in Float
    PROVE  /\ ProbabilityError(SaturatedProbability(value)) = "None"
           /\ ProbabilityError(value) = "None" => SaturatedProbability(value) = value
BY FloatNumbers DEF ProbabilityError, SaturatedProbability, Within, IsFinite

(* A saturated coordinate lies within its bounds.                          *)
LEMMA AngleSaturates ==
    ASSUME NEW value \in Float, NEW bound \in 1..2
    PROVE  /\ SaturateAngle(value, -bound, bound) \in -bound..bound
           /\ value \in -bound..bound => SaturateAngle(value, -bound, bound) = value
BY FloatNumbers DEF SaturateAngle, Clamp

(* What `validate' accepts: a place of the grid, and finite altitudes.     *)
ValidPlace(p) == p.latitude \in -1..1 /\ p.longitude \in -2..2

(* What `validate' asks of a point.                                        *)
LEMMA ValidPoint ==
    ASSUME NEW p \in RawPoint
    PROVE  (PointError(p) = "None") <=>
              ValidPlace(p) /\ \A a \in p.altitude : IsFinite(a)
<1>1. p.latitude \in Float /\ p.longitude \in Float
  BY DEF RawPoint
<1>2. (IsFinite(p.latitude) /\ Within(p.latitude, -1, 1)) <=> p.latitude \in -1..1
  BY <1>1, FloatNumbers DEF IsFinite, Within
<1>3. (IsFinite(p.longitude) /\ Within(p.longitude, -2, 2)) <=> p.longitude \in -2..2
  BY <1>1, FloatNumbers DEF IsFinite, Within
<1> QED
  BY <1>2, <1>3 DEF PointError, ValidPlace

(* What `validate' asks of a component.                                    *)
LEMMA ValidComponent ==
    ASSUME NEW c \in RawComponent
    PROVE  Valid(c) <=> PointError(c.position) = "None" /\ c.accuracy \in 0..MaxFinite
<1>1. c.accuracy \in Float
  BY DEF RawComponent
<1>2. (IsFinite(c.accuracy) /\ ~(c.accuracy < 0)) <=> c.accuracy \in 0..MaxFinite
  BY <1>1, FloatNumbers DEF IsFinite
<1> QED
  BY <1>2 DEF Valid, ComponentError

(* What a component's constructor saturates is valid.                      *)
LEMMA ComponentIsValid ==
    ASSUME NEW c \in RawComponent
    PROVE  /\ Valid(Component(c))
           /\ Valid(c) /\ c.accuracy <= MaxAccuracy => Component(c) = c
<1> DEFINE p == SaturatedPoint(c.position)
<1>1. c.position \in RawPoint /\ c.accuracy \in Float
  BY DEF RawComponent
<1>2. /\ c.position.latitude \in Float /\ c.position.longitude \in Float
      /\ c.position.altitude \in SUBSET Float
      /\ c.position = [latitude |-> c.position.latitude, longitude |-> c.position.longitude,
                       altitude |-> c.position.altitude]
  BY <1>1 DEF RawPoint
<1>3. /\ p.latitude = SaturateAngle(c.position.latitude, -1, 1)
      /\ p.longitude = SaturateAngle(c.position.longitude, -2, 2)
      /\ p.altitude = {a \in c.position.altitude : IsFinite(a)}
  BY DEF SaturatedPoint
<1>4. p.latitude \in -1..1 /\ p.longitude \in -2..2 /\ ValidPlace(p)
  BY <1>2, <1>3, AngleSaturates DEF ValidPlace
<1>5. p \in RawPoint
  <2>1. p.latitude \in Float /\ p.longitude \in Float
    BY <1>4, FloatNumbers
  <2>2. p.altitude \in SUBSET Float
    BY <1>2, <1>3
  <2> QED
    BY <2>1, <2>2 DEF RawPoint, SaturatedPoint
<1>6. PointError(p) = "None"
  BY <1>3, <1>4, <1>5, ValidPoint
<1> DEFINE a == Component(c).accuracy
<1>7. Component(c) = [position |-> p, accuracy |-> a] /\ Component(c).position = p
  BY DEF Component, SaturatedComponent
<1>8. a \in 0..MaxAccuracy /\ (c.accuracy \in 0..MaxAccuracy => a = c.accuracy)
  BY <1>1, FloatNumbers DEF Component, SaturatedComponent
<1>9. Component(c) \in RawComponent
  <2>1. a \in Float
    BY <1>8, FloatNumbers
  <2> QED
    BY <2>1, <1>5, <1>7 DEF RawComponent
<1>10. Valid(Component(c))
  <2>1. a \in 0..MaxFinite
    BY <1>8, FloatNumbers
  <2> QED
    BY <2>1, <1>6, <1>7, <1>9, ValidComponent
<1>11. ASSUME Valid(c), c.accuracy <= MaxAccuracy
       PROVE  Component(c) = c
  <2>1. PointError(c.position) = "None" /\ c.accuracy \in 0..MaxFinite
    BY <1>11, ValidComponent
  <2>2. a = c.accuracy
    BY <2>1, <1>8, <1>11, FloatNumbers
  <2>3. /\ c.position.latitude \in -1..1 /\ c.position.longitude \in -2..2
        /\ \A x \in c.position.altitude : IsFinite(x)
    BY <2>1, <1>1, ValidPoint DEF ValidPlace
  <2>4. p.latitude = c.position.latitude /\ p.longitude = c.position.longitude
    BY <1>2, <1>3, <2>3, AngleSaturates
  <2>5. p.altitude = c.position.altitude
    BY <1>3, <2>3
  <2>6. p = [latitude |-> p.latitude, longitude |-> p.longitude, altitude |-> p.altitude]
    BY DEF SaturatedPoint
  <2>7. p = c.position
    BY <1>2, <2>4, <2>5, <2>6
  <2>8. c = [position |-> c.position, accuracy |-> c.accuracy]
    BY DEF RawComponent
  <2> QED
    BY <1>7, <2>2, <2>7, <2>8
<1> QED
  BY <1>10, <1>11


(* The haversine formula on the grid: symmetric, and right at every pair   *)
(* of places.                                                              *)
LEMMA Distances ==
    ASSUME NEW p, NEW q, ValidPlace(p), ValidPlace(q)
    PROVE  /\ HaversineDistance(p, q) \in {0, 1, 2}
           /\ HaversineDistance(p, q) = HaversineDistance(q, p)
           /\ DistanceRight(p, q)
<1> DEFINE lat == p.latitude  lon == p.longitude  lat2 == q.latitude  lon2 == q.longitude
<1> HIDE DEF lat, lon, lat2, lon2
<1>1. lat \in {-1, 0, 1} /\ lat2 \in {-1, 0, 1}
  BY DEF ValidPlace, lat, lat2
<1>2. lon \in {-2, -1, 0, 1, 2} /\ lon2 \in {-2, -1, 0, 1, 2}
  BY DEF ValidPlace, lon, lon2
<1>3. HaversineDistance(p, q) =
          Clamp(HalfSineSquare(lat2 - lat)
                     + Cosine(lat) * Cosine(lat2) * HalfSineSquare(lon2 - lon), 0, 2)
  BY DEF HaversineDistance, lat, lon, lat2, lon2
<1>4. HaversineDistance(q, p) =
          Clamp(HalfSineSquare(lat - lat2)
                     + Cosine(lat2) * Cosine(lat) * HalfSineSquare(lon - lon2), 0, 2)
  BY DEF HaversineDistance, lat, lon, lat2, lon2
<1>5. /\ Place(p) = IF lat # 0 THEN <<lat>> ELSE <<0, lon % 4>>
      /\ Antipode(p) = IF lat # 0 THEN <<-lat>> ELSE <<0, (lon + 2) % 4>>
      /\ Place(q) = IF lat2 # 0 THEN <<lat2>> ELSE <<0, lon2 % 4>>
  BY DEF Place, Antipode, lat, lon, lat2, lon2
<1>6. CASE lat # 0 \/ lat2 # 0
  BY <1>1, <1>2, <1>3, <1>4, <1>5, <1>6 DEF Clamp, HalfSineSquare, Magnitude, Cosine, DistanceRight
<1>7. CASE lat = 0 /\ lat2 = 0
  BY <1>1, <1>2, <1>3, <1>4, <1>5, <1>7 DEF Clamp, HalfSineSquare, Magnitude, Cosine, DistanceRight
<1> QED
  BY <1>6, <1>7, <1>1, <1>2

(* Division keeps an order.                                                *)
LEMMA Quotients ==
    ASSUME NEW a \in Nat, NEW b \in Nat, a <= b, NEW n \in Nat, n >= 1
    PROVE  a \div n \in Nat /\ b \div n \in Nat /\ a \div n <= b \div n
<1> DEFINE s == a \div n  t == b \div n
<1>1. s \in Nat /\ t \in Nat /\ n * s <= a /\ a < n * s + n /\ n * t <= b /\ b < n * t + n
  OBVIOUS
<1>2. SUFFICES ASSUME t < s PROVE FALSE
  BY <1>1
<1> HIDE DEF s, t
<1>3. t + 1 <= s
  BY <1>1, <1>2
<1>4. n * (t + 1) <= n * s
  BY <1>1, <1>3
<1>5. n * (t + 1) = n * t + n
  BY <1>1
<1> QED
  BY <1>1, <1>4, <1>5

Likeness(distance, variance) ==
    CASE variance = 0 -> IF distance = 0 THEN 0 ELSE NegInfinity
      [] variance > MaxFinite * MaxFinite -> 0
      [] OTHER -> Rounded(-((Scale * distance * distance) \div (2 * variance)))

(* A likeness is a log-likelihood and falls with the distance.             *)
LEMMA Likenesses ==
    ASSUME NEW d \in 0..2, NEW e \in 0..2, d <= e, NEW v \in Nat
    PROVE  /\ Likeness(d, v) = NegInfinity \/ Likeness(d, v) \in -MaxFinite..0
           /\ Likeness(e, v) <= Likeness(d, v)
<1> USE FloatNumbers
<1> MaxFinite * MaxFinite \in Nat
  OBVIOUS
<1>1. CASE v = 0
  BY <1>1 DEF Likeness
<1>2. CASE v # 0 /\ v > MaxFinite * MaxFinite
  BY <1>2 DEF Likeness
<1>3. CASE v # 0 /\ ~(v > MaxFinite * MaxFinite)
  <2> DEFINE p == Scale * d * d  q == Scale * e * e  n == 2 * v
  <2>1. Likeness(d, v) = Rounded(-(p \div n)) /\ Likeness(e, v) = Rounded(-(q \div n))
    BY <1>3 DEF Likeness
  <2>2. p \in Nat /\ q \in Nat /\ n \in Nat /\ n >= 1
    BY <1>3
  <2>3. p <= q
    <3>1. d * d <= e * e /\ d * d \in Nat /\ e * e \in Nat
      <4>1. d \in {0, 1, 2} /\ e \in {0, 1, 2}
        OBVIOUS
      <4> QED
        BY <4>1
    <3>2. p = Scale * (d * d) /\ q = Scale * (e * e)
      OBVIOUS
    <3> HIDE DEF p, q
    <3> QED
      BY <3>1, <3>2
  <2> DEFINE s == p \div n  t == q \div n
  <2> HIDE DEF p, q, n
  <2>4. s \in Nat /\ t \in Nat /\ s <= t
    BY <2>2, <2>3, Quotients
  <2> HIDE DEF s, t
  <2>5. Likeness(d, v) = Rounded(-s) /\ Likeness(e, v) = Rounded(-t)
    BY <2>1 DEF s, t
  <2> QED
    BY <2>4, <2>5 DEF Rounded
<1> QED
  BY <1>1, <1>2, <1>3

-----------------------------------------------------------------------------
(* 2xy is at most the sum of two numbers whose product is at least (xy)^2. *)
LEMMA TwiceProduct ==
    ASSUME NEW u \in Nat, NEW w \in Nat, NEW x \in Int, x * x <= u * w
    PROVE  2 * x <= u + w
<1>1. SUFFICES ASSUME 2 * x > u + w PROVE FALSE
  OBVIOUS
<1> DEFINE p == 2 * x  q == u + w
<1>2. p * p = 4 * (x * x) /\ p \in Int
  OBVIOUS
<1>3. q * q = 4 * (u * w) + (u - w) * (u - w) /\ q \in Nat
  OBVIOUS
<1>4. (u - w) * (u - w) >= 0 /\ (u - w) * (u - w) \in Int
  OBVIOUS
<1>5. x * x \in Int /\ u * w \in Int
  OBVIOUS
<1> HIDE DEF p, q
<1>6. p * p <= q * q
  BY <1>2, <1>3, <1>4, <1>5
<1>7. p > q
  BY <1>1 DEF p, q
<1>8. p * p > q * q
  <2>1. p = q + (p - q) /\ p - q \in Nat /\ p - q >= 1 /\ p >= 1
    BY <1>2, <1>3, <1>7
  <2>2. p * p - q * q = (p - q) * (p + q)
    BY <1>2, <1>3
  <2>3. (p - q) * (p + q) >= 1
    BY <2>1, <1>2, <1>3
  <2>4. p * p \in Int /\ q * q \in Int
    BY <1>2, <1>3
  <2> QED
    BY <2>2, <2>3, <2>4
<1> QED
  BY <1>6, <1>8, <1>2, <1>3

(* Multiplication keeps an order.                                          *)
LEMMA ProductsOrdered ==
    ASSUME NEW a \in Nat, NEW b \in Nat, NEW c \in Nat, NEW d \in Nat, a <= c, b <= d
    PROVE  a * b <= c * d
<1>1. a * b <= c * b
  OBVIOUS
<1>2. c * b <= c * d
  OBVIOUS
<1> QED
  BY <1>1, <1>2

(* The sum of two positive semidefinite matrices is one: the determinant   *)
(* stays non-negative.                                                     *)
LEMMA SumOfCovariances ==
    ASSUME NEW a \in Nat, NEW c \in Nat, NEW x \in Int, x * x <= a * c,
           NEW b \in Nat, NEW d \in Nat, NEW y \in Int, y * y <= b * d
    PROVE  (x + y) * (x + y) <= (a + b) * (c + d)
<1>1. x * x \in Nat /\ y * y \in Nat /\ a * c \in Nat /\ b * d \in Nat
  OBVIOUS
<1>2. (x * x) * (y * y) <= (a * c) * (b * d)
  BY <1>1, ProductsOrdered
<1>3. (x * y) * (x * y) = (x * x) * (y * y) /\ (a * d) * (b * c) = (a * c) * (b * d)
  OBVIOUS
<1>4. x * y \in Int /\ a * d \in Nat /\ b * c \in Nat
  OBVIOUS
<1>5. 2 * (x * y) <= a * d + b * c
  BY <1>2, <1>3, <1>4, TwiceProduct
<1>6. (x + y) * (x + y) = x * x + 2 * (x * y) + y * y
  OBVIOUS
<1>7. (a + b) * (c + d) = a * c + (a * d + b * c) + b * d
  OBVIOUS
<1> QED
  BY <1>1, <1>4, <1>5, <1>6, <1>7

(* The quadratic form of a covariance is nowhere negative. *)
LEMMA QuadraticForm ==
    ASSUME NEW a \in Nat, NEW c \in Nat, NEW x \in Int, x * x <= a * c,
           NEW u \in Int, NEW w \in Int
    PROVE  c * u * u - 2 * x * u * w + a * w * w >= 0
<1> DEFINE q == c * u * u - 2 * x * u * w + a * w * w
<1>1. q \in Int
  OBVIOUS
<1>2. u * u \in Nat /\ w * w \in Nat
  OBVIOUS
<1>3. CASE a = 0
  <2>1. x * x <= 0
    BY <1>3
  <2>2. x = 0
    BY <2>1
  <2>3. q = c * (u * u)
    BY <1>3, <2>2
  <2> QED
    BY <2>3, <1>2
<1>4. CASE a > 0
  <2>1. a * q = (a * w - x * u) * (a * w - x * u) + (a * c - x * x) * (u * u)
    OBVIOUS
  <2>2. (a * w - x * u) * (a * w - x * u) \in Nat
    <3>1. a * w - x * u \in Int
      OBVIOUS
    <3> QED
      BY <3>1
  <2>3. (a * c - x * x) * (u * u) \in Nat
    <3>1. a * c - x * x \in Nat
      OBVIOUS
    <3> QED
      BY <3>1, <1>2
  <2>4. a * q >= 0
    BY <2>1, <2>2, <2>3
  <2> HIDE DEF q
  <2> QED
    <3>1. SUFFICES ASSUME q < 0 PROVE FALSE
      BY <1>1 DEF q
    <3>2. a * q <= -a
      <4>1. q <= -1
        BY <1>1, <3>1
      <4> QED
        BY <4>1, <1>1
    <3> QED
      BY <2>4, <3>2, <1>4, <1>1
<1> QED
  BY <1>3, <1>4

-----------------------------------------------------------------------------
(* The likelihood of two components in terms of their distance and         *)
(* variance.                                                               *)
LEMMA LogLikelihoodIs ==
    ASSUME NEW c \in RawComponent, NEW t \in RawComponent
    PROVE  LogLikelihood(c, t) =
               IF Valid(c) /\ Valid(t)
               THEN Likeness(HaversineDistance(c.position, t.position), Variance(c, t))
               ELSE NegInfinity
BY DEF LogLikelihood, Valid, Compatibility, Likeness

(* The promise about positions, for every pair of components.              *)
LEMMA PositionLikelihoodHolds ==
    ASSUME NEW c \in RawComponent, NEW t \in RawComponent
    PROVE  PositionLikelihood(c, t)
<1> DEFINE value == LogLikelihood(c, t)
           d == HaversineDistance(c.position, t.position)
           v == Variance(c, t)
<1>1. CASE ~Valid(c) \/ ~Valid(t)
  <2>1. value = NegInfinity /\ LogLikelihood(t, c) = NegInfinity
    BY <1>1, LogLikelihoodIs
  <2> QED
    BY <2>1, <1>1 DEF PositionLikelihood
<1>2. CASE Valid(c) /\ Valid(t)
  <2>1. /\ ValidPlace(c.position) /\ c.accuracy \in 0..MaxFinite
        /\ ValidPlace(t.position) /\ t.accuracy \in 0..MaxFinite
    BY <1>2, ValidComponent, ValidPoint DEF RawComponent
  <2>2. value = Likeness(d, v)
    BY <1>2, LogLikelihoodIs
  <2>3. d \in 0..2 /\ d = HaversineDistance(t.position, c.position)
        /\ DistanceRight(c.position, t.position)
    BY <2>1, Distances
  <2>4. v \in Nat /\ v = Variance(t, c)
    BY <2>1, FloatNumbers DEF Variance
  <2>5. LogLikelihood(t, c) = Likeness(d, v)
    BY <1>2, <2>3, <2>4, LogLikelihoodIs
  <2>6. value = NegInfinity \/ value \in -MaxFinite..0
    <3> HIDE DEF d, v
    <3> QED
      BY <2>2, <2>3, <2>4, Likenesses
  <2>7. ASSUME NEW r \in Reading, Valid(r.target), r.target.accuracy = t.accuracy,
               HaversineDistance(c.position, r.target.position) <= d
        PROVE  LogLikelihood(c, r.target) >= value
    <3> DEFINE e == HaversineDistance(c.position, r.target.position)
    <3>1. r.target \in RawComponent
      BY PathAssumption
    <3>2. e \in 0..2
      <4>1. ValidPlace(r.target.position)
        BY <2>7, <3>1, ValidComponent, ValidPoint DEF RawComponent
      <4> QED
        BY <2>1, <4>1, Distances
    <3>3. Variance(c, r.target) = v
      BY <2>7 DEF Variance
    <3>4. LogLikelihood(c, r.target) = Likeness(e, v)
      BY <1>2, <2>7, <3>1, <3>3, LogLikelihoodIs
    <3>5. e <= d
      BY <2>7
    <3> HIDE DEF e, d, v, value
    <3>6. Likeness(d, v) <= Likeness(e, v)
      BY <2>3, <2>4, <3>2, <3>5, Likenesses
    <3>7. \A x \in 0..2 : Likeness(x, v) \in Int
      <4> TAKE x \in 0..2
      <4>1. Likeness(x, v) = NegInfinity \/ Likeness(x, v) \in -MaxFinite..0
        BY <2>4, Likenesses
      <4> QED
        BY <4>1, FloatNumbers
    <3> QED
      BY <2>2, <2>3, <3>2, <3>4, <3>6, <3>7
  <2> QED
    BY <1>2, <2>2, <2>3, <2>5, <2>6, <2>7 DEF PositionLikelihood
<1> QED
  BY <1>1, <1>2

-----------------------------------------------------------------------------
(* An accepted Gaussian has a finite mean and a positive semidefinite      *)
(* covariance.                                                             *)
LEMMA ValidGaussian ==
    ASSUME NEW g \in RawGaussian, GaussianError(g) = "None"
    PROVE  /\ g.covariance.xx \in Nat /\ g.covariance.yy \in Nat /\ g.covariance.xy \in Int
           /\ g.covariance.xy * g.covariance.xy <= g.covariance.xx * g.covariance.yy
           /\ g.mean[1] \in Int /\ g.mean[2] \in Int
<1> DEFINE m == g.covariance
<1>1. m.xx \in Int /\ m.xy \in Int /\ m.yy \in Int
  BY FloatNumbers DEF RawGaussian
<1>2. CovarianceError(m) = "None"
  BY DEF GaussianError
<1>3. IsFinite(g.mean[1]) /\ IsFinite(g.mean[2])
  BY <1>2 DEF GaussianError
<1>4. IsFinite(m.xx) /\ IsFinite(m.xy) /\ IsFinite(m.yy)
  BY <1>2 DEF CovarianceError
<1>5. ~(m.xx < 0 \/ m.yy < 0 \/ m.xy * m.xy > m.xx * m.yy)
  BY <1>2, <1>4 DEF CovarianceError
<1>6. m.xy * m.xy \in Int /\ m.xx * m.yy \in Int
  BY <1>1
<1>7. m.xy * m.xy <= m.xx * m.yy
  BY <1>5, <1>6
<1>8. m.xx >= 0 /\ m.yy >= 0
  BY <1>1, <1>5
<1>9. g.mean[1] \in Int /\ g.mean[2] \in Int
  BY <1>3, FloatNumbers DEF IsFinite
<1> QED
  BY <1>1, <1>7, <1>8, <1>9

(* A result that rounds to a finite number is that number.                 *)
LEMMA RoundedFinite ==
    ASSUME NEW x \in Int
    PROVE  /\ Rounded(x) \in Int
           /\ IsFinite(Rounded(x)) => Rounded(x) = x
           /\ IsFinite(Rounded(-x)) <=> IsFinite(Rounded(x))
           /\ x <= 0 => Rounded(x) = NegInfinity \/ Rounded(x) \in -MaxFinite..0
           /\ Rounded(0) = 0 /\ IsFinite(0)
BY FloatNumbers DEF Rounded, IsFinite

(* The log-likelihood of a sum of covariances and a difference of means. *)
Density(xx, xy, yy, dx, dy) ==
    LET quadratic == yy * dx * dx - 2 * xy * dx * dy + xx * dy * dy
        determinant == xx * yy - xy * xy
    IN  IF \E x \in {xx, xy, yy} : ~IsFinite(x) THEN Failed("NonFiniteCovariance")
        ELSE IF ~IsFinite(dx) \/ ~IsFinite(dy) THEN [ok |-> NegInfinity]
        ELSE IF dx = 0 /\ dy = 0 THEN [ok |-> 0]
        ELSE IF xx = 0 /\ xy = 0 /\ yy = 0 THEN [ok |-> NegInfinity]
        ELSE IF determinant < 0 THEN Failed("InvalidCovariance")
        ELSE IF determinant = 0 THEN [ok |-> NegInfinity]
        ELSE IF quadratic < 0 THEN Failed("InvalidCovariance")
        ELSE [ok |-> Rounded(-((Scale * quadratic) \div (2 * determinant)))]

(* The compatibility of two Gaussians is a density of their sums and       *)
(* differences.                                                            *)
LEMMA GaussianIsDensity ==
    ASSUME NEW g, NEW t
    PROVE  GaussianCompatibility(g, t) =
               Density(Rounded(g.covariance.xx + t.covariance.xx),
                       Rounded(g.covariance.xy + t.covariance.xy),
                       Rounded(g.covariance.yy + t.covariance.yy),
                       Rounded(g.mean[1] - t.mean[1]), Rounded(g.mean[2] - t.mean[2]))
BY DEF GaussianCompatibility, Density, Determinant

(* A density of finite, positive semidefinite entries. *)
LEMMA FiniteDensity ==
    ASSUME NEW xx \in 0..MaxFinite, NEW yy \in 0..MaxFinite, NEW xy \in -MaxFinite..MaxFinite,
           xy * xy <= xx * yy,
           NEW dx \in -MaxFinite..MaxFinite, NEW dy \in -MaxFinite..MaxFinite
    PROVE  /\ \E value \in -MaxFinite..0 \cup {NegInfinity} :
                 Density(xx, xy, yy, dx, dy) = [ok |-> value] /\ (dx = 0 /\ dy = 0 => value = 0)
           /\ Density(xx, xy, yy, -dx, -dy) = Density(xx, xy, yy, dx, dy)
<1> USE FloatNumbers
<1> DEFINE quadratic == yy * dx * dx - 2 * xy * dx * dy + xx * dy * dy
           mirrored == yy * (-dx) * (-dx) - 2 * xy * (-dx) * (-dy) + xx * (-dy) * (-dy)
           determinant == xx * yy - xy * xy
           value == Rounded(-((Scale * quadratic) \div (2 * determinant)))
<1>1. determinant \in Int /\ determinant >= 0
  OBVIOUS
<1>2. quadratic \in Int /\ quadratic >= 0
  BY QuadraticForm
<1>3. mirrored = quadratic
  OBVIOUS
<1>4. IsFinite(xx) /\ IsFinite(xy) /\ IsFinite(yy) /\ IsFinite(dx) /\ IsFinite(dy)
      /\ IsFinite(-dx) /\ IsFinite(-dy)
  BY DEF IsFinite
<1>5. Density(xx, xy, yy, dx, dy) =
          IF dx = 0 /\ dy = 0 THEN [ok |-> 0]
          ELSE IF xx = 0 /\ xy = 0 /\ yy = 0 THEN [ok |-> NegInfinity]
          ELSE IF determinant = 0 THEN [ok |-> NegInfinity]
          ELSE [ok |-> value]
  <2> HIDE DEF determinant, quadratic
  <2>1. ~(determinant < 0) /\ ~(quadratic < 0)
    BY <1>1, <1>2
  <2> QED
    BY <1>4, <2>1 DEF Density, determinant, quadratic
<1>6. Density(xx, xy, yy, -dx, -dy) =
          IF dx = 0 /\ dy = 0 THEN [ok |-> 0]
          ELSE IF xx = 0 /\ xy = 0 /\ yy = 0 THEN [ok |-> NegInfinity]
          ELSE IF determinant = 0 THEN [ok |-> NegInfinity]
          ELSE [ok |-> value]
  <2>1. ~(determinant < 0) /\ ~(mirrored < 0) /\ (-dx = 0 <=> dx = 0) /\ (-dy = 0 <=> dy = 0)
    <3> HIDE DEF determinant, quadratic, mirrored
    <3> QED
      BY <1>1, <1>2, <1>3
  <2>2. value = Rounded(-((Scale * mirrored) \div (2 * determinant)))
    <3> HIDE DEF determinant, quadratic, mirrored
    <3> QED
      BY <1>3 DEF value
  <2> HIDE DEF determinant, quadratic, mirrored, value
  <2> QED
    BY <1>4, <2>1, <2>2 DEF Density, determinant, mirrored
<1>7. determinant # 0 => value = NegInfinity \/ value \in -MaxFinite..0
  <2> DEFINE a == Scale * quadratic  n == 2 * determinant
  <2>1. ASSUME determinant # 0 PROVE a \in Nat /\ n \in Nat /\ n >= 1
    <3> HIDE DEF determinant, quadratic
    <3> QED
      BY <1>1, <1>2, <2>1
  <2>2. ASSUME determinant # 0 PROVE a \div n \in Nat
    <3> HIDE DEF a, n
    <3> QED
      BY <2>1, <2>2, Quotients
  <2> DEFINE s == a \div n
  <2>3. value = Rounded(-s)
    OBVIOUS
  <2> HIDE DEF s, value, determinant
  <2>4. ASSUME determinant # 0 PROVE -s \in Int /\ -s <= 0
    BY <2>2, <2>4 DEF s
  <2> QED
    BY <2>3, <2>4, RoundedFinite
<1> HIDE DEF determinant, quadratic, mirrored, value
<1>8. CASE dx = 0 /\ dy = 0
  <2>1. Density(xx, xy, yy, dx, dy) = [ok |-> 0] /\ Density(xx, xy, yy, -dx, -dy) = [ok |-> 0]
    BY <1>5, <1>6, <1>8
  <2> QED
    BY <2>1
<1>9. CASE ~(dx = 0 /\ dy = 0)
  <2>1. CASE determinant = 0 \/ (xx = 0 /\ xy = 0 /\ yy = 0)
    <3>1. Density(xx, xy, yy, dx, dy) = [ok |-> NegInfinity] /\ Density(xx, xy, yy, -dx, -dy) = [ok |-> NegInfinity]
      BY <1>5, <1>6, <1>9, <2>1
    <3> QED
      BY <3>1, <1>9
  <2>2. CASE ~(determinant = 0 \/ (xx = 0 /\ xy = 0 /\ yy = 0))
    <3>1. Density(xx, xy, yy, dx, dy) = [ok |-> value] /\ Density(xx, xy, yy, -dx, -dy) = [ok |-> value]
      BY <1>5, <1>6, <1>9, <2>2
    <3> QED
      BY <3>1, <1>7, <1>9, <2>2
  <2> QED
    BY <2>1, <2>2
<1> QED
  BY <1>8, <1>9

(* The promise about Gaussians, for every pair that is accepted.           *)
LEMMA GaussianLikelihoodHolds ==
    ASSUME NEW g \in RawGaussian, NEW t \in RawGaussian
    PROVE  GaussianLikelihood(g, t)
<1> DEFINE xx == g.covariance.xx + t.covariance.xx
           xy == g.covariance.xy + t.covariance.xy
           yy == g.covariance.yy + t.covariance.yy
           dx == g.mean[1] - t.mean[1]
           dy == g.mean[2] - t.mean[2]
           result == GaussianCompatibility(g, t)
           mirror == GaussianCompatibility(t, g)
           value == GaussianLogLikelihood(g, t)
           Claim == /\ result # Failed("InvalidCovariance")
                    /\ value = NegInfinity \/ value \in -MaxFinite..0
                    /\ value = GaussianLogLikelihood(t, g)
                    /\ g.mean = t.mean /\ value # 0 => result = Failed("NonFiniteCovariance")
<1> SUFFICES ASSUME GaussianError(g) = "None", GaussianError(t) = "None"
             PROVE  Claim
  BY DEF GaussianLikelihood
<1> DEFINE a == g.covariance.xx  c == g.covariance.yy  x == g.covariance.xy
           b == t.covariance.xx  d == t.covariance.yy  y == t.covariance.xy
           p == g.mean[1]  q == g.mean[2]  u == t.mean[1]  w == t.mean[2]
<1> HIDE DEF a, b, c, d, x, y, p, q, u, w
<1>1. /\ a \in Nat /\ c \in Nat /\ x \in Int /\ x * x <= a * c
      /\ b \in Nat /\ d \in Nat /\ y \in Int /\ y * y <= b * d
      /\ p \in Int /\ q \in Int /\ u \in Int /\ w \in Int
  BY ValidGaussian DEF a, b, c, d, x, y, p, q, u, w
<1>2. xx = a + b /\ xy = x + y /\ yy = c + d /\ dx = p - u /\ dy = q - w
  BY DEF a, b, c, d, x, y, p, q, u, w
<1>3. xy * xy <= xx * yy /\ xx \in Nat /\ yy \in Nat /\ xy \in Int /\ dx \in Int /\ dy \in Int
  <2>1. (x + y) * (x + y) <= (a + b) * (c + d)
    BY <1>1, SumOfCovariances
  <2> HIDE DEF xx, xy, yy, dx, dy
  <2>2. xy * xy <= xx * yy
    BY <1>2, <2>1
  <2> QED
    BY <1>1, <1>2, <2>2
<1>4. /\ b + a = xx /\ y + x = xy /\ d + c = yy /\ u - p = -dx /\ w - q = -dy
      /\ p = u => dx = 0
      /\ q = w => dy = 0
  BY <1>1, <1>2
<1>5. g.mean = t.mean => dx = 0 /\ dy = 0
  BY <1>4 DEF p, q, u, w
<1>6. mirror = Density(Rounded(b + a), Rounded(y + x), Rounded(d + c), Rounded(u - p), Rounded(w - q))
  BY GaussianIsDensity DEF a, b, c, d, x, y, p, q, u, w
<1>7. result = Density(Rounded(xx), Rounded(xy), Rounded(yy), Rounded(dx), Rounded(dy))
  BY GaussianIsDensity
<1>8. mirror = Density(Rounded(xx), Rounded(xy), Rounded(yy), Rounded(-dx), Rounded(-dy))
  BY <1>4, <1>6
<1>9. /\ value = IF Fails(result) THEN NegInfinity ELSE result.ok
      /\ GaussianLogLikelihood(t, g) = IF Fails(mirror) THEN NegInfinity ELSE mirror.ok
  BY DEF GaussianLogLikelihood
<1> HIDE DEF xx, xy, yy, dx, dy, result, mirror, value
<1>10. CASE \E m \in {Rounded(xx), Rounded(xy), Rounded(yy)} : ~IsFinite(m)
  <2>1. result = Failed("NonFiniteCovariance") /\ mirror = Failed("NonFiniteCovariance")
    BY <1>7, <1>8, <1>10 DEF Density
  <2>2. Fails(result) /\ Fails(mirror) /\ result # Failed("InvalidCovariance")
    BY <2>1 DEF Fails, Failed
  <2> QED
    BY <1>9, <2>1, <2>2
<1>11. CASE ~\E m \in {Rounded(xx), Rounded(xy), Rounded(yy)} : ~IsFinite(m)
  <2>1. IsFinite(Rounded(xx)) /\ IsFinite(Rounded(xy)) /\ IsFinite(Rounded(yy))
    BY <1>11
  <2>2. Rounded(xx) = xx /\ Rounded(xy) = xy /\ Rounded(yy) = yy
    BY <1>3, <2>1, RoundedFinite
  <2>3. xx \in 0..MaxFinite /\ yy \in 0..MaxFinite /\ xy \in -MaxFinite..MaxFinite
    BY <1>3, <2>1, <2>2, FloatNumbers DEF IsFinite
  <2>4. CASE ~IsFinite(Rounded(dx)) \/ ~IsFinite(Rounded(dy))
    <3>1. ~IsFinite(Rounded(-dx)) \/ ~IsFinite(Rounded(-dy))
      BY <1>3, <2>4, RoundedFinite
    <3>2. result = [ok |-> NegInfinity] /\ mirror = [ok |-> NegInfinity]
      BY <1>7, <1>8, <1>11, <2>4, <3>1 DEF Density
    <3>3. ~Fails(result) /\ ~Fails(mirror) /\ result # Failed("InvalidCovariance")
      BY <3>2 DEF Fails, Failed
    <3>4. ~(g.mean = t.mean)
      BY <1>5, <2>4, RoundedFinite
    <3> QED
      BY <1>9, <3>2, <3>3, <3>4
  <2>5. CASE IsFinite(Rounded(dx)) /\ IsFinite(Rounded(dy))
    <3>1. -dx \in Int /\ -dy \in Int
      BY <1>3
    <3>2. IsFinite(Rounded(-dx)) /\ IsFinite(Rounded(-dy))
      BY <1>3, <2>5, RoundedFinite
    <3>3. Rounded(dx) = dx /\ Rounded(dy) = dy /\ Rounded(-dx) = -dx /\ Rounded(-dy) = -dy
      BY <1>3, <2>5, <3>1, <3>2, RoundedFinite
    <3>4. dx \in -MaxFinite..MaxFinite /\ dy \in -MaxFinite..MaxFinite
      BY <2>5, <3>3 DEF IsFinite
    <3>5. PICK v \in -MaxFinite..0 \cup {NegInfinity} :
              Density(xx, xy, yy, dx, dy) = [ok |-> v] /\ (dx = 0 /\ dy = 0 => v = 0)
      BY <1>3, <2>3, <3>4, FiniteDensity
    <3>6. Density(xx, xy, yy, -dx, -dy) = Density(xx, xy, yy, dx, dy)
      BY <1>3, <2>3, <3>4, FiniteDensity
    <3>7. result = [ok |-> v] /\ mirror = [ok |-> v]
      BY <1>7, <1>8, <2>2, <3>3, <3>5, <3>6
    <3>8. ~Fails(result) /\ ~Fails(mirror) /\ result # Failed("InvalidCovariance")
      BY <3>7 DEF Fails, Failed
    <3>9. value = v /\ GaussianLogLikelihood(t, g) = v
      BY <1>9, <3>7, <3>8
    <3> QED
      BY <1>5, <3>5, <3>8, <3>9
  <2> QED
    BY <2>4, <2>5
<1> QED
  BY <1>10, <1>11

(* The property needs no history: it holds in every state.                 *)
LEMMA LikelihoodAlwaysSound == LikelihoodSound
<1>1. ASSUME IsPositionPair PROVE PositionLikelihood(pair.source, pair.target)
  BY <1>1, PathAssumption, PositionLikelihoodHolds DEF IsPositionPair
<1>2. ASSUME IsGaussianPair PROVE GaussianLikelihood(pair.source, pair.target)
  BY <1>2, PathAssumption, GaussianLikelihoodHolds DEF IsGaussianPair
<1> QED
  BY <1>1, <1>2 DEF LikelihoodSound

(* Whatever two readings or Gaussians are weighted, the log-likelihood     *)
(* is never NaN nor positive, is the same from both sides and -infinity    *)
(* for a malformed reading, the nearer of two equally accurate targets     *)
(* is not the less likely one, and two accepted covariances never add up   *)
(* to one that is refused (log_likelihood and compatibility of the         *)
(* spatial model).                                                         *)
THEOREM LikelihoodsAreSound == Spec => []LikelihoodSound
BY LikelihoodAlwaysSound, PTL

(* The same for the constructors.                                          *)
LEMMA ConstructorsAgreeAlways == ConstructorsAgree
<1>1. ASSUME IsPositionPair, NEW c \in {pair.source, pair.target}
      PROVE  /\ Valid(Component(c))
             /\ Valid(c) /\ c.accuracy <= MaxAccuracy => Component(c) = c
  <2>1. c \in RawComponent
    BY <1>1, PathAssumption DEF IsPositionPair
  <2> QED
    BY <2>1, ComponentIsValid
<1>2. \A value \in NegInfinity..NaN :
          /\ ProbabilityError(SaturatedProbability(value)) = "None"
          /\ ProbabilityError(value) = "None" => SaturatedProbability(value) = value
  BY ProbabilityIsValid DEF Float
<1> QED
  BY <1>1, <1>2 DEF ConstructorsAgree

(* Whatever the saturating constructors make of a reading or of a          *)
(* number, the checked ones accept, and what these accept is left as it    *)
(* is (spatial components, Probability::saturating).                       *)
THEOREM ConstructorsAlwaysAgree == Spec => []ConstructorsAgree
BY ConstructorsAgreeAlways, PTL

-----------------------------------------------------------------------------
\* Whether a document makes a statement.
Makes(S, predicate, subject, object) == <<predicate, subject, object>> \in S

(* What each part of a document states (the export of interoperability.rs, *)
(* one lemma per part).                                                    *)
LEMMA InDescribed ==
    ASSUME NEW subject, NEW classes, NEW properties, NEW k, NEW s, NEW v
    PROVE  Makes(Described(subject, classes, properties), k, s, v) <=>
               /\ s = subject
               /\ \/ k = "a" /\ (\E c \in classes : v = <<c>>)
                  \/ k \in DOMAIN properties /\ v = properties[k]
BY DEF Described, Makes

LEMMA InObservation ==
    ASSUME NEW o, NEW k, NEW s, NEW v
    PROVE  Makes(ObservationStatements(o), k, s, v) <=>
               /\ s = Node("observation", o.id)
               /\ \/ k = "a" /\ v \in {<<"Entity">>, <<"Observation">>}
                  \/ k = "source" /\ v = o.source
                  \/ k = "eventTime" /\ v = o.event_time
                  \/ k = "ingestionTime" /\ v = o.ingestion_time
                  \/ k = "contentHash" /\ v = o.content_hash
BY InDescribed DEF ObservationStatements

LEMMA InInference ==
    ASSUME NEW o, NEW i, NEW k, NEW s, NEW v
    PROVE  Makes(InferenceStatements(o, i), k, s, v) <=>
               /\ s = Node("inference", i.id)
               /\ \/ k = "a" /\ v \in {<<"Activity">>, <<"Inference">>}
                  \/ k = "used" /\ v = Node("observation", o.id)
                  \/ k = "hostSnapshot" /\ v = i.host_snapshot
                  \/ k = "candidateVersion" /\ v = i.candidate_version
                  \/ k = "solverVersion" /\ v = i.solver_version
                  \/ k = "stoppingReason" /\ v = i.stopping_reason
BY InDescribed DEF InferenceStatements

LEMMA InDecision ==
    ASSUME NEW i, NEW d, NEW k, NEW s, NEW v
    PROVE  Makes(DecisionStatements(i, d), k, s, v) <=>
               /\ s = Node("decision", d.id)
               /\ \/ k = "a" /\ v \in {<<"Activity">>, <<"Decision">>}
                  \/ k = "used" /\ v = Node("inference", i.id)
                  \/ k = "policyVersion" /\ v = d.policy_version
                  \/ k = "lossVersion" /\ v = d.loss_version
                  \/ k = "action" /\ v = d.action.name
BY InDescribed DEF DecisionStatements

LEMMA InProviders ==
    ASSUME NEW i, NEW k, NEW s, NEW v
    PROVE  Makes(ProviderStatements(i), k, s, v) <=>
               \E n \in DOMAIN i.providers :
                  \/ /\ s = Node("inference", i.id)
                     /\ k = "usedProvider" /\ v = Node("artifact", n)
                  \/ /\ s = Node("artifact", n)
                     /\ \/ k = "a" /\ v = <<"Entity">>
                        \/ k = "providerId" /\ v = i.providers[n].provider
                        \/ k = "schemaId" /\ v = i.providers[n].schema
                        \/ k = "modelVersion" /\ v = i.providers[n].model_version
                        \/ k = "calibrationId" /\ v = i.providers[n].calibration_id
                        \/ k = "ordinal" /\ v = n
<1> DEFINE P(n) == Described(Node("artifact", n), {"Entity"},
                    [providerId |-> i.providers[n].provider, schemaId |-> i.providers[n].schema,
                     modelVersion |-> i.providers[n].model_version,
                     calibrationId |-> i.providers[n].calibration_id, ordinal |-> n])
<1>1. ASSUME NEW n
      PROVE  Makes(P(n), k, s, v) <=>
                 /\ s = Node("artifact", n)
                 /\ \/ k = "a" /\ v = <<"Entity">>
                    \/ k = "providerId" /\ v = i.providers[n].provider
                    \/ k = "schemaId" /\ v = i.providers[n].schema
                    \/ k = "modelVersion" /\ v = i.providers[n].model_version
                    \/ k = "calibrationId" /\ v = i.providers[n].calibration_id
                    \/ k = "ordinal" /\ v = n
  BY InDescribed
<1>2. Makes(ProviderStatements(i), k, s, v) <=>
          \E n \in DOMAIN i.providers :
              \/ <<k, s, v>> = <<"usedProvider", Node("inference", i.id), Node("artifact", n)>>
              \/ Makes(P(n), k, s, v)
  BY DEF ProviderStatements, Makes
<1> HIDE DEF P
<1> QED
  BY <1>1, <1>2

LEMMA InScores ==
    ASSUME NEW i, NEW k, NEW s, NEW v
    PROVE  Makes(ScoreStatements(i), k, s, v) <=>
               \E n \in DOMAIN i.contributions :
                  \/ /\ s = Node("inference", i.id)
                     /\ k = "hasScoreContribution" /\ v = Node("score", n)
                  \/ /\ s = Node("score", n)
                     /\ \/ k = "a" /\ v = <<"ScoreContribution">>
                        \/ k = "value" /\ v = Printed(i.contributions[n].value)
                        \/ k = "scoreSemantics" /\ v = i.contributions[n].semantics
                        \/ k = "providerId" /\ v = i.contributions[n].provider
                        \/ k = "modelVersion" /\ v = i.contributions[n].model_version
                        \/ k = "calibrationId" /\ v = i.contributions[n].calibration_id
                        \/ k = "validityDomain" /\ v = i.contributions[n].validity_domain
<1> DEFINE P(n) == Described(Node("score", n), {"ScoreContribution"},
                    [value |-> Printed(i.contributions[n].value),
                     scoreSemantics |-> i.contributions[n].semantics,
                     providerId |-> i.contributions[n].provider,
                     modelVersion |-> i.contributions[n].model_version,
                     calibrationId |-> i.contributions[n].calibration_id,
                     validityDomain |-> i.contributions[n].validity_domain])
<1>1. ASSUME NEW n
      PROVE  Makes(P(n), k, s, v) <=>
                 /\ s = Node("score", n)
                 /\ \/ k = "a" /\ v = <<"ScoreContribution">>
                    \/ k = "value" /\ v = Printed(i.contributions[n].value)
                    \/ k = "scoreSemantics" /\ v = i.contributions[n].semantics
                    \/ k = "providerId" /\ v = i.contributions[n].provider
                    \/ k = "modelVersion" /\ v = i.contributions[n].model_version
                    \/ k = "calibrationId" /\ v = i.contributions[n].calibration_id
                    \/ k = "validityDomain" /\ v = i.contributions[n].validity_domain
  BY InDescribed
<1>2. Makes(ScoreStatements(i), k, s, v) <=>
          \E n \in DOMAIN i.contributions :
              \/ <<k, s, v>> = <<"hasScoreContribution", Node("inference", i.id), Node("score", n)>>
              \/ Makes(P(n), k, s, v)
  BY DEF ScoreStatements, Makes
<1> HIDE DEF P
<1> QED
  BY <1>1, <1>2

LEMMA InAlternatives ==
    ASSUME NEW profile \in Profile, NEW o, NEW i, NEW k, NEW s, NEW v
    PROVE  Makes(AlternativeStatements(profile, o, i), k, s, v) <=>
               \E n \in DOMAIN i.distribution.entries :
                  /\ s = Node("alternative", n)
                  /\ \/ k = "a" /\ v = <<"Alternative">>
                     \/ k = "probability" /\ v = Printed(i.distribution.entries[n].probability)
                     \/ k = "wasGeneratedBy" /\ v = Node("inference", i.id)
                     \/ /\ profile = "Rdf11"
                        /\ \/ k = "a" /\ v = <<"Statement">>
                           \/ k = "subject" /\ v = Node("observation", o.id)
                           \/ k = "predicate" /\ v = "candidateTarget"
                           \/ k = "object" /\ v = OutcomeTerm(i.distribution.entries[n].outcome)
                     \/ /\ profile = "Rdf12" /\ k = "reifies"
                        /\ v = <<"candidateTarget", Node("observation", o.id),
                                 OutcomeTerm(i.distribution.entries[n].outcome)>>
<1> DEFINE entry(n) == i.distribution.entries[n]
           P(n) == Described(Node("alternative", n), {"Alternative"},
                     [probability |-> Printed(entry(n).probability),
                      wasGeneratedBy |-> Node("inference", i.id)])
           Q(n) == Described(Node("alternative", n), {"Statement"},
             [subject |-> Node("observation", o.id), predicate |-> "candidateTarget",
              object |-> OutcomeTerm(entry(n).outcome)])
<1>1. ASSUME NEW n
      PROVE  Makes(P(n), k, s, v) <=>
                 /\ s = Node("alternative", n)
                 /\ \/ k = "a" /\ v = <<"Alternative">>
                    \/ k = "probability" /\ v = Printed(entry(n).probability)
                    \/ k = "wasGeneratedBy" /\ v = Node("inference", i.id)
  BY InDescribed
<1>2. ASSUME NEW n
      PROVE  Makes(Q(n), k, s, v) <=>
                 /\ s = Node("alternative", n)
                 /\ \/ k = "a" /\ v = <<"Statement">>
                    \/ k = "subject" /\ v = Node("observation", o.id)
                    \/ k = "predicate" /\ v = "candidateTarget"
                    \/ k = "object" /\ v = OutcomeTerm(entry(n).outcome)
  BY InDescribed
<1>3. ASSUME NEW n
      PROVE  Makes(Proposition(profile, o, entry(n), n), k, s, v) <=>
                 \/ profile = "Rdf11" /\ Makes(Q(n), k, s, v)
                 \/ /\ profile = "Rdf12" /\ k = "reifies" /\ s = Node("alternative", n)
                    /\ v = <<"candidateTarget", Node("observation", o.id), OutcomeTerm(entry(n).outcome)>>
  BY DEF Proposition, Makes, Profile
<1>4. Makes(AlternativeStatements(profile, o, i), k, s, v) <=>
          \E n \in DOMAIN i.distribution.entries :
              \/ Makes(Proposition(profile, o, entry(n), n), k, s, v)
              \/ Makes(P(n), k, s, v)
  BY DEF AlternativeStatements, Makes
<1> HIDE DEF P, Q
<1> QED
  BY <1>1, <1>2, <1>3, <1>4

LEMMA InNanopublication ==
    ASSUME NEW r, NEW k, NEW s, NEW v
    PROVE  Makes(NanopublicationStatements(r), k, s, v) <=>
               /\ s = Node("nanopub", r.decision.id)
               /\ \/ k = "a" /\ v = <<"Nanopublication">>
                  \/ k = "hasAssertion" /\ v = <<"nanopub", r.decision.id, "assertion">>
                  \/ k = "hasProvenance" /\ v = <<"nanopub", r.decision.id, "provenance">>
                  \/ k = "hasPublicationInfo" /\ v = <<"nanopub", r.decision.id, "publicationInfo">>
BY DEF NanopublicationStatements, Makes

(* A document of some records, with a nanopublication about it or not. *)
Documents(profile, r) ==
    {Statements(profile, r), Statements(profile, r) \cup NanopublicationStatements(r)}

(* A document states what one of its parts does.                           *)
LEMMA InDocument ==
    ASSUME NEW profile, NEW r, NEW S \in Documents(profile, r), NEW k, NEW s, NEW v
    PROVE  Makes(S, k, s, v) <=>
               \/ Makes(ObservationStatements(r.observation), k, s, v)
               \/ Makes(InferenceStatements(r.observation, r.inference), k, s, v)
               \/ Makes(ProviderStatements(r.inference), k, s, v)
               \/ Makes(ScoreStatements(r.inference), k, s, v)
               \/ Makes(AlternativeStatements(profile, r.observation, r.inference), k, s, v)
               \/ Makes(DecisionStatements(r.inference, r.decision), k, s, v)
               \/ S # Statements(profile, r) /\ Makes(NanopublicationStatements(r), k, s, v)
BY DEF Documents, Statements, Makes

(* Every statement is a triple.                                            *)
LEMMA Triples ==
    ASSUME NEW profile \in Profile, NEW r, NEW S \in Documents(profile, r), NEW t \in S
    PROVE  t = <<t[1], t[2], t[3]>>
<1>1. \A subject, classes, properties : \A u \in Described(subject, classes, properties) :
          u = <<u[1], u[2], u[3]>>
  BY DEF Described
<1>2. \A u \in ObservationStatements(r.observation) : u = <<u[1], u[2], u[3]>>
  BY <1>1 DEF ObservationStatements
<1>3. \A u \in InferenceStatements(r.observation, r.inference) : u = <<u[1], u[2], u[3]>>
  BY <1>1 DEF InferenceStatements
<1>4. \A u \in DecisionStatements(r.inference, r.decision) : u = <<u[1], u[2], u[3]>>
  BY <1>1 DEF DecisionStatements
<1>5. ASSUME NEW u \in ProviderStatements(r.inference) PROVE u = <<u[1], u[2], u[3]>>
  <2> DEFINE i == r.inference
  <2>1. PICK n \in DOMAIN i.providers :
            \/ u = <<"usedProvider", Node("inference", i.id), Node("artifact", n)>>
            \/ u \in Described(Node("artifact", n), {"Entity"},
                    [providerId |-> i.providers[n].provider, schemaId |-> i.providers[n].schema,
                     modelVersion |-> i.providers[n].model_version,
                     calibrationId |-> i.providers[n].calibration_id, ordinal |-> n])
    BY <1>5 DEF ProviderStatements
  <2> QED
    BY <1>1, <2>1
<1>6. ASSUME NEW u \in ScoreStatements(r.inference) PROVE u = <<u[1], u[2], u[3]>>
  <2> DEFINE i == r.inference
  <2>1. PICK n \in DOMAIN i.contributions :
            \/ u = <<"hasScoreContribution", Node("inference", i.id), Node("score", n)>>
            \/ u \in Described(Node("score", n), {"ScoreContribution"},
                    [value |-> Printed(i.contributions[n].value),
                     scoreSemantics |-> i.contributions[n].semantics,
                     providerId |-> i.contributions[n].provider,
                     modelVersion |-> i.contributions[n].model_version,
                     calibrationId |-> i.contributions[n].calibration_id,
                     validityDomain |-> i.contributions[n].validity_domain])
    BY <1>6 DEF ScoreStatements
  <2> QED
    BY <1>1, <2>1
<1>7. \A u \in AlternativeStatements(profile, r.observation, r.inference) :
          u = <<u[1], u[2], u[3]>>
  <2>1. \A entry, n : \A u \in Proposition(profile, r.observation, entry, n) :
            u = <<u[1], u[2], u[3]>>
    BY <1>1 DEF Proposition
  <2> QED
    BY <1>1, <2>1 DEF AlternativeStatements
<1>8. \A u \in NanopublicationStatements(r) : u = <<u[1], u[2], u[3]>>
  BY DEF NanopublicationStatements
<1> QED
  BY <1>2, <1>3, <1>4, <1>5, <1>6, <1>7, <1>8 DEF Documents, Statements

(* Which statements are about the nodes of a kind. *)
LEMMA AboutNodes ==
    ASSUME NEW profile \in Profile, NEW r, NEW S \in Documents(profile, r),
           NEW k, NEW n, NEW v
    PROVE  /\ Makes(S, k, Node("alternative", n), v) <=>
                  Makes(AlternativeStatements(profile, r.observation, r.inference),
                        k, Node("alternative", n), v)
           /\ Makes(S, k, Node("score", n), v) <=>
                  Makes(ScoreStatements(r.inference), k, Node("score", n), v)
           /\ Makes(S, k, Node("artifact", n), v) <=>
                  Makes(ProviderStatements(r.inference), k, Node("artifact", n), v)
           /\ Makes(S, k, Node("decision", n), v) <=>
                  Makes(DecisionStatements(r.inference, r.decision), k, Node("decision", n), v)
           /\ Makes(S, k, Node("inference", n), v) <=>
                  \/ Makes(InferenceStatements(r.observation, r.inference),
                           k, Node("inference", n), v)
                  \/ Makes(ProviderStatements(r.inference), k, Node("inference", n), v)
                  \/ Makes(ScoreStatements(r.inference), k, Node("inference", n), v)
           /\ Makes(S, k, Node("observation", n), v) <=>
                  Makes(ObservationStatements(r.observation), k, Node("observation", n), v)
<1> DEFINE Kinds == {"alternative", "score", "artifact", "decision", "inference", "observation"}
<1>1. ASSUME NEW kind \in Kinds
      PROVE  /\ kind # "observation" =>
                    ~Makes(ObservationStatements(r.observation), k, Node(kind, n), v)
             /\ kind # "inference" =>
                    ~Makes(InferenceStatements(r.observation, r.inference), k, Node(kind, n), v)
             /\ kind \notin {"inference", "artifact"} =>
                    ~Makes(ProviderStatements(r.inference), k, Node(kind, n), v)
             /\ kind \notin {"inference", "score"} =>
                    ~Makes(ScoreStatements(r.inference), k, Node(kind, n), v)
             /\ kind # "alternative" =>
                    ~Makes(AlternativeStatements(profile, r.observation, r.inference),
                           k, Node(kind, n), v)
             /\ kind # "decision" =>
                    ~Makes(DecisionStatements(r.inference, r.decision), k, Node(kind, n), v)
             /\ ~Makes(NanopublicationStatements(r), k, Node(kind, n), v)
  <2>1. \A other, m : Node(kind, n) = Node(other, m) => other = kind
    BY DEF Node
  <2>2. kind # "observation" =>
            ~Makes(ObservationStatements(r.observation), k, Node(kind, n), v)
    BY <2>1, InObservation
  <2>3. kind # "inference" =>
            ~Makes(InferenceStatements(r.observation, r.inference), k, Node(kind, n), v)
    BY <2>1, InInference
  <2>4. kind \notin {"inference", "artifact"} =>
            ~Makes(ProviderStatements(r.inference), k, Node(kind, n), v)
    BY <2>1, InProviders
  <2>5. kind \notin {"inference", "score"} =>
            ~Makes(ScoreStatements(r.inference), k, Node(kind, n), v)
    BY <2>1, InScores
  <2>6. kind # "alternative" =>
            ~Makes(AlternativeStatements(profile, r.observation, r.inference),
                   k, Node(kind, n), v)
    BY <2>1, InAlternatives
  <2>7. kind # "decision" =>
            ~Makes(DecisionStatements(r.inference, r.decision), k, Node(kind, n), v)
    BY <2>1, InDecision
  <2>8. kind # "nanopub"
    OBVIOUS
  <2>9. ~Makes(NanopublicationStatements(r), k, Node(kind, n), v)
    BY <2>1, <2>8, InNanopublication
  <2> QED
    BY <2>2, <2>3, <2>4, <2>5, <2>6, <2>7, <2>9
<1>2. ASSUME NEW kind \in Kinds
      PROVE  Makes(S, k, Node(kind, n), v) <=>
               \/ Makes(ObservationStatements(r.observation), k, Node(kind, n), v)
               \/ Makes(InferenceStatements(r.observation, r.inference), k, Node(kind, n), v)
               \/ Makes(ProviderStatements(r.inference), k, Node(kind, n), v)
               \/ Makes(ScoreStatements(r.inference), k, Node(kind, n), v)
               \/ Makes(AlternativeStatements(profile, r.observation, r.inference),
                        k, Node(kind, n), v)
               \/ Makes(DecisionStatements(r.inference, r.decision), k, Node(kind, n), v)
  BY <1>1, InDocument
<1> QED
  BY <1>1, <1>2

(* What a document states of each kind of node, and nothing else states    *)
(* it.                                                                     *)
LEMMA AlternativesTold ==
    ASSUME NEW profile \in Profile, NEW r, NEW S \in Documents(profile, r), NEW n, NEW v
    PROVE  LET entries == r.inference.distribution.entries
           IN  /\ Makes(S, "probability", Node("alternative", n), v) <=>
                      n \in DOMAIN entries /\ v = Printed(entries[n].probability)
               /\ Makes(S, "object", Node("alternative", n), v) <=>
                      /\ profile = "Rdf11" /\ n \in DOMAIN entries
                      /\ v = OutcomeTerm(entries[n].outcome)
               /\ Makes(S, "reifies", Node("alternative", n), v) <=>
                      /\ profile = "Rdf12" /\ n \in DOMAIN entries
                      /\ v = <<"candidateTarget", Node("observation", r.observation.id),
                               OutcomeTerm(entries[n].outcome)>>
               /\ Makes(S, "wasGeneratedBy", Node("alternative", n), v) <=>
                      n \in DOMAIN entries /\ v = Node("inference", r.inference.id)
<1>1. \A m : Node("alternative", m) = Node("alternative", n) <=> m = n
  BY DEF Node
<1>2. \A k : Makes(S, k, Node("alternative", n), v) <=>
                 Makes(AlternativeStatements(profile, r.observation, r.inference),
                       k, Node("alternative", n), v)
  BY AboutNodes
<1> QED
  BY <1>1, <1>2, InAlternatives

LEMMA ScoresTold ==
    ASSUME NEW profile \in Profile, NEW r, NEW S \in Documents(profile, r), NEW n, NEW v
    PROVE  LET scores == r.inference.contributions
           IN  /\ Makes(S, "value", Node("score", n), v) <=>
                      n \in DOMAIN scores /\ v = Printed(scores[n].value)
               /\ Makes(S, "scoreSemantics", Node("score", n), v) <=>
                      n \in DOMAIN scores /\ v = scores[n].semantics
               /\ Makes(S, "modelVersion", Node("score", n), v) <=>
                      n \in DOMAIN scores /\ v = scores[n].model_version
               /\ Makes(S, "calibrationId", Node("score", n), v) <=>
                      n \in DOMAIN scores /\ v = scores[n].calibration_id
<1>1. \A m, i : Node("score", m) = Node("score", n) <=> m = n
  BY DEF Node
<1>2. Node("inference", r.inference.id) # Node("score", n)
  BY DEF Node
<1>3. \A k : Makes(S, k, Node("score", n), v) <=>
                 Makes(ScoreStatements(r.inference), k, Node("score", n), v)
  BY AboutNodes
<1> QED
  BY <1>1, <1>2, <1>3, InScores

LEMMA ProvidersTold ==
    ASSUME NEW profile \in Profile, NEW r, NEW S \in Documents(profile, r), NEW n, NEW v
    PROVE  LET providers == r.inference.providers
           IN  /\ Makes(S, "providerId", Node("artifact", n), v) <=>
                      n \in DOMAIN providers /\ v = providers[n].provider
               /\ Makes(S, "schemaId", Node("artifact", n), v) <=>
                      n \in DOMAIN providers /\ v = providers[n].schema
               /\ Makes(S, "modelVersion", Node("artifact", n), v) <=>
                      n \in DOMAIN providers /\ v = providers[n].model_version
               /\ Makes(S, "calibrationId", Node("artifact", n), v) <=>
                      n \in DOMAIN providers /\ v = providers[n].calibration_id
<1>1. \A m : Node("artifact", m) = Node("artifact", n) <=> m = n
  BY DEF Node
<1>2. Node("inference", r.inference.id) # Node("artifact", n)
  BY DEF Node
<1>3. \A k : Makes(S, k, Node("artifact", n), v) <=>
                 Makes(ProviderStatements(r.inference), k, Node("artifact", n), v)
  BY AboutNodes
<1> QED
  BY <1>1, <1>2, <1>3, InProviders

LEMMA DecisionTold ==
    ASSUME NEW profile \in Profile, NEW r, NEW S \in Documents(profile, r), NEW v
    PROVE  LET d == r.decision
           IN  /\ Makes(S, "used", Node("decision", d.id), v) <=>
                      v = Node("inference", r.inference.id)
               /\ Makes(S, "policyVersion", Node("decision", d.id), v) <=>
                      v = d.policy_version
               /\ Makes(S, "lossVersion", Node("decision", d.id), v) <=> v = d.loss_version
               /\ Makes(S, "action", Node("decision", d.id), v) <=> v = d.action.name
BY AboutNodes, InDecision

LEMMA InferenceTold ==
    ASSUME NEW profile \in Profile, NEW r, NEW S \in Documents(profile, r), NEW v
    PROVE  LET i == r.inference
           IN  /\ Makes(S, "used", Node("inference", i.id), v) <=>
                      v = Node("observation", r.observation.id)
               /\ Makes(S, "hostSnapshot", Node("inference", i.id), v) <=>
                      v = i.host_snapshot
               /\ Makes(S, "candidateVersion", Node("inference", i.id), v) <=>
                      v = i.candidate_version
               /\ Makes(S, "solverVersion", Node("inference", i.id), v) <=>
                      v = i.solver_version
               /\ Makes(S, "stoppingReason", Node("inference", i.id), v) <=>
                      v = i.stopping_reason
<1> DEFINE i == r.inference  s == Node("inference", i.id)
<1>1. \A n : Node("artifact", n) # s /\ Node("score", n) # s
  BY DEF Node
<1>2. \A k : Makes(S, k, s, v) <=>
          \/ Makes(InferenceStatements(r.observation, i), k, s, v)
          \/ Makes(ProviderStatements(i), k, s, v)
          \/ Makes(ScoreStatements(i), k, s, v)
  BY AboutNodes
<1>3. \A k : Makes(ProviderStatements(i), k, s, v) => k = "usedProvider"
  BY <1>1, InProviders
<1>4. \A k : Makes(ScoreStatements(i), k, s, v) => k = "hasScoreContribution"
  BY <1>1, InScores
<1> QED
  BY <1>2, <1>3, <1>4, InInference

(* The inference names every provider.                                     *)
LEMMA ProvidersLinked ==
    ASSUME NEW profile \in Profile, NEW r, NEW S \in Documents(profile, r),
           NEW n \in DOMAIN r.inference.providers
    PROVE  Makes(S, "usedProvider", Node("inference", r.inference.id), Node("artifact", n))
BY AboutNodes, InProviders

(* The subjects of the classes that the shapes are for. *)
LEMMA ClassesTold ==
    ASSUME NEW profile \in Profile, NEW r, NEW S \in Documents(profile, r), NEW s
    PROVE  LET i == r.inference
           IN  /\ Makes(S, "a", s, <<"Decision">>) <=> s = Node("decision", r.decision.id)
               /\ Makes(S, "a", s, <<"Inference">>) <=> s = Node("inference", i.id)
               /\ Makes(S, "a", s, <<"Observation">>) <=>
                      s = Node("observation", r.observation.id)
               /\ Makes(S, "a", s, <<"ScoreContribution">>) <=>
                      \E n \in DOMAIN i.contributions : s = Node("score", n)
               /\ Makes(S, "a", s, <<"Alternative">>) <=>
                      \E n \in DOMAIN i.distribution.entries : s = Node("alternative", n)
               /\ ~Makes(S, "a", s, <<"Promotion">>) /\ ~Makes(S, "a", s, <<"Materialization">>)
<1> DEFINE Class(c) ==
        \/ c \in {"Entity", "Observation"} /\ s = Node("observation", r.observation.id)
        \/ c \in {"Activity", "Inference"} /\ s = Node("inference", r.inference.id)
        \/ c \in {"Activity", "Decision"} /\ s = Node("decision", r.decision.id)
        \/ c = "Entity" /\ \E n \in DOMAIN r.inference.providers : s = Node("artifact", n)
        \/ c = "ScoreContribution"
           /\ \E n \in DOMAIN r.inference.contributions : s = Node("score", n)
        \/ (c = "Alternative" \/ (c = "Statement" /\ profile = "Rdf11"))
           /\ \E n \in DOMAIN r.inference.distribution.entries : s = Node("alternative", n)
        \/ c = "Nanopublication" /\ S # Statements(profile, r)
           /\ s = Node("nanopub", r.decision.id)
<1>1. ASSUME NEW c PROVE Makes(S, "a", s, <<c>>) <=> Class(c)
  <2>1. \A d : <<c>> = <<d>> <=> c = d
    OBVIOUS
  <2>2. Makes(ObservationStatements(r.observation), "a", s, <<c>>) <=>
            c \in {"Entity", "Observation"} /\ s = Node("observation", r.observation.id)
    BY <2>1, InObservation
  <2>3. Makes(InferenceStatements(r.observation, r.inference), "a", s, <<c>>) <=>
            c \in {"Activity", "Inference"} /\ s = Node("inference", r.inference.id)
    BY <2>1, InInference
  <2>4. Makes(DecisionStatements(r.inference, r.decision), "a", s, <<c>>) <=>
            c \in {"Activity", "Decision"} /\ s = Node("decision", r.decision.id)
    BY <2>1, InDecision
  <2>5. Makes(ProviderStatements(r.inference), "a", s, <<c>>) <=>
            c = "Entity" /\ \E n \in DOMAIN r.inference.providers : s = Node("artifact", n)
    BY <2>1, InProviders
  <2>6. Makes(ScoreStatements(r.inference), "a", s, <<c>>) <=>
            c = "ScoreContribution"
            /\ \E n \in DOMAIN r.inference.contributions : s = Node("score", n)
    BY <2>1, InScores
  <2>7. Makes(AlternativeStatements(profile, r.observation, r.inference), "a", s, <<c>>) <=>
            (c = "Alternative" \/ (c = "Statement" /\ profile = "Rdf11"))
            /\ \E n \in DOMAIN r.inference.distribution.entries : s = Node("alternative", n)
    BY <2>1, InAlternatives
  <2>8. Makes(NanopublicationStatements(r), "a", s, <<c>>) <=>
            c = "Nanopublication" /\ s = Node("nanopub", r.decision.id)
    BY <2>1, InNanopublication
  <2> QED
    BY <2>2, <2>3, <2>4, <2>5, <2>6, <2>7, <2>8, InDocument
<1> QED
  BY <1>1

(* Only providers are named as providers.                                  *)
LEMMA ArtifactsTold ==
    ASSUME NEW profile \in Profile, NEW r, NEW S \in Documents(profile, r), NEW s, NEW v,
           Makes(S, "usedProvider", s, v)
    PROVE  \E n \in DOMAIN r.inference.providers : v = Node("artifact", n)
<1>1. Makes(ProviderStatements(r.inference), "usedProvider", s, v)
  BY InDocument, InObservation, InInference, InScores, InAlternatives, InDecision,
     InNanopublication
<1> QED
  BY <1>1, InProviders

-----------------------------------------------------------------------------
OnlyValue(S, k, s, v) == \A w : Makes(S, k, s, w) <=> w = v

ValuesIn(S, k, s) == {t[3] : t \in {u \in S : u[1] = k /\ u[2] = s}}

(* A property with one value passes a shape that wants one, and its class. *)
LEMMA OneValue ==
    ASSUME NEW profile \in Profile, NEW r, NEW S \in Documents(profile, r),
           NEW k, NEW s, NEW v, OnlyValue(S, k, s, v)
    PROVE  ValuesIn(S, k, s) = {v} /\ Cardinality(ValuesIn(S, k, s)) = 1
<1>1. \A t \in S : t[1] = k /\ t[2] = s => t[3] = v
  BY Triples DEF Makes, OnlyValue
<1>2. <<k, s, v>> \in S
  BY DEF Makes, OnlyValue
<1>3. ValuesIn(S, k, s) = {v}
  BY <1>1, <1>2 DEF ValuesIn
<1> QED
  BY <1>3, FS_Singleton

(* A statement gives its property a value.                                 *)
LEMMA SomeValue ==
    ASSUME NEW S, NEW k, NEW s, NEW v, Makes(S, k, s, v)
    PROVE  ValuesIn(S, k, s) # {}
BY DEF ValuesIn, Makes

Shaped(S, shape, node) ==
    /\ ValuesIn(S, shape.path, node) # {}
    /\ shape.many \/ Cardinality(ValuesIn(S, shape.path, node)) = 1
    /\ shape.class # "any" =>
           \A v \in ValuesIn(S, shape.path, node) : Makes(S, "a", v, <<shape.class>>)

(* A node with one value of the right class has the shape.                 *)
LEMMA ShapedSingle ==
    ASSUME NEW profile \in Profile, NEW r, NEW S \in Documents(profile, r),
           NEW shape, NEW s, NEW v, OnlyValue(S, shape.path, s, v),
           shape.class = "any" \/ Makes(S, "a", v, <<shape.class>>)
    PROVE  Shaped(S, shape, s)
<1>1. ValuesIn(S, shape.path, s) = {v} /\ Cardinality(ValuesIn(S, shape.path, s)) = 1
  BY OneValue
<1> QED
  BY <1>1 DEF Shaped

(* The values that the shapes ask for, node by node.                       *)
LEMMA DecisionValues ==
    ASSUME NEW profile \in Profile, NEW r, NEW S \in Documents(profile, r)
    PROVE  LET node == Node("decision", r.decision.id)
           IN  /\ OnlyValue(S, "used", node, Node("inference", r.inference.id))
               /\ OnlyValue(S, "action", node, r.decision.action.name)
               /\ \A k \in {"policyVersion", "lossVersion", "action"} :
                      \E v : OnlyValue(S, k, node, v)
<1> DEFINE d == r.decision  node == Node("decision", d.id)
<1> HIDE DEF node
<1>0. ASSUME NEW v
      PROVE  /\ Makes(S, "used", node, v) <=> v = Node("inference", r.inference.id)
             /\ Makes(S, "policyVersion", node, v) <=> v = d.policy_version
             /\ Makes(S, "lossVersion", node, v) <=> v = d.loss_version
             /\ Makes(S, "action", node, v) <=> v = d.action.name
  BY DecisionTold DEF node
<1>1. OnlyValue(S, "used", node, Node("inference", r.inference.id))
  BY <1>0 DEF OnlyValue
<1>2. OnlyValue(S, "policyVersion", node, d.policy_version)
  BY <1>0 DEF OnlyValue
<1>3. OnlyValue(S, "lossVersion", node, d.loss_version)
  BY <1>0 DEF OnlyValue
<1>4. OnlyValue(S, "action", node, d.action.name)
  BY <1>0 DEF OnlyValue
<1> QED
  BY <1>1, <1>2, <1>3, <1>4 DEF node

LEMMA InferenceValues ==
    ASSUME NEW profile \in Profile, NEW r, NEW S \in Documents(profile, r)
    PROVE  LET node == Node("inference", r.inference.id)
           IN  /\ OnlyValue(S, "used", node, Node("observation", r.observation.id))
               /\ \A k \in {"hostSnapshot", "candidateVersion", "solverVersion",
                             "stoppingReason"} : \E v : OnlyValue(S, k, node, v)
<1> DEFINE i == r.inference  node == Node("inference", i.id)
<1> HIDE DEF node
<1>0. ASSUME NEW v
      PROVE  /\ Makes(S, "used", node, v) <=> v = Node("observation", r.observation.id)
             /\ Makes(S, "hostSnapshot", node, v) <=> v = i.host_snapshot
             /\ Makes(S, "candidateVersion", node, v) <=> v = i.candidate_version
             /\ Makes(S, "solverVersion", node, v) <=> v = i.solver_version
             /\ Makes(S, "stoppingReason", node, v) <=> v = i.stopping_reason
  BY InferenceTold DEF node
<1>1. OnlyValue(S, "used", node, Node("observation", r.observation.id))
  BY <1>0 DEF OnlyValue
<1>2. OnlyValue(S, "hostSnapshot", node, i.host_snapshot)
  BY <1>0 DEF OnlyValue
<1>3. OnlyValue(S, "candidateVersion", node, i.candidate_version)
  BY <1>0 DEF OnlyValue
<1>4. OnlyValue(S, "solverVersion", node, i.solver_version)
  BY <1>0 DEF OnlyValue
<1>5. OnlyValue(S, "stoppingReason", node, i.stopping_reason)
  BY <1>0 DEF OnlyValue
<1> QED
  BY <1>1, <1>2, <1>3, <1>4, <1>5 DEF node

LEMMA ProviderValues ==
    ASSUME NEW profile \in Profile, NEW r, NEW S \in Documents(profile, r),
           NEW n \in DOMAIN r.inference.providers
    PROVE  \A k \in {"providerId", "schemaId", "modelVersion", "calibrationId"} :
               \E v : OnlyValue(S, k, Node("artifact", n), v)
<1> DEFINE p == r.inference.providers[n]  node == Node("artifact", n)
<1> HIDE DEF node
<1>0. ASSUME NEW v
      PROVE  /\ Makes(S, "providerId", node, v) <=> v = p.provider
             /\ Makes(S, "schemaId", node, v) <=> v = p.schema
             /\ Makes(S, "modelVersion", node, v) <=> v = p.model_version
             /\ Makes(S, "calibrationId", node, v) <=> v = p.calibration_id
  BY ProvidersTold DEF node
<1>1. OnlyValue(S, "providerId", node, p.provider)
  BY <1>0 DEF OnlyValue
<1>2. OnlyValue(S, "schemaId", node, p.schema)
  BY <1>0 DEF OnlyValue
<1>3. OnlyValue(S, "modelVersion", node, p.model_version)
  BY <1>0 DEF OnlyValue
<1>4. OnlyValue(S, "calibrationId", node, p.calibration_id)
  BY <1>0 DEF OnlyValue
<1> QED
  BY <1>1, <1>2, <1>3, <1>4 DEF node

LEMMA ScoreValues ==
    ASSUME NEW profile \in Profile, NEW r, NEW S \in Documents(profile, r),
           NEW n \in DOMAIN r.inference.contributions
    PROVE  \A k \in {"value", "scoreSemantics", "modelVersion", "calibrationId"} :
               \E v : OnlyValue(S, k, Node("score", n), v)
<1> DEFINE c == r.inference.contributions[n]  node == Node("score", n)
<1> HIDE DEF node
<1>0. ASSUME NEW v
      PROVE  /\ Makes(S, "value", node, v) <=> v = Printed(c.value)
             /\ Makes(S, "scoreSemantics", node, v) <=> v = c.semantics
             /\ Makes(S, "modelVersion", node, v) <=> v = c.model_version
             /\ Makes(S, "calibrationId", node, v) <=> v = c.calibration_id
  BY ScoresTold DEF node
<1>1. OnlyValue(S, "value", node, Printed(c.value))
  BY <1>0 DEF OnlyValue
<1>2. OnlyValue(S, "scoreSemantics", node, c.semantics)
  BY <1>0 DEF OnlyValue
<1>3. OnlyValue(S, "modelVersion", node, c.model_version)
  BY <1>0 DEF OnlyValue
<1>4. OnlyValue(S, "calibrationId", node, c.calibration_id)
  BY <1>0 DEF OnlyValue
<1> QED
  BY <1>1, <1>2, <1>3, <1>4 DEF node

LEMMA AlternativeValues ==
    ASSUME NEW profile \in Profile, NEW r, NEW S \in Documents(profile, r),
           NEW n \in DOMAIN r.inference.distribution.entries
    PROVE  LET node == Node("alternative", n)
           IN  /\ OnlyValue(S, "probability", node,
                            Printed(r.inference.distribution.entries[n].probability))
               /\ OnlyValue(S, "wasGeneratedBy", node, Node("inference", r.inference.id))
BY AlternativesTold DEF OnlyValue

(* The shapes, and the nodes each one is for.                              *)
LEMMA AreShapes ==
    ASSUME NEW shape \in Shapes
    PROVE  \/ /\ shape.target = "Decision"
              /\ \/ shape.path = "used" /\ shape.class = "Inference"
                 \/ shape.path \in {"policyVersion", "lossVersion", "action"}
                    /\ shape.class = "any"
           \/ /\ shape.target = "Inference"
              /\ \/ shape.path = "used" /\ shape.class = "Observation"
                 \/ shape.path = "usedProvider" /\ shape.many /\ shape.class = "any"
                 \/ shape.path \in {"hostSnapshot", "candidateVersion", "solverVersion",
                                    "stoppingReason"} /\ shape.class = "any"
           \/ /\ shape.target = "usedProvider" /\ shape.class = "any"
              /\ shape.path \in {"providerId", "schemaId", "modelVersion", "calibrationId"}
           \/ /\ shape.target = "ScoreContribution" /\ shape.class = "any"
              /\ shape.path \in {"value", "scoreSemantics", "modelVersion", "calibrationId"}
           \/ /\ shape.target = "Alternative"
              /\ \/ shape.path = "probability" /\ shape.class = "any"
                 \/ shape.path = "wasGeneratedBy" /\ shape.class = "Inference"
           \/ shape.target \in {"Promotion", "Materialization"}
BY DEF Shapes, Linked, Single, Some

(* Where a shape applies.                                                  *)
LEMMA InFocus ==
    ASSUME NEW profile \in Profile, NEW r, NEW S \in Documents(profile, r),
           NEW shape, NEW node \in Focus(shape, S)
    PROVE  /\ shape.target = "usedProvider" => \E s : Makes(S, "usedProvider", s, node)
           /\ shape.target # "usedProvider" => Makes(S, "a", node, <<shape.target>>)
<1>1. CASE shape.target = "usedProvider"
  <2>1. PICK t \in S : t[1] = "usedProvider" /\ node = t[3]
    BY <1>1 DEF Focus
  <2>2. t = <<t[1], t[2], t[3]>>
    BY Triples
  <2> QED
    BY <1>1, <2>1, <2>2 DEF Makes
<1>2. CASE shape.target # "usedProvider"
  <2>1. PICK t \in S : t[1] = "a" /\ t[3] = <<shape.target>> /\ node = t[2]
    BY <1>2 DEF Focus
  <2>2. t = <<t[1], t[2], t[3]>>
    BY Triples
  <2> QED
    BY <1>2, <2>1, <2>2 DEF Makes
<1> QED
  BY <1>1, <1>2

(* Documents satisfy the shapes they are published with.                   *)
LEMMA DocumentConforms ==
    ASSUME NEW profile \in Profile, NEW r, NEW S \in Documents(profile, r),
           DOMAIN r.inference.providers # {},
           \A n \in DOMAIN r.inference.contributions :
               r.inference.contributions[n].semantics \in AllowedSemantics
    PROVE  Conforms(S)
<1>1. ASSUME NEW t \in S, t[1] = "scoreSemantics" PROVE t[3] \in AllowedSemantics
  <2>1. Makes(S, "scoreSemantics", t[2], t[3])
    BY <1>1, Triples DEF Makes
  <2>2. Makes(ScoreStatements(r.inference), "scoreSemantics", t[2], t[3])
    BY <2>1, InDocument, InObservation, InInference, InProviders, InAlternatives, InDecision,
       InNanopublication
  <2> QED
    BY <2>2, InScores
<1>2. ASSUME NEW shape \in Shapes, NEW node \in Focus(shape, S)
      PROVE  Shaped(S, shape, node)
  <2>1. CASE shape.target = "Decision"
    <3>1. node = Node("decision", r.decision.id)
      BY <2>1, InFocus, ClassesTold
    <3>2. CASE shape.path = "used" /\ shape.class = "Inference"
      <4>1. Makes(S, "a", Node("inference", r.inference.id), <<"Inference">>)
        BY ClassesTold
      <4>2. OnlyValue(S, "used", node, Node("inference", r.inference.id))
        BY <3>1, DecisionValues
      <4> QED
        BY <3>2, <4>1, <4>2, ShapedSingle
    <3>3. CASE shape.path \in {"policyVersion", "lossVersion", "action"} /\ shape.class = "any"
      <4>1. \E v : OnlyValue(S, shape.path, node, v)
        BY <3>1, <3>3, DecisionValues
      <4> QED
        BY <3>3, <4>1, ShapedSingle
    <3> QED
      BY <2>1, <3>2, <3>3, AreShapes
  <2>2. CASE shape.target = "Inference"
    <3>1. node = Node("inference", r.inference.id)
      BY <2>2, InFocus, ClassesTold
    <3>2. CASE shape.path = "used" /\ shape.class = "Observation"
      <4>1. Makes(S, "a", Node("observation", r.observation.id), <<"Observation">>)
        BY ClassesTold
      <4>2. OnlyValue(S, "used", node, Node("observation", r.observation.id))
        BY <3>1, InferenceValues
      <4> QED
        BY <3>2, <4>1, <4>2, ShapedSingle
    <3>3. CASE shape.path = "usedProvider" /\ shape.many /\ shape.class = "any"
      <4>1. PICK n \in DOMAIN r.inference.providers : TRUE
        OBVIOUS
      <4>2. Makes(S, "usedProvider", node, Node("artifact", n))
        BY <3>1, <4>1, ProvidersLinked
      <4>3. ValuesIn(S, "usedProvider", node) # {}
        BY <4>2, SomeValue
      <4> QED
        BY <3>3, <4>3 DEF Shaped
    <3>4. CASE shape.path \in {"hostSnapshot", "candidateVersion", "solverVersion",
                               "stoppingReason"} /\ shape.class = "any"
      <4>1. \E v : OnlyValue(S, shape.path, node, v)
        BY <3>1, <3>4, InferenceValues
      <4> QED
        BY <3>4, <4>1, ShapedSingle
    <3> QED
      BY <2>2, <3>2, <3>3, <3>4, AreShapes
  <2>3. CASE shape.target = "usedProvider"
    <3>1. PICK n \in DOMAIN r.inference.providers : node = Node("artifact", n)
      <4>1. PICK s : Makes(S, "usedProvider", s, node)
        BY <2>3, InFocus
      <4> QED
        BY <4>1, ArtifactsTold
    <3>2. shape.path \in {"providerId", "schemaId", "modelVersion", "calibrationId"}
          /\ shape.class = "any"
      BY <2>3, AreShapes
    <3>3. \E v : OnlyValue(S, shape.path, node, v)
      BY <3>1, <3>2, ProviderValues
    <3> QED
      BY <3>2, <3>3, ShapedSingle
  <2>4. CASE shape.target = "ScoreContribution"
    <3>1. PICK n \in DOMAIN r.inference.contributions : node = Node("score", n)
      BY <2>4, InFocus, ClassesTold
    <3>2. shape.path \in {"value", "scoreSemantics", "modelVersion", "calibrationId"}
          /\ shape.class = "any"
      BY <2>4, AreShapes
    <3>3. \E v : OnlyValue(S, shape.path, node, v)
      BY <3>1, <3>2, ScoreValues
    <3> QED
      BY <3>2, <3>3, ShapedSingle
  <2>5. CASE shape.target = "Alternative"
    <3>1. PICK n \in DOMAIN r.inference.distribution.entries : node = Node("alternative", n)
      BY <2>5, InFocus, ClassesTold
    <3>2. CASE shape.path = "probability" /\ shape.class = "any"
      <4>1. \E v : OnlyValue(S, "probability", node, v)
        BY <3>1, AlternativeValues
      <4> QED
        BY <3>2, <4>1, ShapedSingle
    <3>3. CASE shape.path = "wasGeneratedBy" /\ shape.class = "Inference"
      <4>1. Makes(S, "a", Node("inference", r.inference.id), <<"Inference">>)
        BY ClassesTold
      <4>2. OnlyValue(S, "wasGeneratedBy", node, Node("inference", r.inference.id))
        BY <3>1, AlternativeValues
      <4> QED
        BY <3>3, <4>1, <4>2, ShapedSingle
    <3> QED
      BY <2>5, <3>2, <3>3, AreShapes
  <2>6. CASE shape.target \in {"Promotion", "Materialization"}
    BY <2>6, InFocus, ClassesTold
  <2> QED
    BY <2>1, <2>2, <2>3, <2>4, <2>5, <2>6, AreShapes
<1>3. ASSUME NEW shape \in Shapes, NEW node \in Focus(shape, S)
      PROVE  LET values == {t[3] : t \in {u \in S : u[1] = shape.path /\ u[2] = node}}
             IN  /\ values # {} /\ (shape.many \/ Cardinality(values) = 1)
                 /\ shape.class # "any" =>
                        \A v \in values : <<"a", v, <<shape.class>>>> \in S
  BY <1>2, <1>3 DEF Shaped, ValuesIn, Makes
<1> QED
  BY <1>1, <1>3 DEF Conforms

(* Two records with one document tell the same. *)
LEMMA Determined ==
    ASSUME NEW p \in Profile, NEW q \in Profile, NEW r, NEW x, NEW S,
           S \in Documents(p, r), S \in Documents(q, x), r.decision.id = x.decision.id,
           r.observation.id = x.observation.id
    PROVE  /\ r.decision.action.name = x.decision.action.name
           /\ DOMAIN r.inference.providers = DOMAIN x.inference.providers
           /\ \A n \in DOMAIN r.inference.providers :
                 LET a == r.inference.providers[n]  b == x.inference.providers[n]
                 IN  /\ a.provider = b.provider /\ a.schema = b.schema
                     /\ a.model_version = b.model_version
                     /\ a.calibration_id = b.calibration_id
           /\ DOMAIN r.inference.contributions = DOMAIN x.inference.contributions
           /\ \A n \in DOMAIN r.inference.contributions :
                 Printed(r.inference.contributions[n].value) =
                     Printed(x.inference.contributions[n].value)
           /\ DOMAIN r.inference.distribution.entries = DOMAIN x.inference.distribution.entries
           /\ \A n \in DOMAIN r.inference.distribution.entries :
                 LET a == r.inference.distribution.entries[n]
                     b == x.inference.distribution.entries[n]
                 IN  /\ Printed(a.probability) = Printed(b.probability)
                     /\ OutcomeTerm(a.outcome) = OutcomeTerm(b.outcome)
<1>1. r.decision.action.name = x.decision.action.name
  <2>1. OnlyValue(S, "action", Node("decision", r.decision.id), r.decision.action.name)
    BY DecisionValues
  <2>2. OnlyValue(S, "action", Node("decision", x.decision.id), x.decision.action.name)
    BY DecisionValues
  <2> QED
    BY <2>1, <2>2 DEF OnlyValue
<1>2. /\ DOMAIN r.inference.providers = DOMAIN x.inference.providers
      /\ \A n \in DOMAIN r.inference.providers :
            LET a == r.inference.providers[n]  b == x.inference.providers[n]
            IN  /\ a.provider = b.provider /\ a.schema = b.schema
                /\ a.model_version = b.model_version
                /\ a.calibration_id = b.calibration_id
  <2> DEFINE P == r.inference.providers  Q == x.inference.providers
  <2>1. ASSUME NEW n, NEW v
        PROVE  /\ (n \in DOMAIN P /\ v = P[n].provider) <=> (n \in DOMAIN Q /\ v = Q[n].provider)
               /\ (n \in DOMAIN P /\ v = P[n].schema) <=> (n \in DOMAIN Q /\ v = Q[n].schema)
               /\ (n \in DOMAIN P /\ v = P[n].model_version)
                      <=> (n \in DOMAIN Q /\ v = Q[n].model_version)
               /\ (n \in DOMAIN P /\ v = P[n].calibration_id)
                      <=> (n \in DOMAIN Q /\ v = Q[n].calibration_id)
    <3> DEFINE node == Node("artifact", n)
    <3>1. /\ Makes(S, "providerId", node, v) <=> n \in DOMAIN P /\ v = P[n].provider
          /\ Makes(S, "schemaId", node, v) <=> n \in DOMAIN P /\ v = P[n].schema
          /\ Makes(S, "modelVersion", node, v) <=> n \in DOMAIN P /\ v = P[n].model_version
          /\ Makes(S, "calibrationId", node, v) <=> n \in DOMAIN P /\ v = P[n].calibration_id
      BY ProvidersTold
    <3>2. /\ Makes(S, "providerId", node, v) <=> n \in DOMAIN Q /\ v = Q[n].provider
          /\ Makes(S, "schemaId", node, v) <=> n \in DOMAIN Q /\ v = Q[n].schema
          /\ Makes(S, "modelVersion", node, v) <=> n \in DOMAIN Q /\ v = Q[n].model_version
          /\ Makes(S, "calibrationId", node, v) <=> n \in DOMAIN Q /\ v = Q[n].calibration_id
      BY ProvidersTold
    <3> HIDE DEF P, Q, node
    <3> QED
      BY <3>1, <3>2
  <2> HIDE DEF P, Q
  <2>2. DOMAIN P = DOMAIN Q
    BY <2>1
  <2>3. ASSUME NEW n \in DOMAIN P
        PROVE  /\ P[n].provider = Q[n].provider /\ P[n].schema = Q[n].schema
               /\ P[n].model_version = Q[n].model_version
               /\ P[n].calibration_id = Q[n].calibration_id
    BY <2>1
  <2> QED
    BY <2>2, <2>3 DEF P, Q
<1>3. /\ DOMAIN r.inference.contributions = DOMAIN x.inference.contributions
      /\ \A n \in DOMAIN r.inference.contributions :
            Printed(r.inference.contributions[n].value) =
                Printed(x.inference.contributions[n].value)
  <2> DEFINE P == r.inference.contributions  Q == x.inference.contributions
  <2>1. ASSUME NEW n, NEW v
        PROVE  (n \in DOMAIN P /\ v = Printed(P[n].value)) <=> (n \in DOMAIN Q /\ v = Printed(Q[n].value))
    <3>1. Makes(S, "value", Node("score", n), v) <=> n \in DOMAIN P /\ v = Printed(P[n].value)
      BY ScoresTold
    <3>2. Makes(S, "value", Node("score", n), v) <=> n \in DOMAIN Q /\ v = Printed(Q[n].value)
      BY ScoresTold
    <3> QED
      BY <3>1, <3>2
  <2> HIDE DEF P, Q
  <2> QED
    BY <2>1 DEF P, Q
<1>4. /\ DOMAIN r.inference.distribution.entries = DOMAIN x.inference.distribution.entries
      /\ \A n \in DOMAIN r.inference.distribution.entries :
            LET a == r.inference.distribution.entries[n]
                b == x.inference.distribution.entries[n]
            IN  /\ Printed(a.probability) = Printed(b.probability)
                /\ OutcomeTerm(a.outcome) = OutcomeTerm(b.outcome)
  <2> DEFINE P == r.inference.distribution.entries  Q == x.inference.distribution.entries
             candidate(v) == <<"candidateTarget", Node("observation", r.observation.id), v>>
  <2>1. ASSUME NEW n, NEW v
        PROVE  /\ (n \in DOMAIN P /\ v = Printed(P[n].probability))
                      <=> (n \in DOMAIN Q /\ v = Printed(Q[n].probability))
               /\ (p = "Rdf11" /\ n \in DOMAIN P /\ v = OutcomeTerm(P[n].outcome))
                      <=> (q = "Rdf11" /\ n \in DOMAIN Q /\ v = OutcomeTerm(Q[n].outcome))
               /\ (p = "Rdf12" /\ n \in DOMAIN P /\ v = candidate(OutcomeTerm(P[n].outcome)))
                      <=> (q = "Rdf12" /\ n \in DOMAIN Q
                           /\ v = candidate(OutcomeTerm(Q[n].outcome)))
    <3> DEFINE node == Node("alternative", n)
    <3>1. /\ Makes(S, "probability", node, v) <=>
                 n \in DOMAIN P /\ v = Printed(P[n].probability)
          /\ Makes(S, "object", node, v) <=>
                 p = "Rdf11" /\ n \in DOMAIN P /\ v = OutcomeTerm(P[n].outcome)
          /\ Makes(S, "reifies", node, v) <=>
                 p = "Rdf12" /\ n \in DOMAIN P /\ v = candidate(OutcomeTerm(P[n].outcome))
      BY AlternativesTold
    <3>2. /\ Makes(S, "probability", node, v) <=>
                 n \in DOMAIN Q /\ v = Printed(Q[n].probability)
          /\ Makes(S, "object", node, v) <=>
                 q = "Rdf11" /\ n \in DOMAIN Q /\ v = OutcomeTerm(Q[n].outcome)
          /\ Makes(S, "reifies", node, v) <=>
                 q = "Rdf12" /\ n \in DOMAIN Q /\ v = candidate(OutcomeTerm(Q[n].outcome))
      BY AlternativesTold
    <3> HIDE DEF P, Q, node, candidate
    <3> QED
      BY <3>1, <3>2
  <2>2. \A v, w : candidate(v) = candidate(w) => v = w
    OBVIOUS
  <2>3. p \in {"Rdf11", "Rdf12"}
    BY DEF Profile
  <2> HIDE DEF P, Q, candidate
  <2>4. DOMAIN P = DOMAIN Q
    BY <2>1
  <2>5. ASSUME NEW n \in DOMAIN P
        PROVE  /\ Printed(P[n].probability) = Printed(Q[n].probability)
               /\ OutcomeTerm(P[n].outcome) = OutcomeTerm(Q[n].outcome)
    <3>1. Printed(P[n].probability) = Printed(Q[n].probability)
      BY <2>1
    <3>2. CASE p = "Rdf11"
      BY <2>1, <3>1, <3>2
    <3>3. CASE p = "Rdf12"
      <4>1. candidate(OutcomeTerm(P[n].outcome)) = candidate(OutcomeTerm(Q[n].outcome))
        BY <2>1, <3>3
      <4> QED
        BY <2>2, <3>1, <4>1
    <3> QED
      BY <2>3, <3>2, <3>3
  <2> QED
    BY <2>4, <2>5 DEF P, Q
<1> QED
  BY <1>1, <1>2, <1>3, <1>4

-----------------------------------------------------------------------------
(* The records of a distribution D, contributions C, providers P, an       *)
(* action, and the observation that the inference names.                   *)
RecordsOf(D, C, P, action, observation) ==
    [form |-> "records",
     observation |-> [id |-> 1, source |-> 1, event_time |-> 1, ingestion_time |-> 2,
                      content_hash |-> 1, supersedes |-> {}],
     inference |-> [id |-> 1, observation |-> observation, distribution |-> D,
                    contributions |-> C, providers |-> P,
                    host_snapshot |-> 1, candidate_version |-> 1, solver_version |-> 1,
                    stopping_reason |-> "Exact"],
     decision |-> [id |-> 1, inference |-> 1, action |-> action,
                   policy_version |-> 1, loss_version |-> 1]]

(* What is told of records, part by part.                                  *)
LEMMA ToldOfRecords ==
    ASSUME NEW D, NEW C, NEW P, NEW a, NEW o
    PROVE  Told(RecordsOf(D, C, P, a, o)) =
               RecordsOf(ToldAlternatives(D.entries), ToldScores(C), P, a.name, o)
<1> DEFINE r == RecordsOf(D, C, P, a, o)
           named == [r EXCEPT !.decision.action = @.name]
           scored == [named EXCEPT !.inference.contributions = ToldScores(@)]
           told == [scored EXCEPT !.inference.distribution = ToldAlternatives(@.entries)]
<1>1. named = RecordsOf(D, C, P, a.name, o)
  BY DEF RecordsOf
<1>2. scored = RecordsOf(D, ToldScores(C), P, a.name, o)
  <2> HIDE DEF named
  <2> QED
    BY <1>1 DEF RecordsOf
<1>3. told = RecordsOf(ToldAlternatives(D.entries), ToldScores(C), P, a.name, o)
  <2> HIDE DEF scored
  <2> QED
    BY <1>2 DEF RecordsOf
<1>4. Told(r) = told
  BY DEF Told
<1> QED
  BY <1>3, <1>4

ScoreOf(value) ==
    <<[value |-> value, semantics |-> "LogLikelihood", provider |-> 1,
       model_version |-> 1, calibration_id |-> 1, validity_domain |-> "position"]>>

(* The records that may be published. *)
AreRecords(r) ==
    \E e \in Candidates, residual \in Residual, p \in Providers, a \in Action, o \in {1, 2} :
       \E value : r = RecordsOf(Distribution(e, residual), ScoreOf(value), p, a, o)

(* The records a document is compared with have the same form.             *)
LEMMA OthersAreRecords ==
    ASSUME NEW e \in Candidates, NEW residual \in Residual, NEW p \in Providers,
           NEW a \in Action, NEW o, NEW value,
           exported = RecordsOf(Distribution(e, residual), ScoreOf(value), p, a, o),
           NEW r \in Others
    PROVE  \E e2 \in Candidates, residual2 \in Residual, p2 \in Providers, a2 \in Action :
              \E value2 : r = RecordsOf(Distribution(e2, residual2), ScoreOf(value2), p2, a2, o)
<1>1. CASE \E e2 \in Candidates, residual2 \in Residual :
             r = [exported EXCEPT !.inference.distribution = Distribution(e2, residual2)]
  <2>1. PICK e2 \in Candidates, residual2 \in Residual :
             r = [exported EXCEPT !.inference.distribution = Distribution(e2, residual2)]
    BY <1>1
  <2>2. r = RecordsOf(Distribution(e2, residual2), ScoreOf(value), p, a, o)
    BY <2>1 DEF RecordsOf
  <2> QED
    BY <2>2
<1>2. CASE \E v \in -MaxFinite..0 :
             r = [exported EXCEPT !.inference.contributions[1].value = v]
  <2>1. PICK v \in -MaxFinite..0 :
             r = [exported EXCEPT !.inference.contributions[1].value = v]
    BY <1>2
  <2>2. [ScoreOf(value) EXCEPT ![1].value = v] = ScoreOf(v)
    BY DEF ScoreOf
  <2>3. r = RecordsOf(Distribution(e, residual), ScoreOf(v), p, a, o)
    BY <2>1, <2>2 DEF RecordsOf
  <2> QED
    BY <2>3
<1>3. CASE \E p2 \in Providers : r = [exported EXCEPT !.inference.providers = p2]
  <2>1. PICK p2 \in Providers : r = [exported EXCEPT !.inference.providers = p2]
    BY <1>3
  <2>2. r = RecordsOf(Distribution(e, residual), ScoreOf(value), p2, a, o)
    BY <2>1 DEF RecordsOf
  <2> QED
    BY <2>2
<1>4. CASE \E a2 \in Action : r = [exported EXCEPT !.decision.action = a2]
  <2>1. PICK a2 \in Action : r = [exported EXCEPT !.decision.action = a2]
    BY <1>4
  <2>2. r = RecordsOf(Distribution(e, residual), ScoreOf(value), p, a2, o)
    BY <2>1 DEF RecordsOf
  <2> QED
    BY <2>2
<1> QED
  BY <1>1, <1>2, <1>3, <1>4 DEF Others

(* Two records that share a document tell the same: nothing is lost in     *)
(* it.                                                                     *)
LEMMA SameTold ==
    ASSUME NEW S, NEW profile \in Profile, NEW profile2 \in Profile,
           NEW D, NEW D2, NEW v, NEW v2, NEW p \in Providers, NEW p2 \in Providers,
           NEW a, NEW a2, NEW o,
           S \in Documents(profile, RecordsOf(D, ScoreOf(v), p, a, o)),
           S \in Documents(profile2, RecordsOf(D2, ScoreOf(v2), p2, a2, o))
    PROVE  Told(RecordsOf(D, ScoreOf(v), p, a, o)) = Told(RecordsOf(D2, ScoreOf(v2), p2, a2, o))
<1> DEFINE r == RecordsOf(D, ScoreOf(v), p, a, o)  x == RecordsOf(D2, ScoreOf(v2), p2, a2, o)
<1>1. /\ r.decision.id = x.decision.id /\ r.observation.id = x.observation.id
      /\ r.decision.action = a /\ x.decision.action = a2
      /\ r.inference.providers = p /\ x.inference.providers = p2
      /\ r.inference.contributions = ScoreOf(v) /\ x.inference.contributions = ScoreOf(v2)
      /\ r.inference.distribution = D /\ x.inference.distribution = D2
  BY DEF RecordsOf
<1>2. S \in Documents(profile, r) /\ S \in Documents(profile2, x)
  OBVIOUS
<1> HIDE DEF r, x
<1>3. a.name = a2.name
  BY <1>1, <1>2, Determined
<1>4. /\ DOMAIN p = DOMAIN p2
      /\ \A n \in DOMAIN p :
            /\ p[n].provider = p2[n].provider /\ p[n].schema = p2[n].schema
            /\ p[n].model_version = p2[n].model_version
            /\ p[n].calibration_id = p2[n].calibration_id
  BY <1>1, <1>2, Determined
<1>5. /\ DOMAIN ScoreOf(v) = DOMAIN ScoreOf(v2)
      /\ \A n \in DOMAIN ScoreOf(v) : Printed(ScoreOf(v)[n].value) = Printed(ScoreOf(v2)[n].value)
  BY <1>1, <1>2, Determined
<1>6. /\ DOMAIN D.entries = DOMAIN D2.entries
      /\ \A n \in DOMAIN D.entries :
            /\ Printed(D.entries[n].probability) = Printed(D2.entries[n].probability)
            /\ OutcomeTerm(D.entries[n].outcome) = OutcomeTerm(D2.entries[n].outcome)
  BY <1>1, <1>2, Determined
<1>7. p = p2
  <2>1. p \in Seq(Artifact) /\ p2 \in Seq(Artifact)
    BY PathAssumption
  <2>2. Len(p) = Len(p2)
    BY <1>4, <2>1
  <2>3. ASSUME NEW n \in 1..Len(p) PROVE p[n] = p2[n]
    <3>1. n \in DOMAIN p /\ p[n] \in Artifact /\ p2[n] \in Artifact
      BY <2>1, <2>2
    <3> QED
      BY <1>4, <3>1 DEF Artifact
  <2> QED
    BY <2>1, <2>2, <2>3, SeqEqual
<1>8. ToldAlternatives(D.entries) = ToldAlternatives(D2.entries)
  BY <1>6 DEF ToldAlternatives
<1>9. ToldScores(ScoreOf(v)) = ToldScores(ScoreOf(v2))
  <2>1. Printed(v) = Printed(v2)
    BY <1>5 DEF ScoreOf
  <2>2. \A w : ToldScores(ScoreOf(w)) =
            [n \in {1} |-> [value |-> Printed(w), semantics |-> "LogLikelihood", provider |-> 1,
                model_version |-> 1, calibration_id |-> 1, validity_domain |-> "position"]]
    BY DEF ToldScores, ScoreOf
  <2> QED
    BY <2>1, <2>2
<1> QED
  BY <1>3, <1>7, <1>8, <1>9, ToldOfRecords

(* Statements of alternatives are made of what is told of them.            *)
LEMMA SameAlternatives ==
    ASSUME NEW profile, NEW o, NEW i, NEW j,
           ToldAlternatives(i.distribution.entries) = ToldAlternatives(j.distribution.entries),
           i.id = j.id
    PROVE  AlternativeStatements(profile, o, i) = AlternativeStatements(profile, o, j)
<1> DEFINE d == i.distribution.entries  e == j.distribution.entries
<1>1. DOMAIN d = DOMAIN e
  <2>1. DOMAIN ToldAlternatives(d) = DOMAIN d /\ DOMAIN ToldAlternatives(e) = DOMAIN e
    BY DEF ToldAlternatives
  <2> QED
    BY <2>1
<1>2. ASSUME NEW n \in DOMAIN d
      PROVE  /\ OutcomeTerm(d[n].outcome) = OutcomeTerm(e[n].outcome)
             /\ Printed(d[n].probability) = Printed(e[n].probability)
  <2>1. ToldAlternatives(d)[n] = ToldAlternatives(e)[n]
    OBVIOUS
  <2>2. /\ ToldAlternatives(d)[n] = [outcome |-> OutcomeTerm(d[n].outcome),
                                     probability |-> Printed(d[n].probability)]
        /\ ToldAlternatives(e)[n] = [outcome |-> OutcomeTerm(e[n].outcome),
                                     probability |-> Printed(e[n].probability)]
    BY <1>1 DEF ToldAlternatives
  <2> QED
    BY <2>1, <2>2
<1> DEFINE Of(k, n) ==
        Proposition(profile, o, k.distribution.entries[n], n)
        \cup Described(Node("alternative", n), {"Alternative"},
                 [probability |-> Printed(k.distribution.entries[n].probability),
                  wasGeneratedBy |-> Node("inference", k.id)])
<1>3. ASSUME NEW n \in DOMAIN d PROVE Of(i, n) = Of(j, n)
  <2>1. Proposition(profile, o, d[n], n) = Proposition(profile, o, e[n], n)
    BY <1>2, <1>3 DEF Proposition
  <2> QED
    BY <1>2, <1>3, <2>1
<1>4. /\ AlternativeStatements(profile, o, i) = UNION {Of(i, n) : n \in DOMAIN d}
      /\ AlternativeStatements(profile, o, j) = UNION {Of(j, n) : n \in DOMAIN e}
  BY DEF AlternativeStatements
<1> HIDE DEF Of
<1>5. {Of(i, n) : n \in DOMAIN d} = {Of(j, n) : n \in DOMAIN e}
  BY <1>1, <1>3
<1> QED
  BY <1>4, <1>5

(* The one score of the records, as it is stated.                          *)
LEMMA ScoreIsStated ==
    ASSUME NEW i, NEW v, i.contributions = ScoreOf(v)
    PROVE  ScoreStatements(i) =
               {<<"hasScoreContribution", Node("inference", i.id), Node("score", 1)>>}
               \cup Described(Node("score", 1), {"ScoreContribution"},
                        [value |-> Printed(v), scoreSemantics |-> "LogLikelihood",
                         providerId |-> 1, modelVersion |-> 1, calibrationId |-> 1,
                         validityDomain |-> "position"])
<1> DEFINE Of(n) ==
        {<<"hasScoreContribution", Node("inference", i.id), Node("score", n)>>}
        \cup Described(Node("score", n), {"ScoreContribution"},
                 [value |-> Printed(i.contributions[n].value),
                  scoreSemantics |-> i.contributions[n].semantics,
                  providerId |-> i.contributions[n].provider,
                  modelVersion |-> i.contributions[n].model_version,
                  calibrationId |-> i.contributions[n].calibration_id,
                  validityDomain |-> i.contributions[n].validity_domain])
<1>1. ScoreStatements(i) = UNION {Of(n) : n \in DOMAIN i.contributions}
  BY DEF ScoreStatements
<1>2. DOMAIN i.contributions = {1}
  BY DEF ScoreOf
<1>3. /\ i.contributions[1].value = v /\ i.contributions[1].semantics = "LogLikelihood"
      /\ i.contributions[1].provider = 1 /\ i.contributions[1].model_version = 1
      /\ i.contributions[1].calibration_id = 1
      /\ i.contributions[1].validity_domain = "position"
  BY DEF ScoreOf
<1>4. Of(1) = {<<"hasScoreContribution", Node("inference", i.id), Node("score", 1)>>}
              \cup Described(Node("score", 1), {"ScoreContribution"},
                       [value |-> Printed(v), scoreSemantics |-> "LogLikelihood",
                        providerId |-> 1, modelVersion |-> 1, calibrationId |-> 1,
                        validityDomain |-> "position"])
  BY <1>3
<1> HIDE DEF Of
<1>5. UNION {Of(n) : n \in {1}} = Of(1)
  OBVIOUS
<1> QED
  BY <1>1, <1>2, <1>4, <1>5

(* Records that tell the same have the same documents.                     *)
LEMMA SameStatements ==
    ASSUME NEW D, NEW D2, NEW v, NEW v2, NEW p, NEW p2, NEW a, NEW a2, NEW o, NEW r, NEW x,
           r = RecordsOf(D, ScoreOf(v), p, a, o), x = RecordsOf(D2, ScoreOf(v2), p2, a2, o),
           Told(r) = Told(x), NEW profile
    PROVE  /\ Document(profile, r) = Document(profile, x)
           /\ \A publisher : Nanopublication(profile, r, publisher) =
                                Nanopublication(profile, x, publisher)
<1>1. /\ r.observation = x.observation /\ r.inference.id = x.inference.id
      /\ r.inference.observation = o /\ x.inference.observation = o
      /\ r.decision.id = x.decision.id
      /\ r.decision.action = a /\ x.decision.action = a2
      /\ r.inference.providers = p /\ x.inference.providers = p2
      /\ r.inference.contributions = ScoreOf(v) /\ x.inference.contributions = ScoreOf(v2)
      /\ r.inference.distribution = D /\ x.inference.distribution = D2
  BY DEF RecordsOf
<1>2. /\ ToldAlternatives(D.entries) = ToldAlternatives(D2.entries)
      /\ ToldScores(ScoreOf(v)) = ToldScores(ScoreOf(v2))
      /\ p = p2 /\ a.name = a2.name
  <2>1. RecordsOf(ToldAlternatives(D.entries), ToldScores(ScoreOf(v)), p, a.name, o)
            = RecordsOf(ToldAlternatives(D2.entries), ToldScores(ScoreOf(v2)), p2, a2.name, o)
    BY ToldOfRecords
  <2>2. \A E, C, P, n : /\ RecordsOf(E, C, P, n, o).inference.distribution = E
                        /\ RecordsOf(E, C, P, n, o).inference.contributions = C
                        /\ RecordsOf(E, C, P, n, o).inference.providers = P
                        /\ RecordsOf(E, C, P, n, o).decision.action = n
    BY DEF RecordsOf
  <2> QED
    BY <2>1, <2>2
<1>3. Printed(v) = Printed(v2)
  <2>1. \A w : ToldScores(ScoreOf(w))[1].value = Printed(w)
    BY DEF ToldScores, ScoreOf
  <2> QED
    BY <1>2, <2>1
<1>4. ObservationStatements(r.observation) = ObservationStatements(x.observation)
  BY <1>1
<1>5. InferenceStatements(r.observation, r.inference) = InferenceStatements(x.observation, x.inference)
  BY DEF InferenceStatements, RecordsOf
<1>6. ProviderStatements(r.inference) = ProviderStatements(x.inference)
  BY <1>1, <1>2 DEF ProviderStatements
<1>7. ScoreStatements(r.inference) = ScoreStatements(x.inference)
  <2> DEFINE i == r.inference  j == x.inference
  <2>1. i.contributions = ScoreOf(v) /\ j.contributions = ScoreOf(v2) /\ i.id = j.id
    BY <1>1
  <2> HIDE DEF i, j
  <2>2. ScoreStatements(i) = ScoreStatements(j)
    BY <1>3, <2>1, ScoreIsStated
  <2> QED
    BY <2>2 DEF i, j
<1>8. AlternativeStatements(profile, r.observation, r.inference)
          = AlternativeStatements(profile, x.observation, x.inference)
  BY <1>1, <1>2, SameAlternatives
<1>9. DecisionStatements(r.inference, r.decision) = DecisionStatements(x.inference, x.decision)
  BY <1>2 DEF DecisionStatements, RecordsOf
<1>10. Statements(profile, r) = Statements(profile, x)
  BY <1>4, <1>5, <1>6, <1>7, <1>8, <1>9 DEF Statements
<1>11. NanopublicationStatements(r) = NanopublicationStatements(x)
  BY <1>1 DEF NanopublicationStatements
<1>12. \A publisher : NanopublicationGraphs(r, publisher) = NanopublicationGraphs(x, publisher)
  BY <1>1 DEF NanopublicationGraphs
<1> QED
  BY <1>10, <1>11, <1>12 DEF Document, Nanopublication

(* The document of some records is one of Documents. *)
LEMMA SameIsOne ==
    ASSUME NEW profile, NEW r, SameDocument(profile, r)
    PROVE  output.statements \in Documents(profile, r)
<1>1. Document(profile, r).statements = Statements(profile, r)
  BY DEF Document
<1>2. \A p : Nanopublication(profile, r, p).statements =
                Statements(profile, r) \cup NanopublicationStatements(r)
  BY DEF Nanopublication
<1> QED
  BY <1>1, <1>2 DEF SameDocument, Documents

ExportInv ==
    /\ stage = "recorded" => AreRecords(records)
    /\ output # Nothing =>
           /\ AreRecords(exported)
           /\ \E profile \in Profile : SameDocument(profile, exported)

(* The invariant of the exports is inductive.                              *)
LEMMA ExportInvInit == Init => ExportInv
BY DEF Init, ExportInv

LEMMA ExportInvStep == ExportInv /\ [Next]_vars => ExportInv'
<1> SUFFICES ASSUME ExportInv, [Next]_vars PROVE ExportInv'
  OBVIOUS
<1>1. ASSUME stage' # "recorded", output' = output, exported' = exported PROVE ExportInv'
  BY <1>1 DEF ExportInv, SameDocument
<1>2. CASE MeasureChecked \/ MeasureSaturated \/ MeasureGaussian \/ ReadNext
           \/ \E p \in Publisher : ProjectionFails(p)
  BY <1>1, <1>2
  DEF MeasureChecked, MeasureSaturated, MeasureGaussian, ReadNext, ProjectionFails,
      Scored, Refuse
<1>3. ASSUME NEW e \in Candidates, NEW r \in Residual, NEW p \in Providers, NEW a \in Action,
             NEW o \in {1, 2}, Record(e, r, p, a, o)
      PROVE  ExportInv'
  <2>1. CASE Refuse
    BY <1>1, <2>1 DEF Refuse
  <2>2. CASE /\ records' = Records(e, r, p, a, o)
             /\ UNCHANGED <<output, exported>>
    <3>1. records' = RecordsOf(Distribution(e, r), ScoreOf(score), p, a, o)
      BY <2>2 DEF Records, RecordsOf, ScoreOf, Contribution
    <3>2. AreRecords(records')
      BY <3>1 DEF AreRecords
    <3> QED
      BY <2>2, <3>2 DEF ExportInv, SameDocument
  <2> QED
    BY <1>3, <2>1, <2>2 DEF Record
<1>4. ASSUME stage = "recorded", NEW document, Write(document),
             NEW profile \in Profile,
             \/ document = Document(profile, records)
             \/ \E p \in Publisher : document = Nanopublication(profile, records, p)
      PROVE  ExportInv'
  <2>1. AreRecords(records)
    BY <1>4 DEF ExportInv
  <2>2. output' = document /\ exported' = records /\ records' = records
    BY <1>4 DEF Write, Written
  <2>3. SameDocument(profile, exported)'
    BY <1>4, <2>2 DEF SameDocument
  <2> QED
    BY <1>4, <2>1, <2>2, <2>3 DEF ExportInv
<1>5. ASSUME NEW profile \in Profile, ProjectDecision(profile) PROVE ExportInv'
  BY <1>4, <1>5 DEF ProjectDecision
<1>6. ASSUME NEW profile \in Profile, NEW p \in Publisher, ProjectNanopublication(profile, p)
      PROVE  ExportInv'
  BY <1>4, <1>6 DEF ProjectNanopublication
<1>7. CASE UNCHANGED vars
  BY <1>7 DEF ExportInv, SameDocument, vars
<1> QED
  BY <1>2, <1>3, <1>5, <1>6, <1>7 DEF Next

(* The invariant says that documents are faithful.                         *)
LEMMA ExportIsFaithful ==
    ASSUME ExportInv
    PROVE  ExportFaithful
<1> SUFFICES ASSUME JustExported
             PROVE  /\ Committed(exported) => Conforms(output.statements)
                    /\ \A t \in output.statements : t[1] # "candidateTarget"
                    /\ \E profile \in Profile : SameDocument(profile, exported)
                    /\ \A r \in Others : (\E profile \in Profile : SameDocument(profile, r))
                                             <=> Told(r) = Told(exported)
  BY DEF ExportFaithful
<1>1. AreRecords(exported)
  BY DEF JustExported, ExportInv
<1>2. PICK profile \in Profile : SameDocument(profile, exported)
  BY DEF JustExported, ExportInv
<1> DEFINE S == output.statements
<1> HIDE DEF S
<1>3. S \in Documents(profile, exported)
  BY <1>2, SameIsOne DEF S
<1>4. PICK e \in Candidates, residual \in Residual, p \in Providers, a \in Action, o \in {1, 2} :
          \E value : exported = RecordsOf(Distribution(e, residual), ScoreOf(value), p, a, o)
  BY <1>1 DEF AreRecords
<1>5. PICK value : exported = RecordsOf(Distribution(e, residual), ScoreOf(value), p, a, o)
  BY <1>4
<1>6. /\ exported.inference.providers = p
      /\ exported.inference.contributions = ScoreOf(value)
  BY <1>5 DEF RecordsOf
<1>7. ASSUME Committed(exported) PROVE Conforms(S)
  <2>1. p \in Seq(Artifact) /\ p # <<>>
    BY <1>6, <1>7, PathAssumption DEF Committed
  <2>2. DOMAIN p # {}
    BY <2>1
  <2>3. \A n \in DOMAIN ScoreOf(value) : ScoreOf(value)[n].semantics \in AllowedSemantics
    BY DEF ScoreOf, AllowedSemantics
  <2> QED
    BY <1>3, <1>6, <2>2, <2>3, DocumentConforms
<1>8. ASSUME NEW t \in S PROVE t[1] # "candidateTarget"
  <2>1. Makes(S, t[1], t[2], t[3])
    BY <1>3, <1>8, Triples DEF Makes
  <2>2. ~Makes(S, "candidateTarget", t[2], t[3])
    BY <1>3, InDocument, InObservation, InInference, InProviders, InScores, InAlternatives,
       InDecision, InNanopublication
  <2> QED
    BY <2>1, <2>2
<1>9. \A profile2, r : SameDocument(profile2, r) => S \in Documents(profile2, r)
  BY SameIsOne DEF S
<1>10. ASSUME NEW r \in Others
       PROVE  (\E profile2 \in Profile : SameDocument(profile2, r)) <=> Told(r) = Told(exported)
  <2>1. PICK e2 \in Candidates, residual2 \in Residual, p2 \in Providers, a2 \in Action :
            \E value2 :
               r = RecordsOf(Distribution(e2, residual2), ScoreOf(value2), p2, a2, o)
    BY <1>5, OthersAreRecords
  <2>2. PICK value2 : r = RecordsOf(Distribution(e2, residual2), ScoreOf(value2), p2, a2, o)
    BY <2>1
  <2>3. ASSUME NEW profile2 \in Profile, SameDocument(profile2, r) PROVE Told(r) = Told(exported)
    <3>1. S \in Documents(profile2, r)
      BY <1>9, <2>3
    <3> QED
      BY <1>3, <1>5, <2>2, <3>1, SameTold
  <2>4. ASSUME Told(r) = Told(exported) PROVE SameDocument(profile, r)
    <3>1. /\ Document(profile, r) = Document(profile, exported)
          /\ \A publisher : Nanopublication(profile, r, publisher) =
                               Nanopublication(profile, exported, publisher)
      BY <1>5, <2>2, <2>4, SameStatements
    <3> QED
      BY <1>2, <3>1 DEF SameDocument
  <2> QED
    BY <2>3, <2>4
<1> QED
  BY <1>2, <1>7, <1>8, <1>10 DEF S

(* Documents are those of their records alone, whatever was exported       *)
(* before, and are the same exactly for records of which the same is told: *)
(* an assignment's target, a host entity's snapshot, the residual mass and *)
(* further digits make no difference.                                      *)
THEOREM ExportsAreFaithful == Spec => []ExportFaithful
<1>1. Init => ExportInv
  BY ExportInvInit
<1>2. ExportInv /\ [Next]_vars => ExportInv'
  BY ExportInvStep
<1>3. ExportInv => ExportFaithful
  BY ExportIsFaithful
<1> QED
  BY <1>1, <1>2, <1>3, PTL DEF Spec
=============================================================================
