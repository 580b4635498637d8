------------------------------ MODULE Spatial -------------------------------
(***************************************************************************)
(* spatial.rs of li-model: WGS84 points, positions with an accuracy, and   *)
(* Gaussians in a local frame, their constructors and log-likelihoods.     *)
(*                                                                         *)
(* Angles count quarter turns and distances quarters of a great circle, so *)
(* that the sines, cosines and arc tangents of the formula are exact.      *)
(* Log-likelihoods count parts of one Scale-th, rounded down.              *)
(***************************************************************************)
EXTENDS Floats

CONSTANTS
    Scale,
    MaxAccuracy   \* f64::MAX.sqrt() * 0.5

ASSUME SpatialAssumption ==
    /\ Scale \in Nat \ {0} /\ MaxAccuracy \in 1..MaxFinite
    /\ MaxFinite >= 2   \* half a turn is a finite angle

(* The arguments of the constructors: any f64 in any place. *)
RawPoint == [latitude : Float, longitude : Float, altitude : SUBSET Float]
RawComponent == [position : RawPoint, accuracy : Float]
RawGaussian == [mean : [1..2 -> Float], covariance : [xx : Float, xy : Float, yy : Float]]

Failed(error) == [error |-> error]
Fails(result) == "error" \in DOMAIN result

-----------------------------------------------------------------------------
(* GeoPoint *)
SaturateAngle(value, minimum, maximum) ==
    IF value = NaN THEN 0 ELSE Clamp(value, minimum, maximum)

(* Fault: both angles saturate at the bounds of a longitude. *)
SaturatingAtHalfTurn(p) ==
    [latitude |-> SaturateAngle(p.latitude, -2, 2),
     longitude |-> SaturateAngle(p.longitude, -2, 2), altitude |-> p.altitude]

(* new: an altitude, which is optional, is dropped if it is not finite.    *)
SaturatedPoint(p) ==
    [latitude |-> SaturateAngle(p.latitude, -1, 1),
     longitude |-> SaturateAngle(p.longitude, -2, 2),
     altitude |-> {a \in p.altitude : IsFinite(a)}]

(* validate: the first error in the order of the coordinates, or none.     *)
PointError(p) ==
    CASE ~IsFinite(p.latitude)         -> "NonFiniteLatitude"
      [] ~Within(p.latitude, -1, 1)    -> "LatitudeOutOfRange"
      [] ~IsFinite(p.longitude)        -> "NonFiniteLongitude"
      [] ~Within(p.longitude, -2, 2)   -> "LongitudeOutOfRange"
      [] \E a \in p.altitude : ~IsFinite(a) -> "NonFiniteAltitude"
      [] OTHER                         -> "None"

(* sin^2 of half an angle of k quarter turns, twice. *)
HalfSineSquare(k) ==
    CASE Magnitude(k) \in {0, 4} -> 0 [] Magnitude(k) \in {1, 3} -> 1 [] OTHER -> 2

Cosine(latitude) == IF latitude = 0 THEN 1 ELSE 0

(* try_haversine_distance of two valid points.  The central angle of a     *)
(* haversine of 0, 1/2 and 1 is 0, 1 and 2 quarter turns.                  *)
HaversineDistance(p, q) ==
    Clamp(HalfSineSquare(q.latitude - p.latitude)
              + Cosine(p.latitude) * Cosine(q.latitude)
                    * HalfSineSquare(q.longitude - p.longitude), 0, 2)

-----------------------------------------------------------------------------
(* SpatialComponent *)
SaturatedComponent(point, accuracy) ==
    [position |-> point,
     accuracy |-> IF accuracy = NaN \/ accuracy < 0 THEN 0
                  ELSE IF accuracy > MaxAccuracy THEN MaxAccuracy ELSE accuracy]

ComponentError(c) ==
    CASE PointError(c.position) # "None" -> PointError(c.position)
      [] ~IsFinite(c.accuracy)           -> "NonFiniteAccuracy"
      [] c.accuracy < 0                  -> "NegativeAccuracy"
      [] OTHER                           -> "None"

(* The square of hypot, which is infinite past the largest number. *)
Variance(c, target) == c.accuracy * c.accuracy + target.accuracy * target.accuracy

Compatibility(c, target) ==
    LET distance == HaversineDistance(c.position, target.position)
        variance == Variance(c, target)
    IN  CASE variance = 0 -> IF distance = 0 THEN 0 ELSE NegInfinity
          [] variance > MaxFinite * MaxFinite -> 0
          [] OTHER -> Rounded(-((Scale * distance * distance) \div (2 * variance)))

(* Fault: the target is taken as it is. *)
LogLikelihoodUnchecked(c, target) ==
    IF ComponentError(c) # "None" THEN NegInfinity ELSE Compatibility(c, target)

(* evaluate_log_likelihood: an error of either component is -infinity. *)
LogLikelihood(c, target) ==
    IF ComponentError(c) # "None" \/ ComponentError(target) # "None" THEN NegInfinity
    ELSE Compatibility(c, target)

-----------------------------------------------------------------------------
(* Covariance2D and SpatialGaussian2D *)

(* A variance of zero leaves no covariance, and the correlation, xy over   *)
(* both deviations, is at most 1.                                          *)
CovarianceError(m) ==
    CASE \E x \in {m.xx, m.xy, m.yy} : ~IsFinite(x) -> "NonFiniteCovariance"
      [] m.xx < 0 \/ m.yy < 0 \/ m.xy * m.xy > m.xx * m.yy -> "InvalidCovariance"
      [] OTHER -> "None"

Determinant(m) == m.xx * m.yy - m.xy * m.xy

(* try_evaluate_log_likelihood: the error, or the log-likelihood.  Scaling *)
(* by the largest entry and the larger delta changes no quotient.          *)
GaussianCompatibility(g, target) ==
    LET m == [xx |-> Rounded(g.covariance.xx + target.covariance.xx),
              xy |-> Rounded(g.covariance.xy + target.covariance.xy),
              yy |-> Rounded(g.covariance.yy + target.covariance.yy)]
        dx == Rounded(g.mean[1] - target.mean[1])
        dy == Rounded(g.mean[2] - target.mean[2])
        quadratic == m.yy * dx * dx - 2 * m.xy * dx * dy + m.xx * dy * dy
    IN  IF \E x \in {m.xx, m.xy, m.yy} : ~IsFinite(x) THEN Failed("NonFiniteCovariance")
        ELSE IF ~IsFinite(dx) \/ ~IsFinite(dy) THEN [ok |-> NegInfinity]
        ELSE IF dx = 0 /\ dy = 0 THEN [ok |-> 0]
        ELSE IF m.xx = 0 /\ m.xy = 0 /\ m.yy = 0 THEN [ok |-> NegInfinity]
        ELSE IF Determinant(m) < 0 THEN Failed("InvalidCovariance")
        ELSE IF Determinant(m) = 0 THEN [ok |-> NegInfinity]
        ELSE IF quadratic < 0 THEN Failed("InvalidCovariance")
        ELSE [ok |-> Rounded(-((Scale * quadratic) \div (2 * Determinant(m))))]

GaussianLogLikelihood(g, target) ==
    LET result == GaussianCompatibility(g, target)
    IN  IF Fails(result) THEN NegInfinity ELSE result.ok
=============================================================================
