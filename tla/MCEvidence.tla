----------------------------- MODULE MCEvidence -----------------------------
(***************************************************************************)
(* Positions on the poles and the equator, with accuracies from 0 to past  *)
(* the largest; Gaussians with every small covariance; and distributions   *)
(* over a latent identity and two snapshots of a host entity.              *)
(***************************************************************************)
EXTENDS EvidencePath

Point(latitude, longitude) == [latitude |-> latitude, longitude |-> longitude, altitude |-> {}]
At(point, accuracy) == [position |-> point, accuracy |-> accuracy]

Points == {Point(lat, lon) : lat \in -1..1, lon \in -2..2}
Malformed ==
    {Point(2, 0), Point(NaN, 1), Point(0, 3), Point(0, NegInfinity),
     [latitude |-> 0, longitude |-> 1, altitude |-> {NaN}],
     [latitude |-> 1, longitude |-> 1, altitude |-> {Infinity}]}

MCReading ==
    {[source |-> At(p, a), target |-> At(q, b)] :
        p \in {Point(0, 0), Point(0, -2), Point(1, 1)}, q \in Points,
        a \in {0, 2, MaxFinite}, b \in {0, 1, MaxFinite}}
    \cup
    {[source |-> At(p, a), target |-> At(q, b)] :
        p \in Malformed, q \in Malformed \cup {Point(0, 0)},
        a \in {0, -1, NaN}, b \in {1, Infinity}}
    \cup
    {[source |-> At(Point(0, 0), a), target |-> At(p, 1)] :
        a \in {-1, 0, NaN, Infinity}, p \in Malformed \cup {Point(0, 1)}}

Gaussian(x, m) == [mean |-> <<x, 0>>, covariance |-> m]

MCGaussianPair ==
    {[source |-> Gaussian(0, [xx |-> xx, xy |-> xy, yy |-> yy]), target |-> Gaussian(x, m)] :
        xx \in {-1, 0, 1, 3}, xy \in -2..2, yy \in {0, 2, MaxFinite, NaN}, x \in {0, 1, MaxFinite},
        m \in {[xx |-> 0, xy |-> 0, yy |-> 0], [xx |-> 2, xy |-> -2, yy |-> 2],
               [xx |-> 1, xy |-> 1, yy |-> 3], [xx |-> 1, xy |-> 0, yy |-> MaxFinite]}}
    \cup
    {[source |-> Gaussian(-MaxFinite, m), target |-> Gaussian(x, m)] :
        x \in {1, NaN}, m \in {[xx |-> 1, xy |-> 0, yy |-> 1]}}

MCLater ==
    {[source |-> At(Point(0, 0), 2), target |-> At(Point(0, 2), 1)]}

Entry(outcome, probability) == [outcome |-> outcome, probability |-> probability]

MCCandidates ==
    {<<Entry(New, 2), Entry(Latent(1), n), Entry(Noise, 0)>> : n \in {16, 18}}
    \cup {<<Entry(Known(1, 1), 8), Entry(Latent(1), 8), Entry(Known(1, 2), 2),
             Entry(Noise, 1), Entry(New, 1)>>,
           <<Entry(Latent(1), 20)>>, <<Entry(Latent(1), 20), Entry(New, 0), Entry(New, 0)>>}

MCResidual == {{}, {[probability |-> 2, rule |-> "top 2"]}, {[probability |-> 2, rule |-> ""]}}

Provider(n) == [provider |-> n, schema |-> 1, model_version |-> 1, calibration_id |-> 1]

MCAction ==
    {[name |-> "assign", target |-> Latent(1)], [name |-> "assign", target |-> Known(1, 1)],
     [name |-> "assign", target |-> Known(1, 2)], [name |-> "new", target |-> New],
     [name |-> "abstain", target |-> New]}

MCProviders == {<<>>, <<Provider(1)>>, <<Provider(1), Provider(1)>>}
=============================================================================
