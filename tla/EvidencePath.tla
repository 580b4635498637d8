---------------------------- MODULE EvidencePath ----------------------------
(***************************************************************************)
(* The way of a position from its reading to a published document.  A      *)
(* reading becomes a pair of spatial components, or of Gaussians; their    *)
(* log-likelihood becomes a score; the score goes into the records of an   *)
(* inference and a decision; and these are written into a buffer that the  *)
(* exporter uses again for the next.                                       *)
(*                                                                         *)
(* Each type and function is li-core's or li-model's.  Who calls them in   *)
(* turn, a provider, a policy and an exporter, is outside src/.            *)
(***************************************************************************)
EXTENDS Spatial, Interoperability

CONSTANTS
    Reading,       \* pairs of raw components, the other one of a candidate
    GaussianPair,  \* pairs of raw means and covariances
    LaterReading,  \* those of the pairs that may be read after the first one
    Candidates,    \* the entries of a distribution that providers may come to
    Residual,      \* the residual masses, at most one each
    Providers,     \* the artifacts of an inference, in order
    Action,        \* the actions a policy may come to
    Publisher      \* the publishers, and "bad", which is not an IRI

(* What an inference says of the artifact of a provider. *)
Artifact == [provider : Nat, schema : Nat, model_version : Nat, calibration_id : Nat]

ASSUME PathAssumption ==
    /\ Reading \subseteq [source : RawComponent, target : RawComponent]
    /\ GaussianPair \subseteq [source : RawGaussian, target : RawGaussian]
    /\ LaterReading \subseteq Reading \cup GaussianPair
    /\ Providers \subseteq Seq(Artifact)

VARIABLES
    stage,       \* "read", "scored", "recorded", or "refused"
    pair,        \* what was read
    score,       \* the log-likelihood, until the records have it
    records,     \* the observation, the inference and the decision
    output,      \* the buffer: the document in it
    exported     \* the records of the last export; for ExportFaithful

vars == <<stage, pair, score, records, output, exported>>

Nothing == [form |-> "none"]

Init ==
    /\ stage = "read" /\ pair \in Reading \cup GaussianPair
    /\ score = 0 /\ records = Nothing /\ output = Nothing /\ exported = Nothing

-----------------------------------------------------------------------------
(* The constructors; `checked' are those that report an error. *)
Component(raw) == SaturatedComponent(SaturatedPoint(raw.position), raw.accuracy)

GaussianError(g) ==
    CASE CovarianceError(g.covariance) # "None" -> CovarianceError(g.covariance)
      [] \E x \in {g.mean[1], g.mean[2]} : ~IsFinite(x) -> "NonFiniteMean"
      [] OTHER -> "None"

Refuse == stage' = "refused" /\ UNCHANGED <<pair, score, records, output, exported>>

(* The score a provider makes of a log-likelihood: -infinity is none. *)
Scored(value) ==
    IF ScoreError(value, "LogLikelihood", "position") # "None" THEN Refuse
    ELSE /\ stage' = "scored" /\ score' = value
         /\ UNCHANGED <<pair, records, output, exported>>

MeasureChecked ==
    /\ stage = "read" /\ pair \in Reading
    /\ IF \E c \in {pair.source, pair.target} : ComponentError(c) # "None" THEN Refuse
       ELSE Scored(LogLikelihood(pair.source, pair.target))

MeasureSaturated ==
    /\ stage = "read" /\ pair \in Reading
    /\ Scored(LogLikelihood(Component(pair.source), Component(pair.target)))

MeasureGaussian ==
    /\ stage = "read" /\ pair \in GaussianPair
    /\ IF \E g \in {pair.source, pair.target} : GaussianError(g) # "None" THEN Refuse
       ELSE Scored(GaussianLogLikelihood(pair.source, pair.target))

-----------------------------------------------------------------------------
Contribution ==
    [value |-> score, semantics |-> "LogLikelihood", provider |-> 1,
     model_version |-> 1, calibration_id |-> 1, validity_domain |-> "position"]

Records(entries, residual, providers, action, observation) ==
    [form |-> "records",
     observation |-> [id |-> 1, source |-> 1, event_time |-> 1, ingestion_time |-> 2,
                      content_hash |-> 1, supersedes |-> {}],
     inference |-> [id |-> 1, observation |-> observation,
                    distribution |-> Distribution(entries, residual),
                    contributions |-> <<Contribution>>, providers |-> providers,
                    host_snapshot |-> 1, candidate_version |-> 1, solver_version |-> 1,
                    stopping_reason |-> "Exact"],
     decision |-> [id |-> 1, inference |-> 1, action |-> action,
                   policy_version |-> 1, loss_version |-> 1]]

(* An inference of another observation may be handed to the exporter. *)
Record(entries, residual, providers, action, observation) ==
    /\ stage = "scored"
    /\ IF DistributionError(entries, residual) # "None"
          \/ DecisionError(action, Distribution(entries, residual)) # "None"
       THEN Refuse
       ELSE /\ stage' = "recorded"
            /\ records' = Records(entries, residual, providers, action, observation)
            /\ score' = 0 /\ pair' = Nothing
            /\ UNCHANGED <<output, exported>>

-----------------------------------------------------------------------------
Document(profile, r) ==
    [form |-> "decision", statements |-> Statements(profile, r), graphs |-> {}]

Nanopublication(profile, r, publisher) ==
    [form |-> "nanopublication",
     statements |-> Statements(profile, r) \cup NanopublicationStatements(r),
     graphs |-> NanopublicationGraphs(r, publisher)]

(* Fault: what the buffer held before stays in it. *)
Appended(document) ==
    IF output = Nothing THEN document
    ELSE [document EXCEPT !.statements = @ \cup output.statements]

(* What the buffer holds after a document is written: it is cleared first. *)
Written(document) == document

Write(document) ==
    /\ output' = Written(document)
    /\ exported' = records
    /\ UNCHANGED <<stage, pair, score, records>>

ProjectDecision(profile) ==
    /\ stage = "recorded"
    /\ LineageAgrees(records)
    /\ Write(Document(profile, records))

ProjectNanopublication(profile, publisher) ==
    /\ stage = "recorded"
    /\ publisher # "bad" /\ LineageAgrees(records)
    /\ Write(Nanopublication(profile, records, publisher))

(* InvalidBaseIri or InvalidLineage: the buffer is left alone. *)
ProjectionFails(publisher) ==
    /\ stage = "recorded"
    /\ publisher = "bad" \/ ~LineageAgrees(records)
    /\ Refuse

ReadNext ==
    /\ stage \in {"recorded", "refused"}
    /\ stage' = "read" /\ pair' \in LaterReading
    /\ score' = 0 /\ records' = Nothing
    /\ UNCHANGED <<output, exported>>

Next ==
    \/ MeasureChecked \/ MeasureSaturated \/ MeasureGaussian
    \/ \E e \in Candidates, r \in Residual, p \in Providers, a \in Action, o \in {1, 2} :
          Record(e, r, p, a, o)
    \/ \E profile \in Profile : ProjectDecision(profile)
    \/ \E profile \in Profile, p \in Publisher : ProjectNanopublication(profile, p)
    \/ \E p \in Publisher : ProjectionFails(p)
    \/ ReadNext

Spec == Init /\ [][Next]_vars

-----------------------------------------------------------------------------
(***************************************************************************)
(* Positions.                                                              *)
(***************************************************************************)
IsPositionPair == stage = "read" /\ pair \in Reading
IsGaussianPair == stage = "read" /\ pair \in GaussianPair

Valid(c) == ComponentError(c) = "None"

(* Where a point is: the longitude of a pole is not part of it, and the    *)
(* two ends of the longitudes are one.                                     *)
Place(p) == IF p.latitude # 0 THEN <<p.latitude>> ELSE <<0, p.longitude % 4>>
Antipode(p) == IF p.latitude # 0 THEN <<-p.latitude>> ELSE <<0, (p.longitude + 2) % 4>>

(* Distances on the sphere: 0 to the same place, half a great circle to    *)
(* its antipode, and a quarter to every other place of the grid.           *)
DistanceRight(p, q) ==
    HaversineDistance(p, q) =
        CASE Place(p) = Place(q) -> 0 [] Antipode(p) = Place(q) -> 2 [] OTHER -> 1

(* Malformed evidence is never a preferred assignment: the log-likelihood  *)
(* of a pair is never NaN nor positive, and -infinity if one of the two is *)
(* malformed; it is the same from both sides, and the nearer of two        *)
(* candidates that are equally accurate is not the less likely one.        *)
PositionLikelihood(c, target) ==
    LET value == LogLikelihood(c, target)
    IN  /\ value = NegInfinity \/ value \in -MaxFinite..0
        /\ ~Valid(c) \/ ~Valid(target) => value = NegInfinity
        /\ value = LogLikelihood(target, c)
        /\ Valid(c) /\ Valid(target) =>
               /\ DistanceRight(c.position, target.position)
               /\ \A r \in Reading :
                      /\ Valid(r.target) /\ r.target.accuracy = target.accuracy
                      /\ HaversineDistance(c.position, r.target.position)
                             <= HaversineDistance(c.position, target.position)
                      => LogLikelihood(c, r.target) >= value

(* Covariances that are accepted never add up to one that is refused as    *)
(* invalid, but their sum may overflow; unless it does, the likelihood is  *)
(* best where the means are.  Rounding is not modelled.                    *)
GaussianLikelihood(g, target) ==
    LET value == GaussianLogLikelihood(g, target)
    IN  GaussianError(g) = "None" /\ GaussianError(target) = "None" =>
            /\ GaussianCompatibility(g, target) # Failed("InvalidCovariance")
            /\ value = NegInfinity \/ value \in -MaxFinite..0
            /\ value = GaussianLogLikelihood(target, g)
            /\ g.mean = target.mean /\ value # 0 =>
                   GaussianCompatibility(g, target) = Failed("NonFiniteCovariance")

LikelihoodSound ==
    /\ IsPositionPair => PositionLikelihood(pair.source, pair.target)
    /\ IsGaussianPair => GaussianLikelihood(pair.source, pair.target)

(* The saturating constructors and the checked ones agree: whatever a      *)
(* saturating constructor makes of a reading is valid, and what is valid   *)
(* it leaves as it is, but for an accuracy whose square would overflow.    *)
ConstructorsAgree ==
    /\ IsPositionPair =>
           \A c \in {pair.source, pair.target} :
               /\ Valid(Component(c))
               /\ Valid(c) /\ c.accuracy <= MaxAccuracy => Component(c) = c
    /\ \A value \in NegInfinity..NaN :
           LET p == SaturatedProbability(value)
           IN  /\ ProbabilityError(p) = "None"
               /\ ProbabilityError(value) = "None" => p = value

-----------------------------------------------------------------------------
(***************************************************************************)
(* Documents.                                                              *)
(***************************************************************************)

(* Records the ledger has accepted: it refuses inferences without          *)
(* provenance.                                                             *)
Committed(r) == r.inference.providers # <<>>

(* What a document tells of its records.  It does not tell: the target of  *)
(* an assignment (ActionLabel), the snapshot of a host entity              *)
(* (OutcomeTerm), the residual mass, and what is past the digits printed.  *)
ToldScores(scores) ==
    [n \in DOMAIN scores |-> [scores[n] EXCEPT !.value = Printed(@)]]

ToldAlternatives(entries) ==
    [n \in DOMAIN entries |->
        [outcome |-> OutcomeTerm(entries[n].outcome),
         probability |-> Printed(entries[n].probability)]]

Told(r) ==
    [r EXCEPT !.decision.action = @.name,
              !.inference.contributions = ToldScores(@),
              !.inference.distribution = ToldAlternatives(@.entries)]

(* Records that could have been exported in place of these, which differ   *)
(* from them in one part.                                                  *)
Others ==
    {[exported EXCEPT !.inference.distribution = Distribution(e, residual)] :
        e \in Candidates, residual \in Residual}
    \cup {[exported EXCEPT !.inference.contributions[1].value = v] : v \in -MaxFinite..0}
    \cup {[exported EXCEPT !.inference.providers = p] : p \in Providers}
    \cup {[exported EXCEPT !.decision.action = a] : a \in Action}

JustExported == output # Nothing /\ records = exported

(* The document of these records is the one in the buffer, graphs included. *)
SameDocument(profile, r) ==
    \/ output = Document(profile, r)
    \/ \E p \in Publisher : output = Nanopublication(profile, r, p)

(* A document is that of its records alone, although the buffer held       *)
(* others before: it conforms to the shapes that are published for it and  *)
(* states no candidate as a fact.  Records have one document exactly if    *)
(* they agree in what is told of them; that is not all that is in them,    *)
(* although the comment of project_decision calls the projection lossless. *)
ExportFaithful ==
    JustExported =>
        /\ Committed(exported) => Conforms(output.statements)
        /\ \A t \in output.statements : t[1] # "candidateTarget"
        /\ \E profile \in Profile : SameDocument(profile, exported)
        /\ \A r \in Others :
               (\E profile \in Profile : SameDocument(profile, r)) <=> Told(r) = Told(exported)
=============================================================================
