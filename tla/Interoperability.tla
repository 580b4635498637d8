-------------------------- MODULE Interoperability --------------------------
(***************************************************************************)
(* InteroperabilityProjector of li-model: what it writes of an observation,*)
(* its inference and its decision, as sets of RDF statements, and the      *)
(* SHACL shapes it publishes for them.                                     *)
(*                                                                         *)
(* A statement is its predicate, subject and object; a node is its kind    *)
(* and number, under the base IRI or, as a blank node, within a document.  *)
(***************************************************************************)
EXTENDS Evidence

CONSTANT Digit   \* the values that print as the same 17 decimals

ASSUME InteroperabilityAssumption == Digit \in Nat \ {0}

Profile == {"Rdf11", "Rdf12"}

\* `{:.17}': the value to the nearest of the numbers with 17 decimals.
Printed(value) == (value + Digit \div 2) \div Digit

-----------------------------------------------------------------------------
Node(kind, n) == <<kind, n>>

(* A subject with its classes and the values of its properties. *)
Described(subject, classes, properties) ==
    {<<"a", subject, <<c>>>> : c \in classes}
        \cup {<<p, subject, properties[p]>> : p \in DOMAIN properties}

(* OutcomeTerm: a host entity has no snapshot here. *)
OutcomeTerm(outcome) ==
    CASE outcome.rank = 1 -> Node("identity", outcome.id)
      [] outcome.rank = 2 -> Node("host", outcome.id)
      [] outcome.rank = 3 -> <<"newIdentity">>
      [] OTHER            -> <<"noise">>

ObservationStatements(o) ==
    Described(Node("observation", o.id), {"Entity", "Observation"},
        [source |-> o.source, eventTime |-> o.event_time,
         ingestionTime |-> o.ingestion_time, contentHash |-> o.content_hash])

InferenceStatements(o, i) ==
    Described(Node("inference", i.id), {"Activity", "Inference"},
        [used |-> Node("observation", o.id), hostSnapshot |-> i.host_snapshot,
         candidateVersion |-> i.candidate_version, solverVersion |-> i.solver_version,
         stoppingReason |-> i.stopping_reason])

ProviderStatements(i) ==
    UNION {{<<"usedProvider", Node("inference", i.id), Node("artifact", n)>>}
           \cup Described(Node("artifact", n), {"Entity"},
                    [providerId |-> i.providers[n].provider, schemaId |-> i.providers[n].schema,
                     modelVersion |-> i.providers[n].model_version,
                     calibrationId |-> i.providers[n].calibration_id, ordinal |-> n]) :
           n \in DOMAIN i.providers}

ScoreStatements(i) ==
    UNION {{<<"hasScoreContribution", Node("inference", i.id), Node("score", n)>>}
           \cup Described(Node("score", n), {"ScoreContribution"},
                    [value |-> Printed(i.contributions[n].value),
                     scoreSemantics |-> i.contributions[n].semantics,
                     providerId |-> i.contributions[n].provider,
                     modelVersion |-> i.contributions[n].model_version,
                     calibrationId |-> i.contributions[n].calibration_id,
                     validityDomain |-> i.contributions[n].validity_domain]) :
           n \in DOMAIN i.contributions}

(* A candidate proposition, by reification or as a triple term: the        *)
(* statement is named, not made.                                           *)
Proposition(profile, o, entry, n) ==
    IF profile = "Rdf11"
    THEN Described(Node("alternative", n), {"Statement"},
             [subject |-> Node("observation", o.id), predicate |-> "candidateTarget",
              object |-> OutcomeTerm(entry.outcome)])
    ELSE {<<"reifies", Node("alternative", n),
            <<"candidateTarget", Node("observation", o.id), OutcomeTerm(entry.outcome)>>>>}

AlternativeStatements(profile, o, i) ==
    UNION {Proposition(profile, o, i.distribution.entries[n], n)
           \cup Described(Node("alternative", n), {"Alternative"},
                    [probability |-> Printed(i.distribution.entries[n].probability),
                     wasGeneratedBy |-> Node("inference", i.id)]) :
           n \in DOMAIN i.distribution.entries}

(* ActionLabel: the name of the action, without the target. *)
DecisionStatements(i, d) ==
    Described(Node("decision", d.id), {"Activity", "Decision"},
        [used |-> Node("inference", i.id), policyVersion |-> d.policy_version,
         lossVersion |-> d.loss_version, action |-> d.action.name])

Statements(profile, r) ==
    ObservationStatements(r.observation)
        \cup InferenceStatements(r.observation, r.inference)
        \cup ProviderStatements(r.inference)
        \cup ScoreStatements(r.inference)
        \cup AlternativeStatements(profile, r.observation, r.inference)
        \cup DecisionStatements(r.inference, r.decision)

(* The named graphs of a nanopublication: each statement with its graph. *)
NanopublicationGraphs(r, publisher) ==
    LET d == r.decision.id
        publication == Node("nanopub", d)
        Graph(name) == <<"nanopub", d, name>>
    IN  {<<Graph("assertion"), <<"hasDecision", Node("observation", r.observation.id),
                                 Node("decision", d)>>>>,
         <<Graph("provenance"), <<"wasGeneratedBy", Graph("assertion"), Node("decision", d)>>>>,
         <<Graph("publicationInfo"), <<"wasAttributedTo", publication, <<publisher>>>>>>}

NanopublicationStatements(r) ==
    LET d == r.decision.id
    IN  {<<"a", Node("nanopub", d), <<"Nanopublication">>>>,
         <<"hasAssertion", Node("nanopub", d), <<"nanopub", d, "assertion">>>>,
         <<"hasProvenance", Node("nanopub", d), <<"nanopub", d, "provenance">>>>,
         <<"hasPublicationInfo", Node("nanopub", d), <<"nanopub", d, "publicationInfo">>>>}

(* project_decision refuses records of different lineages. *)
LineageAgrees(r) ==
    r.inference.observation = r.observation.id /\ r.decision.inference = r.inference.id

-----------------------------------------------------------------------------
(* write_shacl.  A property of a shape has exactly one value, or at least  *)
(* one; its objects may need a class.  Left out: RevisionShape, of a class *)
(* that nothing here is written with.                                      *)
Single(target, paths) ==
    {[target |-> target, path |-> p, many |-> FALSE, class |-> "any"] : p \in paths}
Linked(target, path, class) ==
    {[target |-> target, path |-> path, many |-> FALSE, class |-> class]}
Some(target, path) == {[target |-> target, path |-> path, many |-> TRUE, class |-> "any"]}

Shapes ==
    Linked("Decision", "used", "Inference")
    \cup Single("Decision", {"policyVersion", "lossVersion", "action"})
    \cup Linked("Inference", "used", "Observation") \cup Some("Inference", "usedProvider")
    \cup Single("Inference",
              {"hostSnapshot", "candidateVersion", "solverVersion", "stoppingReason"})
    \cup Single("usedProvider", {"providerId", "schemaId", "modelVersion", "calibrationId"})
    \cup Single("ScoreContribution",
              {"value", "scoreSemantics", "modelVersion", "calibrationId"})
    \cup Single("Alternative", {"probability"})
    \cup Linked("Alternative", "wasGeneratedBy", "Inference")
    \cup Single("Promotion", {"promotionTarget"})
    \cup Linked("Promotion", "wasGeneratedBy", "Decision")
    \cup Linked("Materialization", "responsibleDecision", "Decision")
    \cup Single("Materialization", {"commitVersion", "hostPredicate"})

AllowedSemantics ==
    {"LogLikelihood", "LogLikelihoodRatio", "LogPotential", "CalibratedPosterior"}

(* sh:targetClass, or sh:targetObjectsOf for the artifacts of providers. *)
Focus(shape, statements) ==
    IF shape.target = "usedProvider"
    THEN {t[3] : t \in {u \in statements : u[1] = "usedProvider"}}
    ELSE {t[2] : t \in {u \in statements : u[1] = "a" /\ u[3] = <<shape.target>>}}

(* What a SHACL processor checks of a document: external to the code. *)
Conforms(statements) ==
    /\ \A t \in statements : t[1] = "scoreSemantics" => t[3] \in AllowedSemantics
    /\ \A shape \in Shapes : \A node \in Focus(shape, statements) :
          LET values == {t[3] : t \in {u \in statements : u[1] = shape.path /\ u[2] = node}}
          IN  /\ values # {} /\ (shape.many \/ Cardinality(values) = 1)
              /\ shape.class # "any" =>
                     \A v \in values : <<"a", v, <<shape.class>>>> \in statements
=============================================================================
