SPECIFICATION Spec
CONSTANTS
    MaxFinite = 20
    Scale = 4
    MaxAccuracy = 10
    One = 20
    Digit = 2
    Reading <- MCReading
    GaussianPair <- MCGaussianPair
    LaterReading <- MCLater
    Candidates <- MCCandidates
    Residual <- MCResidual
    Providers <- MCProviders
    Action <- MCAction
    Publisher = {"publisher", "bad"}
INVARIANTS LikelihoodSound ConstructorsAgree 
