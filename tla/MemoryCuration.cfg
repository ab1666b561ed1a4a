SPECIFICATION FairSpec
CONSTANTS
    o1 = o1
    p1 = p1
    MaxAsked = 2
    Observations = {o1, o2}
    Trivial = {o2}
    Proposals = {x1}
    Curators = {p1, p2}
    Reviewers = {r1, r2}
    Kinds = {"entry", "profile"}
    AutoAccept = TRUE
    MaxActions = 2
    MaxDecisions = 2
    MaxDeferrals = 1
    MaxReviews = 2
    MaxDiscards = 1
    MaxEdits = 1
    MaxCrashes = 1
    MaxRefusals = 1
    None = None
INVARIANTS CurationSafe
PROPERTIES ObservationProcessed
ACTION_CONSTRAINT UsersOrCurators
CHECK_DEADLOCK FALSE
