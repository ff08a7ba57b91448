SPECIFICATION FairSpec
CONSTANTS
    coarse = coarse
    fine = fine
    p1 = p1
    p2 = p2
    p3 = p3
    Analysts = {p1, p2}
    Reviewers = {p2, p3}
    Params = {coarse, fine}
    Default = Default
    Candidates <- MCCandidates
    Distances = {1, 2}
    Unchanged = Unchanged
    None = None
    MaxEvents = 3
    MaxReviews = 2
INVARIANTS
    TypeOK
    PendingMatchTrace
    ReviewsAudited
PROPERTIES
    ReviewsSurvive
    ImplementsTraceEvents
    RequestsEnd
