SPECIFICATION Spec
CONSTANTS
    coarse = coarse
    fine = fine
    p1 = p1
    p2 = p2
    p3 = p3
    Analysts = {p1}
    Reviewers = {p1, p2}
    Params = {coarse, fine}
    Default = Default
    Candidates <- MCCandidates
    Distances = {1, 2}
    Unchanged = Unchanged
    None = None
    MaxEvents = 2
    MaxReviews = 2
PROPERTY
    ReviewedWithinRoute
