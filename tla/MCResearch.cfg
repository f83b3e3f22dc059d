SPECIFICATION ResearchSpec
CONSTANTS
    Nothing = Nothing
    MaxFaults = 1
    TornWrites = TRUE
    Editor = {e1, e2}
    Tag = {t1, t2}
    Link = {l1, l2}
    Criteria = {k1, k2}
    Decision = {d1, d2}
    Name = {n1, n2}
    MaxRevisions = 4
    Session = {s1, s2}
    MaxEdits = 2
    Writer = {w1, w2}
    Evidence = {i1}
    Queue = {q1}
    MaxClock = 5
    Caller = {c1, c2}
    Candidate = {p1, p2}
    Context = {x1}
    MaxFiles = 2
    Renderer = {r1}
    MaxChanges = 2
    Reviewer = {a1, a2}
    Proposal = {g1}
    MaxCommits = 6
    MaxContexts = 1
INVARIANTS
    ResearchTypeOK
    OwnersAndTargetsStand
    
    ReceiptsNameTheirSource
    ProjectionsAreTrue
    ProposalsAreBound
PROPERTIES
    CommitsSeeTheirBasis
    ProjectionsConverge
    ProposalsSettle
CHECK_DEADLOCK FALSE
