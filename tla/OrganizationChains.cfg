SPECIFICATION OrganizationSpec
CONSTANTS
    Nothing = Nothing
    MaxFaults = 1
    TornWrites = TRUE
    Editor = {e1, e2}
    Tag = {t1, t2}
    Link = {l1, l2}
    Criteria = {k1, k2}
    Decision = {d1, d2}
    Name = {n1, n2}
    MaxRevisions = 4
INVARIANT AcceptedRevisionsStay
CHECK_DEADLOCK FALSE
