SPECIFICATION AudFairSpec
CONSTANTS
    c1 = c1
    c2 = c2
    t1 = t1
    k1 = k1
    k2 = k2
    Absent = Absent
    Nil = Nil
    ConstraintIds = {c1, c2}
    TemplateIds = {t1}
    MaxVersion = 2
    Codes = {k1, k2}
    Parsable = {k1, k2}
    Items <- MCItems
    Resources = {r1}
    Owned = {}
    ObjectVersions = {1, 2, 3}
    Matching <- MCMatching
    Verdict <- MCVerdict
    Masked <- MCMasked
    Unmaskable = {3}
    MaxInputs = 3
INVARIANTS CacheWasTold MissingExplained ToldIsCurrent
PROPERTIES EventuallyTold
CHECK_DEADLOCK FALSE
