SPECIFICATION PolSpec
CONSTANTS
    Absent = Absent
    ConstraintIds = {c1, c2, c3}
    TemplateIds = {t1, t2}
    Items <- MCItems
    MaxVersion = 3
    Codes = {k1, k2, bad}
    Parsable = {k1, k2}
INVARIANTS UsageExact PanicExplained
CHECK_DEADLOCK FALSE
