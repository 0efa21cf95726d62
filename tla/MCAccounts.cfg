SPECIFICATION AccFairSpec
CONSTANTS
    Workers = {p1, p2}
    e1 = e1
    e2 = e2
    e3 = e3
    n1 = n1
    Emails = {e1, e2, e3}
    Numbers = {n1}
    Calls <- TestCalls
    Legacy = {e2, e3}
    LegacyRole <- RoleOfLegacy
    Null = Null
INVARIANTS AccTypeOK Provisioned NothingTwice
PROPERTIES ApprovedHasProfile EveryCallEnds
