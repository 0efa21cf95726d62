CONSTANTS
    p1 = p1  p2 = p2  w1 = w1  w2 = w2
    k1 = k1  k2 = k2  a1 = a1  a2 = a2  v1 = v1  fast = fast  slow = slow
    Null = Null
    Workers = {p1, p2}
    Wallets = {w1}
    Keys = {k1, k2, v1}
    Amounts = {1}
    Rules = {fast, slow}
    Calls <- TwoImmediate
    Requests <- ReverseIssued
    TokenAmount <- One
    NeedsApproval = {slow}
    DailyLimit <- One
    WeeklyLimit <- Unlimited
    ApprovalKey <- ApprovalKeys
    LastDay = 1
    WeekLength = 2
SPECIFICATION ESpec
INVARIANTS LimitsKept
