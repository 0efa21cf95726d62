CONSTANTS
    p1 = p1  p2 = p2  w1 = w1  w2 = w2
    d1 = d1  d2 = d2  e1 = e1  e2 = e2  b1 = b1  b2 = b2
    x2 = x2  y1 = y1  v1 = v1  att = att  bonus = bonus
    Null = Null
    Workers = {p1, p2}
    Wallets = {w1, w2}
    Keys = {d1, d2, e1, e2, b1, b2, x2, v1, y1}
    Amounts = {1}
    Rules = {att, bonus}
    Calls <- Approvals
    Requests <- ReversalOnly
    TokenAmount <- One
    NeedsApproval = {}
    DailyLimit <- Unlimited
    WeeklyLimit <- Unlimited
    ApprovalKey <- ApprovalKeys
    LastDay = 4
    WeekLength = 2
    AttendanceRule = att
    BonusRule = bonus
    RequiredDays = 2
    BonusKey <- Bonus
    PlainKey <- Plain
    Histories <- BothHistories
    UTCToday = 4
    UTCDate <- Created
    Ahead <- East
SPECIFICATION BSpec
SYMMETRY Symmetry
VIEW ButAnswers
INVARIANTS BTypeOK BonusEarned NeverDeadlocked
PROPERTIES BatchIsolated
