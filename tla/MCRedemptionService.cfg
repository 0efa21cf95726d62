CONSTANTS
    p1 = p1  p2 = p2  p3 = p3  w1 = w1  e1 = e1  r1 = r1  r2 = r2  v1 = v1
    t1 = t1  t2 = t2  i1 = i1  i2 = i2
    Null = Null
    Workers = {p1, p2}
    Wallets = {w1}
    Keys = {e1, r1, r2, v1}
    Amounts = {0, 1, 2}
    Items = {i1, i2}
    Tracked = {i1, i2}
    Tokens = {t1, t2}
    Calls <- FourCalls
    Requests <- EarnTwo
    StudentOf <- AllStudents
    Price <- Price1
    InitialStock <- Units
SPECIFICATION RFairSpec
VIEW ButAnswers
INVARIANTS RTypeOK StockConserved SessionPaysOnce ReceiptBacked
PROPERTIES ReceiptShowsBalance ImplementsLedger EveryCallAnswered
