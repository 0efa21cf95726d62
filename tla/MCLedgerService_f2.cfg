CONSTANTS
    p1 = p1  p2 = p2  p3 = p3  w1 = w1  w2 = w2
    e1 = e1  e2 = e2  r1 = r1  a1 = a1  v1 = v1  v2 = v2  v3 = v3
    Null = Null
    Workers = {p1, p2}
    Wallets = {w1}
    Keys = {e1, r1, v1, v2}
    Amounts = {0, 1}
    Requests <- ReversalOfReversal
SPECIFICATION Spec
INVARIANTS BackingExplainsBalance
