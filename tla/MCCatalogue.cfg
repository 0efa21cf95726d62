SPECIFICATION CatSpec
CONSTANTS
    Workers = {p1, p2}
    i1 = i1
    c1 = c1
    Items = {i1}
    Codes = {c1}
    Bodies <- TestBodies
    Prices = {1, 2}
    MaxCount = 3
    MaxSales = 2
    Null = Null
INVARIANTS CatTypeOK StockAccounted
PROPERTIES EditsKeepOthers SoldAsOffered
SYMMETRY Symmetry
