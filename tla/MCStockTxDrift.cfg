SPECIFICATION TxSpec
CONSTANTS
    Txs = {t1, t2}
    Orders = {o1, o2}
    Variants = {v1, v2}
    Products = {p1}
    ProductOf <- OneProduct
    Id <- Ids
    Kinds = {"update", "create", "adjust", "receive"}
    Alone = {}
    NewStatuses = {"pending", "shipped", "cancelled"}
    MaxQty = 1
    MaxSupply = 1
    None = None
    v1 = v1
    v2 = v2
    p1 = p1
INVARIANTS
    TotalsAreSums
SYMMETRY Symmetry
