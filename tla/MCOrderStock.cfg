SPECIFICATION Spec
CONSTANTS
    Orders = {o1, o2}
    Variants = {v1, v2}
    MaxQty = 2
    MaxSupply = 3
SYMMETRY Symmetry
INVARIANTS TypeOK ReservedIsOwed Conservation UnpaidPendingHasDeadline
PROPERTIES PayingOrderKeepsItsStock
