SPECIFICATION Spec
CONSTANTS
    p = p q = q r = r d = d e = e
    Panel = {p, q, r}
    Data = {d, e}
    MaxDepth = 5
    QueueLimit = 2
    NoPanel = NoPanel
    NoData = NoData
SYMMETRY Symmetry
INVARIANTS TypeOK ListIsExact RefsMatchDeliveries DataOutlivesUse LoopsInside
