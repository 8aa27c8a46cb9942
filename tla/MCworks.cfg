SPECIFICATION Spec
CONSTANTS
    Streams = {w1}
    Slots = {s1, s2}
    Null = Null
    TemplateOrders = {Null}
    RequestedOrders = {}
    Statuses = {"draft", "completed"}
    MaxProductCount = 1
    TemplatePhases = 1
    MaxPhases = 2
    ProductIds = {x1, x2, x3}
SYMMETRY WorksSymmetry
PROPERTIES LimitOverrun TerminalStays
CHECK_DEADLOCK FALSE
