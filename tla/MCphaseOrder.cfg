SPECIFICATION Spec
CONSTANTS
    Streams = {}
    Slots = {s1, s2}
    Null = Null
    TemplateOrders = {Null, 2}
    RequestedOrders = {0, 2, 9}
    Statuses = {"draft"}
    MaxProductCount = 1
    TemplatePhases = 2
    MaxPhases = 3
    ProductIds = {}
SYMMETRY WorksSymmetry
PROPERTIES AloneRenumbers OthersKeepOrder
CHECK_DEADLOCK FALSE
