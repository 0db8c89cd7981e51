SPECIFICATION Spec
CONSTANTS
    None = None
    Few = 1
    More = 2
    Most = 3
    Recurring = "recurring"
    Item = {"i2"}
    Items = {"i2", "i3"}
    Hours = {8}
    Plan <- OnePlan
    Plans <- TwoPlans
    PoCap = 3
    Markable = {"i2"}
    Pull = {"p1"}
    Pulls = {"p1", "p2"}
    Line = {"a", "c"}
    Owner <- OneOwner
    Initial = {"a"}
    Received = {}
    Qty = {1}
    Entry = {"a", "b", "c", "d"}
    Place <- TwoOwners
    First = {"a", "b", "c"}
    Linking = {"p2"}
    Pieces = {2}
    MaxButtons = 7
    PageSizes = {1, 2}
    MaxTotal = 12
    Receipt = {"r1", "r2", "r3"}
    Workbook = {"r1"}
    Job = {"j1", "j2"}
    Account = {"ann"}
    House = {"w1"}
    Me = "ann"
    Orders = {"p1", "p2"}
    Houses = {"w1", "w2"}
    Typing = {"ab", "abc"}
    Stub = "a"
    Person = {"ann", "bob"}
    Assigned <- Assignments
    Demo = "bob"
    Registry <- BothKnown
    Logged = {1, 2, 3}
    Old = {1, 2}
    Act = {"a", "b"}
    Kind <- Kinds
    Finds = {1, 3}
    Holds = {2, 3}
    Recent = {2, 3}
    Scene = {"lossyOnce", "drawerSaves", "form", "order", "syncOnce", "history", "imports",
             "reports", "exportTwice", "counters", "login", "cancel"}
PROPERTIES
    ControlsComeBack
    ShownCatchesUp
CHECK_DEADLOCK FALSE
