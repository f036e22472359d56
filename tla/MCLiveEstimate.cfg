SPECIFICATION Spec
CONSTANTS
    A = A
    B = B
    a = a
    b = b
    v = v
    listed = listed
    Nothing = Nothing
    Chats = {A, B}
    Texts = {Nothing, a, b}
    Versions = {v}
    Catalogs = {listed}
    MaxSteps = 4
    MinCompletion = 2
    RequestOverhead = 1
    MessageOverhead = 1
    RouterContext = 16
    Unknown = Unknown
    Sizes = {0, 1, 3, 4}
    Snapshots <- MCSnapshots
INVARIANTS
  PlanChecked
PROPERTIES
  LineSound
  EstimatesCurrent
CHECK_DEADLOCK FALSE
