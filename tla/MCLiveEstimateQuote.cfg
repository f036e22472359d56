SPECIFICATION Spec
CONSTANTS
    A = A
    B = B
    a = a
    b = b
    v = v
    listed = listed
    Nothing = Nothing
    Chats = {A, B}
    Texts = {Nothing, a, b}
    Versions = {v}
    Catalogs = {listed}
    MaxSteps = 2
    MinCompletion = 2
    RequestOverhead = 1
    MessageOverhead = 1
    RouterContext = 16
    Unknown = Unknown
    Sizes = {0, 1, 3, 4}
    Snapshots <- MCSnapshots
\* Each is violated on its own: list one at a time.
INVARIANTS QuoteAlwaysHolds
\* ReserveAlwaysCovers
\* PROPERTY PublishedIsTyped
CHECK_DEADLOCK FALSE
