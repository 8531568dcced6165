SPECIFICATION MixSpec
CONSTANTS
    social = social
    billing = billing
    None = None
    Categories = {social, billing}
    Calls = {w1, w2}
    Hashes = {h1, h2}
    NoHash = NoHash
    NoStream = NoStream
    FirstItems = 3
    MaxItems = 3
    PageSize = 1
    Viewport = 2
    Category <- CategoryOf
    Url <- LinkOf
    RouterPush = TRUE
    Tabs <- UnreadAndOne
    Views = {"default", "archived"}
    Budgets <- MixBudgets
INVARIANTS  PanelTellsTruth CredentialInForce
PROPERTIES PillCountsArrivals ListFills
CHECK_DEADLOCK FALSE
