SPECIFICATION Spec
CONSTANTS
    None = None
    prom = prom
    other = other
    e1 = e1
    legacy = legacy
    token = token
    basic = basic
    key = key
    user = user
    Plugins = {prom}
    Names = {prom, other}
    Products = {prom}
    Probed = {prom}
    Ids = {e1, e2}
    OldKeys = {legacy}
    Methods = {token, basic}
    Fields = {key, user}
    Normal <- MCNormal
    Blankable = {key}
    Manifest <- MCManifest
    Declares <- MCDeclares
CONSTRAINT Small
INVARIANTS
    StatusTruth
    ListedIsFound
PROPERTIES
    EndpointsKept
    HistoryKept
    WiringHolds
