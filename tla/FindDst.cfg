SPECIFICATION Spec
CONSTANTS
    a = a
    b = b
    Hosts = {a, b}
    Proxy = Proxy
    None = None
    UseProxy = FALSE
    Commands <- TwoHosts
    Locations <- Nowhere
    MaxRetry = 1
    MaxRounds = 0
    MaxRedirects = 0
    ReqChunks = 1
    MaxReports = 2
    MaxCommands = 2
PROPERTIES ResolvedBeforeSyn
