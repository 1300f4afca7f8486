SPECIFICATION Spec
CONSTANTS
    a = a
    b = b
    Hosts = {a}
    Proxy = Proxy
    None = None
    UseProxy = FALSE
    Commands <- BusyPost
    Locations <- Nowhere
    MaxRetry = 1
    MaxRounds = 0
    MaxRedirects = 0
    ReqChunks = 1
    MaxReports = 2
    MaxCommands = 2
PROPERTIES PendingFetchKept
