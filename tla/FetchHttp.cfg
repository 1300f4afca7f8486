SPECIFICATION Spec
CONSTANTS
    a = a
    b = b
    Hosts = {a, b}
    Proxy = Proxy
    None = None
    UseProxy = TRUE
    Commands <- MixedCommands
    Locations <- HttpOrHttps
    MaxRetry = 2
    MaxRounds = 1
    MaxRedirects = 1
    ReqChunks = 2
    MaxReports = 2
    MaxCommands = 1
INVARIANTS TypeOK ExecutionsBounded OkIsEarned SentAsAsked HopIsBareGet
