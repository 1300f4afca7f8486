SPECIFICATION FairSpec
CONSTANTS
    a = a
    b = b
    Hosts = {a}
    Proxy = Proxy
    None = None
    UseProxy = FALSE
    Commands <- AgentCommands
    Locations <- HttpToA
    MaxRetry = 1
    MaxRounds = 1
    MaxRedirects = 1
    ReqChunks = 1
    MaxReports = 1
    MaxCommands = 2
PROPERTIES ImplementsService FetchEnds
