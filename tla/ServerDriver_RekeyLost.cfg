\* A rekey started by the server's flush while client data is in flight,
\* with connection_timeout None.
CONSTANTS
    NoTimeout = NoTimeout
    Delay = NoTimeout
    MaxServerRekeys = 1
    MaxClientRekeys = 1
    MaxClientData = 1
    MaxIgnores = 0
    MaxAppMsgs = 0
SPECIFICATION FairSpec
PROPERTIES RekeyCompletes
CHECK_DEADLOCK FALSE
