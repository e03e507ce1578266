\* The key exchange and client-started rekeys with connection_timeout None.
\* An idle client and an idle application leave the task waiting in its
\* select! for good, which the code allows: deadlock is not an error here.
CONSTANTS
    NoTimeout = NoTimeout
    Delay = NoTimeout
    MaxServerRekeys = 0
    MaxClientRekeys = 2
    MaxClientData = 2
    MaxIgnores = 1
    MaxAppMsgs = 1
SPECIFICATION FairSpec
INVARIANT NoKexError
PROPERTIES RekeyCompletes
CHECK_DEADLOCK FALSE
