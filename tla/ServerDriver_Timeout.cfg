\* connection_timeout of two ticks, one rekey started by the server's flush.
CONSTANTS
    NoTimeout = NoTimeout
    Delay = 2
    MaxServerRekeys = 1
    MaxClientRekeys = 1
    MaxClientData = 1
    MaxIgnores = 1
    MaxAppMsgs = 2
SPECIFICATION Spec
INVARIANTS NoKexError NoEarlyTimeout
