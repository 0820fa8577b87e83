CONSTANTS
    None = None
    Undef = Undef
    Calls <- MCCalls
    Methods <- MCMethods
    Payloads <- MCPayloads
    Fns <- MCFns
    Ips <- MCIps
    Users <- MCUsers
    TheUser = "u1"
    MaxChanges = 1

SPECIFICATION FSpec

INVARIANT NoTypeError

CHECK_DEADLOCK FALSE
