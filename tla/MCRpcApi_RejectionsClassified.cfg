CONSTANTS
    None = None
    Calls <- MCCalls
    Methods <- MCMethods
    Payloads <- MCPayloads

SPECIFICATION RpcSpec




CHECK_DEADLOCK FALSE
INVARIANT RejectionsClassified
