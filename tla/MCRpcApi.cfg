CONSTANTS
    None = None
    Calls <- MCCalls
    Methods <- MCMethods
    Payloads <- MCPayloads

SPECIFICATION RpcSpec

INVARIANT RpcTypeOK
INVARIANT ResolvesExactlyOnSuccess

CHECK_DEADLOCK FALSE
