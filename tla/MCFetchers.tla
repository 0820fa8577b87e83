------------------------------ MODULE MCFetchers ------------------------------
(* Every fetcher, one IP, two users, one change by another manager.       *)
EXTENDS Fetchers
MCCalls == {"check", "users", "devices", "user", "device", "cfg", "ipset", "add", "remove"}
MCMethods == {MethodOf(c) : c \in MCCalls}
MCPayloads == {"none"}
MCFns == {"checkSession", "getDevice", "fe.getUsers", "getUser", "getUsers",
          "getUserWithDevices", "getDevices", "getData", "ipsetAdd", "ipsetRemove"}
MCIps == {"ip1"}
MCUsers == {"u1", "u2"}
==============================================================================
