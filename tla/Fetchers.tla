------------------------------- MODULE Fetchers -------------------------------
(***************************************************************************)
(* The view-model functions of both front ends that read (and, for the    *)
(* trust list, change) server state through RPCApi.Fetch:                  *)
(*   src/fe/src/App/Pages/Device/func.js    checkSession, getDevice,       *)
(*                                          getUsers                       *)
(*   src/fe/src/App/Pages/User/func.js      getUser, getUserWithDevices    *)
(*   src/femanager/spa/src/App/Pages/Devices/func.js  getDevices           *)
(*   src/femanager/spa/src/App/Pages/Users/func.js    getUsers             *)
(*   src/femanager/spa/src/App/Pages/Server/func.js   getData, ipsetAdd,   *)
(*                                                    ipsetRemove          *)
(* Every one of them is a sequence of awaits, each on one Fetch or on      *)
(* Promise.all of several sent together; a rejection is passed on at once  *)
(* (return Promise.reject(err)), and after the last await the responses    *)
(* are reshaped into the result.  A function's stage table lists the calls *)
(* of each await in order.  The functions run against a server that        *)
(* another manager changes at any time, and a request whose response is   *)
(* lost may or may not have been handled by the server.                    *)
(***************************************************************************)
EXTENDS RpcApi, FiniteSets, Sequences

CONSTANTS
    Fns,            \* the functions a behaviour may run, one per behaviour
    Ips,            \* device addresses
    Users,          \* user uuids
    TheUser,        \* the uuid argument of getUser and getUserWithDevices
    MaxChanges,     \* bound on changes made by another manager
    Undef           \* JavaScript undefined

VARIABLES
    fn,             \* the function running
    arg,            \* its ip argument (ipsetAdd, ipsetRemove)
    stage,          \* index of the await it is at
    vpc,            \* "start" | "await" | "done"
    vout,           \* how the promise it returned settled
    users,          \* server: the existing users
    owner,          \* server: ip -> owning user, or None
    ipset,          \* server: the trusted IPs
    ipsetBefore,    \* history: ipset when the function was called
    changes,        \* changes made by another manager so far
    changedSince    \* history: another manager changed something since the call

serverVars == <<users, owner, ipset>>
fVars == <<rpcVars, fn, arg, stage, vpc, vout, serverVars, ipsetBefore,
           changes, changedSince>>

MethodOf(c) ==
    CASE c = "check"   -> "auth/session/check"
      [] c = "users"   -> "manager/users"
      [] c = "devices" -> "manager/devices"
      [] c = "user"    -> "manager/user"
      [] c = "device"  -> "manager/device"
      [] c = "cfg"     -> "manager/wg/cfg"
      [] c = "ipset"   -> "manager/trust/ipset"
      [] c = "add"     -> "manager/trust/ipset/add"
      [] c = "remove"  -> "manager/trust/ipset/remove"

-----------------------------------------------------------------------------
(* The stage tables *)

checkSessionStages == << {"check"} >>
getDeviceStages == << {"check"}, {"device"} >>
feGetUsersStages == << {"check"}, {"users"} >>
getUserStages == << {"check"}, {"user"} >>
getUsersStages == << {"check"}, {"users"} >>
getDevicesStages == << {"check"}, {"users", "devices"} >>
getUserWithDevicesStages == << {"check"}, {"user", "devices"} >>
getDataStages == << {"check"}, {"cfg", "ipset"} >>
\* Seeded fault: the re-read put in one Promise.all with the change.
ipsetAddStagesParallel == << {"add", "ipset"} >>

ipsetAddStages == << {"add"}, {"ipset"} >>
ipsetRemoveStages == << {"remove"}, {"ipset"} >>

Stages(f) ==
    CASE f = "checkSession" -> checkSessionStages
      [] f = "getDevice"    -> getDeviceStages
      [] f = "fe.getUsers"  -> feGetUsersStages
      [] f = "getUser"      -> getUserStages
      [] f = "getUserWithDevices" -> getUserWithDevicesStages
      [] f = "getUsers"     -> getUsersStages
      [] f = "getDevices"   -> getDevicesStages
      [] f = "getData"      -> getDataStages
      [] f = "ipsetAdd"     -> ipsetAddStages
      [] f = "ipsetRemove"  -> ipsetRemoveStages

\* Seeded fault: usersMap keyed by the wrong member, so no device finds its
\* user.
getDevicesResultWrongKey(us, ds) ==
    {[ip |-> i, username |-> Undef] : i \in DOMAIN ds}

\* getDevices, lines 21-46: the users are indexed by uuid and each device
\* gets the name of its user_uuid, undefined when that uuid is not in the
\* users list read alongside; the ip is the ipnetwork up to the '/'.
getDevicesResult(us, ds) ==
    {[ip |-> i, username |-> IF ds[i] \in us THEN ds[i] ELSE Undef] : i \in DOMAIN ds}

TypeError == [kind |-> "TypeError"]

\* Seeded fault: the empty-IP test of line 73 inverted.
DevicesMapInverted(devices) == {ip \in devices : ip = ""}

\* getUserWithDevices, lines 68-78: the IPs the devices list is indexed by
\* (ipnetwork up to the '/', an empty IP skipped).
DevicesMap(devices) == {ip \in devices : ip # ""}

\* Lines 80-87: every device of the user is looked up in that index, and a
\* missing one makes devicesMap[...]['ipnetwork'] throw.
getUserWithDevicesThrows(u, ds) == ~(u.devices \subseteq DevicesMap(DOMAIN ds))

\* Lines 88-105: the user's devices, each with its entry from the index.
getUserWithDevicesResult(u, ds) == [i \in u.devices |-> ds[i]]

\* What a function resolves with once its last await has resolved.  The
\* reshaping of the other functions renames fields of the last response.
Result(f) ==
    CASE f = "getDevices" -> getDevicesResult(fout["users"].value, fout["devices"].value)
      [] f = "getUserWithDevices" ->
             getUserWithDevicesResult(fout["user"].value, fout["devices"].value)
      [] f \in {"ipsetAdd", "ipsetRemove"} -> fout["ipset"].value
      [] OTHER -> "obj"

-----------------------------------------------------------------------------
(* The server and the network *)

Payload(c) ==
    CASE c = "users"   -> users
      [] c = "devices" -> [i \in {j \in Ips : owner[j] # None} |-> owner[i]]
      [] c = "user"    -> [devices |-> {i \in Ips : owner[i] = TheUser}]
      [] c = "ipset"   -> ipset
      [] OTHER         -> "obj"

\* The trust list after the server has handled call c.
Applied(c) ==
    CASE c = "add"    -> ipset \cup {arg}
      [] c = "remove" -> ipset \ {arg}
      [] OTHER        -> ipset

fnVars == <<fn, arg, stage, vpc, vout, ipsetBefore, changes, changedSince>>

ServerRespond(c) ==
    /\ FetchReceive(c, SuccessResponse(Payload(c)))
    /\ ipset' = Applied(c)
    /\ UNCHANGED <<users, owner, fnVars>>

\* The server refuses the call, or a proxy answers for it.
ServerFail(c) ==
    /\ \E r \in FailureResponses : FetchReceive(c, r)
    /\ UNCHANGED <<serverVars, fnVars>>

\* fetch() rejects: the request was lost on the way, or the server handled
\* it and its response was lost.
ResponseLost(c) ==
    /\ FetchNetworkError(c)
    /\ ipset' \in {ipset, Applied(c)}
    /\ UNCHANGED <<users, owner, fnVars>>

BodyParsed(c) ==
    /\ FetchSettle(c)
    /\ UNCHANGED <<serverVars, fnVars>>

\* Another manager creates or deletes a user (with the user's devices),
\* adds or removes a device, or changes the trust list.
OtherManager ==
    /\ changes < MaxChanges
    /\ \/ \E u \in Users \ users :
              users' = users \cup {u} /\ UNCHANGED <<owner, ipset>>
       \/ \E u \in users :
              /\ users' = users \ {u}
              /\ owner' = [i \in Ips |-> IF owner[i] = u THEN None ELSE owner[i]]
              /\ UNCHANGED ipset
       \/ \E i \in Ips, u \in users :
              owner[i] = None /\ owner' = [owner EXCEPT ![i] = u]
              /\ UNCHANGED <<users, ipset>>
       \/ \E i \in Ips :
              owner[i] # None /\ owner' = [owner EXCEPT ![i] = None]
              /\ UNCHANGED <<users, ipset>>
       \/ \E i \in Ips :
              ipset' = (ipset \ {i}) \cup ({i} \ ipset) /\ UNCHANGED <<users, owner>>
    /\ changes' = changes + 1
    /\ changedSince' = (changedSince \/ vpc # "start")
    /\ UNCHANGED <<rpcVars, fn, arg, stage, vpc, vout, ipsetBefore>>

-----------------------------------------------------------------------------
(* The function *)

\* Seeded fault: Promise.all given one call fewer than it should await.
SendAllButOne(S) ==
    LET sent == IF Cardinality(S) > 1 THEN S \ {CHOOSE c \in S : TRUE} ELSE S IN
    /\ \A c \in S : fpc[c] = "idle"
    /\ fpc' = [c \in Calls |-> IF c \in sent THEN "sent" ELSE fpc[c]]
    /\ method' = [c \in Calls |-> IF c \in sent THEN MethodOf(c) ELSE method[c]]
    /\ UNCHANGED <<fresp, fout>>

\* client.Fetch(...) for every call of an await; with Promise.all all of
\* them are sent before the function suspends.
SendAll(S) ==
    /\ \A c \in S : fpc[c] = "idle"
    /\ fpc' = [c \in Calls |-> IF c \in S THEN "sent" ELSE fpc[c]]
    /\ method' = [c \in Calls |-> IF c \in S THEN MethodOf(c) ELSE method[c]]
    /\ UNCHANGED <<fresp, fout>>

\* The function is called and sends the calls of its first await.
Start ==
    /\ vpc = "start"
    /\ SendAll(Stages(fn)[1])
    /\ stage' = 1
    /\ vpc' = "await"
    /\ ipsetBefore' = ipset
    /\ UNCHANGED <<fn, arg, vout, serverVars, changes, changedSince>>

\* An awaited call rejected: the catch block returns Promise.reject(err)
\* (Promise.all rejects without waiting for the other call).
StageRejected ==
    /\ vpc = "await"
    /\ \E c \in Stages(fn)[stage] :
           fpc[c] = "settled" /\ IsRejection(fout[c]) /\ vout' = fout[c]
    /\ vpc' = "done"
    /\ UNCHANGED <<rpcVars, fn, arg, stage, serverVars, ipsetBefore, changes, changedSince>>

AllResolved == \A c \in Stages(fn)[stage] : fpc[c] = "settled" /\ ~IsRejection(fout[c])

\* Every call of the await resolved, and the next await's calls are sent.
NextStage ==
    /\ vpc = "await"
    /\ AllResolved
    /\ stage < Len(Stages(fn))
    /\ SendAll(Stages(fn)[stage + 1])
    /\ stage' = stage + 1
    /\ UNCHANGED <<fn, arg, vpc, vout, serverVars, ipsetBefore, changes, changedSince>>

\* The last await resolved: the responses are reshaped and returned, unless
\* the reshaping of getUserWithDevices throws.
Finish ==
    /\ vpc = "await"
    /\ AllResolved
    /\ stage = Len(Stages(fn))
    /\ vout' = IF fn = "getUserWithDevices"
                  /\ getUserWithDevicesThrows(fout["user"].value, fout["devices"].value)
               THEN TypeError ELSE Resolved(Result(fn))
    /\ vpc' = "done"
    /\ UNCHANGED <<rpcVars, fn, arg, stage, serverVars, ipsetBefore, changes, changedSince>>

-----------------------------------------------------------------------------
FInit ==
    /\ RpcInit
    /\ fn \in Fns
    /\ arg \in Ips
    /\ stage = 0
    /\ vpc = "start"
    /\ vout = None
    /\ users \in SUBSET Users
    /\ owner \in [Ips -> users \cup {None}]
    /\ ipset \in SUBSET Ips
    /\ ipsetBefore = ipset
    /\ changes = 0
    /\ changedSince = FALSE

Network(c) == ServerRespond(c) \/ ServerFail(c) \/ ResponseLost(c) \/ BodyParsed(c)

Step == Start \/ StageRejected \/ NextStage \/ Finish

FNext ==
    \/ Step
    \/ \E c \in Calls : Network(c)
    \/ OtherManager

\* No fairness: RPCApi.Fetch sets no timeout and no caller aborts, so a
\* request the server never answers leaves its function waiting for good.
FSpec == FInit /\ [][FNext]_fVars

-----------------------------------------------------------------------------
FTypeOK ==
    /\ vpc \in {"start", "await", "done"}
    /\ stage \in 0..Len(Stages(fn))
    /\ owner \in [Ips -> users \cup {None}]
    /\ ipset \subseteq Ips
    /\ changes \in 0..MaxChanges
    /\ vpc = "await" => \A c \in Stages(fn)[stage] : fpc[c] # "idle"

\* ipsetAdd and ipsetRemove re-read the trust list only after the change
\* has been answered (Server/func.js lines 34 and 41): unless another
\* manager changed the list meanwhile, the list they resolve with holds the
\* IP after an add and lacks it after a remove.
MutationVisible ==
    (fn \in {"ipsetAdd", "ipsetRemove"} /\ vpc = "done" /\ ~IsRejection(vout)
     /\ ~changedSince)
        => ((arg \in vout.value) <=> (fn = "ipsetAdd"))

\* getDevices names every device's user (Devices/func.js line 27) unless
\* another manager created or deleted a user or device while the users and
\* devices lists were being read.
DevicesNamedWhenStable ==
    (fn = "getDevices" /\ vpc = "done" /\ ~IsRejection(vout) /\ ~changedSince)
        => \A d \in vout.value : d.username # Undef

\* If no other manager changes the devices while it runs,
\* getUserWithDevices never throws: the user's devices are always found in
\* the devices list read alongside (User/func.js line 83).
NoTypeErrorWhenStable == vout = TypeError => changedSince

\* The page's data load never fails with a TypeError.
NoTypeError == vout # TypeError
==============================================================================
