-------------------------------- MODULE MCApp --------------------------------
(* The route table of src/fe/src/App/state/routes.js, checked.             *)
EXTENDS AppRouter

\* Literal segments of the table and of the paths the pages navigate to;
\* "v1" and "v2" stand for uuids and IPs, which are never one of the
\* table's literals.
S(s) == Lit(s)
P(x) == Seg("", x)

MCRouteTable ==
    << [path |-> <<S("")>>,                    name |-> "server"],
       [path |-> <<S("users")>>,               name |-> "users"],
       [path |-> <<S("user"), P("uuid")>>,     name |-> "user"],
       [path |-> <<S("user"), S("create")>>,   name |-> "user_create"],
       [path |-> <<S("user"), P("uuid"), S("edit")>>, name |-> "user_edit"],
       [path |-> <<S("devices")>>,             name |-> "devices"],
       [path |-> <<S("device"), P("ip")>>,     name |-> "device"],
       [path |-> <<S("device"), S("create")>>, name |-> "device_create"],
       [path |-> <<S("device"), P("ip"), S("edit")>>, name |-> "device_edit"],
       [path |-> <<S("signin")>>,              name |-> "signin"] >>

MCNameInputs == {MCRouteTable[i].name : i \in 1..Len(MCRouteTable)} \cup {"nosuch"}

MCPatternInputs == {MCRouteTable[i].path : i \in 1..Len(MCRouteTable)}

AppSegments == {S(s) : s \in {"", "users", "user", "create", "edit", "devices",
                              "device", "signin", "v1", "constructor"}}

\* Every path of one to three segments over the table's literals and a
\* value, and the paths one segment longer than a route that ends in a
\* literal.
MCCheckPaths ==
    UNION {[1..k -> AppSegments] : k \in 1..3}
    \cup {<<S(d), S("v1"), S("edit"), S("v1")>> : d \in {"user", "device"}}

MCPathInputs ==
    {[parts |-> <<S("user"), S("v1")>>, query |-> "x=1"],
     [parts |-> <<S("user"), S("v1")>>, query |-> NoQuery],
     [parts |-> <<S("user"), S("create")>>, query |-> NoQuery],
     [parts |-> <<S("device"), S("v1"), S("edit")>>, query |-> NoQuery],
     [parts |-> <<S("devices")>>, query |-> NoQuery],
     [parts |-> <<S("nosuch")>>, query |-> NoQuery],
     [parts |-> <<S("constructor"), S("v1")>>, query |-> NoQuery],
     [parts |-> <<S("user"), S("v1"), S("nosuch")>>, query |-> NoQuery],
     [parts |-> <<S("user"), S("v1"), S("edit"), S("v1")>>, query |-> NoQuery]}

MCParamInputs == [{"uuid", "ip"} -> {S("v1"), S("v2"), Undef}]

MCQueryInputs == {NoQuery, "qs", "obj"}
MCSearchParams == {"qs"}
==============================================================================
