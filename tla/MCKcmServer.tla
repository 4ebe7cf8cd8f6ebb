---------------------------- MODULE MCKcmServer -----------------------------
(* Small byte strings for KcmServer: one request per kind of handler, match *)
(* credentials with none and with all of the optional fields.               *)
EXTENDS KcmServer

CONSTANT Cuts   \* how many bytes a request cut short is missing

uuid(x) == [i \in 1..16 |-> x + i]

MCCacheName == <<49>>
MCCacheUUID == uuid(0)

user == [type |-> 1, realm |-> <<82>>, comps |-> <<<<117>>>>]
service == [type |-> 3, realm |-> <<>>, comps |-> <<<<72, 84>>, <<>>>>]

bare == [client |-> Nil, server |-> Nil, key |-> Nil, times |-> <<0, 0, 0, 0>>,
         isSKey |-> FALSE, flags |-> 0, addrs |-> Nil, authdata |-> Nil,
         ticket |-> Nil, second |-> Nil]

typical == [bare EXCEPT !.client = user, !.server = service]

full == [typical EXCEPT !.key = <<18, <<7, 8>>>>, !.times = <<0, 1, 256, 65536>>,
            !.isSKey = TRUE, !.flags = 5,
            !.addrs = <<<<2, <<1>>>>, <<2, <<>>>>>>, !.authdata = <<<<1, <<9>>>>>>,
            !.ticket = <<4, 5, 6>>, !.second = <<3>>]

Plain(o) == [op |-> o, cut |-> 0]

Whole ==
    {Plain(o) : o \in {OpNoop, OpGetName, OpReplace, OpGenNew, OpGetDefaultCache,
                       OpSetDefaultCache, OpGetCacheUUIDList, OpGetKDCOffset,
                       OpGetPrincipal, OpDestroy, OpGetCredUUIDList, OpGetCredList}}
    \cup {[op |-> OpRetrieve, cut |-> 0, match |-> mc] : mc \in {typical, full}}
    \cup {[op |-> OpRemoveCred, cut |-> 0, match |-> mc] : mc \in {bare, full}}
    \cup {[op |-> OpGetCacheByUUID, cut |-> 0, uuids |-> <<u>>] : u \in {uuid(0), uuid(1)}}
    \cup {[op |-> OpGetCredByUUID, cut |-> 0, uuids |-> us] :
              us \in {<<uuid(1)>>, <<uuid(1), uuid(2)>>}}
    \cup {[op |-> OpStore, cut |-> 0, cred |-> <<1, 2, 3, 0, 5>>],
          [op |-> OpInitialize, cut |-> 0, principal |-> user],
          [op |-> OpSetKDCOffset, cut |-> 0, offset |-> 1]}

MCRequests == Whole \cup {[r EXCEPT !.cut = n] : r \in Whole, n \in Cuts}

Ok(v) == [code |-> 0, value |-> v]
Other == [code |-> Nil, value |-> Nil]
Krb == [code |-> 3, value |-> Nil]

entry(x) == [uuid |-> uuid(x), wire |-> <<x, 0, 0>>]

MCResults ==
    [m \in {"DefaultPrincipal", "ListEntries", "EntryByUUID", "Retrieve",
            "RemoveMatching", "Store", "Initialize"} |->
        CASE m = "DefaultPrincipal" -> {Ok(user), Krb}
          [] m = "ListEntries" -> {Ok(<<>>), Ok(<<entry(1), entry(2)>>), Other}
          [] m = "EntryByUUID" -> {Ok(entry(1)), Ok(Nil), Krb}
          [] m = "Retrieve" -> {Ok(<<8, 0, 0, 0, 1>>), Krb, Other}
          [] OTHER -> {Ok(Nil), Other}]

\* Wherever a request of these is cut, it makes no Client call, or it is STORE.
ASSUME CutAnywhere ==
    \A r \in Whole : \A n \in 0..Len(wholeBody(r)) - 1 :
        dispatch(SubSeq(wholeBody(r), 1, n)).is = "call" =>
            r.op \in {OpStore} \/ (r.op = OpGetCredByUUID /\ Len(r.uuids) > 1)

\* What the theorems about the server suppose.
ASSUME Supposed == ListsDecoded

=============================================================================
