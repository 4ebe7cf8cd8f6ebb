----------------------------- MODULE KcmServer ------------------------------
(***************************************************************************)
(* One connection of internal/server/server.go, byte for byte: handleConn, *)
(* dispatch and handle between a KCM client that speaks MIT's protocol and *)
(* the Client, whose methods answer anything they may answer.  A request   *)
(* may arrive in pieces, be cut short inside its frame, or never be        *)
(* completed; the client may send the next one before it has the reply.    *)
(***************************************************************************)
EXTENDS KcmProto

CONSTANTS
    Requests,       \* [op, cut] and, of the ones that have a parameter, uuids,
                    \* cred, principal, match or offset; cut bytes are missing
                    \* at the end of the body
    Huge,           \* a request that announces more than maxMessage bytes
    Results,        \* of each Client method: the [code, value] it may return
    CacheName,      \* s.cacheName
    CacheUUID,      \* s.cacheUUID
    CCNotFound,     \* status codes, as naturals other than 0
    CCNoSupp,
    Chunk,          \* bytes a write of the client may be split after
    MaxRequests     \* bound on the requests of the connection

ASSUME ServerAssumption ==
    /\ 0 \notin {CCNotFound, CCNoSupp}
    /\ Chunk \in Nat \ {0}
    /\ MaxRequests \in Nat

VARIABLES
    pending, up,    \* what the client still has to write; what the server has to read
    down,           \* what the client has to read
    connected,      \* has the client not hung up?
    at,             \* handleConn: "read", "call", "write" or "closed"
    call,           \* the Client call dispatch is in
    op,             \* the opcode it is about
    out,            \* what WriteReply has still to write, a sequence of writes
    served,         \* how many messages have been read
    sent, got,      \* history: the requests sent, the replies received
    calls, results  \* history: for each message read, the Client calls made, and
                    \* what they returned

streams == <<pending, up, down, connected>>
history == <<sent, got, calls, results>>
vars == <<streams, at, call, op, out, served, history>>

-----------------------------------------------------------------------------
(* The client: MIT's cc_kcm.c and ccmarshal.c.                             *)

\* The requests whose first parameter is not the cache's name.
nameless == {OpNoop, OpGetName, OpGenNew, OpGetCacheUUIDList, OpGetCacheByUUID, OpGetDefaultCache}

bit(x, b) == IF x = Nil THEN 0 ELSE 2^b

putOptional(x, Put(_)) == IF x = Nil THEN <<>> ELSE Put(x)

putKey(k) == PutUint16(k[1]) \o PutData(k[2])

putList(l) ==
    PutUint32(Len(l)) \o FlattenSeq([i \in DOMAIN l |-> PutUint16(l[i][1]) \o PutData(l[i][2])])

\* k5_marshal_mcred.
MarshalMatchCredential(mc) ==
    PutUint32(  bit(mc.client, 0) + bit(mc.server, 1) + bit(mc.key, 2) + bit(mc.ticket, 3)
              + bit(mc.second, 4) + bit(mc.authdata, 5) + bit(mc.addrs, 6))
    \o putOptional(mc.client, MarshalPrincipal)
    \o putOptional(mc.server, MarshalPrincipal)
    \o putOptional(mc.key, putKey)
    \o FlattenSeq([i \in 1..4 |-> PutUint32(mc.times[i])])
    \o <<IF mc.isSKey THEN 1 ELSE 0>>
    \o PutUint32(mc.flags)
    \o putOptional(mc.addrs, putList)
    \o putOptional(mc.authdata, putList)
    \o putOptional(mc.ticket, PutData)
    \o putOptional(mc.second, PutData)

params(r) ==
    CASE r.op \in {OpGetCredByUUID, OpGetCacheByUUID} -> PutUUIDList(r.uuids)
      [] r.op = OpStore -> r.cred
      [] r.op = OpInitialize -> MarshalPrincipal(r.principal)
      [] r.op \in {OpRetrieve, OpRemoveCred} -> PutUint32(0) \o MarshalMatchCredential(r.match)
      [] r.op = OpSetKDCOffset -> PutUint32(r.offset)
      [] OTHER -> <<>>

wholeBody(r) ==
    <<2, 0>> \o PutUint16(r.op)
    \o (IF r.op \in nameless THEN <<>> ELSE PutCName(CacheName))
    \o params(r)

body(r) == LET b == wholeBody(r) IN SubSeq(b, 1, Len(b) - r.cut)

message(r) ==
    IF r = Huge THEN PutUint32(maxMessage + 1) ELSE WriteMessage(body(r))

\* kcmio_unix_socket_read: a length, the transport's status, and, unless that
\* is an error, so many bytes; kcmio_call takes the first four as the status.
readReply(b) ==
    LET n == ReadUint32(b)
        transport == ReadUint32(n.rest)
        status == ReadUint32(SubSeq(transport.rest, 1, n.v))
    IN  CASE transport.rest = Truncated -> [is |-> "more"]
          [] transport.rest # Truncated /\ transport.v # 0 ->
                [is |-> "reply", code |-> transport.v, payload |-> <<>>, rest |-> transport.rest]
          [] OTHER -> IF Len(transport.rest) < n.v THEN [is |-> "more"]
                      ELSE [is |-> "reply", code |-> status.v, payload |-> status.rest,
                            rest |-> Drop(transport.rest, n.v)]

\* What the caller of a request makes of the payload of a good reply.
credList(payload) ==
    LET n == ReadUint32(payload) IN ReadStrings(n.v, n.rest).v

meaning(o, payload) ==
    CASE o \in {OpGenNew, OpGetDefaultCache, OpGetCacheByUUID} -> SplitCName(payload).v
      [] o \in {OpGetCacheUUIDList, OpGetCredUUIDList} -> ReadUUIDList(payload)
      [] o = OpGetPrincipal -> UnmarshalPrincipal(payload).v
      [] o = OpGetCredList -> credList(payload)
      [] o \in {OpRetrieve, OpGetCredByUUID} -> payload
      [] o = OpGetKDCOffset -> ReadUint32(payload).v
      [] OTHER -> Nil

-----------------------------------------------------------------------------
(* The server.                                                             *)

Reply(code, payload) == [is |-> "write", out |-> WriteReply(code, payload)]

Call(m, arg) == [is |-> "call", m |-> m, arg |-> arg]

\* handle, as far as the reply or the first call of a Client method.
handle(o, rest) ==
    CASE o \in {OpNoop, OpSetDefaultCache, OpSetKDCOffset} -> Reply(0, <<>>)
      [] o \in {OpGenNew, OpGetDefaultCache} -> Reply(0, PutCName(CacheName))
      [] o = OpGetCacheUUIDList -> Reply(0, PutUUIDList(<<CacheUUID>>))
      [] o = OpGetCacheByUUID ->
            IF ReadUUIDList(rest) = <<CacheUUID>> THEN Reply(0, PutCName(CacheName))
            ELSE Reply(CCNotFound, <<>>)
      [] o \in {OpGetPrincipal, OpDestroy} -> Call("DefaultPrincipal", Nil)
      [] o \in {OpGetCredUUIDList, OpGetCredList} -> Call("ListEntries", Nil)
      [] o = OpGetCredByUUID ->
            LET uuids == ReadUUIDList(rest)
            IN  IF uuids = Truncated \/ Len(uuids) # 1 THEN Reply(CCNotFound, <<>>)
                ELSE Call("EntryByUUID", uuids[1])
      [] o \in {OpRetrieve, OpRemoveCred} ->
            LET mc == UnmarshalMatchCredential(Drop(rest, 4))
            IN  IF Len(rest) < 4 \/ mc.rest = Truncated THEN Reply(CCNoSupp, <<>>)
                ELSE Call(IF o = OpRetrieve THEN "Retrieve" ELSE "RemoveMatching", mc.v)
      [] o = OpStore -> Call("Store", rest)
      [] o = OpInitialize ->
            LET p == UnmarshalPrincipal(rest)
            IN  IF p.rest = Truncated THEN Reply(CCNoSupp, <<>>) ELSE Call("Initialize", p.v)
      [] o = OpGetKDCOffset -> Reply(0, PutUint32(0))

dispatch(b) ==
    LET header == ParseRequestHeader(b)
        cname == IF HasLeadingName(header.v) THEN SplitCName(header.rest)
                 ELSE [v |-> Nil, rest |-> header.rest]
    IN  IF header.rest = Truncated \/ cname.rest = Truncated \/ ~Supported(header.v)
        THEN Reply(CCNoSupp, <<>>)
        ELSE handle(header.v, cname.rest)

\* errorCode: an error that is not libkrb5's has no code of its own.
errorCode(res) == IF res.code = Nil THEN CCNoSupp ELSE res.code

payloadOf(o, value) ==
    CASE o = OpGetPrincipal -> MarshalPrincipal(value)
      [] o = OpGetCredUUIDList -> PutUUIDList([i \in DOMAIN value |-> value[i].uuid])
      [] o = OpGetCredList ->
            PutUint32(Len(value)) \o FlattenSeq([i \in DOMAIN value |-> PutData(value[i].wire)])
      [] o = OpGetCredByUUID -> value.wire
      [] o = OpRetrieve -> value
      [] OTHER -> <<>>

\* handle, once a Client method has returned: DESTROY goes on to Initialize
\* and reports no error of either; EntryByUUID may find nothing.
resume(o, m, res) ==
    CASE o = OpDestroy -> IF m = "DefaultPrincipal" /\ res.code = 0 THEN Call("Initialize", res.value)
                          ELSE Reply(0, <<>>)
      [] o # OpDestroy /\ res.code # 0 -> Reply(errorCode(res), <<>>)
      [] o = OpGetCredByUUID /\ res.code = 0 /\ res.value = Nil -> Reply(CCNotFound, <<>>)
      [] OTHER -> Reply(0, payloadOf(o, res.value))

-----------------------------------------------------------------------------

Init ==
    /\ pending = <<>> /\ up = <<>> /\ down = <<>>
    /\ connected = TRUE
    /\ at = "read"
    /\ call = Nil
    /\ op = Nil
    /\ out = <<>>
    /\ served = 0
    /\ sent = <<>> /\ got = <<>> /\ calls = <<>> /\ results = <<>>

server == <<at, call, op, out, served, calls, results>>

Send(r) ==
    /\ connected
    /\ Len(sent) < MaxRequests
    /\ sent' = Append(sent, r)
    /\ pending' = pending \o message(r)
    /\ UNCHANGED <<up, down, connected, server, got>>

Transfer ==
    /\ connected
    /\ \E n \in {Chunk, Len(pending)} :
          /\ n \in 1..Len(pending)
          /\ up' = up \o SubSeq(pending, 1, n)
          /\ pending' = Drop(pending, n)
    /\ UNCHANGED <<down, connected, server, sent, got>>

\* At any time, with a request half written or a reply half read.
HangUp ==
    /\ connected
    /\ connected' = FALSE
    /\ pending' = <<>>
    /\ down' = <<>>
    /\ UNCHANGED <<up, server, sent, got>>

Receive ==
    LET r == readReply(down)
    IN  /\ connected
        /\ Len(got) < Len(sent)
        /\ r.is = "reply"
        /\ down' = r.rest
        /\ got' = Append(got, [code |-> r.code,
                               value |-> IF r.code = 0 THEN meaning(sent[Len(got) + 1].op, r.payload)
                                         ELSE Nil,
                               empty |-> r.payload = <<>>])
        /\ UNCHANGED <<pending, up, connected, server, sent>>

\* Go on with what handle or resume gives; made is the calls so far.
proceed(x, made) ==
    /\ at' = x.is
    /\ call' = IF x.is = "call" THEN x ELSE Nil
    /\ out' = IF x.is = "write" THEN x.out ELSE <<>>
    /\ calls' = IF x.is = "call" THEN [made EXCEPT ![served'] = Append(@, [m |-> x.m, arg |-> x.arg])]
                ELSE made

Read ==
    LET m == ReadMessage(up)
    IN  /\ at = "read"
        /\ m.is = "message"
        /\ up' = m.rest
        /\ served' = served + 1
        /\ op' = ParseRequestHeader(m.body).v
        /\ results' = Append(results, <<>>)
        /\ \E x \in {dispatch(m.body)} : proceed(x, Append(calls, <<>>))
        /\ UNCHANGED <<pending, down, connected, sent, got>>

\* The client is gone and what it has left is not a message, or the frame is
\* too long.
ReadFails ==
    LET m == ReadMessage(up)
    IN  /\ at = "read"
        /\ m.is = "error" \/ (m.is = "more" /\ ~connected)
        /\ at' = "closed"
        /\ UNCHANGED <<streams, call, op, out, served, history>>

ClientReturns ==
    /\ at = "call"
    /\ \E res \in Results[call.m] :
          /\ results' = [results EXCEPT ![served] = Append(@, res)]
          /\ served' = served
          /\ \E x \in {resume(op, call.m, res)} : proceed(x, calls)
    /\ UNCHANGED <<streams, op, sent, got>>

WriteNext ==
    /\ at = "write"
    /\ out # <<>>
    /\ connected
    /\ down' = down \o Head(out)
    /\ out' = Tail(out)
    /\ at' = IF Tail(out) = <<>> THEN "read" ELSE "write"
    /\ UNCHANGED <<pending, up, connected, call, op, served, history>>

WriteFails ==
    /\ at = "write"
    /\ ~connected
    /\ at' = "closed"
    /\ out' = <<>>
    /\ UNCHANGED <<streams, call, op, served, history>>

ServerStep == Read \/ ReadFails \/ ClientReturns \/ WriteNext \/ WriteFails

Next ==
    \/ \E r \in Requests \cup {Huge} : Send(r)
    \/ Transfer \/ HangUp \/ Receive
    \/ ServerStep

Spec == Init /\ [][Next]_vars

-----------------------------------------------------------------------------
(* Properties.                                                             *)

\* What a request is about, to the client that sends it: a method of the
\* Client, and what it is to be called with.
methodOf(o) ==
    CASE o \in {OpGetPrincipal, OpDestroy} -> "DefaultPrincipal"
      [] o \in {OpGetCredUUIDList, OpGetCredList} -> "ListEntries"
      [] o = OpGetCredByUUID -> "EntryByUUID"
      [] o = OpRetrieve -> "Retrieve"
      [] o = OpRemoveCred -> "RemoveMatching"
      [] o = OpStore -> "Store"
      [] o = OpInitialize -> "Initialize"
      [] OTHER -> Nil

argOf(r) ==
    CASE r.op = OpGetCredByUUID -> r.uuids[1]
      [] r.op = OpStore -> SubSeq(r.cred, 1, Len(r.cred) - r.cut)
      [] r.op \in {OpRetrieve, OpRemoveCred} ->
            [f \in DOMAIN r.match \ {"addrs", "authdata"} |-> r.match[f]]
      [] r.op = OpInitialize -> r.principal
      [] OTHER -> Nil

\* The calls a request asks for, given what they have returned so far.  One
\* that is cut short asks for none; but STORE's credential is opaque to the
\* server, and it is for the Client to refuse it.
asksForNone(r) ==
    \/ r = Huge
    \/ methodOf(r.op) = Nil
    \/ r.cut > 0 /\ r.op # OpStore
    \/ r.op = OpGetCredByUUID /\ Len(r.uuids) # 1

asked(r, rs) ==
    IF asksForNone(r) THEN <<>>
    ELSE <<[m |-> methodOf(r.op), arg |-> argOf(r)]>> \o
         (IF r.op = OpDestroy /\ rs # <<>> /\ rs[1].code = 0
          THEN <<[m |-> "Initialize", arg |-> rs[1].value]>> ELSE <<>>)

\* However the bytes arrive, and wherever they stop: for every request that
\* was sent whole the server calls what it asks for, with the values its
\* client has put into it, once and in its order, and for one that is cut
\* short, or never completed, nothing.  handleConn, dispatch and handle, with
\* UnmarshalMatchCredential and UnmarshalPrincipal, which have to find every
\* field after a number of optional ones.
ExecutedAsSent ==
    /\ Len(calls) <= Len(sent)
    /\ \A i \in DOMAIN calls : calls[i] = asked(sent[i], results[i])

\* What the client is to make of the reply to a request sent whole.
shown(o, value) ==
    CASE o \in {OpGetPrincipal, OpRetrieve} -> value
      [] o = OpGetCredUUIDList -> [k \in DOMAIN value |-> value[k].uuid]
      [] o = OpGetCredList -> [k \in DOMAIN value |-> value[k].wire]
      [] o = OpGetCredByUUID -> value.wire
      [] OTHER -> Nil

answer(r, rs) ==
    LET Good(v) == [code |-> 0, value |-> v]
        Bad(c) == [code |-> c, value |-> Nil]
    IN  CASE r.op \in {OpNoop, OpDestroy, OpSetDefaultCache, OpSetKDCOffset} -> Good(Nil)
          [] r.op \in {OpGenNew, OpGetDefaultCache} -> Good(CacheName)
          [] r.op = OpGetCacheUUIDList -> Good(<<CacheUUID>>)
          [] r.op = OpGetCacheByUUID -> IF r.uuids = <<CacheUUID>> THEN Good(CacheName) ELSE Bad(CCNotFound)
          [] r.op = OpGetKDCOffset -> Good(0)
          [] r.op = OpGetCredByUUID /\ (rs = <<>> \/ rs = <<[code |-> 0, value |-> Nil]>>) -> Bad(CCNotFound)
          [] methodOf(r.op) = Nil /\ ~Supported(r.op) -> Bad(CCNoSupp)
          [] OTHER -> IF rs[1].code = 0 THEN Good(shown(r.op, rs[1].value)) ELSE Bad(errorCode(rs[1]))

\* Replies come in the order of the requests, and what a client decodes from
\* its reply is the status and the value the Client returned for its own
\* request, with no byte of a neighbour's; a request cut short gets a status
\* and nothing else.  The framing of WriteReply and the encoders of handle.
RepliesAsGiven ==
    \A i \in DOMAIN got :
        IF sent[i].cut > 0 THEN got[i].empty
        ELSE [code |-> got[i].code, value |-> got[i].value] = answer(sent[i], results[i])

\* Neither side waits for bytes that will not come: when the client has
\* written everything and there is nothing complete to read in either
\* direction, every request has its reply and no byte is left over.  (Every
\* step of either side brings a request further, so this is what makes a
\* client that stays get all of its replies.)
NoReplyMissing ==
    ( /\ connected /\ at = "read" /\ pending = <<>>
      /\ ReadMessage(up).is = "more" /\ readReply(down).is = "more" )
    => Len(got) = Len(sent) /\ up = <<>> /\ down = <<>>

-----------------------------------------------------------------------------
(* What the theorems suppose of the constants.  Only the lists of the wire *)
(* format remain to be supposed, one value at a time: that a list, or what *)
(* contains one, is decoded to what was encoded, and not at all when it is *)
(* cut short.                                                              *)

Methods == {"DefaultPrincipal", "ListEntries", "EntryByUUID", "Retrieve",
            "RemoveMatching", "Store", "Initialize"}

\* The parameters of a request that is cut short within them.
givenParams(r) == LET b == params(r) IN SubSeq(b, 1, Len(b) - r.cut)

\* Short enough to be sent; of STORE only the credential may be cut.
Sendable(r) ==
    /\ r.op \in Short
    /\ params(r) \in Bytes
    /\ Len(wholeBody(r)) <= maxMessage
    /\ r.cut \in 0..Len(wholeBody(r))
    /\ r.op = OpStore => r.cut <= Len(r.cred)

UUIDsDecoded(r) ==
    LET us == ReadUUIDList(givenParams(r))
    IN  IF r.cut = 0 THEN us = r.uuids /\ us \in Seq(Bytes) ELSE us = Truncated \/ Len(us) # 1

MatchDecoded(r) ==
    LET mc == UnmarshalMatchCredential(Drop(givenParams(r), 4))
    IN  IF r.cut = 0 THEN mc = [v |-> argOf(r), rest |-> <<>>] ELSE mc.rest = Truncated

PrincipalDecoded(r) ==
    LET p == UnmarshalPrincipal(givenParams(r))
    IN  IF r.cut = 0 THEN p = [v |-> argOf(r), rest |-> <<>>] ELSE p.rest = Truncated

ParamsDecoded(r) ==
    r.cut <= Len(params(r)) =>
        /\ r.op \in {OpGetCredByUUID, OpGetCacheByUUID} => UUIDsDecoded(r)
        /\ r.op \in {OpRetrieve, OpRemoveCred} => MatchDecoded(r)
        /\ r.op = OpInitialize => PrincipalDecoded(r)

\* The payload of a good reply has room in it, and means what it is to show.
ValueDecoded(o, value) ==
    /\ payloadOf(o, value) \in Bytes
    /\ 4 + Len(payloadOf(o, value)) \in Word
    /\ meaning(o, payloadOf(o, value)) = shown(o, value)

ResultsDecoded ==
    \A m \in Methods : \A res \in Results[m] :
        /\ res = [code |-> res.code, value |-> res.value]
        /\ errorCode(res) \in Word
        /\ res.code = 0 => \A o \in {OpGetPrincipal, OpGetCredUUIDList, OpGetCredList,
                                     OpGetCredByUUID, OpRetrieve} :
              methodOf(o) = m => (o = OpGetCredByUUID /\ res.value = Nil) \/ ValueDecoded(o, res.value)

NamesDecoded ==
    /\ CacheName \in Seq(Byte \ {0})
    /\ 5 + Len(CacheName) \in Word
    /\ PutUUIDList(<<CacheUUID>>) \in Bytes
    /\ 4 + Len(PutUUIDList(<<CacheUUID>>)) \in Word
    /\ ReadUUIDList(PutUUIDList(<<CacheUUID>>)) = <<CacheUUID>>
    /\ CacheUUID \in Bytes

ListsDecoded ==
    /\ Truncated \notin Bytes \cup Seq(Bytes)
    /\ Nil \notin Methods
    /\ Huge \notin Requests
    /\ CCNotFound \in Word /\ CCNoSupp \in Word
    /\ \A r \in Requests : Sendable(r) /\ ParamsDecoded(r)
    /\ ResultsDecoded
    /\ NamesDecoded

=============================================================================
