------------------------------ MODULE KcmProto ------------------------------
(***************************************************************************)
(* internal/kcmproto: the wire format, as functions on byte strings        *)
(* (sequences over 0..255), with the widths of the code.                   *)
(*                                                                         *)
(* A decoder takes what is left of a message and gives [v |-> the value,   *)
(* rest |-> what is left].  When it fails rest is Truncated, and decoding  *)
(* on from Truncated fails too, as the code's early returns make it.       *)
(***************************************************************************)
EXTENDS Naturals, SequencesExt

CONSTANTS Truncated, Nil

Byte == 0..255
Bytes == Seq(Byte)

\* The numbers that two and four bytes hold.
Short == {v \in Nat : v \div 256 < 256}
Word == {v \in Nat : v \div 65536 < 65536}

Drop(b, n) == SubSeq(b, n + 1, Len(b))

Failed == [v |-> Nil, rest |-> Truncated]

-----------------------------------------------------------------------------
(* wire.go                                                                 *)

PutUint16(v) == <<(v \div 256) % 256, v % 256>>

PutUint32(v) == PutUint16(v \div 65536) \o PutUint16(v)

readUint16(b) ==
    IF b = Truncated \/ Len(b) < 2 THEN Failed
    ELSE [v |-> 256 * b[1] + b[2], rest |-> Drop(b, 2)]

ReadUint32(b) ==
    IF b = Truncated \/ Len(b) < 4 THEN Failed
    ELSE [v |-> 256 * (256 * (256 * b[1] + b[2]) + b[3]) + b[4], rest |-> Drop(b, 4)]

maxMessage == 1024 * 1024

WriteMessage(body) == PutUint32(Len(body)) \o body

readOnce(b) ==
    LET n == ReadUint32(b)
        got == IF Len(n.rest) < n.v THEN Len(n.rest) ELSE n.v
    IN  CASE n.rest = Truncated -> [is |-> "more"]
          [] n.rest # Truncated /\ n.v > maxMessage -> [is |-> "error"]
          [] OTHER -> [is |-> "message", body |-> SubSeq(n.rest, 1, got), rest |-> Drop(n.rest, got)]

\* ReadMessage on what has arrived: "more" is a read that still waits.
ReadMessage(b) ==
    LET n == ReadUint32(b)
    IN  CASE n.rest = Truncated -> [is |-> "more"]
          [] n.rest # Truncated /\ n.v > maxMessage -> [is |-> "error"]
          [] OTHER -> IF Len(n.rest) < n.v THEN [is |-> "more"]
                      ELSE [is |-> "message", body |-> SubSeq(n.rest, 1, n.v),
                            rest |-> Drop(n.rest, n.v)]

\* The version bytes are not looked at.
ParseRequestHeader(body) ==
    IF Len(body) < 4 THEN Failed ELSE readUint16(Drop(body, 2))

replyWithoutStatus(code, payload) ==
    <<PutUint32(Len(payload)), PutUint32(0), PutUint32(code), payload>>
replyCountsTransport(code, payload) ==
    <<PutUint32(8 + Len(payload)), PutUint32(0), PutUint32(code), payload>>

\* The four writes of WriteReply.
WriteReply(code, payload) ==
    <<PutUint32(4 + Len(payload)), PutUint32(0), PutUint32(code), payload>>

SplitCName(b) ==
    LET nul == {i \in DOMAIN b : b[i] = 0}
        first == CHOOSE i \in nul : \A j \in nul : i <= j
    IN  IF nul = {} THEN Failed
        ELSE [v |-> SubSeq(b, 1, first - 1), rest |-> Drop(b, first)]

PutCName(s) == Append(s, 0)

\* The list, or Truncated.
ReadUUIDList(b) ==
    IF Len(b) % 16 # 0 THEN Truncated
    ELSE [i \in 1..(Len(b) \div 16) |-> SubSeq(b, 16 * i - 15, 16 * i)]

PutUUIDList(us) == FlattenSeq(us)

-----------------------------------------------------------------------------
(* principal.go                                                            *)

\* A length and that many bytes.
ReadData(b) ==
    LET n == ReadUint32(b)
    IN  IF n.rest = Truncated \/ Len(n.rest) < n.v THEN Failed
        ELSE [v |-> SubSeq(n.rest, 1, n.v), rest |-> Drop(n.rest, n.v)]

PutData(s) == PutUint32(Len(s)) \o s

MarshalPrincipal(p) ==
    PutUint32(p.type) \o PutUint32(Len(p.comps)) \o PutData(p.realm)
    \o FlattenSeq([i \in DOMAIN p.comps |-> PutData(p.comps[i])])

\* n strings one after the other.
ReadStrings(n, b) ==
    FoldLeft(LAMBDA r, i : LET c == ReadData(r.rest)
                           IN  [v |-> Append(r.v, c.v), rest |-> c.rest],
             [v |-> <<>>, rest |-> b], [i \in 1..n |-> i])

UnmarshalPrincipal(b) ==
    LET type == ReadUint32(b)
        count == ReadUint32(type.rest)
        realm == ReadData(count.rest)
        comps == ReadStrings(count.v, realm.rest)
    IN  IF realm.rest = Truncated THEN Failed
        ELSE [v |-> [type |-> type.v, realm |-> realm.v, comps |-> comps.v],
              rest |-> comps.rest]

-----------------------------------------------------------------------------
(* match.go                                                                *)

\* The header's bits: which optional fields are there.
scClientPrincipal == 0
scServerPrincipal == 1
scSessionKey == 2
scTicket == 3
scSecondTicket == 4
scAuthdata == 5
scAddresses == 6

has(header, bit) == (header \div 2^bit) % 2 = 1

optional(present, Read(_), b) ==
    IF present /\ b # Truncated THEN Read(b) ELSE [v |-> Nil, rest |-> b]

readKey(b) ==
    LET enctype == readUint16(b)
        data == ReadData(enctype.rest)
    IN  [v |-> <<enctype.v, data.v>>, rest |-> data.rest]

readTimes(b) ==
    FoldLeft(LAMBDA r, i : LET t == ReadUint32(r.rest)
                           IN  [v |-> Append(r.v, t.v), rest |-> t.rest],
             [v |-> <<>>, rest |-> b], <<1, 2, 3, 4>>)

\* The entries are parsed only to find the end of the list.
skipAddressOrAuthdataList(b) ==
    LET count == ReadUint32(b)
    IN  [v |-> Nil,
         rest |-> IF count.rest = Truncated THEN Truncated
                  ELSE FoldLeft(LAMBDA r, i : ReadData(readUint16(r).rest).rest,
                                count.rest, [i \in 1..count.v |-> i])]

readByte(b) ==
    IF b = Truncated \/ b = <<>> THEN Failed ELSE [v |-> b[1], rest |-> Tail(b)]

UnmarshalMatchCredential(b) ==
    LET header == ReadUint32(b)
        client == optional(has(header.v, scClientPrincipal), UnmarshalPrincipal, header.rest)
        server == optional(has(header.v, scServerPrincipal), UnmarshalPrincipal, client.rest)
        key == optional(has(header.v, scSessionKey), readKey, server.rest)
        times == readTimes(key.rest)
        isSKey == readByte(times.rest)
        flags == ReadUint32(isSKey.rest)
        addrs == optional(has(header.v, scAddresses), skipAddressOrAuthdataList, flags.rest)
        authdata == optional(has(header.v, scAuthdata), skipAddressOrAuthdataList, addrs.rest)
        ticket == optional(has(header.v, scTicket), ReadData, authdata.rest)
        second == optional(has(header.v, scSecondTicket), ReadData, ticket.rest)
    IN  IF header.rest = Truncated THEN Failed
        ELSE [v |-> [client |-> client.v, server |-> server.v, key |-> key.v,
                     times |-> times.v, isSKey |-> isSKey.v # 0, flags |-> flags.v,
                     ticket |-> ticket.v, second |-> second.v],
              rest |-> second.rest]

-----------------------------------------------------------------------------
(* opcode.go: the opcodes a request can be about.                          *)

OpNoop == 0
OpGetName == 1
OpGenNew == 3
OpInitialize == 4
OpDestroy == 5
OpStore == 6
OpRetrieve == 7
OpGetPrincipal == 8
OpGetCredUUIDList == 9
OpGetCredByUUID == 10
OpRemoveCred == 11
OpGetCacheUUIDList == 18
OpGetCacheByUUID == 19
OpGetDefaultCache == 20
OpSetDefaultCache == 21
OpGetKDCOffset == 22
OpSetKDCOffset == 23
OpGetCredList == 13001
OpReplace == 13002

HasLeadingName(op) ==
    op \in {OpInitialize, OpDestroy, OpStore, OpRetrieve, OpGetPrincipal, OpGetCredUUIDList,
            OpGetCredByUUID, OpRemoveCred, OpSetDefaultCache, OpGetKDCOffset, OpSetKDCOffset,
            OpGetCredList, OpReplace}

Supported(op) ==
    op \in {OpNoop, OpGenNew, OpInitialize, OpDestroy, OpStore, OpRetrieve, OpGetPrincipal,
            OpGetCredUUIDList, OpGetCredByUUID, OpGetCredList, OpRemoveCred,
            OpGetCacheUUIDList, OpGetCacheByUUID, OpGetDefaultCache, OpSetDefaultCache,
            OpGetKDCOffset, OpSetKDCOffset}

=============================================================================
