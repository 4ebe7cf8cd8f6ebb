-------------------------- MODULE KcmServerProofs ---------------------------
(***************************************************************************)
(* What KcmServer promises on a connection, for any requests, any results  *)
(* and any way the bytes arrive: the calls are the ones asked for, the     *)
(* replies are the results, and nobody waits for what is not sent.         *)
(*                                                                         *)
(* First the format: numbers, frames, headers, names, and what dispatch    *)
(* and resume make of a request that arrives whole or cut short.  Then     *)
(* the streams: the bytes between a writer and a reader are the pieces     *)
(* not yet read, one after the other.  The invariant, Connection, says so  *)
(* of both streams and ties the pieces to the requests and their results.  *)
(***************************************************************************)
EXTENDS KcmServer, SequenceTheorems, TLAPS

-----------------------------------------------------------------------------
(* Byte strings.                                                           *)

\* Concatenation, a name that the provers do not look behind.
Cat(s, t) == s \o t

LEMMA Lengths == \A s \in Bytes : Len(s) \in Nat /\ (Len(s) = 0 => s = <<>>)
BY DEF Bytes

LEMMA Catenation ==
    \A s, t \in Bytes : Cat(s, t) \in Bytes /\ Len(Cat(s, t)) = Len(s) + Len(t)
<1>1. \A s, t \in Bytes : s \o t \in Bytes /\ Len(s \o t) = Len(s) + Len(t)
  BY DEF Bytes
<1> QED  BY <1>1, Zenon DEF Cat

LEMMA Nothing ==
    /\ <<>> \in Bytes /\ Len(<<>>) = 0
    /\ \A s \in Bytes : Cat(s, <<>>) = s /\ Cat(<<>>, s) = s
<1>1. <<>> \in Bytes /\ Len(<<>>) = 0
  BY DEF Bytes
<1>2. \A s \in Bytes : s \o <<>> = s /\ <<>> \o s = s
  BY ConcatEmptySeq, Zenon DEF Bytes
<1> QED  BY <1>1, <1>2, Zenon DEF Cat

LEMMA Associative == \A s, t, u \in Bytes : Cat(Cat(s, t), u) = Cat(s, Cat(t, u))
<1> SUFFICES ASSUME NEW s \in Bytes, NEW t \in Bytes, NEW u \in Bytes
             PROVE  (s \o t) \o u = s \o (t \o u)
  BY Zenon DEF Cat
<1> QED  BY ConcatAssociative DEF Bytes

LEMMA Cancel == \A s, t, u \in Bytes : Cat(s, t) = Cat(s, u) => t = u
BY ConcatSimplifications, Zenon DEF Bytes, Cat

\* The same bytes divided in two ways: a and then x, or m and then y.
Same(a, x, m, y) == Cat(a, x) = Cat(m, y)

\* Of two divisions of the same bytes, the longer beginning has the shorter
\* one as its own beginning.
LEMMA Split ==
    ASSUME NEW a \in Bytes, NEW x \in Bytes, NEW m \in Bytes, NEW y \in Bytes,
           Same(a, x, m, y), Len(m) <= Len(a)
    PROVE  /\ SubSeq(a, 1, Len(m)) = m
           /\ Drop(a, Len(m)) \in Bytes
           /\ Len(Drop(a, Len(m))) = Len(a) - Len(m)
           /\ Cat(Drop(a, Len(m)), x) = y
<1> DEFINE d == Drop(a, Len(m))
<1>1. SubSeq(a, 1, Len(m)) = m
  BY DEF Bytes, Same, Cat
<1>2. d \in Bytes /\ Len(d) = Len(a) - Len(m)
  BY DEF Drop, Bytes
<1>3. a = Cat(m, d)
  <2>1. Len(a) = Len(m \o d)
    BY <1>2 DEF Bytes
  <2>2. \A i \in 1..Len(a) : a[i] = (m \o d)[i]
    BY <1>1 DEF Drop, Bytes
  <2>3. m \o d \in Bytes
    BY <1>2 DEF Bytes
  <2>4. a = m \o d
    BY <2>1, <2>2, <2>3, SeqEqual DEF Bytes
  <2> QED  BY <2>4, Zenon DEF Cat
<1> HIDE DEF d
<1>4. Cat(m, Cat(d, x)) = Cat(m, y)
  BY <1>2, <1>3, Associative DEF Same
<1>5. Cat(d, x) = y
  BY <1>2, <1>4, Cancel, Catenation
<1> QED  BY <1>1, <1>2, <1>5 DEF d

LEMMA Parts ==
    ASSUME NEW m \in Bytes, NEW y \in Bytes
    PROVE  SubSeq(Cat(m, y), 1, Len(m)) = m /\ Drop(Cat(m, y), Len(m)) = y
<1>1. PICK a \in Bytes : a = Cat(m, y)
  BY Catenation
<1>2. PICK x \in Bytes : x = <<>>
  BY Nothing
<1>3. Same(a, x, m, y) /\ Len(m) <= Len(a)
  BY <1>1, <1>2, Nothing, Catenation, Lengths DEF Same
<1>4. SubSeq(a, 1, Len(m)) = m /\ Drop(a, Len(m)) \in Bytes /\ Cat(Drop(a, Len(m)), x) = y
  BY <1>3, Split
<1> QED  BY <1>1, <1>2, <1>4, Nothing

-----------------------------------------------------------------------------
(* Numbers.                                                                *)

LEMMA Uint16 ==
    ASSUME NEW v \in Short
    PROVE  \E a, b \in Byte : PutUint16(v) = <<a, b>> /\ v = 256 * a + b
<1>1. /\ v \div 256 \in Byte
      /\ v % 256 \in Byte
      /\ v = 256 * (v \div 256) + (v % 256)
  BY DEF Short, Byte
<1>2. (v \div 256) % 256 = v \div 256
  BY <1>1 DEF Byte
<1> QED  BY <1>1, <1>2 DEF PutUint16

LEMMA Uint32 ==
    ASSUME NEW v \in Word
    PROVE  \E a, b, c, d \in Byte :
              PutUint32(v) = <<a, b, c, d>> /\ v = 256 * (256 * (256 * a + b) + c) + d
<1> DEFINE h == v \div 65536
           l == v % 65536
<1>1. /\ h \in Short
      /\ l \in Short
      /\ v = 65536 * h + l
  BY DEF Word, Short
<1>2. PutUint16(v) = PutUint16(l)
  <2>1. v % 256 = l % 256
    BY DEF Word
  <2>2. (v \div 256) % 256 = (l \div 256) % 256
    <3>1. h \in Int /\ l \in Int /\ l \div 256 \in Int
      BY <1>1 DEF Short
    <3>2. v \div 256 = 256 * h + (l \div 256)
      BY <1>1 DEF Short
    <3> HIDE DEF h, l
    <3> QED  BY <3>1, <3>2
  <2> QED  BY <2>1, <2>2 DEF PutUint16
<1>3. PutUint32(v) = PutUint16(h) \o PutUint16(l)
  BY <1>2 DEF PutUint32
<1> HIDE DEF h, l
<1>4. PICK a, b \in Byte : PutUint16(h) = <<a, b>> /\ h = 256 * a + b
  BY <1>1, Uint16
<1>5. PICK c, d \in Byte : PutUint16(l) = <<c, d>> /\ l = 256 * c + d
  BY <1>1, Uint16
<1>6. PutUint32(v) = <<a, b, c, d>>
  <2>1. <<a, b>> \o <<c, d>> = <<a, b, c, d>>
    <3>1. <<a, b>> \in Seq(Byte) /\ <<c, d>> \in Seq(Byte) /\ <<a, b, c, d>> \in Seq(Byte)
      OBVIOUS
    <3>2. /\ <<a, b>> \o <<c, d>> \in Seq(Byte)
          /\ Len(<<a, b>> \o <<c, d>>) = 4
          /\ \A i \in 1..4 : (<<a, b>> \o <<c, d>>)[i] = <<a, b, c, d>>[i]
      BY <3>1
    <3> QED  BY <3>1, <3>2, SeqEqual
  <2> QED  BY <1>3, <1>4, <1>5, <2>1
<1>7. v = 256 * (256 * (256 * a + b) + c) + d
  BY <1>1, <1>4, <1>5 DEF Byte
<1> QED  BY <1>6, <1>7

LEMMA PutNumber ==
    ASSUME NEW v \in Word
    PROVE  PutUint32(v) \in Bytes /\ Len(PutUint32(v)) = 4
<1>1. PICK a, b, c, d \in Byte : PutUint32(v) = <<a, b, c, d>>
  BY Uint32
<1> QED  BY <1>1 DEF Bytes

\* What is read from the beginning of a stream that has a number in front.
LEMMA NoNumber ==
    ASSUME NEW b \in Bytes, Len(b) < 4
    PROVE  ReadUint32(b) = Failed
BY DEF ReadUint32

LEMMA GetNumber ==
    ASSUME Truncated \notin Bytes, NEW v \in Word,
           NEW b \in Bytes, NEW x \in Bytes, NEW y \in Bytes,
           Same(b, x, PutUint32(v), y), ~(Len(b) < 4)
    PROVE  /\ ReadUint32(b) = [v |-> v, rest |-> Drop(b, 4)]
           /\ Drop(b, 4) \in Bytes
           /\ Len(Drop(b, 4)) = Len(b) - 4
           /\ Cat(Drop(b, 4), x) = y
<1>1. b # Truncated
  OBVIOUS
<1>2. PutUint32(v) \in Bytes /\ Len(PutUint32(v)) = 4
  BY PutNumber
<1>3. Len(b) \in Nat /\ Len(PutUint32(v)) <= Len(b)
  BY <1>2, Lengths
<1>4. /\ SubSeq(b, 1, 4) = PutUint32(v)
      /\ Drop(b, 4) \in Bytes
      /\ Len(Drop(b, 4)) = Len(b) - 4
      /\ Cat(Drop(b, 4), x) = y
  <2>1. LET k == Len(PutUint32(v))
        IN  /\ SubSeq(b, 1, k) = PutUint32(v)
            /\ Drop(b, k) \in Bytes
            /\ Len(Drop(b, k)) = Len(b) - k
            /\ Cat(Drop(b, k), x) = y
    BY <1>2, <1>3, Split
  <2> QED  BY <1>2, <2>1, Zenon
<1>5. PICK c, d, e, f \in Byte :
         PutUint32(v) = <<c, d, e, f>> /\ v = 256 * (256 * (256 * c + d) + e) + f
  BY Uint32
<1>6. b[1] = c /\ b[2] = d /\ b[3] = e /\ b[4] = f
  <2> DEFINE p == SubSeq(b, 1, 4)
  <2>1. p = <<c, d, e, f>> /\ Len(b) >= 4
    BY <1>3, <1>4, <1>5
  <2>2. b[1] = p[1] /\ b[2] = p[2] /\ b[3] = p[3] /\ b[4] = p[4]
    BY <2>1, <1>3 DEF Bytes
  <2> HIDE DEF p
  <2> QED  BY <2>1, <2>2
<1>7. ReadUint32(b) = [v |-> v, rest |-> Drop(b, 4)]
  BY <1>1, <1>5, <1>6 DEF ReadUint32
<1> QED  BY <1>4, <1>7

-----------------------------------------------------------------------------
(* Frames.                                                                 *)

\* ReadMessage waits for the whole of the message in front of the stream, and
\* takes it and no byte more.
LEMMA ReadFrame ==
    ASSUME Truncated \notin Bytes, NEW m \in Bytes, Len(m) <= maxMessage,
           NEW b \in Bytes, NEW x \in Bytes, NEW y \in Bytes,
           Same(b, x, WriteMessage(m), y)
    PROVE  IF Len(b) < 4 + Len(m) THEN ReadMessage(b).is = "more"
           ELSE /\ ReadMessage(b).is = "message"
                /\ ReadMessage(b).body = m
                /\ ReadMessage(b).rest \in Bytes
                /\ Cat(ReadMessage(b).rest, x) = y
<1>1. Len(m) \in Word /\ Len(m) \in Nat /\ Len(b) \in Nat
  BY DEF Word, maxMessage, Bytes
<1>2. WriteMessage(m) = Cat(PutUint32(Len(m)), m)
  BY DEF WriteMessage, Cat
<1>3. Cat(m, y) \in Bytes
  BY Catenation
<1>4. Same(b, x, PutUint32(Len(m)), Cat(m, y))
  BY <1>1, <1>2, PutNumber, Associative DEF Same
<1> DEFINE n == ReadUint32(b)
<1>5. CASE Len(b) < 4
  <2>1. n = Failed
    BY <1>5, NoNumber
  <2>2. ReadMessage(b) = [is |-> "more"]
    BY <2>1 DEF ReadMessage, Failed
  <2> QED  BY <1>1, <1>5, <2>2
<1>6. CASE ~(Len(b) < 4)
  <2> DEFINE t == Drop(b, 4)
  <2>1. n = [v |-> Len(m), rest |-> t] /\ t \in Bytes /\ Len(t) = Len(b) - 4 /\ Cat(t, x) = Cat(m, y)
    BY <1>1, <1>4, <1>3, <1>6, GetNumber
  <2>2. t # Truncated /\ Same(t, x, m, y)
    BY <2>1 DEF Same
  <2>3. n.rest = t /\ n.v = Len(m) /\ ~(Len(m) > maxMessage)
    BY <1>1, <2>1 DEF maxMessage
  <2> HIDE DEF n, t
  <2>4. ReadMessage(b) = IF Len(t) < Len(m) THEN [is |-> "more"]
                         ELSE [is |-> "message", body |-> SubSeq(t, 1, Len(m)), rest |-> Drop(t, Len(m))]
    BY <2>2, <2>3 DEF ReadMessage, n
  <2>5. CASE Len(t) < Len(m)
    <3>1. ReadMessage(b).is = "more"
      BY <2>4, <2>5
    <3>2. Len(b) < 4 + Len(m)
      BY <2>1, <2>5, <1>1
    <3> QED  BY <3>1, <3>2
  <2>6. CASE ~(Len(t) < Len(m))
    <3>1. ~(Len(b) < 4 + Len(m)) /\ Len(m) <= Len(t)
      BY <2>1, <2>6, <1>1
    <3>2. SubSeq(t, 1, Len(m)) = m /\ Drop(t, Len(m)) \in Bytes /\ Cat(Drop(t, Len(m)), x) = y
      BY <2>1, <2>2, <3>1, Split
    <3> QED  BY <2>4, <2>6, <3>1, <3>2
  <2> QED  BY <2>5, <2>6
<1> QED  BY <1>5, <1>6

\* The announcement of a message that is too long is an error once it is there.
LEMMA ReadHuge ==
    ASSUME Truncated \notin Bytes, NEW b \in Bytes, NEW x \in Bytes, NEW y \in Bytes,
           Same(b, x, PutUint32(maxMessage + 1), y)
    PROVE  ReadMessage(b).is = IF Len(b) < 4 THEN "more" ELSE "error"
<1> DEFINE v == maxMessage + 1
           n == ReadUint32(b)
<1>1. v \in Word /\ v > maxMessage
  BY DEF Word, maxMessage
<1>2. Same(b, x, PutUint32(v), y)
  OBVIOUS
<1> HIDE DEF v
<1>3. ASSUME Len(b) < 4  PROVE ReadMessage(b).is = "more"
  <2>1. n = Failed
    BY <1>3, NoNumber
  <2> QED  BY <2>1 DEF ReadMessage, Failed
<1>4. ASSUME ~(Len(b) < 4)  PROVE ReadMessage(b).is = "error"
  <2>1. n = [v |-> v, rest |-> Drop(b, 4)] /\ Drop(b, 4) \in Bytes
    BY <1>1, <1>2, <1>4, GetNumber
  <2>2. n.v = v /\ n.rest # Truncated
    BY <2>1
  <2> HIDE DEF n
  <2> QED  BY <1>1, <2>2 DEF ReadMessage, n
<1> QED  BY <1>3, <1>4

\* The writes of WriteReply that are left, one after the other.
joined(w) ==
    CASE Len(w) = 4 -> Cat(w[1], Cat(w[2], Cat(w[3], w[4])))
      [] Len(w) = 3 -> Cat(w[1], Cat(w[2], w[3]))
      [] Len(w) = 2 -> Cat(w[1], w[2])
      [] Len(w) = 1 -> w[1]
      [] OTHER -> <<>>

\* Codes and payloads that have room in a reply.
Fits(code, payload) == code \in Word /\ payload \in Bytes /\ 4 + Len(payload) \in Word

LEMMA Fitting ==
    ASSUME NEW code, NEW payload, Fits(code, payload)
    PROVE  LET k == 4 + Len(payload)
           IN  /\ 0 \in Word /\ code \in Word /\ k \in Word
               /\ payload \in Bytes /\ Len(payload) \in Nat
               /\ PutUint32(k) \in Bytes /\ Len(PutUint32(k)) = 4
               /\ PutUint32(0) \in Bytes /\ Len(PutUint32(0)) = 4
               /\ PutUint32(code) \in Bytes /\ Len(PutUint32(code)) = 4
               /\ Cat(PutUint32(code), payload) \in Bytes
               /\ Len(Cat(PutUint32(code), payload)) = k
<1>1. 0 \in Word
  BY DEF Word
<1>2. payload \in Bytes /\ Len(payload) \in Nat /\ code \in Word /\ 4 + Len(payload) \in Word
  BY Lengths DEF Fits
<1>3. PutUint32(code) \in Bytes /\ Len(PutUint32(code)) = 4
  BY <1>2, PutNumber
<1>4. /\ Cat(PutUint32(code), payload) \in Bytes
      /\ Len(Cat(PutUint32(code), payload)) = 4 + Len(payload)
  BY <1>2, <1>3, Catenation
<1> QED  BY <1>1, <1>2, <1>3, <1>4, PutNumber

LEMMA ReplyBytes ==
    ASSUME NEW code, NEW payload, Fits(code, payload)
    PROVE  LET w == WriteReply(code, payload)
           IN  /\ joined(w) = Cat(PutUint32(4 + Len(payload)),
                                  Cat(PutUint32(0), Cat(PutUint32(code), payload)))
               /\ joined(w) \in Bytes
               /\ Len(joined(w)) = 12 + Len(payload)
               /\ w \in Seq(Bytes) /\ Len(w) = 4
<1> DEFINE a == PutUint32(4 + Len(payload))
           b == PutUint32(0)
           c == PutUint32(code)
<1>1. /\ a \in Bytes /\ Len(a) = 4
      /\ b \in Bytes /\ Len(b) = 4
      /\ Cat(c, payload) \in Bytes /\ Len(Cat(c, payload)) = 4 + Len(payload)
      /\ c \in Bytes /\ payload \in Bytes /\ Len(payload) \in Nat
  BY Fitting
<1>2. WriteReply(code, payload) = <<a, b, c, payload>>
  BY DEF WriteReply
<1> HIDE DEF a, b, c
<1>3. PICK w : w = <<a, b, c, payload>>
  OBVIOUS
<1>4. w[1] = a /\ w[2] = b /\ w[3] = c /\ w[4] = payload /\ Len(w) = 4
  BY <1>3
<1>5. joined(w) = Cat(a, Cat(b, Cat(c, payload)))
  BY <1>4 DEF joined
<1>6. Cat(b, Cat(c, payload)) \in Bytes /\ Len(Cat(b, Cat(c, payload))) = 8 + Len(payload)
  <2>1. PICK q \in Bytes : q = Cat(c, payload) /\ Len(q) = 4 + Len(payload)
    BY <1>1
  <2>2. Cat(b, q) \in Bytes /\ Len(Cat(b, q)) = Len(b) + Len(q)
    BY <1>1, Catenation
  <2> QED  BY <1>1, <2>1, <2>2
<1>7. joined(w) \in Bytes /\ Len(joined(w)) = 12 + Len(payload)
  <2>1. PICK q \in Bytes : q = Cat(b, Cat(c, payload)) /\ Len(q) = 8 + Len(payload)
    BY <1>6
  <2>2. Cat(a, q) \in Bytes /\ Len(Cat(a, q)) = Len(a) + Len(q)
    BY <1>1, Catenation
  <2> QED  BY <1>1, <1>5, <2>1, <2>2
<1>8. w \in Seq(Bytes)
  BY <1>1, <1>3
<1> QED  BY <1>2, <1>3, <1>4, <1>5, <1>7, <1>8 DEF a, b, c

\* The client waits for the whole of the reply in front of the stream, and
\* takes its code, its payload and no byte more.
LEMMA ReadReply ==
    ASSUME Truncated \notin Bytes, NEW code, NEW payload, Fits(code, payload),
           NEW b \in Bytes, NEW x \in Bytes, NEW y \in Bytes,
           Same(b, x, joined(WriteReply(code, payload)), y)
    PROVE  IF Len(b) < 12 + Len(payload) THEN readReply(b).is = "more"
           ELSE /\ readReply(b).is = "reply"
                /\ readReply(b).code = code
                /\ readReply(b).payload = payload
                /\ readReply(b).rest \in Bytes
                /\ Cat(readReply(b).rest, x) = y
<1> DEFINE k == 4 + Len(payload)
           p == Cat(PutUint32(code), payload)
           n == ReadUint32(b)
           transport == ReadUint32(n.rest)
<1>1. /\ Len(b) \in Nat /\ Len(payload) \in Nat /\ k = 4 + Len(payload)
      /\ 0 \in Word /\ k \in Word /\ code \in Word /\ payload \in Bytes
      /\ PutUint32(k) \in Bytes /\ PutUint32(0) \in Bytes /\ PutUint32(code) \in Bytes
      /\ p \in Bytes /\ Len(p) = k
  BY Fitting, Lengths
<1>2. joined(WriteReply(code, payload)) = Cat(PutUint32(k), Cat(PutUint32(0), p))
  BY ReplyBytes
<1>3. Same(p, <<>>, PutUint32(code), payload)
  BY <1>1, Nothing DEF Same
<1> HIDE DEF p, k
<1>4. Cat(p, y) \in Bytes /\ Cat(PutUint32(0), p) \in Bytes /\ Cat(PutUint32(0), Cat(p, y)) \in Bytes
  BY <1>1, Catenation
<1>5. Same(b, x, PutUint32(k), Cat(PutUint32(0), Cat(p, y)))
  <2>1. Cat(b, x) = Cat(Cat(PutUint32(k), Cat(PutUint32(0), p)), y)
    BY <1>2 DEF Same
  <2>2. Cat(Cat(PutUint32(k), Cat(PutUint32(0), p)), y) = Cat(PutUint32(k), Cat(Cat(PutUint32(0), p), y))
    BY <1>1, <1>4, Associative
  <2>3. Cat(Cat(PutUint32(0), p), y) = Cat(PutUint32(0), Cat(p, y))
    BY <1>1, Associative
  <2> QED  BY <2>1, <2>2, <2>3, Zenon DEF Same
<1>6. ASSUME Len(b) < 8  PROVE readReply(b).is = "more" /\ Len(b) < 12 + Len(payload)
  <2>1. transport.rest = Truncated
    <3>1. CASE Len(b) < 4
      <4>1. n = Failed
        BY <3>1, NoNumber
      <4> QED  BY <4>1 DEF Failed, ReadUint32
    <3>2. CASE ~(Len(b) < 4)
      <4> DEFINE s == Drop(b, 4)
      <4>1. n = [v |-> k, rest |-> s] /\ s \in Bytes /\ Len(s) = Len(b) - 4
        BY <1>1, <1>4, <1>5, <3>2, GetNumber
      <4> HIDE DEF s
      <4>2. Len(s) < 4 /\ n.rest = s
        BY <1>1, <1>6, <4>1
      <4>3. ReadUint32(s) = Failed
        BY <4>1, <4>2, NoNumber
      <4> QED  BY <4>2, <4>3 DEF Failed
    <3> QED  BY <3>1, <3>2
  <2> HIDE DEF transport
  <2>2. readReply(b) = [is |-> "more"]
    BY <2>1 DEF readReply, transport
  <2> QED  BY <1>1, <1>6, <2>2
<1>7. ASSUME ~(Len(b) < 8)
      PROVE  IF Len(b) < 12 + Len(payload) THEN readReply(b).is = "more"
             ELSE /\ readReply(b).is = "reply"
                  /\ readReply(b).code = code
                  /\ readReply(b).payload = payload
                  /\ readReply(b).rest \in Bytes
                  /\ Cat(readReply(b).rest, x) = y
  <2> DEFINE s == Drop(b, 4)
             t == Drop(s, 4)
             status == ReadUint32(SubSeq(t, 1, k))
  <2>1. ~(Len(b) < 4)
    BY <1>1, <1>7
  <2>2. n = [v |-> k, rest |-> s] /\ s \in Bytes /\ Len(s) = Len(b) - 4
        /\ Cat(s, x) = Cat(PutUint32(0), Cat(p, y))
    BY <1>1, <1>4, <1>5, <2>1, GetNumber
  <2> HIDE DEF s
  <2>3. Same(s, x, PutUint32(0), Cat(p, y)) /\ ~(Len(s) < 4)
    BY <1>1, <1>7, <2>2 DEF Same
  <2>4. ReadUint32(s) = [v |-> 0, rest |-> t] /\ t \in Bytes /\ Len(t) = Len(s) - 4 /\ Cat(t, x) = Cat(p, y)
    BY <1>1, <1>4, <2>2, <2>3, GetNumber
  <2> HIDE DEF t
  <2>5. transport.v = 0 /\ transport.rest = t /\ n.v = k
    BY <2>2, <2>4
  <2>6. t # Truncated /\ Same(t, x, p, y) /\ Len(t) = Len(b) - 8
    BY <1>1, <2>2, <2>4 DEF Same
  <2>7. readReply(b) = IF Len(t) < k THEN [is |-> "more"]
                       ELSE [is |-> "reply", code |-> status.v, payload |-> status.rest, rest |-> Drop(t, k)]
    <3> HIDE DEF transport, n
    <3> QED  BY <2>5, <2>6 DEF readReply, transport, n
  <2>8. CASE Len(t) < k
    <3>1. readReply(b).is = "more"
      BY <2>7, <2>8
    <3>2. Len(b) < 12 + Len(payload)
      BY <1>1, <2>6, <2>8
    <3> QED  BY <3>1, <3>2
  <2>9. CASE ~(Len(t) < k)
    <3>1. Len(p) <= Len(t) /\ ~(Len(b) < 12 + Len(payload)) /\ ~(Len(p) < 4)
      BY <1>1, <2>6, <2>9
    <3>2. SubSeq(t, 1, k) = p /\ Drop(t, k) \in Bytes /\ Cat(Drop(t, k), x) = y
      <4>1. SubSeq(t, 1, Len(p)) = p /\ Drop(t, Len(p)) \in Bytes /\ Cat(Drop(t, Len(p)), x) = y
        BY <1>1, <2>4, <2>6, <3>1, Split
      <4> QED  BY <4>1, <1>1, Zenon
    <3>3. ReadUint32(p) = [v |-> code, rest |-> Drop(p, 4)] /\ Cat(Drop(p, 4), <<>>) = payload
          /\ Drop(p, 4) \in Bytes
      <4>1. <<>> \in Bytes /\ Truncated \notin Bytes /\ ~(Len(p) < 4)
        BY <3>1, Nothing
      <4> QED  BY <4>1, <1>1, <1>3, GetNumber
    <3>4. ReadUint32(p) = [v |-> code, rest |-> payload]
      BY <3>3, Nothing
    <3>5. status = [v |-> code, rest |-> payload]
      BY <3>2, <3>4
    <3> HIDE DEF status
    <3>6. readReply(b) = [is |-> "reply", code |-> status.v, payload |-> status.rest, rest |-> Drop(t, k)]
      BY <2>7, <2>9
    <3> QED  BY <3>1, <3>2, <3>5, <3>6
  <2> QED  BY <2>8, <2>9
<1> QED  BY <1>6, <1>7

-----------------------------------------------------------------------------
(* Requests.                                                               *)

LEMMA Beginnings ==
    ASSUME NEW s \in Bytes, NEW n \in 0..Len(s)
    PROVE  /\ SubSeq(s, 1, n) \in Bytes /\ Len(SubSeq(s, 1, n)) = n
           /\ n = Len(s) => SubSeq(s, 1, n) = s
<1>1. SubSeq(s, 1, n) \in Bytes /\ Len(SubSeq(s, 1, n)) = n
  BY DEF Bytes
<1>2. SubSeq(s, 1, Len(s)) = s
  BY SubSeqFull DEF Bytes
<1>3. ASSUME n = Len(s)  PROVE SubSeq(s, 1, n) = s
  BY <1>2, <1>3, Zenon
<1> QED  BY <1>1, <1>3, Zenon

\* The beginning of a concatenation.
LEMMA PrefixOfCat ==
    ASSUME NEW s \in Bytes, NEW t \in Bytes, NEW n \in 0..Len(s) + Len(t)
    PROVE  IF n <= Len(s) THEN SubSeq(Cat(s, t), 1, n) = SubSeq(s, 1, n)
           ELSE SubSeq(Cat(s, t), 1, n) = Cat(s, SubSeq(t, 1, n - Len(s)))
<1>1. n \in Nat /\ Len(s) \in Nat /\ Len(t) \in Nat
  BY Lengths
<1>2. SubSeq(s \o t, 1, n) \in Bytes /\ Len(SubSeq(s \o t, 1, n)) = n
  BY <1>1 DEF Bytes
<1>3. ASSUME n <= Len(s)  PROVE SubSeq(s \o t, 1, n) = SubSeq(s, 1, n)
  <2>1. SubSeq(s, 1, n) \in Bytes /\ Len(SubSeq(s, 1, n)) = n
    BY <1>1, <1>3 DEF Bytes
  <2>2. \A i \in 1..n : SubSeq(s \o t, 1, n)[i] = SubSeq(s, 1, n)[i]
    BY <1>1, <1>3 DEF Bytes
  <2> QED  BY <1>2, <2>1, <2>2, SeqEqual DEF Bytes
<1>4. ASSUME ~(n <= Len(s))  PROVE SubSeq(s \o t, 1, n) = s \o SubSeq(t, 1, n - Len(s))
  <2> DEFINE u == SubSeq(t, 1, n - Len(s))
  <2>1. u \in Bytes /\ Len(u) = n - Len(s)
    BY <1>1, <1>4 DEF Bytes
  <2>2. s \o u \in Bytes /\ Len(s \o u) = n
    BY <1>1, <2>1 DEF Bytes
  <2>3. \A i \in 1..n : SubSeq(s \o t, 1, n)[i] = (s \o u)[i]
    BY <1>1, <1>4, <2>1 DEF Bytes
  <2> QED  BY <1>2, <2>2, <2>3, SeqEqual DEF Bytes
<1> QED  BY <1>3, <1>4 DEF Cat

\* The four bytes in front of a request, and what the server makes of them.
opening(o) == <<2, 0>> \o PutUint16(o)

LEMMA Opening ==
    ASSUME NEW o \in Short
    PROVE  opening(o) \in Bytes /\ Len(opening(o)) = 4
<1>1. PICK a, b \in Byte : PutUint16(o) = <<a, b>>
  BY Uint16
<1>2. <<2, 0>> \in Bytes /\ <<a, b>> \in Bytes /\ Len(<<2, 0>>) = 2 /\ Len(<<a, b>>) = 2
  BY DEF Bytes, Byte
<1>3. PICK p, q \in Bytes : p = <<2, 0>> /\ q = <<a, b>> /\ Len(p) = 2 /\ Len(q) = 2
  BY <1>2
<1>4. Cat(p, q) \in Bytes /\ Len(Cat(p, q)) = 2 + 2
  BY <1>3, Catenation
<1> QED  BY <1>1, <1>3, <1>4 DEF opening, Cat

LEMMA Header ==
    ASSUME Truncated \notin Bytes, NEW o \in Short, NEW t \in Bytes
    PROVE  ParseRequestHeader(Cat(opening(o), t)) = [v |-> o, rest |-> t]
<1> DEFINE b == Cat(opening(o), t)
           d == Drop(b, 2)
<1>1. PICK e, f \in Byte : PutUint16(o) = <<e, f>> /\ o = 256 * e + f
  BY Uint16
<1>2. PICK p, q \in Bytes : p = <<2, 0>> /\ q = <<e, f>> /\ Len(p) = 2 /\ Len(q) = 2
  <2>1. <<2, 0>> \in Bytes /\ <<e, f>> \in Bytes /\ Len(<<2, 0>>) = 2 /\ Len(<<e, f>>) = 2
    BY DEF Bytes, Byte
  <2> QED  BY <2>1
<1>3. b = Cat(p, Cat(q, t)) /\ Cat(q, t) \in Bytes
  <2>1. opening(o) = Cat(p, q)
    BY <1>1, <1>2 DEF opening, Cat
  <2> QED  BY <2>1, Associative, Catenation
<1>4. b \in Bytes /\ Len(b) = 4 + Len(t) /\ Len(t) \in Nat
  <2>1. PICK c \in Bytes : c = opening(o) /\ Len(c) = 4
    BY Opening
  <2>2. Cat(c, t) \in Bytes /\ Len(Cat(c, t)) = Len(c) + Len(t) /\ Len(t) \in Nat
    BY Catenation, Lengths
  <2> QED  BY <2>1, <2>2
<1> HIDE DEF b
<1>5. d = Cat(q, t)
  <2>1. Drop(b, Len(p)) = Cat(q, t)
    BY <1>3, Parts
  <2> QED  BY <1>2, <2>1, Zenon
<1> HIDE DEF d
<1>6. d \in Bytes /\ Len(d) = 2 + Len(t)
  BY <1>2, <1>5, Catenation
<1>7. Drop(d, 2) = t /\ d[1] = e /\ d[2] = f
  <2>2. SubSeq(d, 1, Len(q)) = q
    BY <1>5, Parts
  <2>3. Drop(d, Len(q)) = t
    BY <1>5, Parts
  <2>4. d[1] = q[1] /\ d[2] = q[2]
    <3>1. PICK s : s = SubSeq(d, 1, 2)
      OBVIOUS
    <3>2. d[1] = s[1] /\ d[2] = s[2]
      BY <1>4, <1>6, <3>1 DEF Bytes
    <3>3. s = q
      BY <1>2, <2>2, <3>1
    <3> QED  BY <3>2, <3>3
  <2>5. q[1] = e /\ q[2] = f
    BY <1>2
  <2> QED  BY <1>2, <2>3, <2>4, <2>5, Zenon
<1>8. readUint16(d) = [v |-> o, rest |-> t]
  BY <1>1, <1>4, <1>6, <1>7 DEF readUint16
<1> QED  BY <1>4, <1>8 DEF ParseRequestHeader, b, d

LEMMA NameBytes ==
    ASSUME NEW s \in Seq(Byte \ {0})
    PROVE  /\ s \in Bytes
           /\ PutCName(s) \in Bytes /\ Len(PutCName(s)) = Len(s) + 1
           /\ PutCName(s)[Len(s) + 1] = 0
           /\ \A i \in 1..Len(s) : PutCName(s)[i] = s[i] /\ s[i] # 0
<1>1. s \in Seq(Byte)
  BY SeqMonotonic
<1>2. \A i \in 1..Len(s) : s[i] # 0
  <2>1. \A i \in 1..Len(s) : s[i] \in Byte \ {0}
    BY ElementOfSeq, Zenon
  <2> QED  BY <2>1
<1>3. 0 \in Byte
  BY DEF Byte
<1>4. /\ Append(s, 0) \in Seq(Byte) /\ Len(Append(s, 0)) = Len(s) + 1
      /\ Append(s, 0)[Len(s) + 1] = 0
      /\ \A i \in 1..Len(s) : Append(s, 0)[i] = s[i]
  BY <1>1, <1>3, AppendProperties
<1> QED  BY <1>1, <1>2, <1>4, Zenon DEF PutCName, Bytes

LEMMA NameFound ==
    ASSUME NEW s \in Seq(Byte \ {0}), NEW q \in Bytes
    PROVE  SplitCName(Cat(PutCName(s), q)) = [v |-> s, rest |-> q]
<1> DEFINE c == PutCName(s)
           b == Cat(c, q)
           k == Len(s) + 1
           nul == {i \in DOMAIN b : b[i] = 0}
           first == CHOOSE i \in nul : \A j \in nul : i <= j
<1>1. s \in Bytes /\ c \in Bytes /\ Len(c) = k /\ Len(s) \in Nat /\ Len(q) \in Nat
  BY NameBytes, Lengths
<1>2. b \in Bytes /\ Len(b) = k + Len(q)
  BY <1>1, Catenation
<1>3. \A i \in 1..k : b[i] = c[i]
  <2>1. \A i \in 1..Len(c) : (c \o q)[i] = c[i]
    BY <1>1 DEF Bytes
  <2> QED  BY <1>1, <2>1 DEF Cat
<1>4. k \in nul /\ \A i \in nul : k <= i
  <2>1. DOMAIN b = 1..Len(b)
    BY <1>2 DEF Bytes
  <2>2. b[k] = 0 /\ \A i \in 1..Len(s) : b[i] # 0
    BY <1>1, <1>3, NameBytes
  <2> HIDE DEF b
  <2> QED  BY <1>1, <1>2, <2>1, <2>2
<1>5. nul \subseteq Int
  BY <1>2 DEF Bytes
<1> HIDE DEF nul
<1>6. first = k
  <2>1. first \in nul /\ \A j \in nul : first <= j
    BY <1>4, Zenon
  <2> HIDE DEF first
  <2> QED  BY <1>1, <1>4, <1>5, <2>1
<1>7. Drop(b, k) = q
  BY <1>1, Parts
<1>8. SubSeq(b, 1, k - 1) = s
  <2>1. SubSeq(b, 1, Len(s)) \in Bytes /\ Len(SubSeq(b, 1, Len(s))) = Len(s)
    BY <1>1, <1>2 DEF Bytes
  <2>2. \A i \in 1..Len(s) : SubSeq(b, 1, Len(s))[i] = b[i]
    BY <1>1, <1>2 DEF Bytes
  <2>3. \A i \in 1..Len(s) : b[i] = s[i]
    BY <1>1, <1>3, NameBytes
  <2>4. SubSeq(b, 1, Len(s)) = s
    <3> HIDE DEF b
    <3> QED  BY <1>1, <2>1, <2>2, <2>3, SeqEqual DEF Bytes
  <2>5. k - 1 = Len(s)
    BY <1>1
  <2> QED  BY <2>4, <2>5, Zenon
<1>9. SplitCName(b) = IF nul = {} THEN Failed ELSE [v |-> SubSeq(b, 1, first - 1), rest |-> Drop(b, first)]
  BY DEF SplitCName, nul
<1> HIDE DEF first, b, k
<1> QED  BY <1>4, <1>6, <1>7, <1>8, <1>9 DEF b, c

LEMMA NameCut ==
    ASSUME NEW s \in Seq(Byte \ {0}), NEW n \in 0..Len(s)
    PROVE  SplitCName(SubSeq(PutCName(s), 1, n)) = Failed
<1> DEFINE c == PutCName(s)
           b == SubSeq(c, 1, n)
<1>1. c \in Bytes /\ Len(c) = Len(s) + 1 /\ Len(s) \in Nat
  BY NameBytes, Lengths
<1>2. DOMAIN b = 1..n /\ \A i \in 1..n : b[i] = c[i]
  BY <1>1 DEF Bytes
<1>3. \A i \in 1..n : c[i] # 0
  BY <1>1, NameBytes
<1>4. {i \in DOMAIN b : b[i] = 0} = {}
  BY <1>2, <1>3
<1> QED  BY <1>4 DEF SplitCName

nameOf(r) == IF r.op \in nameless THEN <<>> ELSE PutCName(CacheName)

LEMMA BodyParts ==
    ASSUME ListsDecoded, NEW r \in Requests
    PROVE  /\ opening(r.op) \in Bytes /\ Len(opening(r.op)) = 4
           /\ nameOf(r) \in Bytes /\ params(r) \in Bytes
           /\ r.op \in Short /\ r.cut \in Nat
           /\ wholeBody(r) = Cat(opening(r.op), Cat(nameOf(r), params(r)))
           /\ wholeBody(r) \in Bytes
           /\ Len(wholeBody(r)) = 4 + Len(nameOf(r)) + Len(params(r))
           /\ r.cut <= Len(wholeBody(r)) /\ Len(wholeBody(r)) <= maxMessage
<1> DEFINE H == opening(r.op)
           N == nameOf(r)
           P == params(r)
<1>1. Sendable(r)
  BY DEF ListsDecoded
<1>2. r.op \in Short /\ P \in Bytes /\ Len(wholeBody(r)) <= maxMessage /\ r.cut \in 0..Len(wholeBody(r))
  BY <1>1 DEF Sendable
<1>3. H \in Bytes /\ Len(H) = 4
  BY <1>2, Opening
<1>4. N \in Bytes
  <2>1. CacheName \in Seq(Byte \ {0})
    BY DEF ListsDecoded, NamesDecoded
  <2>2. PutCName(CacheName) \in Bytes
    BY <2>1, NameBytes
  <2> QED  BY <2>2, Nothing DEF nameOf
<1>5. wholeBody(r) = Cat(Cat(H, N), P)
  BY Zenon DEF wholeBody, opening, nameOf, Cat
<1> HIDE DEF H, N, P
<1>6. Cat(Cat(H, N), P) = Cat(H, Cat(N, P))
  BY <1>2, <1>3, <1>4, Associative
<1>7. PICK q \in Bytes : q = Cat(N, P) /\ Len(q) = Len(N) + Len(P)
  BY <1>2, <1>4, Catenation
<1>8. Cat(H, q) \in Bytes /\ Len(Cat(H, q)) = Len(H) + Len(q)
  BY <1>3, Catenation
<1>9. wholeBody(r) = Cat(H, q)
  BY <1>5, <1>6, <1>7
<1>10. Len(N) \in Nat /\ Len(P) \in Nat
  BY <1>2, <1>4, Lengths
<1>11. Len(wholeBody(r)) = 4 + Len(N) + Len(P)
  BY <1>3, <1>7, <1>8, <1>9, <1>10
<1>12. r.cut \in Nat /\ r.cut <= Len(wholeBody(r))
  BY <1>2, <1>8, <1>9, Lengths
<1> QED  BY <1>2, <1>3, <1>4, <1>7, <1>8, <1>9, <1>11, <1>12 DEF H, N, P

\* What is left of a request: all of it in front of its parameters, or a
\* beginning of the name, or of the header.
LEMMA BodyCut ==
    ASSUME ListsDecoded, NEW r \in Requests
    PROVE  /\ body(r) \in Bytes /\ Len(body(r)) <= maxMessage
           /\ r.cut <= Len(params(r)) =>
                /\ givenParams(r) \in Bytes
                /\ r.cut = 0 => givenParams(r) = params(r)
                /\ body(r) = Cat(opening(r.op), Cat(nameOf(r), givenParams(r)))
           /\ r.cut > Len(params(r)) /\ r.cut <= Len(params(r)) + Len(nameOf(r)) =>
                \E n \in 0..Len(nameOf(r)) - 1 :
                    body(r) = Cat(opening(r.op), SubSeq(nameOf(r), 1, n))
           /\ r.cut > Len(params(r)) + Len(nameOf(r)) => Len(body(r)) < 4
<1> DEFINE H == opening(r.op)
           N == nameOf(r)
           P == params(r)
           b == wholeBody(r)
           L == Len(b) - r.cut
           q == Cat(N, P)
<1>1. /\ H \in Bytes /\ Len(H) = 4 /\ N \in Bytes /\ P \in Bytes /\ b \in Bytes
      /\ b = Cat(H, q) /\ Len(b) = 4 + Len(N) + Len(P)
      /\ r.cut \in Nat /\ r.cut <= Len(b) /\ Len(b) <= maxMessage
      /\ Len(N) \in Nat /\ Len(P) \in Nat
  BY BodyParts, Lengths
<1>2. body(r) = SubSeq(b, 1, L)
  BY DEF body
<1>3. q \in Bytes /\ Len(q) = Len(N) + Len(P)
  BY <1>1, Catenation
<1>4. givenParams(r) = SubSeq(P, 1, Len(P) - r.cut)
  BY DEF givenParams
<1> HIDE DEF H, N, P, b, q
<1>5. L \in 0..Len(b) /\ L \in Nat /\ L = 4 + Len(N) + Len(P) - r.cut
  BY <1>1
<1>50. PICK c, ln, lp \in Nat : c = r.cut /\ ln = Len(N) /\ lp = Len(P) /\ L = (4 + ln + lp) - c
  BY <1>1, <1>5
<1>6. body(r) \in Bytes /\ Len(body(r)) = L
  BY <1>1, <1>2, <1>5, Beginnings
<1>7. Len(body(r)) <= maxMessage
  BY <1>1, <1>5, <1>6 DEF maxMessage
<1>8. ASSUME L > 4  PROVE body(r) = Cat(H, SubSeq(q, 1, L - 4))
  <2>1. L \in 0..Len(H) + Len(q) /\ ~(L <= Len(H)) /\ L - Len(H) = L - 4
    BY <1>1, <1>3, <1>5, <1>8
  <2>2. SubSeq(Cat(H, q), 1, L) = Cat(H, SubSeq(q, 1, L - Len(H)))
    <3> HIDE DEF L
    <3> QED  BY <1>1, <1>3, <2>1, PrefixOfCat
  <2> QED  BY <1>1, <1>2, <2>1, <2>2, Zenon
<1>9. ASSUME L = 4  PROVE body(r) = H
  <2>1. L \in 0..Len(H) + Len(q) /\ L <= Len(H) /\ L = Len(H) /\ L \in 0..Len(H)
    BY <1>1, <1>3, <1>5, <1>9
  <2>2. SubSeq(Cat(H, q), 1, L) = SubSeq(H, 1, L)
    <3> HIDE DEF L
    <3> QED  BY <1>1, <1>3, <2>1, PrefixOfCat
  <2>3. SubSeq(H, 1, L) = H
    <3> HIDE DEF L
    <3> QED  BY <1>1, <2>1, Beginnings
  <2> QED  BY <1>1, <1>2, <2>2, <2>3, Zenon
<1>10. ASSUME r.cut <= Len(P)
       PROVE  /\ givenParams(r) \in Bytes
              /\ r.cut = 0 => givenParams(r) = P
              /\ body(r) = Cat(H, Cat(N, givenParams(r)))
  <2>1. PICK k \in 0..Len(P) : k = Len(P) - r.cut /\ k \in Nat /\ (r.cut = 0 => k = Len(P))
    BY <1>1, <1>10
  <2>2. /\ SubSeq(P, 1, k) \in Bytes /\ Len(SubSeq(P, 1, k)) = k
        /\ r.cut = 0 => SubSeq(P, 1, k) = P
    BY <1>1, <2>1, Beginnings
  <2>3. givenParams(r) = SubSeq(P, 1, k)
    BY <1>4, <2>1
  <2>4. CASE Len(N) + k = 0
    <3>0. Len(N) = 0 /\ k = 0
      BY <1>1, <2>1, <2>4
    <3>1. N = <<>> /\ SubSeq(P, 1, k) = <<>>
      BY <1>1, <2>2, <3>0, Lengths
    <3>2. Cat(N, SubSeq(P, 1, k)) = <<>>
      BY <3>1, Nothing
    <3>3. body(r) = H
      BY <1>1, <1>5, <1>9, <2>1, <3>0
    <3> QED  BY <1>1, <2>2, <2>3, <3>2, <3>3, Nothing
  <2>5. CASE Len(N) + k > 0
    <3>1. L > 4 /\ L - 4 = Len(N) + k
      <4>1. k = lp - c /\ ln + k > 0 /\ L = (4 + ln + lp) - c /\ k \in Int
        BY <1>50, <2>1, <2>5
      <4> HIDE DEF L
      <4>2. L > 4 /\ L - 4 = ln + k
        BY <4>1
      <4> QED  BY <1>50, <4>2
    <3>2. body(r) = Cat(H, SubSeq(q, 1, Len(N) + k))
      BY <1>8, <3>1
    <3>3. SubSeq(q, 1, Len(N) + k) = Cat(N, SubSeq(P, 1, k))
      <4>1. CASE k = 0
        <5>1. SubSeq(P, 1, k) = <<>>
          BY <2>2, <4>1, Lengths
        <5>2. PICK n \in 0..Len(N) + Len(P) : n = Len(N) + k /\ n <= Len(N) /\ n = Len(N) /\ n \in 0..Len(N)
          BY <1>1, <2>1, <4>1
        <5>3. SubSeq(q, 1, n) = SubSeq(N, 1, n)
          BY <1>1, <5>2, PrefixOfCat DEF q
        <5>4. SubSeq(N, 1, n) = N
          BY <1>1, <5>2, Beginnings
        <5> QED  BY <1>1, <5>1, <5>2, <5>3, <5>4, Nothing
      <4>2. CASE k > 0
        <5>1. PICK n \in 0..Len(N) + Len(P) : n = Len(N) + k /\ ~(n <= Len(N)) /\ n - Len(N) = k
          <6>1. PICK j \in Int : j = k /\ j > 0 /\ j = lp - c
            BY <1>50, <2>1, <4>2
          <6>2. ln + j \in 0..ln + lp /\ ~(ln + j <= ln) /\ (ln + j) - ln = j
            BY <6>1
          <6> QED  BY <1>50, <6>1, <6>2, Zenon
        <5>2. SubSeq(q, 1, n) = Cat(N, SubSeq(P, 1, n - Len(N)))
          BY <1>1, <5>1, PrefixOfCat DEF q
        <5> QED  BY <5>1, <5>2, Zenon
      <4> QED  BY <2>1, <4>1, <4>2
    <3> QED  BY <2>2, <2>3, <3>2, <3>3
  <2> QED  BY <1>1, <2>1, <2>4, <2>5
<1>11. ASSUME r.cut > Len(P), r.cut <= Len(P) + Len(N)
       PROVE  \E n \in 0..Len(N) - 1 : body(r) = Cat(H, SubSeq(N, 1, n))
  <2>0. PICK n \in Int : n = L - 4
    BY <1>5
  <2>1. n \in 0..Len(N) - 1 /\ n \in Nat /\ n <= Len(N) /\ n \in 0..Len(N) + Len(P) /\ n \in 0..Len(N)
    <3>1. n = L - 4 /\ L = (4 + ln + lp) - c /\ c > lp /\ c <= lp + ln /\ L \in Int
      BY <1>5, <1>50, <1>11, <2>0
    <3> HIDE DEF L
    <3>2. n \in 0..ln - 1 /\ n \in Nat /\ n <= ln /\ n \in 0..ln + lp /\ n \in 0..ln
      BY <3>1
    <3> QED  BY <1>50, <3>2, Zenon
  <2>2. SubSeq(q, 1, n) = SubSeq(N, 1, n)
    BY <1>1, <2>1, PrefixOfCat DEF q
  <2>3. CASE n = 0
    <3>1. SubSeq(N, 1, n) \in Bytes /\ Len(SubSeq(N, 1, n)) = 0
      BY <1>1, <2>1, <2>3, Beginnings
    <3>2. SubSeq(N, 1, n) = <<>>
      BY <3>1, Lengths
    <3>3. body(r) = H
      BY <1>5, <1>9, <2>0, <2>3
    <3>4. body(r) = Cat(H, SubSeq(N, 1, n))
      BY <1>1, <3>2, <3>3, Nothing
    <3> QED  BY <2>1, <3>4
  <2>4. CASE n > 0
    <3>1. L > 4
      BY <1>5, <2>0, <2>4
    <3> QED  BY <1>8, <2>0, <2>1, <2>2, <3>1
  <2> QED  BY <2>1, <2>3, <2>4
<1>12. ASSUME r.cut > Len(P) + Len(N)  PROVE Len(body(r)) < 4
  BY <1>1, <1>5, <1>6, <1>12
<1> QED  BY <1>6, <1>7, <1>10, <1>11, <1>12 DEF H, N, P

\* An opcode the server knows takes the cache's name just when its clients put
\* it in.
LEMMA NamesMatch ==
    ASSUME NEW o, Supported(o)
    PROVE  HasLeadingName(o) <=> o \notin nameless
BY DEF Supported, HasLeadingName, nameless, OpNoop, OpGetName, OpGenNew, OpInitialize, OpDestroy,
       OpStore, OpRetrieve, OpGetPrincipal, OpGetCredUUIDList, OpGetCredByUUID, OpRemoveCred,
       OpGetCacheUUIDList, OpGetCacheByUUID, OpGetDefaultCache, OpSetDefaultCache,
       OpGetKDCOffset, OpSetKDCOffset, OpGetCredList, OpReplace

\* dispatch finds the opcode and the parameters, or refuses the request.
LEMMA Dispatched ==
    ASSUME ListsDecoded, NEW r \in Requests
    PROVE  /\ r.cut > Len(params(r)) \/ ~Supported(r.op) =>
                dispatch(body(r)) = Reply(CCNoSupp, <<>>)
           /\ r.cut <= Len(params(r)) /\ Supported(r.op) =>
                /\ ParseRequestHeader(body(r)).v = r.op
                /\ dispatch(body(r)) = handle(r.op, givenParams(r))
<1> DEFINE H == opening(r.op)
           N == nameOf(r)
           P == params(r)
           b == body(r)
           header == ParseRequestHeader(b)
           cname == IF HasLeadingName(header.v) THEN SplitCName(header.rest)
                    ELSE [v |-> Nil, rest |-> header.rest]
<1>1. /\ r.op \in Short /\ r.cut \in Nat /\ N \in Bytes /\ P \in Bytes /\ b \in Bytes
      /\ Len(N) \in Nat /\ Len(P) \in Nat
  BY BodyParts, BodyCut, Lengths
<1>2. /\ Truncated \notin Bytes
      /\ CacheName \in Seq(Byte \ {0})
  BY DEF ListsDecoded, NamesDecoded
<1>3. dispatch(b) = IF header.rest = Truncated \/ cname.rest = Truncated \/ ~Supported(header.v)
                    THEN Reply(CCNoSupp, <<>>) ELSE handle(header.v, cname.rest)
  BY Zenon DEF dispatch
<1>4. CASE r.cut > Len(P) + Len(N)
  <2>1. Len(b) < 4
    BY <1>4, BodyCut
  <2>2. header.rest = Truncated
    BY <2>1 DEF ParseRequestHeader, Failed
  <2>3. dispatch(b) = Reply(CCNoSupp, <<>>)
    BY <1>3, <2>2, Zenon
  <2>4. ~(r.cut <= Len(P))
    BY <1>1, <1>4
  <2> QED  BY <2>3, <2>4
<1>5. CASE r.cut > Len(P) /\ r.cut <= Len(P) + Len(N)
  <2>1. PICK n \in 0..Len(N) - 1 : b = Cat(H, SubSeq(N, 1, n))
    BY <1>5, BodyCut
  <2>2. n \in 0..Len(N) /\ n < Len(N)
    BY <1>1
  <2>3. SubSeq(N, 1, n) \in Bytes
    BY <1>1, <2>2, Beginnings
  <2>4. header = [v |-> r.op, rest |-> SubSeq(N, 1, n)]
    BY <1>1, <1>2, <2>1, <2>3, Header
  <2>5. r.op \notin nameless /\ N = PutCName(CacheName)
    <3>1. CASE r.op \in nameless
      <4>1. N = <<>>
        BY <3>1 DEF nameOf
      <4>2. Len(N) = 0
        BY <4>1, Nothing
      <4> QED  BY <1>1, <2>2, <4>2
    <3> QED  BY <3>1 DEF nameOf
  <2>6. CASE Supported(r.op)
    <3>1. HasLeadingName(r.op)
      BY <2>5, <2>6, NamesMatch
    <3>2. n \in 0..Len(CacheName)
      <4>1. Len(N) = Len(CacheName) + 1 /\ Len(CacheName) \in Nat
        BY <1>2, <2>5, NameBytes, Lengths
      <4> QED  BY <2>2, <4>1
    <3>3. SplitCName(SubSeq(N, 1, n)) = Failed
      BY <1>2, <2>5, <3>2, NameCut
    <3>4. cname = Failed
      BY <2>4, <3>1, <3>3
    <3>5. cname.rest = Truncated
      BY <3>4 DEF Failed
    <3>6. dispatch(b) = Reply(CCNoSupp, <<>>)
      BY <1>3, <3>5, Zenon
    <3> QED  BY <1>1, <1>5, <3>6
  <2>7. CASE ~Supported(r.op)
    <3>1. ~Supported(header.v)
      BY <2>4, <2>7
    <3>2. dispatch(b) = Reply(CCNoSupp, <<>>)
      BY <1>3, <3>1, Zenon
    <3> QED  BY <2>7, <3>2
  <2> QED  BY <2>6, <2>7
<1>6. CASE r.cut <= Len(P)
  <2> DEFINE q == givenParams(r)
  <2>1. q \in Bytes /\ b = Cat(H, Cat(N, q))
    BY <1>6, BodyCut
  <2>2. Cat(N, q) \in Bytes
    BY <1>1, <2>1, Catenation
  <2>3. header = [v |-> r.op, rest |-> Cat(N, q)]
    BY <1>1, <1>2, <2>1, <2>2, Header
  <2>4. CASE Supported(r.op)
    <3>1. cname.rest = q
      <4>1. CASE r.op \in nameless
        <5>1. Cat(N, q) = q
          BY <2>1, <4>1, Nothing DEF nameOf
        <5>2. ~HasLeadingName(r.op)
          BY <2>4, <4>1, NamesMatch
        <5> QED  BY <2>3, <5>1, <5>2
      <4>2. CASE r.op \notin nameless
        <5>1. SplitCName(Cat(N, q)) = [v |-> CacheName, rest |-> q]
          BY <1>2, <2>1, <4>2, NameFound DEF nameOf
        <5>2. HasLeadingName(r.op)
          BY <2>4, <4>2, NamesMatch
        <5> QED  BY <2>3, <5>1, <5>2
      <4> QED  BY <4>1, <4>2
    <3>2. header.v = r.op /\ header.rest # Truncated /\ cname.rest # Truncated
      BY <1>2, <2>1, <2>2, <2>3, <3>1
    <3> HIDE DEF header, cname
    <3>3. dispatch(b) = handle(r.op, q)
      BY <1>3, <2>4, <3>1, <3>2
    <3> QED  BY <1>1, <1>6, <2>4, <3>2, <3>3 DEF header
  <2>5. CASE ~Supported(r.op)
    <3>1. ~Supported(header.v)
      BY <2>3, <2>5
    <3>2. dispatch(b) = Reply(CCNoSupp, <<>>)
      BY <1>3, <3>1, Zenon
    <3> QED  BY <2>5, <3>2
  <2> QED  BY <2>4, <2>5
<1>7. r.cut <= Len(P) \/ (r.cut > Len(P) /\ r.cut <= Len(P) + Len(N)) \/ r.cut > Len(P) + Len(N)
  BY <1>1
<1> QED  BY <1>4, <1>5, <1>6, <1>7

-----------------------------------------------------------------------------
(* What is done for a request, and what its client reads.                  *)

\* The client that has sent r, and for which the Client has returned rs, makes
\* of this reply what it is to make of it.
Answers(r, rs, code, payload) ==
    /\ Fits(code, payload)
    /\ IF r.cut > 0 THEN payload = <<>>
       ELSE [code |-> code, value |-> IF code = 0 THEN meaning(r.op, payload) ELSE Nil]
                = answer(r, rs)

LEMMA EmptyFits ==
    ASSUME NEW code \in Word  PROVE Fits(code, <<>>)
<1>1. 4 + 0 \in Word
  BY DEF Word
<1> QED  BY <1>1, Nothing DEF Fits

LEMMA Codes ==
    ASSUME ListsDecoded
    PROVE  0 \in Word /\ CCNotFound \in Word /\ CCNoSupp \in Word /\ CCNotFound # 0 /\ CCNoSupp # 0
<1>1. 0 \in Word
  BY DEF Word
<1> QED  BY <1>1, ServerAssumption DEF ListsDecoded

USE DEF  OpNoop, OpGetName, OpGenNew, OpInitialize, OpDestroy, OpStore, OpRetrieve, OpGetPrincipal,
         OpGetCredUUIDList, OpGetCredByUUID, OpRemoveCred, OpGetCacheUUIDList, OpGetCacheByUUID,
         OpGetDefaultCache, OpSetDefaultCache, OpGetKDCOffset, OpSetKDCOffset, OpGetCredList, OpReplace

\* The opcodes without a Client method.
plain == {OpNoop, OpSetDefaultCache, OpSetKDCOffset}
naming == {OpGenNew, OpGetDefaultCache}
asking == {OpGetPrincipal, OpDestroy, OpGetCredUUIDList, OpGetCredList}

LEMMA Opcodes ==
    ASSUME NEW o
    PROVE  /\ Supported(o) <=>
                \/ o \in plain \/ o \in naming \/ o = OpGetCacheUUIDList \/ o = OpGetCacheByUUID
                \/ o = OpGetKDCOffset
                \/ o \in asking \/ o = OpGetCredByUUID \/ o \in {OpRetrieve, OpRemoveCred}
                \/ o = OpStore \/ o = OpInitialize
           /\ ~Supported(o) => methodOf(o) = Nil
           /\ o \in plain \cup naming \cup {OpGetCacheUUIDList, OpGetCacheByUUID, OpGetKDCOffset} =>
                methodOf(o) = Nil
BY DEF Supported, methodOf, plain, naming, asking

LEMMA Refused ==
    ASSUME ListsDecoded, NEW r \in Requests, r.cut > Len(params(r)) \/ ~Supported(r.op)
    PROVE  /\ asksForNone(r)
           /\ dispatch(body(r)) = Reply(CCNoSupp, <<>>)
           /\ Answers(r, <<>>, CCNoSupp, <<>>)
<1>1. dispatch(body(r)) = Reply(CCNoSupp, <<>>)
  BY Dispatched
<1>2. r.cut \in Nat /\ Len(params(r)) \in Nat
  BY BodyParts, Lengths
<1>3. asksForNone(r)
  <2>1. CASE ~Supported(r.op)
    BY <2>1, Opcodes DEF asksForNone
  <2>2. CASE r.cut > Len(params(r))
    <3>1. ASSUME r.op = OpStore  PROVE FALSE
      <4>1. params(r) = r.cred
        BY <3>1 DEF params, OpStore, OpGetCredByUUID, OpGetCacheByUUID, OpInitialize, OpRetrieve,
               OpRemoveCred, OpSetKDCOffset
      <4>2. r.cut <= Len(r.cred)
        BY <3>1 DEF ListsDecoded, Sendable
      <4> QED  BY <1>2, <2>2, <4>1, <4>2
    <3>2. r.cut > 0
      BY <1>2, <2>2
    <3> QED  BY <3>1, <3>2 DEF asksForNone
  <2> QED  BY <2>1, <2>2
<1>4. ASSUME r.cut = 0
      PROVE  answer(r, <<>>) = [code |-> CCNoSupp, value |-> Nil]
  <2>1. ~Supported(r.op) /\ methodOf(r.op) = Nil
    BY <1>2, <1>4, Opcodes
  <2>2. /\ r.op \notin {OpNoop, OpDestroy, OpSetDefaultCache, OpSetKDCOffset}
        /\ r.op \notin {OpGenNew, OpGetDefaultCache} /\ r.op # OpGetCacheUUIDList
        /\ r.op # OpGetCacheByUUID /\ r.op # OpGetKDCOffset /\ r.op # OpGetCredByUUID
    BY <2>1 DEF Supported
  <2> QED  BY <2>1, <2>2 DEF answer
<1>5. Answers(r, <<>>, CCNoSupp, <<>>)
  BY <1>2, <1>4, Codes, EmptyFits DEF Answers
<1> QED  BY <1>1, <1>3, <1>5

LEMMA NameReply ==
    ASSUME ListsDecoded
    PROVE  Fits(0, PutCName(CacheName)) /\ SplitCName(PutCName(CacheName)).v = CacheName
<1> DEFINE p == PutCName(CacheName)
<1>1. CacheName \in Seq(Byte \ {0}) /\ 5 + Len(CacheName) \in Word
  BY DEF ListsDecoded, NamesDecoded
<1>2. CacheName \in Bytes /\ p \in Bytes /\ Len(p) = Len(CacheName) + 1
  BY <1>1, NameBytes
<1>3. SplitCName(p).v = CacheName
  <2>1. Cat(p, <<>>) = p /\ <<>> \in Bytes
    BY <1>2, Nothing
  <2>2. SplitCName(Cat(p, <<>>)) = [v |-> CacheName, rest |-> <<>>]
    BY <1>1, <2>1, NameFound
  <2> QED  BY <2>1, <2>2
<1>4. 4 + Len(p) = 5 + Len(CacheName)
  BY <1>2, Lengths
<1> HIDE DEF p
<1>5. Fits(0, p)
  BY <1>1, <1>2, <1>4, Codes DEF Fits
<1> QED  BY <1>3, <1>5 DEF p

\* A request that needs no Client method is answered at once.
LEMMA Immediate ==
    ASSUME ListsDecoded, NEW r \in Requests, r.cut <= Len(params(r)),
           r.op \in plain \cup naming \cup {OpGetCacheUUIDList, OpGetCacheByUUID, OpGetKDCOffset}
    PROVE  /\ asksForNone(r)
           /\ \E code, payload :
                /\ dispatch(body(r)) = Reply(code, payload)
                /\ Answers(r, <<>>, code, payload)
<1> DEFINE q == givenParams(r)
<1>1. methodOf(r.op) = Nil /\ Supported(r.op)
  BY Opcodes
<1>2. asksForNone(r)
  BY <1>1 DEF asksForNone
<1>3. dispatch(body(r)) = handle(r.op, q)
  BY <1>1, Dispatched
<1>4. r.cut \in Nat
  BY BodyParts
<1> HIDE DEF q
<1>5. CASE r.op \in plain
  <2>1. handle(r.op, q) = Reply(0, <<>>)
    BY <1>5 DEF handle, plain
  <2>2. meaning(r.op, <<>>) = Nil
    BY <1>5 DEF meaning, plain
  <2>3. answer(r, <<>>) = [code |-> 0, value |-> Nil]
    BY <1>5 DEF answer, Supported, plain
  <2>4. Answers(r, <<>>, 0, <<>>)
    BY <2>2, <2>3, Codes, EmptyFits DEF Answers
  <2> QED  BY <1>2, <1>3, <2>1, <2>4
<1>6. CASE r.op \notin plain \cup {OpGetCacheByUUID}
  <2>1. params(r) = <<>>
    BY <1>6 DEF params, plain, naming
  <2>2. r.cut = 0
    BY <1>4, <2>1, Nothing
  <2>3. CASE r.op \in naming
    <3> DEFINE p == PutCName(CacheName)
    <3>1. handle(r.op, q) = Reply(0, p)
      BY <2>3 DEF handle, naming
    <3>2. meaning(r.op, p) = SplitCName(p).v
      BY <2>3 DEF meaning, naming
    <3>3. answer(r, <<>>) = [code |-> 0, value |-> CacheName]
      BY <2>3 DEF answer, Supported, naming
    <3>4. Fits(0, p) /\ SplitCName(p).v = CacheName
      BY NameReply
    <3> HIDE DEF p
    <3>5. Answers(r, <<>>, 0, p)
      BY <2>2, <3>2, <3>3, <3>4 DEF Answers
    <3> QED  BY <1>2, <1>3, <3>1, <3>5
  <2>4. CASE r.op = OpGetCacheUUIDList
    <3> DEFINE p == PutUUIDList(<<CacheUUID>>)
    <3>1. handle(r.op, q) = Reply(0, p)
      BY <2>4 DEF handle
    <3>2. meaning(r.op, p) = ReadUUIDList(p)
      BY <2>4 DEF meaning
    <3>3. answer(r, <<>>) = [code |-> 0, value |-> <<CacheUUID>>]
      BY <2>4 DEF answer, Supported
    <3>4. ReadUUIDList(p) = <<CacheUUID>> /\ p \in Bytes /\ 4 + Len(p) \in Word
      BY DEF ListsDecoded, NamesDecoded
    <3> HIDE DEF p
    <3>5. Fits(0, p)
      BY <3>4, Codes DEF Fits
    <3>6. Answers(r, <<>>, 0, p)
      BY <2>2, <3>2, <3>3, <3>4, <3>5 DEF Answers
    <3> QED  BY <1>2, <1>3, <3>1, <3>6
  <2>5. CASE r.op = OpGetKDCOffset
    <3> DEFINE p == PutUint32(0)
    <3>1. handle(r.op, q) = Reply(0, p)
      BY <2>5 DEF handle
    <3>2. meaning(r.op, p) = ReadUint32(p).v
      BY <2>5 DEF meaning
    <3>3. answer(r, <<>>) = [code |-> 0, value |-> 0]
      BY <2>5 DEF answer, Supported
    <3>4. p \in Bytes /\ Len(p) = 4
      BY Codes, PutNumber
    <3>5. ReadUint32(p).v = 0
      <4>1. <<>> \in Bytes /\ Truncated \notin Bytes /\ 0 \in Word
        BY Nothing, Codes DEF ListsDecoded
      <4>2. Same(p, <<>>, PutUint32(0), <<>>)
        BY Zenon DEF Same
      <4> HIDE DEF p
      <4>3. ~(Len(p) < 4)
        BY <3>4
      <4>4. ReadUint32(p) = [v |-> 0, rest |-> Drop(p, 4)]
        BY <3>4, <4>1, <4>2, <4>3, GetNumber
      <4> QED  BY <4>4
    <3> HIDE DEF p
    <3>6. Fits(0, p)
      <4>1. 4 + 4 \in Word
        BY DEF Word
      <4> QED  BY <3>4, <4>1, Codes DEF Fits
    <3>7. Answers(r, <<>>, 0, p)
      BY <2>2, <3>2, <3>3, <3>5, <3>6 DEF Answers
    <3> QED  BY <1>2, <1>3, <3>1, <3>7
  <2> QED  BY <1>6, <2>3, <2>4, <2>5
<1>7. CASE r.op = OpGetCacheByUUID
  <2>1. handle(r.op, q) = IF ReadUUIDList(q) = <<CacheUUID>> THEN Reply(0, PutCName(CacheName))
                          ELSE Reply(CCNotFound, <<>>)
    BY <1>7 DEF handle
  <2>2. UUIDsDecoded(r)
    BY <1>7 DEF ListsDecoded, ParamsDecoded
  <2>3. answer(r, <<>>) = IF r.uuids = <<CacheUUID>> THEN [code |-> 0, value |-> CacheName]
                          ELSE [code |-> CCNotFound, value |-> Nil]
    BY <1>7 DEF answer, Supported
  <2>4. CASE ReadUUIDList(q) = <<CacheUUID>>
    <3> DEFINE p == PutCName(CacheName)
    <3>1. r.cut = 0
      <4>1. <<CacheUUID>> \in Seq(Bytes) /\ Len(<<CacheUUID>>) = 1
        BY DEF ListsDecoded, NamesDecoded
      <4>2. Truncated \notin Seq(Bytes)
        BY DEF ListsDecoded
      <4>3. ReadUUIDList(q) # Truncated /\ Len(ReadUUIDList(q)) = 1
        BY <2>4, <4>1, <4>2
      <4> QED  BY <2>2, <4>3 DEF UUIDsDecoded, q
    <3>2. r.uuids = <<CacheUUID>>
      BY <2>2, <2>4, <3>1 DEF UUIDsDecoded, q
    <3>3. meaning(r.op, p) = SplitCName(p).v
      BY <1>7 DEF meaning
    <3>4. Fits(0, p) /\ SplitCName(p).v = CacheName
      BY NameReply
    <3>5. handle(r.op, q) = Reply(0, p)
      BY <2>1, <2>4
    <3> HIDE DEF p
    <3>6. Answers(r, <<>>, 0, p)
      BY <2>3, <3>1, <3>2, <3>3, <3>4 DEF Answers
    <3> QED  BY <1>2, <1>3, <3>5, <3>6
  <2>5. CASE ReadUUIDList(q) # <<CacheUUID>>
    <3>1. r.cut = 0 => r.uuids # <<CacheUUID>>
      BY <2>2, <2>5 DEF UUIDsDecoded, q
    <3>2. Answers(r, <<>>, CCNotFound, <<>>)
      BY <1>4, <2>3, <3>1, Codes, EmptyFits DEF Answers
    <3>3. handle(r.op, q) = Reply(CCNotFound, <<>>)
      BY <2>1, <2>5
    <3> QED  BY <1>2, <1>3, <3>2, <3>3
  <2> QED  BY <2>4, <2>5
<1> QED  BY <1>5, <1>6, <1>7

LEMMA NoHeader == UnmarshalMatchCredential(<<>>) = Failed
<1>1. ReadUint32(<<>>).rest = Truncated
  BY DEF ReadUint32, Failed
<1> QED  BY <1>1, Zenon DEF UnmarshalMatchCredential

\* The other requests call their method, with what their client has put in; or
\* are refused, when what is missing is in their parameters.
LEMMA Calling ==
    ASSUME ListsDecoded, NEW r \in Requests, r.cut <= Len(params(r)), Supported(r.op),
           r.op \notin plain \cup naming \cup {OpGetCacheUUIDList, OpGetCacheByUUID, OpGetKDCOffset}
    PROVE  \/ /\ ~asksForNone(r)
              /\ methodOf(r.op) \in Methods
              /\ dispatch(body(r)) = Call(methodOf(r.op), argOf(r))
           \/ /\ asksForNone(r)
              /\ \E code, payload :
                    /\ dispatch(body(r)) = Reply(code, payload)
                    /\ Answers(r, <<>>, code, payload)
<1> DEFINE q == givenParams(r)
<1>1. dispatch(body(r)) = handle(r.op, q)
  BY Dispatched
<1>2. r.cut \in Nat /\ q \in Bytes /\ Len(params(r)) \in Nat
  BY BodyParts, BodyCut, Lengths
<1>3. Truncated \notin Bytes /\ Truncated \notin Seq(Bytes) /\ Nil \notin Methods /\ r # Huge
  BY DEF ListsDecoded
<1>4. Sendable(r) /\ ParamsDecoded(r)
  BY DEF ListsDecoded
<1> HIDE DEF q
<1>5. ASSUME methodOf(r.op) \in Methods, r.cut = 0, r.op # OpGetCredByUUID  PROVE ~asksForNone(r)
  BY <1>3, <1>5 DEF asksForNone
<1>6. CASE r.op \in asking
  <2>1. params(r) = <<>>
    BY <1>6 DEF params, asking
  <2>2. r.cut = 0
    BY <1>2, <2>1, Nothing
  <2>3. handle(r.op, q) = Call(methodOf(r.op), Nil) /\ methodOf(r.op) \in Methods
    BY <1>6 DEF handle, methodOf, Methods, asking
  <2>4. argOf(r) = Nil
    BY <1>6 DEF argOf, asking
  <2>5. r.op # OpGetCredByUUID
    BY <1>6 DEF asking
  <2> QED  BY <1>1, <1>5, <2>2, <2>3, <2>4, <2>5
<1>7. CASE r.op = OpGetCredByUUID
  <2> DEFINE us == ReadUUIDList(q)
  <2>1. handle(r.op, q) = IF us = Truncated \/ Len(us) # 1 THEN Reply(CCNotFound, <<>>)
                          ELSE Call("EntryByUUID", us[1])
    BY <1>7 DEF handle
  <2>2. methodOf(r.op) = "EntryByUUID" /\ methodOf(r.op) \in Methods
    BY <1>7 DEF methodOf, Methods
  <2>3. IF r.cut = 0 THEN us = r.uuids /\ us \in Seq(Bytes) ELSE us = Truncated \/ Len(us) # 1
    BY <1>4, <1>7, Zenon DEF ParamsDecoded, UUIDsDecoded, q
  <2> HIDE DEF us
  <2>4. CASE us = Truncated \/ Len(us) # 1
    <3>1. handle(r.op, q) = Reply(CCNotFound, <<>>)
      BY <2>1, <2>4
    <3>2. asksForNone(r)
      <4>1. CASE r.cut = 0
        <5>1. Len(r.uuids) # 1
          BY <1>3, <2>3, <2>4, <4>1
        <5> QED  BY <1>7, <5>1 DEF asksForNone
      <4>2. CASE r.cut # 0
        <5>1. r.cut > 0 /\ r.op # OpStore
          BY <1>2, <1>7, <4>2
        <5> QED  BY <5>1 DEF asksForNone
      <4> QED  BY <4>1, <4>2
    <3>3. answer(r, <<>>) = [code |-> CCNotFound, value |-> Nil]
      BY <1>7 DEF answer, Supported
    <3>4. Answers(r, <<>>, CCNotFound, <<>>)
      BY <1>2, <3>3, Codes, EmptyFits DEF Answers
    <3> QED  BY <1>1, <3>1, <3>2, <3>4
  <2>5. CASE us # Truncated /\ Len(us) = 1
    <3>1. handle(r.op, q) = Call("EntryByUUID", us[1])
      BY <2>1, <2>5
    <3>2. r.cut = 0 /\ us = r.uuids
      BY <2>3, <2>5
    <3>3. argOf(r) = r.uuids[1]
      BY <1>7 DEF argOf
    <3>4. ~asksForNone(r)
      BY <1>3, <1>7, <2>2, <2>5, <3>2 DEF asksForNone
    <3> QED  BY <1>1, <2>2, <3>1, <3>2, <3>3, <3>4
  <2> QED  BY <2>4, <2>5
<1>8. CASE r.op \in {OpRetrieve, OpRemoveCred}
  <2> DEFINE mc == UnmarshalMatchCredential(Drop(q, 4))
  <2>1. handle(r.op, q) = IF Len(q) < 4 \/ mc.rest = Truncated THEN Reply(CCNoSupp, <<>>)
                          ELSE Call(methodOf(r.op), mc.v)
    BY <1>8 DEF handle, methodOf
  <2>2. methodOf(r.op) \in Methods /\ r.op # OpGetCredByUUID /\ r.op # OpStore
    BY <1>8 DEF methodOf, Methods
  <2>3. IF r.cut = 0 THEN mc = [v |-> argOf(r), rest |-> <<>>] ELSE mc.rest = Truncated
    BY <1>4, <1>8, Zenon DEF ParamsDecoded, MatchDecoded, q
  <2> HIDE DEF mc
  <2>4. CASE r.cut = 0
    <3>1. mc.rest # Truncated /\ mc.v = argOf(r)
      BY <1>3, <2>3, <2>4, Nothing
    <3>2. ~(Len(q) < 4)
      <4>1. ASSUME Len(q) < 4  PROVE mc.rest = Truncated
        <5>1. Drop(q, 4) = <<>>
          BY <1>2, <4>1 DEF Drop, Bytes
        <5>2. mc = Failed
          BY <5>1, NoHeader DEF mc
        <5> QED  BY <5>2 DEF Failed
      <4> QED  BY <3>1, <4>1
    <3> QED  BY <1>1, <1>5, <2>1, <2>2, <2>4, <3>1, <3>2
  <2>5. CASE r.cut # 0
    <3>1. handle(r.op, q) = Reply(CCNoSupp, <<>>)
      BY <2>1, <2>3, <2>5
    <3>2. r.cut > 0
      BY <1>2, <2>5
    <3>3. asksForNone(r)
      BY <2>2, <3>2 DEF asksForNone
    <3>4. Answers(r, <<>>, CCNoSupp, <<>>)
      BY <3>2, Codes, EmptyFits DEF Answers
    <3> QED  BY <1>1, <3>1, <3>3, <3>4
  <2> QED  BY <2>4, <2>5
<1>9. CASE r.op = OpStore
  <2>1. handle(r.op, q) = Call("Store", q)
    BY <1>9 DEF handle
  <2>2. methodOf(r.op) = "Store" /\ methodOf(r.op) \in Methods /\ r.op # OpGetCredByUUID
    BY <1>9 DEF methodOf, Methods
  <2>3. argOf(r) = SubSeq(r.cred, 1, Len(r.cred) - r.cut)
    <3>1. r.op # OpGetCredByUUID /\ r.op \notin {OpRetrieve, OpRemoveCred} /\ r.op # OpInitialize
      BY <1>9 DEF OpStore, OpGetCredByUUID, OpRetrieve, OpRemoveCred, OpInitialize
    <3> QED  BY <1>9, <3>1, Zenon DEF argOf
  <2>4. params(r) = r.cred
    BY <1>9 DEF params, OpStore, OpGetCredByUUID, OpGetCacheByUUID, OpInitialize, OpRetrieve,
           OpRemoveCred, OpSetKDCOffset
  <2>5. q = argOf(r)
    BY <2>3, <2>4 DEF q, givenParams
  <2>6. ~asksForNone(r)
    BY <1>3, <1>9, <2>2 DEF asksForNone
  <2> QED  BY <1>1, <2>1, <2>2, <2>5, <2>6
<1>10. CASE r.op = OpInitialize
  <2> DEFINE p == UnmarshalPrincipal(q)
  <2>1. handle(r.op, q) = IF p.rest = Truncated THEN Reply(CCNoSupp, <<>>) ELSE Call("Initialize", p.v)
    BY <1>10 DEF handle
  <2>2. /\ methodOf(r.op) = "Initialize" /\ methodOf(r.op) \in Methods
        /\ r.op # OpGetCredByUUID /\ r.op # OpStore
    BY <1>10 DEF methodOf, Methods
  <2>3. IF r.cut = 0 THEN p = [v |-> argOf(r), rest |-> <<>>] ELSE p.rest = Truncated
    BY <1>4, <1>10, Zenon DEF ParamsDecoded, PrincipalDecoded, q
  <2> HIDE DEF p
  <2>4. CASE r.cut = 0
    <3>1. p.rest # Truncated /\ p.v = argOf(r)
      BY <1>3, <2>3, <2>4, Nothing
    <3> QED  BY <1>1, <1>5, <2>1, <2>2, <2>4, <3>1
  <2>5. CASE r.cut # 0
    <3>1. handle(r.op, q) = Reply(CCNoSupp, <<>>)
      BY <2>1, <2>3, <2>5
    <3>2. r.cut > 0
      BY <1>2, <2>5
    <3>3. asksForNone(r)
      BY <2>2, <3>2 DEF asksForNone
    <3>4. Answers(r, <<>>, CCNoSupp, <<>>)
      BY <3>2, Codes, EmptyFits DEF Answers
    <3> QED  BY <1>1, <3>1, <3>3, <3>4
  <2> QED  BY <2>4, <2>5
<1> QED  BY <1>6, <1>7, <1>8, <1>9, <1>10, Opcodes

\* What a request leads to: a reply at once, or the call it asks for.
LEMMA RequestServed ==
    ASSUME ListsDecoded, NEW r \in Requests
    PROVE  \/ /\ ~asksForNone(r)
              /\ methodOf(r.op) \in Methods
              /\ ParseRequestHeader(body(r)).v = r.op
              /\ dispatch(body(r)) = Call(methodOf(r.op), argOf(r))
           \/ /\ asksForNone(r)
              /\ \E code, payload :
                    /\ dispatch(body(r)) = Reply(code, payload)
                    /\ Answers(r, <<>>, code, payload)
<1>1. CASE r.cut > Len(params(r)) \/ ~Supported(r.op)
  BY <1>1, Refused
<1>2. CASE r.cut <= Len(params(r)) /\ Supported(r.op)
  <2>1. ParseRequestHeader(body(r)).v = r.op
    BY <1>2, Dispatched
  <2>2. CASE r.op \in plain \cup naming \cup {OpGetCacheUUIDList, OpGetCacheByUUID, OpGetKDCOffset}
    BY <1>2, <2>2, Immediate
  <2>3. CASE r.op \notin plain \cup naming \cup {OpGetCacheUUIDList, OpGetCacheByUUID, OpGetKDCOffset}
    BY <1>2, <2>1, <2>3, Calling
  <2> QED  BY <2>2, <2>3
<1>3. r.cut \in Nat /\ Len(params(r)) \in Nat
  BY BodyParts, Lengths
<1>4. r.cut > Len(params(r)) \/ r.cut <= Len(params(r))
  BY <1>3
<1> QED  BY <1>1, <1>2, <1>4

-----------------------------------------------------------------------------
(* What is answered once a Client method has returned.                     *)

\* The requests that are answered with what one call has returned: with a
\* value, or with its status only.
valued == {OpGetPrincipal, OpGetCredUUIDList, OpGetCredList, OpGetCredByUUID, OpRetrieve}
valueless == {OpRemoveCred, OpStore, OpInitialize}

LEMMA Callers ==
    ASSUME Nil \notin Methods, NEW o, methodOf(o) \in Methods
    PROVE  /\ o = OpDestroy \/ o \in valued \/ o \in valueless
           /\ o = OpDestroy => methodOf(o) = "DefaultPrincipal"
BY DEF methodOf, valued, valueless

LEMMA AnswerOf ==
    ASSUME NEW r, NEW res, r.op \in valued \cup valueless, methodOf(r.op) # Nil,
           r.op = OpGetCredByUUID => res # [code |-> 0, value |-> Nil]
    PROVE  answer(r, <<res>>) =
              IF res.code = 0 THEN [code |-> 0, value |-> shown(r.op, res.value)]
              ELSE [code |-> errorCode(res), value |-> Nil]
<1>1. /\ r.op \notin {OpNoop, OpDestroy, OpSetDefaultCache, OpSetKDCOffset}
      /\ r.op \notin {OpGenNew, OpGetDefaultCache} /\ r.op # OpGetCacheUUIDList
      /\ r.op # OpGetCacheByUUID /\ r.op # OpGetKDCOffset
  BY DEF valued, valueless
<1>2. PICK rs : rs = <<res>>
  OBVIOUS
<1>3. rs # <<>> /\ rs[1] = res
  BY <1>2
<1>4. r.op = OpGetCredByUUID => rs # <<[code |-> 0, value |-> Nil]>>
  BY <1>2
<1>5. ~(r.op = OpGetCredByUUID /\ (rs = <<>> \/ rs = <<[code |-> 0, value |-> Nil]>>))
  BY <1>3, <1>4
<1>6. answer(r, rs) =
              IF rs[1].code = 0 THEN [code |-> 0, value |-> shown(r.op, rs[1].value)]
              ELSE [code |-> errorCode(rs[1]), value |-> Nil]
  BY <1>1, <1>5, Zenon DEF answer
<1> QED  BY <1>2, <1>3, <1>6

\* DESTROY reports no error of what it calls.
LEMMA Destroyed ==
    ASSUME ListsDecoded, NEW r \in Requests, r.op = OpDestroy, NEW rs
    PROVE  Answers(r, rs, 0, <<>>)
<1>1. meaning(r.op, <<>>) = Nil
  BY DEF meaning
<1>2. answer(r, rs) = [code |-> 0, value |-> Nil]
  BY DEF answer, Supported
<1> QED  BY <1>1, <1>2, Codes, EmptyFits DEF Answers

LEMMA Resumed ==
    ASSUME ListsDecoded, NEW r \in Requests, ~asksForNone(r), methodOf(r.op) \in Methods,
           NEW res \in Results[methodOf(r.op)]
    PROVE  IF r.op = OpDestroy /\ res.code = 0
           THEN resume(r.op, methodOf(r.op), res) = Call("Initialize", res.value)
           ELSE \E code, payload :
                    /\ resume(r.op, methodOf(r.op), res) = Reply(code, payload)
                    /\ Answers(r, <<res>>, code, payload)
<1>1. /\ r.cut \in Nat
      /\ r.op = OpStore \/ r.cut = 0
  <2>1. r.cut \in Nat
    BY BodyParts
  <2>2. r.op = OpStore \/ ~(r.cut > 0)
    BY DEF asksForNone
  <2> QED  BY <2>1, <2>2
<1>2. /\ res = [code |-> res.code, value |-> res.value]
      /\ errorCode(res) \in Word
  BY DEF ListsDecoded, ResultsDecoded
<1>3. Nil \notin Methods
  BY DEF ListsDecoded
<1>4. CASE r.op = OpDestroy
  <2>1. resume(r.op, methodOf(r.op), res) =
            IF res.code = 0 THEN Call("Initialize", res.value) ELSE Reply(0, <<>>)
    <3>1. methodOf(r.op) = "DefaultPrincipal"
      BY <1>3, <1>4, Callers
    <3>2. r.op # OpGetCredByUUID
      BY <1>4 DEF OpDestroy, OpGetCredByUUID
    <3> QED  BY <1>4, <3>1, <3>2, Zenon DEF resume
  <2>2. Answers(r, <<res>>, 0, <<>>)
    BY <1>4, Destroyed
  <2> QED  BY <1>4, <2>1, <2>2
<1>5. CASE r.op # OpDestroy
  <2>1. r.op \in valued \/ r.op \in valueless
    BY <1>3, <1>5, Callers
  <2>2. CASE res.code # 0
    <3> DEFINE e == errorCode(res)
    <3>1. resume(r.op, methodOf(r.op), res) = Reply(e, <<>>)
      BY <1>5, <2>2, Zenon DEF resume
    <3>2. e # 0
      BY <2>2, Codes DEF errorCode
    <3>3. res # [code |-> 0, value |-> Nil]
      BY <2>2
    <3>4. answer(r, <<res>>) = [code |-> e, value |-> Nil]
      BY <1>3, <2>1, <2>2, <3>3, AnswerOf
    <3> HIDE DEF e
    <3>5. Answers(r, <<res>>, e, <<>>)
      BY <1>2, <3>2, <3>4, EmptyFits DEF Answers, e
    <3> QED  BY <1>5, <3>1, <3>5
  <2>3. CASE res.code = 0 /\ r.op = OpGetCredByUUID /\ res.value = Nil
    <3>1. resume(r.op, methodOf(r.op), res) = Reply(CCNotFound, <<>>)
      BY <1>5, <2>3, Zenon DEF resume
    <3>2. res = [code |-> 0, value |-> Nil]
      BY <1>2, <2>3
    <3>3. answer(r, <<res>>) = [code |-> CCNotFound, value |-> Nil]
      BY <2>3, <3>2 DEF answer, Supported
    <3>4. Answers(r, <<res>>, CCNotFound, <<>>)
      BY <3>3, Codes, EmptyFits DEF Answers
    <3> QED  BY <1>5, <3>1, <3>4
  <2>4. CASE res.code = 0 /\ ~(r.op = OpGetCredByUUID /\ res.value = Nil)
    <3> DEFINE p == payloadOf(r.op, res.value)
    <3>1. resume(r.op, methodOf(r.op), res) = Reply(0, p)
      BY <1>5, <2>4, Zenon DEF resume
    <3>2. answer(r, <<res>>) = [code |-> 0, value |-> shown(r.op, res.value)]
      <4>1. r.op = OpGetCredByUUID => res # [code |-> 0, value |-> Nil]
        BY <2>4
      <4> QED  BY <1>3, <2>1, <2>4, <4>1, AnswerOf
    <3>3. CASE r.op \in valued
      <4>1. r.cut = 0
        BY <1>1, <3>3 DEF valued
      <4>2. ValueDecoded(r.op, res.value)
        BY <2>4, <3>3 DEF ListsDecoded, ResultsDecoded, valued
      <4>3. Fits(0, p) /\ meaning(r.op, p) = shown(r.op, res.value)
        BY <4>2, Codes DEF ValueDecoded, Fits
      <4> HIDE DEF p
      <4>4. Answers(r, <<res>>, 0, p)
        BY <3>2, <4>1, <4>3 DEF Answers
      <4> QED  BY <1>5, <3>1, <4>4
    <3>4. CASE r.op \in valueless
      <4>1. p = <<>>
        BY <3>4 DEF payloadOf, valueless
      <4>2. meaning(r.op, <<>>) = Nil /\ shown(r.op, res.value) = Nil
        BY <3>4 DEF meaning, shown, valueless
      <4>3. Answers(r, <<res>>, 0, <<>>)
        BY <3>2, <4>2, Codes, EmptyFits DEF Answers
      <4> QED  BY <1>5, <3>1, <4>1, <4>3
    <3> QED  BY <2>1, <3>3, <3>4
  <2> QED  BY <2>2, <2>3, <2>4
<1> QED  BY <1>4, <1>5

HIDE DEF OpNoop, OpGetName, OpGenNew, OpInitialize, OpDestroy, OpStore, OpRetrieve, OpGetPrincipal,
         OpGetCredUUIDList, OpGetCredByUUID, OpRemoveCred, OpGetCacheUUIDList, OpGetCacheByUUID,
         OpGetDefaultCache, OpSetDefaultCache, OpGetKDCOffset, OpSetKDCOffset, OpGetCredList, OpReplace

-----------------------------------------------------------------------------
(* The two streams, each as the pieces that are still to be read from it.  *)

IsSeq(s) == \E S : s \in Seq(S)

LEMMA Appended ==
    ASSUME NEW s, IsSeq(s), NEW e
    PROVE  /\ IsSeq(Append(s, e)) /\ Len(s) \in Nat /\ Len(Append(s, e)) = Len(s) + 1
           /\ \A i \in 1..Len(s) : Append(s, e)[i] = s[i]
           /\ Append(s, e)[Len(s) + 1] = e
<1>1. PICK S : s \in Seq(S)
  BY DEF IsSeq
<1>2. PICK T : T = S \cup {e}
  OBVIOUS
<1>3. s \in Seq(T) /\ e \in T
  BY <1>1, <1>2
<1>4. Append(s, e) \in Seq(T)
  BY <1>3
<1> QED  BY <1>3, <1>4 DEF IsSeq

Update(s, k, e, t) == t = [s EXCEPT ![k] = e]

LEMMA Replaced ==
    ASSUME NEW s, IsSeq(s), NEW k \in 1..Len(s), NEW e, NEW t, Update(s, k, e, t)
    PROVE  /\ IsSeq(t) /\ Len(t) = Len(s)
           /\ t[k] = e
           /\ \A i \in 1..Len(s) : i # k => t[i] = s[i]
<1>1. PICK S : s \in Seq(S)
  BY DEF IsSeq
<1>2. PICK T : T = S \cup {e}
  OBVIOUS
<1>3. s \in Seq(T) /\ e \in T
  BY <1>1, <1>2
<1>4. [s EXCEPT ![k] = e] \in Seq(T)
  BY <1>3
<1> QED  BY <1>3, <1>4 DEF IsSeq, Update

LEMMA MessageBytes ==
    ASSUME ListsDecoded, NEW r \in Requests \cup {Huge}
    PROVE  /\ message(r) \in Bytes
           /\ r = Huge => message(r) = PutUint32(maxMessage + 1) /\ Len(message(r)) = 4
           /\ r # Huge => /\ r \in Requests /\ body(r) \in Bytes /\ Len(body(r)) <= maxMessage
                          /\ message(r) = WriteMessage(body(r))
                          /\ Len(message(r)) = 4 + Len(body(r))
<1>1. CASE r = Huge
  <2>1. maxMessage + 1 \in Word
    BY DEF Word, maxMessage
  <2>2. PICK v \in Word : v = maxMessage + 1
    BY <2>1
  <2>3. PutUint32(v) \in Bytes /\ Len(PutUint32(v)) = 4
    BY PutNumber
  <2>4. message(r) = PutUint32(v)
    BY <1>1, <2>2 DEF message
  <2> QED  BY <1>1, <2>2, <2>3, <2>4
<1>2. CASE r # Huge
  <2>1. r \in Requests
    BY <1>2
  <2>2. body(r) \in Bytes /\ Len(body(r)) <= maxMessage
    BY <2>1, BodyCut
  <2>3. PICK m \in Bytes : m = body(r) /\ Len(m) <= maxMessage
    BY <2>2
  <2>4. Len(m) \in Word /\ Len(m) \in Nat
    BY <2>3, Lengths DEF Word, maxMessage
  <2>5. PutUint32(Len(m)) \in Bytes /\ Len(PutUint32(Len(m))) = 4
    BY <2>4, PutNumber
  <2>6. /\ Cat(PutUint32(Len(m)), m) \in Bytes
        /\ Len(Cat(PutUint32(Len(m)), m)) = Len(PutUint32(Len(m))) + Len(m)
    BY <2>5, Catenation
  <2>7. message(r) = WriteMessage(m) /\ WriteMessage(m) = Cat(PutUint32(Len(m)), m)
    BY <1>2, <2>3 DEF message, WriteMessage, Cat
  <2>8. message(r) \in Bytes /\ Len(message(r)) = 4 + Len(m)
    BY <2>5, <2>6, <2>7
  <2> QED  BY <1>2, <2>1, <2>2, <2>3, <2>7, <2>8
<1> QED  BY <1>1, <1>2

\* The bytes of a, and then those of x, are the messages of ss after the n-th:
\* f[i] is what comes after the i-th.
Requested(a, x, ss, n, f) ==
    /\ a \in Bytes /\ x \in Bytes
    /\ \A i \in n..Len(ss) : f[i] \in Bytes
    /\ Cat(a, x) = f[n]
    /\ f[Len(ss)] = <<>>
    /\ \A i \in n..Len(ss) - 1 : f[i] = Cat(message(ss[i + 1]), f[i + 1])

LEMMA OneMoreRequest ==
    ASSUME ListsDecoded, NEW a, NEW x, NEW ss \in Seq(Requests \cup {Huge}), NEW n \in 0..Len(ss), NEW f,
           Requested(a, x, ss, n, f), NEW r \in Requests \cup {Huge}
    PROVE  \E h : Requested(a, Cat(x, message(r)), Append(ss, r), n, h)
<1> DEFINE t == Append(ss, r)
           N == Len(ss)
           h == [i \in n..N + 1 |-> IF i = N + 1 THEN <<>> ELSE Cat(f[i], message(r))]
<1>1. /\ N \in Nat /\ Len(t) = N + 1
      /\ \A i \in 1..N : t[i] = ss[i]
      /\ t[N + 1] = r
  BY Appended DEF IsSeq
<1> HIDE DEF t, N
<1>2. n \in Nat /\ n <= N
  BY <1>1 DEF N
<1>3. PICK z \in Bytes : z = message(r)
  BY MessageBytes
<1>4. /\ a \in Bytes /\ x \in Bytes
      /\ \A i \in n..N : f[i] \in Bytes
      /\ Cat(a, x) = f[n]
      /\ f[N] = <<>>
      /\ \A i \in n..N - 1 : f[i] = Cat(message(ss[i + 1]), f[i + 1])
  BY DEF Requested, N
<1>5. /\ \A i \in n..N : h[i] = Cat(f[i], z)
      /\ h[N + 1] = <<>>
  BY <1>1, <1>2, <1>3
<1> HIDE DEF h
<1>6. \A i \in n..N + 1 : h[i] \in Bytes
  <2>1. ASSUME NEW i \in n..N  PROVE h[i] \in Bytes
    <3>1. PICK u \in Bytes : u = f[i]
      BY <1>4
    <3>2. Cat(u, z) \in Bytes
      BY Catenation
    <3> QED  BY <1>5, <3>1, <3>2
  <2>2. \A i \in n..N + 1 : i \in n..N \/ i = N + 1
    BY <1>1, <1>2
  <2> QED  BY <1>5, <2>1, <2>2, Nothing
<1>7. Cat(a, Cat(x, z)) = h[n]
  <2>1. n \in n..N
    BY <1>1, <1>2
  <2> QED  BY <1>4, <1>5, <2>1, Associative
<1>8. ASSUME NEW i \in n..N  PROVE h[i] = Cat(message(t[i + 1]), h[i + 1])
  <2>1. CASE i = N
    <3>1. h[i] = Cat(<<>>, z)
      BY <1>4, <1>5, <2>1
    <3>2. Cat(<<>>, z) = z /\ Cat(z, <<>>) = z
      BY Nothing
    <3>3. message(t[i + 1]) = z /\ h[i + 1] = <<>>
      BY <1>1, <1>3, <1>5, <2>1
    <3> QED  BY <3>1, <3>2, <3>3
  <2>2. CASE i # N
    <3>1. i \in n..N - 1 /\ i + 1 \in n..N /\ i + 1 \in 1..N
      BY <1>1, <1>2, <2>2
    <3>2. f[i] = Cat(message(ss[i + 1]), f[i + 1]) /\ h[i] = Cat(f[i], z) /\ h[i + 1] = Cat(f[i + 1], z)
      BY <1>4, <1>5, <3>1
    <3>3. t[i + 1] = ss[i + 1]
      BY <1>1, <3>1
    <3>4. message(ss[i + 1]) \in Bytes /\ f[i + 1] \in Bytes
      <4>1. ss[i + 1] \in Requests \cup {Huge}
        BY <1>1, <3>1 DEF N
      <4> QED  BY <1>4, <3>1, <4>1, MessageBytes
    <3>5. PICK u \in Bytes : u = message(ss[i + 1])
      BY <3>4
    <3>6. Cat(Cat(u, f[i + 1]), z) = Cat(u, Cat(f[i + 1], z))
      BY <3>4, Associative
    <3> QED  BY <3>2, <3>3, <3>5, <3>6
  <2> QED  BY <2>1, <2>2
<1>9. Cat(x, z) \in Bytes
  BY <1>4, Catenation
<1>10. Requested(a, Cat(x, z), t, n, h)
  <2>1. Len(t) - 1 = N
    BY <1>1
  <2> QED  BY <1>1, <1>4, <1>5, <1>6, <1>7, <1>8, <1>9, <2>1 DEF Requested
<1> QED  BY <1>3, <1>10 DEF t

LEMMA NothingBefore ==
    ASSUME NEW s \in Bytes, NEW t \in Bytes, Cat(s, t) = <<>>
    PROVE  s = <<>>
<1>1. Len(Cat(s, t)) = Len(s) + Len(t) /\ Len(Cat(s, t)) = 0
  BY Catenation, Nothing
<1>2. PICK i, j \in Nat : i = Len(s) /\ j = Len(t)
  BY Lengths
<1>3. i + j = 0
  BY <1>1, <1>2, Zenon
<1>4. i = 0
  BY <1>3
<1> QED  BY <1>2, <1>4, Lengths

LEMMA NothingRead == ReadMessage(<<>>).is = "more" /\ readReply(<<>>).is = "more"
<1>1. ReadUint32(<<>>) = Failed /\ ReadUint32(Truncated) = Failed
  BY DEF ReadUint32
<1>2. Failed.rest = Truncated
  BY DEF Failed
<1>3. ReadMessage(<<>>) = [is |-> "more"]
  BY <1>1, <1>2, Zenon DEF ReadMessage
<1>4. readReply(<<>>) = [is |-> "more"]
  BY <1>1, <1>2, Zenon DEF readReply
<1> QED  BY <1>3, <1>4

LEMMA RequestRead ==
    ASSUME ListsDecoded, NEW a, NEW x, NEW ss \in Seq(Requests \cup {Huge}),
           NEW n \in 0..Len(ss), NEW f, Requested(a, x, ss, n, f)
    PROVE  /\ ReadMessage(a).is = "message" =>
                /\ n < Len(ss) /\ ss[n + 1] \in Requests
                /\ ReadMessage(a).body = body(ss[n + 1])
                /\ Requested(ReadMessage(a).rest, x, ss, n + 1, f)
           /\ ReadMessage(a).is = "more" /\ x = <<>> => n = Len(ss) /\ a = <<>>
<1> DEFINE N == Len(ss)
           m == ReadMessage(a)
<1>1. N \in Nat /\ n \in Nat /\ n <= N
  OBVIOUS
<1>2. /\ a \in Bytes /\ x \in Bytes
      /\ \A i \in n..N : f[i] \in Bytes
      /\ Cat(a, x) = f[n]
      /\ f[N] = <<>>
      /\ \A i \in n..N - 1 : f[i] = Cat(message(ss[i + 1]), f[i + 1])
  BY DEF Requested
<1>3. Truncated \notin Bytes
  BY DEF ListsDecoded
<1>4. Len(a) \in Nat /\ Len(x) \in Nat
  BY <1>2, Lengths
<1>5. CASE n = N
  <2>1. a = <<>>
    BY <1>2, <1>5, NothingBefore
  <2> QED  BY <1>5, <2>1, NothingRead
<1>6. CASE n < N
  <2>1. PICK y \in Bytes : y = f[n + 1]
    BY <1>1, <1>2, <1>6
  <2>2. PICK r \in Requests \cup {Huge} : r = ss[n + 1]
    BY <1>1, <1>6
  <2>3. Cat(a, x) = Cat(message(r), y)
    <3>1. n \in n..N - 1
      BY <1>1, <1>6
    <3> QED  BY <1>2, <2>1, <2>2, <3>1
  <2>4. PICK z \in Bytes : z = message(r)
    BY MessageBytes
  <2>5. Same(a, x, z, y)
    BY <2>3, <2>4 DEF Same
  <2>6. ASSUME x = <<>>  PROVE Len(z) <= Len(a)
    <3>1. Cat(a, x) = a
      BY <1>2, <2>6, Nothing
    <3>2. Len(Cat(z, y)) = Len(z) + Len(y) /\ Len(z) \in Nat /\ Len(y) \in Nat
      BY Catenation, Lengths
    <3> QED  BY <1>4, <2>3, <2>4, <3>1, <3>2
  <2>7. CASE r = Huge
    <3>1. z = PutUint32(maxMessage + 1) /\ Len(z) = 4
      BY <2>4, <2>7, MessageBytes
    <3>2. m.is = IF Len(a) < 4 THEN "more" ELSE "error"
      BY <1>2, <1>3, <2>5, <3>1, ReadHuge
    <3> HIDE DEF m
    <3>3. m.is # "message"
      BY <3>2
    <3>4. ASSUME x = <<>>  PROVE m.is # "more"
      <4>1. ~(Len(a) < 4)
        <5>1. Len(z) <= Len(a) /\ Len(z) = 4
          BY <2>6, <3>1, <3>4
        <5> QED  BY <1>4, <5>1
      <4> QED  BY <3>2, <4>1
    <3> QED  BY <3>3, <3>4 DEF m
  <2>8. CASE r # Huge
    <3>1. PICK q \in Bytes : q = body(r)
      BY <2>8, MessageBytes
    <3>2. /\ r \in Requests /\ Len(q) <= maxMessage
          /\ z = WriteMessage(q) /\ Len(z) = 4 + Len(q)
      BY <2>4, <2>8, <3>1, MessageBytes
    <3>3. Same(a, x, WriteMessage(q), y)
      BY <2>5, <3>2
    <3>4. IF Len(a) < 4 + Len(q) THEN m.is = "more"
          ELSE /\ m.is = "message"
               /\ m.body = q
               /\ m.rest \in Bytes
               /\ Cat(m.rest, x) = y
      BY <1>2, <1>3, <3>2, <3>3, ReadFrame
    <3> HIDE DEF m
    <3>5. ASSUME m.is = "message"  PROVE Requested(m.rest, x, ss, n + 1, f)
      <4>1. m.rest \in Bytes /\ Cat(m.rest, x) = f[n + 1]
        BY <2>1, <3>4, <3>5
      <4>2. /\ \A i \in n + 1..N : i \in n..N
            /\ \A i \in n + 1..N - 1 : i \in n..N - 1
        BY <1>1
      <4> QED  BY <1>2, <4>1, <4>2 DEF Requested
    <3>6. ASSUME m.is = "message"  PROVE m.body = body(r)
      BY <3>1, <3>4, <3>6
    <3>7. x = <<>> => m.is # "more"
      BY <1>4, <2>6, <3>2, <3>4
    <3> QED  BY <1>6, <2>2, <3>2, <3>5, <3>6, <3>7 DEF m
  <2> QED  BY <2>7, <2>8
<1> QED  BY <1>1, <1>5, <1>6

\* The bytes of b are the replies to the requests after the k-th and up to the
\* n-th: c and p are their codes and payloads, g[i] is what comes after the i-th.
Replied(b, ss, rs, k, n, g, c, p) ==
    /\ b \in Bytes
    /\ \A i \in k..n : g[i] \in Bytes
    /\ b = g[k]
    /\ g[n] = <<>>
    /\ \A i \in k..n - 1 : g[i] = Cat(joined(WriteReply(c[i + 1], p[i + 1])), g[i + 1])
    /\ \A i \in k + 1..n : Answers(ss[i], rs[i], c[i], p[i])

LEMMA OneMoreReply ==
    ASSUME NEW b, NEW ss, NEW rs, NEW k \in Nat, NEW n \in Nat, k <= n, NEW g, NEW c, NEW p,
           Replied(b, ss, rs, k, n, g, c, p),
           NEW code, NEW payload, Answers(ss[n + 1], rs[n + 1], code, payload)
    PROVE  \E gg, cc, pp :
              Replied(Cat(b, joined(WriteReply(code, payload))), ss, rs, k, n + 1, gg, cc, pp)
<1>1. PICK z \in Bytes : z = joined(WriteReply(code, payload))
  BY ReplyBytes DEF Answers
<1>2. PICK gg : gg = [i \in k..n + 1 |-> IF i = n + 1 THEN <<>> ELSE Cat(g[i], z)]
  OBVIOUS
<1>3. PICK cc : cc = [i \in k + 1..n + 1 |-> IF i = n + 1 THEN code ELSE c[i]]
  OBVIOUS
<1>4. PICK pp : pp = [i \in k + 1..n + 1 |-> IF i = n + 1 THEN payload ELSE p[i]]
  OBVIOUS
<1>5. /\ b \in Bytes
      /\ \A i \in k..n : g[i] \in Bytes
      /\ b = g[k]
      /\ g[n] = <<>>
      /\ \A i \in k..n - 1 : g[i] = Cat(joined(WriteReply(c[i + 1], p[i + 1])), g[i + 1])
      /\ \A i \in k + 1..n : Answers(ss[i], rs[i], c[i], p[i])
  BY DEF Replied
<1>6. /\ \A i \in k..n : gg[i] = Cat(g[i], z)
      /\ gg[n + 1] = <<>>
  BY <1>2
<1>7. /\ \A i \in k + 1..n : cc[i] = c[i] /\ pp[i] = p[i]
      /\ cc[n + 1] = code /\ pp[n + 1] = payload
  BY <1>3, <1>4
<1>8. \A i \in k..n + 1 : gg[i] \in Bytes
  <2>1. ASSUME NEW i \in k..n  PROVE gg[i] \in Bytes
    <3>1. PICK u \in Bytes : u = g[i]
      BY <1>5
    <3>2. Cat(u, z) \in Bytes
      BY Catenation
    <3> QED  BY <1>6, <3>1, <3>2
  <2>2. \A i \in k..n + 1 : i \in k..n \/ i = n + 1
    OBVIOUS
  <2> QED  BY <1>6, <2>1, <2>2, Nothing
<1>9. Cat(b, z) = gg[k] /\ Cat(b, z) \in Bytes
  <2>1. k \in k..n
    OBVIOUS
  <2> QED  BY <1>5, <1>6, <2>1, Catenation
<1>10. ASSUME NEW i \in k..n
       PROVE  gg[i] = Cat(joined(WriteReply(cc[i + 1], pp[i + 1])), gg[i + 1])
  <2>1. CASE i = n
    <3>1. gg[i] = Cat(<<>>, z)
      BY <1>5, <1>6, <2>1
    <3>2. Cat(<<>>, z) = z /\ Cat(z, <<>>) = z
      BY Nothing
    <3>3. gg[i + 1] = <<>> /\ cc[i + 1] = code /\ pp[i + 1] = payload
      BY <1>6, <1>7, <2>1
    <3> QED  BY <1>1, <3>1, <3>2, <3>3
  <2>2. CASE i # n
    <3>1. i \in k..n - 1 /\ i + 1 \in k..n /\ i + 1 \in k + 1..n
      BY <2>2
    <3>2. /\ g[i] = Cat(joined(WriteReply(c[i + 1], p[i + 1])), g[i + 1])
          /\ gg[i] = Cat(g[i], z) /\ gg[i + 1] = Cat(g[i + 1], z)
          /\ cc[i + 1] = c[i + 1] /\ pp[i + 1] = p[i + 1]
      BY <1>5, <1>6, <1>7, <3>1
    <3>3. PICK u \in Bytes : u = joined(WriteReply(c[i + 1], p[i + 1]))
      <4>1. Fits(c[i + 1], p[i + 1])
        BY <1>5, <3>1 DEF Answers
      <4> QED  BY <4>1, ReplyBytes
    <3>4. PICK v \in Bytes : v = g[i + 1]
      BY <1>5, <3>1
    <3>5. Cat(Cat(u, v), z) = Cat(u, Cat(v, z))
      BY Associative
    <3> QED  BY <3>2, <3>3, <3>4, <3>5
  <2> QED  BY <2>1, <2>2
<1>11. ASSUME NEW i \in k + 1..n + 1  PROVE Answers(ss[i], rs[i], cc[i], pp[i])
  <2>1. CASE i = n + 1
    BY <1>7, <2>1
  <2>2. CASE i # n + 1
    <3>1. i \in k + 1..n
      BY <2>2
    <3> QED  BY <1>5, <1>7, <3>1
  <2> QED  BY <2>1, <2>2
<1>12. Replied(Cat(b, z), ss, rs, k, n + 1, gg, cc, pp)
  <2>1. (n + 1) - 1 = n
    OBVIOUS
  <2> QED  BY <1>6, <1>8, <1>9, <1>10, <1>11, <2>1 DEF Replied
<1> QED  BY <1>1, <1>12

LEMMA ReplyRead ==
    ASSUME Truncated \notin Bytes, NEW d \in Bytes, NEW w \in Bytes, NEW ss, NEW rs,
           NEW k \in Nat, NEW n \in Nat, k <= n, NEW g, NEW c, NEW p,
           Replied(Cat(d, w), ss, rs, k, n, g, c, p)
    PROVE  /\ readReply(d).is = "reply" =>
                /\ k < n
                /\ Answers(ss[k + 1], rs[k + 1], readReply(d).code, readReply(d).payload)
                /\ readReply(d).rest \in Bytes
                /\ Replied(Cat(readReply(d).rest, w), ss, rs, k + 1, n, g, c, p)
           /\ readReply(d).is = "more" /\ w = <<>> => k = n /\ d = <<>>
<1> DEFINE r == readReply(d)
<1>1. /\ Cat(d, w) \in Bytes
      /\ \A i \in k..n : g[i] \in Bytes
      /\ Cat(d, w) = g[k]
      /\ g[n] = <<>>
      /\ \A i \in k..n - 1 : g[i] = Cat(joined(WriteReply(c[i + 1], p[i + 1])), g[i + 1])
      /\ \A i \in k + 1..n : Answers(ss[i], rs[i], c[i], p[i])
  BY DEF Replied
<1>2. Len(d) \in Nat /\ Len(w) \in Nat
  BY Lengths
<1>3. CASE k = n
  <2>1. d = <<>>
    BY <1>1, <1>3, NothingBefore
  <2> QED  BY <1>3, <2>1, NothingRead
<1>4. CASE k < n
  <2>1. k + 1 \in k..n /\ k + 1 \in k + 1..n /\ k \in k..n - 1
    BY <1>4
  <2>2. PICK y \in Bytes : y = g[k + 1]
    BY <1>1, <2>1
  <2>3. PICK code, payload : code = c[k + 1] /\ payload = p[k + 1]
    OBVIOUS
  <2>4. Answers(ss[k + 1], rs[k + 1], code, payload)
    BY <1>1, <2>1, <2>3
  <2>5. Fits(code, payload)
    BY <2>4 DEF Answers
  <2>6. PICK z \in Bytes : z = joined(WriteReply(code, payload)) /\ Len(z) = 12 + Len(payload)
    BY <2>5, ReplyBytes
  <2>7. Cat(d, w) = Cat(z, y)
    BY <1>1, <2>1, <2>2, <2>3, <2>6
  <2>8. Same(d, w, joined(WriteReply(code, payload)), y)
    BY <2>6, <2>7 DEF Same
  <2>9. IF Len(d) < 12 + Len(payload) THEN r.is = "more"
        ELSE /\ r.is = "reply"
             /\ r.code = code
             /\ r.payload = payload
             /\ r.rest \in Bytes
             /\ Cat(r.rest, w) = y
    BY <2>5, <2>8, ReadReply
  <2> HIDE DEF r
  <2>10. ASSUME w = <<>>  PROVE r.is # "more"
    <3>1. Cat(d, w) = d
      BY <2>10, Nothing
    <3>2. Len(Cat(z, y)) = Len(z) + Len(y) /\ Len(z) \in Nat /\ Len(y) \in Nat
      BY Catenation, Lengths
    <3>3. ~(Len(d) < Len(z))
      BY <1>2, <2>7, <3>1, <3>2
    <3> QED  BY <2>6, <2>9, <3>3
  <2>11. ASSUME r.is = "reply"
         PROVE  /\ Answers(ss[k + 1], rs[k + 1], r.code, r.payload)
                /\ r.rest \in Bytes
                /\ Replied(Cat(r.rest, w), ss, rs, k + 1, n, g, c, p)
    <3>1. r.code = code /\ r.payload = payload /\ r.rest \in Bytes /\ Cat(r.rest, w) = g[k + 1]
      BY <2>2, <2>9, <2>11
    <3>2. /\ \A i \in k + 1..n : i \in k..n
          /\ \A i \in k + 1..n - 1 : i \in k..n - 1
          /\ \A i \in (k + 1) + 1..n : i \in k + 1..n
      BY <1>4
    <3>3. Cat(r.rest, w) \in Bytes
      BY <2>2, <3>1
    <3>4. Replied(Cat(r.rest, w), ss, rs, k + 1, n, g, c, p)
      BY <1>1, <3>1, <3>2, <3>3 DEF Replied
    <3> QED  BY <2>4, <3>1, <3>4
  <2> QED  BY <1>4, <2>10, <2>11 DEF r
<1> QED  BY <1>3, <1>4

LEMMA SameReplies ==
    ASSUME NEW b, NEW ss, NEW rs, NEW st, NEW rt, NEW k \in Nat, NEW n \in Nat,
           NEW g, NEW c, NEW p, Replied(b, ss, rs, k, n, g, c, p),
           \A i \in 1..n : st[i] = ss[i] /\ rt[i] = rs[i]
    PROVE  Replied(b, st, rt, k, n, g, c, p)
<1>1. \A i \in k + 1..n : i \in 1..n
  OBVIOUS
<1>2. \A i \in k + 1..n : Answers(st[i], rt[i], c[i], p[i])
  BY <1>1 DEF Replied
<1> QED  BY <1>2, Zenon DEF Replied

\* A write of a reply moves bytes from out to the stream.
LEMMA NextWrite ==
    ASSUME NEW w \in Seq(Bytes), w # <<>>, Len(w) <= 4
    PROVE  /\ Head(w) \in Bytes /\ Tail(w) \in Seq(Bytes) /\ Len(Tail(w)) <= 4
           /\ joined(Tail(w)) \in Bytes
           /\ joined(w) = Cat(Head(w), joined(Tail(w)))
<1>1. PICK t, h : t = Tail(w) /\ h = Head(w)
  OBVIOUS
<1>2. PICK n \in Nat : n = Len(w)
  OBVIOUS
<1>3. n # 0 /\ n <= 4
  BY <1>2
<1>4. n = 1 \/ n = 2 \/ n = 3 \/ n = 4
  BY <1>3
<1>5. h = w[1] /\ h \in Bytes /\ t \in Seq(Bytes) /\ Len(t) = n - 1
  BY <1>1, <1>2
<1>6. Len(t) <= 4
  BY <1>3, <1>5
<1>7. \A i \in 1..n : w[i] \in Bytes
  BY <1>2
<1>8. \A i \in 1..n - 1 : t[i] = w[i + 1]
  BY <1>1, <1>2
<1>9. joined(t) \in Bytes /\ joined(w) = Cat(h, joined(t))
  <2>1. CASE n = 1
    <3>1. Len(w) = 1 /\ Len(t) = 0
      BY <1>2, <1>5, <2>1
    <3>2. joined(w) = w[1] /\ joined(t) = <<>>
      BY <3>1 DEF joined
    <3> QED  BY <1>5, <3>2, Nothing
  <2>2. CASE n = 2
    <3>1. Len(w) = 2 /\ Len(t) = 1
      BY <1>2, <1>5, <2>2
    <3>2. t[1] = w[2] /\ w[2] \in Bytes
      BY <1>7, <1>8, <2>2
    <3>3. joined(w) = Cat(w[1], w[2]) /\ joined(t) = t[1]
      BY <3>1 DEF joined
    <3> QED  BY <1>5, <3>2, <3>3
  <2>3. CASE n = 3
    <3>1. Len(w) = 3 /\ Len(t) = 2
      BY <1>2, <1>5, <2>3
    <3>2. 1 \in 1..n - 1 /\ 2 \in 1..n - 1 /\ 2 \in 1..n /\ 3 \in 1..n
      BY <2>3
    <3>3. t[1] = w[1 + 1] /\ t[2] = w[2 + 1] /\ w[2] \in Bytes /\ w[3] \in Bytes
      BY <1>7, <1>8, <3>2, Zenon
    <3>4. PICK a, b \in Bytes : a = w[2] /\ b = w[3] /\ t[1] = a /\ t[2] = b
      BY <3>3
    <3>5. joined(w) = Cat(w[1], Cat(w[2], w[3])) /\ joined(t) = Cat(t[1], t[2])
      BY <3>1 DEF joined
    <3>6. Cat(a, b) \in Bytes
      BY Catenation
    <3> QED  BY <1>5, <3>4, <3>5, <3>6, Zenon
  <2>4. CASE n = 4
    <3>1. Len(w) = 4 /\ Len(t) = 3
      BY <1>2, <1>5, <2>4
    <3>2. /\ 1 \in 1..n - 1 /\ 2 \in 1..n - 1 /\ 3 \in 1..n - 1
          /\ 2 \in 1..n /\ 3 \in 1..n /\ 4 \in 1..n
      BY <2>4
    <3>3. /\ t[1] = w[1 + 1] /\ t[2] = w[2 + 1] /\ t[3] = w[3 + 1]
          /\ w[2] \in Bytes /\ w[3] \in Bytes /\ w[4] \in Bytes
      BY <1>7, <1>8, <3>2, Zenon
    <3>4. PICK a, b, c \in Bytes : /\ a = w[2] /\ b = w[3] /\ c = w[4]
                                   /\ t[1] = a /\ t[2] = b /\ t[3] = c
      BY <3>3
    <3>5. /\ joined(w) = Cat(w[1], Cat(w[2], Cat(w[3], w[4])))
          /\ joined(t) = Cat(t[1], Cat(t[2], t[3]))
      BY <3>1 DEF joined
    <3>6. PICK u \in Bytes : u = Cat(b, c)
      BY Catenation
    <3>7. Cat(a, u) \in Bytes
      BY Catenation
    <3> QED  BY <1>5, <3>4, <3>5, <3>6, <3>7, Zenon
  <2> QED  BY <1>4, <2>1, <2>2, <2>3, <2>4
<1> QED  BY <1>1, <1>5, <1>6, <1>9

LEMMA NoWrites == joined(<<>>) = <<>>
BY DEF joined

\* The calls a request asks for.
LEMMA AskedNothing ==
    ASSUME NEW r, NEW rs, asksForNone(r)
    PROVE  asked(r, rs) = <<>>
BY DEF asked

LEMMA AskedOnce ==
    ASSUME NEW r, NEW rs, ~asksForNone(r), ~(r.op = OpDestroy /\ rs # <<>> /\ rs[1].code = 0)
    PROVE  asked(r, rs) = <<[m |-> methodOf(r.op), arg |-> argOf(r)]>>
<1>1. PICK e : e = [m |-> methodOf(r.op), arg |-> argOf(r)]
  OBVIOUS
<1>2. asked(r, rs) = <<e>> \o <<>>
  BY <1>1, Zenon DEF asked
<1>3. <<e>> \in Seq({e})
  OBVIOUS
<1>4. <<e>> \o <<>> = <<e>>
  BY <1>3, ConcatEmptySeq, Zenon
<1> QED  BY <1>1, <1>2, <1>4

LEMMA AskedTwice ==
    ASSUME NEW r, NEW rs, ~asksForNone(r), r.op = OpDestroy, rs # <<>>, rs[1].code = 0
    PROVE  asked(r, rs) = <<[m |-> methodOf(r.op), arg |-> argOf(r)],
                            [m |-> "Initialize", arg |-> rs[1].value]>>
<1>1. PICK e : e = [m |-> methodOf(r.op), arg |-> argOf(r)]
  OBVIOUS
<1>2. PICK i : i = [m |-> "Initialize", arg |-> rs[1].value]
  OBVIOUS
<1>3. asked(r, rs) = <<e>> \o <<i>>
  BY <1>1, <1>2, Zenon DEF asked
<1>4. <<e>> \o <<i>> = <<e, i>>
  <2>1. PICK S : S = {e, i}
    OBVIOUS
  <2>2. PICK s, t, u \in Seq(S) : s = <<e>> /\ t = <<i>> /\ u = <<e, i>>
    <3>1. e \in S /\ i \in S
      BY <2>1
    <3>2. <<e>> \in Seq(S) /\ <<i>> \in Seq(S) /\ <<e, i>> \in Seq(S)
      BY <3>1
    <3> QED  BY <3>2, Zenon
  <2>3. s \o t \in Seq(S) /\ Len(s \o t) = 2 /\ Len(u) = 2
    BY <2>2
  <2>4. \A k \in 1..2 : (s \o t)[k] = u[k]
    BY <2>2
  <2>5. s \o t = u
    BY <2>3, <2>4, SeqEqual
  <2> QED  BY <2>2, <2>5
<1> QED  BY <1>1, <1>2, <1>3, <1>4

-----------------------------------------------------------------------------
(* The invariant.                                                          *)

\* The requests that have been replied to, if not yet in full.
replied == IF at = "call" THEN served - 1 ELSE served

\* The messages that have been read are requests, and what was called for each
\* of them is what it asks for.
Executed ==
    /\ IsSeq(calls) /\ IsSeq(results) /\ IsSeq(got)
    /\ sent \in Seq(Requests \cup {Huge})
    /\ served \in 0..Len(sent)
    /\ Len(calls) = served /\ Len(results) = served
    /\ \A i \in 1..served : sent[i] \in Requests /\ calls[i] = asked(sent[i], results[i])

\* What the server is doing, and for which request.
Doing ==
    /\ at \in {"read", "call", "write", "closed"}
    /\ out \in Seq(Bytes) /\ Len(out) <= 4
    /\ IF at = "write" THEN out # <<>> ELSE out = <<>>
    /\ at = "call" =>
         /\ served > 0 /\ op = sent[served].op
         /\ ~asksForNone(sent[served]) /\ methodOf(op) \in Methods
         /\ \/ results[served] = <<>> /\ call.m = methodOf(op)
            \/ /\ op = OpDestroy /\ call.m = "Initialize"
               /\ \E e : results[served] = <<e>> /\ e.code = 0

\* Between the client's writes and the server's reads there are the requests
\* not yet read, whole, and nothing else.  What a client that has hung up did
\* not write makes up for the last of them.
Upwards == \E x, f : Requested(up, x, sent, served, f) /\ (connected => x = pending)

\* Between the server's writes and the client's reads there are the replies
\* not yet received.
Downwards ==
    /\ down \in Bytes
    /\ Len(got) <= replied
    /\ RepliesAsGiven
    /\ connected =>
         \E g, c, p : Replied(Cat(down, joined(out)), sent, results, Len(got), replied, g, c, p)

Connection == Executed /\ Doing /\ Upwards /\ Downwards

LEMMA ConnectionInit == ASSUME Init PROVE Connection
<1>1. <<>> \in Seq(Requests \cup {Huge}) /\ Len(<<>>) = 0 /\ IsSeq(<<>>)
  BY DEF IsSeq
<1>2. Executed
  BY <1>1 DEF Init, Executed
<1>3. Doing
  BY DEF Init, Doing
<1>4. <<>> \in Bytes /\ Cat(<<>>, <<>>) = <<>>
  BY Nothing
<1>5. Upwards
  <2>1. PICK f : f = [i \in 0..0 |-> <<>>]
    OBVIOUS
  <2>2. f[0] = <<>> /\ 0..0 = {0} /\ 0..0 - 1 = {}
    BY <2>1
  <2>3. Requested(<<>>, <<>>, <<>>, 0, f)
    BY <1>1, <1>4, <2>2 DEF Requested
  <2> QED  BY <2>3 DEF Upwards, Init
<1>6. Downwards
  <2>1. PICK g : g = [i \in 0..0 |-> <<>>]
    OBVIOUS
  <2>2. g[0] = <<>> /\ 0..0 = {0} /\ 0..0 - 1 = {} /\ 0 + 1..0 = {}
    BY <2>1
  <2>3. Replied(<<>>, <<>>, <<>>, 0, 0, g, g, g)
    BY <1>4, <2>2 DEF Replied
  <2>4. Cat(down, joined(out)) = <<>> /\ replied = 0 /\ Len(got) = 0
    BY <1>1, <1>4, NoWrites DEF Init, replied
  <2>5. RepliesAsGiven
    BY DEF RepliesAsGiven, Init
  <2> QED  BY <1>4, <2>3, <2>4, <2>5 DEF Downwards, Init
<1> QED  BY <1>2, <1>3, <1>5, <1>6 DEF Connection

\* The replies received are still the ones they were, when the requests and the
\* results they are about are.
LEMMA GotSame ==
    ASSUME RepliesAsGiven, got' = got, IsSeq(got), NEW n \in Nat, Len(got) <= n,
           \A i \in 1..n : sent'[i] = sent[i] /\ results'[i] = results[i]
    PROVE  RepliesAsGiven'
<1>1. DOMAIN got = 1..Len(got) /\ Len(got) \in Nat
  BY DEF IsSeq
<1>2. \A i \in DOMAIN got : sent'[i] = sent[i] /\ results'[i] = results[i]
  BY <1>1
<1> QED  BY <1>2, Zenon DEF RepliesAsGiven

LEMMA SendKeeps ==
    ASSUME ListsDecoded, Connection, NEW r \in Requests \cup {Huge}, Send(r)
    PROVE  Connection'
<1>1. /\ connected /\ connected' = connected
      /\ sent' = Append(sent, r) /\ pending' = pending \o message(r)
      /\ up' = up /\ down' = down /\ got' = got
      /\ at' = at /\ call' = call /\ op' = op /\ out' = out /\ served' = served
      /\ calls' = calls /\ results' = results
  BY DEF Send, server
<1>2. /\ Executed /\ Doing /\ Upwards /\ Downwards
  BY DEF Connection
<1>3. /\ sent \in Seq(Requests \cup {Huge}) /\ Len(sent) \in Nat
      /\ sent' \in Seq(Requests \cup {Huge}) /\ Len(sent') = Len(sent) + 1
      /\ served \in 0..Len(sent) /\ served \in Nat /\ served \in 0..Len(sent')
      /\ \A i \in 1..served : sent'[i] = sent[i]
  BY <1>1, <1>2 DEF Executed
<1>4. Executed'
  BY <1>1, <1>2, <1>3 DEF Executed
<1>5. Doing'
  <2>1. ASSUME at = "call"  PROVE sent'[served] = sent[served]
    BY <1>2, <1>3, <2>1 DEF Doing
  <2> QED  BY <1>1, <1>2, <2>1 DEF Doing
<1>6. Upwards'
  <2>1. PICK x, f : Requested(up, x, sent, served, f) /\ x = pending
    BY <1>1, <1>2 DEF Upwards
  <2>2. PICK h : Requested(up, Cat(pending, message(r)), sent', served, h)
    BY <1>1, <1>3, <2>1, OneMoreRequest
  <2>3. Cat(pending, message(r)) = pending'
    BY <1>1 DEF Cat
  <2> QED  BY <1>1, <2>2, <2>3 DEF Upwards
<1>7. Downwards'
  <2>1. replied' = replied /\ replied \in Nat /\ replied <= served
    BY <1>1, <1>2, <1>3 DEF replied, Doing
  <2>2. \A i \in 1..replied : sent'[i] = sent[i] /\ results'[i] = results[i]
    BY <1>1, <1>3, <2>1
  <2>3. Len(got) <= replied /\ IsSeq(got) /\ Len(got) \in Nat
    BY <1>2 DEF Downwards, Executed, IsSeq
  <2>4. RepliesAsGiven'
    BY <1>1, <1>2, <2>1, <2>2, <2>3, GotSame DEF Downwards
  <2>5. PICK g, c, p : Replied(Cat(down, joined(out)), sent, results, Len(got), replied, g, c, p)
    BY <1>1, <1>2 DEF Downwards
  <2>6. Replied(Cat(down, joined(out)), sent', results', Len(got), replied, g, c, p)
    BY <2>1, <2>2, <2>3, <2>5, SameReplies
  <2> QED  BY <1>1, <1>2, <2>1, <2>3, <2>4, <2>6 DEF Downwards
<1> QED  BY <1>4, <1>5, <1>6, <1>7 DEF Connection

LEMMA Divided ==
    ASSUME NEW s \in Bytes, NEW n \in 1..Len(s)
    PROVE  SubSeq(s, 1, n) \in Bytes /\ Drop(s, n) \in Bytes /\ s = Cat(SubSeq(s, 1, n), Drop(s, n))
<1> DEFINE b == SubSeq(s, 1, n)
           d == Drop(s, n)
<1>1. /\ b \in Bytes /\ Len(b) = n
      /\ \A i \in 1..n : b[i] = s[i]
  BY DEF Bytes
<1>2. /\ d \in Bytes /\ Len(d) = Len(s) - n
      /\ \A i \in 1..Len(s) - n : d[i] = s[n + i]
  BY DEF Bytes, Drop
<1> HIDE DEF b, d
<1>3. PICK k, l \in Nat : k = Len(s) /\ l = Len(d) /\ n \in Nat /\ l = k - n
  <2>1. Len(s) \in Nat /\ Len(d) \in Nat
    BY <1>2, Lengths
  <2> QED  BY <1>2, <2>1
<1>4. /\ b \o d \in Bytes /\ Len(b \o d) = n + l
      /\ \A i \in 1..n + l : (b \o d)[i] = IF i <= n THEN b[i] ELSE d[i - n]
  BY <1>1, <1>2, <1>3, ConcatProperties DEF Bytes
<1>5. n + l = k
  BY <1>3
<1>6. ASSUME NEW i \in 1..k  PROVE (b \o d)[i] = s[i]
  <2>1. (b \o d)[i] = IF i <= n THEN b[i] ELSE d[i - n]
    BY <1>4, <1>5
  <2>2. CASE i <= n
    <3>1. i \in 1..n
      BY <2>2
    <3> QED  BY <1>1, <2>1, <2>2, <3>1
  <2>3. CASE ~(i <= n)
    <3>1. PICK m \in 1..l : m = i - n /\ i = n + m
      BY <1>3, <2>3
    <3>2. d[m] = s[n + m]
      BY <1>2, <1>3, <3>1
    <3> QED  BY <2>1, <2>3, <3>1, <3>2
  <2> QED  BY <2>2, <2>3
<1>7. b \o d = s
  BY <1>3, <1>4, <1>5, <1>6, SeqEqual DEF Bytes
<1> QED  BY <1>1, <1>2, <1>7 DEF Cat, b, d

LEMMA TransferKeeps ==
    ASSUME Connection, Transfer
    PROVE  Connection'
<1>1. /\ connected /\ connected' = connected
      /\ down' = down /\ got' = got /\ sent' = sent
      /\ at' = at /\ call' = call /\ op' = op /\ out' = out /\ served' = served
      /\ calls' = calls /\ results' = results
  BY DEF Transfer, server
<1>2. /\ Executed /\ Doing /\ Upwards /\ Downwards
  BY DEF Connection
<1>3. PICK n \in 1..Len(pending) : up' = up \o SubSeq(pending, 1, n) /\ pending' = Drop(pending, n)
  BY DEF Transfer
<1>4. Executed'
  BY <1>1, <1>2 DEF Executed
<1>5. Doing'
  BY <1>1, <1>2 DEF Doing
<1>6. Upwards'
  <2>1. PICK x, f : Requested(up, x, sent, served, f) /\ x = pending
    BY <1>1, <1>2 DEF Upwards
  <2>2. up \in Bytes /\ pending \in Bytes
    BY <2>1 DEF Requested
  <2>3. PICK b \in Bytes : b = SubSeq(pending, 1, n) /\ pending = Cat(b, Drop(pending, n))
    BY <1>3, <2>2, Divided
  <2>4. pending' \in Bytes
    BY <1>3, <2>2, Divided
  <2>5. pending = Cat(b, pending')
    BY <1>3, <2>3
  <2>6. up' = Cat(up, b) /\ Cat(up, b) \in Bytes
    BY <1>3, <2>2, <2>3, Catenation DEF Cat
  <2>7. Cat(up', pending') = Cat(up, pending)
    BY <2>2, <2>4, <2>5, <2>6, Associative
  <2>8. Requested(up', pending', sent, served, f)
    BY <2>1, <2>4, <2>6, <2>7 DEF Requested
  <2> QED  BY <1>1, <2>8 DEF Upwards
<1>7. Downwards'
  BY <1>1, <1>2 DEF Downwards, replied, RepliesAsGiven
<1> QED  BY <1>4, <1>5, <1>6, <1>7 DEF Connection

LEMMA HangUpKeeps ==
    ASSUME Connection, HangUp
    PROVE  Connection'
<1>1. /\ connected' = FALSE /\ down' = <<>>
      /\ up' = up /\ got' = got /\ sent' = sent
      /\ at' = at /\ call' = call /\ op' = op /\ out' = out /\ served' = served
      /\ calls' = calls /\ results' = results
  BY DEF HangUp, server
<1>2. /\ Executed /\ Doing /\ Upwards /\ Downwards
  BY DEF Connection
<1>3. Executed'
  BY <1>1, <1>2 DEF Executed
<1>4. Doing'
  BY <1>1, <1>2 DEF Doing
<1>5. Upwards'
  <2>1. PICK x, f : Requested(up, x, sent, served, f)
    BY <1>2 DEF Upwards
  <2> QED  BY <1>1, <2>1 DEF Upwards
<1>6. Downwards'
  BY <1>1, <1>2, Nothing DEF Downwards, replied, RepliesAsGiven
<1> QED  BY <1>3, <1>4, <1>5, <1>6 DEF Connection

LEMMA ReceiveKeeps ==
    ASSUME ListsDecoded, Connection, Receive
    PROVE  Connection'
<1> DEFINE r == readReply(down)
           k == Len(got)
<1>1. /\ connected /\ connected' = connected /\ r.is = "reply" /\ down' = r.rest
      /\ got' = Append(got, [code |-> r.code,
                             value |-> IF r.code = 0 THEN meaning(sent[k + 1].op, r.payload) ELSE Nil,
                             empty |-> r.payload = <<>>])
      /\ pending' = pending /\ up' = up /\ sent' = sent
      /\ at' = at /\ call' = call /\ op' = op /\ out' = out /\ served' = served
      /\ calls' = calls /\ results' = results
  BY DEF Receive, server
<1>2. /\ Executed /\ Doing /\ Upwards /\ Downwards
  BY DEF Connection
<1>3. /\ Truncated \notin Bytes /\ down \in Bytes /\ IsSeq(got)
      /\ k \in Nat /\ replied \in Nat /\ k <= replied
  BY <1>2 DEF ListsDecoded, Downwards, Executed, Doing, IsSeq, replied
<1>4. joined(out) \in Bytes
  <2>1. CASE out = <<>>
    BY <2>1, NoWrites, Nothing
  <2>2. CASE out # <<>>
    <3>1. Head(out) \in Bytes /\ joined(Tail(out)) \in Bytes /\ joined(out) = Cat(Head(out), joined(Tail(out)))
      BY <1>2, <2>2, NextWrite DEF Doing
    <3> QED  BY <3>1, Catenation
  <2> QED  BY <2>1, <2>2
<1>5. PICK g, c, p : Replied(Cat(down, joined(out)), sent, results, k, replied, g, c, p)
  BY <1>1, <1>2 DEF Downwards
<1> HIDE DEF r, k
<1>6. /\ k < replied
      /\ Answers(sent[k + 1], results[k + 1], r.code, r.payload)
      /\ r.rest \in Bytes
      /\ Replied(Cat(r.rest, joined(out)), sent, results, k + 1, replied, g, c, p)
  BY <1>1, <1>3, <1>4, <1>5, ReplyRead DEF r
<1>7. PICK e : e = [code |-> r.code,
                    value |-> IF r.code = 0 THEN meaning(sent[k + 1].op, r.payload) ELSE Nil,
                    empty |-> r.payload = <<>>]
  OBVIOUS
<1>8. got' = Append(got, e)
  BY <1>1, <1>7
<1>9. /\ IsSeq(got') /\ Len(got') = k + 1
      /\ \A i \in 1..k : got'[i] = got[i]
      /\ got'[k + 1] = e
  BY <1>3, <1>8, Appended DEF k
<1>10. Executed'
  BY <1>1, <1>2, <1>9 DEF Executed
<1>11. Doing'
  BY <1>1, <1>2 DEF Doing
<1>12. Upwards'
  BY <1>1, <1>2 DEF Upwards
<1>13. RepliesAsGiven'
  <2>1. DOMAIN got = 1..k /\ DOMAIN got' = 1..k + 1
    BY <1>3, <1>9 DEF IsSeq, k
  <2>2. ASSUME NEW i \in 1..k + 1
        PROVE  IF sent[i].cut > 0 THEN got'[i].empty
               ELSE [code |-> got'[i].code, value |-> got'[i].value] = answer(sent[i], results[i])
    <3>1. CASE i = k + 1
      <4>1. e.code = r.code /\ (e.empty <=> r.payload = <<>>)
            /\ e.value = IF r.code = 0 THEN meaning(sent[k + 1].op, r.payload) ELSE Nil
        BY <1>7
      <4>2. IF sent[k + 1].cut > 0 THEN r.payload = <<>>
            ELSE [code |-> r.code, value |-> IF r.code = 0 THEN meaning(sent[k + 1].op, r.payload) ELSE Nil]
                    = answer(sent[k + 1], results[k + 1])
        BY <1>6, Zenon DEF Answers
      <4>3. IF sent[k + 1].cut > 0 THEN e.empty
            ELSE [code |-> e.code, value |-> e.value] = answer(sent[k + 1], results[k + 1])
        BY <4>1, <4>2, Zenon
      <4> QED  BY <1>9, <3>1, <4>3
    <3>2. CASE i # k + 1
      <4>1. i \in 1..k
        BY <1>3, <3>2
      <4>2. IF sent[i].cut > 0 THEN got[i].empty
            ELSE [code |-> got[i].code, value |-> got[i].value] = answer(sent[i], results[i])
        BY <1>2, <2>1, <4>1, Zenon DEF Downwards, RepliesAsGiven
      <4>3. got'[i] = got[i]
        BY <1>9, <4>1
      <4> QED  BY <4>2, <4>3, Zenon
    <3> QED  BY <3>1, <3>2
  <2> QED  BY <1>1, <2>1, <2>2, Zenon DEF RepliesAsGiven
<1>14. Downwards'
  <2>1. replied' = replied /\ k + 1 <= replied
    BY <1>1, <1>3, <1>6 DEF replied
  <2>2. Replied(Cat(down', joined(out')), sent', results', Len(got'), replied', g, c, p)
    BY <1>1, <1>6, <1>9, <2>1
  <2> QED  BY <1>1, <1>6, <1>9, <1>13, <2>1, <2>2 DEF Downwards
<1> QED  BY <1>10, <1>11, <1>12, <1>14 DEF Connection

LEMMA ClosingKeeps ==
    ASSUME Connection, ReadFails \/ WriteFails
    PROVE  Connection'
<1>1. /\ connected' = connected /\ down' = down /\ pending' = pending /\ up' = up
      /\ got' = got /\ sent' = sent /\ served' = served /\ calls' = calls /\ results' = results
      /\ at' = "closed"
  BY DEF ReadFails, WriteFails, streams, history
<1>2. (at = "read" /\ out' = out) \/ (at = "write" /\ out' = <<>> /\ ~connected)
  BY DEF ReadFails, WriteFails
<1>3. /\ Executed /\ Doing /\ Upwards /\ Downwards
  BY DEF Connection
<1>4. Executed'
  BY <1>1, <1>3 DEF Executed
<1>5. Doing'
  <2>1. out' = <<>>
    BY <1>2, <1>3 DEF Doing
  <2>2. <<>> \in Seq(Bytes) /\ Len(<<>>) <= 4
    OBVIOUS
  <2> QED  BY <1>1, <2>1, <2>2 DEF Doing
<1>6. Upwards'
  BY <1>1, <1>3 DEF Upwards
<1>7. Downwards'
  BY <1>1, <1>2, <1>3 DEF Downwards, replied, RepliesAsGiven
<1> QED  BY <1>4, <1>5, <1>6, <1>7 DEF Connection

LEMMA WriteNextKeeps ==
    ASSUME Connection, WriteNext
    PROVE  Connection'
<1>1. /\ connected /\ connected' = connected /\ pending' = pending /\ up' = up
      /\ got' = got /\ sent' = sent /\ served' = served /\ calls' = calls /\ results' = results
      /\ at = "write" /\ out # <<>> /\ down' = down \o Head(out) /\ out' = Tail(out)
      /\ at' = IF Tail(out) = <<>> THEN "read" ELSE "write"
  BY DEF WriteNext, history
<1>2. /\ Executed /\ Doing /\ Upwards /\ Downwards
  BY DEF Connection
<1>3. /\ Head(out) \in Bytes /\ out' \in Seq(Bytes) /\ Len(out') <= 4
      /\ joined(out') \in Bytes /\ joined(out) = Cat(Head(out), joined(out'))
  BY <1>1, <1>2, NextWrite DEF Doing
<1>4. Executed'
  BY <1>1, <1>2 DEF Executed
<1>5. Doing'
  BY <1>1, <1>3 DEF Doing
<1>6. Upwards'
  BY <1>1, <1>2 DEF Upwards
<1>7. Downwards'
  <2>1. replied' = replied
    BY <1>1 DEF replied
  <2>2. down \in Bytes
    BY <1>2 DEF Downwards
  <2>3. PICK h \in Bytes : h = Head(out)
    BY <1>3
  <2>4. down' = Cat(down, h) /\ down' \in Bytes
    BY <1>1, <2>2, <2>3, Catenation DEF Cat
  <2>5. Cat(down', joined(out')) = Cat(down, joined(out))
    BY <1>3, <2>2, <2>3, <2>4, Associative
  <2>6. RepliesAsGiven'
    BY <1>1, <1>2 DEF Downwards, RepliesAsGiven
  <2> QED  BY <1>1, <1>2, <2>1, <2>4, <2>5, <2>6 DEF Downwards
<1> QED  BY <1>4, <1>5, <1>6, <1>7 DEF Connection

\* A new reply goes to the end of what the client has to read.
LEMMA ReplyKeeps ==
    ASSUME Connection, at \in {"read", "call"}, NEW code, NEW payload,
           at' = "write", out' = WriteReply(code, payload), replied' = replied + 1,
           down' = down, got' = got, sent' = sent, connected' = connected,
           \A i \in 1..replied : results'[i] = results[i],
           Answers(sent[replied + 1], results'[replied + 1], code, payload)
    PROVE  Downwards'
<1>1. /\ Executed /\ Doing /\ Downwards
  BY DEF Connection
<1>2. /\ IsSeq(got) /\ Len(got) \in Nat /\ replied \in Nat /\ Len(got) <= replied
      /\ down \in Bytes /\ RepliesAsGiven
  BY <1>1 DEF Downwards, Executed, Doing, IsSeq, replied
<1>3. RepliesAsGiven'
  BY <1>2, GotSame
<1>4. Len(got') <= replied'
  BY <1>2
<1>5. ASSUME connected
      PROVE  \E g, c, p : Replied(Cat(down, joined(out')), sent, results', Len(got), replied + 1, g, c, p)
  <2>1. PICK g, c, p : Replied(Cat(down, joined(out)), sent, results, Len(got), replied, g, c, p)
    BY <1>1, <1>5 DEF Downwards
  <2>2. out = <<>>
    BY <1>1 DEF Doing
  <2>3. Cat(down, joined(out)) = down
    BY <1>2, <2>2, NoWrites, Nothing
  <2>4. Replied(down, sent, results', Len(got), replied, g, c, p)
    BY <1>2, <2>1, <2>3, SameReplies
  <2> QED  BY <1>2, <2>4, OneMoreReply
<1> QED  BY <1>2, <1>3, <1>4, <1>5 DEF Downwards

\* The Client is called, and nothing changes for the client of the connection.
LEMMA CallKeeps ==
    ASSUME Connection, at \in {"read", "call"}, at' = "call", out' = <<>>, replied' = replied,
           down' = down, got' = got, sent' = sent, connected' = connected,
           \A i \in 1..replied : results'[i] = results[i]
    PROVE  Downwards'
<1>1. /\ Executed /\ Doing /\ Downwards
  BY DEF Connection
<1>2. /\ IsSeq(got) /\ Len(got) \in Nat /\ replied \in Nat /\ Len(got) <= replied
      /\ down \in Bytes /\ RepliesAsGiven
  BY <1>1 DEF Downwards, Executed, Doing, IsSeq, replied
<1>3. RepliesAsGiven'
  BY <1>2, GotSame
<1>4. out' = out
  BY <1>1 DEF Doing
<1>5. ASSUME connected
      PROVE  \E g, c, p : Replied(Cat(down, joined(out)), sent, results', Len(got), replied, g, c, p)
  <2>1. PICK g, c, p : Replied(Cat(down, joined(out)), sent, results, Len(got), replied, g, c, p)
    BY <1>1, <1>5 DEF Downwards
  <2>2. Replied(Cat(down, joined(out)), sent, results', Len(got), replied, g, c, p)
    BY <1>2, <2>1, SameReplies
  <2> QED  BY <2>2
<1> QED  BY <1>2, <1>3, <1>4, <1>5 DEF Downwards

LEMMA Pair ==
    ASSUME NEW a, NEW b  PROVE Append(<<a>>, b) = <<a, b>>
<1>1. PICK S : S = {a, b}
  BY Zenon
<1>2. a \in S /\ b \in S
  BY <1>1
<1>3. PICK s \in Seq(S) : s = <<a>>
  <2>1. <<a>> \in Seq(S)
    BY <1>2
  <2> QED  BY <2>1, Zenon
<1>4. PICK u \in Seq(S) : u = <<a, b>>
  <2>1. <<a, b>> \in Seq(S)
    BY <1>2
  <2> QED  BY <2>1, Zenon
<1>5. Append(s, b) \in Seq(S) /\ Len(Append(s, b)) = 2 /\ Len(u) = 2
  BY <1>2, <1>3, <1>4
<1>6. \A i \in 1..2 : Append(s, b)[i] = u[i]
  BY <1>2, <1>3, <1>4
<1>7. Append(s, b) = u
  BY <1>5, <1>6, SeqEqual
<1> QED  BY <1>3, <1>4, <1>7

LEMMA ReplyWrites ==
    ASSUME NEW code, NEW payload, Fits(code, payload)
    PROVE  /\ WriteReply(code, payload) \in Seq(Bytes)
           /\ Len(WriteReply(code, payload)) <= 4
           /\ WriteReply(code, payload) # <<>>
<1>1. PICK w : w = WriteReply(code, payload)
  OBVIOUS
<1>2. w \in Seq(Bytes) /\ Len(w) = 4
  BY <1>1, ReplyBytes
<1>3. Len(w) <= 4 /\ w # <<>>
  BY <1>2
<1> QED  BY <1>1, <1>2, <1>3

LEMMA Proceeding ==
    ASSUME NEW x, NEW made, proceed(x, made)
    PROVE  /\ \A code, payload : x = Reply(code, payload) =>
                at' = "write" /\ out' = WriteReply(code, payload) /\ calls' = made
           /\ \A m, arg : x = Call(m, arg) =>
                /\ at' = "call" /\ out' = <<>> /\ call'.m = m
                /\ calls' = [made EXCEPT ![served'] = Append(made[served'], [m |-> m, arg |-> arg])]
<1>1. ASSUME NEW code, NEW payload, x = Reply(code, payload)
      PROVE  at' = "write" /\ out' = WriteReply(code, payload) /\ calls' = made
  <2>1. x.is = "write" /\ x.out = WriteReply(code, payload)
    BY <1>1 DEF Reply
  <2> QED  BY <2>1 DEF proceed
<1>2. ASSUME NEW m, NEW arg, x = Call(m, arg)
      PROVE  /\ at' = "call" /\ out' = <<>> /\ call'.m = m
             /\ calls' = [made EXCEPT ![served'] = Append(made[served'], [m |-> m, arg |-> arg])]
  <2>1. x.is = "call" /\ x.m = m /\ x.arg = arg
    BY <1>2 DEF Call
  <2> QED  BY <2>1 DEF proceed
<1> QED  BY <1>1, <1>2

LEMMA ReadKeeps ==
    ASSUME ListsDecoded, Connection, Read
    PROVE  Connection'
<1> DEFINE m == ReadMessage(up)
           n == served + 1
           made == Append(calls, <<>>)
<1>1. /\ at = "read" /\ m.is = "message" /\ up' = m.rest /\ served' = n
      /\ op' = ParseRequestHeader(m.body).v /\ results' = Append(results, <<>>)
      /\ proceed(dispatch(m.body), made)
      /\ pending' = pending /\ down' = down /\ connected' = connected /\ sent' = sent /\ got' = got
  BY DEF Read
<1>2. /\ Executed /\ Doing /\ Upwards /\ Downwards
  BY DEF Connection
<1>3. PICK x, f : Requested(up, x, sent, served, f) /\ (connected => x = pending)
  BY <1>2 DEF Upwards
<1>4. /\ sent \in Seq(Requests \cup {Huge}) /\ served \in 0..Len(sent) /\ served \in Nat
      /\ IsSeq(calls) /\ Len(calls) = served /\ IsSeq(results) /\ Len(results) = served
      /\ IsSeq(got)
  BY <1>2 DEF Executed
<1> HIDE DEF m
<1>5. /\ served < Len(sent) /\ sent[n] \in Requests /\ m.body = body(sent[n])
      /\ Requested(m.rest, x, sent, n, f)
  BY <1>1, <1>3, <1>4, RequestRead DEF m
<1>6. PICK r \in Requests : r = sent[n]
  BY <1>5
<1>7. /\ IsSeq(made) /\ Len(made) = n /\ made[n] = <<>>
      /\ \A i \in 1..served : made[i] = calls[i]
  BY <1>4, Appended
<1>8. /\ IsSeq(results') /\ Len(results') = n /\ results'[n] = <<>>
      /\ \A i \in 1..served : results'[i] = results[i]
  BY <1>1, <1>4, Appended
<1> HIDE DEF made
<1>9. Upwards'
  BY <1>1, <1>3, <1>5 DEF Upwards
<1>10. replied = served /\ n \in 0..Len(sent) /\ n \in Nat /\ n \in 1..n
  BY <1>1, <1>4, <1>5 DEF replied
<1>11. proceed(dispatch(body(r)), made)
  BY <1>1, <1>5, <1>6
<1>12. ASSUME IsSeq(calls'), Len(calls') = n, calls'[n] = asked(r, <<>>),
              \A i \in 1..served : calls'[i] = calls[i]
       PROVE  Executed'
  <2>1. ASSUME NEW i \in 1..n
        PROVE  sent[i] \in Requests /\ calls'[i] = asked(sent[i], results'[i])
    <3>1. CASE i = n
      BY <1>6, <1>8, <1>12, <3>1
    <3>2. CASE i # n
      <4>1. i \in 1..served
        BY <1>4, <3>2
      <4>2. sent[i] \in Requests /\ calls[i] = asked(sent[i], results[i])
        BY <1>2, <4>1 DEF Executed
      <4> QED  BY <1>8, <1>12, <4>1, <4>2
    <3> QED  BY <3>1, <3>2
  <2> HIDE DEF n
  <2> QED  BY <1>1, <1>4, <1>8, <1>10, <1>12, <2>1 DEF Executed
<1>13. CASE ~asksForNone(r)
  <2> DEFINE e == [m |-> methodOf(r.op), arg |-> argOf(r)]
  <2>1. /\ methodOf(r.op) \in Methods /\ ParseRequestHeader(body(r)).v = r.op
        /\ dispatch(body(r)) = Call(methodOf(r.op), argOf(r))
    BY <1>13, RequestServed
  <2>2. /\ at' = "call" /\ out' = <<>> /\ call'.m = methodOf(r.op)
        /\ calls' = [made EXCEPT ![served'] = Append(made[served'], e)]
    BY <1>11, <2>1, Proceeding
  <2>3. op' = r.op
    BY <1>1, <1>5, <1>6, <2>1
  <2> HIDE DEF e
  <2>4. Append(<<>>, e) = <<e>>
    OBVIOUS
  <2>5. Update(made, n, <<e>>, calls')
    BY <1>1, <1>7, <2>2, <2>4 DEF Update
  <2>6. /\ IsSeq(calls') /\ Len(calls') = n /\ calls'[n] = <<e>>
        /\ \A i \in 1..n : i # n => calls'[i] = made[i]
    BY <1>7, <1>10, <2>5, Replaced
  <2>7. asked(r, <<>>) = <<e>>
    BY <1>13, AskedOnce DEF e
  <2>8. \A i \in 1..served : calls'[i] = calls[i]
    BY <1>4, <1>7, <2>6
  <2>9. Executed'
    BY <1>12, <2>6, <2>7, <2>8
  <2>10. Doing'
    <3>1. <<>> \in Seq(Bytes) /\ Len(<<>>) <= 4
      OBVIOUS
    <3>2. served' > 0 /\ sent'[served'] = r /\ results'[served'] = <<>>
      BY <1>1, <1>4, <1>6, <1>8
    <3> QED  BY <1>13, <2>1, <2>2, <2>3, <3>1, <3>2 DEF Doing
  <2>11. Downwards'
    <3>1. replied' = replied
      BY <1>1, <1>4, <1>10, <2>2 DEF replied
    <3> QED  BY <1>1, <1>8, <1>10, <2>2, <3>1, CallKeeps
  <2> QED  BY <1>9, <2>9, <2>10, <2>11 DEF Connection
<1>14. CASE asksForNone(r)
  <2>1. PICK code, payload : /\ dispatch(body(r)) = Reply(code, payload)
                             /\ Answers(r, <<>>, code, payload)
    BY <1>14, RequestServed
  <2>2. at' = "write" /\ out' = WriteReply(code, payload) /\ calls' = made
    BY <1>11, <2>1, Proceeding
  <2>3. Executed'
    BY <1>7, <1>12, <1>14, <2>2, AskedNothing
  <2>4. Doing'
    <3>1. out' \in Seq(Bytes) /\ Len(out') <= 4 /\ out' # <<>>
      BY <2>1, <2>2, ReplyWrites DEF Answers
    <3> QED  BY <2>2, <3>1 DEF Doing
  <2>5. Downwards'
    <3>1. replied' = replied + 1
      BY <1>1, <1>4, <1>10, <2>2 DEF replied
    <3>2. Answers(sent[replied + 1], results'[replied + 1], code, payload)
      BY <1>6, <1>8, <1>10, <2>1
    <3> QED  BY <1>1, <1>8, <1>10, <2>2, <3>1, <3>2, ReplyKeeps
  <2> QED  BY <1>9, <2>3, <2>4, <2>5 DEF Connection
<1> QED  BY <1>13, <1>14

LEMMA ClientReturnsKeeps ==
    ASSUME ListsDecoded, Connection, ClientReturns
    PROVE  Connection'
<1>1. PICK res \in Results[call.m] :
        /\ results' = [results EXCEPT ![served] = Append(results[served], res)]
        /\ proceed(resume(op, call.m, res), calls)
  BY DEF ClientReturns
<1>2. /\ at = "call" /\ served' = served /\ op' = op /\ sent' = sent /\ got' = got
      /\ pending' = pending /\ up' = up /\ down' = down /\ connected' = connected
  BY DEF ClientReturns, streams
<1>3. /\ Executed /\ Doing /\ Upwards /\ Downwards
  BY DEF Connection
<1>4. /\ sent \in Seq(Requests \cup {Huge}) /\ served \in 0..Len(sent) /\ served \in Nat /\ served > 0
      /\ IsSeq(calls) /\ Len(calls) = served /\ IsSeq(results) /\ Len(results) = served
      /\ IsSeq(got) /\ served \in 1..served
      /\ \A i \in 1..served : sent[i] \in Requests /\ calls[i] = asked(sent[i], results[i])
  BY <1>2, <1>3 DEF Executed, Doing
<1>5. PICK r \in Requests : r = sent[served]
  BY <1>4
<1>6. /\ op = r.op /\ ~asksForNone(r) /\ methodOf(r.op) \in Methods
      /\ \/ results[served] = <<>> /\ call.m = methodOf(r.op)
         \/ /\ r.op = OpDestroy /\ call.m = "Initialize"
            /\ \E e : results[served] = <<e>> /\ e.code = 0
  BY <1>2, <1>3, <1>5 DEF Doing
<1>7. PICK rs : rs = Append(results[served], res)
  OBVIOUS
<1>8. /\ IsSeq(results') /\ Len(results') = served /\ results'[served] = rs
      /\ \A i \in 1..served : i # served => results'[i] = results[i]
  <2>1. Update(results, served, rs, results')
    BY <1>1, <1>7 DEF Update
  <2>2. IsSeq(results) /\ served \in 1..Len(results) /\ Len(results) = served
    BY <1>4
  <2>3. /\ IsSeq(results') /\ Len(results') = Len(results) /\ results'[served] = rs
        /\ \A i \in 1..Len(results) : i # served => results'[i] = results[i]
    BY <2>1, <2>2, Replaced
  <2> QED  BY <2>2, <2>3
<1>9. Upwards'
  BY <1>2, <1>3 DEF Upwards
<1>10. replied = served - 1 /\ replied \in Nat /\ replied + 1 = served
       /\ \A i \in 1..replied : i \in 1..served /\ i # served
  BY <1>2, <1>4 DEF replied
<1>11. \A i \in 1..replied : results'[i] = results[i]
  BY <1>8, <1>10
<1>12. ASSUME IsSeq(calls'), Len(calls') = served, calls'[served] = asked(r, rs),
              \A i \in 1..served : i # served => calls'[i] = calls[i]
       PROVE  Executed'
  <2>1. ASSUME NEW i \in 1..served
        PROVE  sent[i] \in Requests /\ calls'[i] = asked(sent[i], results'[i])
    <3>1. CASE i = served
      BY <1>5, <1>8, <1>12, <3>1
    <3>2. CASE i # served
      BY <1>4, <1>8, <1>12, <3>2
    <3> QED  BY <3>1, <3>2
  <2> QED  BY <1>2, <1>4, <1>8, <1>12, <2>1 DEF Executed
<1>13. ASSUME NEW code, NEW payload, resume(op, call.m, res) = Reply(code, payload),
              Answers(r, rs, code, payload), asked(r, rs) = asked(r, results[served])
       PROVE  Connection'
  <2>1. at' = "write" /\ out' = WriteReply(code, payload) /\ calls' = calls
    BY <1>1, <1>13, Proceeding
  <2>2. Executed'
    BY <1>4, <1>5, <1>12, <1>13, <2>1
  <2>3. Doing'
    <3>1. out' \in Seq(Bytes) /\ Len(out') <= 4 /\ out' # <<>>
      BY <1>13, <2>1, ReplyWrites DEF Answers
    <3> QED  BY <2>1, <3>1 DEF Doing
  <2>4. Downwards'
    <3>1. replied' = replied + 1
      BY <1>2, <1>10, <2>1 DEF replied
    <3>2. Answers(sent[replied + 1], results'[replied + 1], code, payload)
      BY <1>5, <1>8, <1>10, <1>13
    <3> QED  BY <1>2, <1>11, <2>1, <3>1, <3>2, ReplyKeeps
  <2> QED  BY <1>9, <2>2, <2>3, <2>4 DEF Connection
<1>14. CASE results[served] = <<>> /\ call.m = methodOf(r.op)
  <2>1. rs = <<res>>
    BY <1>7, <1>14
  <2>2. rs # <<>> /\ rs[1] = res
    BY <2>1
  <2>3. asked(r, <<>>) = <<[m |-> methodOf(r.op), arg |-> argOf(r)]>>
    BY <1>6, AskedOnce
  <2>4. resume(op, call.m, res) = resume(r.op, methodOf(r.op), res) /\ res \in Results[methodOf(r.op)]
    BY <1>6, <1>14
  <2>5. CASE r.op = OpDestroy /\ res.code = 0
    <3> DEFINE e == [m |-> "Initialize", arg |-> res.value]
    <3>1. resume(op, call.m, res) = Call("Initialize", res.value)
      BY <1>6, <2>4, <2>5, Resumed
    <3>2. /\ at' = "call" /\ out' = <<>> /\ call'.m = "Initialize"
          /\ calls' = [calls EXCEPT ![served] = Append(calls[served], e)]
      BY <1>1, <1>2, <3>1, Proceeding
    <3>3. asked(r, rs) = <<[m |-> methodOf(r.op), arg |-> argOf(r)], e>>
      BY <1>6, <2>2, <2>5, AskedTwice
    <3> HIDE DEF e
    <3>4. calls[served] = <<[m |-> methodOf(r.op), arg |-> argOf(r)]>>
      BY <1>4, <1>5, <1>14, <2>3
    <3>5. Append(calls[served], e) = asked(r, rs)
      BY <3>3, <3>4, Pair
    <3>6. /\ IsSeq(calls') /\ Len(calls') = served /\ calls'[served] = asked(r, rs)
          /\ \A i \in 1..served : i # served => calls'[i] = calls[i]
      <4>1. Update(calls, served, asked(r, rs), calls')
        BY <3>2, <3>5 DEF Update
      <4>2. IsSeq(calls) /\ served \in 1..Len(calls) /\ Len(calls) = served
        BY <1>4
      <4>3. /\ IsSeq(calls') /\ Len(calls') = Len(calls) /\ calls'[served] = asked(r, rs)
            /\ \A i \in 1..Len(calls) : i # served => calls'[i] = calls[i]
        BY <4>1, <4>2, Replaced
      <4> QED  BY <4>2, <4>3
    <3>7. Executed'
      BY <1>12, <3>6
    <3>8. Doing'
      <4>1. <<>> \in Seq(Bytes) /\ Len(<<>>) <= 4
        OBVIOUS
      <4>2. /\ served' > 0 /\ sent'[served'] = r /\ op' = r.op
            /\ results'[served'] = <<res>> /\ res.code = 0
        BY <1>2, <1>4, <1>5, <1>6, <1>8, <2>1, <2>5
      <4> QED  BY <1>6, <2>5, <3>2, <4>1, <4>2 DEF Doing
    <3>9. Downwards'
      <4>1. replied' = replied
        BY <1>2, <3>2 DEF replied
      <4> QED  BY <1>2, <1>11, <3>2, <4>1, CallKeeps
    <3> QED  BY <1>9, <3>7, <3>8, <3>9 DEF Connection
  <2>6. CASE ~(r.op = OpDestroy /\ res.code = 0)
    <3>1. PICK code, payload : /\ resume(r.op, methodOf(r.op), res) = Reply(code, payload)
                               /\ Answers(r, <<res>>, code, payload)
      BY <1>6, <2>4, <2>6, Resumed
    <3>2. asked(r, rs) = <<[m |-> methodOf(r.op), arg |-> argOf(r)]>>
      BY <1>6, <2>2, <2>6, AskedOnce
    <3> QED  BY <1>13, <1>14, <2>1, <2>3, <2>4, <3>1, <3>2
  <2> QED  BY <2>5, <2>6
<1>15. CASE /\ r.op = OpDestroy /\ call.m = "Initialize"
            /\ \E e : results[served] = <<e>> /\ e.code = 0
  <2>1. PICK e : results[served] = <<e>> /\ e.code = 0
    BY <1>15
  <2>2. resume(op, call.m, res) = Reply(0, <<>>)
    <3>1. op = OpDestroy /\ op # OpGetCredByUUID /\ ~(call.m = "DefaultPrincipal" /\ res.code = 0)
      BY <1>6, <1>15 DEF OpDestroy, OpGetCredByUUID
    <3> QED  BY <3>1, Zenon DEF resume
  <2>3. Answers(r, rs, 0, <<>>)
    BY <1>15, Destroyed
  <2>4. asked(r, rs) = asked(r, results[served])
    <3>1. PICK s : s = results[served]
      OBVIOUS
    <3>2. s # <<>> /\ s[1] = e /\ rs = <<e, res>>
      <4>1. s = <<e>> /\ rs = Append(<<e>>, res)
        BY <1>7, <2>1, <3>1
      <4>2. rs = <<e, res>>
        BY <4>1, Pair
      <4> QED  BY <4>1, <4>2
    <3>3. rs # <<>> /\ rs[1] = e
      BY <3>2
    <3>4. /\ asked(r, s) = <<[m |-> methodOf(r.op), arg |-> argOf(r)],
                             [m |-> "Initialize", arg |-> s[1].value]>>
          /\ asked(r, rs) = <<[m |-> methodOf(r.op), arg |-> argOf(r)],
                              [m |-> "Initialize", arg |-> rs[1].value]>>
      BY <1>6, <1>15, <2>1, <3>2, <3>3, AskedTwice
    <3> QED  BY <3>1, <3>2, <3>3, <3>4
  <2> QED  BY <1>13, <2>2, <2>3, <2>4
<1> QED  BY <1>6, <1>14, <1>15

LEMMA ConnectionNext ==
    ASSUME ListsDecoded, Connection, [Next]_vars
    PROVE  Connection'
<1>1. CASE UNCHANGED vars
  <2>1. /\ Executed' = Executed /\ Doing' = Doing /\ Upwards' = Upwards
    BY <1>1 DEF vars, streams, history, Executed, Doing, Upwards
  <2>2. Downwards' = Downwards
    BY <1>1 DEF vars, streams, history, Downwards, replied, RepliesAsGiven
  <2> QED  BY <2>1, <2>2 DEF Connection
<1>2. CASE Next
  <2>1. ASSUME NEW r \in Requests \cup {Huge}, Send(r)  PROVE Connection'
    BY <2>1, SendKeeps
  <2>2. CASE Transfer
    BY <2>2, TransferKeeps
  <2>3. CASE HangUp
    BY <2>3, HangUpKeeps
  <2>4. CASE Receive
    BY <2>4, ReceiveKeeps
  <2>5. CASE Read
    BY <2>5, ReadKeeps
  <2>6. CASE ReadFails \/ WriteFails
    BY <2>6, ClosingKeeps
  <2>7. CASE ClientReturns
    BY <2>7, ClientReturnsKeeps
  <2>8. CASE WriteNext
    BY <2>8, WriteNextKeeps
  <2> QED  BY <1>2, <2>1, <2>2, <2>3, <2>4, <2>5, <2>6, <2>7, <2>8 DEF Next, ServerStep
<1> QED  BY <1>1, <1>2

LEMMA ConnectionInvariant ==
    ASSUME ListsDecoded
    PROVE  Spec => []Connection
<1>1. Init => Connection
  BY ConnectionInit
<1>2. Connection /\ [Next]_vars => Connection'
  BY ConnectionNext
<1> QED  BY <1>1, <1>2, PTL DEF Spec

-----------------------------------------------------------------------------
(* The theorems.                                                           *)

\* For any requests, results, chunks and length of the connection: whatever
\* arrives, in whatever pieces, the Client is called for the messages of the
\* client in their order, with what they ask for, and for one that is cut
\* short with nothing.  (handleConn, dispatch, handle and ReadMessage.)
THEOREM CallsAreTheRequests ==
    ASSUME ListsDecoded
    PROVE  Spec => []ExecutedAsSent
<1>1. ASSUME Connection  PROVE ExecutedAsSent
  <2>1. Executed
    BY <1>1 DEF Connection
  <2>2. DOMAIN calls = 1..served /\ served <= Len(sent) /\ Len(calls) = served
    BY <2>1 DEF Executed, IsSeq
  <2> QED  BY <2>1, <2>2 DEF ExecutedAsSent, Executed
<1> QED  BY <1>1, ConnectionInvariant, PTL

\* What the client decodes as its i-th reply is the status and the value that
\* the Client returned for its i-th request.  (WriteReply, handle's encoders,
\* and kcmio_unix_socket_read of the client.)
THEOREM RepliesAreTheResults ==
    ASSUME ListsDecoded
    PROVE  Spec => []RepliesAsGiven
<1>1. Connection => RepliesAsGiven
  BY DEF Connection, Downwards
<1> QED  BY <1>1, ConnectionInvariant, PTL

\* Neither side ever waits for the rest of a frame that was written whole: a
\* connection at rest has every reply, and no byte left over.  (ReadMessage
\* and WriteReply count the bytes of a frame alike with the client.)
THEOREM NoReplyIsMissing ==
    ASSUME ListsDecoded
    PROVE  Spec => []NoReplyMissing
<1>1. ASSUME Connection, connected, at = "read", pending = <<>>,
             ReadMessage(up).is = "more", readReply(down).is = "more"
      PROVE  Len(got) = Len(sent) /\ up = <<>> /\ down = <<>>
  <2>1. /\ Executed /\ Doing /\ Upwards /\ Downwards
    BY <1>1 DEF Connection
  <2>2. PICK x, f : Requested(up, x, sent, served, f) /\ x = <<>>
    BY <1>1, <2>1 DEF Upwards
  <2>3. sent \in Seq(Requests \cup {Huge}) /\ served \in 0..Len(sent) /\ served \in Nat
    BY <2>1 DEF Executed
  <2>4. served = Len(sent) /\ up = <<>>
    BY <1>1, <2>2, <2>3, RequestRead
  <2>5. replied = served /\ joined(out) = <<>> /\ <<>> \in Bytes
    BY <1>1, <2>1, NoWrites, Nothing DEF replied, Doing
  <2>6. /\ Truncated \notin Bytes /\ down \in Bytes
        /\ Len(got) \in Nat /\ Len(got) <= served
    BY <2>1, <2>5 DEF ListsDecoded, Downwards, Executed, IsSeq
  <2>7. PICK g, c, p : Replied(Cat(down, <<>>), sent, results, Len(got), served, g, c, p)
    BY <1>1, <2>1, <2>5 DEF Downwards
  <2>8. Len(got) = served /\ down = <<>>
    BY <1>1, <2>3, <2>5, <2>6, <2>7, ReplyRead
  <2> QED  BY <2>4, <2>8
<1>2. Connection => NoReplyMissing
  BY <1>1 DEF NoReplyMissing
<1> QED  BY <1>2, ConnectionInvariant, PTL

=============================================================================
