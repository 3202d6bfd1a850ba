------------------------- MODULE ArmdsBridge_proofs -------------------------
(***************************************************************************)
(* The types of the bridge, and the framing of its two streams: for every  *)
(* set of TLPs, every longest payload and every size of the sockets.       *)
(***************************************************************************)
EXTENDS ArmdsBridge, TLAPS, SequenceTheorems

(* What the model's operators on units return.                              *)

HeaderUnit(n, k)  == [msg |-> n, part |-> "header", k |-> k]
PayloadUnit(n, k) == [msg |-> n, part |-> "payload", k |-> k]

(* The units of a header, and of a payload.                                 *)
LEMMA HeaderFacts ==
    ASSUME NEW n \in Nat
    PROVE  /\ Header(n) \in Seq(Unit) /\ Len(Header(n)) = 2
           /\ Header(n)[1] = HeaderUnit(n, 1) /\ Header(n)[2] = HeaderUnit(n, 2)
<1>1. \A k \in 1..2 : HeaderUnit(n, k) \in Unit
  BY DEF HeaderUnit, Unit
<1>2. Header(n) = [k \in 1..2 |-> HeaderUnit(n, k)]
  BY DEF Header, HeaderUnits, HeaderUnit
<1> QED
  BY <1>1, <1>2

LEMMA PayloadFacts ==
    ASSUME NEW n \in Nat, NEW len \in Nat
    PROVE  /\ Payload(n, len) \in Seq(Unit) /\ Len(Payload(n, len)) = len
           /\ \A k \in 1..len : Payload(n, len)[k] = PayloadUnit(n, k)
<1>1. \A k \in 1..len : PayloadUnit(n, k) \in Unit
  BY DEF PayloadUnit, Unit
<1>2. Payload(n, len) = [k \in 1..len |-> PayloadUnit(n, k)]
  BY DEF Payload, PayloadUnit
<1> QED
  BY <1>1, <1>2

(* The operators that cut the stream, and what is put behind it.            *)
LEMMA FirstFacts ==
    ASSUME NEW q \in Seq(Unit), NEW k \in 0..Len(q)
    PROVE  /\ First(q, k) \in Seq(Unit) /\ Len(First(q, k)) = k
           /\ \A i \in 1..k : First(q, k)[i] = q[i]
<1>1. k \in Int /\ \A i \in 1..k : q[i] \in Unit
  BY ElementOfSeq, LenProperties
<1> QED
  BY <1>1, SubSeqProperties, LenProperties DEF First

LEMMA RestFacts ==
    ASSUME NEW q \in Seq(Unit), NEW k \in 0..Len(q)
    PROVE  /\ Rest(q, k) \in Seq(Unit) /\ Len(Rest(q, k)) = Len(q) - k
           /\ \A i \in 1..(Len(q) - k) : Rest(q, k)[i] = q[i + k]
<1>1. /\ k \in Nat /\ Len(q) \in Nat
      /\ \A i \in (k + 1)..Len(q) : q[i] \in Unit
  BY ElementOfSeq, LenProperties
<1>2. /\ SubSeq(q, k + 1, Len(q)) \in Seq(Unit)
      /\ Len(SubSeq(q, k + 1, Len(q))) = IF k + 1 <= Len(q) THEN Len(q) - (k + 1) + 1 ELSE 0
      /\ \A i \in 1..(Len(q) - (k + 1) + 1) : SubSeq(q, k + 1, Len(q))[i] = q[k + 1 + i - 1]
  BY <1>1, SubSeqProperties
<1> QED
  BY <1>1, <1>2 DEF Rest

LEMMA GrowFacts ==
    ASSUME NEW q \in Seq(Unit), NEW u \in Seq(Unit)
    PROVE  /\ q \o u \in Seq(Unit) /\ Len(q \o u) = Len(q) + Len(u)
           /\ Len(u) <= Room(q) => Len(q \o u) <= BufferSize
<1>1. Len(q) \in Nat /\ Len(u) \in Nat /\ BufferSize \in Nat
  BY BridgeAssumption, LenProperties
<1>2. q \o u \in Seq(Unit) /\ Len(q \o u) = Len(q) + Len(u)
  BY ConcatProperties
<1> QED
  BY <1>1, <1>2 DEF Room

-----------------------------------------------------------------------------
(* The types. *)

(* Every step keeps the types.                                              *)
LEMMA TypeNext == Types /\ [Next]_vars => Types'
<1> SUFFICES ASSUME Types, [Next]_vars PROVE Types' OBVIOUS
<1> USE DEF Types
<1>b. BufferSize \in Nat \ {0} /\ MaxLength \in Nat /\ MaxRuns \in Nat
  BY BridgeAssumption
<1>h. /\ offered \in Seq(Tlps) /\ responded \in Seq(Tlps)
      /\ fpga \in Seq(Nat) /\ recvd \in Seq(Nat)
  OBVIOUS
<1>s. c2s \in Seq(Unit) /\ s2c \in Seq(Unit)
  OBVIOUS
<1>g. cmsg \in Message /\ smsg \in Message
  OBVIOUS
<1>q. /\ Len(c2s) \in Nat /\ Len(s2c) \in Nat
      /\ Len(offered) \in Nat /\ Len(responded) \in Nat
  BY LenProperties
<1>t. \A t \in Tlps : t.length \in 0..MaxLength /\ t.data \in BOOLEAN
  BY BridgeAssumption
<1>m. ASSUME NEW units, NEW tlps \in Seq(Tlps), NEW m \in Readings(units, tlps)
      PROVE  m \in Message
  <2>1. \A n \in 1..Len(tlps) : n \in Nat /\ tlps[n].length \in 0..MaxLength
    BY <1>t, ElementOfSeq, LenProperties
  <2>2. Parsed(units, tlps) \subseteq Message
    BY <2>1 DEF Parsed, Message
  <2> QED
    BY <2>2, <1>m DEF Readings, Message, Garbled
<1>a. ASSUME NEW m \in Message, NEW units PROVE Assembled(m, units) \in Nat
  BY DEF Assembled, Garbled, Message
<1>c. ASSUME NEW call \in {"send_header", "recv_header"}, Connect(call) \/ Connected(call)
      PROVE  Types'
  <2>1. <<DeviceId>> \in Seq(Unit) /\ Len(<<DeviceId>>) = 1
    BY DEF DeviceId, Unit
  <2>2. CASE Connect(call)
    <3>1. c2s' \in Seq(Unit) /\ Len(c2s') <= BufferSize
      <4>1. CASE c2s' = <<DeviceId>>
        BY <1>b, <2>1, <4>1
      <4>2. CASE c2s' = << >>
        BY <1>b, <4>2, EmptySeq
      <4> QED BY <2>2, <4>1, <4>2 DEF Connect
    <3>2. /\ s2c' \in Seq(Unit) /\ Len(s2c') <= BufferSize
          /\ offered' \in Seq(Tlps) /\ responded' \in Seq(Tlps)
          /\ fpga' \in Seq(Nat) /\ recvd' \in Seq(Nat)
      BY <1>b, <2>2, EmptySeq DEF Connect
    <3>3. /\ sock' \in {"none", "open"} /\ nonblock' = FALSE /\ spc' = "ident"
          /\ cpc' \in {"idle", "send_header", "recv_header"}
          /\ UNCHANGED <<cmsg, smsg, runs>>
      BY <2>2 DEF Connect
    <3> QED
      BY <3>1, <3>2, <3>3
  <2>3. CASE Connected(call)
    BY <2>3 DEF Connected, server, txHist, rxHist
  <2> QED
    BY <1>c, <2>2, <2>3
<1>n. ASSUME SendToNobody PROVE cpc \in {"send_header", "send_payload"} => Types'
  BY <1>n DEF SendToNobody, server, txHist, rxHist
<1>f. ASSUME NEW units \in Seq(Unit), SendFallsShort(units)
      PROVE  Types'
  <2>1. Room(c2s) \in 0..Len(units) /\ Room(c2s) = BufferSize - Len(c2s)
    BY <1>b, <1>f, <1>q, LenProperties DEF SendFallsShort, Room
  <2>2. First(units, Room(c2s)) \in Seq(Unit) /\ Len(First(units, Room(c2s))) = Room(c2s)
    BY <2>1, FirstFacts
  <2>3. c2s' \in Seq(Unit) /\ Len(c2s') <= BufferSize
    BY <1>b, <1>f, <1>q, <2>1, <2>2, ConcatProperties DEF SendFallsShort
  <2> QED
    BY <1>f, <2>3 DEF SendFallsShort, server, txHist, rxHist
<1>1. CASE CallSend BY <1>1, <1>c DEF CallSend
<1>2. CASE CallRecv BY <1>2, <1>c DEF CallRecv
<1>3. ASSUME NEW t \in Tlps, SendHeader(t) PROVE Types'
  <2> DEFINE n == Len(offered) + 1
  <2>1. n \in Nat /\ Header(n) \in Seq(Unit) /\ Len(Header(n)) = 2
    BY <1>b, <1>q, HeaderFacts
  <2>2. CASE ServerAttached /\ Room(c2s) >= HeaderUnits /\ c2s' = c2s \o Header(n)
             /\ offered' = Append(offered, t)
    <3>1. c2s' \in Seq(Unit) /\ Len(c2s') <= BufferSize
      BY <1>s, <2>1, <2>2, GrowFacts DEF HeaderUnits
    <3>2. offered' \in Seq(Tlps)
      <4> HIDE DEF Types
      <4> QED BY <1>h, <2>2, AppendProperties
    <3>3. [msg |-> n, length |-> t.length] \in Message
      BY <2>1, <1>t DEF Message
    <3>4. cmsg' \in Message /\ cpc' \in {"idle", "send_payload"}
      BY <1>3, <2>2, <3>3, <1>q, <2>1 DEF SendHeader, SendFallsShort, SendToNobody
    <3>5. UNCHANGED <<sock, nonblock, server, s2c, fpga, rxHist>>
      BY <1>3, <2>2 DEF SendHeader, SendFallsShort, SendToNobody, txHist
    <3> QED
      BY <3>1, <3>2, <3>4, <3>5 DEF server, rxHist
  <2>3. CASE SendFallsShort(Header(n)) BY <2>1, <2>3, <1>f
  <2>4. CASE SendToNobody BY <1>3, <2>4, <1>n DEF SendHeader
  <2> QED BY <1>3, <2>2, <2>3, <2>4 DEF SendHeader
<1>4. CASE SendNoMore
  BY <1>4 DEF SendNoMore, server, txHist, rxHist
<1>5. CASE SendPayload
  <2> DEFINE units == Payload(cmsg.msg, cmsg.length)
  <2>1. units \in Seq(Unit) /\ Len(units) = cmsg.length /\ cmsg.length \in Nat
    BY PayloadFacts DEF Message
  <2>2. CASE ServerAttached /\ Room(c2s) >= Len(units) /\ c2s' = c2s \o units
             /\ cpc' = "idle"
             /\ UNCHANGED <<sock, nonblock, cmsg, server, s2c, txHist, rxHist, lapses>>
    <3>1. c2s' \in Seq(Unit) /\ Len(c2s') <= BufferSize
      BY <1>b, <1>q, <2>1, <2>2, ConcatProperties DEF Room
    <3> QED
      BY <2>2, <3>1 DEF server, txHist, rxHist
  <2>3. CASE SendFallsShort(units) BY <2>1, <2>3, <1>f
  <2>4. CASE SendToNobody BY <1>5, <2>4, <1>n DEF SendPayload
  <2> QED BY <1>5, <2>2, <2>3, <2>4 DEF SendPayload
<1>6. CASE RecvHeader
  <2>1. PICK k \in 0..Shortest(HeaderUnits, Len(s2c)) :
          /\ s2c' = Rest(s2c, k)
          /\ \/ /\ \E m \in Readings(First(s2c, k), responded) :
                    IF m.length > 0
                      THEN cpc' = "recv_payload" /\ cmsg' = m /\ UNCHANGED recvd
                      ELSE /\ cpc' = "idle" /\ recvd' = Append(recvd, m.msg)
                           /\ UNCHANGED cmsg
                /\ UNCHANGED <<sock, nonblock, lapses>>
             \/ /\ nonblock' = TRUE /\ cpc' = "idle" /\ UNCHANGED <<sock, cmsg, recvd>>
             \/ /\ sock' = "none" /\ nonblock' = FALSE /\ cpc' = "idle"
                /\ UNCHANGED <<cmsg, recvd, lapses>>
    BY <1>6 DEF RecvHeader, EndOfStream
  <2>2. k \in 0..Len(s2c)
    BY <1>q DEF Shortest, HeaderUnits
  <2>3. s2c' \in Seq(Unit) /\ Len(s2c') <= BufferSize
    BY <1>b, <1>q, <2>1, <2>2, RestFacts
  <2>4. /\ cmsg' \in Message /\ recvd' \in Seq(Nat) /\ cpc' \in {"idle", "recv_payload"}
        /\ sock' \in {"none", "open"} /\ nonblock' \in BOOLEAN
    <3>1. ASSUME NEW m \in Readings(First(s2c, k), responded)
          PROVE  m \in Message /\ Append(recvd, m.msg) \in Seq(Nat)
      BY <3>1, <1>m, AppendProperties DEF Message
    <3> QED
      BY <2>1, <3>1
  <2> QED
    BY <1>6, <2>3, <2>4 DEF RecvHeader, EndOfStream, server, txHist
<1>7. CASE RecvPayload
  <2>1. /\ cpc' = "idle"
        /\ UNCHANGED <<sock, nonblock, cmsg, server, c2s, txHist, responded>>
        /\ \E k \in 0..Len(s2c) :
             /\ s2c' = Rest(s2c, k)
             /\ \/ recvd' = Append(recvd, Assembled(cmsg, First(s2c, k)))
                \/ UNCHANGED recvd
    <3>1. cmsg.length \in Nat
      BY DEF Message
    <3>2. \A k \in 0..Shortest(cmsg.length - 1, Len(s2c)) : k \in 0..Len(s2c)
      BY <1>q, <3>1 DEF Shortest
    <3>3. Len(s2c) >= cmsg.length => cmsg.length \in 0..Len(s2c)
      BY <1>q, <3>1
    <3> HIDE DEF Types
    <3> QED
      BY <1>7, <3>2, <3>3 DEF RecvPayload
  <2>2. PICK k \in 0..Len(s2c) :
             /\ s2c' = Rest(s2c, k)
             /\ \/ recvd' = Append(recvd, Assembled(cmsg, First(s2c, k)))
                \/ UNCHANGED recvd
    BY <2>1
  <2>3. s2c' \in Seq(Unit) /\ Len(s2c') <= BufferSize
    BY <1>b, <1>q, <2>2, RestFacts
  <2>4. recvd' \in Seq(Nat)
    <3> HIDE DEF Types
    <3>1. Assembled(cmsg, First(s2c, k)) \in Nat
      BY <1>g, <1>a
    <3>2. Append(recvd, Assembled(cmsg, First(s2c, k))) \in Seq(Nat)
      BY <1>h, <3>1, AppendProperties
    <3> QED BY <1>h, <2>2, <3>2
  <2> QED
    BY <2>1, <2>3, <2>4 DEF server, txHist
<1>8. CASE Close
  BY <1>8 DEF Close, server, txHist, rxHist
<1>9. CASE Start
  BY <1>b, <1>9 DEF Start, client, txHist, rxHist
<1>x. ASSUME Exit PROVE Types'
  BY <1>b, <1>x, EmptySeq DEF Exit, client, txHist, rxHist
<1>10. CASE Ident
  <2>1. CASE c2s # << >> /\ c2s' = Tail(c2s) /\ spc' = "header"
             /\ UNCHANGED <<client, smsg, runs, s2c, txHist, rxHist, lapses>>
    <3>1. c2s' \in Seq(Unit) /\ Len(c2s') <= BufferSize
      BY <2>1, <1>b, <1>q, HeadTailProperties
    <3> QED BY <2>1, <3>1 DEF client, txHist, rxHist
  <2> QED BY <1>10, <1>x, <2>1 DEF Ident
<1>11. CASE ReadHeader
  <2>1. ASSUME NEW k \in 0..Len(c2s), c2s' = Rest(c2s, k),
               smsg' \in Message, spc' \in {"header", "payload", "forward"},
               UNCHANGED <<client, runs, s2c, txHist, rxHist>>
        PROVE  Types'
    <3>1. c2s' \in Seq(Unit) /\ Len(c2s') <= BufferSize
      BY <1>b, <1>q, <2>1, RestFacts
    <3> QED
      BY <2>1, <3>1 DEF client, txHist, rxHist
  <2>2. CASE /\ Len(c2s) >= HeaderUnits
             /\ c2s' = Rest(c2s, HeaderUnits)
             /\ \E m \in Readings(First(c2s, HeaderUnits), offered) :
                  /\ smsg' = m
                  /\ spc' = IF m.length > 0 THEN "payload" ELSE "forward"
             /\ UNCHANGED <<client, runs, s2c, txHist, rxHist, lapses>>
    <3>1. HeaderUnits \in 0..Len(c2s)
      BY <1>b, <1>q, <2>2 DEF HeaderUnits
    <3> QED
      BY <2>1, <2>2, <3>1, <1>m
  <2>3. CASE /\ \E k \in 1..Shortest(HeaderUnits - 1, Len(c2s)) : c2s' = Rest(c2s, k)
             /\ UNCHANGED <<client, server, s2c, txHist, rxHist>>
    <3>1. PICK k \in 0..Len(c2s) : c2s' = Rest(c2s, k)
      BY <2>3, <1>q DEF Shortest, HeaderUnits
    <3>2. smsg' = smsg /\ spc' = "header" /\ UNCHANGED <<client, runs, s2c, txHist, rxHist>>
      BY <1>11, <2>3 DEF ReadHeader, server
    <3> QED
      BY <3>1, <3>2, <2>1
  <2> QED BY <1>11, <1>x, <2>2, <2>3 DEF ReadHeader
<1>12. CASE ReadPayload
  <2>1. CASE /\ Len(c2s) >= smsg.length
             /\ c2s' = Rest(c2s, smsg.length)
             /\ smsg' = [smsg EXCEPT !.msg = Assembled(smsg, First(c2s, smsg.length))]
             /\ spc' = "forward"
             /\ UNCHANGED <<client, runs, s2c, txHist, rxHist, lapses>>
    <3>1. smsg.length \in 0..Len(c2s)
      BY <1>b, <1>q, <2>1 DEF Message
    <3>2. c2s' \in Seq(Unit) /\ Len(c2s') <= BufferSize
      BY <1>b, <1>q, <2>1, <3>1, RestFacts
    <3>3. smsg' \in Message
      BY <2>1, <1>a DEF Message
    <3> QED
      BY <2>1, <3>2, <3>3 DEF client, txHist, rxHist
  <2>2. CASE c2s' = << >> /\ spc' = "header"
             /\ UNCHANGED <<client, smsg, runs, s2c, txHist, rxHist, lapses>>
    BY <1>b, <2>2, EmptySeq DEF client, txHist, rxHist
  <2> QED BY <1>12, <1>x, <2>1, <2>2 DEF ReadPayload
<1>13. CASE Forward
  <2>1. fpga' \in Seq(Nat)
    <3> HIDE DEF Types
    <3> QED BY <1>g, <1>h, <1>13, AppendProperties DEF Forward, Message
  <2> QED
    BY <1>13, <2>1 DEF Forward, client, rxHist
<1>14. CASE Poll
  BY <1>14 DEF Poll, client, txHist, rxHist
<1>17. ASSUME NEW t \in Tlps, RespondHeader(t) PROVE Types'
  <2> DEFINE n == Len(responded) + 1
  <2>2. ASSUME Room(s2c) >= HeaderUnits, s2c' = s2c \o Header(n),
               smsg' = [msg |-> n, length |-> t.length],
               responded' = Append(responded, t),
               spc' \in {"header", "respond_payload"},
               UNCHANGED <<client, runs, c2s, txHist, recvd>>
        PROVE  Types'
    <3>1. n \in Nat /\ Header(n) \in Seq(Unit) /\ Len(Header(n)) = 2
      BY <1>b, <1>q, HeaderFacts
    <3>2. s2c' \in Seq(Unit) /\ Len(s2c') <= BufferSize
      BY <1>s, <2>2, <3>1, GrowFacts DEF HeaderUnits
    <3>3. responded' \in Seq(Tlps) /\ smsg' \in Message
      <4> HIDE DEF Types
      <4> QED BY <1>h, <2>2, <3>1, <1>t, AppendProperties DEF Message
    <3> QED
      BY <2>2, <3>2, <3>3 DEF client, txHist
  <2> QED BY <1>17, <1>x, <2>2 DEF RespondHeader
<1>15. CASE RespondPayload
  <2> DEFINE units == Payload(smsg.msg, smsg.length)
  <2>1. units \in Seq(Unit) /\ Len(units) = smsg.length /\ smsg.length \in Nat
    BY PayloadFacts DEF Message
  <2>2. CASE /\ Room(s2c) >= smsg.length /\ s2c' = s2c \o units
             /\ spc' = "header"
             /\ UNCHANGED <<client, smsg, runs, c2s, txHist, rxHist, lapses>>
    <3>1. s2c' \in Seq(Unit) /\ Len(s2c') <= BufferSize
      BY <1>b, <1>q, <2>1, <2>2, ConcatProperties DEF Room
    <3> QED
      BY <2>2, <3>1 DEF client, txHist, rxHist
  <2> QED BY <1>15, <1>x, <2>2 DEF RespondPayload
<1>16. CASE UNCHANGED vars
  BY <1>16 DEF vars, client, server, txHist, rxHist
<1> QED
  BY <1>1, <1>2, <1>3, <1>4, <1>5, <1>6, <1>7, <1>8, <1>9, <1>10, <1>11, <1>12,
     <1>13, <1>14, <1>15, <1>16, <1>17 DEF Next, ClientStep, ServerStep

(* No stream ever holds more than its socket.                               *)
LEMMA TypesCorrect == Spec => []Types
<1>1. Init => Types
  <2> SUFFICES ASSUME Init PROVE Types OBVIOUS
  <2>1. Nothing \in Message /\ runs \in 0..MaxRuns /\ BufferSize \in Nat
    BY BridgeAssumption DEF Init, Nothing, Garbled, Message
  <2>2. /\ c2s \in Seq(Unit) /\ Len(c2s) = 0 /\ s2c \in Seq(Unit) /\ Len(s2c) = 0
        /\ offered \in Seq(Tlps) /\ responded \in Seq(Tlps)
        /\ fpga \in Seq(Nat) /\ recvd \in Seq(Nat)
    BY EmptySeq DEF Init
  <2>3. Len(c2s) <= BufferSize /\ Len(s2c) <= BufferSize
    BY <2>1, <2>2
  <2> QED
    BY <2>1, <2>2, <2>3 DEF Init, Types
<1> QED
  BY <1>1, TypeNext, PTL DEF Spec

-----------------------------------------------------------------------------
(* A stream in step.  A reader that has taken TLP n stands before the header *)
(* of the next, or at the end of what was sent; one that has taken the      *)
(* header of n stands before the payload of n, or before nothing while the  *)
(* writer still owes it.  Of the TLPs whose headers were sent, the first    *)
(* `whole' were sent with their payloads.                                   *)

AfterTlp(q, tlps, i, n, whole) ==
    IF i < Len(q) THEN q[i + 1] = HeaderUnit(n + 1, 1)
                  ELSE n = whole /\ whole = Len(tlps)

AfterHeader(q, tlps, i, n, whole) ==
    /\ n \in 1..Len(tlps)
    /\ \A k \in 1..tlps[n].length : i + k <= Len(q) => q[i + k] = PayloadUnit(n, k)
    /\ IF i + tlps[n].length <= Len(q)
         THEN AfterTlp(q, tlps, i + tlps[n].length, n, whole)
         ELSE i = Len(q) /\ n = Len(tlps) /\ n = whole + 1

(* What follows every header in a stream is the rest of it, its payload and *)
(* the next header.                                                         *)
HeaderStarts(q, i) == q[i].part = "header" /\ q[i].k = 1

Framed(q, tlps, whole) ==
    \A i \in 1..Len(q) :
       HeaderStarts(q, i) => /\ i < Len(q)
                             /\ q[i + 1] = HeaderUnit(q[i].msg, 2)
                             /\ AfterHeader(q, tlps, i + 1, q[i].msg, whole)

MessageOf(tlps, n) == [msg |-> n, length |-> tlps[n].length]

(* Sequences of TLPs have lengths, and so has each TLP.                     *)
LEMMA LengthFacts ==
    ASSUME NEW tlps \in Seq(Tlps)
    PROVE  /\ Len(tlps) \in Nat
           /\ \A n \in 1..Len(tlps) : tlps[n] \in Tlps /\ tlps[n].length \in Nat
<1>1. \A n \in 1..Len(tlps) : tlps[n] \in Tlps
  BY ElementOfSeq
<1>2. \A t \in Tlps : t.length \in Nat
  BY BridgeAssumption
<1> QED
  BY <1>1, <1>2, LenProperties

(* A reader that takes k units keeps what comes after them.                 *)
LEMMA DropTlp ==
    ASSUME NEW q \in Seq(Unit), NEW tlps, NEW k \in 0..Len(q), NEW i \in Nat,
           NEW n, NEW whole, AfterTlp(q, tlps, i + k, n, whole)
    PROVE  AfterTlp(Rest(q, k), tlps, i, n, whole)
<1>1. Len(q) \in Nat /\ k \in Nat
  BY LenProperties
<1>2. /\ Len(Rest(q, k)) = Len(q) - k
      /\ \A j \in 1..(Len(q) - k) : Rest(q, k)[j] = q[j + k]
  BY RestFacts
<1>3. CASE i + k < Len(q)
  <2>1. i + 1 \in 1..(Len(q) - k) /\ (i + 1) + k = (i + k) + 1
    BY <1>1, <1>3
  <2>2. Rest(q, k)[i + 1] = q[(i + k) + 1]
    BY <1>2, <2>1
  <2>3. q[(i + k) + 1] = HeaderUnit(n + 1, 1)
    BY <1>3 DEF AfterTlp
  <2>4. i < Len(Rest(q, k))
    BY <1>1, <1>2, <1>3
  <2> QED
    BY <2>2, <2>3, <2>4 DEF AfterTlp
<1>4. CASE ~(i + k < Len(q))
  <2>1. ~(i < Len(Rest(q, k)))
    BY <1>1, <1>2, <1>4
  <2> QED
    BY <1>4, <2>1 DEF AfterTlp
<1> QED
  BY <1>3, <1>4

(* A reader that takes units off the front leaves the rest framed.          *)
LEMMA DropHeader ==
    ASSUME NEW q \in Seq(Unit), NEW tlps \in Seq(Tlps), NEW k \in 0..Len(q),
           NEW i \in Nat, NEW n, NEW whole, AfterHeader(q, tlps, i + k, n, whole)
    PROVE  AfterHeader(Rest(q, k), tlps, i, n, whole)
<1>1. Len(q) \in Nat /\ k \in Nat
  BY LenProperties
<1>2. /\ Len(Rest(q, k)) = Len(q) - k
      /\ \A j \in 1..(Len(q) - k) : Rest(q, k)[j] = q[j + k]
  BY RestFacts
<1>3. n \in 1..Len(tlps) /\ tlps[n].length \in Nat
  BY LengthFacts DEF AfterHeader
<1> DEFINE len == tlps[n].length
<1>4. ASSUME NEW j \in 1..len, i + j <= Len(Rest(q, k))
      PROVE  Rest(q, k)[i + j] = PayloadUnit(n, j)
  <2>1. i + j \in 1..(Len(q) - k) /\ (i + j) + k = (i + k) + j /\ (i + k) + j <= Len(q)
    BY <1>1, <1>2, <1>3, <1>4
  <2>2. q[(i + k) + j] = PayloadUnit(n, j)
    BY <2>1 DEF AfterHeader
  <2> QED
    BY <1>2, <2>1, <2>2
<1>5. CASE (i + k) + len <= Len(q)
  <2>1. (i + k) + len = (i + len) + k /\ i + len \in Nat /\ i + len <= Len(Rest(q, k))
    BY <1>1, <1>2, <1>3, <1>5
  <2>2. AfterTlp(q, tlps, (i + len) + k, n, whole)
    BY <1>5, <2>1 DEF AfterHeader
  <2>3. AfterTlp(Rest(q, k), tlps, i + len, n, whole)
    BY <2>1, <2>2, DropTlp
  <2> QED
    BY <1>3, <1>4, <2>1, <2>3 DEF AfterHeader
<1>6. CASE ~((i + k) + len <= Len(q))
  <2>1. ~(i + len <= Len(Rest(q, k)))
    BY <1>1, <1>2, <1>3, <1>6
  <2>2. i + k = Len(q) /\ n = Len(tlps) /\ n = whole + 1
    BY <1>6 DEF AfterHeader
  <2>3. i = Len(Rest(q, k))
    <3>1. i + k = Len(q)
      BY <2>2
    <3>2. Len(q) - k = i
      BY <1>1, <3>1
    <3> QED
      BY <1>2, <3>2
  <2> QED
    BY <1>3, <1>4, <2>1, <2>2, <2>3 DEF AfterHeader
<1> QED
  BY <1>5, <1>6

LEMMA DropFramed ==
    ASSUME NEW q \in Seq(Unit), NEW tlps \in Seq(Tlps), NEW k \in 0..Len(q),
           NEW whole, Framed(q, tlps, whole)
    PROVE  Framed(Rest(q, k), tlps, whole)
<1>1. Len(q) \in Nat /\ k \in Nat
  BY LenProperties
<1>2. /\ Len(Rest(q, k)) = Len(q) - k
      /\ \A j \in 1..(Len(q) - k) : Rest(q, k)[j] = q[j + k]
  BY RestFacts
<1> SUFFICES ASSUME NEW i \in 1..Len(Rest(q, k)), HeaderStarts(Rest(q, k), i)
             PROVE  /\ i < Len(Rest(q, k))
                    /\ Rest(q, k)[i + 1] = HeaderUnit(Rest(q, k)[i].msg, 2)
                    /\ AfterHeader(Rest(q, k), tlps, i + 1, Rest(q, k)[i].msg, whole)
  BY DEF Framed
<1>3. /\ i \in 1..(Len(q) - k) /\ i + k \in 1..Len(q) /\ i + 1 \in Nat
      /\ (i + k) + 1 = (i + 1) + k
  BY <1>1, <1>2
<1>4. Rest(q, k)[i] = q[i + k]
  BY <1>2, <1>3
<1>5. /\ i + k < Len(q) /\ q[(i + 1) + k] = HeaderUnit(q[i + k].msg, 2)
      /\ AfterHeader(q, tlps, (i + 1) + k, q[i + k].msg, whole)
  BY <1>3, <1>4 DEF Framed, HeaderStarts
<1>6. i < Len(Rest(q, k)) /\ i + 1 \in 1..(Len(q) - k)
  BY <1>1, <1>2, <1>3, <1>5
<1>7. Rest(q, k)[i + 1] = q[(i + 1) + k]
  BY <1>2, <1>6
<1>8. AfterHeader(Rest(q, k), tlps, i + 1, q[i + k].msg, whole)
  BY <1>3, <1>5, DropHeader
<1> QED
  BY <1>4, <1>5, <1>6, <1>7, <1>8

(* A header appended where no payload is owed.  Its TLP is sent whole if it *)
(* has no payload.                                                          *)
WholeAfter(tlps, t) == IF t.length = 0 THEN Len(tlps) + 1 ELSE Len(tlps)

(* What a header behind the stream looks like.                              *)
LEMMA HeaderAppended ==
    ASSUME NEW q \in Seq(Unit), NEW tlps \in Seq(Tlps), NEW t \in Tlps
    PROVE  LET r == q \o Header(Len(tlps) + 1)
               s == Append(tlps, t)
           IN  /\ r \in Seq(Unit) /\ Len(r) = Len(q) + 2 /\ Len(q) \in Nat
               /\ \A j \in 1..Len(q) : r[j] = q[j]
               /\ r[Len(q) + 1] = HeaderUnit(Len(tlps) + 1, 1)
               /\ r[Len(q) + 2] = HeaderUnit(Len(tlps) + 1, 2)
               /\ s \in Seq(Tlps) /\ Len(s) = Len(tlps) + 1 /\ s[Len(tlps) + 1] = t
               /\ Len(tlps) \in Nat /\ \A n \in 1..Len(tlps) : s[n] = tlps[n]
<1> DEFINE u == Header(Len(tlps) + 1)
<1>1. Len(q) \in Nat /\ Len(tlps) \in Nat
  BY LenProperties
<1>2. /\ u \in Seq(Unit) /\ Len(u) = 2
      /\ u[1] = HeaderUnit(Len(tlps) + 1, 1) /\ u[2] = HeaderUnit(Len(tlps) + 1, 2)
  BY <1>1, HeaderFacts
<1> HIDE DEF u
<1>3. /\ q \o u \in Seq(Unit) /\ Len(q \o u) = Len(q) + Len(u)
      /\ \A j \in 1..(Len(q) + Len(u)) :
            (q \o u)[j] = IF j <= Len(q) THEN q[j] ELSE u[j - Len(q)]
  BY <1>2, ConcatProperties
<1>4. /\ q \o u \in Seq(Unit) /\ Len(q \o u) = Len(q) + 2
      /\ \A j \in 1..Len(q) : (q \o u)[j] = q[j]
  BY <1>1, <1>2, <1>3
<1>5. (q \o u)[Len(q) + 1] = u[1] /\ (q \o u)[Len(q) + 2] = u[2]
  <2>1. /\ Len(q) + 1 \in 1..(Len(q) + Len(u)) /\ ~(Len(q) + 1 <= Len(q))
        /\ (Len(q) + 1) - Len(q) = 1
        /\ Len(q) + 2 \in 1..(Len(q) + Len(u)) /\ ~(Len(q) + 2 <= Len(q))
        /\ (Len(q) + 2) - Len(q) = 2
    BY <1>1, <1>2
  <2> QED
    BY <1>3, <2>1
<1>6. /\ Append(tlps, t) \in Seq(Tlps) /\ Len(Append(tlps, t)) = Len(tlps) + 1
      /\ Append(tlps, t)[Len(tlps) + 1] = t
      /\ \A n \in 1..Len(tlps) : Append(tlps, t)[n] = tlps[n]
  BY AppendProperties
<1> QED
  BY <1>1, <1>2, <1>4, <1>5, <1>6 DEF u

(* Whatever stood at a TLP's end, after a header or anywhere in a framed    *)
(* stream does so after the header of the next TLP is put behind it.        *)
LEMMA HeaderTlp ==
    ASSUME NEW q \in Seq(Unit), NEW tlps \in Seq(Tlps), NEW t \in Tlps,
           NEW i \in 0..Len(q), NEW n, AfterTlp(q, tlps, i, n, Len(tlps))
    PROVE  AfterTlp(q \o Header(Len(tlps) + 1), Append(tlps, t), i, n,
                    WholeAfter(tlps, t))
<1> DEFINE r == q \o Header(Len(tlps) + 1)
<1>1. /\ Len(r) = Len(q) + 2 /\ Len(q) \in Nat
      /\ \A j \in 1..Len(q) : r[j] = q[j]
      /\ r[Len(q) + 1] = HeaderUnit(Len(tlps) + 1, 1)
  BY HeaderAppended
<1> HIDE DEF r
<1>2. i < Len(r)
  BY <1>1
<1>3. CASE i < Len(q)
  <2>1. i + 1 \in 1..Len(q)
    BY <1>1, <1>3
  <2> QED
    BY <1>1, <1>2, <1>3, <2>1 DEF AfterTlp, r
<1>4. CASE i = Len(q)
  <2>1. n = Len(tlps)
    BY <1>1, <1>4 DEF AfterTlp
  <2> QED
    BY <1>1, <1>2, <1>4, <2>1 DEF AfterTlp, r
<1> QED
  BY <1>1, <1>3, <1>4

LEMMA HeaderHeader ==
    ASSUME NEW q \in Seq(Unit), NEW tlps \in Seq(Tlps), NEW t \in Tlps,
           NEW i \in 0..Len(q), NEW n, AfterHeader(q, tlps, i, n, Len(tlps))
    PROVE  AfterHeader(q \o Header(Len(tlps) + 1), Append(tlps, t), i, n,
                       WholeAfter(tlps, t))
<1> DEFINE r == q \o Header(Len(tlps) + 1)
           s == Append(tlps, t)
<1>1. /\ Len(r) = Len(q) + 2 /\ Len(q) \in Nat /\ Len(tlps) \in Nat
      /\ \A j \in 1..Len(q) : r[j] = q[j]
      /\ Len(s) = Len(tlps) + 1
      /\ \A m \in 1..Len(tlps) : s[m] = tlps[m]
  BY HeaderAppended
<1>2. n \in 1..Len(tlps) /\ tlps[n].length \in Nat
  BY LengthFacts DEF AfterHeader
<1> DEFINE len == tlps[n].length
<1>3. n \in 1..Len(s) /\ s[n].length = len
  BY <1>1, <1>2
<1>4. i + len <= Len(q)
  BY <1>1, <1>2 DEF AfterHeader
<1>5. AfterTlp(q, tlps, i + len, n, Len(tlps))
  BY <1>4 DEF AfterHeader
<1>6. AfterTlp(r, s, i + len, n, WholeAfter(tlps, t))
  <2>1. i + len \in 0..Len(q)
    BY <1>1, <1>2, <1>4
  <2> QED
    BY <1>5, <2>1, HeaderTlp
<1>7. ASSUME NEW k \in 1..len PROVE r[i + k] = PayloadUnit(n, k)
  <2>1. i + k \in 1..Len(q) /\ i + k <= Len(q)
    BY <1>1, <1>2, <1>4
  <2>2. q[i + k] = PayloadUnit(n, k)
    BY <2>1 DEF AfterHeader
  <2> HIDE DEF r
  <2> QED
    BY <1>1, <2>1, <2>2
<1>8. i + len <= Len(r)
  BY <1>1, <1>2, <1>4
<1> HIDE DEF r, s
<1>9. AfterHeader(r, s, i, n, WholeAfter(tlps, t))
  BY <1>3, <1>6, <1>7, <1>8 DEF AfterHeader
<1> QED
  BY <1>9 DEF r, s

LEMMA HeaderFramed ==
    ASSUME NEW q \in Seq(Unit), NEW tlps \in Seq(Tlps), NEW t \in Tlps,
           Framed(q, tlps, Len(tlps))
    PROVE  Framed(q \o Header(Len(tlps) + 1), Append(tlps, t), WholeAfter(tlps, t))
<1> DEFINE r == q \o Header(Len(tlps) + 1)
           s == Append(tlps, t)
           N == Len(tlps) + 1
<1>1. /\ Len(r) = Len(q) + 2 /\ Len(q) \in Nat /\ Len(tlps) \in Nat
      /\ \A j \in 1..Len(q) : r[j] = q[j]
      /\ r[Len(q) + 1] = HeaderUnit(N, 1) /\ r[Len(q) + 2] = HeaderUnit(N, 2)
      /\ Len(s) = N /\ s[N] = t
  BY HeaderAppended
<1> SUFFICES ASSUME NEW i \in 1..Len(r), HeaderStarts(r, i)
             PROVE  /\ i < Len(r) /\ r[i + 1] = HeaderUnit(r[i].msg, 2)
                    /\ AfterHeader(r, s, i + 1, r[i].msg, WholeAfter(tlps, t))
  BY DEF Framed
<1>2. CASE i \in 1..Len(q)
  <2>1. r[i] = q[i]
    BY <1>1, <1>2
  <2>2. /\ i < Len(q) /\ q[i + 1] = HeaderUnit(q[i].msg, 2)
        /\ AfterHeader(q, tlps, i + 1, q[i].msg, Len(tlps))
    <3> HIDE DEF r
    <3> QED BY <1>2, <2>1 DEF Framed, HeaderStarts
  <2>3. i + 1 \in 1..Len(q) /\ i + 1 \in 0..Len(q) /\ i < Len(r)
    BY <1>1, <2>2
  <2>4. AfterHeader(r, s, i + 1, q[i].msg, WholeAfter(tlps, t))
    BY <2>2, <2>3, HeaderHeader
  <2> HIDE DEF r, s
  <2> QED
    BY <1>1, <2>1, <2>2, <2>3, <2>4
<1>3. CASE i = Len(q) + 1
  <2>1. r[i] = HeaderUnit(N, 1) /\ r[i + 1] = HeaderUnit(N, 2) /\ i + 1 = Len(r)
        /\ i < Len(r) /\ N \in 1..Len(s)
    BY <1>1, <1>3
  <2>2. r[i].msg = N
    BY <2>1 DEF HeaderUnit
  <2>3. t.length \in Nat /\ s[N].length = t.length
    BY <1>1, BridgeAssumption
  <2> HIDE DEF r, s, N
  <2>4. \A k \in 1..s[N].length : ~(i + 1 + k <= Len(r))
    BY <1>1, <2>1, <2>3
  <2>5. CASE t.length = 0
    <3>1. (i + 1) + s[N].length = Len(r)
      BY <1>1, <2>1, <2>3, <2>5
    <3>2. AfterTlp(r, s, (i + 1) + s[N].length, N, WholeAfter(tlps, t))
      BY <1>1, <2>5, <3>1 DEF AfterTlp, WholeAfter, N
    <3> QED
      BY <1>1, <2>1, <2>2, <2>4, <3>1, <3>2 DEF AfterHeader
  <2>6. CASE t.length # 0
    <3>1. ~((i + 1) + s[N].length <= Len(r))
      BY <1>1, <2>1, <2>3, <2>6
    <3>2. N = Len(s) /\ N = WholeAfter(tlps, t) + 1
      BY <1>1, <2>6 DEF WholeAfter, N
    <3> QED
      BY <1>1, <2>1, <2>2, <2>4, <3>1, <3>2 DEF AfterHeader
  <2> QED
    BY <2>5, <2>6
<1>4. CASE i = Len(q) + 2
  <2>1. r[i].k = 2
    <3> HIDE DEF r
    <3> QED BY <1>1, <1>4 DEF HeaderUnit
  <2> QED
    BY <2>1 DEF HeaderStarts
<1> QED
  BY <1>1, <1>2, <1>3, <1>4

(* The payload that is owed, appended.                                      *)
LEMMA PayloadTlp ==
    ASSUME NEW q \in Seq(Unit), NEW tlps \in Seq(Tlps), tlps # << >>,
           NEW u \in Seq(Unit), NEW i \in 0..Len(q), NEW n,
           AfterTlp(q, tlps, i, n, Len(tlps) - 1)
    PROVE  AfterTlp(q \o u, tlps, i, n, Len(tlps))
<1>1. /\ Len(q) \in Nat /\ Len(u) \in Nat /\ Len(tlps) \in Nat
      /\ Len(q \o u) = Len(q) + Len(u)
      /\ \A j \in 1..Len(q) + Len(u) :
            (q \o u)[j] = IF j <= Len(q) THEN q[j] ELSE u[j - Len(q)]
  BY LenProperties, ConcatProperties
<1>2. i < Len(q) /\ q[i + 1] = HeaderUnit(n + 1, 1)
  <2>1. Len(tlps) - 1 # Len(tlps)
    BY <1>1
  <2> QED
    BY <2>1 DEF AfterTlp
<1>3. i + 1 \in 1..Len(q) + Len(u) /\ i + 1 <= Len(q) /\ i < Len(q \o u)
  BY <1>1, <1>2
<1>4. (q \o u)[i + 1] = q[i + 1]
  BY <1>1, <1>3
<1> QED
  BY <1>2, <1>3, <1>4 DEF AfterTlp

(* The same for the payload that was owed.                                  *)
LEMMA PayloadHeader ==
    ASSUME NEW q \in Seq(Unit), NEW tlps \in Seq(Tlps), tlps # << >>,
           NEW i \in 0..Len(q), NEW n, AfterHeader(q, tlps, i, n, Len(tlps) - 1)
    PROVE  AfterHeader(q \o Payload(Len(tlps), tlps[Len(tlps)].length), tlps, i, n,
                       Len(tlps))
<1> DEFINE L   == Len(tlps)
           u   == Payload(L, tlps[L].length)
           len == tlps[n].length
<1>1. L \in 1..L /\ L \in Nat /\ tlps[L].length \in Nat /\ n \in 1..L /\ len \in Nat
  BY EmptySeq, LengthFacts DEF AfterHeader
<1>2. /\ u \in Seq(Unit) /\ Len(u) = tlps[L].length
      /\ \A k \in 1..tlps[L].length : u[k] = PayloadUnit(L, k)
  BY <1>1, PayloadFacts
<1> HIDE DEF u
<1>3. /\ Len(q) \in Nat /\ Len(u) \in Nat
      /\ Len(q \o u) = Len(q) + Len(u)
      /\ \A j \in 1..Len(q) + Len(u) :
            (q \o u)[j] = IF j <= Len(q) THEN q[j] ELSE u[j - Len(q)]
  BY <1>2, LenProperties, ConcatProperties
<1>4. CASE i + len <= Len(q)
  <2>1. i + len \in 0..Len(q) /\ i + len <= Len(q \o u)
    BY <1>1, <1>3, <1>4
  <2>2. AfterTlp(q, tlps, i + len, n, L - 1)
    BY <1>4 DEF AfterHeader
  <2>3. AfterTlp(q \o u, tlps, i + len, n, L)
    BY <1>2, <2>1, <2>2, PayloadTlp
  <2>4. ASSUME NEW k \in 1..len PROVE (q \o u)[i + k] = PayloadUnit(n, k)
    <3>1. i + k \in 1..Len(q) + Len(u) /\ i + k <= Len(q)
      BY <1>1, <1>3, <1>4
    <3>2. q[i + k] = PayloadUnit(n, k)
      BY <3>1 DEF AfterHeader
    <3> QED
      BY <1>3, <3>1, <3>2
  <2>5. AfterHeader(q \o u, tlps, i, n, L)
    BY <1>1, <2>1, <2>3, <2>4 DEF AfterHeader
  <2> QED
    BY <2>5 DEF u
<1>5. CASE ~(i + len <= Len(q))
  <2>1. i = Len(q) /\ n = L
    BY <1>5 DEF AfterHeader
  <2>2. i + len = Len(q \o u) /\ ~(i + len < Len(q \o u)) /\ i + len <= Len(q \o u)
    BY <1>1, <1>2, <1>3, <2>1
  <2>3. AfterTlp(q \o u, tlps, i + len, n, L)
    BY <2>1, <2>2 DEF AfterTlp
  <2>4. ASSUME NEW k \in 1..len PROVE (q \o u)[i + k] = PayloadUnit(n, k)
    <3>1. /\ i + k \in 1..Len(q) + Len(u) /\ ~(i + k <= Len(q))
          /\ (i + k) - Len(q) = k
      BY <1>1, <1>2, <1>3, <2>1
    <3>2. u[k] = PayloadUnit(n, k)
      BY <1>2, <2>1
    <3> QED
      BY <1>3, <3>1, <3>2
  <2>5. AfterHeader(q \o u, tlps, i, n, L)
    BY <1>1, <2>2, <2>3, <2>4 DEF AfterHeader
  <2> QED
    BY <2>5 DEF u
<1> QED
  BY <1>4, <1>5

LEMMA PayloadFramed ==
    ASSUME NEW q \in Seq(Unit), NEW tlps \in Seq(Tlps), tlps # << >>,
           Framed(q, tlps, Len(tlps) - 1)
    PROVE  Framed(q \o Payload(Len(tlps), tlps[Len(tlps)].length), tlps, Len(tlps))
<1> DEFINE L == Len(tlps)
           u == Payload(L, tlps[L].length)
           r == q \o u
<1>1. L \in 1..L /\ L \in Nat /\ tlps[L].length \in Nat
  BY EmptySeq, LengthFacts
<1>2. /\ u \in Seq(Unit) /\ Len(u) = tlps[L].length
      /\ \A k \in 1..tlps[L].length : u[k] = PayloadUnit(L, k)
  BY <1>1, PayloadFacts
<1>3. /\ Len(q) \in Nat /\ Len(u) \in Nat
      /\ Len(r) = Len(q) + Len(u)
      /\ \A j \in 1..Len(q) + Len(u) :
            r[j] = IF j <= Len(q) THEN q[j] ELSE u[j - Len(q)]
  <2> HIDE DEF u
  <2> QED BY <1>2, LenProperties, ConcatProperties
<1> SUFFICES ASSUME NEW i \in 1..Len(r), HeaderStarts(r, i)
             PROVE  /\ i < Len(r) /\ r[i + 1] = HeaderUnit(r[i].msg, 2)
                    /\ AfterHeader(r, tlps, i + 1, r[i].msg, L)
  BY DEF Framed
<1>4. CASE i <= Len(q)
  <2>1. i \in 1..Len(q) /\ i \in 1..Len(q) + Len(u)
    BY <1>3, <1>4
  <2>2. r[i] = q[i]
    BY <1>3, <1>4, <2>1
  <2>3. /\ i < Len(q) /\ q[i + 1] = HeaderUnit(q[i].msg, 2)
        /\ AfterHeader(q, tlps, i + 1, q[i].msg, L - 1)
    <3> HIDE DEF r
    <3> QED BY <2>1, <2>2 DEF Framed, HeaderStarts
  <2>4. /\ i + 1 \in 1..Len(q) + Len(u) /\ i + 1 <= Len(q) /\ i + 1 \in 0..Len(q)
        /\ i < Len(r)
    BY <1>3, <2>1, <2>3
  <2>5. r[i + 1] = q[i + 1]
    BY <1>3, <2>4
  <2>6. AfterHeader(r, tlps, i + 1, q[i].msg, L)
    BY <2>3, <2>4, PayloadHeader
  <2> HIDE DEF r
  <2> QED
    BY <2>2, <2>3, <2>4, <2>5, <2>6
<1>5. CASE ~(i <= Len(q))
  <2>1. i \in 1..Len(q) + Len(u) /\ i - Len(q) \in 1..tlps[L].length
    BY <1>2, <1>3, <1>5
  <2>2. r[i] = PayloadUnit(L, i - Len(q))
    <3> HIDE DEF r, u
    <3> QED BY <1>2, <1>3, <1>5, <2>1
  <2>3. r[i].part = "payload"
    BY <2>2 DEF PayloadUnit
  <2> QED
    BY <2>3 DEF HeaderStarts
<1> QED
  BY <1>4, <1>5

(* What a reader in step makes of a header, and of a payload.               *)
LEMMA HeaderRead ==
    ASSUME NEW q \in Seq(Unit), NEW tlps \in Seq(Tlps), NEW n \in Nat, NEW whole,
           Framed(q, tlps, whole), AfterTlp(q, tlps, 0, n, whole), Len(q) >= 2
    PROVE  /\ n + 1 \in 1..Len(tlps)
           /\ Readings(First(q, 2), tlps) = {MessageOf(tlps, n + 1)}
           /\ AfterHeader(Rest(q, 2), tlps, 0, n + 1, whole)
           /\ Framed(Rest(q, 2), tlps, whole)
<1>1. Len(q) \in Nat /\ 1 \in 1..Len(q) /\ 2 \in 0..Len(q) /\ 0 < Len(q)
  BY LenProperties
<1>2. q[1] = HeaderUnit(n + 1, 1)
  <2>1. q[0 + 1] = HeaderUnit(n + 1, 1)
    BY <1>1 DEF AfterTlp
  <2> QED
    BY <2>1
<1>3. HeaderStarts(q, 1) /\ q[1].msg = n + 1
  BY <1>2 DEF HeaderStarts, HeaderUnit
<1>4. q[2] = HeaderUnit(n + 1, 2) /\ AfterHeader(q, tlps, 2, n + 1, whole)
  <2>1. q[1 + 1] = HeaderUnit(q[1].msg, 2) /\ AfterHeader(q, tlps, 1 + 1, q[1].msg, whole)
    BY <1>1, <1>3 DEF Framed
  <2>2. 1 + 1 = 2
    OBVIOUS
  <2> QED
    BY <1>3, <2>1, <2>2
<1>5. n + 1 \in 1..Len(tlps)
  BY <1>4 DEF AfterHeader
<1>6. AfterHeader(Rest(q, 2), tlps, 0, n + 1, whole)
  <2>1. AfterHeader(q, tlps, 0 + 2, n + 1, whole)
    BY <1>4
  <2> QED
    BY <1>1, <2>1, DropHeader
<1>7. Framed(Rest(q, 2), tlps, whole)
  BY <1>1, DropFramed
<1>8. First(q, 2) = Header(n + 1)
  <2>1. /\ First(q, 2) \in Seq(Unit) /\ Len(First(q, 2)) = 2
        /\ First(q, 2)[1] = q[1] /\ First(q, 2)[2] = q[2]
    <3>1. /\ First(q, 2) \in Seq(Unit) /\ Len(First(q, 2)) = 2
          /\ \A i \in 1..2 : First(q, 2)[i] = q[i]
      BY <1>1, FirstFacts
    <3> QED
      BY <3>1
  <2>2. /\ Header(n + 1) \in Seq(Unit) /\ Len(Header(n + 1)) = 2
        /\ Header(n + 1)[1] = HeaderUnit(n + 1, 1)
        /\ Header(n + 1)[2] = HeaderUnit(n + 1, 2)
    BY HeaderFacts
  <2>3. \A i \in 1..2 : First(q, 2)[i] = Header(n + 1)[i]
    BY <1>2, <1>4, <2>1, <2>2
  <2> QED
    BY <2>1, <2>2, <2>3, SeqEqual
<1>9. \A m \in 1..Len(tlps) : Header(n + 1) = Header(m) => m = n + 1
  <2> SUFFICES ASSUME NEW m \in 1..Len(tlps), Header(n + 1) = Header(m)
               PROVE  m = n + 1
    OBVIOUS
  <2>1. m \in Nat
    BY LenProperties
  <2>2. HeaderUnit(n + 1, 1) = HeaderUnit(m, 1)
    BY <2>1, HeaderFacts
  <2> QED
    BY <2>2 DEF HeaderUnit
<1>10. Parsed(First(q, 2), tlps) = {MessageOf(tlps, n + 1)}
  <2>1. {m \in 1..Len(tlps) : First(q, 2) = Header(m)} = {n + 1}
    BY <1>5, <1>8, <1>9
  <2> QED
    BY <2>1 DEF Parsed, MessageOf
<1>11. Readings(First(q, 2), tlps) = {MessageOf(tlps, n + 1)}
  BY <1>10 DEF Readings
<1> QED
  BY <1>5, <1>6, <1>7, <1>11

(* A reader that has the header of n reads the payload of n, and stands     *)
(* before the next TLP.                                                     *)
LEMMA PayloadRead ==
    ASSUME NEW q \in Seq(Unit), NEW tlps \in Seq(Tlps), NEW n \in Nat, NEW whole,
           AfterHeader(q, tlps, 0, n, whole), Len(q) >= tlps[n].length
    PROVE  /\ Assembled(MessageOf(tlps, n), First(q, tlps[n].length)) = n
           /\ AfterTlp(Rest(q, tlps[n].length), tlps, 0, n, whole)
<1> DEFINE len == tlps[n].length
<1>1. /\ n \in 1..Len(tlps) /\ len \in Nat /\ Len(q) \in Nat
      /\ len \in 0..Len(q) /\ 0 + len <= Len(q) /\ 0 + len = len
  BY LenProperties, LengthFacts DEF AfterHeader
<1>2. AfterTlp(q, tlps, 0 + len, n, whole)
  BY <1>1 DEF AfterHeader
<1>3. \A k \in 1..len : q[k] = PayloadUnit(n, k)
  <2>1. \A k \in 1..len : 0 + k = k /\ 0 + k <= Len(q)
    BY <1>1
  <2>2. \A k \in 1..len : 0 + k <= Len(q) => q[0 + k] = PayloadUnit(n, k)
    BY DEF AfterHeader
  <2> QED
    BY <2>1, <2>2
<1>4. First(q, len) = Payload(n, len)
  <2>1. /\ First(q, len) \in Seq(Unit) /\ Len(First(q, len)) = len
        /\ \A k \in 1..len : First(q, len)[k] = q[k]
    BY <1>1, FirstFacts
  <2>2. /\ Payload(n, len) \in Seq(Unit) /\ Len(Payload(n, len)) = len
        /\ \A k \in 1..len : Payload(n, len)[k] = PayloadUnit(n, k)
    BY <1>1, PayloadFacts
  <2>3. \A k \in 1..len : First(q, len)[k] = Payload(n, len)[k]
    BY <1>3, <2>1, <2>2
  <2> QED
    BY <2>1, <2>2, <2>3, SeqEqual
<1>5. Assembled(MessageOf(tlps, n), First(q, len)) = n
  BY <1>4 DEF Assembled, MessageOf
<1>6. AfterTlp(Rest(q, len), tlps, 0, n, whole)
  BY <1>1, <1>2, DropTlp
<1> QED
  BY <1>5, <1>6

(* Without a payload it stands there already.                               *)
LEMMA NoPayload ==
    ASSUME NEW q \in Seq(Unit), NEW tlps \in Seq(Tlps), NEW n \in Nat, NEW whole,
           AfterHeader(q, tlps, 0, n, whole), ~(tlps[n].length > 0)
    PROVE  AfterTlp(q, tlps, 0, n, whole)
<1>1. tlps[n].length \in Nat /\ Len(q) \in Nat
  BY LenProperties, LengthFacts DEF AfterHeader
<1>2. 0 + tlps[n].length = 0 /\ 0 + tlps[n].length <= Len(q)
  BY <1>1
<1> QED
  BY <1>2 DEF AfterHeader

(* A payload that is not all there is owed.                                 *)
LEMMA PayloadOwed ==
    ASSUME NEW q \in Seq(Unit), NEW tlps \in Seq(Tlps), NEW n \in Nat, NEW whole,
           AfterHeader(q, tlps, 0, n, whole), Len(q) < tlps[n].length
    PROVE  whole # Len(tlps)
<1>1. Len(tlps) \in Nat /\ tlps[n].length \in Nat /\ Len(q) \in Nat
  BY LenProperties, LengthFacts DEF AfterHeader
<1>2. ~(0 + tlps[n].length <= Len(q))
  BY <1>1
<1>3. n = Len(tlps) /\ n = whole + 1
  BY <1>2 DEF AfterHeader
<1> QED
  BY <1>1, <1>3

-----------------------------------------------------------------------------
(* The inductive invariants *)

(* A call has the socket it works on, and knows the TLP it is moving.       *)
Moving ==
    /\ cpc \notin {"idle", "killed"} => sock = "open"
    /\ cpc = "send_payload" /\ ServerAttached =>
          offered # << >> /\ cmsg = MessageOf(offered, Len(offered))
    /\ spc = "respond_payload" =>
          responded # << >> /\ smsg = MessageOf(responded, Len(responded))

(* TLPs of either direction that were sent with their payloads.             *)
Offered  == IF cpc = "send_payload" THEN Len(offered) - 1 ELSE Len(offered)
Answered == IF spc = "respond_payload" THEN Len(responded) - 1 ELSE Len(responded)

(* Toward the FPGA: where the server stands in c2s.                         *)
ServerReads ==
    /\ spc = "ident" =>
          /\ fpga = << >>
          /\ c2s = << >> => sock = "none"
          /\ c2s # << >> => c2s[1] = DeviceId /\ AfterTlp(c2s, offered, 1, 0, Offered)
    /\ spc = "payload" =>
          /\ AfterHeader(c2s, offered, 0, Len(fpga) + 1, Offered)
          /\ smsg = MessageOf(offered, Len(fpga) + 1)
    /\ spc = "forward" =>
          /\ AfterTlp(c2s, offered, 0, Len(fpga) + 1, Offered)
          /\ smsg.msg = Len(fpga) + 1 /\ Len(fpga) < Len(offered)
    /\ spc \in {"header", "poll", "respond_header", "respond_payload"} =>
          AfterTlp(c2s, offered, 0, Len(fpga), Offered)

TxStream == ServerAttached => Framed(c2s, offered, Offered) /\ ServerReads

TxInv == lapses \cap TxLapses = {} => InStep(fpga, offered) /\ TxStream

(* Toward the application: where arm_ds_recv stands in s2c.                 *)
ClientReads(whole) ==
    IF cpc = "recv_payload"
      THEN /\ AfterHeader(s2c, responded, 0, Len(recvd) + 1, whole)
           /\ cmsg = MessageOf(responded, Len(recvd) + 1)
      ELSE AfterTlp(s2c, responded, 0, Len(recvd), whole)

(* A server that is gone may have left a payload out.                       *)
RxStream ==
    \E whole \in Int :
        /\ ServerAttached => whole = Answered
        /\ Framed(s2c, responded, whole)
        /\ ClientReads(whole)

RxInv == lapses \cap RxLapses = {} => InStep(recvd, responded) /\ RxStream

(* Every step keeps what a call knows of the TLP it moves.                  *)
LEMMA MovingNext == Types /\ Moving /\ [Next]_vars => Moving'
<1> SUFFICES ASSUME Types, Moving, [Next]_vars PROVE Moving' OBVIOUS
<1> USE DEF Moving, ServerAttached
<1>a. \A tlps \in Seq(Tlps), t \in Tlps :
         /\ Append(tlps, t) # << >> /\ Len(Append(tlps, t)) = Len(tlps) + 1
         /\ Append(tlps, t)[Len(tlps) + 1] = t
  BY AppendProperties
<1>1. ASSUME NEW call \in {"send_header", "recv_header"}, Connect(call) \/ Connected(call)
      PROVE  Moving'
  BY <1>1 DEF Connect, Connected, server, txHist, rxHist
<1>n. ASSUME SendToNobody, cpc \in {"send_header", "send_payload"} PROVE Moving'
  BY <1>n DEF SendToNobody, server, txHist, rxHist
<1>f. ASSUME NEW units, SendFallsShort(units) PROVE Moving'
  BY <1>f DEF SendFallsShort, server, txHist, rxHist
<1>3. ASSUME NEW t \in Tlps, SendHeader(t) PROVE Moving'
  <2> DEFINE n == Len(offered) + 1
  <2>1. CASE ServerAttached /\ offered' = Append(offered, t)
             /\ UNCHANGED <<sock, nonblock, server, s2c, fpga, rxHist>>
             /\ \/ cpc' = "idle"
                \/ cpc' = "send_payload" /\ cmsg' = [msg |-> n, length |-> t.length]
    <3>1. /\ offered' # << >> /\ Len(offered') = n /\ offered'[n] = t
      BY <2>1, <1>a DEF Types
    <3>2. [msg |-> n, length |-> t.length] = MessageOf(offered', Len(offered'))
      BY <3>1 DEF MessageOf
    <3> QED
      BY <1>3, <2>1, <3>1, <3>2 DEF SendHeader, server, rxHist, MessageOf
  <2> QED BY <1>3, <1>n, <1>f, <2>1 DEF SendHeader
<1>4. CASE SendNoMore BY <1>4 DEF SendNoMore, server, txHist, rxHist
<1>5. CASE SendPayload
  <2>1. CASE /\ cpc' = "idle"
             /\ UNCHANGED <<sock, nonblock, cmsg, server, s2c, txHist, rxHist, lapses>>
    BY <2>1 DEF server, rxHist
  <2> QED BY <1>5, <1>n, <1>f, <2>1 DEF SendPayload
<1>6. CASE RecvHeader
  <2>1. /\ cpc' = "idle" \/ (cpc' = "recv_payload" /\ sock' = sock)
        /\ cpc = "recv_header"
        /\ UNCHANGED <<spc, smsg, responded>>
    <3>1. PICK k \in 0..Shortest(HeaderUnits, Len(s2c)) :
            \/ /\ \E m \in Readings(First(s2c, k), responded) :
                    cpc' = "recv_payload" \/ cpc' = "idle"
               /\ UNCHANGED sock
            \/ cpc' = "idle"
      BY <1>6 DEF RecvHeader, EndOfStream
    <3>2. cpc' = "idle" \/ (cpc' = "recv_payload" /\ sock' = sock)
      BY <3>1
    <3>3. cpc = "recv_header" /\ UNCHANGED server /\ UNCHANGED responded
      BY <1>6 DEF RecvHeader, EndOfStream
    <3> QED
      BY <3>2, <3>3 DEF server
  <2> QED BY <2>1
<1>7. CASE RecvPayload BY <1>7 DEF RecvPayload, server, txHist
<1>8. CASE Close BY <1>8 DEF Close, server, txHist, rxHist
<1>9. CASE Start BY <1>9 DEF Start, client, txHist, rxHist
<1>x. ASSUME Exit PROVE Moving'
  BY <1>x DEF Exit, client, txHist, rxHist
<1>10. CASE Ident BY <1>10, <1>x DEF Ident, client, txHist, rxHist
<1>11. CASE ReadHeader
  <2>1. CASE spc' \in {"payload", "forward"} /\ UNCHANGED <<client, txHist, rxHist>>
    BY <1>11, <2>1 DEF ReadHeader, client, txHist, rxHist
  <2>2. CASE UNCHANGED <<client, server, txHist, rxHist>>
    BY <1>11, <2>2 DEF ReadHeader, client, server, txHist, rxHist
  <2> QED BY <1>11, <1>x, <2>1, <2>2 DEF ReadHeader
<1>12. CASE ReadPayload BY <1>12, <1>x DEF ReadPayload, client, txHist, rxHist
<1>13. CASE Forward BY <1>13 DEF Forward, client, rxHist
<1>14. CASE Poll BY <1>14 DEF Poll, client, txHist, rxHist
<1>17. ASSUME NEW t \in Tlps, RespondHeader(t) PROVE Moving'
  <2> DEFINE n == Len(responded) + 1
  <2>2. ASSUME smsg' = [msg |-> n, length |-> t.length],
               responded' = Append(responded, t), UNCHANGED <<client, txHist>>
        PROVE  Moving'
    <3>1. responded' # << >> /\ Len(responded') = n /\ responded'[n] = t
      BY <2>2, <1>a DEF Types
    <3>2. smsg' = MessageOf(responded', Len(responded'))
      BY <2>2, <3>1 DEF MessageOf
    <3> QED
      BY <1>17, <2>2, <3>1, <3>2 DEF RespondHeader, client, txHist, Exit, MessageOf
  <2> QED BY <1>17, <1>x, <2>2 DEF RespondHeader, txHist
<1>15. CASE RespondPayload BY <1>15, <1>x DEF RespondPayload, client, txHist, rxHist
<1>16. CASE UNCHANGED vars BY <1>16 DEF vars, client, server, txHist, rxHist
<1> QED
  BY <1>1, <1>3, <1>4, <1>5, <1>6, <1>7, <1>8, <1>9, <1>10, <1>11, <1>12, <1>13,
     <1>14, <1>15, <1>16, <1>17 DEF Next, ClientStep, ServerStep, CallSend, CallRecv

(* TLPs in step stay so when another is sent, and when the next one comes   *)
(* out.                                                                     *)
LEMMA InStepSent ==
    ASSUME NEW out \in Seq(Nat), NEW in \in Seq(Tlps), NEW t \in Tlps, InStep(out, in)
    PROVE  InStep(out, Append(in, t))
<1>1. Len(out) \in Nat /\ Len(in) \in Nat /\ Len(Append(in, t)) = Len(in) + 1
  BY LenProperties, AppendProperties
<1> QED
  BY <1>1 DEF InStep

(* Handing out the next TLP due keeps the output in step.                   *)
LEMMA InStepOut ==
    ASSUME NEW out \in Seq(Nat), NEW in \in Seq(Tlps), InStep(out, in),
           Len(out) + 1 \in 1..Len(in)
    PROVE  InStep(Append(out, Len(out) + 1), in)
<1>1. Len(out) \in Nat /\ Len(in) \in Nat /\ Len(out) + 1 \in Nat
  BY LenProperties
<1>2. /\ Len(Append(out, Len(out) + 1)) = Len(out) + 1
      /\ \A i \in 1..Len(out) : Append(out, Len(out) + 1)[i] = out[i]
      /\ Append(out, Len(out) + 1)[Len(out) + 1] = Len(out) + 1
  BY <1>1, AppendProperties
<1>3. Len(out) + 1 <= Len(in) /\ \A k \in 1..Len(out) : out[k] = k
  BY <1>1 DEF InStep
<1>4. \A k \in 1..(Len(out) + 1) : k \in 1..Len(out) \/ k = Len(out) + 1
  BY <1>1
<1>5. \A k \in 1..(Len(out) + 1) : Append(out, Len(out) + 1)[k] = k
  BY <1>2, <1>3, <1>4
<1> QED
  BY <1>2, <1>3, <1>5 DEF InStep

(* Toward the FPGA: every step keeps the framing, or notes a lapse.         *)
LEMMA TxNext == Types /\ Moving /\ TxInv /\ [Next]_vars => TxInv'
<1> SUFFICES ASSUME Types, Moving, TxInv, [Next]_vars, lapses' \cap TxLapses = {}
             PROVE  InStep(fpga', offered') /\ TxStream'
  BY DEF TxInv
<1>t. /\ c2s \in Seq(Unit) /\ offered \in Seq(Tlps) /\ fpga \in Seq(Nat)
      /\ Len(c2s) \in Nat /\ Len(offered) \in Nat /\ Len(fpga) \in Nat
      /\ Len(c2s) <= BufferSize /\ BufferSize \in Nat
  BY BridgeAssumption, LenProperties DEF Types
<1>l. ASSUME lapses \subseteq lapses' PROVE InStep(fpga, offered) /\ TxStream
  BY <1>l DEF TxInv
(* Steps that leave the stream toward the FPGA alone, and those that find   *)
(* no server at its end.                                                    *)
<1>k. ASSUME lapses \subseteq lapses', UNCHANGED <<offered, fpga, c2s, smsg, spc>>,
             cpc # "send_payload", cpc' # "send_payload",
             sock = "none" => sock' = "none"
      PROVE  InStep(fpga', offered') /\ TxStream'
  <2>1. Offered' = Offered
    BY <1>k DEF Offered
  <2> QED
    BY <1>k, <1>l, <2>1 DEF TxStream, ServerAttached, ServerReads
<1>d. ASSUME lapses \subseteq lapses', UNCHANGED <<offered, fpga>>, ~ServerAttached'
      PROVE  InStep(fpga', offered') /\ TxStream'
  BY <1>d, <1>l DEF TxStream
<1>x. ASSUME Exit PROVE InStep(fpga', offered') /\ TxStream'
  BY <1>x, <1>d DEF Exit, ServerAttached, txHist
<1>n. ASSUME SendToNobody PROVE InStep(fpga', offered') /\ TxStream'
  BY <1>n, <1>d DEF SendToNobody, ServerAttached, server, txHist
<1>1. ASSUME NEW call \in {"send_header", "recv_header"}, Connect(call)
      PROVE  InStep(fpga', offered') /\ TxStream'
  <2>1. /\ offered' = << >> /\ fpga' = << >> /\ spc' = "ident" /\ cpc' # "send_payload"
        /\ \/ c2s' = <<DeviceId>>
           \/ c2s' = << >> /\ sock' = "none"
    BY <1>1 DEF Connect
  <2>2. Offered' = 0 /\ Len(offered') = 0 /\ Len(fpga') = 0
    BY <2>1 DEF Offered
  <2>3. InStep(fpga', offered')
    BY <2>2 DEF InStep
  <2>4. Framed(c2s', offered', Offered')
    BY <2>1 DEF Framed, HeaderStarts, DeviceId
  <2>5. CASE c2s' = <<DeviceId>>
    <3>1. c2s' # << >> /\ Len(c2s') = 1 /\ c2s'[1] = DeviceId
      BY <2>5
    <3>2. AfterTlp(c2s', offered', 1, 0, Offered')
      BY <2>2, <3>1 DEF AfterTlp
    <3> QED
      BY <2>1, <2>3, <2>4, <3>1, <3>2 DEF TxStream, ServerReads
  <2>6. CASE c2s' = << >> /\ sock' = "none"
    BY <2>1, <2>3, <2>4, <2>6 DEF TxStream, ServerReads
  <2> QED
    BY <2>1, <2>5, <2>6
<1>2. ASSUME NEW call \in {"send_header", "recv_header"}, Connected(call)
      PROVE  InStep(fpga', offered') /\ TxStream'
  BY <1>2, <1>k DEF Connected, server, txHist
<1>3. ASSUME NEW t \in Tlps, SendHeader(t) PROVE InStep(fpga', offered') /\ TxStream'
  <2> DEFINE n == Len(offered) + 1
             r == c2s \o Header(n)
             s == Append(offered, t)
  <2>1. cpc = "send_header" /\ Offered = Len(offered) /\ sock = "open"
    BY <1>3 DEF SendHeader, Offered, Moving
  <2>2. CASE ServerAttached /\ c2s' = r /\ offered' = s /\ UNCHANGED <<sock, server, fpga>>
             /\ IF t.length > 0 /\ t.data
                  THEN cpc' = "send_payload" /\ UNCHANGED lapses
                  ELSE cpc' = "idle" /\ lapses' = IF t.length > 0
                                   THEN lapses \cup {"tx: payload not sent"}
                                   ELSE lapses
    <3>1. InStep(fpga, offered) /\ TxStream
      <4>1. lapses \subseteq lapses'
        BY <2>2
      <4> QED BY <4>1, <1>l
    <3>2. t.length \in Nat /\ t.data \in BOOLEAN
      BY BridgeAssumption
    <3>3. IF t.length = 0 THEN cpc' = "idle" ELSE cpc' = "send_payload"
      <4>1. "tx: payload not sent" \notin lapses'
        BY DEF TxLapses
      <4>2. ~(t.length > 0) \/ t.data
        BY <2>2, <4>1
      <4>3. CASE t.length = 0
        BY <2>2, <4>3
      <4>4. CASE t.length # 0
        <5>1. t.length > 0 /\ t.data
          BY <3>2, <4>2, <4>4
        <5> QED
          BY <2>2, <4>4, <5>1
      <4> QED
        BY <4>3, <4>4
    <3>4. /\ r \in Seq(Unit) /\ Len(r) = Len(c2s) + 2
          /\ \A j \in 1..Len(c2s) : r[j] = c2s[j]
          /\ s \in Seq(Tlps) /\ Len(s) = n /\ \A m \in 1..Len(offered) : s[m] = offered[m]
      BY <1>t, HeaderAppended
    <3>5. Offered' = WholeAfter(offered, t)
      <4>1. Len(offered') = Len(offered) + 1 /\ Len(offered') - 1 = Len(offered)
        <5>1. offered' = s
          BY <2>2
        <5> HIDE DEF r, s
        <5> QED
          BY <1>t, <3>4, <5>1
      <4>2. CASE t.length = 0
        BY <3>3, <4>1, <4>2 DEF Offered, WholeAfter
      <4>3. CASE t.length # 0
        BY <3>3, <4>1, <4>3 DEF Offered, WholeAfter
      <4> QED
        BY <4>2, <4>3
    <3>6. InStep(fpga', offered')
      BY <1>t, <2>2, <3>1, InStepSent
    <3>7. Framed(c2s, offered, Len(offered)) /\ ServerReads
      BY <2>1, <2>2, <3>1 DEF TxStream
    <3>8. Framed(r, s, Offered')
      BY <1>t, <3>5, <3>7, HeaderFramed
    <3>9. \A m : \A i \in 0..Len(c2s) :
            AfterTlp(c2s, offered, i, m, Offered) => AfterTlp(r, s, i, m, Offered')
      BY <1>t, <2>1, <3>5, HeaderTlp
    <3>10. \A m : AfterHeader(c2s, offered, 0, m, Offered)
                    => AfterHeader(r, s, 0, m, Offered') /\ MessageOf(s, m) = MessageOf(offered, m)
      <4>1. ASSUME NEW m, AfterHeader(c2s, offered, 0, m, Offered)
            PROVE  AfterHeader(r, s, 0, m, Offered')
        BY <1>t, <2>1, <3>5, <4>1, HeaderHeader
      <4>2. ASSUME NEW m, AfterHeader(c2s, offered, 0, m, Offered)
            PROVE  MessageOf(s, m) = MessageOf(offered, m)
        BY <3>4, <4>2 DEF AfterHeader, MessageOf
      <4> QED
        BY <4>1, <4>2
    <3>11. spc' = spc /\ smsg' = smsg /\ fpga' = fpga /\ sock' = "open"
      BY <2>1, <2>2 DEF server
    <3>12. ServerReads'
      <4> HIDE DEF r, s, n
      <4>1. CASE spc = "ident"
        <5>1. c2s # << >> /\ c2s[1] = DeviceId /\ AfterTlp(c2s, offered, 1, 0, Offered)
          BY <2>1, <3>7, <4>1 DEF ServerReads
        <5>2. Len(c2s) \in Nat \ {0}
          BY <1>t, <5>1, EmptySeq
        <5>3. r[1] = DeviceId /\ AfterTlp(r, s, 1, 0, Offered')
          BY <3>4, <3>9, <5>1, <5>2
        <5>4. fpga = << >>
          BY <3>7, <4>1 DEF ServerReads
        <5>5. r # << >>
          BY <3>4, <5>2
        <5> QED
          BY <2>2, <3>11, <4>1, <5>3, <5>4, <5>5 DEF ServerReads
      <4>2. CASE spc = "payload"
        BY <2>2, <3>7, <3>10, <3>11, <4>2 DEF ServerReads
      <4>3. CASE spc = "forward"
        <5>1. Len(fpga) < Len(s) /\ 0 \in 0..Len(c2s)
          BY <1>t, <3>4, <3>7, <4>3 DEF ServerReads, n
        <5> QED
          BY <2>2, <3>7, <3>9, <3>11, <4>3, <5>1 DEF ServerReads
      <4>4. CASE spc \in {"header", "poll", "respond_header", "respond_payload"}
        <5>1. 0 \in 0..Len(c2s)
          BY <1>t
        <5> QED
          BY <2>2, <3>7, <3>9, <3>11, <4>4, <5>1 DEF ServerReads
      <4> QED
        BY <3>11, <4>1, <4>2, <4>3, <4>4 DEF ServerReads
    <3> QED
      BY <2>2, <3>6, <3>8, <3>12 DEF TxStream
  <2>3. CASE /\ SendFallsShort(Header(n))
             /\ lapses' = IF Room(c2s) > 0 THEN lapses \cup {"tx: header cut"}
                                           ELSE lapses
    <3>1. ~(Room(c2s) > 0) /\ Room(c2s) \in Nat
      <4>1. "tx: header cut" \notin lapses'
        BY DEF TxLapses
      <4>2. ~(Room(c2s) > 0)
        BY <2>3, <4>1
      <4>3. Room(c2s) \in Nat
        BY <1>t DEF Room
      <4> QED
        BY <4>2, <4>3
    <3>2. Room(c2s) = 0
      BY <3>1
    <3>3. First(Header(n), 0) = << >>
      BY SubSeqEmpty DEF First
    <3>4. c2s' = c2s
      BY <1>t, <2>3, <3>2, <3>3, ConcatEmptySeq DEF SendFallsShort
    <3> QED
      BY <1>k, <2>1, <2>3, <3>1, <3>4 DEF SendFallsShort, server, txHist
  <2> QED
    BY <1>3, <1>n, <2>2, <2>3 DEF SendHeader
<1>4. CASE SendNoMore
  BY <1>4, <1>k DEF SendNoMore, server, txHist, rxHist
<1>5. CASE SendPayload
  <2> DEFINE L == Len(offered)
             r == c2s \o Payload(L, offered[L].length)
  <2>1. cpc = "send_payload" /\ Offered = L - 1 /\ sock = "open"
    BY <1>5 DEF SendPayload, Offered, Moving
  <2>2. CASE /\ ServerAttached /\ c2s' = c2s \o Payload(cmsg.msg, cmsg.length)
             /\ cpc' = "idle"
             /\ UNCHANGED <<sock, nonblock, cmsg, server, s2c, txHist, rxHist, lapses>>
    <3>1. InStep(fpga, offered) /\ Framed(c2s, offered, L - 1) /\ ServerReads
      <4>1. lapses \subseteq lapses'
        BY <2>2
      <4> QED BY <4>1, <1>l, <2>1, <2>2 DEF TxStream
    <3>2. offered # << >> /\ cmsg = MessageOf(offered, L)
      BY <2>1, <2>2 DEF Moving
    <3>3. c2s' = r
      BY <2>2, <3>2 DEF MessageOf
    <3>4. UNCHANGED <<offered, fpga, spc, smsg, sock>> /\ Offered' = L
      BY <2>2 DEF server, txHist, Offered
    <3>5. Framed(r, offered, L)
      BY <1>t, <3>1, <3>2, PayloadFramed
    <3>6. offered[L].length \in Nat /\ L \in Nat
      BY <1>t, <3>2, EmptySeq, LengthFacts
    <3>7. /\ Payload(L, offered[L].length) \in Seq(Unit)
          /\ Len(Payload(L, offered[L].length)) \in Nat
      BY <3>6, PayloadFacts
    <3>8. \A m : \A i \in 0..Len(c2s) :
            AfterTlp(c2s, offered, i, m, L - 1) => AfterTlp(r, offered, i, m, L)
      BY <1>t, <3>2, <3>7, PayloadTlp
    <3>9. \A m : AfterHeader(c2s, offered, 0, m, L - 1) => AfterHeader(r, offered, 0, m, L)
      BY <1>t, <3>2, PayloadHeader
    <3>10. ServerReads'
      <4>1. CASE spc = "ident"
        <5>1. c2s # << >> /\ c2s[1] = DeviceId /\ AfterTlp(c2s, offered, 1, 0, L - 1)
          BY <2>1, <3>1, <4>1 DEF ServerReads
        <5>2. Len(c2s) \in Nat \ {0} /\ 1 \in 0..Len(c2s)
          BY <1>t, <5>1, EmptySeq
        <5>3. AfterTlp(r, offered, 1, 0, L)
          BY <3>8, <5>1, <5>2
        <5>4. 1 \in 1..(Len(c2s) + Len(Payload(L, offered[L].length))) /\ 1 <= Len(c2s)
          BY <3>7, <5>2
        <5>5. r[1] = c2s[1]
          BY <1>t, <3>7, <5>4, ConcatProperties
        <5>6. fpga = << >>
          BY <3>1, <4>1 DEF ServerReads
        <5> QED
          BY <2>1, <3>3, <3>4, <4>1, <5>1, <5>3, <5>5, <5>6 DEF ServerReads
      <4>2. CASE spc = "payload"
        <5> HIDE DEF r
        <5> QED BY <2>1, <3>1, <3>3, <3>4, <3>9, <4>2 DEF ServerReads
      <4>3. CASE spc = "forward"
        <5>1. 0 \in 0..Len(c2s)
          BY <1>t
        <5> HIDE DEF r
        <5> QED BY <2>1, <3>1, <3>3, <3>4, <3>8, <4>3, <5>1 DEF ServerReads
      <4>4. CASE spc \in {"header", "poll", "respond_header", "respond_payload"}
        <5>1. 0 \in 0..Len(c2s)
          BY <1>t
        <5> HIDE DEF r
        <5> QED BY <2>1, <3>1, <3>3, <3>4, <3>8, <4>4, <5>1 DEF ServerReads
      <4> QED
        BY <3>4, <4>1, <4>2, <4>3, <4>4 DEF ServerReads
    <3> QED
      BY <3>1, <3>3, <3>4, <3>5, <3>10 DEF TxStream
  <2>3. CASE lapses' = lapses \cup {"tx: payload cut"}
    BY <2>3 DEF TxLapses
  <2> QED
    BY <1>5, <1>n, <2>2, <2>3 DEF SendPayload
<1>6. CASE RecvHeader
  <2>1. lapses \subseteq lapses' /\ cpc = "recv_header"
    BY <1>6 DEF RecvHeader, EndOfStream
  <2>2. cpc' # "send_payload" /\ (sock = "none" => sock' = "none")
    BY <1>6 DEF RecvHeader, EndOfStream
  <2>3. UNCHANGED <<server, c2s, txHist>>
    BY <1>6 DEF RecvHeader, EndOfStream
  <2> QED
    BY <1>k, <2>1, <2>2, <2>3 DEF server, txHist
<1>7. CASE RecvPayload
  BY <1>7, <1>k DEF RecvPayload, server, txHist
<1>8. CASE Close
  BY <1>8, <1>k DEF Close, server, txHist
<1>9. CASE Start
  BY <1>9, <1>d DEF Start, ServerAttached, txHist
<1>10. CASE Ident
  <2>1. CASE /\ c2s # << >> /\ spc = "ident" /\ spc' = "header" /\ c2s' = Tail(c2s)
             /\ UNCHANGED <<client, smsg, runs, s2c, txHist, rxHist, lapses>>
    <3>1. InStep(fpga, offered) /\ Framed(c2s, offered, Offered) /\ ServerReads
      <4>1. lapses \subseteq lapses'
        BY <2>1
      <4> QED BY <4>1, <1>l, <2>1 DEF TxStream, ServerAttached
    <3>2. Len(c2s) \in Nat \ {0} /\ 1 \in 0..Len(c2s)
      BY <1>t, <2>1, EmptySeq
    <3>3. c2s' = Rest(c2s, 1)
      BY <1>t, <2>1, TailIsSubSeq DEF Rest
    <3>4. AfterTlp(c2s, offered, 0 + 1, 0, Offered) /\ fpga = << >>
      BY <2>1, <3>1 DEF ServerReads
    <3>5. AfterTlp(c2s', offered, 0, 0, Offered)
      BY <1>t, <3>2, <3>3, <3>4, DropTlp
    <3>6. Framed(c2s', offered, Offered)
      BY <1>t, <3>1, <3>2, <3>3, DropFramed
    <3>7. UNCHANGED <<offered, fpga>> /\ Offered' = Offered /\ Len(fpga) = 0
      BY <2>1, <3>4 DEF txHist, client, Offered
    <3> QED
      BY <2>1, <3>1, <3>5, <3>6, <3>7 DEF TxStream, ServerReads
  <2> QED BY <1>10, <1>x, <2>1 DEF Ident
<1>11. CASE ReadHeader
  <2>1. CASE /\ Len(c2s) >= HeaderUnits
             /\ c2s' = Rest(c2s, HeaderUnits)
             /\ \E m \in Readings(First(c2s, HeaderUnits), offered) :
                  /\ smsg' = m
                  /\ spc' = IF m.length > 0 THEN "payload" ELSE "forward"
             /\ UNCHANGED <<client, runs, s2c, txHist, rxHist, lapses>>
    <3>1. InStep(fpga, offered) /\ Framed(c2s, offered, Offered) /\ ServerReads
      <4>1. lapses \subseteq lapses' /\ spc = "header"
        BY <1>11, <2>1 DEF ReadHeader
      <4> QED BY <4>1, <1>l DEF TxStream, ServerAttached
    <3> DEFINE n == Len(fpga)
               m == MessageOf(offered, n + 1)
    <3>2. AfterTlp(c2s, offered, 0, n, Offered)
      BY <1>11, <3>1 DEF ReadHeader, ServerReads
    <3>3. /\ n + 1 \in 1..Len(offered)
          /\ Readings(First(c2s, 2), offered) = {m}
          /\ AfterHeader(Rest(c2s, 2), offered, 0, n + 1, Offered)
          /\ Framed(Rest(c2s, 2), offered, Offered)
      BY <1>t, <2>1, <3>1, <3>2, HeaderRead DEF HeaderUnits
    <3>4. /\ c2s' = Rest(c2s, 2) /\ smsg' = m
          /\ spc' = IF m.length > 0 THEN "payload" ELSE "forward"
      BY <2>1, <3>3 DEF HeaderUnits
    <3>5. UNCHANGED <<offered, fpga>> /\ Offered' = Offered
      BY <2>1 DEF txHist, client, Offered
    <3>6. CASE m.length > 0
      BY <3>1, <3>3, <3>4, <3>5, <3>6 DEF TxStream, ServerReads
    <3>7. CASE ~(m.length > 0)
      <4>1. Rest(c2s, 2) \in Seq(Unit) /\ n + 1 \in Nat
        BY <1>t, <2>1, RestFacts DEF HeaderUnits
      <4>2. AfterTlp(Rest(c2s, 2), offered, 0, n + 1, Offered)
        BY <1>t, <3>3, <3>7, <4>1, NoPayload DEF MessageOf
      <4>3. smsg'.msg = n + 1 /\ n < Len(offered)
        BY <1>t, <3>3, <3>4 DEF MessageOf
      <4> QED
        BY <3>1, <3>3, <3>4, <3>5, <3>7, <4>2, <4>3 DEF TxStream, ServerReads
    <3> QED
      BY <3>6, <3>7
  <2>2. CASE lapses' = lapses \cup {"tx: header cut"}
    BY <2>2 DEF TxLapses
  <2> QED BY <1>11, <1>x, <2>1, <2>2 DEF ReadHeader
<1>12. CASE ReadPayload
  <2> DEFINE n == Len(fpga) + 1
  <2>1. CASE lapses' = lapses
    <3>1. InStep(fpga, offered) /\ Framed(c2s, offered, Offered) /\ ServerReads
      BY <1>12, <1>l, <2>1 DEF TxStream, ServerAttached, ReadPayload
    <3>2. /\ AfterHeader(c2s, offered, 0, n, Offered)
          /\ smsg = MessageOf(offered, n) /\ smsg.length = offered[n].length
      BY <1>12, <3>1 DEF ReadPayload, ServerReads, MessageOf
    <3>3. n \in Nat /\ n \in 1..Len(offered) /\ offered[n].length \in Nat
      BY <1>t, <3>2, LengthFacts DEF AfterHeader
    <3>4. CASE /\ Len(c2s) >= smsg.length
               /\ c2s' = Rest(c2s, smsg.length)
               /\ smsg' = [smsg EXCEPT !.msg = Assembled(smsg, First(c2s, smsg.length))]
               /\ spc' = "forward"
               /\ UNCHANGED <<client, runs, s2c, txHist, rxHist, lapses>>
      <4> DEFINE len == offered[n].length
      <4>1. /\ Assembled(smsg, First(c2s, len)) = n
            /\ AfterTlp(Rest(c2s, len), offered, 0, n, Offered)
        BY <1>t, <3>2, <3>3, <3>4, PayloadRead
      <4>2. Framed(Rest(c2s, len), offered, Offered)
        <5>1. len \in 0..Len(c2s)
          BY <1>t, <3>2, <3>3, <3>4
        <5> QED
          BY <1>t, <3>1, <5>1, DropFramed
      <4>3. c2s' = Rest(c2s, len) /\ smsg'.msg = n
        BY <3>2, <3>4, <4>1 DEF MessageOf
      <4>4. UNCHANGED <<offered, fpga>> /\ Offered' = Offered /\ Len(fpga) < Len(offered)
        BY <1>t, <3>3, <3>4 DEF txHist, client, Offered
      <4> QED
        BY <3>1, <3>4, <4>1, <4>2, <4>3, <4>4 DEF TxStream, ServerReads
    <3>5. CASE ClientGone /\ Len(c2s) < smsg.length
      <4>1. Offered # Len(offered)
        BY <1>t, <3>2, <3>3, <3>5, PayloadOwed
      <4>2. cpc = "send_payload"
        BY <4>1 DEF Offered
      <4> QED
        BY <3>5, <4>2 DEF Moving, ClientGone
    <3> QED BY <1>12, <1>x, <3>4, <3>5 DEF ReadPayload
  <2> QED BY <1>12, <2>1 DEF ReadPayload, Exit
<1>13. CASE Forward
  <2>1. /\ InStep(fpga, offered) /\ Framed(c2s, offered, Offered) /\ ServerReads
    BY <1>13, <1>l DEF TxStream, ServerAttached, Forward
  <2>2. /\ AfterTlp(c2s, offered, 0, Len(fpga) + 1, Offered)
        /\ fpga' = Append(fpga, Len(fpga) + 1) /\ Len(fpga) < Len(offered)
    BY <1>13, <2>1 DEF Forward, ServerReads
  <2>3. UNCHANGED <<offered, c2s>> /\ Offered' = Offered /\ spc' = "poll"
    BY <1>13 DEF Forward, client, Offered
  <2>4. Len(fpga') = Len(fpga) + 1
    <3>1. Len(fpga) + 1 \in Nat
      BY <1>t
    <3> QED
      BY <1>t, <2>2, <3>1, AppendProperties
  <2>5. InStep(fpga', offered')
    <3>1. Len(fpga) + 1 \in 1..Len(offered)
      BY <1>t, <2>2
    <3> QED
      BY <1>t, <2>1, <2>2, <2>3, <3>1, InStepOut
  <2> QED
    BY <2>1, <2>2, <2>3, <2>4, <2>5 DEF TxStream, ServerReads
<1>14. CASE Poll
  <2>1. spc = "poll" /\ InStep(fpga, offered) /\ TxStream
    BY <1>14, <1>l DEF Poll
  <2>2. UNCHANGED <<offered, fpga>> /\ Offered' = Offered
    BY <1>14 DEF Poll, client, txHist, Offered
  <2> QED
    BY <1>14, <2>1, <2>2 DEF Poll, client, TxStream, ServerReads, ServerAttached
<1>17. ASSUME NEW t \in Tlps, RespondHeader(t)
       PROVE  InStep(fpga', offered') /\ TxStream'
  <2>1. CASE lapses \subseteq lapses' /\ spc' \in {"header", "respond_payload"}
             /\ UNCHANGED <<client, c2s, txHist>>
    <3>1. spc = "respond_header" /\ InStep(fpga, offered) /\ TxStream
      BY <1>17, <1>l, <2>1 DEF RespondHeader
    <3>2. UNCHANGED <<offered, fpga>> /\ Offered' = Offered
      BY <2>1 DEF client, txHist, Offered
    <3> QED
      BY <2>1, <3>1, <3>2 DEF TxStream, ServerReads, ServerAttached
  <2> QED BY <1>17, <1>x, <2>1 DEF RespondHeader
<1>15. CASE RespondPayload
  <2>1. CASE spc' = "header" /\ UNCHANGED <<client, smsg, runs, c2s, txHist, rxHist, lapses>>
    <3>1. spc = "respond_payload" /\ InStep(fpga, offered) /\ TxStream
      BY <1>15, <1>l, <2>1 DEF RespondPayload
    <3>2. UNCHANGED <<offered, fpga>> /\ Offered' = Offered
      BY <2>1 DEF client, txHist, Offered
    <3> QED
      BY <2>1, <3>1, <3>2 DEF TxStream, ServerReads, ServerAttached
  <2> QED BY <1>15, <1>x, <2>1 DEF RespondPayload
<1>16. CASE UNCHANGED vars
  <2>1. UNCHANGED <<offered, fpga, c2s, smsg, spc, sock, cpc, lapses>>
    BY <1>16 DEF vars, client, server, txHist
  <2>2. Offered' = Offered
    BY <2>1 DEF Offered
  <2> QED
    BY <1>l, <2>1, <2>2 DEF TxStream, ServerAttached, ServerReads
<1> QED
  BY <1>1, <1>2, <1>3, <1>4, <1>5, <1>6, <1>7, <1>8, <1>9, <1>10, <1>11, <1>12,
     <1>13, <1>14, <1>15, <1>16, <1>17 DEF Next, ClientStep, ServerStep, CallSend, CallRecv

(* Toward the application, the same.                                        *)
LEMMA RxNext == Types /\ Moving /\ RxInv /\ [Next]_vars => RxInv'
<1> SUFFICES ASSUME Types, Moving, RxInv, [Next]_vars, lapses' \cap RxLapses = {}
             PROVE  InStep(recvd', responded') /\ RxStream'
  BY DEF RxInv
<1>t. /\ s2c \in Seq(Unit) /\ responded \in Seq(Tlps) /\ recvd \in Seq(Nat)
      /\ Len(s2c) \in Nat /\ Len(responded) \in Nat /\ Len(recvd) \in Nat
  BY LenProperties DEF Types
<1>l. ASSUME lapses \subseteq lapses' PROVE InStep(recvd, responded) /\ RxStream
  BY <1>l DEF RxInv
(* Steps that leave the stream toward the application alone.                *)
<1>c. ASSUME lapses \subseteq lapses', UNCHANGED <<responded, recvd, s2c, spc>>,
             cpc # "recv_payload", cpc' # "recv_payload"
      PROVE  InStep(recvd', responded') /\ RxStream'
  BY <1>c, <1>l DEF RxStream, ClientReads, ServerAttached, Answered
<1>s. ASSUME lapses \subseteq lapses', UNCHANGED <<responded, recvd, s2c, cpc, cmsg>>,
             ServerAttached' => ServerAttached /\ Answered' = Answered
      PROVE  InStep(recvd', responded') /\ RxStream'
  <2>1. PICK whole \in Int : /\ ServerAttached => whole = Answered
                             /\ Framed(s2c, responded, whole)
                             /\ ClientReads(whole)
    BY <1>s, <1>l DEF RxStream
  <2>2. ServerAttached' => whole = Answered'
    BY <1>s, <2>1
  <2>3. Framed(s2c', responded', whole)
    BY <1>s, <2>1
  <2>4. ClientReads(whole)'
    BY <1>s, <2>1 DEF ClientReads
  <2> QED
    BY <1>s, <1>l, <2>2, <2>3, <2>4 DEF RxStream
<1>x. ASSUME Exit PROVE InStep(recvd', responded') /\ RxStream'
  BY <1>x, <1>s DEF Exit, ServerAttached, client, rxHist
<1>n. ASSUME SendToNobody, cpc # "recv_payload"
      PROVE  InStep(recvd', responded') /\ RxStream'
  BY <1>n, <1>c DEF SendToNobody, server, rxHist
<1>f. ASSUME NEW units, SendFallsShort(units), cpc # "recv_payload", lapses \subseteq lapses'
      PROVE  InStep(recvd', responded') /\ RxStream'
  BY <1>f, <1>c DEF SendFallsShort, server, rxHist
<1>1. ASSUME NEW call \in {"send_header", "recv_header"}, Connect(call)
      PROVE  InStep(recvd', responded') /\ RxStream'
  <2>1. /\ responded' = << >> /\ recvd' = << >> /\ s2c' = << >> /\ spc' = "ident"
        /\ cpc' # "recv_payload"
    BY <1>1 DEF Connect
  <2>2. Len(responded') = 0 /\ Len(recvd') = 0 /\ Len(s2c') = 0 /\ Answered' = 0
    BY <2>1 DEF Answered
  <2>3. InStep(recvd', responded')
    BY <2>2 DEF InStep
  <2>4. Framed(s2c', responded', 0)
    BY <2>2 DEF Framed
  <2>5. AfterTlp(s2c', responded', 0, Len(recvd'), 0)
    BY <2>2 DEF AfterTlp
  <2> QED
    BY <2>1, <2>2, <2>3, <2>4, <2>5 DEF RxStream, ClientReads
<1>2. ASSUME NEW call \in {"send_header", "recv_header"}, Connected(call)
      PROVE  InStep(recvd', responded') /\ RxStream'
  BY <1>2, <1>c DEF Connected, server, rxHist
<1>3. ASSUME NEW t \in Tlps, SendHeader(t) PROVE InStep(recvd', responded') /\ RxStream'
  <2>1. CASE lapses \subseteq lapses' /\ UNCHANGED <<server, s2c, rxHist>>
             /\ cpc' # "recv_payload"
    BY <1>3, <1>c, <2>1 DEF SendHeader, server, rxHist
  <2>2. CASE SendFallsShort(Header(Len(offered) + 1)) /\ lapses \subseteq lapses'
    BY <1>3, <1>f, <2>2 DEF SendHeader
  <2> QED
    BY <1>3, <1>n, <2>1, <2>2 DEF SendHeader
<1>4. CASE SendNoMore
  BY <1>4, <1>c DEF SendNoMore, server, rxHist
<1>5. CASE SendPayload
  <2>1. CASE lapses \subseteq lapses' /\ UNCHANGED <<server, s2c, rxHist>>
             /\ cpc' # "recv_payload"
    BY <1>5, <1>c, <2>1 DEF SendPayload, server, rxHist
  <2>2. CASE SendFallsShort(Payload(cmsg.msg, cmsg.length)) /\ lapses \subseteq lapses'
    BY <1>5, <1>f, <2>2 DEF SendPayload
  <2> QED
    BY <1>5, <1>n, <2>1, <2>2 DEF SendPayload
<1>6. CASE RecvHeader
  <2>1. PICK k \in 0..Shortest(HeaderUnits, Len(s2c)) :
         /\ s2c' = Rest(s2c, k)
         /\ \/ /\ k = HeaderUnits
               /\ \E m \in Readings(First(s2c, k), responded) :
                    IF m.length > 0
                      THEN cpc' = "recv_payload" /\ cmsg' = m /\ UNCHANGED recvd
                      ELSE /\ cpc' = "idle" /\ recvd' = Append(recvd, m.msg)
                           /\ UNCHANGED cmsg
               /\ UNCHANGED <<sock, nonblock, lapses>>
            \/ lapses' = lapses \cup {"rx: header cut"}
            \/ k = 0 /\ cpc' = "idle" /\ UNCHANGED <<recvd, lapses>>
    BY <1>6 DEF RecvHeader, EndOfStream
  <2>2. cpc = "recv_header" /\ UNCHANGED <<spc, responded>>
    BY <1>6 DEF RecvHeader, EndOfStream, server
  <2>3. CASE lapses' = lapses \cup {"rx: header cut"}
    BY <2>3 DEF RxLapses
  <2>4. CASE k = 0 /\ cpc' = "idle" /\ UNCHANGED <<recvd, lapses>>
    <3>1. Rest(s2c, 0) = s2c
      BY <1>t, SubSeqFull DEF Rest
    <3> QED
      BY <1>c, <2>1, <2>2, <2>4, <3>1
  <2>5. CASE /\ k = HeaderUnits /\ lapses' = lapses
             /\ \E m \in Readings(First(s2c, k), responded) :
                  IF m.length > 0
                    THEN cpc' = "recv_payload" /\ cmsg' = m /\ UNCHANGED recvd
                    ELSE cpc' = "idle" /\ recvd' = Append(recvd, m.msg)
    <3> DEFINE n == Len(recvd)
               m == MessageOf(responded, n + 1)
    <3>1. k = 2 /\ Len(s2c) >= 2 /\ s2c' = Rest(s2c, 2)
      <4>1. k = 2 /\ s2c' = Rest(s2c, k)
        BY <2>1, <2>5 DEF HeaderUnits
      <4>2. k <= Len(s2c)
        BY <1>t DEF Shortest, HeaderUnits
      <4> QED
        BY <4>1, <4>2
    <3>2. InStep(recvd, responded) /\ RxStream
      <4>1. lapses \subseteq lapses'
        BY <2>5
      <4> QED
        BY <1>l, <4>1
    <3>3. PICK whole \in Int : /\ ServerAttached => whole = Answered
                               /\ Framed(s2c, responded, whole)
                               /\ AfterTlp(s2c, responded, 0, n, whole)
      BY <2>2, <3>2 DEF RxStream, ClientReads
    <3>4. /\ n + 1 \in 1..Len(responded)
          /\ Readings(First(s2c, 2), responded) = {m}
          /\ AfterHeader(Rest(s2c, 2), responded, 0, n + 1, whole)
          /\ Framed(Rest(s2c, 2), responded, whole)
      BY <1>t, <3>1, <3>3, HeaderRead
    <3>5. IF m.length > 0
            THEN cpc' = "recv_payload" /\ cmsg' = m /\ UNCHANGED recvd
            ELSE cpc' = "idle" /\ recvd' = Append(recvd, m.msg)
      BY <2>5, <3>1, <3>4
    <3>6. (ServerAttached' => whole = Answered') /\ Framed(s2c', responded', whole)
      BY <2>2, <3>1, <3>3, <3>4 DEF ServerAttached, Answered
    <3>7. CASE m.length > 0
      <4>1. ClientReads(whole)'
        BY <2>2, <3>1, <3>4, <3>5, <3>7 DEF ClientReads
      <4> QED
        BY <2>2, <3>2, <3>5, <3>6, <3>7, <4>1 DEF RxStream
    <3>8. CASE ~(m.length > 0)
      <4>1. Rest(s2c, 2) \in Seq(Unit) /\ n + 1 \in Nat
        BY <1>t, <3>1, RestFacts
      <4>2. AfterTlp(Rest(s2c, 2), responded, 0, n + 1, whole)
        BY <1>t, <3>4, <3>8, <4>1, NoPayload DEF MessageOf
      <4>3. recvd' = Append(recvd, n + 1) /\ cpc' = "idle"
        BY <3>5, <3>8 DEF MessageOf
      <4>4. Len(recvd') = n + 1
        BY <1>t, <4>1, <4>3, AppendProperties
      <4>5. ClientReads(whole)'
        BY <2>2, <3>1, <4>2, <4>3, <4>4 DEF ClientReads
      <4>6. InStep(recvd', responded')
        BY <1>t, <2>2, <3>2, <3>4, <4>3, InStepOut
      <4> QED
        BY <3>6, <4>5, <4>6 DEF RxStream
    <3> QED
      BY <3>7, <3>8
  <2> QED
    BY <2>1, <2>3, <2>4, <2>5
<1>7. CASE RecvPayload
  <2> DEFINE n == Len(recvd) + 1
             len == responded[n].length
  <2>1. /\ cpc = "recv_payload" /\ cpc' = "idle" /\ UNCHANGED <<spc, responded>>
        /\ \/ /\ Len(s2c) >= cmsg.length
              /\ s2c' = Rest(s2c, cmsg.length)
              /\ recvd' = Append(recvd, Assembled(cmsg, First(s2c, cmsg.length)))
              /\ lapses' = lapses
           \/ lapses' = lapses \cup {"rx: payload cut"}
    BY <1>7 DEF RecvPayload, server
  <2>2. CASE lapses' = lapses \cup {"rx: payload cut"}
    BY <2>2 DEF RxLapses
  <2>3. CASE /\ Len(s2c) >= cmsg.length
             /\ s2c' = Rest(s2c, cmsg.length)
             /\ recvd' = Append(recvd, Assembled(cmsg, First(s2c, cmsg.length)))
             /\ lapses' = lapses
    <3>1. InStep(recvd, responded) /\ RxStream
      BY <1>l, <2>3
    <3>2. PICK whole \in Int : /\ ServerAttached => whole = Answered
                               /\ Framed(s2c, responded, whole)
                               /\ AfterHeader(s2c, responded, 0, n, whole)
                               /\ cmsg = MessageOf(responded, n)
      BY <2>1, <3>1 DEF RxStream, ClientReads
    <3>3. n \in Nat /\ n \in 1..Len(responded) /\ len \in Nat /\ cmsg.length = len
      BY <1>t, <3>2, LengthFacts DEF AfterHeader, MessageOf
    <3>4. /\ Assembled(cmsg, First(s2c, len)) = n
          /\ AfterTlp(Rest(s2c, len), responded, 0, n, whole)
      BY <1>t, <2>3, <3>2, <3>3, PayloadRead
    <3>5. Framed(Rest(s2c, len), responded, whole)
      <4>1. len \in 0..Len(s2c)
        BY <1>t, <2>3, <3>3
      <4> QED
        BY <1>t, <3>2, <4>1, DropFramed
    <3>6. s2c' = Rest(s2c, len) /\ recvd' = Append(recvd, n)
      BY <2>3, <3>3, <3>4
    <3>7. Len(recvd') = n
      BY <1>t, <3>3, <3>6, AppendProperties
    <3>8. (ServerAttached' => whole = Answered') /\ Framed(s2c', responded', whole)
      BY <2>1, <3>2, <3>5, <3>6 DEF ServerAttached, Answered
    <3>9. ClientReads(whole)'
      BY <2>1, <3>4, <3>6, <3>7 DEF ClientReads
    <3>10. InStep(recvd', responded')
      BY <1>t, <2>1, <3>1, <3>3, <3>6, InStepOut
    <3> QED
      BY <3>8, <3>9, <3>10 DEF RxStream
  <2> QED
    BY <2>1, <2>2, <2>3
<1>8. CASE Close
  BY <1>8, <1>c DEF Close, server, rxHist
<1>9. CASE Start
  BY <1>9, <1>s DEF Start, ServerAttached, client, rxHist
<1>10. CASE Ident
  BY <1>10, <1>s, <1>x DEF Ident, ServerAttached, Answered, client, rxHist
<1>11. CASE ReadHeader
  <2>1. CASE spc' \in {"payload", "forward", "header"} /\ lapses \subseteq lapses'
             /\ UNCHANGED <<client, s2c, rxHist>>
    BY <1>11, <1>s, <2>1 DEF ReadHeader, ServerAttached, Answered, client, rxHist
  <2>2. CASE lapses \subseteq lapses' /\ UNCHANGED <<client, server, s2c, txHist, rxHist>>
    BY <1>s, <2>2 DEF ServerAttached, Answered, client, server, rxHist
  <2> QED
    BY <1>11, <1>x, <2>1, <2>2 DEF ReadHeader
<1>12. CASE ReadPayload
  <2>1. CASE spc' \in {"forward", "header"} /\ UNCHANGED <<client, s2c, rxHist, lapses>>
    BY <1>12, <1>s, <2>1 DEF ReadPayload, ServerAttached, Answered, client, rxHist
  <2> QED
    BY <1>12, <1>x, <2>1 DEF ReadPayload
<1>13. CASE Forward
  BY <1>13, <1>s DEF Forward, ServerAttached, Answered, client, rxHist
<1>14. CASE Poll
  BY <1>14, <1>s DEF Poll, ServerAttached, Answered, client, rxHist
<1>17. ASSUME NEW t \in Tlps, RespondHeader(t)
       PROVE  InStep(recvd', responded') /\ RxStream'
  <2> DEFINE n == Len(responded) + 1
             r == s2c \o Header(n)
  <2>2. ASSUME s2c' = r, responded' = Append(responded, t),
               IF t.length > 0 /\ t.data
                 THEN spc' = "respond_payload" /\ UNCHANGED lapses
                 ELSE /\ spc' = "header"
                      /\ lapses' = IF t.length > 0
                                     THEN lapses \cup {"rx: payload not sent"}
                                     ELSE lapses,
               UNCHANGED <<client, runs, c2s, txHist, recvd>>
        PROVE  InStep(recvd', responded') /\ RxStream'
    <3> DEFINE s == Append(responded, t)
    <3>1. InStep(recvd, responded) /\ RxStream
      <4>1. lapses \subseteq lapses'
        BY <2>2
      <4> QED BY <4>1, <1>l
    <3>2. t.length \in Nat /\ t.data \in BOOLEAN
      BY BridgeAssumption
    <3>3. IF t.length = 0 THEN spc' = "header" ELSE spc' = "respond_payload"
      <4>1. "rx: payload not sent" \notin lapses'
        BY DEF RxLapses
      <4>2. ~(t.length > 0) \/ t.data
        BY <2>2, <4>1
      <4>3. CASE t.length = 0
        BY <2>2, <4>3
      <4>4. CASE t.length # 0
        <5>1. t.length > 0 /\ t.data
          BY <3>2, <4>2, <4>4
        <5> QED
          BY <2>2, <4>4, <5>1
      <4> QED
        BY <4>3, <4>4
    <3>4. /\ s \in Seq(Tlps) /\ Len(s) = n /\ \A m \in 1..Len(responded) : s[m] = responded[m]
      BY <1>t, AppendProperties
    <3>5. Answered' = WholeAfter(responded, t) /\ Answered' \in Int
      <4>1. Len(responded') = Len(responded) + 1 /\ Len(responded') - 1 = Len(responded)
        <5>1. responded' = s
          BY <2>2
        <5> HIDE DEF s
        <5> QED
          BY <1>t, <3>4, <5>1
      <4>2. CASE t.length = 0
        BY <1>t, <3>3, <4>1, <4>2 DEF Answered, WholeAfter
      <4>3. CASE t.length # 0
        BY <1>t, <3>3, <4>1, <4>3 DEF Answered, WholeAfter
      <4> QED
        BY <4>2, <4>3
    <3>6. Framed(s2c, responded, Len(responded)) /\ ClientReads(Len(responded))
      <4>1. spc = "respond_header"
        BY <1>17 DEF RespondHeader
      <4>2. Answered = Len(responded) /\ ServerAttached
        BY <4>1 DEF Answered, ServerAttached
      <4> QED
        BY <3>1, <4>2 DEF RxStream
    <3>w. PICK w \in Int : w = WholeAfter(responded, t) /\ w = Answered'
      BY <3>5
    <3>7. Framed(r, s, w)
      BY <1>t, <3>w, <3>6, HeaderFramed
    <3>8. ClientReads(w)'
      <4>1. UNCHANGED <<cpc, cmsg, recvd>> /\ s2c' = r /\ responded' = s
        BY <2>2 DEF client
      <4>2. CASE cpc = "recv_payload"
        <5>1. /\ AfterHeader(s2c, responded, 0, Len(recvd) + 1, Len(responded))
              /\ cmsg = MessageOf(responded, Len(recvd) + 1)
          BY <3>6, <4>2 DEF ClientReads
        <5>2. AfterHeader(r, s, 0, Len(recvd) + 1, w)
          <6>1. 0 \in 0..Len(s2c) /\ Len(recvd) + 1 \in Nat
            BY <1>t
          <6>2. AfterHeader(r, s, 0, Len(recvd) + 1, WholeAfter(responded, t))
            BY <1>t, <5>1, <6>1, HeaderHeader
          <6> QED
            BY <3>w, <6>2
        <5>3. MessageOf(s, Len(recvd) + 1) = MessageOf(responded, Len(recvd) + 1)
          BY <3>4, <5>1 DEF AfterHeader, MessageOf
        <5> HIDE DEF r, s
        <5> QED
          BY <4>1, <4>2, <5>1, <5>2, <5>3 DEF ClientReads
      <4>3. CASE cpc # "recv_payload"
        <5>1. AfterTlp(s2c, responded, 0, Len(recvd), Len(responded)) /\ 0 \in 0..Len(s2c)
          BY <1>t, <3>6, <4>3 DEF ClientReads
        <5>2. AfterTlp(r, s, 0, Len(recvd), w)
          BY <1>t, <3>w, <5>1, HeaderTlp
        <5> HIDE DEF r, s
        <5> QED
          BY <4>1, <4>3, <5>2 DEF ClientReads
      <4> QED
        BY <4>2, <4>3
    <3>9. InStep(recvd', responded')
      BY <1>t, <2>2, <3>1, InStepSent
    <3> QED
      <4>1. Framed(s2c', responded', w)
        BY <2>2, <3>7
      <4> QED
        BY <3>w, <3>8, <3>9, <4>1 DEF RxStream
  <2> QED
    BY <1>17, <1>x, <2>2 DEF RespondHeader
<1>15. CASE RespondPayload
  <2> DEFINE L == Len(responded)
             r == s2c \o Payload(L, responded[L].length)
  <2>1. CASE /\ s2c' = s2c \o Payload(smsg.msg, smsg.length)
             /\ spc' = "header"
             /\ UNCHANGED <<client, smsg, runs, c2s, txHist, rxHist, lapses>>
    <3>1. spc = "respond_payload"
      BY <1>15 DEF RespondPayload
    <3>2. responded # << >> /\ smsg = MessageOf(responded, L)
      BY <3>1 DEF Moving
    <3>3. s2c' = r /\ UNCHANGED <<responded, recvd, cpc, cmsg>> /\ Answered' = L
      BY <2>1, <3>2 DEF MessageOf, client, rxHist, Answered
    <3>4. InStep(recvd, responded) /\ Framed(s2c, responded, L - 1) /\ ClientReads(L - 1)
      <4>1. Answered = L - 1 /\ ServerAttached
        BY <3>1 DEF Answered, ServerAttached
      <4> QED
        BY <1>l, <2>1, <4>1 DEF RxStream
    <3>5. Framed(r, responded, L)
      BY <1>t, <3>2, <3>4, PayloadFramed
    <3>6. 0 \in 0..Len(s2c) /\ responded[L].length \in Nat /\ L \in Nat
      BY <1>t, <3>2, EmptySeq, LengthFacts
    <3>7. Payload(L, responded[L].length) \in Seq(Unit)
      BY <3>6, PayloadFacts
    <3>w. PICK w \in Int : w = L /\ w = Answered'
      BY <3>3, <3>6
    <3>8. ClientReads(w)'
      <4>1. CASE cpc = "recv_payload"
        <5>1. /\ AfterHeader(s2c, responded, 0, Len(recvd) + 1, L - 1)
              /\ cmsg = MessageOf(responded, Len(recvd) + 1)
          BY <3>4, <4>1 DEF ClientReads
        <5>2. AfterHeader(r, responded, 0, Len(recvd) + 1, w)
          BY <1>t, <3>w, <3>2, <3>6, <5>1, PayloadHeader
        <5> HIDE DEF r, L
        <5> QED
          BY <3>3, <4>1, <5>1, <5>2 DEF ClientReads
      <4>2. CASE cpc # "recv_payload"
        <5>1. AfterTlp(s2c, responded, 0, Len(recvd), L - 1)
          BY <3>4, <4>2 DEF ClientReads
        <5>2. AfterTlp(r, responded, 0, Len(recvd), w)
          BY <1>t, <3>w, <3>2, <3>6, <3>7, <5>1, PayloadTlp
        <5> HIDE DEF r, L
        <5> QED
          BY <3>3, <4>2, <5>2 DEF ClientReads
      <4> QED
        BY <4>1, <4>2
    <3> QED
      <4>1. Framed(s2c', responded', w) /\ InStep(recvd', responded')
        BY <3>3, <3>4, <3>5, <3>w
      <4> QED
        BY <3>w, <3>8, <4>1 DEF RxStream
  <2> QED
    BY <1>15, <1>x, <2>1 DEF RespondPayload
<1>16. CASE UNCHANGED vars
  BY <1>16, <1>s DEF vars, client, server, rxHist, ServerAttached, Answered
<1> QED
  BY <1>1, <1>2, <1>3, <1>4, <1>5, <1>6, <1>7, <1>8, <1>9, <1>10, <1>11, <1>12,
     <1>13, <1>14, <1>15, <1>16, <1>17 DEF Next, ClientStep, ServerStep, CallSend, CallRecv

(* Moving, TxInv and RxInv hold before anything has happened.               *)
LEMMA StreamsInit == Init => Moving /\ TxInv /\ RxInv
<1> SUFFICES ASSUME Init PROVE Moving /\ TxInv /\ RxInv OBVIOUS
<1>1. Moving
  BY DEF Init, Moving
<1>2. Len(fpga) = 0 /\ Len(recvd) = 0 /\ Len(offered) = 0 /\ Len(responded) = 0 /\ Len(s2c) = 0
  BY DEF Init
<1>3. InStep(fpga, offered) /\ InStep(recvd, responded)
  BY <1>2 DEF InStep
<1>4. TxStream /\ ~ServerAttached
  BY DEF Init, TxStream, ServerAttached
<1>5. Framed(s2c, responded, 0) /\ AfterTlp(s2c, responded, 0, Len(recvd), 0)
  BY <1>2 DEF Framed, AfterTlp
<1>6. RxStream
  BY <1>4, <1>5 DEF Init, RxStream, ClientReads
<1> QED
  BY <1>1, <1>3, <1>4, <1>6 DEF TxInv, RxInv

(* For every size of the sockets and every payload: the types hold, no      *)
(* stream holds more than its socket, and no call of the application goes   *)
(* on without one.                                                          *)
THEOREM BridgeTypeCorrect == Spec => []TypeOK
<1>1. Types /\ Moving => TypeOK
  BY DEF Moving, TypeOK
<1> QED
  BY <1>1, TypesCorrect, MovingNext, StreamsInit, PTL DEF Spec

(* Toward the FPGA the TLPs come out as they went in, unless the stream had *)
(* one of the three lapses.                                                 *)
THEOREM FramingTowardFpga == Spec => []TxFraming
<1>1. Types /\ Moving /\ TxInv => TxFraming
  BY DEF TxInv, TxFraming
<1> QED
  BY <1>1, TypesCorrect, MovingNext, TxNext, StreamsInit, PTL DEF Spec

(* Toward the application the same.                                         *)
THEOREM FramingTowardApplication == Spec => []RxFraming
<1>1. RxInv => RxFraming
  BY DEF RxInv, RxFraming
<1> QED
  BY <1>1, TypesCorrect, MovingNext, RxNext, StreamsInit, PTL DEF Spec
=============================================================================
