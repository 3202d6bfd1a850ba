---------------------------- MODULE ArmdsBridge ----------------------------
(***************************************************************************)
(* The ARM DS path of libpcapcie: the armds backend in the application     *)
(* (src/src/backend_armds.c), the bridge server on the other machine       *)
(* (src/armds_bridge_server.c), and the TCP connection between them.       *)
(*                                                                         *)
(* TCP carries bytes, not TLPs.  A header is HeaderUnits units, a payload  *)
(* as many units as its length; what a call finds of the bytes in flight   *)
(* is chosen when it looks.  Each unit remembers the TLP and the place it  *)
(* came from, so that a reader out of step can be told from one in step: a *)
(* header assembled from other units announces any length.                 *)
(*                                                                         *)
(* A send waits until the socket has room for all of its units, and puts   *)
(* them there in one step: what the other side could see of them earlier,  *)
(* it can see of them then, since a read may find less than there is. Only *)
(* a send that gives up leaves a part.                                     *)
(*                                                                         *)
(* "History:" marks variables the code does not have.  They speak of one   *)
(* connection and start anew with the next.                                *)
(***************************************************************************)
EXTENDS Naturals, Sequences, FiniteSets

CONSTANTS
    Tlps,          \* TLPs sent either way: [length, data], data = "attached?"
    MaxLength,     \* the longest payload a header can announce
    BufferSize,    \* units a socket buffers in one direction
    MaxOffered,    \* bound: TLPs sent per connection
    MaxResponses,  \* bound: TLPs the FPGA answers per connection
    MaxRuns        \* bound: times the server is started

ASSUME BridgeAssumption ==
    /\ MaxLength \in Nat
    /\ \A t \in Tlps : t.length \in 0..MaxLength /\ t.data \in BOOLEAN
    /\ BufferSize \in Nat \ {0, 1} /\ BufferSize >= MaxLength
    /\ MaxRuns \in Nat

VARIABLES
    sock,          \* client: arm_ds_sock, "none" or "open"
    nonblock,      \* client: O_NONBLOCK is set on arm_ds_sock
    cpc,           \* client: the call in progress
    cmsg,          \* client: number and length of the TLP being moved
    spc,           \* server: where main is
    smsg,          \* server: number and length of the TLP being moved
    runs,          \* server: times it was started
    c2s, s2c,      \* units on their way
    offered,       \* History: TLPs whose header the client has sent
    responded,     \* History: TLPs whose header the server has sent
    fpga,          \* History: numbers of the TLPs handed to the FPGA
    recvd,         \* History: numbers of the TLPs arm_ds_recv returned
    lapses         \* History: what has made a stream lose its framing

client == <<sock, nonblock, cpc, cmsg>>
server == <<spc, smsg, runs>>
txHist == <<offered, fpga>>
rxHist == <<responded, recvd>>
vars == <<client, server, c2s, s2c, txHist, rxHist, lapses>>

-----------------------------------------------------------------------------
(* Units and framing                                                        *)

HeaderUnits == 2

DeviceId == [msg |-> 0, part |-> "id", k |-> 1]

Header(n) == [k \in 1..HeaderUnits |-> [msg |-> n, part |-> "header", k |-> k]]
Payload(n, len) == [k \in 1..len |-> [msg |-> n, part |-> "payload", k |-> k]]

First(q, k) == SubSeq(q, 1, k)
Rest(q, k)  == SubSeq(q, k + 1, Len(q))
Shortest(a, b) == IF a < b THEN a ELSE b

Garbled == 0       \* the number of a TLP that nobody sent

(* What a reader makes of the units it takes for a header: the TLP they are *)
(* the header of, or anything.                                              *)
Parsed(units, tlps) ==
    {[msg |-> n, length |-> tlps[n].length] :
        n \in {m \in 1..Len(tlps) : units = Header(m)}}

Readings(units, tlps) ==
    IF Parsed(units, tlps) # {} THEN Parsed(units, tlps)
    ELSE {[msg |-> Garbled, length |-> len] : len \in 0..MaxLength}

(* The TLP a header and the units taken for its payload make.               *)
Assembled(m, units) ==
    IF units = Payload(m.msg, m.length) THEN m.msg ELSE Garbled

Nothing == [msg |-> Garbled, length |-> 0]

(* The server's end of the client's connection.                             *)
ServerAttached == spc \notin {"down", "listen"}

-----------------------------------------------------------------------------
Init ==
    /\ sock = "none" /\ nonblock = FALSE /\ cpc = "idle" /\ cmsg = Nothing
    /\ spc = "down" /\ smsg = Nothing /\ runs = 0
    /\ c2s = << >> /\ s2c = << >>
    /\ offered = << >> /\ responded = << >> /\ fpga = << >> /\ recvd = << >>
    /\ lapses = {}

(* The client: arm_ds_connect                                               *)

(* Every send and recv begins with arm_ds_connect, which does nothing when  *)
(* there is a socket.  The server accepts one connection; where nobody      *)
(* listens the call fails and changes nothing.  A device ID that cannot be  *)
(* sent closes the socket again.                                            *)
Connect(call) ==
    /\ cpc = "idle" /\ sock = "none" /\ spc = "listen"
    /\ spc' = "ident"
    /\ s2c' = << >>
    /\ offered' = << >> /\ responded' = << >> /\ fpga' = << >> /\ recvd' = << >>
    /\ lapses' = {}
    /\ nonblock' = FALSE
    /\ \/ /\ sock' = "open"
          /\ c2s' = <<DeviceId>>
          /\ cpc' = call
       \/ /\ c2s' = << >>
          /\ UNCHANGED <<sock, cpc>>
    /\ UNCHANGED <<cmsg, smsg, runs>>

Connected(call) ==
    /\ cpc = "idle" /\ sock = "open"
    /\ cpc' = call
    /\ UNCHANGED <<sock, nonblock, cmsg, server, c2s, s2c, txHist, rxHist, lapses>>

(* The application calls pcie_send or pcie_recv.                            *)
CallSend == Connect("send_header") \/ Connected("send_header")
CallRecv == Connect("recv_header") \/ Connected("recv_header")

(* The client: arm_ds_send                                                  *)

Room(q) == BufferSize - Len(q)

(* send() on a connection the server has left: the bytes vanish, or the     *)
(* call fails, or SIGPIPE ends the process.                                 *)
SendToNobody ==
    /\ ~ServerAttached
    /\ \/ cpc' = "idle" /\ UNCHANGED sock
       \/ cpc' = "killed" /\ sock' = "none"
    /\ UNCHANGED <<nonblock, cmsg, server, c2s, s2c, txHist, rxHist, lapses>>

(* A send that finds no room waits.  When the socket does not drain within  *)
(* SO_SNDTIMEO, or at once when it does not block, it took only a part: the *)
(* call fails and the socket stays as it is.  Mutant: no SO_SNDTIMEO.       *)
SendFallsShortMutant(units) ==
    /\ ServerAttached /\ nonblock
    /\ Room(c2s) < Len(units)
    /\ c2s' = c2s \o First(units, Room(c2s))
    /\ cpc' = "idle"
    /\ UNCHANGED <<sock, nonblock, cmsg, server, s2c, txHist, rxHist>>

SendFallsShort(units) ==
    /\ ServerAttached
    /\ Room(c2s) < Len(units)
    /\ c2s' = c2s \o First(units, Room(c2s))
    /\ cpc' = "idle"
    /\ UNCHANGED <<sock, nonblock, cmsg, server, s2c, txHist, rxHist>>

SendHeader(t) ==
    /\ cpc = "send_header"
    /\ Len(offered) < MaxOffered
    /\ LET n == Len(offered) + 1 IN
       \/ /\ ServerAttached
          /\ Room(c2s) >= HeaderUnits
          /\ c2s' = c2s \o Header(n)
          /\ offered' = Append(offered, t)
          /\ IF t.length > 0 /\ t.data
               THEN /\ cpc' = "send_payload"
                    /\ cmsg' = [msg |-> n, length |-> t.length]
                    /\ UNCHANGED lapses
               ELSE /\ cpc' = "idle"
                    /\ lapses' = IF t.length > 0
                                   THEN lapses \cup {"tx: payload not sent"}
                                   ELSE lapses
                    /\ UNCHANGED cmsg
          /\ UNCHANGED <<sock, nonblock, server, s2c, fpga, rxHist>>
       \/ /\ SendFallsShort(Header(n))
          /\ lapses' = IF Room(c2s) > 0 THEN lapses \cup {"tx: header cut"}
                                        ELSE lapses
       \/ SendToNobody

(* The bound on offered TLPs leaves the call without effect.                *)
SendNoMore ==
    /\ cpc = "send_header" /\ Len(offered) = MaxOffered
    /\ cpc' = "idle"
    /\ UNCHANGED <<sock, nonblock, cmsg, server, c2s, s2c, txHist, rxHist, lapses>>

SendPayload ==
    /\ cpc = "send_payload"
    /\ LET units == Payload(cmsg.msg, cmsg.length) IN
       \/ /\ ServerAttached
          /\ Room(c2s) >= Len(units)
          /\ c2s' = c2s \o units
          /\ cpc' = "idle"
          /\ UNCHANGED <<sock, nonblock, cmsg, server, s2c, txHist, rxHist, lapses>>
       \/ SendFallsShort(units) /\ lapses' = lapses \cup {"tx: payload cut"}
       \/ SendToNobody

(* The client: arm_ds_recv                                                  *)

(* The end of the stream closes the socket.  Mutant: without the return.    *)
EndOfStreamMutant ==
    /\ sock' = "none" /\ nonblock' = FALSE
    /\ cpc' = "recv_payload"
    /\ UNCHANGED <<cmsg, recvd, lapses>>

EndOfStream ==
    /\ sock' = "none" /\ nonblock' = FALSE
    /\ cpc' = "idle"
    /\ UNCHANGED <<cmsg, recvd, lapses>>

(* The socket is switched to non-blocking for the header, and back to what  *)
(* it was only when a whole header has come.                                *)
RecvHeader ==
    /\ cpc = "recv_header"
    /\ \E k \in 0..Shortest(HeaderUnits, Len(s2c)) :
         /\ s2c' = Rest(s2c, k)
         /\ \/ /\ k = HeaderUnits
               /\ \E m \in Readings(First(s2c, k), responded) :
                    IF m.length > 0
                      THEN cpc' = "recv_payload" /\ cmsg' = m /\ UNCHANGED recvd
                      ELSE /\ cpc' = "idle" /\ recvd' = Append(recvd, m.msg)
                           /\ UNCHANGED cmsg
               /\ UNCHANGED <<sock, nonblock, lapses>>
            \/ /\ k \in 1..(HeaderUnits - 1)
               /\ nonblock' = TRUE
               /\ cpc' = "idle"
               /\ lapses' = lapses \cup {"rx: header cut"}
               /\ UNCHANGED <<sock, cmsg, recvd>>
            \/ /\ k = 0                              \* EAGAIN, or an error
               /\ nonblock' = TRUE
               /\ cpc' = "idle"
               /\ UNCHANGED <<sock, cmsg, recvd, lapses>>
            \/ k = 0 /\ s2c = << >> /\ ~ServerAttached /\ EndOfStream
    /\ UNCHANGED <<server, c2s, txHist, responded>>

(* Mutant: no MSG_WAITALL, and what came is the payload.                    *)
RecvPayloadAnyMutant ==
    /\ cpc = "recv_payload"
    /\ cpc' = "idle"
    /\ \E k \in 0..Shortest(cmsg.length, Len(s2c)) :
         /\ s2c' = Rest(s2c, k)
         /\ recvd' = Append(recvd, Assembled(cmsg, First(s2c, k)))
    /\ UNCHANGED <<sock, nonblock, cmsg, server, c2s, txHist, responded, lapses>>

(* MSG_WAITALL waits for the whole payload: until SO_RCVTIMEO expires, or   *)
(* the server goes, or not at all when the socket does not block.  malloc   *)
(* may fail before.  What was not read stays in the stream.                 *)
RecvPayload ==
    /\ cpc = "recv_payload"
    /\ cpc' = "idle"
    /\ \/ /\ Len(s2c) >= cmsg.length
          /\ s2c' = Rest(s2c, cmsg.length)
          /\ recvd' = Append(recvd, Assembled(cmsg, First(s2c, cmsg.length)))
          /\ UNCHANGED lapses
       \/ /\ \E k \in 0..Shortest(cmsg.length - 1, Len(s2c)) :
                s2c' = Rest(s2c, k)
          /\ lapses' = lapses \cup {"rx: payload cut"}
          /\ UNCHANGED recvd
    /\ UNCHANGED <<sock, nonblock, cmsg, server, c2s, txHist, responded>>

(* The client: arm_ds_close, on behalf of any context                       *)
Close ==
    /\ cpc = "idle" /\ sock = "open"
    /\ sock' = "none" /\ nonblock' = FALSE
    /\ UNCHANGED <<cpc, cmsg, server, c2s, s2c, txHist, rxHist, lapses>>

-----------------------------------------------------------------------------
(* The server                                                               *)

Start ==
    /\ spc = "down" /\ runs < MaxRuns
    /\ spc' = "listen" /\ runs' = runs + 1
    /\ UNCHANGED <<client, smsg, c2s, s2c, txHist, rxHist, lapses>>

(* main returns: the client's unread bytes are gone, the answers are not.   *)
Exit == /\ spc' = "down"
        /\ c2s' = << >>
        /\ UNCHANGED <<client, smsg, runs, s2c, txHist, rxHist, lapses>>

ClientGone == sock = "none"

(* A device ID that comes in part, or not at all, ends the server.          *)
Ident ==
    /\ spc = "ident"
    /\ \/ /\ c2s # << >>
          /\ spc' = "header"
          /\ c2s' = Tail(c2s)
          /\ UNCHANGED <<client, smsg, runs, s2c, txHist, rxHist, lapses>>
       \/ (c2s # << >> \/ ClientGone) /\ Exit

(* Mutant: a TLP without a payload is not forwarded.                        *)
ReadHeaderMutant ==
    /\ spc = "header"
    /\ \/ /\ Len(c2s) >= HeaderUnits
          /\ c2s' = Rest(c2s, HeaderUnits)
          /\ \E m \in Readings(First(c2s, HeaderUnits), offered) :
               /\ smsg' = m
               /\ spc' = IF m.length > 0 THEN "payload" ELSE "header"
          /\ UNCHANGED <<client, runs, s2c, txHist, rxHist, lapses>>
       \/ ClientGone /\ Exit

(* A header read in part is dropped and the next bytes are taken for a      *)
(* header.  The end of the stream, or its reset, ends the server.           *)
ReadHeader ==
    /\ spc = "header"
    /\ \/ /\ Len(c2s) >= HeaderUnits
          /\ c2s' = Rest(c2s, HeaderUnits)
          /\ \E m \in Readings(First(c2s, HeaderUnits), offered) :
               /\ smsg' = m
               /\ spc' = IF m.length > 0 THEN "payload" ELSE "forward"
          /\ UNCHANGED <<client, runs, s2c, txHist, rxHist, lapses>>
       \/ /\ \E k \in 1..Shortest(HeaderUnits - 1, Len(c2s)) : c2s' = Rest(c2s, k)
          /\ lapses' = lapses \cup {"tx: header cut"}
          /\ UNCHANGED <<client, server, s2c, txHist, rxHist>>
       \/ ClientGone /\ Exit

(* Mutant: no MSG_WAITALL, and what came is the payload.                    *)
ReadPayloadMutant ==
    /\ spc = "payload"
    /\ \E k \in 0..Shortest(smsg.length, Len(c2s)) :
         /\ c2s' = Rest(c2s, k)
         /\ smsg' = [smsg EXCEPT !.msg = Assembled(smsg, First(c2s, k))]
    /\ spc' = "forward"
    /\ UNCHANGED <<client, runs, s2c, txHist, rxHist, lapses>>

(* MSG_WAITALL without a time limit.  A stream that ends here is noticed by *)
(* the next read of a header.                                               *)
ReadPayload ==
    /\ spc = "payload"
    /\ \/ /\ Len(c2s) >= smsg.length
          /\ c2s' = Rest(c2s, smsg.length)
          /\ smsg' = [smsg EXCEPT !.msg = Assembled(smsg, First(c2s, smsg.length))]
          /\ spc' = "forward"
          /\ UNCHANGED <<client, runs, s2c, txHist, rxHist, lapses>>
       \/ /\ ClientGone /\ Len(c2s) < smsg.length
          /\ c2s' = << >>
          /\ spc' = "header"
          /\ UNCHANGED <<client, smsg, runs, s2c, txHist, rxHist, lapses>>
       \/ Exit                                         \* no memory

(* arm_ds_send_tlp, a placeholder that always succeeds.                     *)
Forward ==
    /\ spc = "forward"
    /\ fpga' = Append(fpga, smsg.msg)
    /\ spc' = "poll"
    /\ UNCHANGED <<client, smsg, runs, c2s, s2c, offered, rxHist, lapses>>

(* arm_ds_receive_tlp has an answer or, as shipped, none.  One is looked    *)
(* for after every TLP forwarded, and never otherwise.                      *)
Poll ==
    /\ spc = "poll"
    /\ \/ spc' = "header"
       \/ spc' = "respond_header" /\ Len(responded) < MaxResponses
    /\ UNCHANGED <<client, smsg, runs, c2s, s2c, txHist, rxHist, lapses>>

(* The server's sends have no time limit: they wait for room, or for the    *)
(* client to go.                                                            *)
RespondHeader(t) ==
    /\ spc = "respond_header"
    /\ \/ /\ Room(s2c) >= HeaderUnits
          /\ LET n == Len(responded) + 1 IN
             /\ s2c' = s2c \o Header(n)
             /\ smsg' = [msg |-> n, length |-> t.length]
          /\ responded' = Append(responded, t)
          /\ IF t.length > 0 /\ t.data
               THEN spc' = "respond_payload" /\ UNCHANGED lapses
               ELSE /\ spc' = "header"
                    /\ lapses' = IF t.length > 0
                                   THEN lapses \cup {"rx: payload not sent"}
                                   ELSE lapses
          /\ UNCHANGED <<client, runs, c2s, txHist, recvd>>
       \/ ClientGone /\ Exit

RespondPayload ==
    /\ spc = "respond_payload"
    /\ \/ /\ Room(s2c) >= smsg.length
          /\ s2c' = s2c \o Payload(smsg.msg, smsg.length)
          /\ spc' = "header"
          /\ UNCHANGED <<client, smsg, runs, c2s, txHist, rxHist, lapses>>
       \/ ClientGone /\ Exit

-----------------------------------------------------------------------------
ClientStep == (\E t \in Tlps : SendHeader(t)) \/ SendNoMore \/ SendPayload
              \/ RecvHeader \/ RecvPayload

ServerStep == Ident \/ ReadHeader \/ ReadPayload \/ Forward \/ Poll
              \/ (\E t \in Tlps : RespondHeader(t)) \/ RespondPayload

Next == \/ CallSend \/ CallRecv \/ ClientStep \/ Close
        \/ Start \/ ServerStep

Spec == Init /\ [][Next]_vars

(* The kernel returns from every send and recv of the client that can       *)
(* return, and SO_RCVTIMEO and SO_SNDTIMEO expire; the server runs. Nothing *)
(* is assumed of the application's calls.                                   *)
FairSpec == Spec /\ WF_vars(ClientStep) /\ WF_vars(ServerStep)

-----------------------------------------------------------------------------
(* Properties                                                               *)

Unit == [msg : Nat, part : {"id", "header", "payload"}, k : Nat]
Message == [msg : Nat, length : 0..MaxLength]

Types ==
    /\ sock \in {"none", "open"} /\ nonblock \in BOOLEAN
    /\ cpc \in {"idle", "send_header", "send_payload", "recv_header",
                "recv_payload", "killed"}
    /\ spc \in {"down", "listen", "ident", "header", "payload", "forward",
                "poll", "respond_header", "respond_payload"}
    /\ cmsg \in Message /\ smsg \in Message /\ runs \in 0..MaxRuns
    /\ c2s \in Seq(Unit) /\ Len(c2s) <= BufferSize
    /\ s2c \in Seq(Unit) /\ Len(s2c) <= BufferSize
    /\ offered \in Seq(Tlps) /\ responded \in Seq(Tlps)
    /\ fpga \in Seq(Nat) /\ recvd \in Seq(Nat)

(* The variables have their types, and a call that has not returned has the *)
(* socket it works on: none goes on with a descriptor it has closed.        *)
TypeOK == Types /\ (cpc \notin {"idle", "killed"} => sock = "open")

TxLapses == {"tx: payload not sent", "tx: header cut", "tx: payload cut"}
RxLapses == {"rx: payload not sent", "rx: header cut", "rx: payload cut"}

(* The TLPs of one direction come out as they went in: none lost, none      *)
(* twice, none out of order, none that was not sent.                        *)
InStep(out, in) == Len(out) <= Len(in) /\ \A k \in 1..Len(out) : out[k] = k

(* Toward the FPGA, framing is lost in three ways only: a payload that the  *)
(* header announced and arm_ds_send does not have, a header or a payload    *)
(* that a full socket cut, and a header that the server read in part.  None *)
(* of the other interleavings of the two programs, nor a disconnection,     *)
(* disturbs the order or the contents of what the FPGA sees.                *)
TxFraming == lapses \cap TxLapses = {} => InStep(fpga, offered)

(* Toward the application the same: an answer announced with a payload that *)
(* does not come, a header that arm_ds_recv found in part, and a payload    *)
(* that it gave up waiting for.                                             *)
RxFraming == lapses \cap RxLapses = {} => InStep(recvd, responded)

(* Every call of the application returns, even when the server announces a  *)
(* payload and does not send it, and when server and client stand in the    *)
(* sends of two full sockets, each waiting for the other to read: this is   *)
(* what the timeouts are set for (backend_armds.c:50-55).                   *)
CallsReturn == (cpc # "idle") ~> (cpc \in {"idle", "killed"})

(* A TLP offered on a connection that keeps its framing reaches the FPGA,   *)
(* unless the server ends, or stands still for good because the application *)
(* leaves the answers unread until the socket is full.                      *)
Backlogged == \/ spc = "respond_header" /\ Room(s2c) < HeaderUnits
              \/ spc = "respond_payload" /\ Room(s2c) < smsg.length
Delivered ==
    \A n \in 1..MaxOffered :
        Len(offered) = n ~> \/ Len(fpga) >= n
                            \/ lapses # {}
                            \/ ~ServerAttached
                            \/ []Backlogged

(* Between calls the socket blocks: arm_ds_recv makes it non-blocking "for  *)
(* receive check" (backend_armds.c:106) and promises to "Restore blocking   *)
(* mode" (line 130).                                                        *)
BlockingRestored == cpc = "idle" /\ sock = "open" => ~nonblock

(* As long as every header and every payload that is sent arrives whole,    *)
(* the FPGA is handed only TLPs that libpcapcie sent: the bridge takes      *)
(* "payload data if present" (armds_bridge_server.c:170), as arm_ds_send    *)
(* sends it (backend_armds.c:91).                                           *)
OnlySentTlps == lapses \subseteq {"tx: payload not sent"} =>
                    \A k \in 1..Len(fpga) : fpga[k] # Garbled
=============================================================================
