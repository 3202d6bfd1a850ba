---------------------------- MODULE XgigBackend -----------------------------
(***************************************************************************)
(* backend_xgig.c: TLPs serialised onto a TCP connection that all contexts *)
(* of the process share.  The header's 16 bytes carry every field at its   *)
(* width, so a piece of the stream is known by its TLP; the endpoint takes *)
(* a header, then as many bytes as it announces, and so on.  What a kernel *)
(* still takes after the endpoint has gone reaches nobody and is left out. *)
(***************************************************************************)
EXTENDS Naturals, Sequences

CONSTANTS
    XgigContext,   \* contexts of the process, open and closed
    Length,        \* lengths that a TLP announces
    MaxSends       \* bound: TLPs

ASSUME LengthAssumption == Length \subseteq Nat

VARIABLES
    xgigContexts, \* the open ones
    sock,        \* xgig_sock >= 0
    peer,        \* the endpoint still has its end of the connection
    stream,      \* pieces sent on this connection
    clean,       \* History: no send on this connection has failed with
                 \* something of its TLP put out
    dead,        \* SIGPIPE has ended the process
    sends        \* History: TLPs so far, which numbers them

xgigVars == <<xgigContexts, sock, peer, stream, clean, dead, sends>>

XgigInit == /\ xgigContexts = {} /\ sock = FALSE /\ peer = FALSE /\ stream = <<>>
            /\ clean = TRUE /\ dead = FALSE /\ sends = 0

Header(t, n, whole)  == [tlp |-> t, part |-> "header", length |-> n,
                         whole |-> whole]
Payload(t, n, whole) == [tlp |-> t, part |-> "payload", length |-> n,
                         whole |-> whole]

pcie_open(c) ==
    /\ ~dead /\ c \notin xgigContexts
    /\ xgigContexts' = xgigContexts \cup {c}
    /\ UNCHANGED <<sock, peer, stream, clean, dead, sends>>

(* xgig_close, whichever context it is for.                                 *)
pcie_close(c) ==
    /\ ~dead /\ c \in xgigContexts
    /\ xgigContexts' = xgigContexts \ {c}
    /\ sock' = FALSE /\ peer' = FALSE
    /\ UNCHANGED <<stream, clean, dead, sends>>

(* xgig_connect, which fails without a trace or begins a new connection.    *)
xgig_connect ==
    /\ ~dead /\ xgigContexts # {} /\ ~sock
    /\ sock' = TRUE /\ peer' = TRUE
    /\ stream' = <<>> /\ clean' = TRUE
    /\ UNCHANGED <<xgigContexts, dead, sends>>

(* The outcomes of xgig_send for TLP t with length n.  send() may put out a *)
(* part, or nothing; the payload may be missing.                            *)
Complete(t, n) == IF n = 0 THEN <<Header(t, n, TRUE)>>
                  ELSE <<Header(t, n, TRUE), Payload(t, n, TRUE)>>

HeaderCut(t, n)  == {<<>>, <<Header(t, n, FALSE)>>}
PayloadCut(t, n) == IF n = 0 THEN {}
                    ELSE {<<Header(t, n, TRUE)>>,
                          <<Header(t, n, TRUE), Payload(t, n, FALSE)>>}

Accept(t, n) == /\ stream' = stream \o Complete(t, n)
                /\ UNCHANGED clean

(* Mutant: a payload that went out in part is taken for sent.               *)
RefuseMutant(t, n) ==
    \E out \in HeaderCut(t, n) \cup PayloadCut(t, n) :
        /\ stream' = stream \o out
        /\ clean' = (clean /\ (out = <<>> \/ out \in PayloadCut(t, n)))

Refuse(t, n) == \E out \in HeaderCut(t, n) \cup PayloadCut(t, n) :
                    /\ stream' = stream \o out
                    /\ clean' = (clean /\ out = <<>>)

xgig_send ==
    /\ ~dead /\ xgigContexts # {} /\ sock /\ sends < MaxSends
    /\ sends' = sends + 1
    /\ \E n \in Length :
          \/ peer /\ Accept(sends, n)
          \/ Refuse(sends, n)
    /\ UNCHANGED <<xgigContexts, sock, peer, dead>>

(* The endpoint goes; a send on what is left of the connection may be an    *)
(* error (Refuse) or the end of the process.  Only pcie_close gives up the  *)
(* socket.                                                                  *)
PeerGoes == /\ peer /\ peer' = FALSE
            /\ UNCHANGED <<xgigContexts, sock, stream, clean, dead, sends>>

Sigpipe == /\ ~dead /\ xgigContexts # {} /\ sock /\ ~peer
           /\ dead' = TRUE
           /\ UNCHANGED <<xgigContexts, sock, peer, stream, clean, sends>>

XgigNext == \/ \E c \in XgigContext : pcie_open(c) \/ pcie_close(c)
            \/ xgig_connect \/ xgig_send \/ PeerGoes \/ Sigpipe

XgigSpec == XgigInit /\ [][XgigNext]_xgigVars

-----------------------------------------------------------------------------
(* Properties                                                               *)

(* The endpoint reads a header, and behind it the payload it announces.     *)
StartsTlp(i) == stream[i].part = "header"
HasItsPayload(i) ==
    stream[i].length > 0 =>
        /\ i + 1 \in DOMAIN stream
        /\ stream[i + 1].part = "payload" /\ stream[i + 1].tlp = stream[i].tlp
InStep == \A i \in DOMAIN stream :
    /\ stream[i].whole
    /\ StartsTlp(i) => HasItsPayload(i)

(* As long as each send on a connection has succeeded or put nothing out,   *)
(* the endpoint is in step, whatever happened on the connections before.    *)
Framing == clean => InStep
=============================================================================
