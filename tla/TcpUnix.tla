------------------------------ MODULE TcpUnix ------------------------------
(***************************************************************************)
(* The TCP socket of a client, TcpUnix.cpp, with the stream in each        *)
(* direction and what the network may do to it.                            *)
(*                                                                         *)
(* mSocket is "none" when the optional mClient holds no socket.  A socket  *)
(* is "connecting" until the handshake ends, then "up"; "fin" once the     *)
(* peer closed its side in order; "err" when the connection was refused or *)
(* reset and the error is still pending in SO_ERROR; "hup" once a call     *)
(* has taken that pending error.                                           *)
(*                                                                         *)
(* The operators Tcp... are the calls the client makes.  Each is a         *)
(* conjunct of a client action and constrains every variable of tcpVars.   *)
(***************************************************************************)
EXTENDS Packets

CONSTANTS
    KeepAlive,  \* mKeepAliveIntervalSeconds
    Faults,     \* the faults the environment may inject
    MaxFaults   \* bound: how many of them in one behaviour

ASSUME TcpAssumption ==
    /\ KeepAlive \in Nat
    /\ MaxFaults \in Nat
    /\ Faults \subseteq {"unreachable", "refused", "fin", "reset",
                         "connack", "badReply", "suback", "callback"}

VARIABLES
    mSocket,    \* state of the socket, or "none"
    again,      \* errno holds EAGAIN/EWOULDBLOCK
    sinceSend,  \* getSecondsSinceLastSend(), capped at MaxIdle
    inbox,      \* packets on their way to the client: arrived reads, done reads
    outbox,     \* packets completely written that the broker has not taken
    cut,        \* the packet a prefix of which is written, or NoPacket
    session,    \* the broker accepted a CONNECT on this connection
    faults      \* faults injected so far

tcpVars == <<mSocket, again, sinceSend, inbox, outbox, cut, session, faults>>

SocketStates == {"none", "connecting", "up", "fin", "err", "hup"}

\* bound on sinceSend: past the keep alive interval all values act alike
MaxIdle == KeepAlive + 1

\* A packet in the inbox: how many of its reads have arrived, how many are done.
InFlight == {e \in [pkt : Packet, got : 1 .. 3, read : 0 .. 2] :
                e.got <= Reads(e.pkt)}

TcpTypeOK ==
    /\ mSocket \in SocketStates
    /\ again \in BOOLEAN
    /\ sinceSend \in 0 .. MaxIdle
    /\ inbox \in Seq(InFlight)
    /\ outbox \in Seq(Outgoing)
    /\ cut \in Outgoing
    /\ session \in BOOLEAN
    /\ faults \in 0 .. MaxFaults

TcpInit ==
    /\ mSocket = "none"
    /\ again = FALSE
    /\ sinceSend = 0
    /\ inbox = <<>>
    /\ outbox = <<>>
    /\ cut = NoPacket
    /\ session = FALSE
    /\ faults = 0

Inject(fault) ==
    /\ fault \in Faults
    /\ faults < MaxFaults
    /\ faults' = faults + 1

-----------------------------------------------------------------------------
(* The calls of the client. *)

\* TcpUnix::TcpUnix: connect() runs into SO_SNDTIMEO and leaves EINPROGRESS, or
\* succeeds and leaves errno alone.  Whatever the old connection had in flight
\* is no longer taken.
TcpOpen ==
    /\ mSocket' = "connecting"
    /\ again' \in {FALSE, again}
    /\ sinceSend' = 0
    /\ inbox' = <<>>
    /\ outbox' = <<>>
    /\ cut' = NoPacket
    /\ session' = FALSE
    /\ UNCHANGED faults

\* close() with unread bytes may reset the connection and drop what was written.
LeftOver(written) == {written} \cup IF inbox = <<>> THEN {} ELSE {<<>>}

\* TcpUnix::~TcpUnix
TcpClose ==
    /\ mSocket' = "none"
    /\ inbox' = <<>>
    /\ outbox' \in LeftOver(outbox)
    /\ cut' = NoPacket
    /\ UNCHANGED <<again, sinceSend, session, faults>>

\* The constructor throws; mClient.emplace has destroyed the old socket.  A failed
\* gethostbyname() has set h_errno, not errno.
TcpOpenThrows ==
    /\ mSocket' = "none"
    /\ again' \in {FALSE, again}
    /\ inbox' = <<>>
    /\ outbox' \in LeftOver(outbox)
    /\ cut' = NoPacket
    /\ Inject("unreachable")
    /\ UNCHANGED <<sinceSend, session>>

\* getConnectState() reads and clears SO_ERROR.  The kernel reports no error
\* while the handshake runs, which the code takes for CONNECTED.
ConnectState ==
    CASE mSocket = "err"        -> {"CANT_CONNECT"}
      [] mSocket = "connecting" -> {"IN_PROGRESS", "CONNECTED"}
      [] OTHER                  -> {"CONNECTED"}

TcpTakeError ==
    /\ mSocket' = IF mSocket = "err" THEN "hup" ELSE mSocket
    /\ UNCHANGED <<again, sinceSend, inbox, outbox, cut, session, faults>>

\* After the peer's FIN what is written goes nowhere.
Written(p) == IF mSocket = "up" THEN Append(outbox, p) ELSE outbox

\* send() took every byte.
TcpSendAll(p) ==
    /\ mSocket \in {"up", "fin"}
    /\ outbox' = Written(p)
    /\ cut' = NoPacket
    /\ sinceSend' = 0
    /\ UNCHANGED <<mSocket, again, inbox, session, faults>>

\* send() took every byte of the last packet, and the socket is closed.
TcpSendAllAndClose(p) ==
    /\ mSocket \in {"up", "fin"}
    /\ mSocket' = "none"
    /\ inbox' = <<>>
    /\ outbox' \in LeftOver(Written(p))
    /\ cut' = NoPacket
    /\ sinceSend' = 0
    /\ UNCHANGED <<again, session, faults>>

\* send() took some of the bytes.
TcpSendPart(p) ==
    /\ mSocket \in {"up", "fin"}
    /\ cut' = p
    /\ sinceSend' = 0
    /\ UNCHANGED <<mSocket, again, inbox, outbox, session, faults>>

\* send() gave EAGAIN: no byte went out, yet mLastPacketSendTime is set.
TcpSendNone ==
    /\ mSocket \in {"connecting", "up", "fin"}
    /\ again' = TRUE
    /\ sinceSend' = 0
    /\ UNCHANGED <<mSocket, inbox, outbox, cut, session, faults>>

TcpSendThrows ==
    /\ mSocket \in {"err", "hup"}
    /\ mSocket' = "hup"
    /\ again' = FALSE
    /\ UNCHANGED <<sinceSend, inbox, outbox, cut, session, faults>>

\* FIONREAD > 0
isDataAvailable ==
    /\ mSocket # "none"
    /\ inbox # <<>>
    /\ Head(inbox).got > Head(inbox).read

\* poll() for POLLIN: an error or a hang-up throws, and the end of the stream
\* wakes it as data does.
blockUntilDataAvailable ==
    CASE mSocket \in {"err", "hup"}           -> "throws"
      [] isDataAvailable \/ mSocket = "fin"   -> "DATA_AVAILABLE"
      [] OTHER                                -> "TIMEOUT"

\* recv() returned bytes: one more read of the packet at the head is done
TcpRecv ==
    /\ isDataAvailable
    /\ inbox' = IF Head(inbox).read + 1 = Reads(Head(inbox).pkt)
                THEN Tail(inbox)
                ELSE [inbox EXCEPT ![1].read = @ + 1]
    /\ UNCHANGED <<mSocket, again, sinceSend, outbox, cut, session, faults>>

\* TcpUnix::recv takes a result of 0 or less for "no data yet" whenever errno
\* is EAGAIN.  At end of file recv() returns 0 and leaves errno as it was.
EofIsTakenForEagain == again

TcpRecvNone ==
    /\ mSocket # "none"
    /\ ~isDataAvailable
    /\ \/ mSocket \in {"connecting", "up"} /\ again' = TRUE
       \/ mSocket \in {"fin", "hup"} /\ EofIsTakenForEagain /\ UNCHANGED again
    /\ UNCHANGED <<mSocket, sinceSend, inbox, outbox, cut, session, faults>>

TcpRecvThrows ==
    /\ ~isDataAvailable
    /\ \/ /\ mSocket \in {"fin", "hup"}
          /\ ~EofIsTakenForEagain
          /\ UNCHANGED <<mSocket, again>>
       \/ /\ mSocket = "err"
          /\ mSocket' = "hup"
          /\ again' = FALSE
    /\ UNCHANGED <<sinceSend, inbox, outbox, cut, session, faults>>

-----------------------------------------------------------------------------
(* What the network and the clock do. *)

Establish ==
    /\ mSocket = "connecting"
    /\ mSocket' = "up"
    /\ UNCHANGED <<again, sinceSend, inbox, outbox, cut, session, faults>>

Refuse ==
    /\ mSocket = "connecting"
    /\ Inject("refused")
    /\ mSocket' = "err"
    /\ UNCHANGED <<again, sinceSend, inbox, outbox, cut, session>>

\* The peer closes in order; it takes nothing more from the client.
PeerCloses ==
    /\ mSocket = "up"
    /\ Inject("fin")
    /\ mSocket' = "fin"
    /\ outbox' = <<>>
    /\ UNCHANGED <<again, sinceSend, inbox, cut, session>>

\* The connection is reset; after a FIN that is the peer's answer to bytes it
\* does not take, not one more fault.  Bytes that had arrived stay readable.
Reset ==
    /\ \/ mSocket = "up" /\ Inject("reset")
       \/ mSocket = "fin" /\ UNCHANGED faults
    /\ mSocket' = "err"
    /\ outbox' = <<>>
    /\ UNCHANGED <<again, sinceSend, inbox, cut, session>>

\* The rest of a packet that had arrived in part.
Arrive ==
    /\ mSocket = "up"
    /\ inbox # <<>>
    /\ LET n == Len(inbox) IN
         /\ inbox[n].got < Reads(inbox[n].pkt)
         /\ inbox' = [inbox EXCEPT ![n].got = Reads(inbox[n].pkt)]
    /\ UNCHANGED <<mSocket, again, sinceSend, outbox, cut, session, faults>>

\* A second passes.
Tick ==
    /\ mSocket # "none"
    /\ sinceSend < MaxIdle
    /\ sinceSend' = sinceSend + 1
    /\ UNCHANGED <<mSocket, again, inbox, outbox, cut, session, faults>>

Network == Establish \/ Refuse \/ PeerCloses \/ Reset \/ Arrive \/ Tick

=============================================================================
