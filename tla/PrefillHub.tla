----------------------------- MODULE PrefillHub -----------------------------
(***************************************************************************)
(* PrefillWSHub (prefill_ws.go): the clients of /prefill-ws, each with a   *)
(* buffered channel, a readPump that detects the end of the connection and *)
(* a writePump.  A client's channel is never closed; a second channel,     *)
(* done, tells the writePump to stop.                                      *)
(***************************************************************************)
EXTENDS Naturals, Sequences

CONSTANTS Client,   \* the connections to /prefill-ws
          Message,  \* what is broadcast
          SendCap   \* the capacity of a client's channel (64 in the code)

ASSUME HubAssumption == SendCap \in Nat \ {0}

VARIABLES
  clients,  \* the registered clients
  send,     \* send[c]: the buffer of c's channel
  conn,     \* conn[c]: "none", "up", "gone" (the peer left), "closed" (by us)
  reader,   \* reader[c]: the readPump
  writer,   \* writer[c]: the writePump
  lagged    \* history: lagged[c] when a message was dropped for c

hubVars == <<clients, send, conn, reader, writer, lagged>>

HubInit ==
  /\ clients = {}
  /\ send = [c \in Client |-> <<>>]
  /\ conn = [c \in Client |-> "none"]
  /\ reader = [c \in Client |-> "none"]
  /\ writer = [c \in Client |-> "none"]
  /\ lagged = [c \in Client |-> FALSE]

\* HandlePrefillWS: upgrade, register, start both pumps.
Connect(c) ==
  /\ conn[c] = "none"
  /\ conn' = [conn EXCEPT ![c] = "up"]
  /\ clients' = clients \union {c}
  /\ reader' = [reader EXCEPT ![c] = "reading"]
  /\ writer' = [writer EXCEPT ![c] = "running"]
  /\ UNCHANGED <<send, lagged>>

\* Mutant: the buffer is taken for unbounded.
MutantHasRoom == clients

\* The registered clients whose channel has room.
HasRoom == {c \in clients : Len(send[c]) < SendCap}

\* Mutant: a client whose channel is full holds up the broadcast.
MutantBroadcast(m) ==
  /\ HasRoom = clients
  /\ send' = [c \in Client |-> IF c \in clients THEN Append(send[c], m) ELSE send[c]]
  /\ UNCHANGED <<clients, conn, reader, writer, lagged>>

\* broadcastJSON, under hub.mu: no registered client is waited for.
Broadcast(m) ==
  /\ send' = [c \in Client |-> IF c \in HasRoom THEN Append(send[c], m) ELSE send[c]]
  /\ lagged' = [c \in Client |-> lagged[c] \/ c \in clients \ HasRoom]
  /\ UNCHANGED <<clients, conn, reader, writer>>

\* readPump: ReadMessage fails, its deferred function unregisters the client,
Unregister(c) ==
  /\ reader[c] = "reading" /\ conn[c] = "gone"
  /\ clients' = clients \ {c}
  /\ reader' = [reader EXCEPT ![c] = "unregistered"]
  /\ UNCHANGED <<send, conn, writer, lagged>>

\* closes done, and closes the connection.
SignalDone(c) ==
  /\ reader[c] = "unregistered"
  /\ reader' = [reader EXCEPT ![c] = "signalled"]
  /\ UNCHANGED <<clients, send, conn, writer, lagged>>

CloseConn(c) ==
  /\ reader[c] = "signalled"
  /\ conn' = [conn EXCEPT ![c] = "closed"]
  /\ reader' = [reader EXCEPT ![c] = "ended"]
  /\ UNCHANGED <<clients, send, writer, lagged>>

\* writePump takes a message; on a connection that is gone or closed the write
\* may fail, which ends the pump.
WritePump(c) ==
  /\ writer[c] = "running" /\ send[c] # <<>>
  /\ send' = [send EXCEPT ![c] = Tail(@)]
  /\ \/ UNCHANGED writer
     \/ /\ conn[c] \in {"gone", "closed"}
        /\ writer' = [writer EXCEPT ![c] = "ended"]
  /\ UNCHANGED <<clients, conn, reader, lagged>>

\* Mutant: the pump does not watch done, only a failed write ends it.
MutantWriterDone(c) ==
  /\ writer[c] = "running" /\ reader[c] = "ended" /\ send[c] # <<>>
  /\ writer' = [writer EXCEPT ![c] = "ended"]
  /\ UNCHANGED <<clients, send, conn, reader, lagged>>

\* writePump sees done, whether or not messages are left.
WriterDone(c) ==
  /\ writer[c] = "running" /\ reader[c] \in {"signalled", "ended"}
  /\ writer' = [writer EXCEPT ![c] = "ended"]
  /\ UNCHANGED <<clients, send, conn, reader, lagged>>

PeerLeaves(c) ==
  /\ conn[c] = "up"
  /\ conn' = [conn EXCEPT ![c] = "gone"]
  /\ UNCHANGED <<clients, send, reader, writer, lagged>>

ReaderStep(c) == Unregister(c) \/ SignalDone(c) \/ CloseConn(c)

HubStep == \E c \in Client :
  Connect(c) \/ ReaderStep(c) \/ WritePump(c) \/ WriterDone(c) \/ PeerLeaves(c)

\* The reader of a connection that is gone fails in the end and goes through
\* its deferred function; a writePump with done closed returns, as a write on
\* the closed connection does not block and a select with several ready cases
\* does not starve one for ever.  A live peer need not read, nor leave.
HubFairness ==
  \A c \in Client : WF_hubVars(ReaderStep(c)) /\ WF_hubVars(WriterDone(c))

-----------------------------------------------------------------------------
HubTypeOK ==
  /\ clients \subseteq Client
  /\ send \in [Client -> Seq(Message)]
  /\ \A c \in Client : Len(send[c]) <= SendCap
  /\ conn \in [Client -> {"none", "up", "gone", "closed"}]
  /\ reader \in [Client -> {"none", "reading", "unregistered", "signalled", "ended"}]
  /\ writer \in [Client -> {"none", "running", "ended"}]
  /\ lagged \in [Client -> BOOLEAN]

\* A client that is gone is unregistered and both its goroutines return.
\* (readPump, writePump)
GoneIsReleased ==
  \A c \in Client :
    conn[c] = "gone" ~> c \notin clients /\ reader[c] = "ended" /\ writer[c] = "ended"
=============================================================================
