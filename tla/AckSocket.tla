----------------------------- MODULE AckSocket -----------------------------
(***************************************************************************)
(* The TCP socket on which a DKMS hears which of its keys a peer stored    *)
(* (dkms/src/control/ack_socket.rs).  A client opens a connection, writes  *)
(* lines and shuts it down; the server gives every connection a task and   *)
(* one of a bounded number of permits, reads bounded lines and applies the *)
(* ones it can.  What on_ack does with a key id is in TransportKeys.       *)
(*                                                                         *)
(* A client may stop at any byte: its write times out, or it goes silent.  *)
(* A line is abstracted to what handle_conn makes of it.                   *)
(***************************************************************************)
EXTENDS Naturals, Sequences, FiniteSets

CONSTANTS
    Conn,      \* the connections, one per batch
    MaxConns,  \* MAX_ACK_CONNS
    MaxLines   \* bound: lines of one connection

\* "skip": empty, not JSON, or from a peer the registry does not have.
Line == {"ack", "skip", "long"}

VARIABLES
    client,    \* Conn -> "new", "open", "silent" or "shut"
    wire,      \* Conn -> lines written and not read, "cut" for one without its end
    wrote,     \* Conn -> lines written in full
    server,    \* Conn -> "none", "reading" or "closed"
    permits,   \* permits left
    applied    \* Conn -> batches given to on_ack
ackVars == <<client, wire, wrote, server, permits, applied>>

Init ==
    /\ client = [c \in Conn |-> "new"]
    /\ wire = [c \in Conn |-> <<>>]
    /\ wrote = [c \in Conn |-> <<>>]
    /\ server = [c \in Conn |-> "none"]
    /\ permits = MaxConns
    /\ applied = [c \in Conn |-> 0]

----------------------------------------------------------------------------
(* The client.                                                             *)

\* The connection is made; at the limit the server closes it at once.
Connect(c) ==
    /\ client[c] = "new"
    /\ client' = [client EXCEPT ![c] = "open"]
    /\ IF permits > 0
       THEN server' = [server EXCEPT ![c] = "reading"] /\ permits' = permits - 1
       ELSE server' = [server EXCEPT ![c] = "closed"] /\ UNCHANGED permits
    /\ UNCHANGED <<wire, wrote, applied>>

Write(c, l) ==
    /\ client[c] = "open" /\ Len(wrote[c]) < MaxLines
    /\ wire' = [wire EXCEPT ![c] = Append(@, l)]
    /\ wrote' = [wrote EXCEPT ![c] = Append(@, l)]
    /\ UNCHANGED <<client, server, permits, applied>>

\* write_all times out in the middle of a line and the stream is dropped.
WriteTimesOut(c) ==
    /\ client[c] = "open"
    /\ wire' = [wire EXCEPT ![c] = Append(@, "cut")]
    /\ client' = [client EXCEPT ![c] = "shut"]
    /\ UNCHANGED <<wrote, server, permits, applied>>

Shutdown(c) ==
    /\ client[c] = "open"
    /\ client' = [client EXCEPT ![c] = "shut"]
    /\ UNCHANGED <<wire, wrote, server, permits, applied>>

\* The host of the client goes without a word.
Vanish(c) ==
    /\ client[c] = "open"
    /\ client' = [client EXCEPT ![c] = "silent"]
    /\ UNCHANGED <<wire, wrote, server, permits, applied>>

----------------------------------------------------------------------------
(* The server.                                                             *)

Close(c) ==
    /\ server' = [server EXCEPT ![c] = "closed"]
    /\ permits' = permits + 1

\* read_bounded_line: a line without its end by the limit or by EOF is none.
ReadBoundedLine(c) == Head(wire[c]) \notin {"long", "cut"}

Processable(l) == l = "ack"

\* One turn of handle_conn's loop.
HandleLine(c) ==
    /\ server[c] = "reading" /\ wire[c] # <<>>
    /\ wire' = [wire EXCEPT ![c] = Tail(@)]
    /\ IF ReadBoundedLine(c)
       THEN /\ applied' = [applied EXCEPT ![c] =
                            IF Processable(Head(wire[c])) THEN @ + 1 ELSE @]
            /\ UNCHANGED <<server, permits>>
       ELSE Close(c) /\ UNCHANGED applied
    /\ UNCHANGED <<client, wrote>>

Eof(c) ==
    /\ server[c] = "reading" /\ wire[c] = <<>> /\ client[c] = "shut"
    /\ Close(c)
    /\ UNCHANGED <<client, wire, wrote, applied>>

\* ACK_IDLE_TIMEOUT passes without a line.
IdleTimeout(c) ==
    /\ server[c] = "reading" /\ wire[c] = <<>> /\ client[c] # "shut"
    /\ Close(c)
    /\ UNCHANGED <<client, wire, wrote, applied>>

Next ==
    \E c \in Conn :
      \/ Connect(c) \/ WriteTimesOut(c) \/ Shutdown(c) \/ Vanish(c)
      \/ \E l \in Line : Write(c, l)
      \/ HandleLine(c) \/ Eof(c) \/ IdleTimeout(c)

Spec == Init /\ [][Next]_ackVars

\* The tasks of the server run; nothing is asked of the clients.
FairSpec == Spec /\ \A c \in Conn : WF_ackVars(HandleLine(c) \/ Eof(c) \/ IdleTimeout(c))

----------------------------------------------------------------------------
(* Everything has its type, and a permit is held per connection.           *)
TypeOK ==
    /\ client \in [Conn -> {"new", "open", "silent", "shut"}]
    /\ server \in [Conn -> {"none", "reading", "closed"}]
    /\ permits = MaxConns - Cardinality({c \in Conn : server[c] = "reading"})
    /\ \A c \in Conn : Len(wrote[c]) <= MaxLines

(* A batch is applied in full or not at all: what on_ack saw of a          *)
(* connection are acknowledgements its client finished writing, before     *)
(* the first line that was too long, and all of them if it was read to the *)
(* end.                                                                    *)
Upto(c) == IF \E i \in 1..Len(wrote[c]) : wrote[c][i] = "long"
           THEN CHOOSE i \in 1..Len(wrote[c]) :
                  wrote[c][i] = "long" /\ \A j \in 1..i - 1 : wrote[c][j] # "long"
           ELSE Len(wrote[c])
Acks(c) == Cardinality({i \in 1..Upto(c) : wrote[c][i] = "ack"})
WholeBatches ==
    \A c \in Conn :
      /\ applied[c] <= Acks(c)
      /\ server[c] = "reading" /\ wire[c] = <<>> => applied[c] = Acks(c)

(* Every permit comes back, whatever the clients do: a connection that     *)
(* went silent does not keep the acknowledgements of the others out.       *)
PermitsReturn == <>[](permits = MaxConns)
============================================================================
