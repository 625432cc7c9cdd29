-------------------------------- MODULE Ipc ---------------------------------
(***************************************************************************)
(* Queries over TCP: src/core/ipc.c on the event loop of core/poll.c and   *)
(* core/epoll.c.  A connection is a pair of byte streams.  The server,     *)
(* which has one thread, reads into a buffer of the size the current phase *)
(* of the connection asks for and calls the handler of the phase when the  *)
(* buffer is full; the client library blocks until the reply it waits for  *)
(* has arrived in full.  Both servers of the file are modelled: the one    *)
(* on ray_poll_t that the program runs and the older ray_ipc_server_t;     *)
(* they differ in how credentials are read and in the limit on             *)
(* connections.                                                            *)
(*                                                                         *)
(* The unit of the streams stands for some bytes: a handshake is two       *)
(* units, credentials one for the length and CredSize for the text, a      *)
(* message two for the header and PayloadSize for the payload.             *)
(***************************************************************************)
EXTENDS Naturals, Sequences, FiniteSets, SequencesExt

CONSTANTS
  Conn,          \* connections that may be made
  Poll, Legacy,  \* the two servers
  Secured,       \* the servers that were given a password
  CredSize,      \* units of a credential text
  PayloadSize,   \* units of a payload
  MaxConns,      \* RAY_IPC_MAX_CONNS, connections the older server holds
  MaxMsgs        \* bound: messages that are sent

Server == {Poll, Legacy}

ASSUME IpcAssumption ==
  /\ Poll # Legacy
  /\ Secured \subseteq Server
  /\ CredSize \in Nat \ {0} /\ PayloadSize \in Nat \ {0}
  /\ MaxConns \in Nat /\ MaxMsgs \in Nat

VARIABLES
  at,       \* where the client of each connection is
  server,   \* the server it talks to
  password, \* what it was given: right, wrong or none
  awaited,  \* the message whose result it waits for (0: none)
  reply,    \* header of the reply it is reading
  got,      \* history: requests that returned a result, with the one it belongs to
  up,       \* streams from clients to servers
  down,     \* streams from servers to clients
  peer,     \* the server's end of each connection
  phase,    \* ... and its phase
  need,     \* ... the size its buffer was asked for
  buf,      \* ... what has been read into it
  hdr,      \* ... and the header of the message being read
  sent,     \* history: messages sent on each connection
  run,      \* history: messages evaluated for each connection
  unsent,   \* history: messages whose result the server could not send
  msgs      \* messages sent so far, on all connections

client == <<at, server, password, awaited, reply, got, sent, msgs>>
conn == <<peer, phase, need, buf, hdr, run>>
vars == <<client, up, down, conn, unsent>>

-----------------------------------------------------------------------------
(* What is on the streams. *)

Unit(k, v) == [k |-> k, v |-> v]

Handshake == <<Unit("version", 0), Unit("flags", 0)>>
\* The length byte and the text; a wrong password differs in the last unit.
Credentials(pw) ==
  <<Unit("length", CredSize)>> \o
  [n \in 1 .. CredSize |-> Unit("text", IF pw = "right" \/ n < CredSize THEN 1 ELSE 0)]
Sync == 1
Async == 0
Resp == 2
\* msgtype is one of Sync, Async, Resp.
Message(id, msgtype) ==
  <<Unit("prefix", id), Unit("msgtype", msgtype)>> \o [n \in 1 .. PayloadSize |-> Unit("data", id)]

HeaderSize == 2

Init ==
  /\ at = [k \in Conn |-> "new"]
  /\ server = [k \in Conn |-> Poll]
  /\ password = [k \in Conn |-> "none"]
  /\ awaited = [k \in Conn |-> 0]
  /\ reply = [k \in Conn |-> <<>>]
  /\ got = {}
  /\ up = [k \in Conn |-> <<>>]
  /\ down = [k \in Conn |-> <<>>]
  /\ peer = [k \in Conn |-> "none"]
  /\ phase = [k \in Conn |-> "handshake"]
  /\ need = [k \in Conn |-> 0]
  /\ buf = [k \in Conn |-> <<>>]
  /\ hdr = [k \in Conn |-> <<>>]
  /\ sent = [k \in Conn |-> <<>>]
  /\ run = [k \in Conn |-> <<>>]
  /\ unsent = {}
  /\ msgs = 0

-----------------------------------------------------------------------------
(* The client library: blocking calls. *)

ClientOpen(k) == at[k] \notin {"new", "closed"}

\* recv_full: n units, or the end of the stream.
Arrived(k, n) == Len(down[k]) >= n
Ended(k, n) == ~Arrived(k, n) /\ peer[k] = "closed"

Move(k, place) == at' = [at EXCEPT ![k] = place]
Take(k, n) == down' = [down EXCEPT ![k] = SubSeq(@, n + 1, Len(@))]
CloseClient(k) == Move(k, "closed") /\ awaited' = [awaited EXCEPT ![k] = 0]

\* ray_ipc_connect up to the wait for the server's greeting.
Connect(k, s, pw) ==
  /\ at[k] = "new"
  /\ server' = [server EXCEPT ![k] = s]
  /\ password' = [password EXCEPT ![k] = pw]
  /\ peer' = [peer EXCEPT ![k] = "queued"]
  /\ up' = [up EXCEPT ![k] = Handshake]
  /\ Move(k, "greeting")
  /\ UNCHANGED <<awaited, reply, got, sent, msgs, down, phase, need, buf, hdr, run, unsent>>

\* The greeting says whether credentials are wanted.
Greeted(k) ==
  /\ at[k] = "greeting"
  /\ Arrived(k, 2)
  /\ Take(k, 2)
  /\ IF down[k][2].v = 0
       THEN Move(k, "ready") /\ UNCHANGED up
       ELSE IF password[k] = "none"
         THEN Move(k, "closed") /\ UNCHANGED up
         ELSE /\ up' = [up EXCEPT ![k] = @ \o Credentials(password[k])]
              /\ Move(k, "verdict")
  /\ UNCHANGED <<server, password, awaited, reply, got, sent, msgs, conn, unsent>>

Verdict(k) ==
  /\ at[k] = "verdict"
  /\ Arrived(k, 1)
  /\ Take(k, 1)
  /\ Move(k, IF down[k][1].v = 0 THEN "ready" ELSE "closed")
  /\ UNCHANGED <<server, password, awaited, reply, got, sent, msgs, up, conn, unsent>>

\* ray_ipc_send and ray_ipc_send_async: header and payload are sent.  When the
\* server has hung up the system may still take the bytes, or refuse them: then
\* the call fails and the handle stays as it is.
Send(k, msgtype) ==
  /\ at[k] = "ready"
  /\ msgs < MaxMsgs
  /\ msgs' = msgs + 1
  /\ IF peer[k] = "closed"
       THEN UNCHANGED <<up, sent>>
       ELSE /\ up' = [up EXCEPT ![k] = @ \o Message(msgs', msgtype)]
            /\ sent' = [sent EXCEPT ![k] = Append(@, msgs')]
  /\ \/ /\ msgtype = Sync
        /\ Move(k, "header")
        /\ awaited' = [awaited EXCEPT ![k] = msgs']
     \/ /\ msgtype = Async \/ peer[k] = "closed"
        /\ UNCHANGED <<at, awaited>>
  /\ UNCHANGED <<server, password, reply, got, down, conn, unsent>>

\* The header of the reply; one without the prefix closes the handle.
ReadReplyHeader(k) ==
  /\ at[k] = "header"
  /\ Arrived(k, HeaderSize)
  /\ Take(k, HeaderSize)
  /\ reply' = [reply EXCEPT ![k] = SubSeq(down[k], 1, HeaderSize)]
  /\ IF down[k][1].k = "prefix"
       THEN Move(k, "payload") /\ UNCHANGED awaited
       ELSE CloseClient(k)
  /\ UNCHANGED <<server, password, got, sent, msgs, up, conn, unsent>>

\* No memory for the payload: the call fails, and the payload is still to come.
ReplyOom(k) ==
  /\ at[k] = "payload"
  /\ Move(k, "ready")
  /\ awaited' = [awaited EXCEPT ![k] = 0]
  /\ UNCHANGED <<server, password, reply, got, sent, msgs, up, down, conn, unsent>>

ReadReplyPayload(k) ==
  /\ at[k] = "payload"
  /\ Arrived(k, PayloadSize)
  /\ Take(k, PayloadSize)
  /\ got' = got \cup {[asked |-> awaited[k], header |-> reply[k][1].v,
                       payload |-> {u.v : u \in ToSet(SubSeq(down[k], 1, PayloadSize))}]}
  /\ Move(k, "ready")
  /\ awaited' = [awaited EXCEPT ![k] = 0]
  /\ UNCHANGED <<server, password, reply, sent, msgs, up, conn, unsent>>

\* The stream ends in the middle of a reply.
SendFails(k) ==
  /\ \/ at[k] = "header" /\ Ended(k, HeaderSize)
     \/ at[k] = "payload" /\ Ended(k, PayloadSize)
  /\ CloseClient(k)
  /\ UNCHANGED <<server, password, reply, got, sent, msgs, up, down, conn, unsent>>

\* ray_ipc_close, a connect that gives up after five seconds, or the end of the
\* client's process at any point.
Close(k) ==
  /\ ClientOpen(k)
  /\ CloseClient(k)
  /\ UNCHANGED <<server, password, reply, got, sent, msgs, up, down, conn, unsent>>

-----------------------------------------------------------------------------
(* The server's end of a connection. *)

Held(s) == {k \in Conn : server[k] = s /\ peer[k] = "open"}

\* ray_poll_rx_request: a buffer of size n, with nothing in it.
RxRequest(k, n) ==
  /\ need' = [need EXCEPT ![k] = n]
  /\ buf' = [buf EXCEPT ![k] = <<>>]

Phase(k, p, n) == phase' = [phase EXCEPT ![k] = p] /\ RxRequest(k, n)
Answer(k, units) == down' = [down EXCEPT ![k] = IF ClientOpen(k) THEN @ \o units ELSE @]
Hangup(k) ==
  /\ peer' = [peer EXCEPT ![k] = "closed"]
  /\ buf' = [buf EXCEPT ![k] = <<>>]

\* ipc_accept, and the accept of ray_ipc_poll, which closes a connection that
\* does not fit its table.  Either closes one it has no memory for.
Accept(k) ==
  /\ peer[k] = "queued"
  /\ \/ /\ server[k] = Legacy => Cardinality(Held(Legacy)) < MaxConns
        /\ peer' = [peer EXCEPT ![k] = "open"]
        /\ Phase(k, "handshake", 2)
     \/ Hangup(k) /\ UNCHANGED <<phase, need>>
  /\ UNCHANGED <<client, up, down, hdr, run, unsent>>

\* The server is stopped, or the system reports an error on the connection.
Drop(k) ==
  /\ peer[k] \in {"queued", "open"}
  /\ Hangup(k)
  /\ UNCHANGED <<client, up, down, phase, need, hdr, run, unsent>>

\* One recv, of some of what is missing; zero bytes end the connection.
Recv(k) ==
  /\ peer[k] = "open"
  /\ Len(buf[k]) < need[k]
  /\ IF up[k] # <<>>
       THEN /\ buf' = [buf EXCEPT ![k] = Append(@, Head(up[k]))]
            /\ up' = [up EXCEPT ![k] = Tail(@)]
            /\ UNCHANGED peer
       ELSE /\ ~ClientOpen(k)
            /\ Hangup(k)
            /\ UNCHANGED up
  /\ UNCHANGED <<client, down, phase, need, hdr, run, unsent>>

\* The buffer is full: the handler of phase p is called.
Called(k, p) == peer[k] = "open" /\ phase[k] = p /\ Len(buf[k]) = need[k]

ReadHandshake(k) ==
  /\ Called(k, "handshake")
  /\ LET secured == server[k] \in Secured
     IN /\ Answer(k, <<Unit("version", 0), Unit("auth", IF secured THEN 1 ELSE 0)>>)
        /\ IF secured THEN Phase(k, "creds", 1) ELSE Phase(k, "header", HeaderSize)
  /\ UNCHANGED <<client, up, peer, hdr, run, unsent>>

\* Faulty variant: both servers empty the buffer.
MoreCredentialsEmpty(k) == RxRequest(k, 1 + buf[k][1].v)

\* After the length byte the rest is asked for.  The older server keeps the byte,
\* ray_poll_rx_request empties the buffer.
MoreCredentials(k) ==
  LET all == 1 + buf[k][1].v IN
    IF server[k] = Poll THEN RxRequest(k, all)
    ELSE need' = [need EXCEPT ![k] = all] /\ UNCHANGED buf

\* Faulty variant: the comparison stops one unit early.
ValidShort(text) == \A n \in 1 .. Len(text) - 1 : text[n].v = 1

\* validate_creds: the text, to its end, is the password.
Valid(text) == \A n \in DOMAIN text : text[n].v = 1

\* The verdict, once the text is there.
ReadCreds(k) ==
  /\ Called(k, "creds")
  /\ IF Len(buf[k]) < 1 + buf[k][1].v
       THEN MoreCredentials(k) /\ UNCHANGED <<down, peer, phase>>
       ELSE LET ok == Valid(Tail(buf[k]))
            IN /\ Answer(k, <<Unit("verdict", IF ok THEN 0 ELSE 1)>>)
               /\ IF ok THEN Phase(k, "header", HeaderSize) /\ UNCHANGED peer
                        ELSE Hangup(k) /\ UNCHANGED <<phase, need>>
  /\ UNCHANGED <<client, up, hdr, run, unsent>>

\* Faulty variant: room for a terminator is asked for.
ReadHeaderOneMore(k) ==
  /\ Called(k, "header")
  /\ IF buf[k][1].k = "prefix"
       THEN /\ hdr' = [hdr EXCEPT ![k] = buf[k]]
            /\ Phase(k, "payload", PayloadSize + 1)
            /\ UNCHANGED peer
       ELSE Hangup(k) /\ UNCHANGED <<hdr, phase, need>>
  /\ UNCHANGED <<client, up, down, run, unsent>>

\* A header without the prefix ends the connection.
ReadHeader(k) ==
  /\ Called(k, "header")
  /\ IF buf[k][1].k = "prefix"
       THEN /\ hdr' = [hdr EXCEPT ![k] = buf[k]]
            /\ Phase(k, "payload", PayloadSize)
            /\ UNCHANGED peer
       ELSE Hangup(k) /\ UNCHANGED <<hdr, phase, need>>
  /\ UNCHANGED <<client, up, down, run, unsent>>

Evaluated(k) == buf[k][1].v

\* send_response sends nothing when there is no memory for the message, or for a
\* value that cannot be serialized.
Respond(k) ==
  \/ Answer(k, Message(Evaluated(k), Resp)) /\ UNCHANGED unsent
  \/ unsent' = unsent \cup {Evaluated(k)} /\ UNCHANGED down

\* Faulty variant: every message is answered.
ReplyAlways(k) ==
  /\ Called(k, "payload")
  /\ run' = [run EXCEPT ![k] = Append(@, Evaluated(k))]
  /\ Respond(k)
  /\ Phase(k, "header", HeaderSize)
  /\ UNCHANGED <<client, up, peer, hdr>>

\* Faulty variant: the phase and the buffer are left as they are.
ReadPayloadNoReset(k) ==
  /\ Called(k, "payload")
  /\ run' = [run EXCEPT ![k] = Append(@, Evaluated(k))]
  /\ IF hdr[k][2].v = Sync THEN Respond(k) ELSE UNCHANGED <<down, unsent>>
  /\ UNCHANGED <<client, up, peer, phase, need, buf, hdr>>

\* The message is evaluated, a synchronous one answered.
ReadPayload(k) ==
  /\ Called(k, "payload")
  /\ run' = [run EXCEPT ![k] = Append(@, Evaluated(k))]
  /\ IF hdr[k][2].v = Sync THEN Respond(k) ELSE UNCHANGED <<down, unsent>>
  /\ Phase(k, "header", HeaderSize)
  /\ UNCHANGED <<client, up, peer, hdr>>

-----------------------------------------------------------------------------
ClientReads(k) ==
  \/ Greeted(k)
  \/ Verdict(k)
  \/ ReadReplyHeader(k)
  \/ ReadReplyPayload(k)
  \/ SendFails(k)

Serve(k) ==
  \/ Accept(k)
  \/ Recv(k)
  \/ ReadHandshake(k)
  \/ ReadCreds(k)
  \/ ReadHeader(k)
  \/ ReadPayload(k)

Next ==
  \E k \in Conn :
    \/ \E s \in Server, pw \in {"right", "wrong", "none"} : Connect(k, s, pw)
    \/ \E t \in {Sync, Async} : Send(k, t)
    \/ ReplyOom(k)
    \/ Drop(k)
    \/ Close(k)
    \/ ClientReads(k)
    \/ Serve(k)

\* The event loop serves every connection that has something to read; a client
\* that waits goes on when its bytes have come.
Fairness == \A k \in Conn : WF_vars(Serve(k)) /\ WF_vars(ClientReads(k))

Spec == Init /\ [][Next]_vars /\ Fairness

-----------------------------------------------------------------------------
Units == [k : {"version", "flags", "length", "text", "prefix", "msgtype", "data",
               "auth", "verdict"},
          v : 0 .. MaxMsgs + CredSize + Resp]

TypeOK ==
  /\ at \in [Conn -> {"new", "greeting", "verdict", "ready", "header", "payload", "closed"}]
  /\ server \in [Conn -> Server]
  /\ password \in [Conn -> {"right", "wrong", "none"}]
  /\ awaited \in [Conn -> 0 .. MaxMsgs]
  /\ peer \in [Conn -> {"none", "queued", "open", "closed"}]
  /\ phase \in [Conn -> {"handshake", "creds", "header", "payload"}]
  /\ \A k \in Conn : /\ ToSet(up[k]) \cup ToSet(down[k]) \cup ToSet(buf[k]) \subseteq Units
                     /\ Len(buf[k]) <= need[k]
  /\ unsent \subseteq 1 .. MaxMsgs
  /\ msgs \in 0 .. MaxMsgs

\* A synchronous call returns the result of its own message, never that of one
\* sent before it: not after asynchronous messages, and not after a call that
\* failed between the header and the payload of its reply.
ReplyMatches == \A g \in got : g.header = g.asked /\ g.payload = {g.asked}

\* What the server evaluates for a connection is what was sent on it, in order,
\* each message once, however the stream is cut into pieces.
EvaluatedInOrder == TypeOK /\ \A k \in Conn : IsPrefix(run[k], sent[k])

\* No message is evaluated for a client that a secured server has not accepted
\* the password of.
EvaluatedAuthorized ==
  \A k \in Conn : run[k] # <<>> /\ server[k] \in Secured => password[k] = "right"

Waits(k) ==
  \/ at[k] = "greeting" /\ ~Arrived(k, 2)
  \/ at[k] = "verdict" /\ ~Arrived(k, 1)
  \/ at[k] = "header" /\ ~Arrived(k, HeaderSize)
  \/ at[k] = "payload" /\ ~Arrived(k, PayloadSize)

\* Client and server never wait for each other: when a client blocks in a read,
\* the server has bytes to read, a handler to call, or has hung up, unless the
\* result it waits for is one that the server could not send.
NoMutualWait ==
  \A k \in Conn : Waits(k) /\ peer[k] = "open" /\ awaited[k] \notin unsent =>
    up[k] # <<>> \/ Len(buf[k]) = need[k]

\* Every synchronous call returns, with a result or an error, unless the server
\* could not send the result (it then waits for ever: there is no timeout).
SyncReturns == \A k \in Conn : awaited[k] # 0 ~> awaited[k] = 0 \/ awaited[k] \in unsent

=============================================================================
