----------------------------- MODULE Ipc_proofs -----------------------------
(***************************************************************************)
(* Queries over TCP, for every number of connections and messages and      *)
(* every size of a payload and of a credential text: what a connection     *)
(* carries is followed unit by unit, from what the client sent to what the *)
(* server has evaluated and answered.                                      *)
(***************************************************************************)
EXTENDS Ipc, SequenceTheorems, TLAPS

\* Where message j of a stream of whole messages begins, less one.
MessageSize == HeaderSize + PayloadSize
Before(j) == MessageSize * j

\* Header and payload have been exchanged in part; the handshake is over.
Serving(k) == phase[k] \in {"header", "payload"}

\* What the server has still to handle of what the client sent: the header
\* it keeps, the buffer, the stream.
Arriving(k) == buf[k] \o up[k]
Pending(k) == IF phase[k] = "payload" THEN hdr[k] \o Arriving(k) ELSE Arriving(k)

\* A stream holds the messages of ids after the first r, whole and in order.
Carries(stream, ids, r) ==
  /\ Len(stream) = Before(Len(ids) - r)
  /\ \A j \in 0 .. Len(ids) - r - 1 :
       /\ stream[Before(j) + 1] = Unit("prefix", ids[r + j + 1])
       /\ stream[Before(j) + 2].k = "msgtype"
       /\ stream[Before(j) + 2].v \in {Sync, Async}
       /\ \A i \in 1 .. PayloadSize :
            stream[Before(j) + 2 + i] = Unit("data", ids[r + j + 1])

\* How many messages are still to be evaluated; the type of the j-th of them.
Unhandled(k) == Len(sent[k]) - Len(run[k])
TypeOf(k, j) == Pending(k)[Before(j) + 2].v

-----------------------------------------------------------------------------
(* The inductive invariant. *)

Shape ==
  /\ at \in [Conn -> {"new", "greeting", "verdict", "ready", "header", "payload", "closed"}]
  /\ server \in [Conn -> Server]
  /\ password \in [Conn -> {"right", "wrong", "none"}]
  /\ awaited \in [Conn -> 0 .. MaxMsgs]
  /\ peer \in [Conn -> {"none", "queued", "open", "closed"}]
  /\ phase \in [Conn -> {"handshake", "creds", "header", "payload"}]
  /\ need \in [Conn -> Nat]
  /\ up \in [Conn -> Seq(Units)] /\ down \in [Conn -> Seq(Units)]
  /\ buf \in [Conn -> Seq(Units)] /\ hdr \in [Conn -> Seq(Units)]
  /\ reply \in [Conn -> Seq(Units)]
  /\ sent \in [Conn -> Seq(1 .. MaxMsgs)] /\ run \in [Conn -> Seq(1 .. MaxMsgs)]
  /\ unsent \subseteq 1 .. MaxMsgs
  /\ msgs \in 0 .. MaxMsgs

\* Where the two ends of a connection are, relative to each other.
Stages(k) ==
  /\ at[k] = "new" => peer[k] = "none" /\ phase[k] = "handshake" /\ down[k] = <<>>
  /\ peer[k] \in {"none", "queued"} => phase[k] = "handshake"
  /\ at[k] \in {"new", "greeting", "verdict"} => sent[k] = <<>>
  /\ at[k] = "greeting" /\ server[k] \in Secured => ~Serving(k)
  /\ at[k] = "verdict" => /\ phase[k] # "handshake"
                          /\ password[k] # "none"
                          /\ server[k] \in Secured
  /\ at[k] \in {"ready", "header", "payload"} => Serving(k)
  /\ phase[k] = "creds" => server[k] \in Secured
  /\ Serving(k) /\ server[k] \in Secured => password[k] = "right"
  /\ sent[k] # <<>> => Serving(k)

\* What was evaluated is the beginning of what was sent.
InOrder(k) ==
  /\ Len(run[k]) <= Len(sent[k])
  /\ \A i \in 1 .. Len(run[k]) : run[k][i] = sent[k][i]

\* What the server, waiting for credentials, has still to handle.
Asked(k) ==
  \/ need[k] = 1 /\ Arriving(k) = <<>> /\ at[k] \in {"greeting", "closed"}
  \/ /\ Arriving(k) = Credentials(password[k]) /\ at[k] \in {"verdict", "closed"}
     /\ need[k] = 1 \/ need[k] = 1 + CredSize
  \/ /\ server[k] = Poll /\ need[k] = 1 + CredSize /\ at[k] \in {"verdict", "closed"}
     /\ Len(Arriving(k)) <= CredSize

\* The stream to the server and what the server makes of it.
Upstream(k) ==
  /\ Len(buf[k]) <= need[k]
  /\ peer[k] = "queued" => up[k] = Handshake
  /\ peer[k] = "open" =>
       /\ phase[k] = "handshake" => need[k] = 2 /\ Arriving(k) = Handshake
       /\ phase[k] = "creds" => Asked(k)
       /\ phase[k] = "header" => need[k] = HeaderSize
       /\ phase[k] = "payload" => need[k] = PayloadSize /\ Len(hdr[k]) = HeaderSize
       /\ Serving(k) => Carries(Pending(k), sent[k], Len(run[k]))

\* A client that waits for a result has sent one synchronous message, the last.
Types(k) ==
  peer[k] = "open" =>
    /\ at[k] = "ready" => \A j \in 0 .. Unhandled(k) - 1 : TypeOf(k, j) = Async
    /\ at[k] = "header" /\ Unhandled(k) > 0 =>
         /\ sent[k][Len(sent[k])] = awaited[k]
         /\ \A j \in 0 .. Unhandled(k) - 1 : TypeOf(k, j) = Sync <=> j = Unhandled(k) - 1
    /\ at[k] = "payload" => Unhandled(k) = 0

\* The payload of a reply that the client had no memory for is still there.
Leftover(units) == units # <<>> /\ units[1].k = "data"

\* The stream to the client.
Downstream(k) ==
  /\ at[k] = "greeting" =>
       down[k] = IF phase[k] = "handshake" THEN <<>>
                 ELSE <<Unit("version", 0), Unit("auth", IF server[k] \in Secured THEN 1 ELSE 0)>>
  /\ at[k] = "verdict" =>
       IF Serving(k) THEN down[k] = <<Unit("verdict", 0)>>
       ELSE down[k] = <<>> \/ (peer[k] = "closed" /\ down[k] = <<Unit("verdict", 1)>>)
  /\ at[k] = "ready" => down[k] = <<>> \/ Leftover(down[k])
  /\ at[k] = "header" =>
       /\ down[k] = <<>> \/ Leftover(down[k]) \/ down[k] = Message(awaited[k], Resp)
       /\ peer[k] = "open" =>
            /\ Unhandled(k) > 0 => down[k] = <<>> \/ Leftover(down[k])
            /\ Unhandled(k) = 0 /\ awaited[k] \notin unsent => Len(down[k]) >= HeaderSize
  /\ at[k] = "payload" =>
       /\ down[k] = [n \in 1 .. PayloadSize |-> Unit("data", awaited[k])]
       /\ reply[k][1].v = awaited[k]

ConnInv(k) == Stages(k) /\ InOrder(k) /\ Upstream(k) /\ Types(k) /\ Downstream(k)

IpcInv == Shape /\ ReplyMatches /\ \A k \in Conn : ConnInv(k)

-----------------------------------------------------------------------------
(* Streams. *)

\* A unit of the kinds and values that are sent.
LEMMA UnitTypes ==
  /\ \A t \in {Sync, Async, Resp} : Unit("msgtype", t) \in Units
  /\ \A id \in 0 .. MaxMsgs : Unit("prefix", id) \in Units /\ Unit("data", id) \in Units
  /\ \A b \in {0, 1} : /\ Unit("version", b) \in Units /\ Unit("flags", b) \in Units
                       /\ Unit("auth", b) \in Units /\ Unit("verdict", b) \in Units
                       /\ Unit("text", b) \in Units
  /\ Unit("length", CredSize) \in Units
<1> USE IpcAssumption
<1>1. /\ \A v \in {0, 1, 2} : v \in 0 .. MaxMsgs + CredSize + Resp
      /\ \A v \in 0 .. MaxMsgs : v \in 0 .. MaxMsgs + CredSize + Resp
      /\ CredSize \in 0 .. MaxMsgs + CredSize + Resp
  BY DEF Resp
<1> QED  BY <1>1 DEF Units, Unit, Sync, Async, Resp

\* Whole messages lie one behind the other.
LEMMA BeforeSteps ==
  /\ Before(0) = 0
  /\ \A j \in Nat : Before(j) \in Nat /\ Before(j + 1) = Before(j) + PayloadSize + 2
  /\ \A i, j \in Nat : i < j => Before(i) + PayloadSize + 2 <= Before(j)
<1> DEFINE M == PayloadSize + 2
<1>1. M \in Nat \ {0}
  BY IpcAssumption
<1>2. \A j : Before(j) = M * j
  BY IpcAssumption DEF Before, MessageSize, HeaderSize
<1> HIDE DEF M
<1>3. \A j \in Nat : M * j \in Nat /\ M * (j + 1) = M * j + M
  BY <1>1
<1>4. M * 0 = 0
  BY <1>1
<1>5. \A i, j \in Nat : i < j => M * i + M <= M * j
  <2> SUFFICES ASSUME NEW i \in Nat, NEW j \in Nat, i < j PROVE M * i + M <= M * j
    OBVIOUS
  <2>1. PICK d \in Nat : j = i + 1 + d
    <3>1. j - i - 1 \in Nat /\ j = i + 1 + (j - i - 1)
      OBVIOUS
    <3> QED  BY <3>1
  <2>2. M * j = M * i + M + M * d
    BY <1>1, <2>1
  <2> QED  BY <1>1, <1>3, <2>2
<1> QED  BY <1>2, <1>3, <1>4, <1>5, IpcAssumption DEF M

\* A message: the header, then the payload.
LEMMA MessageShape ==
  ASSUME NEW id \in 0 .. MaxMsgs, NEW t \in {Sync, Async, Resp}
  PROVE  /\ Message(id, t) \in Seq(Units)
         /\ Len(Message(id, t)) = PayloadSize + 2
         /\ Message(id, t)[1] = Unit("prefix", id)
         /\ Message(id, t)[2] = Unit("msgtype", t)
         /\ \A i \in 1 .. PayloadSize : Message(id, t)[2 + i] = Unit("data", id)
<1> DEFINE h == <<Unit("prefix", id), Unit("msgtype", t)>>
           p == [n \in 1 .. PayloadSize |-> Unit("data", id)]
<1>1. h \in Seq(Units) /\ Len(h) = 2 /\ h[1] = Unit("prefix", id) /\ h[2] = Unit("msgtype", t)
  BY UnitTypes
<1>2. PayloadSize \in Nat
  BY IpcAssumption
<1>3. p \in Seq(Units)
  BY <1>2, UnitTypes
<1>4. Len(p) = PayloadSize /\ \A i \in 1 .. PayloadSize : p[i] = Unit("data", id)
  BY <1>2, <1>3
<1>5. Message(id, t) = h \o p
  BY DEF Message
<1> HIDE DEF h, p
<1>6. /\ h \o p \in Seq(Units)
      /\ Len(h \o p) = 2 + PayloadSize
      /\ \A i \in 1 .. 2 + PayloadSize : (h \o p)[i] = IF i <= 2 THEN h[i] ELSE p[i - 2]
  <2>1. /\ h \o p \in Seq(Units)
        /\ Len(h \o p) = Len(h) + Len(p)
        /\ \A i \in 1 .. Len(h) + Len(p) : (h \o p)[i] = IF i <= Len(h) THEN h[i] ELSE p[i - Len(h)]
    BY <1>1, <1>3, ConcatProperties
  <2> QED  BY <2>1, <1>1, <1>4
<1>7. \A i \in 1 .. PayloadSize : 2 + i \in 1 .. 2 + PayloadSize /\ ~(2 + i <= 2) /\ (2 + i) - 2 = i
  BY <1>2
<1>8. 1 \in 1 .. 2 + PayloadSize /\ 2 \in 1 .. 2 + PayloadSize /\ 1 <= 2 /\ 2 <= 2
  BY <1>2
<1> QED  BY <1>1, <1>2, <1>4, <1>5, <1>6, <1>7, <1>8

\* Credentials: the length byte, then the text, which is valid only if it is
\* the password.
LEMMA CredentialsShape ==
  ASSUME NEW pw \in {"right", "wrong", "none"}
  PROVE  /\ Credentials(pw) \in Seq(Units)
         /\ Len(Credentials(pw)) = 1 + CredSize
         /\ Credentials(pw)[1].v = CredSize
         /\ Valid(Tail(Credentials(pw))) => pw = "right"
<1> DEFINE h == <<Unit("length", CredSize)>>
           p == [n \in 1 .. CredSize |-> Unit("text", IF pw = "right" \/ n < CredSize THEN 1 ELSE 0)]
<1>1. h \in Seq(Units) /\ Len(h) = 1 /\ h[1].v = CredSize
  BY UnitTypes DEF Unit
<1>2. CredSize \in Nat \ {0}
  BY IpcAssumption
<1>3. p \in Seq(Units)
  <2>1. \A n \in 1 .. CredSize : Unit("text", IF pw = "right" \/ n < CredSize THEN 1 ELSE 0) \in Units
    BY UnitTypes
  <2> QED  BY <1>2, <2>1
<1>4. Len(p) = CredSize
  BY <1>2, <1>3
<1>5. p[CredSize].v = 1 => pw = "right"
  BY <1>2 DEF Unit
<1>6. Credentials(pw) = h \o p
  BY DEF Credentials
<1> HIDE DEF h, p
<1>7. /\ h \o p \in Seq(Units)
      /\ Len(h \o p) = 1 + CredSize
      /\ \A i \in 1 .. 1 + CredSize : (h \o p)[i] = IF i <= 1 THEN h[i] ELSE p[i - 1]
  <2>1. /\ h \o p \in Seq(Units)
        /\ Len(h \o p) = Len(h) + Len(p)
        /\ \A i \in 1 .. Len(h) + Len(p) : (h \o p)[i] = IF i <= Len(h) THEN h[i] ELSE p[i - Len(h)]
    BY <1>1, <1>3, ConcatProperties
  <2> QED  BY <2>1, <1>1, <1>4
<1>8. (h \o p)[1] = h[1] /\ (h \o p)[1 + CredSize] = p[CredSize]
  BY SMTT(30), <1>2, <1>7
<1>9. Valid(Tail(h \o p)) => p[CredSize].v = 1
  <2>1. h \o p # <<>>
    BY <1>2, <1>7
  <2>2. /\ Tail(h \o p) \in Seq(Units)
        /\ Len(Tail(h \o p)) = CredSize
        /\ \A i \in 1 .. CredSize : Tail(h \o p)[i] = (h \o p)[i + 1]
    <3>1. /\ Tail(h \o p) \in Seq(Units)
          /\ Len(Tail(h \o p)) = Len(h \o p) - 1
          /\ \A i \in 1 .. Len(Tail(h \o p)) : Tail(h \o p)[i] = (h \o p)[i + 1]
      BY <1>7, <2>1, HeadTailProperties
    <3> QED  BY <3>1, <1>2, <1>7
  <2>3. CredSize \in DOMAIN Tail(h \o p) /\ Tail(h \o p)[CredSize] = p[CredSize]
    BY <1>2, <1>8, <2>2
  <2> QED  BY <2>3 DEF Valid
<1> QED  BY <1>1, <1>5, <1>6, <1>7, <1>8, <1>9

\* Three parts of a stream may be put together in either order.
LEMMA Regroup ==
  \A s, t, u \in Seq(Units) : s \o (t \o u) = (s \o t) \o u
<1> SUFFICES ASSUME NEW s \in Seq(Units), NEW t \in Seq(Units), NEW u \in Seq(Units)
             PROVE  s \o (t \o u) = (s \o t) \o u
  OBVIOUS
<1> QED  BY ONLY SMTT(30), ConcatAssociative

\* One recv takes a unit from the stream to the buffer: nothing is lost.
LEMMA RecvKeeps ==
  ASSUME NEW S, NEW b \in Seq(S), NEW u \in Seq(S), u # <<>>
  PROVE  /\ Append(b, Head(u)) \in Seq(S) /\ Tail(u) \in Seq(S)
         /\ Len(Append(b, Head(u))) = Len(b) + 1
         /\ Append(b, Head(u)) \o Tail(u) = b \o u
<1>1. /\ Head(u) \in S /\ Tail(u) \in Seq(S) /\ Head(u) = u[1]
      /\ Len(u) \in Nat \ {0} /\ Len(Tail(u)) = Len(u) - 1
      /\ \A i \in 1 .. Len(Tail(u)) : Tail(u)[i] = u[i + 1]
  <2>1. Head(u) = u[1]
    OBVIOUS
  <2> QED  BY <2>1, HeadTailProperties, EmptySeq
<1> DEFINE a == Append(b, Head(u))
           t == Tail(u)
           h == Head(u)
<1>2. /\ a \in Seq(S) /\ Len(a) = Len(b) + 1
      /\ \A i \in 1 .. Len(b) : a[i] = b[i]
      /\ a[Len(b) + 1] = h
  BY <1>1, AppendProperties
<1>3. /\ t \in Seq(S) /\ h = u[1] /\ Len(u) \in Nat \ {0} /\ Len(t) = Len(u) - 1
      /\ \A i \in 1 .. Len(t) : t[i] = u[i + 1]
  BY <1>1
<1>4. Len(b) \in Nat
  OBVIOUS
<1> HIDE DEF a, t, h
<1>5. /\ a \o t \in Seq(S) /\ Len(a \o t) = Len(a) + Len(t)
      /\ \A i \in 1 .. Len(a) + Len(t) : (a \o t)[i] = IF i <= Len(a) THEN a[i] ELSE t[i - Len(a)]
  BY <1>2, <1>3, ConcatProperties
<1>6. /\ b \o u \in Seq(S) /\ Len(b \o u) = Len(b) + Len(u)
      /\ \A i \in 1 .. Len(b) + Len(u) : (b \o u)[i] = IF i <= Len(b) THEN b[i] ELSE u[i - Len(b)]
  BY ConcatProperties
<1>7. Len(a \o t) = Len(b \o u)
  BY <1>2, <1>3, <1>4, <1>5, <1>6
<1>8. ASSUME NEW i \in 1 .. Len(a \o t) PROVE (a \o t)[i] = (b \o u)[i]
  <2>1. i \in 1 .. Len(a) + Len(t) /\ i \in 1 .. Len(b) + Len(u) /\ i \in Nat
    BY <1>2, <1>3, <1>4, <1>5, <1>6, <1>7
  <2>2. CASE i <= Len(b)
    BY <1>2, <1>4, <1>5, <1>6, <2>1, <2>2
  <2>3. CASE i = Len(b) + 1
    <3>1. (a \o t)[i] = h
      BY <1>2, <1>4, <1>5, <2>1, <2>3
    <3>2. (b \o u)[i] = u[1]
      BY <1>4, <1>6, <2>1, <2>3
    <3> QED  BY <3>1, <3>2, <1>3
  <2>4. CASE i > Len(b) + 1
    <3>1. (a \o t)[i] = t[i - (Len(b) + 1)] /\ i - (Len(b) + 1) \in 1 .. Len(t)
      BY <1>2, <1>3, <1>4, <1>5, <2>1, <2>4
    <3>2. (b \o u)[i] = u[i - Len(b)]
      BY <1>4, <1>6, <2>1, <2>4
    <3>3. i - (Len(b) + 1) + 1 = i - Len(b)
      BY <1>4, <2>1
    <3> QED  BY <1>3, <3>1, <3>2, <3>3
  <2> QED  BY <1>4, <2>1, <2>2, <2>3, <2>4
<1>9. a \o t = b \o u
  BY <1>5, <1>6, <1>7, <1>8, SeqEqual
<1> QED  BY <1>2, <1>3, <1>9 DEF a, t, h

\* A stream of no messages.
LEMMA CarriesNothing ==
  /\ Carries(<<>>, <<>>, 0)
  /\ \A stream, ids : \A r \in Nat : Len(ids) \in Nat /\ r <= Len(ids) /\ Carries(stream, ids, r)
       => (Len(stream) = 0 <=> r = Len(ids))
<1>1. Carries(<<>>, <<>>, 0)
  BY BeforeSteps DEF Carries
<1>2. ASSUME NEW stream, NEW ids, NEW r \in Nat, Len(ids) \in Nat, r <= Len(ids),
             Carries(stream, ids, r)
      PROVE  Len(stream) = 0 <=> r = Len(ids)
  <2> DEFINE n == Len(ids) - r
  <2>1. n \in Nat /\ (n = 0 <=> r = Len(ids)) /\ Len(stream) = Before(n)
    BY <1>2 DEF Carries
  <2> HIDE DEF n
  <2>2. Before(0) = 0 /\ (0 < n => Before(0) + PayloadSize + 2 <= Before(n))
    BY <2>1, BeforeSteps
  <2>3. PayloadSize \in Nat
    BY IpcAssumption
  <2> QED  BY <2>1, <2>2, <2>3
<1> QED  BY <1>1, <1>2

\* A message that is sent comes behind those that are there.
LEMMA CarriesMore ==
  ASSUME NEW stream \in Seq(Units), NEW ids \in Seq(1 .. MaxMsgs), NEW r \in Nat,
         r <= Len(ids), Carries(stream, ids, r),
         NEW id \in 1 .. MaxMsgs, NEW t \in {Sync, Async}
  PROVE  LET more == stream \o Message(id, t)
         IN /\ Carries(more, Append(ids, id), r)
            /\ \A j \in 0 .. Len(ids) - r - 1 : more[Before(j) + 2] = stream[Before(j) + 2]
            /\ more[Before(Len(ids) - r) + 2].v = t
<1> DEFINE more == stream \o Message(id, t)
           m == Message(id, t)
           all == Append(ids, id)
           n == Len(ids) - r
<1>1. /\ m \in Seq(Units) /\ Len(m) = PayloadSize + 2
      /\ m[1] = Unit("prefix", id) /\ m[2] = Unit("msgtype", t)
      /\ \A i \in 1 .. PayloadSize : m[2 + i] = Unit("data", id)
  BY MessageShape, IpcAssumption
<1>2. /\ all \in Seq(1 .. MaxMsgs) /\ Len(all) = Len(ids) + 1
      /\ \A i \in 1 .. Len(ids) : all[i] = ids[i]
      /\ all[Len(ids) + 1] = id
  BY AppendProperties
<1>3. n \in Nat /\ Len(ids) = r + n /\ Len(all) - r = n + 1 /\ Len(ids) \in Nat
  BY <1>2
<1>4. PayloadSize \in Nat
  BY IpcAssumption
<1>5. Len(stream) = Before(n)
  BY DEF Carries
<1> HIDE DEF m, all, n
<1>6. /\ stream \o m \in Seq(Units) /\ Len(stream \o m) = Len(stream) + Len(m)
      /\ \A i \in 1 .. Len(stream) + Len(m) :
           (stream \o m)[i] = IF i <= Len(stream) THEN stream[i] ELSE m[i - Len(stream)]
  <2>1. m \in Seq(Units) /\ stream \in Seq(Units)
    BY <1>1
  <2> QED  BY ONLY <2>1, ConcatProperties
<1>7. more = stream \o m
  BY DEF m
<1> HIDE DEF more
<1>8. Before(n) \in Nat /\ Before(n + 1) = Before(n) + PayloadSize + 2
  BY <1>3, BeforeSteps
<1>9. /\ Len(more) = Before(n + 1)
      /\ \A i \in 1 .. Before(n) : more[i] = stream[i]
      /\ \A i \in 1 .. PayloadSize + 2 : more[Before(n) + i] = m[i]
  <2>1. /\ Len(stream) = Before(n) /\ Before(n) \in Nat
        /\ Before(n) + PayloadSize + 2 = Before(n) + (PayloadSize + 2)
        /\ Len(m) = PayloadSize + 2 /\ Len(more) = Before(n) + (PayloadSize + 2)
    BY <1>1, <1>4, <1>5, <1>6, <1>7, <1>8
  <2>2. \A i \in 1 .. Before(n) + (PayloadSize + 2) :
           more[i] = IF i <= Before(n) THEN stream[i] ELSE m[i - Before(n)]
    BY <1>6, <1>7, <2>1
  <2>3. \A i \in 1 .. Before(n) : more[i] = stream[i]
    BY <2>1, <2>2, <1>4
  <2>4. \A i \in 1 .. PayloadSize + 2 :
           /\ Before(n) + i \in 1 .. Before(n) + (PayloadSize + 2)
           /\ ~(Before(n) + i <= Before(n)) /\ (Before(n) + i) - Before(n) = i
    BY <2>1, <1>4
  <2>5. \A i \in 1 .. PayloadSize + 2 : more[Before(n) + i] = m[i]
    BY <2>2, <2>4
  <2> QED  BY <2>1, <2>3, <2>5, <1>8
<1>10. \A j \in 0 .. n - 1 : /\ j \in Nat /\ Before(j) \in Nat
                             /\ \A i \in 1 .. PayloadSize + 2 : Before(j) + i \in 1 .. Before(n)
  <2> SUFFICES ASSUME NEW j \in 0 .. n - 1
               PROVE  /\ j \in Nat /\ Before(j) \in Nat
                      /\ \A i \in 1 .. PayloadSize + 2 : Before(j) + i \in 1 .. Before(n)
    OBVIOUS
  <2>1. j \in Nat /\ j < n
    BY <1>3
  <2>2. Before(j) \in Nat /\ Before(j) + PayloadSize + 2 <= Before(n)
    BY <2>1, <1>3, BeforeSteps
  <2> QED  BY SMTT(30), <2>1, <2>2, <1>4, <1>8
<1>11. ASSUME NEW j \in 0 .. n - 1
       PROVE  /\ more[Before(j) + 1] = stream[Before(j) + 1]
              /\ more[Before(j) + 2] = stream[Before(j) + 2]
              /\ \A i \in 1 .. PayloadSize : more[Before(j) + 2 + i] = stream[Before(j) + 2 + i]
  <2>1. /\ 1 \in 1 .. PayloadSize + 2 /\ 2 \in 1 .. PayloadSize + 2
        /\ \A i \in 1 .. PayloadSize : 2 + i \in 1 .. PayloadSize + 2
    BY <1>4
  <2>2. Before(j) \in Nat /\ \A i \in 1 .. PayloadSize : Before(j) + 2 + i = Before(j) + (2 + i)
    BY <1>4, <1>10
  <2> QED  BY <1>9, <1>10, <2>1, <2>2
<1>12. ASSUME NEW j \in 0 .. n - 1 PROVE all[r + j + 1] = ids[r + j + 1]
  BY <1>2, <1>3
<1>13. all[r + n + 1] = id
  BY <1>2, <1>3
<1>14. /\ more[Before(n) + 1] = Unit("prefix", id)
       /\ more[Before(n) + 2] = Unit("msgtype", t)
       /\ \A i \in 1 .. PayloadSize : more[Before(n) + 2 + i] = Unit("data", id)
  <2>1. /\ 1 \in 1 .. PayloadSize + 2 /\ 2 \in 1 .. PayloadSize + 2
        /\ \A i \in 1 .. PayloadSize : 2 + i \in 1 .. PayloadSize + 2
    BY <1>4
  <2>2. \A i \in 1 .. PayloadSize : Before(n) + 2 + i = Before(n) + (2 + i)
    BY <1>4, <1>8
  <2> QED  BY <1>1, <1>9, <2>1, <2>2
<1>15. ASSUME NEW j \in 0 .. (n + 1) - 1
       PROVE  /\ more[Before(j) + 1] = Unit("prefix", all[r + j + 1])
              /\ more[Before(j) + 2].k = "msgtype"
              /\ more[Before(j) + 2].v \in {Sync, Async}
              /\ \A i \in 1 .. PayloadSize :
                   more[Before(j) + 2 + i] = Unit("data", all[r + j + 1])
  <2>1. CASE j = n
    BY <1>13, <1>14, <2>1 DEF Unit
  <2>2. CASE j # n
    <3>1. j \in 0 .. n - 1
      BY <1>3, <2>2
    <3>2. /\ stream[Before(j) + 1] = Unit("prefix", ids[r + j + 1])
          /\ stream[Before(j) + 2].k = "msgtype"
          /\ stream[Before(j) + 2].v \in {Sync, Async}
          /\ \A i \in 1 .. PayloadSize : stream[Before(j) + 2 + i] = Unit("data", ids[r + j + 1])
      BY <3>1 DEF Carries, n
    <3> QED  BY <3>1, <3>2, <1>11, <1>12
  <2> QED  BY <2>1, <2>2
<1>16. Carries(more, all, r)
  BY <1>3, <1>9, <1>15 DEF Carries
<1>17. more[Before(n) + 2].v = t
  BY <1>14 DEF Unit
<1> QED  BY <1>11, <1>16, <1>17 DEF more, all, n

\* Header and payload of a message, and what is behind it.
Cut(stream, h, b, u) ==
  /\ Len(stream) = 2 + PayloadSize + Len(u)
  /\ stream[2] = h[2] /\ stream[3] = b[1]
  /\ \A i \in Nat : i >= 1 /\ i <= Len(u) => stream[i + (PayloadSize + 2)] = u[i]

\* The server has a whole message: its header, its payload in the buffer.
LEMMA CutHere ==
  ASSUME NEW h \in Seq(Units), NEW b \in Seq(Units), NEW u \in Seq(Units),
         Len(h) = 2, Len(b) = PayloadSize
  PROVE  Cut(h \o (b \o u), h, b, u)
<1> DEFINE c == b \o u
           stream == h \o c
<1>1. PayloadSize \in Nat \ {0}
  BY IpcAssumption
<1>2. /\ c \in Seq(Units) /\ Len(c) = PayloadSize + Len(u)
      /\ \A i \in 1 .. PayloadSize + Len(u) : c[i] = IF i <= PayloadSize THEN b[i] ELSE u[i - PayloadSize]
  <2>1. /\ c \in Seq(Units) /\ Len(c) = Len(b) + Len(u)
        /\ \A i \in 1 .. Len(b) + Len(u) : c[i] = IF i <= Len(b) THEN b[i] ELSE u[i - Len(b)]
    BY ConcatProperties
  <2> HIDE DEF c
  <2> QED  BY <2>1
<1>4. Len(u) \in Nat
  OBVIOUS
<1> HIDE DEF c
<1>5. /\ h \o c \in Seq(Units) /\ Len(h \o c) = Len(h) + Len(c)
      /\ \A i \in 1 .. Len(h) + Len(c) : (h \o c)[i] = IF i <= Len(h) THEN h[i] ELSE c[i - Len(h)]
  <2>1. h \in Seq(Units) /\ c \in Seq(Units)
    BY <1>2
  <2> QED  BY ONLY <2>1, ConcatProperties
<1>3. stream = h \o c
  OBVIOUS
<1> HIDE DEF stream
<1>6. /\ stream \in Seq(Units) /\ Len(stream) = 2 + PayloadSize + Len(u)
      /\ \A i \in 1 .. 2 + (PayloadSize + Len(u)) : stream[i] = IF i <= 2 THEN h[i] ELSE c[i - 2]
  BY <1>1, <1>2, <1>3, <1>4, <1>5
<1>7. stream[2] = h[2] /\ stream[3] = b[1]
  <2>1. 2 \in 1 .. 2 + (PayloadSize + Len(u)) /\ 3 \in 1 .. 2 + (PayloadSize + Len(u))
    BY <1>1, <1>4
  <2>2. stream[2] = h[2] /\ stream[3] = c[1]
    BY <1>6, <2>1
  <2>3. 1 \in 1 .. PayloadSize + Len(u) /\ 1 <= PayloadSize
    BY <1>1, <1>4
  <2>4. c[1] = b[1]
    BY <1>2, <2>3
  <2> QED  BY <2>2, <2>4
<1>8. ASSUME NEW i \in Nat, i >= 1, i <= Len(u) PROVE stream[i + (PayloadSize + 2)] = u[i]
  <2>1. i + (PayloadSize + 2) \in 1 .. 2 + (PayloadSize + Len(u)) /\ ~(i + (PayloadSize + 2) <= 2)
        /\ (i + (PayloadSize + 2)) - 2 = i + PayloadSize
    BY <1>1, <1>4, <1>8
  <2>2. stream[i + (PayloadSize + 2)] = c[i + PayloadSize]
    BY <1>6, <2>1
  <2>3. i + PayloadSize \in 1 .. PayloadSize + Len(u) /\ ~(i + PayloadSize <= PayloadSize)
        /\ (i + PayloadSize) - PayloadSize = i
    BY <1>1, <1>4, <1>8
  <2> QED  BY <1>2, <2>2, <2>3
<1>9. Cut(stream, h, b, u)
  BY <1>6, <1>7, <1>8 DEF Cut
<1> QED  BY <1>9 DEF stream, c

\* The first message after r of ids is in a header h and a body b, and what is
\* left of the stream carries the others.
CarriesOn(stream, h, b, u, ids, r) ==
  /\ r < Len(ids)
  /\ b[1].v = ids[r + 1]
  /\ h[2].v = stream[Before(0) + 2].v
  /\ Carries(u, ids, r + 1)
  /\ \A j \in 0 .. Len(ids) - r - 2 : u[Before(j) + 2] = stream[Before(j + 1) + 2]

\* The rest of a stream behind its first message.
LEMMA CarriesLess ==
  ASSUME NEW u \in Seq(Units), NEW h, NEW b, NEW stream,
         NEW ids \in Seq(1 .. MaxMsgs), NEW r \in Nat, r <= Len(ids),
         Cut(stream, h, b, u), Carries(stream, ids, r)
  PROVE  CarriesOn(stream, h, b, u, ids, r)
<1> USE DEF CarriesOn
<1> DEFINE n == Len(ids) - r
<1>1. PayloadSize \in Nat \ {0}
  BY IpcAssumption
<1>3. Carries(stream, ids, r)
  OBVIOUS
<1>4. n \in Nat /\ Len(ids) = r + n /\ Len(ids) \in Nat /\ Len(u) \in Nat /\ n = Len(ids) - r
  OBVIOUS
<1> HIDE DEF n
<1>6. Len(stream) = 2 + PayloadSize + Len(u)
  BY DEF Cut
<1>7. stream[2] = h[2] /\ stream[3] = b[1]
  BY DEF Cut
<1>8. \A i \in Nat : i >= 1 /\ i <= Len(u) => stream[i + (PayloadSize + 2)] = u[i]
  BY DEF Cut
<1>9. Len(stream) = Before(n)
  BY <1>3 DEF Carries, n
<1>10. n \in Nat \ {0}
  BY <1>1, <1>4, <1>6, <1>9, BeforeSteps
<1>11. r < Len(ids)
  BY <1>4, <1>10
<1>12. Before(0) = 0 /\ 0 \in 0 .. n - 1
  BY <1>10, BeforeSteps
<1>13. b[1].v = ids[r + 1]
  <2>1. \A i \in 1 .. PayloadSize : stream[Before(0) + 2 + i] = Unit("data", ids[r + 0 + 1])
    BY <1>3, <1>12 DEF Carries, n
  <2>2. 1 \in 1 .. PayloadSize /\ Before(0) + 2 + 1 = 3 /\ r + 0 + 1 = r + 1
    BY <1>1, <1>12
  <2>3. stream[3] = Unit("data", ids[r + 1])
    BY <2>1, <2>2
  <2> QED  BY <2>3, <1>7 DEF Unit
<1>14. h[2].v = stream[Before(0) + 2].v
  BY <1>7, <1>12
<1> DEFINE k == n - 1
<1>15. k \in Nat /\ n = k + 1 /\ Before(n) = Before(k) + PayloadSize + 2 /\ Before(k) \in Nat
  <2>1. k \in Nat /\ n = k + 1
    BY <1>10
  <2> QED  BY <2>1, BeforeSteps
<1>16. Len(ids) - (r + 1) = k
  BY <1>4, <1>15
<1> HIDE DEF k
<1>17. Len(u) = Before(k)
  BY <1>1, <1>4, <1>6, <1>9, <1>15
<1>18. ASSUME NEW j \in 0 .. k - 1
       PROVE  /\ j + 1 \in 0 .. n - 1 /\ Before(j) \in Nat
              /\ \A i \in 1 .. PayloadSize + 2 : u[Before(j) + i] = stream[Before(j + 1) + i]
  <2>1. j \in Nat /\ j < k /\ j + 1 \in 0 .. n - 1
    BY <1>15
  <2>2. /\ Before(j) \in Nat /\ Before(j + 1) = Before(j) + PayloadSize + 2
        /\ Before(j) + PayloadSize + 2 <= Before(k)
    BY <2>1, <1>15, BeforeSteps
  <2>3. ASSUME NEW i \in 1 .. PayloadSize + 2
        PROVE  u[Before(j) + i] = stream[Before(j + 1) + i]
    <3>1. /\ Before(j) + i \in Nat /\ Before(j) + i >= 1 /\ Before(j) + i <= Len(u)
          /\ (Before(j) + i) + (PayloadSize + 2) = Before(j + 1) + i
      <4>1. i \in Nat /\ i >= 1 /\ i <= PayloadSize + 2 /\ PayloadSize \in Nat
        BY <1>1
      <4>2. Before(j) \in Nat /\ Len(u) = Before(k) /\ Before(k) \in Nat
        BY <1>15, <1>17, <2>2
      <4> QED  BY SMTT(30), <4>1, <4>2, <2>2
    <3>2. stream[(Before(j) + i) + (PayloadSize + 2)] = u[Before(j) + i]
      BY <3>1, <1>8
    <3> QED  BY <3>1, <3>2
  <2> QED  BY <2>1, <2>2, <2>3
<1>19. ASSUME NEW j \in 0 .. k - 1
       PROVE  /\ u[Before(j) + 1] = Unit("prefix", ids[(r + 1) + j + 1])
              /\ u[Before(j) + 2].k = "msgtype"
              /\ u[Before(j) + 2].v \in {Sync, Async}
              /\ \A i \in 1 .. PayloadSize :
                   u[Before(j) + 2 + i] = Unit("data", ids[(r + 1) + j + 1])
  <2>1. /\ stream[Before(j + 1) + 1] = Unit("prefix", ids[r + (j + 1) + 1])
        /\ stream[Before(j + 1) + 2].k = "msgtype"
        /\ stream[Before(j + 1) + 2].v \in {Sync, Async}
        /\ \A i \in 1 .. PayloadSize :
             stream[Before(j + 1) + 2 + i] = Unit("data", ids[r + (j + 1) + 1])
    BY <1>3, <1>18 DEF Carries, n
  <2>2. r + (j + 1) + 1 = (r + 1) + j + 1
    BY <1>4, <1>15
  <2>3. /\ 1 \in 1 .. PayloadSize + 2 /\ 2 \in 1 .. PayloadSize + 2
        /\ \A i \in 1 .. PayloadSize : 2 + i \in 1 .. PayloadSize + 2
    BY <1>1
  <2>4. Before(j) \in Nat /\ Before(j + 1) \in Nat
    <3>1. j \in Nat /\ j + 1 \in Nat
      BY <1>15
    <3> QED  BY <3>1, BeforeSteps
  <2>5. \A i \in 1 .. PayloadSize : /\ Before(j) + 2 + i = Before(j) + (2 + i)
                                    /\ Before(j + 1) + 2 + i = Before(j + 1) + (2 + i)
    BY <1>1, <2>4
  <2> QED  BY <2>1, <2>2, <2>3, <2>5, <1>18
<1>20. Carries(u, ids, r + 1)
  BY <1>16, <1>17, <1>19 DEF Carries
<1>21. \A j \in 0 .. Len(ids) - r - 2 : u[Before(j) + 2] = stream[Before(j + 1) + 2]
  <2>1. Len(ids) - r - 2 = k - 1
    BY <1>4, <1>15
  <2>2. 2 \in 1 .. PayloadSize + 2
    BY <1>1
  <2> QED  BY <2>1, <2>2, <1>18
<1> QED  BY <1>11, <1>13, <1>14, <1>20, <1>21

-----------------------------------------------------------------------------
(* A step of one connection leaves the others as they are. *)

Same(k) ==
  /\ at'[k] = at[k] /\ server'[k] = server[k] /\ password'[k] = password[k]
  /\ awaited'[k] = awaited[k] /\ reply'[k] = reply[k] /\ up'[k] = up[k] /\ down'[k] = down[k]
  /\ peer'[k] = peer[k] /\ phase'[k] = phase[k] /\ need'[k] = need[k] /\ buf'[k] = buf[k]
  /\ hdr'[k] = hdr[k] /\ sent'[k] = sent[k] /\ run'[k] = run[k]

\* The invariant of a connection is about that connection only; results that
\* could not be sent on another only weaken it.
LEMMA Frame ==
  ASSUME NEW q \in Conn, ConnInv(q), Same(q), unsent \subseteq unsent'
  PROVE  ConnInv(q)'
<1>1. Serving(q)' = Serving(q) /\ Arriving(q)' = Arriving(q) /\ Unhandled(q)' = Unhandled(q)
  BY DEF Same, Serving, Arriving, Unhandled
<1>2. Pending(q)' = Pending(q)
  BY <1>1 DEF Same, Pending
<1>3. \A j : TypeOf(q, j)' = TypeOf(q, j)
  BY <1>2 DEF TypeOf
<1>4. Stages(q)'
  BY <1>1 DEF ConnInv, Same, Stages
<1>5. InOrder(q)'
  BY DEF ConnInv, Same, InOrder
<1>6. Upstream(q)'
  <2>1. Asked(q) => Asked(q)'
    BY <1>1 DEF Same, Asked
  <2> QED  BY <1>1, <1>2, <2>1 DEF ConnInv, Same, Upstream
<1>7. Types(q)'
  BY <1>1, <1>3 DEF ConnInv, Same, Types
<1>8. Downstream(q)'
  BY <1>1 DEF ConnInv, Same, Downstream
<1> QED  BY <1>4, <1>5, <1>6, <1>7, <1>8 DEF ConnInv

\* One step of one connection.
Step(k) ==
  \/ \E s \in Server, pw \in {"right", "wrong", "none"} : Connect(k, s, pw)
  \/ \E t \in {Sync, Async} : Send(k, t)
  \/ ReplyOom(k)
  \/ Drop(k)
  \/ Close(k)
  \/ ClientReads(k)
  \/ Serve(k)

\* The actions name the connection they are of.
LEMMA Others ==
  ASSUME Shape, NEW k \in Conn, Step(k), NEW q \in Conn, q # k
  PROVE  Same(q)
<1> USE DEF Same, Shape, Move, Take, CloseClient, Phase, RxRequest, Answer, Hangup, conn
<1>1. CASE \E s \in Server, pw \in {"right", "wrong", "none"} : Connect(k, s, pw)
  BY <1>1 DEF Connect
<1>2. CASE \E t \in {Sync, Async} : Send(k, t)
  BY ZenonT(60), <1>2 DEF Send
<1>3. CASE ReplyOom(k)
  BY <1>3 DEF ReplyOom
<1>4. CASE Drop(k)
  BY <1>4 DEF Drop, client
<1>5. CASE Close(k)
  BY <1>5 DEF Close
<1>6. CASE Greeted(k)
  BY ZenonT(60), <1>6 DEF Greeted
<1>7. CASE Verdict(k)
  BY <1>7 DEF Verdict
<1>8. CASE ReadReplyHeader(k)
  BY <1>8 DEF ReadReplyHeader
<1>9. CASE ReadReplyPayload(k)
  BY <1>9 DEF ReadReplyPayload
<1>10. CASE SendFails(k)
  BY <1>10 DEF SendFails
<1>11. CASE Accept(k)
  BY ZenonT(60), <1>11 DEF Accept, client
<1>12. CASE Recv(k)
  BY ZenonT(60), <1>12 DEF Recv, client
<1>13. CASE ReadHandshake(k)
  BY ZenonT(60), <1>13 DEF ReadHandshake, client
<1>14. CASE ReadCreds(k)
  <2>1. CASE Len(buf[k]) < 1 + buf[k][1].v
    <3>1. MoreCredentials(k) /\ UNCHANGED <<down, peer, phase>> /\ UNCHANGED <<client, up, hdr, run, unsent>>
      BY <1>14, <2>1 DEF ReadCreds
    <3>2. CASE server[k] = Poll
      BY <3>1, <3>2 DEF MoreCredentials, client
    <3>3. CASE server[k] # Poll
      BY <3>1, <3>3 DEF MoreCredentials, client
    <3> QED  BY <3>2, <3>3
  <2>2. CASE ~(Len(buf[k]) < 1 + buf[k][1].v)
    <3>1. CASE Valid(Tail(buf[k]))
      BY <1>14, <2>2, <3>1 DEF ReadCreds, client
    <3>2. CASE ~Valid(Tail(buf[k]))
      BY <1>14, <2>2, <3>2 DEF ReadCreds, client
    <3> QED  BY <3>1, <3>2
  <2> QED  BY <2>1, <2>2
<1>15. CASE ReadHeader(k)
  <2>1. CASE buf[k][1].k = "prefix"
    BY <1>15, <2>1 DEF ReadHeader, client
  <2>2. CASE buf[k][1].k # "prefix"
    BY <1>15, <2>2 DEF ReadHeader, client
  <2> QED  BY <2>1, <2>2
<1>16. CASE ReadPayload(k)
  BY <1>16 DEF ReadPayload, Respond, client
<1> HIDE DEF Same, Shape, Move, Take, CloseClient, Phase, RxRequest, Answer, Hangup, conn
<1> QED
  BY <1>1, <1>2, <1>3, <1>4, <1>5, <1>6, <1>7, <1>8, <1>9, <1>10, <1>11, <1>12, <1>13, <1>14,
     <1>15, <1>16 DEF Step, ClientReads, Serve

-----------------------------------------------------------------------------
(* The steps of the client. *)

\* A connection is made: the handshake is on the stream.
LEMMA ConnectKeeps ==
  ASSUME IpcInv, NEW k \in Conn, NEW s \in Server, NEW pw \in {"right", "wrong", "none"},
         Connect(k, s, pw)
  PROVE  Shape' /\ ReplyMatches' /\ unsent \subseteq unsent' /\ ConnInv(k)'
<1> USE DEF Move
<1>1. Handshake \in Seq(Units)
  BY UnitTypes DEF Handshake
<1>2. Shape'
  BY <1>1 DEF IpcInv, Shape, Connect
<1>3. ReplyMatches' /\ unsent \subseteq unsent'
  BY DEF IpcInv, ReplyMatches, Connect
<1>4. /\ at[k] = "new" /\ peer[k] = "none" /\ phase[k] = "handshake" /\ down[k] = <<>>
      /\ sent[k] = <<>> /\ ConnInv(k)
  BY DEF IpcInv, ConnInv, Stages, Connect
<1>5. /\ at'[k] = "greeting" /\ peer'[k] = "queued" /\ up'[k] = Handshake
      /\ phase'[k] = "handshake" /\ down'[k] = <<>> /\ sent'[k] = <<>>
      /\ run'[k] = run[k] /\ buf'[k] = buf[k] /\ need'[k] = need[k]
  BY <1>4 DEF IpcInv, Shape, Connect
<1>6. Stages(k)'
  BY <1>5 DEF Stages, Serving
<1>7. InOrder(k)'
  BY <1>4, <1>5 DEF ConnInv, InOrder
<1>8. Upstream(k)'
  BY <1>4, <1>5 DEF ConnInv, Upstream, Serving
<1>9. Types(k)' /\ Downstream(k)'
  BY <1>5 DEF Types, Downstream
<1> QED  BY <1>2, <1>3, <1>6, <1>7, <1>8, <1>9 DEF ConnInv

\* A handle is closed: nothing is promised to its client any more.
LEMMA ClosedClient ==
  ASSUME Shape, NEW k \in Conn, ConnInv(k), ClientOpen(k),
         at' = [at EXCEPT ![k] = "closed"], server'[k] = server[k], password'[k] = password[k],
         up'[k] = up[k], peer'[k] = peer[k], phase'[k] = phase[k], need'[k] = need[k],
         buf'[k] = buf[k], hdr'[k] = hdr[k], sent'[k] = sent[k], run'[k] = run[k]
  PROVE  ConnInv(k)'
<1>1. at'[k] = "closed" /\ Serving(k)' = Serving(k) /\ Arriving(k)' = Arriving(k)
  BY DEF Shape, Serving, Arriving
<1>2. Pending(k)' = Pending(k)
  BY <1>1 DEF Pending
<1>3. Stages(k)'
  BY <1>1 DEF ConnInv, Stages
<1>4. InOrder(k)'
  BY DEF ConnInv, InOrder
<1>5. Upstream(k)'
  <2>1. Asked(k) => Asked(k)'
    BY <1>1 DEF Asked, ClientOpen
  <2> QED  BY <1>1, <1>2, <2>1 DEF ConnInv, Upstream
<1>6. Types(k)' /\ Downstream(k)'
  BY <1>1 DEF Types, Downstream
<1> QED  BY <1>3, <1>4, <1>5, <1>6 DEF ConnInv

\* The client closes, or ends.
LEMMA CloseKeeps ==
  ASSUME IpcInv, NEW k \in Conn, Close(k)
  PROVE  Shape' /\ ReplyMatches' /\ unsent \subseteq unsent' /\ ConnInv(k)'
<1> USE DEF Move, CloseClient, conn
<1>1. Shape'
  BY SMTT(30), IpcAssumption DEF IpcInv, Shape, Close
<1>2. ReplyMatches' /\ unsent \subseteq unsent'
  BY DEF IpcInv, ReplyMatches, Close
<1>3. ConnInv(k)'
  BY ClosedClient DEF IpcInv, Close
<1> QED  BY <1>1, <1>2, <1>3

\* The stream ends in the middle of a reply.
LEMMA SendFailsKeeps ==
  ASSUME IpcInv, NEW k \in Conn, SendFails(k)
  PROVE  Shape' /\ ReplyMatches' /\ unsent \subseteq unsent' /\ ConnInv(k)'
<1> USE DEF Move, CloseClient, conn
<1>1. Shape'
  BY SMTT(30), IpcAssumption DEF IpcInv, Shape, SendFails
<1>2. ReplyMatches' /\ unsent \subseteq unsent'
  BY DEF IpcInv, ReplyMatches, SendFails
<1>3. ClientOpen(k)
  BY DEF SendFails, ClientOpen
<1>4. ConnInv(k)'
  BY <1>3, ClosedClient DEF IpcInv, SendFails
<1> QED  BY <1>1, <1>2, <1>4

\* No memory for a reply: its payload stays on the stream, and is known by its
\* first unit.
LEMMA ReplyOomKeeps ==
  ASSUME IpcInv, NEW k \in Conn, ReplyOom(k)
  PROVE  Shape' /\ ReplyMatches' /\ unsent \subseteq unsent' /\ ConnInv(k)'
<1> USE DEF Move, conn
<1>1. Shape'
  <2>1. awaited' \in [Conn -> 0 .. MaxMsgs]
    BY IpcAssumption DEF IpcInv, Shape, ReplyOom
  <2>2. at' \in [Conn -> {"new", "greeting", "verdict", "ready", "header", "payload", "closed"}]
    BY DEF IpcInv, Shape, ReplyOom
  <2> QED  BY <2>1, <2>2 DEF IpcInv, Shape, ReplyOom
<1>2. ReplyMatches' /\ unsent \subseteq unsent'
  BY DEF IpcInv, ReplyMatches, ReplyOom
<1>3. ConnInv(k) /\ at[k] = "payload"
  BY DEF IpcInv, ReplyOom
<1>4. /\ at'[k] = "ready" /\ peer'[k] = peer[k] /\ up'[k] = up[k]
      /\ phase'[k] = phase[k] /\ down'[k] = down[k] /\ sent'[k] = sent[k]
      /\ run'[k] = run[k] /\ buf'[k] = buf[k] /\ need'[k] = need[k] /\ hdr'[k] = hdr[k]
      /\ server'[k] = server[k] /\ password'[k] = password[k]
  BY DEF IpcInv, Shape, ReplyOom
<1>5. Serving(k)' = Serving(k) /\ Arriving(k)' = Arriving(k) /\ Unhandled(k)' = Unhandled(k)
  BY <1>4 DEF Serving, Arriving, Unhandled
<1>6. Pending(k)' = Pending(k)
  BY <1>4, <1>5 DEF Pending
<1>7. Stages(k)'
  BY <1>3, <1>4, <1>5 DEF ConnInv, Stages
<1>8. InOrder(k)'
  BY <1>3, <1>4 DEF ConnInv, InOrder
<1>9. Upstream(k)'
  <2>1. phase[k] # "creds" /\ Serving(k)
    BY <1>3 DEF ConnInv, Stages, Serving
  <2> QED  BY <1>3, <1>4, <1>5, <1>6, <2>1 DEF ConnInv, Upstream
<1>10. Types(k)'
  <2>1. peer[k] = "open" => Unhandled(k)' = 0
    BY <1>3, <1>5 DEF ConnInv, Types
  <2> QED  BY <1>4, <2>1 DEF Types
<1>11. Downstream(k)'
  <2>1. Leftover(down[k])
    <3>1. down[k] = [n \in 1 .. PayloadSize |-> Unit("data", awaited[k])]
      BY <1>3 DEF ConnInv, Downstream
    <3>2. 1 \in 1 .. PayloadSize
      BY IpcAssumption
    <3>3. down[k][1] = Unit("data", awaited[k]) /\ 1 \in DOMAIN down[k]
      BY <3>1, <3>2
    <3>4. down[k] # <<>>
      BY <3>3
    <3> QED  BY <3>3, <3>4 DEF Leftover, Unit
  <2> QED  BY <1>4, <2>1 DEF Downstream
<1> QED  BY <1>1, <1>2, <1>7, <1>8, <1>9, <1>10, <1>11 DEF ConnInv

\* The greeting is read.
LEMMA GreetedKeeps ==
  ASSUME IpcInv, NEW k \in Conn, Greeted(k)
  PROVE  Shape' /\ ReplyMatches' /\ unsent \subseteq unsent' /\ ConnInv(k)'
<1> USE DEF Move, Take, conn
<1> DEFINE rest == SubSeq(down[k], 3, Len(down[k]))
<1>1. ConnInv(k) /\ at[k] = "greeting" /\ sent[k] = <<>>
  BY DEF IpcInv, ConnInv, Stages, Greeted
<1>2. /\ down[k] \in Seq(Units) /\ up[k] \in Seq(Units) /\ buf[k] \in Seq(Units)
      /\ run[k] \in Seq(1 .. MaxMsgs) /\ password[k] \in {"right", "wrong", "none"}
  BY DEF IpcInv, Shape
<1>3. Credentials(password[k]) \in Seq(Units)
  BY <1>2, CredentialsShape
<1>4. rest \in Seq(Units)
  BY <1>2
<1>5. up[k] \o Credentials(password[k]) \in Seq(Units)
  BY <1>2, <1>3
<1>6. down' = [down EXCEPT ![k] = rest]
  BY DEF Greeted
<1> HIDE DEF rest
<1>7. Shape'
  <2>1. down' \in [Conn -> Seq(Units)]
    BY <1>4, <1>6 DEF IpcInv, Shape
  <2>2. up' \in [Conn -> Seq(Units)]
    BY ZenonT(60), <1>5 DEF IpcInv, Shape, Greeted
  <2>3. at' \in [Conn -> {"new", "greeting", "verdict", "ready", "header", "payload", "closed"}]
    <3>1. at' = [at EXCEPT ![k] = "ready"] \/ at' = [at EXCEPT ![k] = "closed"]
          \/ at' = [at EXCEPT ![k] = "verdict"]
      BY DEF Greeted
    <3> QED  BY <3>1 DEF IpcInv, Shape
  <2> QED  BY <2>1, <2>2, <2>3 DEF IpcInv, Shape, Greeted
<1>8. ReplyMatches' /\ unsent \subseteq unsent'
  BY DEF IpcInv, ReplyMatches, Greeted
<1>9. /\ peer'[k] = peer[k] /\ phase'[k] = phase[k] /\ sent'[k] = sent[k]
      /\ run'[k] = run[k] /\ buf'[k] = buf[k] /\ need'[k] = need[k] /\ hdr'[k] = hdr[k]
      /\ server'[k] = server[k] /\ password'[k] = password[k] /\ down'[k] = rest
  BY <1>6 DEF IpcInv, Shape, Greeted
<1>10. /\ phase[k] # "handshake" /\ Len(down[k]) = 2
       /\ down[k][2].v = IF server[k] \in Secured THEN 1 ELSE 0
  <2>1. Len(down[k]) >= 2
    BY DEF Greeted, Arrived
  <2>2. down[k] # <<>>
    BY <2>1
  <2>3. phase[k] # "handshake" /\ down[k] = <<Unit("version", 0), Unit("auth", IF server[k] \in Secured THEN 1 ELSE 0)>>
    BY <1>1, <2>2 DEF ConnInv, Downstream
  <2> QED  BY <2>3 DEF Unit
<1>11. rest = <<>>
  BY <1>10 DEF rest
<1>12. Serving(k)' = Serving(k) /\ Unhandled(k)' = Unhandled(k)
  BY <1>9 DEF Serving, Unhandled
<1>13. Len(run[k]) = 0 /\ Len(sent[k]) = 0 /\ Unhandled(k) = 0
  BY <1>1, <1>2 DEF ConnInv, InOrder, Unhandled
<1>14. InOrder(k)'
  BY <1>1, <1>9 DEF ConnInv, InOrder
<1>15. CASE down[k][2].v = 0
  <2>1. at'[k] = "ready" /\ up'[k] = up[k]
    BY <1>15 DEF IpcInv, Shape, Greeted
  <2>2. server[k] \notin Secured /\ Serving(k)
    BY <1>1, <1>10, <1>15 DEF IpcInv, Shape, ConnInv, Stages, Serving
  <2>3. Stages(k)'
    BY <1>1, <1>9, <1>12, <2>1, <2>2 DEF ConnInv, Stages
  <2>4. Upstream(k)'
    <3>1. Arriving(k)' = Arriving(k)
      BY <1>9, <2>1 DEF Arriving
    <3>2. Pending(k)' = Pending(k)
      BY <1>9, <3>1 DEF Pending
    <3>3. phase[k] \in {"header", "payload"}
      BY <2>2 DEF Serving
    <3> QED  BY <1>1, <1>9, <1>12, <2>1, <3>1, <3>2, <3>3 DEF ConnInv, Upstream
  <2>5. Types(k)'
    BY <1>12, <1>13, <2>1 DEF Types
  <2>6. Downstream(k)'
    BY <1>9, <1>11, <2>1 DEF Downstream
  <2> QED  BY <1>7, <1>8, <1>14, <2>3, <2>4, <2>5, <2>6 DEF ConnInv
<1>16. CASE down[k][2].v # 0
  <2>1. server[k] \in Secured /\ phase[k] = "creds" /\ ~Serving(k)
    BY <1>1, <1>10, <1>16 DEF IpcInv, Shape, ConnInv, Stages, Serving
  <2>2. CASE password[k] = "none"
    <3>1. at' = [at EXCEPT ![k] = "closed"] /\ up'[k] = up[k]
      BY <1>16, <2>2 DEF Greeted
    <3>2. ClientOpen(k) /\ ConnInv(k) /\ Shape
      BY <1>1 DEF ClientOpen, IpcInv
    <3>3. ConnInv(k)'
      BY <1>9, <3>1, <3>2, ClosedClient
    <3> QED  BY <1>7, <1>8, <3>3
  <2>3. CASE password[k] # "none"
    <3>1. at'[k] = "verdict" /\ up'[k] = up[k] \o Credentials(password[k])
      BY SMTT(30), <1>16, <2>3 DEF IpcInv, Shape, Greeted
    <3>2. Stages(k)'
      BY <1>1, <1>9, <1>12, <2>1, <2>3, <3>1 DEF ConnInv, Stages
    <3>3. Types(k)'
      BY <3>1 DEF Types
    <3>4. Downstream(k)'
      BY <1>9, <1>11, <1>12, <2>1, <3>1 DEF Downstream
    <3>5. Upstream(k)'
      <4>1. CASE peer[k] = "open"
        <5>1. Asked(k)
          BY <1>1, <2>1, <4>1 DEF ConnInv, Upstream
        <5>2. need[k] = 1 /\ Arriving(k) = <<>>
          BY <1>1, <5>1 DEF Asked
        <5>3. buf[k] = <<>> /\ up[k] = <<>>
          BY <1>2, <5>2, ConcatEqualIffEmpty DEF Arriving
        <5>4. Arriving(k)' = Credentials(password[k])
          BY <1>3, <1>9, <3>1, <5>3, ConcatEmptySeq DEF Arriving
        <5>5. Asked(k)'
          BY <1>9, <3>1, <5>2, <5>4 DEF Asked
        <5> QED  BY <1>1, <1>9, <1>12, <2>1, <4>1, <5>5 DEF ConnInv, Upstream
      <4>2. CASE peer[k] # "open"
        <5>1. peer[k] # "queued"
          BY <1>1, <2>1 DEF ConnInv, Stages
        <5> QED  BY <1>1, <1>9, <4>2, <5>1 DEF ConnInv, Upstream
      <4> QED  BY <4>1, <4>2
    <3> QED  BY <1>7, <1>8, <1>14, <3>2, <3>3, <3>4, <3>5 DEF ConnInv
  <2> QED  BY <2>2, <2>3
<1> QED  BY <1>15, <1>16

\* The verdict is read.
LEMMA VerdictKeeps ==
  ASSUME IpcInv, NEW k \in Conn, Verdict(k)
  PROVE  Shape' /\ ReplyMatches' /\ unsent \subseteq unsent' /\ ConnInv(k)'
<1> USE DEF Move, Take, conn
<1> DEFINE rest == SubSeq(down[k], 2, Len(down[k]))
<1>1. ConnInv(k) /\ at[k] = "verdict" /\ sent[k] = <<>>
  BY DEF IpcInv, ConnInv, Stages, Verdict
<1>2. /\ down[k] \in Seq(Units) /\ run[k] \in Seq(1 .. MaxMsgs)
  BY DEF IpcInv, Shape
<1>3. rest \in Seq(Units)
  BY <1>2
<1>4. down' = [down EXCEPT ![k] = rest]
  BY DEF Verdict
<1> HIDE DEF rest
<1>5. Shape'
  <2>1. down' \in [Conn -> Seq(Units)]
    BY <1>3, <1>4 DEF IpcInv, Shape
  <2>2. at' \in [Conn -> {"new", "greeting", "verdict", "ready", "header", "payload", "closed"}]
    BY DEF IpcInv, Shape, Verdict
  <2> QED  BY <2>1, <2>2 DEF IpcInv, Shape, Verdict
<1>6. ReplyMatches' /\ unsent \subseteq unsent'
  BY DEF IpcInv, ReplyMatches, Verdict
<1>7. /\ peer'[k] = peer[k] /\ phase'[k] = phase[k] /\ sent'[k] = sent[k]
      /\ run'[k] = run[k] /\ buf'[k] = buf[k] /\ need'[k] = need[k] /\ hdr'[k] = hdr[k]
      /\ server'[k] = server[k] /\ password'[k] = password[k] /\ down'[k] = rest
      /\ up'[k] = up[k]
  BY <1>4 DEF IpcInv, Shape, Verdict
<1>8. down[k] # <<>>
  BY DEF Verdict, Arrived
<1>9. IF Serving(k) THEN down[k] = <<Unit("verdict", 0)>> ELSE down[k] = <<Unit("verdict", 1)>>
  BY <1>1, <1>8 DEF ConnInv, Downstream
<1>10. rest = <<>> /\ (Serving(k) <=> down[k][1].v = 0)
  <2>1. Len(down[k]) = 1
    BY <1>9
  <2>2. rest = <<>>
    BY <2>1, SubSeqEmpty DEF rest
  <2>3. Serving(k) <=> down[k][1].v = 0
    BY <1>9 DEF Unit
  <2> QED  BY <2>2, <2>3
<1>11. CASE Serving(k)
  <2>1. at'[k] = "ready"
    BY <1>10, <1>11 DEF IpcInv, Shape, Verdict
  <2>2. /\ Serving(k)' = Serving(k) /\ Unhandled(k)' = Unhandled(k) /\ Arriving(k)' = Arriving(k)
        /\ phase[k] \in {"header", "payload"}
    BY <1>7, <1>11 DEF Serving, Unhandled, Arriving
  <2>3. Pending(k)' = Pending(k)
    BY <1>7, <2>2 DEF Pending
  <2>4. Unhandled(k) = 0
    BY <1>1, <1>2 DEF ConnInv, InOrder, Unhandled
  <2>5. Stages(k)'
    BY <1>1, <1>7, <1>11, <2>1, <2>2 DEF ConnInv, Stages
  <2>6. InOrder(k)'
    BY <1>1, <1>7 DEF ConnInv, InOrder
  <2>7. Upstream(k)'
    BY <1>1, <1>7, <2>1, <2>2, <2>3 DEF ConnInv, Upstream
  <2>8. Types(k)'
    BY <2>1, <2>2, <2>4 DEF Types
  <2>9. Downstream(k)'
    BY <1>7, <1>10, <2>1 DEF Downstream
  <2> QED  BY <1>5, <1>6, <2>5, <2>6, <2>7, <2>8, <2>9 DEF ConnInv
<1>12. CASE ~Serving(k)
  <2>1. at' = [at EXCEPT ![k] = "closed"]
    BY <1>10, <1>12 DEF Verdict
  <2>2. ClientOpen(k) /\ Shape
    BY <1>1 DEF ClientOpen, IpcInv
  <2>3. ConnInv(k)'
    BY <1>1, <1>7, <2>1, <2>2, ClosedClient
  <2> QED  BY <1>5, <1>6, <2>3
<1> QED  BY <1>11, <1>12

\* A message is sent, or refused because the server has hung up.
LEMMA SendKeeps ==
  ASSUME IpcInv, NEW k \in Conn, NEW t \in {Sync, Async}, Send(k, t)
  PROVE  Shape' /\ ReplyMatches' /\ unsent \subseteq unsent' /\ ConnInv(k)'
<1> USE DEF Move, conn
<1> DEFINE id == msgs + 1
           m == Message(id, t)
<1>0. PICK n : n = Unhandled(k)
  OBVIOUS
<1>1. /\ at[k] = "ready" /\ msgs < MaxMsgs /\ msgs' = id /\ msgs \in 0 .. MaxMsgs
      /\ MaxMsgs \in Nat /\ ConnInv(k) /\ Serving(k)
  BY IpcAssumption DEF IpcInv, Shape, ConnInv, Stages, Send
<1>2. id \in 1 .. MaxMsgs /\ id \in 0 .. MaxMsgs
  BY <1>1
<1>3. m \in Seq(Units)
  BY <1>2, MessageShape
<1>4. /\ up[k] \in Seq(Units) /\ buf[k] \in Seq(Units) /\ hdr[k] \in Seq(Units)
      /\ sent[k] \in Seq(1 .. MaxMsgs) /\ run[k] \in Seq(1 .. MaxMsgs)
  BY DEF IpcInv, Shape
<1>5. up[k] \o m \in Seq(Units) /\ Append(sent[k], id) \in Seq(1 .. MaxMsgs)
  BY <1>2, <1>3, <1>4
<1>6. IF peer[k] = "closed" THEN up' = up /\ sent' = sent
      ELSE /\ up' = [up EXCEPT ![k] = up[k] \o m]
           /\ sent' = [sent EXCEPT ![k] = Append(sent[k], id)]
  BY <1>1 DEF Send
<1>7. \/ t = Sync /\ at' = [at EXCEPT ![k] = "header"] /\ awaited' = [awaited EXCEPT ![k] = id]
      \/ (t = Async \/ peer[k] = "closed") /\ at' = at /\ awaited' = awaited
  BY <1>1 DEF Send
<1>8. /\ server' = server /\ password' = password /\ reply' = reply /\ got' = got
      /\ down' = down /\ unsent' = unsent /\ peer' = peer /\ phase' = phase
      /\ need' = need /\ buf' = buf /\ hdr' = hdr /\ run' = run
  BY DEF Send
<1> HIDE DEF m, id
<1>9. Shape'
  <2>1. up' \in [Conn -> Seq(Units)] /\ sent' \in [Conn -> Seq(1 .. MaxMsgs)]
    BY <1>5, <1>6 DEF IpcInv, Shape
  <2>2. at' \in [Conn -> {"new", "greeting", "verdict", "ready", "header", "payload", "closed"}]
    BY <1>7 DEF IpcInv, Shape
  <2>3. awaited' \in [Conn -> 0 .. MaxMsgs]
    BY ZenonT(60), <1>2, <1>7 DEF IpcInv, Shape
  <2>4. msgs' \in 0 .. MaxMsgs
    BY <1>1, <1>2
  <2> QED  BY <1>8, <2>1, <2>2, <2>3, <2>4 DEF IpcInv, Shape
<1>10. ReplyMatches' /\ unsent \subseteq unsent'
  BY <1>8 DEF IpcInv, ReplyMatches
<1>11. Serving(k)' = Serving(k) /\ Serving(k)' /\ phase[k] \in {"header", "payload"}
  BY <1>1, <1>8 DEF Serving
<1>12. at'[k] \in {"ready", "header"}
  BY <1>1, <1>7 DEF IpcInv, Shape
<1>13. Stages(k)'
  <2>1. peer[k] \notin {"none", "queued"}
    BY <1>1, <1>11 DEF ConnInv, Stages
  <2>2. server[k] \in Secured => password[k] = "right"
    BY <1>1 DEF ConnInv, Stages
  <2>3. server' = server /\ password' = password /\ phase' = phase /\ peer' = peer
    BY <1>8
  <2> QED  BY <1>11, <1>12, <2>1, <2>2, <2>3 DEF Stages
<1>14. down[k] = <<>> \/ Leftover(down[k])
  BY <1>1 DEF ConnInv, Downstream
<1>15. n \in Nat /\ n = Len(sent[k]) - Len(run[k]) /\ Len(sent[k]) \in Nat /\ Len(run[k]) \in Nat
       /\ Len(run[k]) <= Len(sent[k])
  BY <1>0, <1>1, <1>4 DEF Unhandled, ConnInv, InOrder
<1>16. CASE peer[k] = "closed"
  <2>1. sent'[k] = sent[k] /\ run'[k] = run[k] /\ peer'[k] = "closed"
    BY <1>6, <1>8, <1>16
  <2>2. InOrder(k)'
    BY <1>1, <2>1 DEF ConnInv, InOrder
  <2>3. Upstream(k)'
    BY <1>1, <1>8, <2>1 DEF ConnInv, Upstream
  <2>4. Types(k)'
    BY <2>1 DEF Types
  <2>5. Downstream(k)'
    BY <1>8, <1>12, <1>14, <2>1 DEF Downstream
  <2> QED  BY <1>9, <1>10, <1>13, <2>2, <2>3, <2>4, <2>5 DEF ConnInv
<1>17. CASE peer[k] # "closed"
  <2>1. peer[k] = "open" /\ peer'[k] = "open"
    BY <1>1, <1>8, <1>11, <1>17 DEF IpcInv, Shape, ConnInv, Stages
  <2>2. sent'[k] = Append(sent[k], id) /\ up'[k] = up[k] \o m
    BY <1>6, <1>17 DEF IpcInv, Shape
  <2>3. /\ Len(sent'[k]) = Len(sent[k]) + 1 /\ sent'[k][Len(sent'[k])] = id
        /\ \A i \in 1 .. Len(sent[k]) : sent'[k][i] = sent[k][i]
    BY <1>2, <1>4, <2>2, AppendProperties
  <2>4. InOrder(k)'
    BY SMTT(30), <1>1, <1>8, <1>15, <2>3 DEF ConnInv, InOrder
  <2>5. Arriving(k) \in Seq(Units) /\ Arriving(k)' = Arriving(k) \o m
    <3>1. buf[k] \o up[k] \in Seq(Units)
      BY <1>4, ConcatProperties
    <3>2. buf[k] \o (up[k] \o m) = (buf[k] \o up[k]) \o m
      <4>1. buf[k] \in Seq(Units) /\ up[k] \in Seq(Units) /\ m \in Seq(Units)
        BY <1>3, <1>4
      <4> QED  BY ONLY <4>1, Regroup, Zenon
    <3> QED  BY <1>8, <2>2, <3>1, <3>2 DEF Arriving
  <2>6. Pending(k) \in Seq(Units) /\ Pending(k)' = Pending(k) \o m
    <3>1. CASE phase[k] = "payload"
      <4> DEFINE c == Arriving(k)
      <4>1. c \in Seq(Units)
        BY <2>5
      <4> HIDE DEF c
      <4>2. hdr[k] \o c \in Seq(Units) /\ hdr[k] \o (c \o m) = (hdr[k] \o c) \o m
        <5>1. hdr[k] \in Seq(Units) /\ c \in Seq(Units) /\ m \in Seq(Units)
          BY <1>3, <1>4, <4>1
        <5>2. hdr[k] \o c \in Seq(Units)
          BY ONLY <5>1, ConcatProperties
        <5>3. hdr[k] \o (c \o m) = (hdr[k] \o c) \o m
          BY ONLY <5>1, Regroup, Zenon
        <5> QED  BY <5>2, <5>3
      <4>3. Pending(k) = hdr[k] \o c /\ Pending(k)' = hdr[k] \o (c \o m)
        BY <1>8, <2>5, <3>1 DEF Pending, c
      <4> QED  BY <4>2, <4>3
    <3>2. CASE phase[k] # "payload"
      BY <1>8, <2>5, <3>2 DEF Pending
    <3> QED  BY <3>1, <3>2
  <2>7. Carries(Pending(k), sent[k], Len(run[k]))
    BY <1>1, <2>1 DEF ConnInv, Upstream
  <2>8. /\ Carries(Pending(k)', sent'[k], Len(run[k]))
        /\ \A j \in 0 .. n - 1 : Pending(k)'[Before(j) + 2] = Pending(k)[Before(j) + 2]
        /\ Pending(k)'[Before(n) + 2].v = t
    <3> DEFINE V == Pending(k)
    <3>1. V \in Seq(Units) /\ Carries(V, sent[k], Len(run[k])) /\ Pending(k)' = V \o m
      BY <2>6, <2>7
    <3> HIDE DEF V
    <3>2. LET more == V \o Message(id, t)
          IN /\ Carries(more, Append(sent[k], id), Len(run[k]))
             /\ \A j \in 0 .. Len(sent[k]) - Len(run[k]) - 1 : more[Before(j) + 2] = V[Before(j) + 2]
             /\ more[Before(Len(sent[k]) - Len(run[k])) + 2].v = t
      <4>1. sent[k] \in Seq(1 .. MaxMsgs) /\ Len(run[k]) \in Nat /\ Len(run[k]) <= Len(sent[k])
        BY <1>4, <1>15
      <4> QED  BY ONLY <1>2, <3>1, <4>1, t \in {Sync, Async}, CarriesMore
    <3>3. m = Message(id, t)
      BY DEF m
    <3> QED  BY <1>15, <2>2, <3>1, <3>2, <3>3 DEF V
  <2>9. Upstream(k)'
    <3>1. Len(buf[k]) <= need[k] /\ (phase[k] = "header" => need[k] = HeaderSize)
          /\ (phase[k] = "payload" => need[k] = PayloadSize /\ Len(hdr[k]) = HeaderSize)
      BY <1>1, <2>1 DEF ConnInv, Upstream
    <3> QED  BY <1>8, <1>11, <2>1, <2>8, <3>1 DEF Upstream
  <2>10. Unhandled(k)' = n + 1
    <3>1. Len(sent'[k]) - Len(run'[k]) = n + 1
      BY <1>8, <1>15, <2>3
    <3> QED  BY <3>1 DEF Unhandled
  <2>11. PICK W : W = Pending(k)'
    OBVIOUS
  <2>12. \A j \in 0 .. n - 1 : W[Before(j) + 2].v = Async
    BY <1>0, <1>1, <2>1, <2>8, <2>11 DEF ConnInv, Types, TypeOf
  <2>13. W[Before(n) + 2].v = t
    BY <2>8, <2>11
  <2>14. /\ at'[k] = "header" => t = Sync /\ awaited'[k] = id
         /\ at'[k] = "ready" => t = Async
    BY <1>1, <1>7, <1>17 DEF IpcInv, Shape
  <2>15. \A j : TypeOf(k, j)' = W[Before(j) + 2].v
    BY <2>11 DEF TypeOf
  <2>16. Types(k)'
    <3>1. \A j \in 0 .. (n + 1) - 1 : j \in 0 .. n - 1 \/ j = n
      <4>1. n \in Nat
        BY <1>15
      <4> QED  BY ONLY <4>1
    <3>2. t = Async => \A j \in 0 .. (n + 1) - 1 : W[Before(j) + 2].v = Async
      BY <2>12, <2>13, <3>1
    <3>3. t = Sync => \A j \in 0 .. (n + 1) - 1 : W[Before(j) + 2].v = Sync <=> j = (n + 1) - 1
      <4>1. Sync # Async /\ (n + 1) - 1 = n /\ n \notin 0 .. n - 1
        BY <1>15 DEF Sync, Async
      <4> QED  BY <2>12, <2>13, <3>1, <4>1
    <3> QED  BY SMTT(30), <1>12, <2>3, <2>10, <2>14, <2>15, <3>2, <3>3 DEF Types
  <2>17. Downstream(k)'
    <3>1. Unhandled(k)' # 0
      BY <1>15, <2>10
    <3> QED  BY <1>8, <1>12, <1>14, <3>1 DEF Downstream
  <2> QED  BY <1>9, <1>10, <1>13, <2>4, <2>9, <2>16, <2>17 DEF ConnInv
<1> QED  BY <1>16, <1>17

\* The payload of a reply, as a sequence.
LEMMA PayloadShape ==
  ASSUME NEW id \in 0 .. MaxMsgs, NEW p, p = [n \in 1 .. PayloadSize |-> Unit("data", id)]
  PROVE  /\ p \in Seq(Units) /\ Len(p) = PayloadSize
         /\ \A i \in 1 .. PayloadSize : p[i] = Unit("data", id)
         /\ {u.v : u \in ToSet(p)} = {id}
<1>1. PayloadSize \in Nat \ {0}
  BY IpcAssumption
<1>2. Unit("data", id) \in Units
  BY UnitTypes
<1>3. p \in Seq(Units) /\ Len(p) = PayloadSize
  <2>1. p \in [1 .. PayloadSize -> Units]
    BY <1>2
  <2>2. p \in Seq(Units)
    BY <1>1, <2>1
  <2> QED  BY <1>1, <2>1, <2>2
<1>4. \A i \in 1 .. PayloadSize : p[i] = Unit("data", id)
  OBVIOUS
<1>5. DOMAIN p = 1 .. PayloadSize /\ 1 \in 1 .. PayloadSize
  BY <1>1
<1>6. ToSet(p) = {Unit("data", id)}
  BY <1>4, <1>5 DEF ToSet
<1>7. {u.v : u \in {Unit("data", id)}} = {id}
  BY DEF Unit
<1> QED  BY <1>3, <1>4, <1>6, <1>7

\* The header of a reply is read: that of the reply it waits for, or else the
\* handle is closed.
LEMMA ReadReplyHeaderKeeps ==
  ASSUME IpcInv, NEW k \in Conn, ReadReplyHeader(k)
  PROVE  Shape' /\ ReplyMatches' /\ unsent \subseteq unsent' /\ ConnInv(k)'
<1> USE DEF Move, Take, CloseClient, conn
<1> DEFINE rest == SubSeq(down[k], 3, Len(down[k]))
           head == SubSeq(down[k], 1, 2)
<1>1. ConnInv(k) /\ at[k] = "header"
  BY DEF IpcInv, ReadReplyHeader
<1>2. down[k] \in Seq(Units) /\ awaited[k] \in 0 .. MaxMsgs
  BY DEF IpcInv, Shape
<1>3. Len(down[k]) >= 2
  BY DEF ReadReplyHeader, Arrived, HeaderSize
<1>4. rest \in Seq(Units) /\ head \in Seq(Units) /\ head[1] = down[k][1]
  <2>1. \A i \in 3 .. Len(down[k]) : down[k][i] \in Units
    BY <1>2
  <2>2. \A i \in 1 .. 2 : down[k][i] \in Units
    BY <1>2, <1>3
  <2>3. rest \in Seq(Units)
    BY <1>2, <2>1, SubSeqProperties
  <2>4. head \in Seq(Units) /\ head[1] = down[k][1]
    BY <2>2, SubSeqProperties
  <2> QED  BY <2>3, <2>4
<1>5. down' = [down EXCEPT ![k] = rest] /\ reply' = [reply EXCEPT ![k] = head]
  BY DEF ReadReplyHeader, HeaderSize
<1> HIDE DEF rest, head
<1>6. Shape'
  <2>1. down' \in [Conn -> Seq(Units)] /\ reply' \in [Conn -> Seq(Units)]
    BY <1>4, <1>5 DEF IpcInv, Shape
  <2>2. at' \in [Conn -> {"new", "greeting", "verdict", "ready", "header", "payload", "closed"}]
    <3>1. at' = [at EXCEPT ![k] = "payload"] \/ at' = [at EXCEPT ![k] = "closed"]
      BY DEF ReadReplyHeader
    <3> QED  BY <3>1 DEF IpcInv, Shape
  <2>3. awaited' \in [Conn -> 0 .. MaxMsgs]
    <3>1. awaited' = awaited \/ awaited' = [awaited EXCEPT ![k] = 0]
      BY DEF ReadReplyHeader
    <3>2. 0 \in 0 .. MaxMsgs /\ awaited \in [Conn -> 0 .. MaxMsgs]
      BY IpcAssumption DEF IpcInv, Shape
    <3> QED  BY ONLY <3>1, <3>2
  <2> QED  BY <2>1, <2>2, <2>3 DEF IpcInv, Shape, ReadReplyHeader
<1>7. ReplyMatches' /\ unsent \subseteq unsent'
  BY DEF IpcInv, ReplyMatches, ReadReplyHeader
<1>8. /\ peer'[k] = peer[k] /\ phase'[k] = phase[k] /\ sent'[k] = sent[k]
      /\ run'[k] = run[k] /\ buf'[k] = buf[k] /\ need'[k] = need[k] /\ hdr'[k] = hdr[k]
      /\ server'[k] = server[k] /\ password'[k] = password[k] /\ up'[k] = up[k]
      /\ down'[k] = rest /\ reply'[k] = head
  BY <1>5 DEF IpcInv, Shape, ReadReplyHeader
<1>9. CASE down[k][1].k = "prefix"
  <2>1. at'[k] = "payload" /\ awaited'[k] = awaited[k]
    BY <1>9 DEF IpcInv, Shape, ReadReplyHeader
  <2>2. down[k] # <<>> /\ ~Leftover(down[k])
    BY <1>3, <1>9 DEF Leftover
  <2>3. down[k] = Message(awaited[k], Resp)
    BY <1>1, <2>2 DEF ConnInv, Downstream
  <2>4. peer[k] = "open" => Unhandled(k) = 0
    <3>1. peer[k] = "open" => ~(Unhandled(k) > 0)
      BY <1>1, <2>2 DEF ConnInv, Downstream
    <3>2. Unhandled(k) \in Nat
      BY <1>1 DEF IpcInv, Shape, ConnInv, InOrder, Unhandled
    <3> QED  BY <3>1, <3>2
  <2>5. /\ Len(down[k]) = PayloadSize + 2 /\ down[k][1].v = awaited[k]
        /\ \A i \in 1 .. PayloadSize : down[k][2 + i] = Unit("data", awaited[k])
    <3>1. LET m == Message(awaited[k], Resp)
          IN /\ Len(m) = PayloadSize + 2 /\ m[1] = Unit("prefix", awaited[k])
             /\ \A i \in 1 .. PayloadSize : m[2 + i] = Unit("data", awaited[k])
      BY <1>2, MessageShape
    <3>2. Unit("prefix", awaited[k]).v = awaited[k]
      BY DEF Unit
    <3> QED  BY <2>3, <3>1, <3>2
  <2>6. rest = [n \in 1 .. PayloadSize |-> Unit("data", awaited[k])]
    <3> DEFINE p == [n \in 1 .. PayloadSize |-> Unit("data", awaited[k])]
    <3>1. p \in Seq(Units) /\ Len(p) = PayloadSize
          /\ \A i \in 1 .. PayloadSize : p[i] = Unit("data", awaited[k])
      BY <1>2, PayloadShape
    <3> HIDE DEF p
    <3>2. PayloadSize \in Nat
      BY IpcAssumption
    <3>3. Len(rest) = PayloadSize /\ \A i \in 1 .. PayloadSize : rest[i] = down[k][2 + i]
      <4>1. \A i \in 3 .. PayloadSize + 2 : down[k][i] \in Units
        BY <1>2, <2>5, <3>2
      <4>2. rest = SubSeq(down[k], 3, PayloadSize + 2)
        BY <2>5 DEF rest
      <4>3. /\ Len(rest) = IF 3 <= PayloadSize + 2 THEN (PayloadSize + 2) - 3 + 1 ELSE 0
            /\ \A i \in 1 .. (PayloadSize + 2) - 3 + 1 : rest[i] = down[k][3 + i - 1]
        <5>1. 3 \in Int /\ PayloadSize + 2 \in Int
          BY <3>2
        <5> QED  BY <4>1, <4>2, <5>1, SubSeqProperties
      <4>4. PayloadSize + 2 - 3 + 1 = PayloadSize /\ (3 <= PayloadSize + 2 <=> PayloadSize # 0)
        BY <3>2
      <4>5. \A i \in 1 .. PayloadSize : 3 + i - 1 = 2 + i
        BY <3>2
      <4> QED  BY <3>2, <4>3, <4>4, <4>5
    <3>4. \A i \in 1 .. Len(rest) : rest[i] = p[i]
      BY <2>5, <3>1, <3>3
    <3>5. rest = p
      BY <1>4, <3>1, <3>3, <3>4, SeqEqual
    <3> QED  BY <3>5 DEF p
  <2>7. /\ Serving(k)' = Serving(k) /\ Unhandled(k)' = Unhandled(k) /\ Arriving(k)' = Arriving(k)
        /\ Serving(k) /\ phase[k] \in {"header", "payload"}
    BY <1>1, <1>8 DEF Serving, Unhandled, Arriving, ConnInv, Stages
  <2>8. Pending(k)' = Pending(k)
    BY <1>8, <2>7 DEF Pending
  <2>9. Stages(k)'
    BY <1>1, <1>8, <2>1, <2>7 DEF ConnInv, Stages
  <2>10. InOrder(k)'
    BY <1>1, <1>8 DEF ConnInv, InOrder
  <2>11. Upstream(k)'
    BY <1>1, <1>8, <2>7, <2>8 DEF ConnInv, Upstream
  <2>12. Types(k)'
    BY <1>8, <2>1, <2>4, <2>7 DEF Types
  <2>13. Downstream(k)'
    <3>1. reply'[k][1].v = awaited'[k]
      BY <1>4, <1>8, <2>1, <2>5
    <3>2. down'[k] = [n \in 1 .. PayloadSize |-> Unit("data", awaited'[k])]
      BY <1>8, <2>1, <2>6
    <3> QED  BY <2>1, <3>1, <3>2 DEF Downstream
  <2> QED  BY <1>6, <1>7, <2>9, <2>10, <2>11, <2>12, <2>13 DEF ConnInv
<1>10. CASE down[k][1].k # "prefix"
  <2>1. at' = [at EXCEPT ![k] = "closed"]
    BY <1>10 DEF ReadReplyHeader
  <2>2. ClientOpen(k) /\ Shape
    BY <1>1 DEF ClientOpen, IpcInv
  <2>3. ConnInv(k)'
    BY <1>1, <1>8, <2>1, <2>2, ClosedClient
  <2> QED  BY <1>6, <1>7, <2>3
<1> QED  BY <1>9, <1>10

\* The payload of a reply is read: the result of the message waited for.
LEMMA ReadReplyPayloadKeeps ==
  ASSUME IpcInv, NEW k \in Conn, ReadReplyPayload(k)
  PROVE  Shape' /\ ReplyMatches' /\ unsent \subseteq unsent' /\ ConnInv(k)'
<1> USE DEF Move, Take, conn
<1>1. ConnInv(k) /\ at[k] = "payload"
  BY DEF IpcInv, ReadReplyPayload
<1>2. down[k] \in Seq(Units) /\ awaited[k] \in 0 .. MaxMsgs /\ PayloadSize \in Nat
  BY IpcAssumption DEF IpcInv, Shape
<1>3. /\ down[k] = [n \in 1 .. PayloadSize |-> Unit("data", awaited[k])]
      /\ reply[k][1].v = awaited[k]
  BY <1>1 DEF ConnInv, Downstream
<1>4. Len(down[k]) = PayloadSize /\ {u.v : u \in ToSet(down[k])} = {awaited[k]}
  BY <1>2, <1>3, PayloadShape
<1>5. SubSeq(down[k], 1, PayloadSize) = down[k]
  BY <1>2, <1>4, SubSeqFull
<1>6. SubSeq(down[k], PayloadSize + 1, Len(down[k])) = <<>>
  BY <1>2, <1>4, SubSeqEmpty
<1>7. down' = [down EXCEPT ![k] = <<>>]
  BY <1>6 DEF ReadReplyPayload
<1>8. Shape'
  <2>1. down' \in [Conn -> Seq(Units)]
    BY <1>7 DEF IpcInv, Shape
  <2>2. at' \in [Conn -> {"new", "greeting", "verdict", "ready", "header", "payload", "closed"}]
    BY DEF IpcInv, Shape, ReadReplyPayload
  <2>3. awaited' \in [Conn -> 0 .. MaxMsgs]
    BY IpcAssumption DEF IpcInv, Shape, ReadReplyPayload
  <2> QED  BY <2>1, <2>2, <2>3 DEF IpcInv, Shape, ReadReplyPayload
<1>9. ReplyMatches'
  <2> DEFINE g == [asked |-> awaited[k], header |-> reply[k][1].v,
                   payload |-> {u.v : u \in ToSet(SubSeq(down[k], 1, PayloadSize))}]
  <2>1. got' = got \cup {g}
    BY DEF ReadReplyPayload
  <2>2. g.header = g.asked /\ g.payload = {g.asked}
    BY <1>3, <1>4, <1>5
  <2> HIDE DEF g
  <2> QED  BY <2>1, <2>2 DEF IpcInv, ReplyMatches
<1>10. unsent \subseteq unsent'
  BY DEF ReadReplyPayload
<1>11. /\ peer'[k] = peer[k] /\ phase'[k] = phase[k] /\ sent'[k] = sent[k]
       /\ run'[k] = run[k] /\ buf'[k] = buf[k] /\ need'[k] = need[k] /\ hdr'[k] = hdr[k]
       /\ server'[k] = server[k] /\ password'[k] = password[k] /\ up'[k] = up[k]
       /\ down'[k] = <<>> /\ at'[k] = "ready"
  BY <1>7 DEF IpcInv, Shape, ReadReplyPayload
<1>12. /\ Serving(k)' = Serving(k) /\ Unhandled(k)' = Unhandled(k) /\ Arriving(k)' = Arriving(k)
       /\ Serving(k) /\ phase[k] \in {"header", "payload"}
  BY <1>1, <1>11 DEF Serving, Unhandled, Arriving, ConnInv, Stages
<1>13. Pending(k)' = Pending(k)
  BY <1>11, <1>12 DEF Pending
<1>14. Stages(k)'
  BY <1>1, <1>11, <1>12 DEF ConnInv, Stages
<1>15. InOrder(k)'
  BY <1>1, <1>11 DEF ConnInv, InOrder
<1>16. Upstream(k)'
  BY <1>1, <1>11, <1>12, <1>13 DEF ConnInv, Upstream
<1>17. Types(k)'
  <2>1. peer[k] = "open" => Unhandled(k)' = 0
    BY <1>1, <1>12 DEF ConnInv, Types
  <2> QED  BY <1>11, <2>1 DEF Types
<1>18. Downstream(k)'
  BY <1>11 DEF Downstream
<1> QED  BY <1>8, <1>9, <1>10, <1>14, <1>15, <1>16, <1>17, <1>18 DEF ConnInv

-----------------------------------------------------------------------------
(* The steps of the server. *)

\* The server hangs up: nothing is read of the connection any more.
LEMMA HungUp ==
  ASSUME Shape, NEW k \in Conn, ConnInv(k), at[k] # "new", peer'[k] = "closed", buf'[k] = <<>>,
         at'[k] = at[k], server'[k] = server[k], password'[k] = password[k],
         awaited'[k] = awaited[k], reply'[k] = reply[k], down'[k] = down[k],
         phase'[k] = phase[k], need'[k] = need[k], sent'[k] = sent[k], run'[k] = run[k]
  PROVE  ConnInv(k)'
<1>1. Serving(k)' = Serving(k)
  BY DEF Serving
<1>2. Stages(k)'
  BY <1>1 DEF ConnInv, Stages
<1>3. InOrder(k)'
  BY DEF ConnInv, InOrder
<1>4. Upstream(k)'
  <2>1. need[k] \in Nat
    BY DEF Shape
  <2> QED  BY <2>1 DEF Upstream
<1>5. Types(k)'
  BY DEF Types
<1>6. Downstream(k)'
  BY <1>1 DEF ConnInv, Downstream
<1> QED  BY <1>2, <1>3, <1>4, <1>5, <1>6 DEF ConnInv

\* A connection is dropped.
LEMMA DropKeeps ==
  ASSUME IpcInv, NEW k \in Conn, Drop(k)
  PROVE  Shape' /\ ReplyMatches' /\ unsent \subseteq unsent' /\ ConnInv(k)'
<1> USE DEF Hangup, client
<1>1. Shape'
  BY SMTT(30) DEF IpcInv, Shape, Drop
<1>2. ReplyMatches' /\ unsent \subseteq unsent'
  BY DEF IpcInv, ReplyMatches, Drop
<1>3. ConnInv(k) /\ Shape /\ at[k] # "new"
  BY DEF IpcInv, ConnInv, Stages, Drop
<1>4. ConnInv(k)'
  <2>1. /\ peer'[k] = "closed" /\ buf'[k] = <<>>
        /\ at'[k] = at[k] /\ server'[k] = server[k] /\ password'[k] = password[k]
        /\ awaited'[k] = awaited[k] /\ reply'[k] = reply[k] /\ down'[k] = down[k]
        /\ phase'[k] = phase[k] /\ need'[k] = need[k] /\ sent'[k] = sent[k] /\ run'[k] = run[k]
    BY <1>3 DEF Shape, Drop
  <2> QED  BY <1>3, <2>1, HungUp
<1> QED  BY <1>1, <1>2, <1>4

\* A connection is accepted, or refused.
LEMMA AcceptKeeps ==
  ASSUME IpcInv, NEW k \in Conn, Accept(k)
  PROVE  Shape' /\ ReplyMatches' /\ unsent \subseteq unsent' /\ ConnInv(k)'
<1> USE DEF Hangup, client, Phase, RxRequest
<1>1. Shape'
  <2>1. peer' \in [Conn -> {"none", "queued", "open", "closed"}]
    <3>1. peer' = [peer EXCEPT ![k] = "open"] \/ peer' = [peer EXCEPT ![k] = "closed"]
      BY DEF Accept
    <3>2. peer \in [Conn -> {"none", "queued", "open", "closed"}]
      BY DEF IpcInv, Shape
    <3> QED  BY ONLY <3>1, <3>2
  <2>2. phase' \in [Conn -> {"handshake", "creds", "header", "payload"}]
    <3>1. phase' = [phase EXCEPT ![k] = "handshake"] \/ phase' = phase
      BY DEF Accept
    <3> QED  BY <3>1 DEF IpcInv, Shape
  <2>3. need' \in [Conn -> Nat]
    <3>1. need' = [need EXCEPT ![k] = 2] \/ need' = need
      BY DEF Accept
    <3>2. need \in [Conn -> Nat] /\ 2 \in Nat
      BY DEF IpcInv, Shape
    <3> QED  BY ONLY <3>1, <3>2
  <2>4. buf' \in [Conn -> Seq(Units)]
    <3>1. buf' = [buf EXCEPT ![k] = <<>>]
      BY DEF Accept
    <3> QED  BY <3>1 DEF IpcInv, Shape
  <2> QED  BY <2>1, <2>2, <2>3, <2>4 DEF IpcInv, Shape, Accept
<1>2. ReplyMatches' /\ unsent \subseteq unsent'
  BY DEF IpcInv, ReplyMatches, Accept
<1>3. /\ ConnInv(k) /\ Shape /\ at[k] # "new" /\ peer[k] = "queued" /\ phase[k] = "handshake"
      /\ up[k] = Handshake /\ ~Serving(k)
  BY DEF IpcInv, ConnInv, Stages, Accept, Upstream, Serving
<1>4. /\ at'[k] = at[k] /\ server'[k] = server[k] /\ password'[k] = password[k]
      /\ awaited'[k] = awaited[k] /\ reply'[k] = reply[k] /\ down'[k] = down[k]
      /\ sent'[k] = sent[k] /\ run'[k] = run[k] /\ up'[k] = up[k]
  BY <1>3 DEF Shape, Accept
<1>5. CASE peer' = [peer EXCEPT ![k] = "open"]
  <2>1. peer'[k] = "open"
    BY <1>3, <1>5 DEF Shape
  <2>2. phase'[k] = "handshake" /\ need'[k] = 2 /\ buf'[k] = <<>>
    BY <1>3, <2>1 DEF Shape, Accept
  <2>3. Handshake \in Seq(Units)
    BY UnitTypes DEF Handshake
  <2>4. Arriving(k)' = Handshake
    BY <1>3, <1>4, <2>2, <2>3, ConcatEmptySeq DEF Arriving
  <2>5. ~Serving(k)' /\ at[k] \notin {"ready", "header", "payload", "verdict"} /\ sent[k] = <<>>
    BY <1>3, <2>2 DEF Serving, ConnInv, Stages
  <2>6. Stages(k)'
    BY <1>3, <1>4, <2>1, <2>2, <2>5 DEF ConnInv, Stages
  <2>7. InOrder(k)'
    BY <1>3, <1>4 DEF ConnInv, InOrder
  <2>8. Upstream(k)'
    BY <2>1, <2>2, <2>4, <2>5 DEF Upstream
  <2>9. Types(k)' /\ Downstream(k)'
    BY <1>3, <1>4, <2>2, <2>5 DEF ConnInv, Types, Downstream
  <2> QED  BY <1>1, <1>2, <2>6, <2>7, <2>8, <2>9 DEF ConnInv
<1>6. CASE peer' # [peer EXCEPT ![k] = "open"]
  <2>1. peer'[k] = "closed" /\ buf'[k] = <<>> /\ phase'[k] = phase[k] /\ need'[k] = need[k]
    BY <1>3, <1>6 DEF Shape, Accept
  <2> QED  BY <1>1, <1>2, <1>3, <1>4, <2>1, HungUp
<1> QED  BY <1>5, <1>6

\* Some of what is on the stream is read, or its end.
LEMMA RecvStepKeeps ==
  ASSUME IpcInv, NEW k \in Conn, Recv(k)
  PROVE  Shape' /\ ReplyMatches' /\ unsent \subseteq unsent' /\ ConnInv(k)'
<1> USE DEF Hangup, client
<1>1. ReplyMatches' /\ unsent \subseteq unsent'
  BY DEF IpcInv, ReplyMatches, Recv
<1>2. /\ ConnInv(k) /\ Shape /\ at[k] # "new" /\ peer[k] = "open" /\ Len(buf[k]) < need[k]
      /\ buf[k] \in Seq(Units) /\ up[k] \in Seq(Units) /\ need[k] \in Nat
  BY DEF IpcInv, ConnInv, Stages, Recv, Shape
<1>3. /\ at'[k] = at[k] /\ server'[k] = server[k] /\ password'[k] = password[k]
      /\ awaited'[k] = awaited[k] /\ reply'[k] = reply[k] /\ down'[k] = down[k]
      /\ sent'[k] = sent[k] /\ run'[k] = run[k] /\ phase'[k] = phase[k] /\ need'[k] = need[k]
      /\ hdr'[k] = hdr[k] /\ unsent' = unsent
  BY <1>2 DEF Shape, Recv
<1>4. CASE up[k] # <<>>
  <2> DEFINE b == Append(buf[k], Head(up[k]))
             u == Tail(up[k])
  <2>1. /\ b \in Seq(Units) /\ u \in Seq(Units) /\ Len(b) = Len(buf[k]) + 1
        /\ b \o u = buf[k] \o up[k]
    BY ZenonT(60), <1>2, <1>4, RecvKeeps
  <2>2. buf' = [buf EXCEPT ![k] = b] /\ up' = [up EXCEPT ![k] = u] /\ peer' = peer
    BY <1>4 DEF Recv
  <2> HIDE DEF b, u
  <2>3. Shape'
    <3>1. buf' \in [Conn -> Seq(Units)] /\ up' \in [Conn -> Seq(Units)]
      BY <1>2, <2>1, <2>2 DEF Shape
    <3> QED  BY <1>2, <2>2, <3>1 DEF Shape, Recv
  <2>4. buf'[k] = b /\ up'[k] = u /\ peer'[k] = peer[k]
    BY <1>2, <2>2 DEF Shape
  <2>5. /\ Serving(k)' = Serving(k) /\ Unhandled(k)' = Unhandled(k) /\ Arriving(k)' = Arriving(k)
    BY <1>3, <2>1, <2>4 DEF Serving, Unhandled, Arriving
  <2>6. Pending(k)' = Pending(k)
    BY <1>3, <2>5 DEF Pending
  <2>7. \A j : TypeOf(k, j)' = TypeOf(k, j)
    BY <2>6 DEF TypeOf
  <2>8. Stages(k)'
    BY <1>2, <1>3, <2>4, <2>5 DEF ConnInv, Stages
  <2>9. InOrder(k)'
    BY <1>2, <1>3 DEF ConnInv, InOrder
  <2>10. Upstream(k)'
    <3>1. Asked(k) => Asked(k)'
      BY <1>3, <2>5 DEF Asked
    <3>2. Len(buf'[k]) <= need'[k]
      BY <1>2, <1>3, <2>1, <2>4
    <3> QED  BY <1>2, <1>3, <2>4, <2>5, <2>6, <3>1, <3>2 DEF ConnInv, Upstream
  <2>11. Types(k)'
    BY <1>2, <1>3, <2>4, <2>5, <2>7 DEF ConnInv, Types
  <2>12. Downstream(k)'
    BY <1>2, <1>3, <2>4, <2>5 DEF ConnInv, Downstream
  <2> QED  BY <1>1, <2>3, <2>8, <2>9, <2>10, <2>11, <2>12 DEF ConnInv
<1>5. CASE up[k] = <<>>
  <2>1. Shape'
    BY ZenonT(60), <1>2, <1>5 DEF Shape, Recv
  <2>2. peer'[k] = "closed" /\ buf'[k] = <<>>
    BY <1>2, <1>5 DEF Shape, Recv
  <2> QED  BY <1>1, <1>2, <1>3, <2>1, <2>2, HungUp
<1> QED  BY <1>4, <1>5

\* The handshake is answered with a greeting.
LEMMA ReadHandshakeKeeps ==
  ASSUME IpcInv, NEW k \in Conn, ReadHandshake(k)
  PROVE  Shape' /\ ReplyMatches' /\ unsent \subseteq unsent' /\ ConnInv(k)'
<1> USE DEF Phase, RxRequest, client
<1> DEFINE g == <<Unit("version", 0), Unit("auth", IF server[k] \in Secured THEN 1 ELSE 0)>>
           d == IF ClientOpen(k) THEN down[k] \o g ELSE down[k]
<1>1. /\ ConnInv(k) /\ Shape /\ peer[k] = "open" /\ phase[k] = "handshake"
      /\ Len(buf[k]) = need[k] /\ buf[k] \in Seq(Units) /\ up[k] \in Seq(Units)
      /\ down[k] \in Seq(Units) /\ ~Serving(k) /\ run[k] \in Seq(1 .. MaxMsgs)
      /\ sent[k] \in Seq(1 .. MaxMsgs)
  BY DEF IpcInv, Shape, ReadHandshake, Called, Serving
<1>2. /\ at[k] \in {"greeting", "closed"} /\ sent[k] = <<>>
      /\ at[k] = "greeting" => down[k] = <<>>
      /\ need[k] = 2 /\ Arriving(k) = Handshake
  BY <1>1 DEF Shape, ConnInv, Stages, Upstream, Downstream
<1>3. up[k] = <<>>
  <2>1. Len(buf[k] \o up[k]) = Len(buf[k]) + Len(up[k])
    BY <1>1, ConcatProperties
  <2>2. Len(buf[k] \o up[k]) = 2
    BY <1>2 DEF Arriving, Handshake
  <2>3. Len(up[k]) = 0
    <3>1. Len(buf[k]) = 2 /\ Len(up[k]) \in Nat
      BY <1>1, <1>2
    <3>2. \A n \in Nat : 2 = 2 + n => n = 0
      OBVIOUS
    <3>3. 2 = 2 + Len(up[k])
      BY <2>1, <2>2, <3>1
    <3> QED  BY <3>1, <3>2, <3>3
  <2> QED  BY <1>1, <2>3
<1>4. run[k] = <<>> /\ Len(run[k]) = 0 /\ Len(sent[k]) = 0
  <2>1. Len(run[k]) <= Len(sent[k]) /\ Len(sent[k]) = 0
    BY <1>1, <1>2 DEF ConnInv, InOrder
  <2> QED  BY <1>1, <2>1
<1>5. g \in Seq(Units)
  BY UnitTypes
<1>6. /\ d \in Seq(Units) /\ down' = [down EXCEPT ![k] = d]
      /\ at[k] = "greeting" => d = g
  <2>1. d \in Seq(Units)
    BY <1>1, <1>5
  <2>2. at[k] = "greeting" => d = g
    <3>1. <<>> \o g = g
      BY <1>5, ConcatEmptySeq
    <3> QED  BY <1>2, <3>1 DEF ClientOpen
  <2>3. down' = [down EXCEPT ![k] = d]
    BY DEF ReadHandshake, Answer
  <2> QED  BY <2>1, <2>2, <2>3
<1> HIDE DEF d
<1>7. ReplyMatches' /\ unsent \subseteq unsent'
  BY DEF IpcInv, ReplyMatches, ReadHandshake
<1>8. /\ at' = at /\ server' = server /\ password' = password
      /\ awaited' = awaited /\ reply' = reply /\ msgs' = msgs /\ unsent' = unsent
      /\ sent' = sent /\ run' = run /\ up' = up /\ peer' = peer /\ hdr' = hdr
  BY DEF ReadHandshake
<1>9. /\ buf' = [buf EXCEPT ![k] = <<>>]
      /\ IF server[k] \in Secured
           THEN phase' = [phase EXCEPT ![k] = "creds"] /\ need' = [need EXCEPT ![k] = 1]
           ELSE phase' = [phase EXCEPT ![k] = "header"] /\ need' = [need EXCEPT ![k] = HeaderSize]
  BY DEF ReadHandshake
<1>10. Shape'
  <2>1. buf' \in [Conn -> Seq(Units)] /\ down' \in [Conn -> Seq(Units)]
    BY <1>1, <1>6, <1>9 DEF Shape
  <2>2. need' \in [Conn -> Nat]
    <3>1. need' = [need EXCEPT ![k] = 1] \/ need' = [need EXCEPT ![k] = 2]
      BY <1>9 DEF HeaderSize
    <3>2. need \in [Conn -> Nat] /\ 1 \in Nat /\ 2 \in Nat
      BY <1>1 DEF Shape
    <3> QED  BY ONLY <3>1, <3>2
  <2>3. phase' \in [Conn -> {"handshake", "creds", "header", "payload"}]
    BY <1>1, <1>9 DEF Shape
  <2> QED  BY <1>1, <1>8, <2>1, <2>2, <2>3 DEF Shape
<1>11. buf'[k] = <<>> /\ down'[k] = d /\ Arriving(k)' = <<>>
  <2>1. buf'[k] = <<>> /\ down'[k] = d
    BY <1>1, <1>6, <1>9 DEF Shape
  <2>2. <<>> \o up[k] = <<>>
    BY <1>1, <1>3, ConcatEmptySeq
  <2> QED  BY <1>8, <2>1, <2>2 DEF Arriving
<1>12. InOrder(k)'
  BY <1>1, <1>8 DEF ConnInv, InOrder
<1>13. CASE server[k] \in Secured
  <2>1. phase'[k] = "creds" /\ need'[k] = 1
    BY <1>1, <1>9, <1>13 DEF Shape
  <2>2. ~Serving(k)'
    BY <2>1 DEF Serving
  <2>3. Stages(k)'
    BY <1>1, <1>2, <1>8, <1>13, <2>1, <2>2 DEF Stages
  <2>4. Upstream(k)'
    BY <1>1, <1>2, <1>8, <1>11, <2>1, <2>2 DEF Upstream, Asked
  <2>5. Types(k)'
    BY <1>2, <1>8 DEF Types
  <2>6. Downstream(k)'
    BY <1>2, <1>6, <1>8, <1>11, <2>1 DEF Downstream
  <2> QED  BY <1>7, <1>10, <1>12, <2>3, <2>4, <2>5, <2>6 DEF ConnInv
<1>14. CASE server[k] \notin Secured
  <2>1. phase'[k] = "header" /\ need'[k] = HeaderSize
    BY <1>1, <1>9, <1>14 DEF Shape
  <2>2. Stages(k)'
    BY <1>1, <1>2, <1>8, <1>14, <2>1 DEF Stages
  <2>3. Upstream(k)'
    <3>1. Pending(k)' = <<>>
      BY <1>11, <2>1 DEF Pending
    <3>2. Carries(<<>>, sent[k], Len(run[k]))
      BY <1>2, <1>4, CarriesNothing
    <3>3. Len(buf'[k]) <= need'[k]
      BY <1>11, <2>1 DEF HeaderSize
    <3> QED  BY <1>1, <1>8, <2>1, <3>1, <3>2, <3>3 DEF Upstream
  <2>4. Types(k)'
    BY <1>2, <1>8 DEF Types
  <2>5. Downstream(k)'
    BY <1>2, <1>6, <1>8, <1>11, <2>1 DEF Downstream
  <2> QED  BY <1>7, <1>10, <1>12, <2>2, <2>3, <2>4, <2>5 DEF ConnInv
<1> QED  BY <1>13, <1>14

\* The credentials are read, first their length and then their text.
LEMMA ReadCredsKeeps ==
  ASSUME IpcInv, NEW k \in Conn, ReadCreds(k)
  PROVE  Shape' /\ ReplyMatches' /\ unsent \subseteq unsent' /\ ConnInv(k)'
<1> USE DEF Phase, RxRequest, client
<1>1. /\ ConnInv(k) /\ Shape /\ peer[k] = "open" /\ phase[k] = "creds"
      /\ Len(buf[k]) = need[k] /\ buf[k] \in Seq(Units) /\ up[k] \in Seq(Units)
      /\ down[k] \in Seq(Units) /\ ~Serving(k) /\ run[k] \in Seq(1 .. MaxMsgs)
      /\ sent[k] \in Seq(1 .. MaxMsgs) /\ password[k] \in {"right", "wrong", "none"}
  BY DEF IpcInv, Shape, ReadCreds, Called, Serving
<1>2. CredSize \in Nat \ {0} /\ Len(buf[k]) \in Nat /\ Len(up[k]) \in Nat
  BY <1>1, IpcAssumption
<1>3. Len(Arriving(k)) = Len(buf[k]) + Len(up[k])
  BY <1>1, ConcatProperties DEF Arriving
<1>4. Asked(k)
  BY <1>1 DEF ConnInv, Upstream
<1>5. /\ Arriving(k) = Credentials(password[k]) /\ at[k] \in {"verdict", "closed"}
      /\ need[k] = 1 \/ need[k] = 1 + CredSize
  <2>1. ~(need[k] = 1 /\ Arriving(k) = <<>>)
    <3>1. Len(<<>>) = 0
      OBVIOUS
    <3> QED  BY <1>1, <1>2, <1>3, <3>1
  <2>2. ~(need[k] = 1 + CredSize /\ Len(Arriving(k)) <= CredSize)
    BY <1>1, <1>2, <1>3
  <2> QED  BY <1>4, <2>1, <2>2 DEF Asked
<1>6. /\ Len(Credentials(password[k])) = 1 + CredSize /\ Credentials(password[k])[1].v = CredSize
      /\ Valid(Tail(Credentials(password[k]))) => password[k] = "right"
  BY <1>1, CredentialsShape
<1>7. buf[k][1].v = CredSize
  <2>1. 1 <= Len(buf[k])
    BY <1>1, <1>2, <1>5
  <2>2. 1 \in 1 .. Len(buf[k]) + Len(up[k])
    <3>1. \A a, b \in Nat : 1 <= a => 1 \in 1 .. a + b
      OBVIOUS
    <3> QED  BY <1>2, <2>1, <3>1
  <2>3. (buf[k] \o up[k])[1] = buf[k][1]
    BY <1>1, <2>1, <2>2, ConcatProperties
  <2> QED  BY <1>5, <1>6, <2>3 DEF Arriving
<1>8. sent[k] = <<>> /\ run[k] = <<>> /\ Len(run[k]) = 0
  <2>1. sent[k] = <<>> /\ Len(run[k]) <= Len(sent[k])
    BY <1>1, <1>5 DEF ConnInv, Stages, InOrder
  <2> QED  BY <1>1, <2>1
<1>9. /\ at' = at /\ server' = server /\ password' = password
      /\ awaited' = awaited /\ reply' = reply /\ msgs' = msgs /\ unsent' = unsent /\ got' = got
      /\ sent' = sent /\ run' = run /\ up' = up /\ hdr' = hdr
  BY DEF ReadCreds
<1>10. ReplyMatches' /\ unsent \subseteq unsent'
  BY <1>9 DEF IpcInv, ReplyMatches
<1>11. InOrder(k)'
  BY <1>1, <1>9 DEF ConnInv, InOrder
<1>12. CASE Len(buf[k]) < 1 + buf[k][1].v
  <2>1. MoreCredentials(k) /\ down' = down /\ peer' = peer /\ phase' = phase
    BY <1>12 DEF ReadCreds
  <2>2. need' = [need EXCEPT ![k] = 1 + CredSize]
    BY <1>7, <2>1 DEF MoreCredentials
  <2>3. IF server[k] = Poll THEN buf' = [buf EXCEPT ![k] = <<>>] ELSE buf' = buf
    BY <2>1 DEF MoreCredentials
  <2>4. Shape'
    <3>1. 1 + CredSize \in Nat
      BY <1>2
    <3>2. need' \in [Conn -> Nat]
      BY <1>1, <2>2, <3>1 DEF Shape
    <3>3. buf' \in [Conn -> Seq(Units)]
      <4>1. buf' = [buf EXCEPT ![k] = <<>>] \/ buf' = buf
        BY <2>3
      <4>2. buf \in [Conn -> Seq(Units)] /\ <<>> \in Seq(Units)
        BY <1>1 DEF Shape
      <4> QED  BY ONLY <4>1, <4>2
    <3> QED  BY <1>1, <1>9, <2>1, <3>2, <3>3 DEF Shape
  <2>5. need'[k] = 1 + CredSize /\ ~Serving(k)' /\ phase'[k] = "creds" /\ peer'[k] = "open"
    BY <1>1, <2>1, <2>2 DEF Shape, Serving
  <2>6. Stages(k)'
    BY <1>1, <1>9, <2>1, <2>5 DEF ConnInv, Stages
  <2>7. Asked(k)' /\ Len(buf'[k]) <= need'[k]
    <3>1. CASE server[k] = Poll
      <4>1. buf'[k] = <<>>
        BY <1>1, <2>3, <3>1 DEF Shape
      <4>2. Arriving(k)' = up[k]
        BY <1>1, <1>9, <4>1, ConcatEmptySeq DEF Arriving
      <4>3. Len(up[k]) <= CredSize
        <5>1. need[k] >= 1
          BY <1>2, <1>5
        <5>2. 1 + CredSize = Len(buf[k]) + Len(up[k])
          BY <1>3, <1>5, <1>6
        <5> QED  BY <1>1, <1>2, <5>1, <5>2
      <4>4. Len(buf'[k]) <= need'[k]
        BY <1>2, <2>5, <4>1
      <4> QED  BY <1>5, <1>9, <2>5, <3>1, <4>2, <4>3, <4>4 DEF Asked
    <3>2. CASE server[k] # Poll
      <4>1. buf' = buf
        BY <2>3, <3>2
      <4>2. Arriving(k)' = Arriving(k)
        BY <1>9, <4>1 DEF Arriving
      <4>3. Len(buf'[k]) <= need'[k]
        BY <1>2, <1>7, <1>12, <2>5, <4>1
      <4> QED  BY <1>5, <1>9, <2>5, <4>2, <4>3 DEF Asked
    <3> QED  BY <3>1, <3>2
  <2>8. Upstream(k)'
    BY <2>5, <2>7 DEF Upstream
  <2>9. Types(k)'
    BY <1>5, <1>9 DEF Types
  <2>10. Downstream(k)'
    <3>1. at[k] = "verdict" => down[k] = <<>>
      BY <1>1 DEF ConnInv, Downstream
    <3> QED  BY <1>5, <1>9, <2>1, <2>5, <3>1 DEF Downstream
  <2> QED  BY <1>10, <1>11, <2>4, <2>6, <2>8, <2>9, <2>10 DEF ConnInv
<1>13. CASE ~(Len(buf[k]) < 1 + buf[k][1].v)
  <2> DEFINE ok == Valid(Tail(buf[k]))
             g == <<Unit("verdict", IF ok THEN 0 ELSE 1)>>
             d == IF ClientOpen(k) THEN down[k] \o g ELSE down[k]
  <2>1. /\ down' = [down EXCEPT ![k] = d] /\ buf' = [buf EXCEPT ![k] = <<>>]
        /\ IF ok THEN /\ phase' = [phase EXCEPT ![k] = "header"] /\ peer' = peer
                      /\ need' = [need EXCEPT ![k] = HeaderSize]
                 ELSE /\ phase' = phase /\ need' = need /\ peer' = [peer EXCEPT ![k] = "closed"]
    BY <1>13 DEF ReadCreds, Answer, Hangup
  <2>2. g \in Seq(Units)
    BY UnitTypes
  <2>3. d \in Seq(Units) /\ (at[k] = "verdict" => d = g)
    <3>1. d \in Seq(Units)
      BY <1>1, <2>2
    <3>2. at[k] = "verdict" => down[k] = <<>>
      BY <1>1 DEF ConnInv, Downstream
    <3>3. <<>> \o g = g
      BY <2>2, ConcatEmptySeq
    <3> QED  BY <3>1, <3>2, <3>3 DEF ClientOpen
  <2>4. ok => password[k] = "right" /\ up[k] = <<>>
    <3>1. Len(buf[k]) >= 1 + CredSize
      BY <1>2, <1>7, <1>13
    <3>2. 1 + CredSize = Len(buf[k]) + Len(up[k])
      BY <1>3, <1>5, <1>6
    <3>3. Len(up[k]) = 0
      <4>1. \A a, b, c \in Nat : a >= 1 + c /\ 1 + c = a + b => b = 0
        OBVIOUS
      <4> QED  BY <1>2, <3>1, <3>2, <4>1
    <3>4. up[k] = <<>>
      BY <1>1, <3>3
    <3>5. buf[k] = Credentials(password[k])
      BY <1>1, <1>5, <3>4, ConcatEmptySeq DEF Arriving
    <3> QED  BY <1>6, <3>4, <3>5
  <2>5. g = IF ok THEN <<Unit("verdict", 0)>> ELSE <<Unit("verdict", 1)>>
    OBVIOUS
  <2> HIDE DEF ok, g, d
  <2>6. Shape'
    <3>1. buf' \in [Conn -> Seq(Units)] /\ down' \in [Conn -> Seq(Units)]
      BY <1>1, <2>1, <2>3 DEF Shape
    <3>2. need' \in [Conn -> Nat]
      <4>1. need' = [need EXCEPT ![k] = 2] \/ need' = need
        BY <2>1 DEF HeaderSize
      <4>2. need \in [Conn -> Nat] /\ 2 \in Nat
        BY <1>1 DEF Shape
      <4> QED  BY ONLY <4>1, <4>2
    <3>3. phase' \in [Conn -> {"handshake", "creds", "header", "payload"}]
      BY <1>1, <2>1 DEF Shape
    <3>4. peer' \in [Conn -> {"none", "queued", "open", "closed"}]
      BY <1>1, <2>1 DEF Shape
    <3> QED  BY <1>1, <1>9, <3>1, <3>2, <3>3, <3>4 DEF Shape
  <2>7. down'[k] = d /\ buf'[k] = <<>>
    BY <1>1, <2>1 DEF Shape
  <2>8. CASE ok
    <3>1. phase'[k] = "header" /\ need'[k] = HeaderSize /\ peer'[k] = "open"
      BY <1>1, <2>1, <2>8 DEF Shape
    <3>2. Serving(k)'
      BY <3>1 DEF Serving
    <3>3. Stages(k)'
      BY <1>1, <1>5, <1>8, <1>9, <2>4, <2>8, <3>1 DEF ConnInv, Stages
    <3>4. Upstream(k)'
      <4>1. Pending(k)' = <<>>
        <5>1. <<>> \o up[k] = <<>>
          BY <1>1, <2>4, <2>8, ConcatEmptySeq
        <5> QED  BY <1>9, <2>7, <3>1, <5>1 DEF Pending, Arriving
      <4>2. Carries(<<>>, sent[k], Len(run[k]))
        BY <1>8, CarriesNothing
      <4>3. Len(buf'[k]) <= need'[k]
        BY <2>7, <3>1 DEF HeaderSize
      <4> QED  BY <1>9, <3>1, <4>1, <4>2, <4>3 DEF Upstream
    <3>5. Types(k)'
      BY <1>5, <1>9 DEF Types
    <3>6. Downstream(k)'
      BY <1>5, <1>9, <2>3, <2>5, <2>7, <2>8, <3>2 DEF Downstream
    <3> QED  BY <1>10, <1>11, <2>6, <3>3, <3>4, <3>5, <3>6 DEF ConnInv
  <2>9. CASE ~ok
    <3>1. phase'[k] = "creds" /\ need'[k] = need[k] /\ peer'[k] = "closed"
      BY <1>1, <2>1, <2>9 DEF Shape
    <3>2. ~Serving(k)'
      BY <3>1 DEF Serving
    <3>3. Stages(k)'
      BY <1>1, <1>5, <1>8, <1>9, <3>1, <3>2 DEF ConnInv, Stages
    <3>4. Upstream(k)'
      BY <1>1, <1>2, <2>7, <3>1 DEF Upstream
    <3>5. Types(k)'
      BY <1>5, <1>9 DEF Types
    <3>6. Downstream(k)'
      BY <1>5, <1>9, <2>3, <2>5, <2>7, <2>9, <3>1, <3>2 DEF Downstream
    <3> QED  BY <1>10, <1>11, <2>6, <3>3, <3>4, <3>5, <3>6 DEF ConnInv
  <2> QED  BY <2>8, <2>9
<1> QED  BY <1>12, <1>13

\* The header of a message is kept and its payload asked for.
LEMMA ReadHeaderKeeps ==
  ASSUME IpcInv, NEW k \in Conn, ReadHeader(k)
  PROVE  Shape' /\ ReplyMatches' /\ unsent \subseteq unsent' /\ ConnInv(k)'
<1> USE DEF Phase, RxRequest, client
<1>1. /\ ConnInv(k) /\ Shape /\ peer[k] = "open" /\ phase[k] = "header" /\ at[k] # "new"
      /\ Len(buf[k]) = need[k] /\ buf[k] \in Seq(Units) /\ up[k] \in Seq(Units) /\ Serving(k)
  BY DEF IpcInv, Shape, ConnInv, Stages, ReadHeader, Called, Serving
<1>2. ReplyMatches' /\ unsent \subseteq unsent'
  BY DEF IpcInv, ReplyMatches, ReadHeader
<1>3. /\ at' = at /\ server' = server /\ password' = password
      /\ awaited' = awaited /\ reply' = reply /\ msgs' = msgs /\ unsent' = unsent
      /\ sent' = sent /\ run' = run /\ up' = up /\ down' = down
  BY DEF ReadHeader
<1>4. CASE buf[k][1].k = "prefix"
  <2>1. /\ hdr' = [hdr EXCEPT ![k] = buf[k]] /\ phase' = [phase EXCEPT ![k] = "payload"]
        /\ need' = [need EXCEPT ![k] = PayloadSize] /\ buf' = [buf EXCEPT ![k] = <<>>]
        /\ peer' = peer
    BY <1>4 DEF ReadHeader
  <2>2. Shape'
    <3>1. hdr' \in [Conn -> Seq(Units)] /\ buf' \in [Conn -> Seq(Units)]
      BY <1>1, <2>1 DEF Shape
    <3>2. need' \in [Conn -> Nat]
      BY <1>1, <2>1, IpcAssumption DEF Shape
    <3>3. phase' \in [Conn -> {"handshake", "creds", "header", "payload"}]
      BY <1>1, <2>1 DEF Shape
    <3> QED  BY <1>1, <1>3, <2>1, <3>1, <3>2, <3>3 DEF Shape
  <2>3. /\ hdr'[k] = buf[k] /\ phase'[k] = "payload" /\ need'[k] = PayloadSize /\ buf'[k] = <<>>
    BY <1>1, <2>1 DEF Shape
  <2>4. /\ Serving(k)' = Serving(k) /\ Unhandled(k)' = Unhandled(k)
    BY <1>1, <1>3, <2>3 DEF Serving, Unhandled
  <2>5. Pending(k)' = Pending(k)
    <3>1. Arriving(k)' = up[k]
      BY <1>1, <1>3, <2>3, ConcatEmptySeq DEF Arriving
    <3>2. Pending(k)' = buf[k] \o up[k]
      BY <2>3, <3>1 DEF Pending
    <3> QED  BY <1>1, <3>2 DEF Pending, Arriving
  <2>6. \A j : TypeOf(k, j)' = TypeOf(k, j)
    BY <2>5 DEF TypeOf
  <2>7. Stages(k)'
    BY <1>1, <1>3, <2>1, <2>3, <2>4 DEF ConnInv, Stages
  <2>8. InOrder(k)'
    BY <1>1, <1>3 DEF ConnInv, InOrder
  <2>9. Upstream(k)'
    <3>1. Len(hdr'[k]) = HeaderSize /\ Carries(Pending(k), sent[k], Len(run[k]))
      BY <1>1, <2>3 DEF ConnInv, Upstream
    <3>2. Len(buf'[k]) <= need'[k]
      BY <2>3, IpcAssumption
    <3> QED  BY <1>1, <1>3, <2>1, <2>3, <2>5, <3>1, <3>2 DEF Upstream
  <2>10. Types(k)'
    BY <1>1, <1>3, <2>1, <2>4, <2>6 DEF ConnInv, Types
  <2>11. Downstream(k)'
    BY <1>1, <1>3, <2>1, <2>3, <2>4 DEF ConnInv, Downstream
  <2> QED  BY <1>2, <2>2, <2>7, <2>8, <2>9, <2>10, <2>11 DEF ConnInv
<1>5. CASE buf[k][1].k # "prefix"
  <2>1. /\ hdr' = hdr /\ phase' = phase /\ need' = need /\ buf' = [buf EXCEPT ![k] = <<>>]
        /\ peer' = [peer EXCEPT ![k] = "closed"]
    BY <1>5 DEF ReadHeader, Hangup
  <2>2. Shape'
    BY <1>1, <1>3, <2>1 DEF Shape
  <2>3. peer'[k] = "closed" /\ buf'[k] = <<>>
    BY <1>1, <2>1 DEF Shape
  <2> QED  BY <1>1, <1>2, <1>3, <2>1, <2>2, <2>3, HungUp
<1> QED  BY <1>4, <1>5

\* A message is evaluated; a synchronous one is answered, or its result is lost.
LEMMA ReadPayloadKeeps ==
  ASSUME IpcInv, NEW k \in Conn, ReadPayload(k)
  PROVE  Shape' /\ ReplyMatches' /\ unsent \subseteq unsent' /\ ConnInv(k)'
<1> USE DEF Phase, RxRequest, client
<1>1. /\ ConnInv(k) /\ Shape /\ peer[k] = "open" /\ phase[k] = "payload"
      /\ Len(buf[k]) = need[k] /\ Serving(k)
  BY DEF IpcInv, Shape, ReadPayload, Called, Serving
<1>2. /\ buf[k] \in Seq(Units) /\ up[k] \in Seq(Units) /\ hdr[k] \in Seq(Units)
      /\ down[k] \in Seq(Units) /\ sent[k] \in Seq(1 .. MaxMsgs) /\ run[k] \in Seq(1 .. MaxMsgs)
      /\ awaited[k] \in 0 .. MaxMsgs /\ MaxMsgs \in Nat /\ PayloadSize \in Nat \ {0}
  BY <1>1, IpcAssumption DEF Shape
<1>3. PICK r \in Nat : r = Len(run[k])
  BY <1>2
<1>4. PICK n : n = Unhandled(k)
  OBVIOUS
<1>0. PICK stream : stream = Pending(k)
  OBVIOUS
<1>5. /\ Len(hdr[k]) = 2 /\ Len(buf[k]) = PayloadSize /\ r <= Len(sent[k]) /\ Len(sent[k]) \in Nat
      /\ Carries(stream, sent[k], r) /\ stream = hdr[k] \o (buf[k] \o up[k])
  BY <1>0, <1>1, <1>2, <1>3 DEF ConnInv, InOrder, Upstream, Pending, Arriving, HeaderSize
<1>6. /\ r < Len(sent[k])
      /\ buf[k][1].v = sent[k][r + 1]
      /\ hdr[k][2].v = stream[Before(0) + 2].v
      /\ Carries(up[k], sent[k], r + 1)
      /\ \A j \in 0 .. Len(sent[k]) - r - 2 : up[k][Before(j) + 2] = stream[Before(j + 1) + 2]
  <2>1. /\ hdr[k] \in Seq(Units) /\ buf[k] \in Seq(Units) /\ up[k] \in Seq(Units)
        /\ sent[k] \in Seq(1 .. MaxMsgs) /\ r \in Nat
    BY <1>2
  <2>2. Cut(stream, hdr[k], buf[k], up[k])
    BY <1>5, <2>1, CutHere
  <2>3. r <= Len(sent[k]) /\ Carries(stream, sent[k], r)
    BY <1>5
  <2>4. CarriesOn(stream, hdr[k], buf[k], up[k], sent[k], r)
    BY ONLY <2>1, <2>2, <2>3, CarriesLess
  <2> QED  BY ONLY <2>4 DEF CarriesOn
<1>7. n = Len(sent[k]) - r /\ n \in Nat \ {0}
  BY <1>3, <1>4, <1>5, <1>6 DEF Unhandled
<1>8. PICK id : id = sent[k][r + 1]
  OBVIOUS
<1>9. id \in 1 .. MaxMsgs /\ id \in 0 .. MaxMsgs /\ Evaluated(k) = id
  <2>1. r + 1 \in 1 .. Len(sent[k])
    BY <1>5, <1>6
  <2>2. id \in 1 .. MaxMsgs
    BY <1>2, <1>8, <2>1, ElementOfSeq
  <2> QED  BY <1>2, <1>6, <1>8, <2>2 DEF Evaluated
<1>10. hdr[k][2].v = TypeOf(k, 0)
  BY <1>0, <1>6 DEF TypeOf
<1> DEFINE m == Message(id, Resp)
           d == IF ClientOpen(k) THEN down[k] \o m ELSE down[k]
<1>11. /\ m \in Seq(Units) /\ Len(m) = PayloadSize + 2 /\ m[1] = Unit("prefix", id)
  BY <1>9, MessageShape
<1>12. d \in Seq(Units)
  <2>1. m \in Seq(Units)
    BY <1>11
  <2> HIDE DEF m
  <2> QED  BY <1>2, <2>1
<1>13. /\ at' = at /\ server' = server /\ password' = password
       /\ awaited' = awaited /\ reply' = reply /\ msgs' = msgs /\ got' = got
       /\ sent' = sent /\ up' = up /\ peer' = peer /\ hdr' = hdr
  BY DEF ReadPayload
<1>14. /\ run' = [run EXCEPT ![k] = Append(run[k], id)]
       /\ phase' = [phase EXCEPT ![k] = "header"] /\ need' = [need EXCEPT ![k] = HeaderSize]
       /\ buf' = [buf EXCEPT ![k] = <<>>]
  BY <1>9 DEF ReadPayload
<1>15. IF TypeOf(k, 0) = Sync
         THEN \/ down' = [down EXCEPT ![k] = d] /\ unsent' = unsent
              \/ unsent' = unsent \cup {id} /\ down' = down
         ELSE down' = down /\ unsent' = unsent
  BY <1>9, <1>10 DEF ReadPayload, Respond, Answer
<1> HIDE DEF d, m
<1>16. Shape'
  <2>1. run' \in [Conn -> Seq(1 .. MaxMsgs)]
    <3>1. Append(run[k], id) \in Seq(1 .. MaxMsgs)
      BY <1>2, <1>9, AppendProperties
    <3> QED  BY <1>1, <1>14, <3>1 DEF Shape
  <2>2. buf' \in [Conn -> Seq(Units)]
    BY <1>1, <1>14 DEF Shape
  <2>3. need' \in [Conn -> Nat]
    BY <1>1, <1>14 DEF Shape, HeaderSize
  <2>4. phase' \in [Conn -> {"handshake", "creds", "header", "payload"}]
    BY <1>1, <1>14 DEF Shape
  <2>5. down' \in [Conn -> Seq(Units)] /\ unsent' \subseteq 1 .. MaxMsgs
    <3>1. down' = [down EXCEPT ![k] = d] \/ down' = down
      BY <1>15
    <3>2. unsent' = unsent \/ unsent' = unsent \cup {id}
      BY <1>15
    <3>3. unsent' \subseteq 1 .. MaxMsgs
      BY <1>1, <1>9, <3>2 DEF Shape
    <3>4. down' \in [Conn -> Seq(Units)]
      BY <1>1, <1>12, <3>1 DEF Shape
    <3> QED  BY <3>3, <3>4
  <2> QED  BY <1>1, <1>13, <2>1, <2>2, <2>3, <2>4, <2>5 DEF Shape
<1>17. ReplyMatches' /\ unsent \subseteq unsent'
  BY <1>13, <1>15 DEF IpcInv, ReplyMatches
<1>18. /\ run'[k] = Append(run[k], id) /\ phase'[k] = "header" /\ need'[k] = HeaderSize
       /\ buf'[k] = <<>>
  BY <1>1, <1>14 DEF Shape
<1>19. /\ Len(run'[k]) = r + 1 /\ run'[k][r + 1] = id
       /\ \A i \in 1 .. r : run'[k][i] = run[k][i]
  BY <1>2, <1>3, <1>9, <1>18, AppendProperties
<1>20. Unhandled(k)' = n - 1
  <2>1. Len(sent'[k]) - Len(run'[k]) = n - 1
    BY <1>3, <1>5, <1>7, <1>13, <1>19
  <2> QED  BY <2>1 DEF Unhandled
<1>21. Pending(k)' = up[k]
  BY <1>2, <1>13, <1>18, ConcatEmptySeq DEF Pending, Arriving
<1>22. \A j \in 0 .. n - 2 : TypeOf(k, j)' = TypeOf(k, j + 1)
  <2>1. Len(sent[k]) - r - 2 = n - 2
    BY <1>3, <1>5, <1>7
  <2>2. \A j \in 0 .. n - 2 : up[k][Before(j) + 2] = Pending(k)[Before(j + 1) + 2]
    BY <1>0, <1>6, <2>1
  <2>3. \A j : TypeOf(k, j)' = up[k][Before(j) + 2].v
    BY <1>21 DEF TypeOf
  <2> QED  BY <2>2, <2>3 DEF TypeOf
<1>23. sent[k] # <<>> /\ at[k] \in {"ready", "header", "closed"}
  <2>1. sent[k] # <<>>
    BY <1>3, <1>6
  <2>2. at[k] # "payload"
    BY <1>1, <1>4, <1>7 DEF ConnInv, Types
  <2> QED  BY <1>1, <2>1, <2>2 DEF Shape, ConnInv, Stages
<1>24. Stages(k)'
  <2>1. Serving(k)'
    BY <1>18 DEF Serving
  <2> QED  BY <1>1, <1>13, <1>18, <1>23, <2>1 DEF ConnInv, Stages
<1>25. InOrder(k)'
  <2>1. \A i \in 1 .. r : run[k][i] = sent[k][i]
    BY <1>1, <1>3 DEF ConnInv, InOrder
  <2>2. \A i \in 1 .. r + 1 : i \in 1 .. r \/ i = r + 1
    BY <1>3
  <2>3. \A i \in 1 .. r + 1 : run'[k][i] = sent[k][i]
    BY <1>8, <1>19, <2>1, <2>2
  <2>4. r + 1 <= Len(sent[k])
    BY SMTT(30), <1>3, <1>5, <1>6
  <2> QED  BY <1>13, <1>19, <2>3, <2>4 DEF InOrder
<1>26. Upstream(k)'
  <2>1. Carries(Pending(k)', sent'[k], Len(run'[k]))
    BY <1>6, <1>13, <1>19, <1>21
  <2>2. Len(buf'[k]) <= need'[k]
    BY <1>18 DEF HeaderSize
  <2> QED  BY <1>1, <1>13, <1>18, <2>1, <2>2 DEF Upstream
<1>27. Types(k)'
  <2>1. \A j \in 0 .. (n - 1) - 1 : /\ j \in 0 .. n - 2 /\ j + 1 \in 0 .. n - 1
                                    /\ (j + 1 = n - 1 <=> j = (n - 1) - 1)
    BY <1>7
  <2>2. CASE at[k] = "ready"
    <3>1. \A j \in 0 .. n - 1 : TypeOf(k, j) = Async
      BY <1>1, <1>4, <2>2 DEF ConnInv, Types
    <3>2. \A j \in 0 .. (n - 1) - 1 : TypeOf(k, j)' = Async
      BY <1>22, <2>1, <3>1
    <3> QED  BY <1>13, <1>20, <2>2, <3>2 DEF Types
  <2>3. CASE at[k] = "header"
    <3>1. /\ sent[k][Len(sent[k])] = awaited[k]
          /\ \A j \in 0 .. n - 1 : TypeOf(k, j) = Sync <=> j = n - 1
      BY <1>1, <1>4, <1>7, <2>3 DEF ConnInv, Types
    <3>2. \A j \in 0 .. (n - 1) - 1 : TypeOf(k, j)' = Sync <=> j = (n - 1) - 1
      BY <1>22, <2>1, <3>1
    <3> QED  BY <1>13, <1>20, <2>3, <3>1, <3>2 DEF Types
  <2>4. CASE at[k] = "closed"
    BY <1>13, <2>4 DEF Types
  <2> QED  BY <1>23, <2>2, <2>3, <2>4
<1>28. Downstream(k)'
  <2>1. CASE at[k] = "ready"
    <3>1. TypeOf(k, 0) = Async
      BY <1>1, <1>4, <1>7, <2>1 DEF ConnInv, Types
    <3>2. down' = down
      BY <1>15, <3>1 DEF Sync, Async
    <3> QED  BY <1>1, <1>13, <2>1, <3>2 DEF ConnInv, Downstream
  <2>2. CASE at[k] = "header"
    <3>1. /\ sent[k][Len(sent[k])] = awaited[k]
          /\ \A j \in 0 .. n - 1 : TypeOf(k, j) = Sync <=> j = n - 1
      BY <1>1, <1>4, <1>7, <2>2 DEF ConnInv, Types
    <3>2. down[k] = <<>> \/ Leftover(down[k])
      BY <1>1, <1>4, <1>7, <2>2 DEF ConnInv, Downstream
    <3>3. at'[k] = "header" /\ peer'[k] = "open" /\ awaited'[k] = awaited[k]
      BY <1>1, <1>13, <2>2
    <3>4. TypeOf(k, 0) = Sync <=> n = 1
      <4>1. 0 \in 0 .. n - 1 /\ (0 = n - 1 <=> n = 1)
        BY <1>7
      <4> QED  BY <3>1, <4>1
    <3>5. CASE n # 1
      <4>1. down' = down /\ Unhandled(k)' # 0
        BY <1>7, <1>15, <1>20, <3>4, <3>5
      <4> QED  BY <3>2, <3>3, <4>1 DEF Downstream
    <3>6. CASE n = 1
      <4>1. Unhandled(k)' = 0 /\ ~(Unhandled(k)' > 0)
        BY <1>20, <3>6
      <4>2. id = awaited[k]
        <5>1. r + 1 = Len(sent[k])
          BY <1>3, <1>5, <1>7, <3>6
        <5> QED  BY <1>8, <3>1, <5>1
      <4>3. CASE down' = [down EXCEPT ![k] = d]
        <5>1. down'[k] = d /\ d = down[k] \o m
          BY <1>1, <2>2, <4>3 DEF Shape, ClientOpen, d
        <5>2. Len(d) = Len(down[k]) + (PayloadSize + 2) /\ Len(down[k]) \in Nat
          <6>1. down[k] \in Seq(Units) /\ m \in Seq(Units)
            BY <1>2, <1>11
          <6>2. Len(down[k] \o m) = Len(down[k]) + Len(m)
            BY ONLY <6>1, ConcatProperties
          <6> QED  BY <1>2, <1>11, <5>1, <6>2
        <5>3. Len(d) >= HeaderSize
          <6>1. \A a, b \in Nat : a + (b + 2) >= 2
            OBVIOUS
          <6> QED  BY <1>2, <5>2, <6>1 DEF HeaderSize
        <5>4. CASE down[k] = <<>>
          <6>1. d = Message(awaited[k], Resp)
            BY <1>11, <4>2, <5>1, <5>4, ConcatEmptySeq DEF m
          <6> QED  BY <3>3, <4>1, <5>1, <5>3, <6>1 DEF Downstream
        <5>5. CASE Leftover(down[k])
          <6>1. down[k] # <<>> /\ down[k][1].k = "data"
            BY <5>5 DEF Leftover
          <6>2. Len(down[k]) >= 1
            BY <1>2, <6>1
          <6>3. d[1] = down[k][1]
            <7>1. 1 \in 1 .. Len(down[k]) + Len(m) /\ 1 <= Len(down[k])
              <8>1. \A a, b \in Nat : a >= 1 => 1 \in 1 .. a + b /\ 1 <= a
                OBVIOUS
              <8>2. Len(down[k]) \in Nat /\ Len(m) \in Nat
                BY <1>2, <1>11
              <8> QED  BY <6>2, <8>1, <8>2
            <7> QED  BY <1>2, <1>11, <5>1, <7>1, ConcatProperties
          <6>4. d # <<>>
            BY <5>3 DEF HeaderSize
          <6>5. Leftover(d)
            BY <6>1, <6>3, <6>4 DEF Leftover
          <6> QED  BY <3>3, <4>1, <5>1, <5>3, <6>5 DEF Downstream
        <5> QED  BY <3>2, <5>4, <5>5
      <4>4. CASE down' # [down EXCEPT ![k] = d]
        <5>1. down' = down /\ awaited[k] \in unsent'
          BY <1>15, <3>4, <3>6, <4>2, <4>4
        <5> QED  BY <3>2, <3>3, <4>1, <5>1 DEF Downstream
      <4> QED  BY <4>3, <4>4
    <3> QED  BY <3>5, <3>6
  <2>3. CASE at[k] = "closed"
    BY <1>13, <2>3 DEF Downstream
  <2> QED  BY <1>23, <2>1, <2>2, <2>3
<1> QED  BY <1>16, <1>17, <1>24, <1>25, <1>26, <1>27, <1>28 DEF ConnInv

-----------------------------------------------------------------------------
(* The theorems. *)

\* Before any connection is made the invariant holds.
LEMMA InitKeeps == Init => IpcInv
<1> SUFFICES ASSUME Init PROVE IpcInv
  OBVIOUS
<1>1. Shape
  BY IpcAssumption DEF Init, Shape, Server
<1>2. ReplyMatches
  BY DEF Init, ReplyMatches
<1>3. ASSUME NEW k \in Conn PROVE ConnInv(k)
  <2>1. /\ at[k] = "new" /\ peer[k] = "none" /\ phase[k] = "handshake" /\ down[k] = <<>>
        /\ sent[k] = <<>> /\ run[k] = <<>> /\ buf[k] = <<>> /\ need[k] = 0
    BY DEF Init
  <2>2. ~Serving(k)
    BY <2>1 DEF Serving
  <2>3. Stages(k)
    BY <2>1, <2>2 DEF Stages
  <2>4. InOrder(k)
    BY <2>1 DEF InOrder
  <2>5. Upstream(k)
    BY <2>1 DEF Upstream
  <2>6. Types(k) /\ Downstream(k)
    BY <2>1 DEF Types, Downstream
  <2> QED  BY <2>3, <2>4, <2>5, <2>6 DEF ConnInv
<1> QED  BY <1>1, <1>2, <1>3 DEF IpcInv

\* Every step of a connection keeps its invariant.
LEMMA StepKeeps ==
  ASSUME IpcInv, NEW k \in Conn, Step(k)
  PROVE  Shape' /\ ReplyMatches' /\ unsent \subseteq unsent' /\ ConnInv(k)'
<1>1. CASE \E s \in Server, pw \in {"right", "wrong", "none"} : Connect(k, s, pw)
  BY <1>1, ConnectKeeps
<1>2. CASE \E t \in {Sync, Async} : Send(k, t)
  BY <1>2, SendKeeps
<1>3. CASE ReplyOom(k)
  BY <1>3, ReplyOomKeeps
<1>4. CASE Drop(k)
  BY <1>4, DropKeeps
<1>5. CASE Close(k)
  BY <1>5, CloseKeeps
<1>6. CASE ClientReads(k)
  BY <1>6, GreetedKeeps, VerdictKeeps, ReadReplyHeaderKeeps, ReadReplyPayloadKeeps,
     SendFailsKeeps DEF ClientReads
<1>7. CASE Serve(k)
  BY <1>7, AcceptKeeps, RecvStepKeeps, ReadHandshakeKeeps, ReadCredsKeeps, ReadHeaderKeeps,
     ReadPayloadKeeps DEF Serve
<1> QED  BY <1>1, <1>2, <1>3, <1>4, <1>5, <1>6, <1>7 DEF Step

\* The invariant is inductive.
LEMMA NextKeeps == IpcInv /\ [Next]_vars => IpcInv'
<1> SUFFICES ASSUME IpcInv, [Next]_vars PROVE IpcInv'
  OBVIOUS
<1>1. CASE Next
  <2>1. PICK k \in Conn : Step(k)
    BY <1>1 DEF Next, Step
  <2>2. Shape' /\ ReplyMatches' /\ unsent \subseteq unsent' /\ ConnInv(k)'
    BY <2>1, StepKeeps
  <2>3. ASSUME NEW q \in Conn, q # k PROVE ConnInv(q)'
    <3>1. Same(q)
      BY <2>1, <2>3, Others DEF IpcInv
    <3> QED  BY <2>2, <3>1, Frame DEF IpcInv
  <2> QED  BY <2>2, <2>3 DEF IpcInv
<1>2. CASE UNCHANGED vars
  <2>1. Shape' /\ ReplyMatches'
    BY <1>2 DEF IpcInv, Shape, ReplyMatches, vars, client, conn
  <2>2. ASSUME NEW q \in Conn PROVE ConnInv(q)'
    <3>1. Same(q) /\ unsent \subseteq unsent'
      BY <1>2 DEF Same, vars, client, conn
    <3> QED  BY <3>1, Frame DEF IpcInv
  <2> QED  BY <2>1, <2>2 DEF IpcInv
<1> QED  BY <1>1, <1>2

\* The invariant holds throughout: the streams carry what was sent and not yet
\* handled, unit by unit.
THEOREM IpcInvariant == Spec => []IpcInv
<1> QED  BY InitKeeps, NextKeeps, PTL DEF Spec

\* A synchronous call returns the result of its own message and of no other,
\* whatever was left on the stream by a call that failed.
THEOREM CallsGetTheirOwnResult == Spec => []ReplyMatches
<1>1. IpcInv => ReplyMatches
  BY DEF IpcInv
<1> QED  BY <1>1, IpcInvariant, PTL

\* The server evaluates what was sent on a connection, in order and each message
\* once, however the stream is cut into pieces; the variables keep their types.
THEOREM StreamsAreReassembled == Spec => []EvaluatedInOrder
<1>1. IpcInv => EvaluatedInOrder
  <2> SUFFICES ASSUME IpcInv PROVE EvaluatedInOrder
    OBVIOUS
  <2>1. TypeOK
    <3>1. \A s \in Seq(Units) : ToSet(s) \subseteq Units
      BY DEF ToSet
    <3>2. ASSUME NEW k \in Conn
          PROVE  /\ ToSet(up[k]) \cup ToSet(down[k]) \cup ToSet(buf[k]) \subseteq Units
                 /\ Len(buf[k]) <= need[k]
      BY <3>1 DEF IpcInv, Shape, ConnInv, Upstream
    <3> QED  BY <3>2 DEF IpcInv, Shape, TypeOK
  <2>2. ASSUME NEW k \in Conn PROVE IsPrefix(run[k], sent[k])
    <3> DEFINE n == Len(run[k])
               s == run[k]
               t == sent[k]
    <3>1. /\ s \in Seq(1 .. MaxMsgs) /\ t \in Seq(1 .. MaxMsgs) /\ n \in Nat /\ n = Len(s)
          /\ n <= Len(t) /\ \A i \in 1 .. n : s[i] = t[i]
      BY DEF IpcInv, Shape, ConnInv, InOrder
    <3> HIDE DEF n, s, t
    <3>2. \A i \in 1 .. n : s[i] \in 1 .. MaxMsgs /\ t[i] \in 1 .. MaxMsgs
      <4>1. \A i \in 1 .. n : i \in 1 .. Len(s) /\ i \in 1 .. Len(t)
        <5>1. Len(t) \in Nat
          BY <3>1
        <5> QED  BY <3>1, <5>1
      <4> QED  BY <3>1, <4>1, ElementOfSeq
    <3>3. SubSeq(s, 1, n) = SubSeq(t, 1, n)
      <4> DEFINE x == SubSeq(s, 1, n)
                 y == SubSeq(t, 1, n)
      <4>1. /\ x \in Seq(1 .. MaxMsgs) /\ Len(x) = IF 1 <= n THEN n - 1 + 1 ELSE 0
            /\ \A i \in 1 .. n - 1 + 1 : x[i] = s[1 + i - 1]
        BY <3>1, <3>2, SubSeqProperties
      <4>2. /\ y \in Seq(1 .. MaxMsgs) /\ Len(y) = IF 1 <= n THEN n - 1 + 1 ELSE 0
            /\ \A i \in 1 .. n - 1 + 1 : y[i] = t[1 + i - 1]
        BY <3>1, <3>2, SubSeqProperties
      <4> HIDE DEF x, y
      <4>3. n - 1 + 1 = n /\ Len(x) = n /\ Len(y) = n /\ \A i \in 1 .. n : 1 + i - 1 = i
        BY <3>1, <4>1, <4>2
      <4>4. \A i \in 1 .. Len(x) : x[i] = y[i]
        BY <3>1, <4>1, <4>2, <4>3
      <4>5. x = y
        BY <4>1, <4>2, <4>3, <4>4, SeqEqual
      <4> QED  BY <4>5 DEF x, y
    <3> QED  BY <3>1, <3>3 DEF IsPrefix, n, s, t
  <2> QED  BY <2>1, <2>2 DEF EvaluatedInOrder
<1> QED  BY <1>1, IpcInvariant, PTL

\* Nothing is evaluated for a client that a secured server has not accepted.
THEOREM OnlyTheAuthorizedAreServed == Spec => []EvaluatedAuthorized
<1>1. IpcInv => EvaluatedAuthorized
  <2> SUFFICES ASSUME IpcInv, NEW k \in Conn, run[k] # <<>>, server[k] \in Secured
               PROVE  password[k] = "right"
    BY DEF EvaluatedAuthorized
  <2>1. ConnInv(k) /\ run[k] \in Seq(1 .. MaxMsgs) /\ sent[k] \in Seq(1 .. MaxMsgs)
    BY DEF IpcInv, Shape
  <2>2. sent[k] # <<>>
    BY <2>1 DEF ConnInv, InOrder
  <2> QED  BY <2>1, <2>2 DEF ConnInv, Stages
<1> QED  BY <1>1, IpcInvariant, PTL

\* Client and server never wait for each other, as long as the server on
\* ray_poll_t asks for no password: it loses the length byte of the credentials
\* and waits for a byte that is not sent.
THEOREM NobodyWaitsForEver == Poll \notin Secured => (Spec => []NoMutualWait)
<1> SUFFICES ASSUME Poll \notin Secured PROVE Spec => []NoMutualWait
  OBVIOUS
<1>1. IpcInv => NoMutualWait
  <2> SUFFICES ASSUME IpcInv, NEW k \in Conn, Waits(k), peer[k] = "open",
                      awaited[k] \notin unsent, up[k] = <<>>
               PROVE  Len(buf[k]) = need[k]
    BY DEF NoMutualWait
  <2>1. /\ Shape /\ ConnInv(k) /\ buf[k] \in Seq(Units) /\ hdr[k] \in Seq(Units)
        /\ Len(buf[k]) \in Nat /\ need[k] \in Nat /\ Len(buf[k]) <= need[k]
        /\ PayloadSize \in Nat \ {0} /\ CredSize \in Nat \ {0} /\ awaited[k] \in 0 .. MaxMsgs
    BY SMTT(30), IpcAssumption DEF IpcInv, Shape, ConnInv, Upstream
  <2>2. Arriving(k) = buf[k]
    BY <2>1, ConcatEmptySeq DEF Arriving
  <2>3. CASE at[k] = "greeting" /\ ~Arrived(k, 2)
    <3>1. phase[k] = "handshake"
      <4>1. ~(Len(down[k]) >= 2)
        BY <2>3 DEF Arrived
      <4>2. phase[k] # "handshake" =>
              down[k] = <<Unit("version", 0), Unit("auth", IF server[k] \in Secured THEN 1 ELSE 0)>>
        BY <2>1, <2>3 DEF ConnInv, Downstream
      <4> QED  BY <4>1, <4>2
    <3>2. need[k] = 2 /\ buf[k] = Handshake
      BY <2>1, <2>2, <3>1 DEF ConnInv, Upstream
    <3> QED  BY <3>2 DEF Handshake
  <2>4. CASE at[k] = "verdict" /\ ~Arrived(k, 1)
    <3>1. ~Serving(k)
      <4>1. ~(Len(down[k]) >= 1)
        BY <2>4 DEF Arrived
      <4>2. Serving(k) => down[k] = <<Unit("verdict", 0)>>
        BY <2>1, <2>4 DEF ConnInv, Downstream
      <4> QED  BY <4>1, <4>2
    <3>2. phase[k] = "creds" /\ server[k] \in Secured
      BY <2>1, <2>4, <3>1 DEF Shape, ConnInv, Stages, Serving
    <3>3. Asked(k)
      BY <2>1, <3>2 DEF ConnInv, Upstream
    <3>4. buf[k] = Credentials(password[k]) /\ (need[k] = 1 \/ need[k] = 1 + CredSize)
      BY <2>2, <2>4, <3>2, <3>3 DEF Asked
    <3>5. Len(buf[k]) = 1 + CredSize
      BY <2>1, <3>4, CredentialsShape DEF Shape
    <3> QED  BY <2>1, <3>4, <3>5
  <2>5. CASE at[k] = "header" /\ ~Arrived(k, HeaderSize)
    <3>1. PICK n : n = Unhandled(k)
      OBVIOUS
    <3>2. n \in Nat /\ Len(sent[k]) - Len(run[k]) = n
      BY <2>1, <3>1 DEF Shape, ConnInv, InOrder, Unhandled
    <3>3. n # 0
      BY <2>1, <2>5, <3>1 DEF ConnInv, Downstream, Arrived
    <3>4. Serving(k) /\ Len(Pending(k)) = Before(n)
      BY <2>1, <2>5, <3>2 DEF ConnInv, Stages, Upstream, Carries
    <3>5. Before(n) >= PayloadSize + 2
      <4>1. Before(0) = 0 /\ Before(0) + PayloadSize + 2 <= Before(n) /\ Before(n) \in Nat
        <5>1. 0 \in Nat /\ n \in Nat /\ 0 < n
          BY <3>2, <3>3
        <5> QED  BY ONLY <5>1, BeforeSteps
      <4> QED  BY <2>1, <4>1
    <3>6. Before(n) \in Nat
      BY <3>2, BeforeSteps
    <3>7. CASE phase[k] = "header"
      <4>1. need[k] = 2 /\ Len(buf[k]) = Before(n)
        BY <2>1, <2>2, <3>4, <3>7 DEF ConnInv, Upstream, Pending, HeaderSize
      <4> QED  BY <2>1, <3>5, <3>6, <4>1
    <3>8. CASE phase[k] = "payload"
      <4>1. need[k] = PayloadSize /\ Len(hdr[k]) = 2
        BY <2>1, <3>8 DEF ConnInv, Upstream, HeaderSize
      <4>2. Len(hdr[k] \o buf[k]) = Before(n)
        BY <2>2, <3>4, <3>8 DEF Pending
      <4>3. Len(hdr[k] \o buf[k]) = Len(hdr[k]) + Len(buf[k])
        BY <2>1, ConcatProperties
      <4>4. \A a, b, c \in Nat : c >= b + 2 /\ c = 2 + a /\ a <= b => a = b
        OBVIOUS
      <4> QED  BY <2>1, <3>5, <3>6, <4>1, <4>2, <4>3, <4>4
    <3> QED  BY <3>4, <3>7, <3>8 DEF Serving
  <2>6. CASE at[k] = "payload" /\ ~Arrived(k, PayloadSize)
    <3>1. Len(down[k]) = PayloadSize
      BY <2>1, <2>6, PayloadShape DEF ConnInv, Downstream
    <3> QED  BY <2>1, <2>6, <3>1 DEF Arrived
  <2> QED  BY <2>3, <2>4, <2>5, <2>6 DEF Waits
<1> QED  BY <1>1, IpcInvariant, PTL

=============================================================================
