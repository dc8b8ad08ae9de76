--------------------------- MODULE HandshakeProofs --------------------------
(***************************************************************************)
(* Proofs about Handshake, for any tokens, timeout and width of the tick   *)
(* counter: how long the accepting thread may be held, and that the server *)
(* reads the client's stream where the client wrote it.                    *)
(***************************************************************************)
EXTENDS Handshake, SequenceTheorems, TLAPS

USE TimeAssumption

-----------------------------------------------------------------------------
(* Arithmetic of the tick counter and cuts of a stream.                    *)

\* A tick later, the counter is one more or wraps to zero.
LEMMA NextTick ==
  ASSUME NEW t \in 0..(DwordMod - 1)
  PROVE  /\ (t + 1) % DwordMod \in 0..(DwordMod - 1)
         /\ (t + 1) % DwordMod = t + 1 \/ (t + 1) % DwordMod = t + 1 - DwordMod
  <1>1. CASE t + 1 < DwordMod
    <2>1. (t + 1) % DwordMod = t + 1
      BY <1>1
    <2> QED BY <1>1, <2>1
  <1>2. CASE t + 1 = DwordMod
    <2>1. (t + 1) % DwordMod = 0
      BY <1>2
    <2> QED BY <1>2, <2>1
  <1> QED BY <1>1, <1>2

\* The difference of two readings less than a round apart is the time between
\* them, also when the counter has wrapped in between.
LEMMA DwordDifference ==
  ASSUME NEW s \in 0..(DwordMod - 1), NEW t \in 0..(DwordMod - 1),
         NEW w \in 0..(DwordMod - 1), t = s + w \/ t = s + w - DwordMod
  PROVE  (t - s) % DwordMod = w
  <1>1. CASE t = s + w
    <2>1. t - s = w
      BY <1>1
    <2>2. w % DwordMod = w
      OBVIOUS
    <2> QED BY <2>1, <2>2
  <1>2. CASE t = s + w - DwordMod
    <2>1. t - s = w - DwordMod /\ w - DwordMod \in (1 - DwordMod)..(0 - 1)
      BY <1>2
    <2>2. \A a \in (1 - DwordMod)..(0 - 1) : a % DwordMod = a + DwordMod
      OBVIOUS
    <2> QED BY <2>1, <2>2
  <1> QED BY <1>1, <1>2

\* Both parts of a cut stream are streams.
LEMMA CutTyped ==
  ASSUME NEW S, NEW s \in Seq(S), NEW n \in 0..Len(s)
  PROVE  /\ SubSeq(s, 1, n) \in Seq(S)
         /\ SubSeq(s, n + 1, Len(s)) \in Seq(S)
  OBVIOUS

-----------------------------------------------------------------------------
(* Types.                                                                  *)

\* What the client sends is made of bytes.
LEMMA MessagesTyped ==
  /\ OpHeader \in Seq(Bytes) /\ Len(OpHeader) = 4
  /\ \A t \in Tokens : Len(t) \in 1..AUTH_TOKEN_MAX_LEN => Frame(t) \in Seq(Bytes)
  <1>1. OpHeader \in Seq(Bytes) /\ Len(OpHeader) = 4
    BY DEF OpHeader, Bytes
  <1>2. ASSUME NEW t \in Tokens, Len(t) \in 1..AUTH_TOKEN_MAX_LEN
        PROVE  Frame(t) \in Seq(Bytes)
    <2>1. <<Magic, <<"len", Len(t)>>>> \in Seq(Bytes)
      BY <1>2 DEF Bytes
    <2>2. t \in Seq(Nat)
      BY TokenAssumption
    <2>3. [i \in 1..Len(t) |-> <<"chr", t[i]>>] \in Seq(Bytes)
      BY <2>2 DEF Bytes
    <2> QED BY <2>1, <2>3 DEF Frame
  <1> QED BY <1>1, <1>2

\* The server's record after a rejection and at the start of a receive.
LEMMA ServerTyped ==
  ASSUME TypeOK
  PROVE  /\ \A s \in Servers, why \in Reasons : Reject(s, why) \in Servers
         /\ \A pc \in {"header", "token"}, n \in Nat : Receive(pc, n) \in Servers
         /\ \A b \in Seq(Bytes) : [server EXCEPT !.buf = b] \in Servers
         /\ Idle \in Servers
         /\ Elapsed \in 0..(DwordMod - 1)
  <1>1. \A s \in Servers, why \in Reasons : Reject(s, why) \in Servers
    BY DEF Reject, Servers
  <1>2. ASSUME NEW pc \in {"header", "token"}, NEW n \in Nat
        PROVE  Receive(pc, n) \in Servers
    <2>1. server \in Servers /\ tick \in 0..(DwordMod - 1) /\ <<>> \in Seq(Bytes)
      BY DEF TypeOK
    <2>2. AUTH_TIMEOUT_MS \in 0..AUTH_TIMEOUT_MS /\ 0 \in Nat
      OBVIOUS
    <2> QED BY <2>1, <2>2 DEF Receive, Servers
  <1>3. \A b \in Seq(Bytes) : [server EXCEPT !.buf = b] \in Servers
    BY DEF Servers, TypeOK
  <1>4. Idle \in Servers
    BY DEF Idle, Servers, Reasons
  <1>5. Elapsed \in 0..(DwordMod - 1)
    <2>1. tick - server.start \in Int
      BY DEF TypeOK, Servers
    <2> QED BY <2>1 DEF Elapsed
  <1> QED BY <1>1, <1>2, <1>3, <1>4, <1>5

\* A step of the client keeps the types.
LEMMA ClientTyped ==
  ASSUME TypeOK, ClientStep
  PROVE  TypeOK'
  <1> USE DEF TypeOK
  <1>1. CASE Connect
    <2>1. \/ client' = [pc |-> "request", left |-> OpHeader]
          \/ client' = [pc |-> "auth", left |-> Frame(token.client)]
             /\ Len(token.client) \in 1..AUTH_TOKEN_MAX_LEN
          \/ client' = [client EXCEPT !.pc = "failed"]
      BY <1>1 DEF Connect, StartRequest
    <2>2. token.client \in Tokens
      OBVIOUS
    <2>3. client' \in [pc : {"connect", "auth", "request", "reply", "ok", "failed"},
                       left : Seq(Bytes)]
      <3>1. CASE client' = [pc |-> "request", left |-> OpHeader]
        BY <3>1, MessagesTyped
      <3>2. CASE client' = [pc |-> "auth", left |-> Frame(token.client)]
                 /\ Len(token.client) \in 1..AUTH_TOKEN_MAX_LEN
        <4>1. Frame(token.client) \in Seq(Bytes)
          BY <2>2, <3>2, MessagesTyped
        <4> QED BY <3>2, <4>1
      <3>3. CASE client' = [client EXCEPT !.pc = "failed"]
        BY <3>3
      <3> QED BY <2>1, <3>1, <3>2, <3>3
    <2> QED BY <1>1, <2>3 DEF Connect
  <1>2. CASE ConnectFails
    BY <1>2 DEF ConnectFails
  <1>3. CASE SendSome
    <2> PICK n \in 1..(Len(client.left) - 1) :
          /\ Send(n)
          /\ client' = [client EXCEPT !.left = SubSeq(@, n + 1, Len(@))]
      BY <1>3 DEF SendSome
    <2>3. client.left \in Seq(Bytes) /\ n \in 0..Len(client.left)
      OBVIOUS
    <2>1. /\ SubSeq(client.left, n + 1, Len(client.left)) \in Seq(Bytes)
          /\ SubSeq(client.left, 1, n) \in Seq(Bytes)
      BY <2>3, CutTyped
    <2>2. wire' \in Seq(Bytes)
      BY <2>1 DEF Send
    <2> QED BY <1>3, <2>1, <2>2 DEF SendSome
  <1>7. CASE SendLast
    <2>1. SubSeq(client.left, 1, Len(client.left)) \in Seq(Bytes)
      BY CutTyped
    <2>2. wire' \in Seq(Bytes)
      BY <1>7, <2>1 DEF SendLast, Send
    <2>3. \/ client' = [pc |-> "request", left |-> OpHeader]
          \/ client' = [pc |-> "reply", left |-> <<>>]
      BY <1>7 DEF SendLast, StartRequest
    <2>4. client' \in [pc : {"connect", "auth", "request", "reply", "ok", "failed"},
                       left : Seq(Bytes)]
      <3>1. CASE client' = [pc |-> "request", left |-> OpHeader]
        BY <3>1, MessagesTyped
      <3>2. CASE client' = [pc |-> "reply", left |-> <<>>]
        BY <3>2
      <3> QED BY <2>3, <3>1, <3>2
    <2> QED BY <1>7, <2>2, <2>4 DEF SendLast
  <1>4. CASE SendFails
    BY <1>4 DEF SendFails
  <1>5. CASE ReceiveReply
    BY <1>5 DEF ReceiveReply
  <1>6. CASE ClientGone
    BY <1>6, CutTyped DEF ClientGone
  <1> QED BY <1>1, <1>2, <1>3, <1>4, <1>5, <1>6, <1>7 DEF ClientStep

\* A recv leaves a stream, and what has been taken is one.
LEMMA RecvTyped ==
  ASSUME TypeOK, NEW n \in 1..Len(wire), Recv(n)
  PROVE  wire' \in Seq(Bytes) /\ Taken(n) \in Seq(Bytes)
  <1>1. wire \in Seq(Bytes) /\ server.buf \in Seq(Bytes) /\ n \in 0..Len(wire)
    BY DEF TypeOK, Servers
  <1>2. SubSeq(wire, 1, n) \in Seq(Bytes) /\ SubSeq(wire, n + 1, Len(wire)) \in Seq(Bytes)
    BY <1>1, CutTyped
  <1> QED BY <1>1, <1>2 DEF Recv, Taken

-----------------------------------------------------------------------------
(* The clock.                                                              *)

\* While the server waits, the time it has waited and the time it may still
\* wait are the timeout, and the tick counter is where that time has moved it.
Waiting ==
  InHandshake =>
    /\ server.waited + server.limit = AUTH_TIMEOUT_MS
    /\ \/ tick = server.start + server.waited
       \/ tick = server.start + server.waited - DwordMod

\* The header's receive comes first and the token's second.
Spending ==
  /\ server.pc = "listen" => server.spent = 0
  /\ server.pc = "header" => server.spent = server.waited
  /\ server.pc = "token" => server.spent <= AUTH_TIMEOUT_MS + server.waited
  /\ VerdictBounded

\* Only a closed connection has a reason for it.
Reasoned == server.pc # "closed" => server.why = "none"

ClockInv == TypeOK /\ Waiting /\ Spending /\ Reasoned /\ TimeoutHonest

\* The DWORD subtraction measures the wait.
LEMMA ElapsedIsWaited ==
  ASSUME ClockInv, InHandshake
  PROVE  Elapsed = server.waited /\ server.waited \in 0..AUTH_TIMEOUT_MS
  <1>1. /\ server.start \in 0..(DwordMod - 1) /\ tick \in 0..(DwordMod - 1)
        /\ server.waited \in Nat /\ server.limit \in 0..AUTH_TIMEOUT_MS
    BY DEF ClockInv, TypeOK, Servers
  <1>2. /\ server.waited + server.limit = AUTH_TIMEOUT_MS
        /\ \/ tick = server.start + server.waited
           \/ tick = server.start + server.waited - DwordMod
    BY DEF ClockInv, Waiting
  <1>3. server.waited \in 0..(DwordMod - 1) /\ server.waited \in 0..AUTH_TIMEOUT_MS
    BY <1>1, <1>2
  <1> QED BY <1>1, <1>2, <1>3, DwordDifference DEF Elapsed

\* A rejection for any reason but a timeout, and one for a full wait, keep the
\* clock's invariant.
LEMMA RejectKeepsClock ==
  ASSUME ClockInv, NEW s \in Servers, NEW why \in Reasons,
         s.waited = server.waited, s.spent = server.spent,
         why = "timeout" => server.waited >= AUTH_TIMEOUT_MS,
         server' = Reject(s, why)
  PROVE  /\ server' \in Servers
         /\ Waiting' /\ Spending' /\ Reasoned' /\ TimeoutHonest'
  <1>1. /\ server' \in Servers
        /\ server'.pc = "closed" /\ server'.why = why
        /\ server'.waited = server.waited /\ server'.spent = server.spent
    BY DEF Reject, Servers
  <1> QED BY <1>1 DEF ClockInv, Waiting, InHandshake, Spending, Reasoned, TimeoutHonest,
            VerdictBounded

\* A step that keeps the server's record and the tick counter keeps the
\* clock's invariant.
LEMMA OthersKeepClock ==
  ASSUME ClockInv, UNCHANGED <<tick, server>>
  PROVE  Waiting' /\ Spending' /\ Reasoned' /\ TimeoutHonest'
  BY DEF ClockInv, Waiting, InHandshake, Spending, Reasoned, TimeoutHonest, VerdictBounded

\* A recv of the handshake keeps the clock's invariant.
LEMMA AuthRecvKeepsClock ==
  ASSUME ClockInv, AuthRecv
  PROVE  ClockInv'
  <1> USE DEF ClockInv
  <1>1. PICK n \in 1..Len(wire) :
          /\ Recv(n)
          /\ \/ Len(Taken(n)) >= server.want /\ Received(Taken(n))
             \/ /\ Len(Taken(n)) < server.want /\ Elapsed >= AUTH_TIMEOUT_MS
                /\ server' = Reject(server, "timeout")
             \/ /\ Len(Taken(n)) < server.want /\ Elapsed < AUTH_TIMEOUT_MS
                /\ server' = [server EXCEPT !.buf = Taken(n),
                                           !.limit = AUTH_TIMEOUT_MS - Elapsed]
    BY DEF AuthRecv
  <1>2. wire' \in Seq(Bytes) /\ Taken(n) \in Seq(Bytes)
    BY <1>1, RecvTyped
  <1>3. /\ Elapsed = server.waited /\ server.waited \in 0..AUTH_TIMEOUT_MS
        /\ InHandshake /\ server.pc \in {"header", "token"}
    BY ElapsedIsWaited DEF AuthRecv, InHandshake
  <1>4. /\ server \in Servers /\ tick \in 0..(DwordMod - 1)
        /\ server.spent \in Nat /\ server.why = "none"
    BY <1>3 DEF TypeOK, Servers, Reasoned
  <1>5. /\ server' \in Servers
        /\ Waiting' /\ Spending' /\ Reasoned' /\ TimeoutHonest'
    <2>1. CASE server' = Reject(server, "timeout") /\ Elapsed >= AUTH_TIMEOUT_MS
      BY <1>3, <1>4, <2>1, RejectKeepsClock DEF Reasons
    <2>2. CASE server' = Reject(server, "header") \/ server' = Reject(server, "mismatch")
      BY <1>4, <2>2, RejectKeepsClock DEF Reasons
    <2>3. CASE /\ server' = [server EXCEPT !.buf = Taken(n),
                                          !.limit = AUTH_TIMEOUT_MS - Elapsed]
               /\ Elapsed < AUTH_TIMEOUT_MS
      <3>1. AUTH_TIMEOUT_MS - Elapsed \in 0..AUTH_TIMEOUT_MS
        BY <1>3, <2>3
      <3>2. /\ server' \in Servers
            /\ server'.limit = AUTH_TIMEOUT_MS - server.waited
            /\ server'.pc = server.pc /\ server'.why = server.why
            /\ server'.start = server.start /\ server'.waited = server.waited
            /\ server'.spent = server.spent
        BY <1>2, <1>3, <1>4, <2>3, <3>1 DEF Servers
      <3>3. tick' = tick
        BY DEF AuthRecv
      <3> QED BY <1>3, <1>4, <3>2, <3>3
              DEF Waiting, InHandshake, Spending, Reasoned, TimeoutHonest, VerdictBounded
    <2>4. CASE /\ server.pc = "header" /\ HeaderValid(Taken(n))
               /\ server' = Receive("token", Taken(n)[2][2])
      <3>1. Taken(n)[2][2] \in Nat
        BY <2>4, TokenAssumption DEF HeaderValid
      <3>2. server' \in Servers
        BY <2>4, <3>1, ServerTyped
      <3>3. /\ server'.limit = AUTH_TIMEOUT_MS /\ server'.pc = "token"
            /\ server'.why = server.why /\ server'.start = tick
            /\ server'.waited = 0 /\ server'.spent = server.spent
        BY <1>4, <2>4 DEF Receive, Servers
      <3>4. tick' = tick /\ server.spent = server.waited
        BY <2>4 DEF AuthRecv, Spending
      <3> QED BY <1>3, <1>4, <3>2, <3>3, <3>4
              DEF Waiting, InHandshake, Spending, Reasoned, TimeoutHonest, VerdictBounded
    <2>5. CASE server' = [server EXCEPT !.pc = "add"]
      <3>1. /\ server' \in Servers /\ server'.pc = "add"
            /\ server'.why = server.why /\ server'.waited = server.waited
            /\ server'.spent = server.spent
        BY <1>4, <2>5 DEF Servers
      <3> QED BY <1>4, <3>1
              DEF Waiting, InHandshake, Spending, Reasoned, TimeoutHonest, VerdictBounded
    <2> QED BY <1>1, <2>1, <2>2, <2>3, <2>4, <2>5 DEF Received
  <1> QED BY <1>2, <1>5 DEF AuthRecv, TypeOK

\* The other steps of the server keep it.
LEMMA ServerKeepsClock ==
  ASSUME ClockInv, ServerStep
  PROVE  ClockInv'
  <1> USE DEF ClockInv
  <1>1. server \in Servers /\ tick \in 0..(DwordMod - 1) /\ wire \in Seq(Bytes)
    BY DEF TypeOK
  <1>2. CASE Accept
    <2>1. CASE server' = Receive("header", HeaderLen)
      <3>1. server' \in Servers
        BY <2>1, ServerTyped DEF HeaderLen
      <3>2. /\ server'.limit = AUTH_TIMEOUT_MS /\ server'.pc = "header"
            /\ server'.why = server.why /\ server'.start = tick
            /\ server'.waited = 0 /\ server'.spent = server.spent
        BY <1>1, <2>1 DEF Receive, Servers
      <3>3. tick' = tick /\ server.spent = 0 /\ server.why = "none"
        BY <1>2 DEF Accept, Spending, Reasoned
      <3>4. Waiting' /\ Spending' /\ Reasoned' /\ TimeoutHonest'
        BY <1>1, <3>1, <3>2, <3>3
        DEF Waiting, InHandshake, Spending, Reasoned, TimeoutHonest, VerdictBounded
      <3> QED BY <1>2, <3>1, <3>4 DEF Accept, TypeOK
    <2>2. CASE server' = [server EXCEPT !.pc = "add"]
      <3>1. /\ server' \in Servers /\ server'.pc = "add"
            /\ server'.why = server.why /\ server'.waited = server.waited
            /\ server'.spent = server.spent
        BY <1>1, <2>2 DEF Servers
      <3>2. server.pc # "closed"
        BY <1>2 DEF Accept
      <3>3. Waiting' /\ Spending' /\ Reasoned' /\ TimeoutHonest'
        BY <3>1, <3>2
        DEF Waiting, InHandshake, Spending, Reasoned, TimeoutHonest, VerdictBounded
      <3> QED BY <1>2, <3>1, <3>3 DEF Accept, TypeOK
    <2> QED BY <1>2, <2>1, <2>2 DEF Accept
  <1>3. CASE AuthRecv
    BY <1>3, AuthRecvKeepsClock
  <1>4. CASE AuthTimeout
    <2>1. server.waited >= AUTH_TIMEOUT_MS
      BY <1>1, <1>4 DEF AuthTimeout, Waiting, Servers
    <2>2. server' \in Servers /\ Waiting' /\ Spending' /\ Reasoned' /\ TimeoutHonest'
      BY <1>1, <1>4, <2>1, RejectKeepsClock DEF AuthTimeout, Reasons
    <2> QED BY <1>4, <2>2 DEF AuthTimeout, TypeOK
  <1>5. CASE AuthShort \/ RequestShort
    <2>1. server' \in Servers /\ Waiting' /\ Spending' /\ Reasoned' /\ TimeoutHonest'
      BY <1>1, <1>5, RejectKeepsClock DEF AuthShort, RequestShort, Reasons
    <2> QED BY <1>5, <2>1 DEF AuthShort, RequestShort, TypeOK
  <1>6. CASE AddClient
    <2>1. CASE server' = Reject(server, "full")
      <3>1. server' \in Servers /\ Waiting' /\ Spending' /\ Reasoned' /\ TimeoutHonest'
        BY <1>1, <2>1, RejectKeepsClock DEF Reasons
      <3> QED BY <1>6, <3>1 DEF AddClient, TypeOK
    <2>2. CASE server' = [server EXCEPT !.pc = "recv", !.buf = <<>>, !.want = Len(OpHeader)]
      <3>1. Len(OpHeader) \in Nat /\ <<>> \in Seq(Bytes)
        BY MessagesTyped
      <3>2. /\ server' \in Servers /\ server'.pc = "recv"
            /\ server'.why = server.why /\ server'.waited = server.waited
            /\ server'.spent = server.spent
        BY <1>1, <2>2, <3>1 DEF Servers
      <3>3. server.pc # "closed"
        BY <1>6 DEF AddClient
      <3>4. Waiting' /\ Spending' /\ Reasoned' /\ TimeoutHonest'
        BY <3>2, <3>3
        DEF Waiting, InHandshake, Spending, Reasoned, TimeoutHonest, VerdictBounded
      <3> QED BY <1>6, <3>2, <3>4 DEF AddClient, TypeOK
    <2> QED BY <1>6, <2>1, <2>2 DEF AddClient
  <1>7. CASE RequestRecv
    <2>1. PICK n \in 1..Len(wire) :
            /\ Recv(n)
            /\ \/ server' = [server EXCEPT !.buf = Taken(n)]
               \/ server' = [server EXCEPT !.pc = "served", !.buf = Taken(n)]
               \/ server' = Reject([server EXCEPT !.buf = Taken(n)], "unsupported")
      BY <1>7 DEF RequestRecv
    <2>2. wire' \in Seq(Bytes) /\ Taken(n) \in Seq(Bytes)
      BY <2>1, RecvTyped
    <2>3. server' \in Servers /\ Waiting' /\ Spending' /\ Reasoned' /\ TimeoutHonest'
      <3>1. CASE server' = Reject([server EXCEPT !.buf = Taken(n)], "unsupported")
        <4>1. /\ [server EXCEPT !.buf = Taken(n)] \in Servers
              /\ [server EXCEPT !.buf = Taken(n)].waited = server.waited
              /\ [server EXCEPT !.buf = Taken(n)].spent = server.spent
          BY <1>1, <2>2 DEF Servers
        <4> QED BY <3>1, <4>1, RejectKeepsClock DEF Reasons
      <3>2. CASE \/ server' = [server EXCEPT !.buf = Taken(n)]
                 \/ server' = [server EXCEPT !.pc = "served", !.buf = Taken(n)]
        <4>1. server.pc = "recv"
          BY <1>7 DEF RequestRecv
        <4>2. /\ server' \in Servers /\ server'.pc \in {"recv", "served"}
              /\ server'.why = server.why /\ server'.waited = server.waited
              /\ server'.spent = server.spent
          BY <1>1, <2>2, <3>2, <4>1 DEF Servers
        <4> QED BY <4>1, <4>2
                DEF Waiting, InHandshake, Spending, Reasoned, TimeoutHonest, VerdictBounded
      <3> QED BY <2>1, <3>1, <3>2
    <2> QED BY <1>7, <2>2, <2>3 DEF RequestRecv, TypeOK
  <1> QED BY <1>2, <1>3, <1>4, <1>5, <1>6, <1>7 DEF ServerStep

\* Time passing keeps it.
LEMMA TickKeepsClock ==
  ASSUME ClockInv, Tick
  PROVE  ClockInv'
  <1> USE DEF ClockInv
  <1>1. server \in Servers /\ tick \in 0..(DwordMod - 1)
    BY DEF TypeOK
  <1>2. /\ server.limit \in 1..AUTH_TIMEOUT_MS /\ server.waited \in Nat
        /\ server.spent \in Nat /\ server.start \in 0..(DwordMod - 1)
        /\ server.pc \in {"header", "token"} /\ server.why = "none"
    BY <1>1 DEF Tick, InHandshake, Servers, Reasoned
  <1>3. /\ server' \in Servers
        /\ server'.limit = server.limit - 1 /\ server'.waited = server.waited + 1
        /\ server'.spent = server.spent + 1 /\ server'.start = server.start
        /\ server'.pc = server.pc /\ server'.why = server.why
    <2>1. /\ server.limit - 1 \in 0..AUTH_TIMEOUT_MS /\ server.waited + 1 \in Nat
          /\ server.spent + 1 \in Nat
      BY <1>2
    <2>2. server' = [server EXCEPT !.limit = @ - 1, !.waited = @ + 1, !.spent = @ + 1]
      BY DEF Tick
    <2> HIDE DEF ClockInv
    <2> QED BY <1>1, <2>1, <2>2 DEF Servers
  <1>4. /\ tick' \in 0..(DwordMod - 1)
        /\ tick' = tick + 1 \/ tick' = tick + 1 - DwordMod
    BY <1>1, NextTick DEF Tick
  <1>5. /\ server.waited + server.limit = AUTH_TIMEOUT_MS
        /\ tick = server.start + server.waited \/ tick = server.start + server.waited - DwordMod
    BY DEF Tick, Waiting
  <1>6. Waiting'
    <2> HIDE DEF ClockInv
    <2>1. server'.waited + server'.limit = AUTH_TIMEOUT_MS
      BY <1>2, <1>3, <1>5
    <2>2. server.waited + 1 < DwordMod
      BY <1>2, <1>5
    <2>3. \/ tick' = server.start + server.waited + 1
          \/ tick' = server.start + server.waited + 1 - DwordMod
      BY <1>1, <1>2, <1>4, <1>5, <2>2
    <2> QED BY <1>2, <1>3, <2>1, <2>3 DEF Waiting
  <1>7. Spending' /\ Reasoned' /\ TimeoutHonest'
    BY <1>2, <1>3, <1>5 DEF Spending, VerdictBounded, Reasoned, TimeoutHonest
  <1> QED BY <1>3, <1>4, <1>6, <1>7 DEF Tick, TypeOK

\* The clock's invariant is inductive.
THEOREM ClockInvariant == Spec => []ClockInv
  <1>1. Init => ClockInv
    <2> SUFFICES ASSUME Init PROVE ClockInv
      OBVIOUS
    <2>1. Idle \in Servers
      BY DEF Idle, Servers, Reasons
    <2>2. Disconnected \in [pc : {"connect", "auth", "request", "reply", "ok", "failed"},
                            left : Seq(Bytes)]
      BY DEF Disconnected
    <2>3. TypeOK
      BY <2>1, <2>2 DEF Init, TypeOK
    <2> QED BY <2>3 DEF Init, Idle, ClockInv, Waiting, InHandshake, Spending, Reasoned,
                        TimeoutHonest, VerdictBounded
  <1>2. ClockInv /\ [Next]_vars => ClockInv'
    <2> SUFFICES ASSUME ClockInv, [Next]_vars PROVE ClockInv'
      OBVIOUS
    <2>1. CASE ClientStep
      <3>1. TypeOK'
        BY <2>1, ClientTyped DEF ClockInv
      <3>2. UNCHANGED <<tick, server>>
        BY <2>1 DEF ClientStep, Connect, ConnectFails, SendSome, SendLast, SendFails,
                    ReceiveReply, ClientGone
      <3> QED BY <3>1, <3>2, OthersKeepClock DEF ClockInv
    <2>2. CASE ServerStep
      BY <2>2, ServerKeepsClock
    <2>3. CASE Tick
      BY <2>3, TickKeepsClock
    <2>4. CASE NextConnection
      <3>1. Idle \in Servers
        BY DEF Idle, Servers, Reasons
      <3>2. Disconnected \in [pc : {"connect", "auth", "request", "reply", "ok", "failed"},
                              left : Seq(Bytes)]
        BY DEF Disconnected
      <3>3. token' \in [server : Tokens, client : Tokens]
        BY <2>4 DEF NextConnection, ClockInv, TypeOK
      <3>4. TypeOK'
        BY <2>4, <3>1, <3>2, <3>3 DEF NextConnection, ClockInv, TypeOK
      <3> QED BY <2>4, <3>4 DEF NextConnection, Idle, ClockInv, Waiting, InHandshake, Spending,
                                Reasoned, TimeoutHonest, VerdictBounded
    <2>5. CASE UNCHANGED vars
      <3>1. TypeOK'
        BY <2>5 DEF vars, ClockInv, TypeOK
      <3>2. UNCHANGED <<tick, server>>
        BY <2>5 DEF vars
      <3> QED BY <3>1, <3>2, OthersKeepClock DEF ClockInv
    <2> QED BY <2>1, <2>2, <2>3, <2>4, <2>5 DEF Next
  <1> QED BY <1>1, <1>2, PTL DEF Spec

\* Every variable keeps its type; the time select gets never exceeds
\* AUTH_TIMEOUT_MS.
THEOREM TypeCorrect == Spec => []TypeOK
  <1>1. ClockInv => TypeOK
    BY DEF ClockInv
  <1> QED BY <1>1, ClockInvariant, PTL

\* auth_server_handshake holds the accepting thread for at most two timeouts,
\* however the client sends and wherever GetTickCount wraps.
THEOREM HandshakeIsBounded == Spec => []VerdictBounded
  <1>1. ClockInv => VerdictBounded
    BY DEF ClockInv, Spending
  <1> QED BY <1>1, ClockInvariant, PTL

\* A receive of the handshake times out no earlier than it may.
THEOREM TimeoutIsHonest == Spec => []TimeoutHonest
  <1>1. ClockInv => TimeoutHonest
    BY DEF ClockInv
  <1> QED BY <1>1, ClockInvariant, PTL

-----------------------------------------------------------------------------
(* The stream.                                                             *)

\* The stream of a client with token t: the frame, if there is one, and the
\* request header behind it.
FrameLen(t) == IF auth_is_enabled(t) THEN HeaderLen + Len(t) ELSE 0
StreamLen(t) == FrameLen(t) + 4
Byte(t, i) ==
  IF i > FrameLen(t) THEN <<"op", i - FrameLen(t)>>
  ELSE IF i = 1 THEN Magic
  ELSE IF i = 2 THEN <<"len", Len(t)>>
  ELSE <<"chr", t[i - HeaderLen]>>

\* s is what stands in the stream after the first n bytes.
Segment(t, s, n) == \A i \in 1..Len(s) : s[i] = Byte(t, n + i)

\* Where the receive of the server began, and how far the server has come; t is
\* the server's token.
Offset(s, t) == CASE s.pc \in {"listen", "header"} -> 0
                  [] s.pc = "token" -> HeaderLen
                  [] OTHER -> FrameLen(t)
Receiving == {"header", "token", "recv"}
Position(s, t) == Offset(s, t) + IF s.pc \in Receiving THEN Len(s.buf) ELSE 0

\* There is nothing on the way before the connection is there.
Unconnected ==
  /\ client.pc = "connect" => conn = "none"
  /\ conn = "none" => server.pc = "listen" /\ wire = <<>> /\ client.pc \in {"connect", "failed"}

\* What the server waits for.
Awaited ==
  /\ server.pc = "header" => /\ server.want = HeaderLen /\ Len(server.buf) < server.want
                             /\ auth_is_enabled(token.server)
  /\ server.pc = "token" => /\ server.want = Len(token.client) /\ Len(server.buf) < server.want
                            /\ auth_is_enabled(token.server) /\ auth_is_enabled(token.client)
  /\ server.pc = "recv" => server.want = 4 /\ Len(server.buf) < server.want

\* What the server s has received, what is on the way, w, and what the client c
\* has left to send follow each other in the stream; t and u are the client's
\* and the server's token.
Flows(t, u, s, c, w) ==
  LET pos == Position(s, u)
  IN /\ Segment(t, w, pos)
     /\ s.pc \in Receiving => Segment(t, s.buf, Offset(s, u))
     /\ pos + Len(w) <= StreamLen(t)
     /\ c.pc \in {"auth", "request"} =>
          /\ Segment(t, c.left, pos + Len(w))
          /\ pos + Len(w) + Len(c.left) = IF c.pc = "auth" THEN FrameLen(t) ELSE StreamLen(t)
     /\ c.pc \in {"auth", "request"} \/ pos + Len(w) > 0 => Len(t) <= AUTH_TOKEN_MAX_LEN
     /\ c.pc = "auth" => auth_is_enabled(t)

InOrder ==
  server.pc \notin {"served", "closed"} =>
    Flows(token.client, token.server, server, client, wire)

\* What the server has found out about the client's token.
Verdicts ==
  /\ AdmittedHasToken
  /\ server.pc = "served" => server.buf = OpHeader
  /\ server.why \in {"header", "mismatch", "unsupported"} => token.client # token.server
  /\ server.why = "short" => conn = "lost"

StreamInv == Unconnected /\ Awaited /\ InOrder /\ Verdicts

\* A token is a sequence of fewer than 256 numbers.
LEMMA TokenLength ==
  ASSUME NEW t \in Tokens
  PROVE  /\ t \in Seq(Nat) /\ Len(t) \in Nat /\ Len(t) < 256 /\ Len(t) % 256 = Len(t)
         /\ auth_is_enabled(t) => Len(t) >= 1
  <1>1. t \in Seq(Nat) /\ Len(t) < 256
    BY TokenAssumption
  <1>2. Len(t) \in Nat
    BY <1>1
  <1>3. Len(t) % 256 = Len(t)
    BY <1>1, <1>2
  <1>4. t # <<>> => Len(t) # 0
    BY <1>1
  <1> QED BY <1>1, <1>2, <1>3, <1>4 DEF auth_is_enabled

\* The bytes of the frame.
LEMMA FrameBytes ==
  ASSUME NEW t \in Tokens, auth_is_enabled(t)
  PROVE  /\ Segment(t, Frame(t), 0) /\ Len(Frame(t)) = FrameLen(t) /\ FrameLen(t) \in Nat
         /\ Len(t) \in 1..255 /\ FrameLen(t) = HeaderLen + Len(t)
         /\ Byte(t, 1) = Magic /\ Byte(t, 2) = <<"len", Len(t)>>
         /\ \A i \in 1..Len(t) : Byte(t, HeaderLen + i) = <<"chr", t[i]>>
  <1>0. t \in Seq(Nat) /\ Len(t) \in Nat /\ Len(t) < 256 /\ Len(t) >= 1
    BY TokenLength
  <1>1. t \in Seq(Nat) /\ Len(t) \in 1..255 /\ FrameLen(t) = 2 + Len(t)
    <2>1. FrameLen(t) = HeaderLen + Len(t) /\ HeaderLen = 2
      BY DEF FrameLen, HeaderLen
    <2>2. \A n \in Nat : n < 256 /\ n >= 1 => n \in 1..255
      OBVIOUS
    <2> QED BY <1>0, <2>1, <2>2
  <1>2. /\ Byte(t, 1) = Magic /\ Byte(t, 2) = <<"len", Len(t)>>
        /\ \A i \in 1..Len(t) : Byte(t, 2 + i) = <<"chr", t[i]>>
    <2>1. Byte(t, 1) = Magic
      BY <1>1 DEF Byte
    <2>2. Byte(t, 2) = <<"len", Len(t)>>
      BY <1>1 DEF Byte
    <2>3. ASSUME NEW i \in 1..Len(t) PROVE Byte(t, 2 + i) = <<"chr", t[i]>>
      <3>1. /\ ~(2 + i > FrameLen(t)) /\ 2 + i # 1 /\ 2 + i # 2
            /\ (2 + i) - HeaderLen = i
        BY <1>1 DEF HeaderLen
      <3> QED BY <3>1 DEF Byte
    <2> QED BY <2>1, <2>2, <2>3
  <1> DEFINE chars == [i \in 1..Len(t) |-> <<"chr", t[i]>>]
             head == <<Magic, <<"len", Len(t)>>>>
             all == {Magic, <<"len", Len(t)>>} \cup {<<"chr", t[i]>> : i \in 1..Len(t)}
  <1>3. chars \in Seq(all) /\ Len(chars) = Len(t) /\ head \in Seq(all) /\ Len(head) = 2
    BY <1>1
  <1>4. Frame(t) = head \o chars
    BY DEF Frame
  <1>6. \A i \in 1..Len(t) : chars[i] = <<"chr", t[i]>>
    OBVIOUS
  <1>7. head[1] = Magic /\ head[2] = <<"len", Len(t)>>
    OBVIOUS
  <1> HIDE DEF chars, head, all
  <1>5. /\ Len(Frame(t)) = 2 + Len(t)
        /\ \A i \in 1..(2 + Len(t)) : Frame(t)[i] = IF i <= 2 THEN head[i] ELSE chars[i - 2]
    <2>1. /\ Len(head \o chars) = Len(head) + Len(chars)
          /\ \A i \in 1..(Len(head) + Len(chars)) :
               (head \o chars)[i] = IF i <= Len(head) THEN head[i] ELSE chars[i - Len(head)]
      BY <1>3, ConcatProperties
    <2> QED BY <1>3, <1>4, <2>1
  <1>8. ASSUME NEW i \in 1..(2 + Len(t)) PROVE Frame(t)[i] = Byte(t, i)
    <2>1. CASE i = 1
      BY <1>2, <1>5, <1>7, <2>1
    <2>3. CASE i = 2
      <3>1. Frame(t)[2] = head[2]
        BY <1>1, <1>5
      <3> QED BY <1>2, <1>7, <2>3, <3>1
    <2>2. CASE i > 2
      <3>1. i - 2 \in 1..Len(t) /\ 2 + (i - 2) = i
        BY <1>1, <2>2
      <3>2. Frame(t)[i] = chars[i - 2]
        BY <1>1, <1>5, <2>2
      <3>3. chars[i - 2] = <<"chr", t[i - 2]>> /\ Byte(t, 2 + (i - 2)) = <<"chr", t[i - 2]>>
        BY <1>2, <1>6, <3>1
      <3> QED BY <3>1, <3>2, <3>3
    <2> QED BY <1>1, <2>1, <2>2, <2>3
  <1>9. Segment(t, Frame(t), 0)
    BY <1>1, <1>5, <1>8 DEF Segment
  <1>10. /\ Len(Frame(t)) = FrameLen(t) /\ FrameLen(t) \in Nat
         /\ FrameLen(t) = HeaderLen + Len(t)
    BY <1>1, <1>5 DEF HeaderLen
  <1> QED BY <1>1, <1>2, <1>9, <1>10 DEF HeaderLen

\* The bytes of the request, behind the frame.
LEMMA RequestBytes ==
  ASSUME NEW t \in Tokens
  PROVE  /\ Segment(t, OpHeader, FrameLen(t)) /\ Len(OpHeader) = 4
         /\ FrameLen(t) \in Nat /\ StreamLen(t) = FrameLen(t) + 4
         /\ \A i \in 1..4 : OpHeader[i] = <<"op", i>> /\ Byte(t, FrameLen(t) + i) = <<"op", i>>
         /\ ~auth_is_enabled(t) => FrameLen(t) = 0 /\ Byte(t, 1) # Magic
  <1>1. FrameLen(t) \in Nat /\ (~auth_is_enabled(t) => FrameLen(t) = 0)
    BY TokenLength DEF FrameLen, HeaderLen
  <1>2. \A i \in 1..4 : OpHeader[i] = <<"op", i>> /\ Len(OpHeader) = 4
    BY DEF OpHeader
  <1>3. ASSUME NEW i \in 1..4 PROVE Byte(t, FrameLen(t) + i) = <<"op", i>>
    <2>1. FrameLen(t) + i > FrameLen(t) /\ (FrameLen(t) + i) - FrameLen(t) = i
      BY <1>1
    <2> QED BY <2>1 DEF Byte
  <1>4. ~auth_is_enabled(t) => Byte(t, 1) # Magic
    <2>1. ~auth_is_enabled(t) => Byte(t, 1) = <<"op", 1>>
      BY <1>1, <1>3
    <2> QED BY <2>1 DEF Magic
  <1>5. Segment(t, OpHeader, FrameLen(t)) /\ Len(OpHeader) = 4
    <2>1. Len(OpHeader) = 4
      BY DEF OpHeader
    <2> QED BY <1>2, <1>3, <2>1 DEF Segment
  <1>6. StreamLen(t) = FrameLen(t) + 4
    BY DEF StreamLen
  <1> QED BY <1>1, <1>2, <1>3, <1>4, <1>5, <1>6

\* Both parts of a cut segment are segments.
LEMMA SegmentCut ==
  ASSUME NEW t, NEW S, NEW s \in Seq(S), NEW a \in Nat, Segment(t, s, a), NEW n \in 0..Len(s)
  PROVE  /\ Segment(t, SubSeq(s, 1, n), a) /\ Len(SubSeq(s, 1, n)) = n
         /\ Segment(t, SubSeq(s, n + 1, Len(s)), a + n)
         /\ Len(SubSeq(s, n + 1, Len(s))) = Len(s) - n
  <1>1. Len(SubSeq(s, 1, n)) = n /\ \A i \in 1..n : SubSeq(s, 1, n)[i] = s[i]
    OBVIOUS
  <1>2. /\ Len(SubSeq(s, n + 1, Len(s))) = Len(s) - n
        /\ \A i \in 1..(Len(s) - n) : SubSeq(s, n + 1, Len(s))[i] = s[n + i]
    OBVIOUS
  <1>3. ASSUME NEW i \in 1..(Len(s) - n)
        PROVE  SubSeq(s, n + 1, Len(s))[i] = Byte(t, (a + n) + i)
    <2>1. n + i \in 1..Len(s) /\ a + (n + i) = (a + n) + i
      OBVIOUS
    <2>2. s[n + i] = Byte(t, a + (n + i))
      BY <2>1 DEF Segment
    <2> QED BY <1>2, <2>1, <2>2
  <1>4. \A i \in 1..n : SubSeq(s, 1, n)[i] = Byte(t, a + i)
    BY <1>1 DEF Segment
  <1> QED BY <1>1, <1>2, <1>3, <1>4 DEF Segment

\* A segment and the one after it are a segment.
LEMMA SegmentJoin ==
  ASSUME NEW t, NEW S, NEW s \in Seq(S), NEW u \in Seq(S), NEW a \in Nat,
         Segment(t, s, a), Segment(t, u, a + Len(s))
  PROVE  Segment(t, s \o u, a) /\ Len(s \o u) = Len(s) + Len(u)
  <1>1. /\ Len(s \o u) = Len(s) + Len(u)
        /\ \A i \in 1..(Len(s) + Len(u)) : (s \o u)[i] = IF i <= Len(s) THEN s[i] ELSE u[i - Len(s)]
    OBVIOUS
  <1>2. ASSUME NEW i \in 1..(Len(s) + Len(u)) PROVE (s \o u)[i] = Byte(t, a + i)
    <2>1. CASE i <= Len(s)
      BY <1>1, <2>1 DEF Segment
    <2>2. CASE i > Len(s)
      <3>1. i - Len(s) \in 1..Len(u) /\ (a + Len(s)) + (i - Len(s)) = a + i
        BY <2>2
      <3>2. u[i - Len(s)] = Byte(t, (a + Len(s)) + (i - Len(s)))
        BY <3>1 DEF Segment
      <3> QED BY <1>1, <2>2, <3>1, <3>2
    <2> QED BY <2>1, <2>2
  <1> QED BY <1>1, <1>2 DEF Segment

\* Nothing is a segment anywhere.
LEMMA SegmentEmpty == \A t, n : Segment(t, <<>>, n)
  BY DEF Segment

\* Four bytes behind the frame are the request; four bytes from the start are
\* not when there is a frame.
LEMMA RequestRecognised ==
  ASSUME NEW t \in Tokens, NEW S, NEW s \in Seq(S), Len(s) = 4
  PROVE  /\ Segment(t, s, FrameLen(t)) => s = OpHeader
         /\ Segment(t, s, 0) /\ auth_is_enabled(t) => s # OpHeader
  <1>1. ASSUME Segment(t, s, FrameLen(t)) PROVE s = OpHeader
    <2>1. \A i \in 1..4 : s[i] = OpHeader[i]
      BY <1>1, RequestBytes DEF Segment
    <2>2. OpHeader \in Seq({"op"} \X (1..4)) /\ Len(OpHeader) = 4
      BY DEF OpHeader
    <2> QED BY <2>1, <2>2
  <1>2. ASSUME Segment(t, s, 0), auth_is_enabled(t) PROVE s # OpHeader
    <2>1. s[1] = Magic
      BY <1>2, FrameBytes DEF Segment
    <2>2. OpHeader[1] = <<"op", 1>>
      BY RequestBytes
    <2> QED BY <2>1, <2>2 DEF Magic
  <1> QED BY <1>1, <1>2

\* The comparison tells tokens apart although it works on bytes: a token is
\* shorter than 256.
LEMMA TokenRecognised ==
  ASSUME NEW t \in Tokens, NEW u \in Tokens, auth_is_enabled(t),
         NEW S, NEW got \in Seq(S), Len(got) = Len(t), Segment(t, got, HeaderLen)
  PROVE  TokenMatches(u, got) <=> u = t
  <1>1. /\ t \in Seq(Nat) /\ u \in Seq(Nat) /\ Len(t) \in Nat /\ Len(u) \in Nat
    BY TokenLength
  <1>2. \A i \in 1..Len(t) : got[i] = <<"chr", t[i]>>
    BY FrameBytes DEF Segment
  <1>3. Len(t) % 256 = Len(t) /\ Len(u) % 256 = Len(u)
    BY TokenLength
  <1>4. ASSUME TokenMatches(u, got) PROVE u = t
    <2>1. Len(u) = Len(t)
      BY <1>3, <1>4 DEF TokenMatches
    <2>2. ASSUME NEW i \in 1..Len(u) PROVE u[i] = t[i]
      <3>1. got[i] = <<"chr", u[i]>> /\ got[i] = <<"chr", t[i]>>
        BY <1>1, <1>2, <1>4, <2>1 DEF TokenMatches
      <3> QED BY <3>1
    <2> QED BY <1>1, <2>1, <2>2, SeqEqual
  <1>5. ASSUME u = t PROVE TokenMatches(u, got)
    BY <1>1, <1>2, <1>3, <1>5 DEF TokenMatches
  <1> QED BY <1>4, <1>5

\* Where the server is in the stream.
LEMMA PositionTyped ==
  ASSUME TypeOK
  PROVE  /\ token.client \in Tokens /\ token.server \in Tokens
         /\ Offset(server, token.server) \in Nat /\ Position(server, token.server) \in Nat
         /\ wire \in Seq(Bytes) /\ server.buf \in Seq(Bytes) /\ client.left \in Seq(Bytes)
         /\ Len(wire) \in Nat /\ Len(server.buf) \in Nat /\ Len(client.left) \in Nat
  <1>1. /\ token.client \in Tokens /\ token.server \in Tokens
        /\ wire \in Seq(Bytes) /\ server.buf \in Seq(Bytes) /\ client.left \in Seq(Bytes)
    BY DEF TypeOK, Servers
  <1>2. FrameLen(token.server) \in Nat
    BY <1>1, RequestBytes
  <1>3. Offset(server, token.server) \in Nat
    BY <1>2 DEF Offset, HeaderLen
  <1>4. Len(wire) \in Nat /\ Len(server.buf) \in Nat /\ Len(client.left) \in Nat
    BY <1>1
  <1> QED BY <1>1, <1>3, <1>4 DEF Position

\* The stream flows on when the server takes up what leaves the wire.
LEMMA FlowsMove ==
  ASSUME NEW t, NEW u, NEW s, NEW c, NEW w, NEW s2, NEW w2,
         Flows(t, u, s, c, w), Segment(t, w2, Position(s2, u)),
         s2.pc \in Receiving => Segment(t, s2.buf, Offset(s2, u)),
         Position(s2, u) + Len(w2) = Position(s, u) + Len(w)
  PROVE  Flows(t, u, s2, c, w2)
  BY DEF Flows

\* A step of the client that keeps the stream in order and loses no socket
\* keeps the invariant.
LEMMA ClientSide ==
  ASSUME StreamInv, UNCHANGED <<token, server>>, Unconnected',
         server.pc \notin {"served", "closed"} =>
           Flows(token.client, token.server, server, client', wire'),
         server.why = "short" => conn' = "lost"
  PROVE  StreamInv'
  <1>1. Awaited'
    BY DEF StreamInv, Awaited
  <1>2. InOrder'
    BY DEF InOrder
  <1>3. Verdicts'
    BY DEF StreamInv, Verdicts, AdmittedHasToken
  <1> QED BY <1>1, <1>2, <1>3 DEF StreamInv

\* The server gives the connection up.
LEMMA ServerCloses ==
  ASSUME StreamInv, server.pc # "listen", UNCHANGED <<token, client, conn>>,
         server'.pc = "closed",
         server'.why \in {"header", "mismatch", "unsupported"} => token.client # token.server,
         server'.why = "short" => conn = "lost"
  PROVE  StreamInv'
  <1>1. Unconnected'
    BY DEF StreamInv, Unconnected
  <1>2. Awaited' /\ InOrder' /\ Verdicts'
    BY DEF Awaited, InOrder, Verdicts, AdmittedHasToken
  <1> QED BY <1>1, <1>2 DEF StreamInv

\* Moving n of the bytes left to the wire.
LEMMA LengthSums ==
  ASSUME NEW pos \in Nat, NEW l \in Nat, NEW c \in Nat, NEW n \in Nat, n <= c
  PROVE  /\ pos + (l + n) = (pos + l) + n
         /\ pos + (l + n) + (c - n) = pos + l + c
         /\ pos + (l + n) <= pos + l + c
  OBVIOUS

\* A step of the client keeps the stream.
LEMMA ClientKeepsStream ==
  ASSUME ClockInv, StreamInv, ClientStep
  PROVE  StreamInv'
  <1> DEFINE t == token.client
             u == token.server
             pos == Position(server, u)
  <1>0. TypeOK
    BY DEF ClockInv
  <1>1. /\ t \in Tokens /\ u \in Tokens /\ pos \in Nat
        /\ wire \in Seq(Bytes) /\ client.left \in Seq(Bytes)
        /\ Len(wire) \in Nat /\ Len(client.left) \in Nat
    BY <1>0, PositionTyped
  <1>n. pos \in Nat /\ Len(wire) \in Nat /\ Len(client.left) \in Nat
    BY <1>1
  <1>2. FrameLen(t) \in Nat /\ StreamLen(t) = FrameLen(t) + 4 /\ Len(OpHeader) = 4
    BY <1>1, RequestBytes
  <1>3. client \in [pc : {"connect", "auth", "request", "reply", "ok", "failed"},
                    left : Seq(Bytes)]
    BY <1>0 DEF TypeOK
  <1>4. server.pc \notin {"served", "closed"} => Flows(t, u, server, client, wire)
    BY DEF StreamInv, InOrder
  <1>5. Unconnected
    BY DEF StreamInv
  <1>6. server.why = "short" => server.pc = "closed" /\ conn = "lost"
    BY DEF ClockInv, Reasoned, StreamInv, Verdicts
  <1>a. ASSUME client.pc = "connect" PROVE /\ conn = "none" /\ server.pc = "listen" /\ wire = <<>>
                                          /\ pos = 0
    BY <1>5, <1>a DEF Unconnected, Position, Offset, Receiving
  <1>b. ASSUME NEW c, c.pc \notin {"auth", "request"},
               server.pc \notin {"served", "closed"}
        PROVE  Flows(t, u, server, c, wire)
    <2> HIDE DEF t, u, pos
    <2> QED BY <1>4, <1>b DEF Flows
  <1> HIDE DEF t, u, pos
  <1>7. CASE Connect
    <2>0. /\ conn = "none" /\ server.pc = "listen" /\ wire = <<>> /\ pos = 0
          /\ UNCHANGED <<token, server, wire>> /\ conn' # "none" /\ server.why # "short"
      BY <1>6, <1>7, <1>a DEF Connect
    <2>1. Flows(t, u, server, client, wire) /\ Segment(t, <<>>, 0) /\ Len(<<>>) = 0
      BY <1>4, <2>0, SegmentEmpty
    <2>2. CASE ~auth_is_enabled(t) /\ client' = StartRequest
      <3>1. client'.pc = "request" /\ client'.left = OpHeader
        BY <2>2 DEF StartRequest
      <3>2. FrameLen(t) = 0 /\ Segment(t, OpHeader, 0) /\ Len(t) = 0
        <4>1. t = <<>>
          BY <2>2 DEF auth_is_enabled
        <4> QED BY <1>1, <2>2, <4>1, RequestBytes
      <3>3. Flows(t, u, server, client', wire')
        BY <1>1, <1>2, <2>0, <2>1, <3>1, <3>2, TokenAssumption DEF Flows, pos, Receiving
      <3>4. Unconnected'
        BY <2>0, <3>1 DEF Unconnected
      <3> QED BY <2>0, <3>3, <3>4, ClientSide DEF t, u
    <2>3. CASE /\ Len(t) \in 1..AUTH_TOKEN_MAX_LEN
               /\ client' = [pc |-> "auth", left |-> Frame(t)]
      <3>1. client'.pc = "auth" /\ client'.left = Frame(t)
        BY <2>3
      <3>2. auth_is_enabled(t) /\ Len(t) <= AUTH_TOKEN_MAX_LEN
        BY <2>3, TokenAssumption DEF auth_is_enabled
      <3>3. Segment(t, Frame(t), 0) /\ Len(Frame(t)) = FrameLen(t)
        BY <1>1, <3>2, FrameBytes
      <3>4. Flows(t, u, server, client', wire')
        BY <1>1, <1>2, <2>0, <2>1, <3>1, <3>2, <3>3 DEF Flows, pos, Receiving
      <3>5. Unconnected'
        BY <2>0, <3>1 DEF Unconnected
      <3> QED BY <2>0, <3>4, <3>5, ClientSide DEF t, u
    <2>4. CASE client' = [client EXCEPT !.pc = "failed"]
      <3>1. client'.pc = "failed"
        BY <1>3, <2>4
      <3>2. Flows(t, u, server, client', wire)
        BY <1>b, <2>0, <3>1
      <3>3. Unconnected'
        BY <2>0, <3>1 DEF Unconnected
      <3> QED BY <2>0, <3>2, <3>3, ClientSide DEF t, u
    <2> QED BY <1>7, <2>2, <2>3, <2>4 DEF Connect, t
  <1>8. CASE ConnectFails
    <2>0. /\ conn = "none" /\ server.pc = "listen" /\ wire = <<>>
          /\ UNCHANGED <<token, server, wire>> /\ server.why # "short"
      BY <1>6, <1>8, <1>a DEF ConnectFails
    <2>1. client'.pc = "failed"
      BY <1>3, <1>8 DEF ConnectFails
    <2>2. Flows(t, u, server, client', wire)
      BY <1>b, <2>0, <2>1
    <2>3. Unconnected'
      BY <2>0, <2>1 DEF Unconnected
    <2> QED BY <2>0, <2>2, <2>3, ClientSide DEF t, u
  <1>9. CASE SendSome
    <2>1. PICK n \in 1..(Len(client.left) - 1) :
            /\ Send(n)
            /\ client' = [client EXCEPT !.left = SubSeq(@, n + 1, Len(@))]
      BY <1>9 DEF SendSome
    <2> DEFINE sent == SubSeq(client.left, 1, n)
               rest == SubSeq(client.left, n + 1, Len(client.left))
    <2>2. /\ UNCHANGED <<token, server, conn>> /\ client.pc \in {"auth", "request"}
          /\ client'.pc = client.pc /\ client'.left = rest
      BY <1>3, <1>9, <2>1 DEF SendSome, Sending
    <2>a. n \in 0..Len(client.left) /\ n \in Nat /\ n <= Len(client.left)
      BY <1>1
    <2>3. sent \in Seq(Bytes) /\ rest \in Seq(Bytes)
      BY <1>1, <2>a, CutTyped
    <2>4. ASSUME server.pc \notin {"served", "closed"}
          PROVE  Flows(t, u, server, client', wire')
      <3>1. /\ Segment(t, wire, pos) /\ Segment(t, client.left, pos + Len(wire))
            /\ pos + Len(wire) + Len(client.left) =
                 IF client.pc = "auth" THEN FrameLen(t) ELSE StreamLen(t)
            /\ Len(t) <= AUTH_TOKEN_MAX_LEN /\ (client.pc = "auth" => auth_is_enabled(t))
            /\ server.pc \in Receiving => Segment(t, server.buf, Offset(server, u))
        BY <1>4, <2>2, <2>4 DEF Flows, pos
      <3>2. pos + Len(wire) \in Nat
        BY <1>1
      <3>3. /\ Segment(t, sent, pos + Len(wire)) /\ Len(sent) = n
            /\ Segment(t, rest, (pos + Len(wire)) + n) /\ Len(rest) = Len(client.left) - n
        <4>1. client.left \in Seq(Bytes) /\ n \in 0..Len(client.left)
          BY <1>1, <2>a
        <4> QED BY <3>1, <3>2, <4>1, SegmentCut
      <3>4. wire' = wire \o sent
        BY <2>1, <2>4 DEF Send
      <3> HIDE DEF sent, rest
      <3>a. Segment(t, wire \o sent, pos) /\ Len(wire \o sent) = Len(wire) + Len(sent)
        <4>1. wire \in Seq(Bytes) /\ sent \in Seq(Bytes) /\ pos \in Nat
          BY <1>1, <2>3
        <4> QED BY <3>1, <3>3, <4>1, SegmentJoin
      <3>5. Segment(t, wire', pos) /\ Len(wire') = Len(wire) + n
        BY <3>3, <3>4, <3>a
      <3>6. /\ pos + Len(wire') = (pos + Len(wire)) + n
            /\ pos + Len(wire') + Len(rest) = pos + Len(wire) + Len(client.left)
            /\ pos + Len(wire') <= pos + Len(wire) + Len(client.left)
        <4>1. PICK l \in Nat, c \in Nat : l = Len(wire) /\ c = Len(client.left)
          BY <1>n
        <4>2. Len(wire') = l + n /\ Len(rest) = c - n /\ n <= c
          BY <2>a, <3>3, <3>5, <4>1
        <4>3. /\ pos + (l + n) = (pos + l) + n /\ pos + (l + n) + (c - n) = pos + l + c
              /\ pos + (l + n) <= pos + l + c
          BY <1>n, <2>a, <4>2, LengthSums
        <4> QED BY <4>1, <4>2, <4>3
      <3>7. pos + Len(wire') <= StreamLen(t)
        <4>1. pos + Len(wire) + Len(client.left) <= StreamLen(t)
          <5>1. FrameLen(t) <= StreamLen(t) /\ StreamLen(t) <= StreamLen(t)
            BY <1>2
          <5> QED BY <3>1, <5>1
        <4>2. PICK l \in Nat, c \in Nat, m \in Nat :
                l = Len(wire) /\ c = Len(client.left) /\ m = StreamLen(t)
          BY <1>2, <1>n
        <4>3. pos + Len(wire') = (pos + l) + n /\ (pos + l) + n <= pos + l + c /\ pos + l + c <= m
          BY <3>6, <4>1, <4>2
        <4>4. (pos + l) + n \in Nat /\ pos + l + c \in Nat
          BY <1>n, <2>a
        <4> QED BY <4>2, <4>3, <4>4
      <3> QED BY <2>2, <3>1, <3>3, <3>5, <3>6, <3>7 DEF Flows, pos
    <2>5. Unconnected'
      BY <1>5, <2>2 DEF Unconnected
    <2> QED BY <1>6, <2>2, <2>4, <2>5, ClientSide DEF t, u
  <1>10. CASE SendLast
    <2> DEFINE n == Len(client.left)
               sent == SubSeq(client.left, 1, n)
    <2>2. /\ UNCHANGED <<token, server, conn>> /\ client.pc \in {"auth", "request"}
          /\ Send(n) /\ n \in 0..Len(client.left)
          /\ \/ client.pc = "auth" /\ client'.pc = "request" /\ client'.left = OpHeader
             \/ client.pc = "request" /\ client'.pc = "reply"
      BY <1>1, <1>10 DEF SendLast, Sending, StartRequest
    <2>3. sent \in Seq(Bytes)
      BY <1>1, <2>2, CutTyped
    <2>4. ASSUME server.pc \notin {"served", "closed"}
          PROVE  Flows(t, u, server, client', wire')
      <3>1. /\ Segment(t, wire, pos) /\ Segment(t, client.left, pos + Len(wire))
            /\ pos + Len(wire) + Len(client.left) =
                 IF client.pc = "auth" THEN FrameLen(t) ELSE StreamLen(t)
            /\ Len(t) <= AUTH_TOKEN_MAX_LEN
            /\ server.pc \in Receiving => Segment(t, server.buf, Offset(server, u))
        BY <1>4, <2>2, <2>4 DEF Flows, pos
      <3>2. pos + Len(wire) \in Nat
        BY <1>1
      <3>3. Segment(t, sent, pos + Len(wire)) /\ Len(sent) = n
        BY <1>1, <2>2, <3>1, <3>2, SegmentCut
      <3>4. wire' = wire \o sent
        BY <2>2, <2>4 DEF Send
      <3> HIDE DEF sent
      <3>a. Segment(t, wire \o sent, pos) /\ Len(wire \o sent) = Len(wire) + Len(sent)
        <4>1. wire \in Seq(Bytes) /\ sent \in Seq(Bytes) /\ pos \in Nat
          BY <1>1, <2>3
        <4> QED BY <3>1, <3>3, <4>1, SegmentJoin
      <3>5. Segment(t, wire', pos) /\ Len(wire') = Len(wire) + Len(client.left)
        BY <3>3, <3>4, <3>a
      <3>6. pos + Len(wire') = pos + Len(wire) + Len(client.left)
        <4>1. PICK l \in Nat, c \in Nat : l = Len(wire) /\ c = Len(client.left)
          BY <1>n
        <4>2. Len(wire') = l + c
          BY <3>5, <4>1
        <4>3. c <= c
          OBVIOUS
        <4>4. pos + (l + c) = (pos + l) + c
          BY <1>n, <4>3, LengthSums
        <4> QED BY <4>1, <4>2, <4>4
      <3>8. pos + Len(wire') = IF client.pc = "auth" THEN FrameLen(t) ELSE StreamLen(t)
        BY <3>1, <3>6
      <3>9. FrameLen(t) <= StreamLen(t) /\ FrameLen(t) + 4 = StreamLen(t)
        BY <1>2
      <3>7. Segment(t, OpHeader, FrameLen(t))
        BY <1>1, RequestBytes
      <3>10. CASE client.pc = "auth" /\ client'.pc = "request" /\ client'.left = OpHeader
        BY <1>2, <3>1, <3>5, <3>7, <3>8, <3>9, <3>10 DEF Flows, pos
      <3>11. CASE client.pc = "request" /\ client'.pc = "reply"
        BY <1>2, <3>1, <3>5, <3>8, <3>11 DEF Flows, pos
      <3> QED BY <2>2, <3>10, <3>11
    <2>5. Unconnected'
      BY <1>5, <2>2 DEF Unconnected
    <2> QED BY <1>6, <2>2, <2>4, <2>5, ClientSide DEF t, u
  <1>11. CASE SendFails
    <2>1. /\ UNCHANGED <<token, server>> /\ server.pc = "closed"
          /\ conn' = "lost" /\ client'.pc = "failed"
      BY <1>11 DEF SendFails
    <2>2. Unconnected'
      BY <2>1 DEF Unconnected
    <2> QED BY <2>1, <2>2, ClientSide
  <1>12. CASE ReceiveReply
    <2>1. /\ UNCHANGED <<token, server>> /\ server.pc \in {"served", "closed"}
          /\ conn' = "lost" /\ client'.pc \in {"ok", "failed"}
      BY <1>3, <1>12 DEF ReceiveReply
    <2>2. Unconnected'
      BY <2>1 DEF Unconnected
    <2> QED BY <2>1, <2>2, ClientSide
  <1>13. CASE ClientGone
    <2>1. /\ UNCHANGED <<token, server>> /\ conn' = "lost" /\ client'.pc = "failed"
      BY <1>13 DEF ClientGone
    <2>2. PICK n \in 0..Len(wire) : wire' = SubSeq(wire, 1, n)
      BY <1>13 DEF ClientGone
    <2>3. ASSUME server.pc \notin {"served", "closed"}
          PROVE  Flows(t, u, server, client', wire')
      <3>1. /\ Segment(t, wire, pos) /\ pos + Len(wire) <= StreamLen(t)
            /\ pos + Len(wire) > 0 => Len(t) <= AUTH_TOKEN_MAX_LEN
            /\ server.pc \in Receiving => Segment(t, server.buf, Offset(server, u))
        BY <1>4, <2>3 DEF Flows, pos
      <3>2. Segment(t, wire', pos) /\ Len(wire') = n
        BY <1>1, <2>2, <3>1, SegmentCut
      <3>3. pos + n <= StreamLen(t) /\ (pos + n > 0 => pos + Len(wire) > 0)
        BY <1>1, <1>2, <3>1
      <3> QED BY <2>1, <3>1, <3>2, <3>3 DEF Flows, pos
    <2>4. Unconnected'
      BY <2>1 DEF Unconnected
    <2> QED BY <2>1, <2>3, <2>4, ClientSide DEF t, u
  <1> QED BY <1>7, <1>8, <1>9, <1>10, <1>11, <1>12, <1>13 DEF ClientStep

\* One recv: what has been received goes on to be a segment, and so does what is
\* still on the way; the receive never takes more than it waits for.
LEMMA RecvStream ==
  ASSUME TypeOK, StreamInv, server.pc \in Receiving, NEW n \in 1..Len(wire), Recv(n)
  PROVE  LET off == Offset(server, token.server)
         IN /\ Taken(n) \in Seq(Bytes) /\ Segment(token.client, Taken(n), off)
            /\ Len(Taken(n)) \in Nat /\ Len(Taken(n)) <= server.want
            /\ Segment(token.client, wire', off + Len(Taken(n)))
            /\ (off + Len(Taken(n))) + Len(wire') = Position(server, token.server) + Len(wire)
            /\ Position(server, token.server) + Len(wire) > 0
  <1> DEFINE t == token.client
             off == Offset(server, token.server)
             head == SubSeq(wire, 1, n)
             rest == SubSeq(wire, n + 1, Len(wire))
             b == Len(server.buf)
             l == Len(wire)
  <1>1. /\ off \in Nat /\ wire \in Seq(Bytes) /\ server.buf \in Seq(Bytes) /\ l \in Nat
        /\ b \in Nat /\ n \in 0..l /\ n \in Nat
    BY PositionTyped
  <1>2. Segment(t, wire, off + b) /\ Segment(t, server.buf, off)
        /\ Position(server, token.server) = off + b
    BY DEF StreamInv, InOrder, Flows, Position, Receiving
  <1>3. Taken(n) = server.buf \o head /\ wire' = rest /\ n <= server.want - b
    BY DEF Taken, Recv, Remaining
  <1>4. head \in Seq(Bytes) /\ rest \in Seq(Bytes)
    BY <1>1, CutTyped
  <1>5. off + b \in Nat
    BY <1>1
  <1>6. /\ Segment(t, head, off + b) /\ Len(head) = n
        /\ Segment(t, rest, (off + b) + n) /\ Len(rest) = l - n
    BY <1>1, <1>2, <1>5, SegmentCut
  <1>7. server.want \in Nat
    BY DEF TypeOK, Servers
  <1>8. /\ n >= 1 /\ n <= l
    BY <1>1
  <1> HIDE DEF head, rest, off, b, l, t
  <1>9. Segment(t, server.buf \o head, off) /\ Len(server.buf \o head) = Len(server.buf) + Len(head)
    <2>1. server.buf \in Seq(Bytes) /\ head \in Seq(Bytes) /\ off \in Nat
      BY <1>1, <1>4
    <2>2. Segment(t, server.buf, off) /\ Segment(t, head, off + Len(server.buf))
      BY <1>2, <1>6 DEF b
    <2> QED BY <2>1, <2>2, SegmentJoin
  <1>10. server.buf \o head \in Seq(Bytes)
    BY <1>1, <1>4, ConcatProperties
  <1>11. Len(Taken(n)) = b + n /\ Len(wire') = l - n
    BY <1>3, <1>6, <1>9 DEF b
  <1>12. /\ b + n \in Nat /\ b + n <= server.want /\ off + (b + n) = (off + b) + n
         /\ (off + (b + n)) + (l - n) = (off + b) + l /\ (off + b) + l > 0
    BY <1>1, <1>3, <1>7, <1>8
  <1>13. Segment(t, wire', off + (b + n))
    BY <1>3, <1>6, <1>12
  <1>14. /\ (off + Len(Taken(n))) + Len(wire') = Position(server, token.server) + l
         /\ Position(server, token.server) + l > 0
    BY <1>2, <1>11, <1>12
  <1>15. /\ Taken(n) \in Seq(Bytes) /\ Segment(t, Taken(n), off)
         /\ Len(Taken(n)) \in Nat /\ Len(Taken(n)) <= server.want
         /\ Segment(t, wire', off + Len(Taken(n)))
    BY <1>3, <1>9, <1>10, <1>11, <1>12, <1>13
  <1> QED BY <1>14, <1>15 DEF off, t, l

\* The server goes on with the connection.
LEMMA ServerGoesOn ==
  ASSUME StreamInv, server.pc # "listen", UNCHANGED <<token, client, conn>>,
         server.pc \notin {"served", "closed"},
         server'.why = "none", server'.pc \in {"header", "token", "add", "recv"}, Awaited',
         server'.pc \in {"add", "recv"} /\ auth_is_enabled(token.server)
           => token.client = token.server,
         server'.pc \in Receiving =>
           Segment(token.client, server'.buf, Offset(server', token.server)),
         Segment(token.client, wire', Position(server', token.server)),
         Position(server', token.server) + Len(wire') = Position(server, token.server) + Len(wire)
  PROVE  StreamInv'
  <1>1. Unconnected'
    BY DEF StreamInv, Unconnected
  <1>2. Flows(token.client, token.server, server, client, wire)
    BY DEF StreamInv, InOrder
  <1>3. Flows(token.client, token.server, server', client, wire')
    BY <1>2, FlowsMove
  <1>4. InOrder'
    BY <1>3 DEF InOrder
  <1>5. Verdicts'
    BY DEF Verdicts, AdmittedHasToken
  <1> QED BY <1>1, <1>4, <1>5 DEF StreamInv

\* A recv of the handshake.
LEMMA AuthRecvKeepsStream ==
  ASSUME ClockInv, StreamInv, AuthRecv
  PROVE  StreamInv'
  <1> DEFINE t == token.client
             u == token.server
             off == Offset(server, u)
  <1>0. TypeOK /\ server \in Servers /\ server.why = "none" /\ server.pc \in {"header", "token"}
    BY DEF ClockInv, TypeOK, AuthRecv, InHandshake, Reasoned
  <1>1. PICK n \in 1..Len(wire) :
          /\ Recv(n)
          /\ \/ Len(Taken(n)) >= server.want /\ Received(Taken(n))
             \/ /\ Len(Taken(n)) < server.want /\ Elapsed >= AUTH_TIMEOUT_MS
                /\ server' = Reject(server, "timeout")
             \/ /\ Len(Taken(n)) < server.want /\ Elapsed < AUTH_TIMEOUT_MS
                /\ server' = [server EXCEPT !.buf = Taken(n),
                                           !.limit = AUTH_TIMEOUT_MS - Elapsed]
    BY DEF AuthRecv
  <1> DEFINE got == Taken(n)
  <1>2. /\ got \in Seq(Bytes) /\ Segment(t, got, off)
        /\ Len(got) \in Nat /\ Len(got) <= server.want
        /\ Segment(t, wire', off + Len(got))
        /\ (off + Len(got)) + Len(wire') = Position(server, u) + Len(wire)
        /\ Position(server, u) + Len(wire) > 0
    BY <1>0, <1>1, RecvStream DEF Receiving
  <1>3. /\ t \in Tokens /\ u \in Tokens
        /\ UNCHANGED <<token, client, conn>> /\ server.pc # "listen"
        /\ server.pc \notin {"served", "closed"} /\ server.want \in Nat
    BY <1>0, PositionTyped DEF AuthRecv, Servers
  <1>4. /\ server.pc = "header" => server.want = 2 /\ off = 0
        /\ server.pc = "token" => server.want = Len(t) /\ off = 2 /\ auth_is_enabled(t)
        /\ auth_is_enabled(u)
    BY <1>0 DEF StreamInv, Awaited, Offset, HeaderLen
  <1>5. Len(t) <= AUTH_TOKEN_MAX_LEN
    BY <1>0, <1>2 DEF StreamInv, InOrder, Flows
  <1>6. Len(got) >= server.want => Len(got) = server.want
    BY <1>2, <1>3
  <1> HIDE DEF t, u, off, got
  <1>7. CASE server' = Reject(server, "timeout")
    <2>1. server'.pc = "closed" /\ server'.why = "timeout"
      BY <1>0, <1>7 DEF Reject, Servers
    <2> QED BY <1>3, <2>1, ServerCloses
  <1>8. CASE /\ Len(got) < server.want
             /\ server' = [server EXCEPT !.buf = got, !.limit = AUTH_TIMEOUT_MS - Elapsed]
    <2>1. /\ server'.pc = server.pc /\ server'.why = "none" /\ server'.buf = got
          /\ server'.want = server.want
      BY <1>0, <1>8 DEF Servers
    <2>2. Awaited'
      BY <1>0, <1>3, <1>8, <2>1 DEF StreamInv, Awaited
    <2>3. Offset(server', u) = off /\ Position(server', u) = off + Len(got)
      BY <1>0, <2>1 DEF Offset, off, Position, Receiving
    <2>4. server'.pc \notin {"add", "recv"} /\ server'.pc \in {"header", "token", "add", "recv"}
      BY <1>0, <2>1
    <2> QED BY <1>2, <1>3, <2>1, <2>2, <2>3, <2>4, ServerGoesOn DEF t, u
  <1>9. CASE Len(got) >= server.want /\ server.pc = "header"
    <2>1. Len(got) = 2 /\ got[1] = Byte(t, 1) /\ got[2] = Byte(t, 2)
      <3>1. Len(got) = 2 /\ Segment(t, got, 0)
        BY <1>2, <1>4, <1>6, <1>9
      <3>2. \A i \in 1..2 : got[i] = Byte(t, 0 + i)
        BY <3>1 DEF Segment
      <3>3. 1 \in 1..2 /\ 2 \in 1..2 /\ 0 + 1 = 1 /\ 0 + 2 = 2
        OBVIOUS
      <3> QED BY <3>1, <3>2, <3>3
    <2>p. \A x : <<"len", x>>[2] = x
      OBVIOUS
    <2>2. CASE HeaderValid(got) /\ server' = Receive("token", got[2][2])
      <3>1. auth_is_enabled(t)
        BY <1>3, <2>1, <2>2, RequestBytes DEF HeaderValid
      <3>2. got[2] = <<"len", Len(t)>> /\ Len(t) \in 1..255
        BY <1>3, <2>1, <3>1, FrameBytes
      <3>3. /\ server'.pc = "token" /\ server'.why = "none" /\ server'.buf = <<>>
            /\ server'.want = Len(t)
        <4>1. got[2][2] = Len(t)
          BY <2>p, <3>2
        <4> QED BY <1>0, <2>2, <4>1 DEF Receive, Servers
      <3>4. Len(<<>>) = 0 /\ 0 < Len(t)
        <4>1. \A k \in 1..255 : 0 < k
          OBVIOUS
        <4> QED BY <3>2, <4>1
      <3>5. Awaited'
        BY <1>3, <1>4, <3>1, <3>3, <3>4 DEF Awaited, t, u
      <3>6. Offset(server', u) = 2 /\ Position(server', u) = 2 /\ off + Len(got) = 2
        BY <1>4, <1>9, <2>1, <3>3, <3>4 DEF Offset, Position, Receiving, HeaderLen
      <3>7. Segment(t, server'.buf, Offset(server', u))
        BY <3>3, SegmentEmpty
      <3> QED BY <1>2, <1>3, <3>3, <3>5, <3>6, <3>7, ServerGoesOn DEF t, u
    <2>3. CASE ~HeaderValid(got) /\ server' = Reject(server, "header")
      <3>1. server'.pc = "closed" /\ server'.why = "header"
        BY <1>0, <2>3 DEF Reject, Servers
      <3>2. t # u
        <4>1. ASSUME t = u PROVE FALSE
          <5>1. got[1] = Magic /\ got[2] = <<"len", Len(t)>> /\ Len(t) \in 1..255
            BY <1>3, <1>4, <2>1, <4>1, FrameBytes
          <5>2. got[2][2] = Len(t)
            BY <2>p, <5>1
          <5>3. Len(t) \in 1..AUTH_TOKEN_MAX_LEN
            <6>1. \A k \in 1..255 : k <= AUTH_TOKEN_MAX_LEN => k \in 1..AUTH_TOKEN_MAX_LEN
              BY TokenAssumption
            <6> QED BY <1>5, <5>1, <6>1
          <5> QED BY <2>3, <5>1, <5>2, <5>3 DEF HeaderValid
        <4> QED BY <4>1
      <3> QED BY <1>3, <3>1, <3>2, ServerCloses DEF t, u
    <2> QED BY <1>1, <1>2, <1>3, <1>7, <1>9, <2>2, <2>3 DEF Received, got
  <1>10. CASE Len(got) >= server.want /\ server.pc = "token"
    <2>1. Len(got) = Len(t) /\ Segment(t, got, HeaderLen) /\ auth_is_enabled(t)
      BY <1>2, <1>4, <1>6, <1>10 DEF HeaderLen
    <2>2. TokenMatches(u, got) <=> u = t
      BY <1>2, <1>3, <2>1, TokenRecognised
    <2>3. CASE TokenMatches(u, got) /\ server' = [server EXCEPT !.pc = "add"]
      <3>1. server'.pc = "add" /\ server'.why = "none"
        BY <1>0, <2>3 DEF Servers
      <3>2. Awaited'
        BY <3>1 DEF Awaited
      <3>3. Position(server', u) = FrameLen(u) /\ FrameLen(u) = 2 + Len(t)
        <4>1. FrameLen(u) = 2 + Len(t) /\ FrameLen(u) \in Nat
          BY <1>3, <2>1, <2>2, <2>3, FrameBytes DEF HeaderLen
        <4> QED BY <3>1, <4>1 DEF Position, Offset, Receiving
      <3>4. Position(server', u) = off + Len(got)
        BY <1>4, <1>10, <2>1, <3>3
      <3>5. server'.pc \notin Receiving /\ t = u
        BY <2>2, <2>3, <3>1 DEF Receiving
      <3> QED BY <1>2, <1>3, <3>1, <3>2, <3>4, <3>5, ServerGoesOn DEF t, u
    <2>4. CASE ~TokenMatches(u, got) /\ server' = Reject(server, "mismatch")
      <3>1. server'.pc = "closed" /\ server'.why = "mismatch"
        BY <1>0, <2>4 DEF Reject, Servers
      <3> QED BY <1>3, <2>2, <2>4, <3>1, ServerCloses DEF t, u
    <2> QED BY <1>1, <1>2, <1>3, <1>7, <1>10, <2>3, <2>4 DEF Received, got, u
  <1> QED BY <1>0, <1>1, <1>7, <1>8, <1>9, <1>10 DEF got

\* A recv of the request header.
LEMMA RequestRecvKeepsStream ==
  ASSUME ClockInv, StreamInv, RequestRecv
  PROVE  StreamInv'
  <1> DEFINE t == token.client
             u == token.server
             off == Offset(server, u)
  <1>0. TypeOK /\ server \in Servers /\ server.why = "none" /\ server.pc = "recv"
    BY DEF ClockInv, TypeOK, RequestRecv, Reasoned
  <1>1. PICK n \in 1..Len(wire) :
          /\ Recv(n)
          /\ \/ /\ Len(Taken(n)) < server.want
                /\ server' = [server EXCEPT !.buf = Taken(n)]
             \/ /\ Len(Taken(n)) >= server.want /\ Taken(n) = OpHeader
                /\ server' = [server EXCEPT !.pc = "served", !.buf = Taken(n)]
             \/ /\ Len(Taken(n)) >= server.want /\ Taken(n) # OpHeader
                /\ server' = Reject([server EXCEPT !.buf = Taken(n)], "unsupported")
    BY DEF RequestRecv
  <1> DEFINE got == Taken(n)
  <1>2. /\ got \in Seq(Bytes) /\ Segment(t, got, off)
        /\ Len(got) \in Nat /\ Len(got) <= server.want
        /\ Segment(t, wire', off + Len(got))
        /\ (off + Len(got)) + Len(wire') = Position(server, u) + Len(wire)
    BY <1>0, <1>1, RecvStream DEF Receiving
  <1>3. /\ t \in Tokens /\ u \in Tokens
        /\ UNCHANGED <<token, client, conn>> /\ server.pc # "listen"
        /\ server.pc \notin {"served", "closed"}
    BY <1>0, PositionTyped DEF RequestRecv
  <1>4. server.want = 4 /\ off = FrameLen(u) /\ (auth_is_enabled(u) => t = u)
    BY <1>0 DEF StreamInv, Awaited, Offset, Verdicts, AdmittedHasToken
  <1>5. Len(got) >= server.want => Len(got) = 4
    <2>1. \A k \in Nat : k <= 4 /\ k >= 4 => k = 4
      OBVIOUS
    <2> QED BY <1>2, <1>4, <2>1
  <1> HIDE DEF t, u, off, got
  <1>6. CASE Len(got) < server.want /\ server' = [server EXCEPT !.buf = got]
    <2>1. /\ server'.pc = "recv" /\ server'.why = "none" /\ server'.buf = got
          /\ server'.want = server.want
      BY <1>0, <1>6 DEF Servers
    <2>2. Awaited'
      BY <1>4, <1>6, <2>1 DEF Awaited
    <2>3. Offset(server', u) = off /\ Position(server', u) = off + Len(got)
      BY <1>0, <2>1 DEF Offset, off, Position, Receiving
    <2> QED BY <1>2, <1>3, <1>4, <2>1, <2>2, <2>3, ServerGoesOn DEF t, u
  <1>7. CASE /\ Len(got) >= server.want /\ got = OpHeader
             /\ server' = [server EXCEPT !.pc = "served", !.buf = got]
    <2>1. server'.pc = "served" /\ server'.why = "none" /\ server'.buf = OpHeader
      BY <1>0, <1>7 DEF Servers
    <2>2. t = u
      <3>1. CASE auth_is_enabled(u)
        BY <1>4, <3>1
      <3>2. CASE ~auth_is_enabled(u)
        <4>1. off = 0
          BY <1>3, <1>4, <3>2, RequestBytes
        <4>2. ~auth_is_enabled(t)
          BY <1>2, <1>3, <1>5, <1>7, <4>1, RequestRecognised
        <4> QED BY <3>2, <4>2 DEF auth_is_enabled
      <3> QED BY <3>1, <3>2
    <2>3. Unconnected'
      BY <1>3, <2>1 DEF StreamInv, Unconnected
    <2>4. Awaited' /\ InOrder'
      BY <2>1 DEF Awaited, InOrder
    <2>5. Verdicts'
      BY <1>3, <2>1, <2>2 DEF Verdicts, AdmittedHasToken, t, u
    <2> QED BY <2>3, <2>4, <2>5 DEF StreamInv
  <1>8. CASE /\ Len(got) >= server.want /\ got # OpHeader
             /\ server' = Reject([server EXCEPT !.buf = got], "unsupported")
    <2>1. server'.pc = "closed" /\ server'.why = "unsupported"
      BY <1>0, <1>8 DEF Reject, Servers
    <2>2. t # u
      BY <1>2, <1>3, <1>4, <1>5, <1>8, RequestRecognised
    <2> QED BY <1>3, <2>1, <2>2, ServerCloses DEF t, u
  <1> QED BY <1>1, <1>6, <1>7, <1>8 DEF got

\* The steps of the server that receive nothing.
LEMMA ServerKeepsStream ==
  ASSUME ClockInv, StreamInv, ServerStep
  PROVE  StreamInv'
  <1>0. TypeOK /\ server \in Servers /\ (server.pc # "closed" => server.why = "none")
    BY DEF ClockInv, TypeOK, Reasoned
  <1>1. CASE AuthRecv
    BY <1>1, AuthRecvKeepsStream
  <1>2. CASE RequestRecv
    BY <1>2, RequestRecvKeepsStream
  <1>3. CASE AuthTimeout \/ AuthShort \/ RequestShort
    <2>1. /\ server.pc \in {"header", "token", "recv"} /\ UNCHANGED <<token, client, conn>>
          /\ \/ server' = Reject(server, "timeout")
             \/ server' = Reject(server, "short") /\ conn = "lost"
      BY <1>3 DEF AuthTimeout, AuthShort, RequestShort, InHandshake
    <2>2. /\ server'.pc = "closed"
          /\ server'.why = "timeout" \/ (server'.why = "short" /\ conn = "lost")
      BY <1>0, <2>1 DEF Reject, Servers
    <2> QED BY <2>1, <2>2, ServerCloses
  <1>4. CASE Accept
    <2>1. /\ server.pc = "listen" /\ conn # "none" /\ UNCHANGED <<token, client, conn, wire>>
          /\ server.why = "none" /\ Flows(token.client, token.server, server, client, wire)
      BY <1>0, <1>4 DEF Accept, StreamInv, InOrder
    <2>2. Position(server, token.server) = 0
      BY <2>1 DEF Position, Offset, Receiving
    <2>3. Unconnected'
      BY <2>1 DEF StreamInv, Unconnected
    <2>4. CASE auth_is_enabled(token.server) /\ server' = Receive("header", HeaderLen)
      <3>1. /\ server'.pc = "header" /\ server'.why = "none" /\ server'.buf = <<>>
            /\ server'.want = HeaderLen
        BY <1>0, <2>1, <2>4 DEF Receive, Servers
      <3>2. Len(<<>>) = 0 /\ Segment(token.client, <<>>, 0)
        BY SegmentEmpty
      <3>3. Offset(server', token.server) = 0 /\ Position(server', token.server) = 0
        BY <3>1, <3>2 DEF Position, Offset, Receiving
      <3>4. Awaited'
        BY <2>1, <2>4, <3>1, <3>2 DEF Awaited, HeaderLen
      <3>5. Segment(token.client, wire, 0)
        BY <2>1, <2>2 DEF Flows
      <3>6. Flows(token.client, token.server, server', client, wire)
        BY <2>1, <2>2, <3>1, <3>2, <3>3, <3>5, FlowsMove
      <3>7. InOrder' /\ Verdicts'
        BY <2>1, <3>1, <3>6 DEF InOrder, Verdicts, AdmittedHasToken
      <3> QED BY <2>3, <3>4, <3>7 DEF StreamInv
    <2>5. CASE ~auth_is_enabled(token.server) /\ server' = [server EXCEPT !.pc = "add"]
      <3>1. server'.pc = "add" /\ server'.why = "none"
        BY <1>0, <2>1, <2>5 DEF Servers
      <3>2. FrameLen(token.server) = 0
        BY <2>5 DEF FrameLen
      <3>3. Position(server', token.server) = 0 /\ server'.pc \notin Receiving
        BY <3>1, <3>2 DEF Position, Offset, Receiving
      <3>4. Awaited'
        BY <3>1 DEF Awaited
      <3>5. Segment(token.client, wire, 0)
        BY <2>1, <2>2 DEF Flows
      <3>6. Flows(token.client, token.server, server', client, wire)
        BY <2>1, <2>2, <3>3, <3>5, FlowsMove
      <3>7. InOrder' /\ Verdicts'
        BY <2>1, <2>5, <3>1, <3>6 DEF InOrder, Verdicts, AdmittedHasToken
      <3> QED BY <2>3, <3>4, <3>7 DEF StreamInv
    <2> QED BY <1>4, <2>4, <2>5 DEF Accept
  <1>5. CASE AddClient
    <2>1. /\ server.pc = "add" /\ server.why = "none" /\ UNCHANGED <<token, client, conn, wire>>
      BY <1>0, <1>5 DEF AddClient
    <2>2. CASE server' = Reject(server, "full")
      <3>1. server'.pc = "closed" /\ server'.why = "full"
        BY <1>0, <2>2 DEF Reject, Servers
      <3> QED BY <2>1, <3>1, ServerCloses
    <2>3. CASE server' = [server EXCEPT !.pc = "recv", !.buf = <<>>, !.want = Len(OpHeader)]
      <3>1. /\ server'.pc = "recv" /\ server'.why = "none" /\ server'.buf = <<>>
            /\ server'.want = 4
        BY <1>0, <2>1, <2>3, MessagesTyped DEF Servers
      <3>2. Len(<<>>) = 0 /\ token.server \in Tokens /\ FrameLen(token.server) \in Nat
        BY <1>0, PositionTyped, RequestBytes
      <3>3. /\ Offset(server', token.server) = FrameLen(token.server)
            /\ Position(server', token.server) = FrameLen(token.server)
            /\ Position(server, token.server) = FrameLen(token.server)
        BY <2>1, <3>1, <3>2 DEF Position, Offset, Receiving
      <3>4. Awaited'
        BY <3>1, <3>2 DEF Awaited
      <3>5. Segment(token.client, wire, FrameLen(token.server))
        BY <2>1, <3>3 DEF StreamInv, InOrder, Flows
      <3>6. Segment(token.client, server'.buf, Offset(server', token.server))
        BY <3>1, SegmentEmpty
      <3>7. auth_is_enabled(token.server) => token.client = token.server
        BY <2>1 DEF StreamInv, Verdicts, AdmittedHasToken
      <3> QED BY <2>1, <3>1, <3>3, <3>4, <3>5, <3>6, <3>7, ServerGoesOn
    <2> QED BY <1>5, <2>2, <2>3 DEF AddClient
  <1> QED BY <1>1, <1>2, <1>3, <1>4, <1>5 DEF ServerStep

\* Time passing moves no byte, and the next connection starts anew.
LEMMA OthersKeepStream ==
  ASSUME ClockInv, StreamInv, Tick \/ NextConnection \/ UNCHANGED vars
  PROVE  StreamInv'
  <1>0. TypeOK /\ server \in Servers
    BY DEF ClockInv, TypeOK
  <1>1. CASE Tick \/ UNCHANGED vars
    <2>1. /\ UNCHANGED <<token, client, conn, wire>>
          /\ server'.pc = server.pc /\ server'.buf = server.buf /\ server'.want = server.want
          /\ server'.why = server.why
      BY <1>0, <1>1 DEF Tick, vars, Servers
    <2>2. Unconnected' /\ Awaited' /\ Verdicts'
      BY <2>1 DEF StreamInv, Unconnected, Awaited, Verdicts, AdmittedHasToken
    <2>3. /\ Offset(server', token.server) = Offset(server, token.server)
          /\ Position(server', token.server) = Position(server, token.server)
      BY <2>1 DEF Offset, Position
    <2>4. InOrder'
      BY <2>1, <2>3 DEF StreamInv, InOrder, Flows
    <2> QED BY <2>2, <2>4 DEF StreamInv
  <1>2. CASE NextConnection
    <2>1. /\ server'.pc = "listen" /\ server'.why = "none" /\ conn' = "none" /\ wire' = <<>>
          /\ client'.pc = "connect" /\ token' \in [server : Tokens, client : Tokens]
      BY <1>0, <1>2 DEF NextConnection, Idle, Disconnected, TypeOK
    <2>2. Unconnected' /\ Awaited' /\ Verdicts'
      BY <2>1 DEF Unconnected, Awaited, Verdicts, AdmittedHasToken
    <2>3. StreamLen(token'.client) \in Nat /\ Len(<<>>) = 0
      BY <2>1, RequestBytes
    <2>4. Position(server', token'.server) = 0 /\ server'.pc \notin Receiving
      BY <2>1 DEF Position, Offset, Receiving
    <2>5. Flows(token'.client, token'.server, server', client', wire')
      BY <2>1, <2>3, <2>4, SegmentEmpty DEF Flows
    <2>6. InOrder'
      BY <2>5 DEF InOrder
    <2> QED BY <2>2, <2>6 DEF StreamInv
  <1> QED BY <1>1, <1>2

\* In every reachable state the server reads the client's stream where the
\* client wrote it: the invariant of the stream is inductive, given the clock's.
THEOREM StreamInvariant == Spec => []StreamInv
  <1>1. Init => StreamInv
    <2> SUFFICES ASSUME Init PROVE StreamInv
      OBVIOUS
    <2>1. /\ server.pc = "listen" /\ server.why = "none" /\ conn = "none" /\ wire = <<>>
          /\ client.pc = "connect" /\ token \in [server : Tokens, client : Tokens]
      BY DEF Init, Idle, Disconnected
    <2>2. Unconnected /\ Awaited /\ Verdicts
      BY <2>1 DEF Unconnected, Awaited, Verdicts, AdmittedHasToken
    <2>3. StreamLen(token.client) \in Nat /\ Len(<<>>) = 0
      BY <2>1, RequestBytes
    <2>4. Position(server, token.server) = 0 /\ server.pc \notin Receiving
      BY <2>1 DEF Position, Offset, Receiving
    <2>5. Flows(token.client, token.server, server, client, wire)
      BY <2>1, <2>3, <2>4, SegmentEmpty DEF Flows
    <2> QED BY <2>2, <2>5 DEF StreamInv, InOrder
  <1>2. ClockInv /\ StreamInv /\ [Next]_vars => StreamInv'
    BY ClientKeepsStream, ServerKeepsStream, OthersKeepStream DEF Next
  <1> QED BY <1>1, <1>2, ClockInvariant, PTL DEF Spec

\* Whoever gets past auth_server_handshake, or is served, is configured with the
\* server's token, for any set of tokens.
THEOREM OnlyTheTokenAdmits == Spec => []AdmittedHasToken
  <1>1. StreamInv => AdmittedHasToken
    BY DEF StreamInv, Verdicts
  <1> QED BY <1>1, StreamInvariant, PTL

\* auth_server_handshake refuses only for cause.
THEOREM RejectionsAreJustified == Spec => []RejectionJustified
  <1>1. StreamInv /\ ClockInv => RejectionJustified
    BY DEF StreamInv, Verdicts, ClockInv, RejectionJustified
  <1> QED BY <1>1, StreamInvariant, ClockInvariant, PTL

\* A segment that starts where a sequence does, and is no longer, is a prefix.
LEMMA PrefixFacts ==
  ASSUME NEW S, NEW s \in Seq(S), NEW R, NEW m \in Seq(R), Len(s) <= Len(m),
         \A i \in 1..Len(s) : s[i] = m[i]
  PROVE  IsPrefix(s, m)
  <1>1. Len(s) \in Nat /\ Len(m) \in Nat
    OBVIOUS
  <1>2. s \in Seq(S \cup R) /\ m \in Seq(S \cup R)
    OBVIOUS
  <1>3. /\ SubSeq(s, 1, Len(s)) \in Seq(S \cup R) /\ Len(SubSeq(s, 1, Len(s))) = Len(s)
        /\ \A i \in 1..Len(s) : SubSeq(s, 1, Len(s))[i] = s[i]
    BY <1>1, <1>2
  <1>4. /\ SubSeq(m, 1, Len(s)) \in Seq(S \cup R) /\ Len(SubSeq(m, 1, Len(s))) = Len(s)
        /\ \A i \in 1..Len(s) : SubSeq(m, 1, Len(s))[i] = m[i]
    BY <1>1, <1>2
  <1>5. SubSeq(s, 1, Len(s)) = SubSeq(m, 1, Len(s))
    BY <1>3, <1>4, SeqEqual
  <1> QED BY <1>5 DEF IsPrefix

\* The receives of the handshake take the frame and not a byte more, however
\* recv cuts the stream.
THEOREM FramingIsKept == Spec => []FramingKept
  <1>1. ASSUME ClockInv, StreamInv PROVE FramingKept
    <2> DEFINE t == token.client
    <2>1. TypeOK /\ t \in Tokens /\ server.buf \in Seq(Bytes)
      BY <1>1, PositionTyped DEF ClockInv
    <2>2. OpHeader \in Seq(Bytes) /\ Len(OpHeader) = 4
      BY MessagesTyped
    <2>3. ASSUME server.pc = "served" PROVE IsPrefix(server.buf, OpHeader)
      <3>1. server.buf = OpHeader
        BY <1>1, <2>3 DEF StreamInv, Verdicts
      <3>2. Len(OpHeader) <= Len(OpHeader) /\ \A i \in 1..Len(OpHeader) : OpHeader[i] = OpHeader[i]
        BY <2>2
      <3> QED BY <2>2, <3>1, <3>2, PrefixFacts
    <2>4. ASSUME server.pc = "recv", auth_is_enabled(token.server)
          PROVE  IsPrefix(server.buf, OpHeader)
      <3>1. /\ t = token.server /\ Segment(t, server.buf, FrameLen(t))
            /\ Len(server.buf) < 4
        BY <1>1, <2>4 DEF StreamInv, Verdicts, AdmittedHasToken, InOrder, Flows, Offset,
                          Receiving, Awaited
      <3>2. \A i \in 1..4 : OpHeader[i] = Byte(t, FrameLen(t) + i)
        BY <2>1, RequestBytes
      <3>3. Len(server.buf) <= 4 /\ \A i \in 1..Len(server.buf) : i \in 1..4
        BY <2>1, <3>1
      <3>4. \A i \in 1..Len(server.buf) : server.buf[i] = OpHeader[i]
        BY <3>1, <3>2, <3>3 DEF Segment
      <3> QED BY <2>1, <2>2, <3>3, <3>4, PrefixFacts
    <2>5. ASSUME server.pc = "token"
          PROVE  IsPrefix(server.buf, [i \in 1..Len(t) |-> <<"chr", t[i]>>])
      <3> DEFINE chars == [i \in 1..Len(t) |-> <<"chr", t[i]>>]
      <3>1. /\ auth_is_enabled(t) /\ Segment(t, server.buf, HeaderLen)
            /\ Len(server.buf) < Len(t)
        BY <1>1, <2>5 DEF StreamInv, InOrder, Flows, Offset, Receiving, Awaited
      <3>2. t \in Seq(Nat) /\ Len(t) \in Nat
        BY <2>1, TokenLength
      <3>3. chars \in Seq({"chr"} \X Nat) /\ Len(chars) = Len(t)
        BY <3>2
      <3>4. \A i \in 1..Len(t) : chars[i] = Byte(t, HeaderLen + i)
        BY <2>1, <3>1, FrameBytes
      <3> HIDE DEF chars
      <3>5. Len(server.buf) <= Len(chars) /\ \A i \in 1..Len(server.buf) : i \in 1..Len(t)
        BY <2>1, <3>1, <3>2, <3>3
      <3>6. \A i \in 1..Len(server.buf) : server.buf[i] = chars[i]
        BY <3>1, <3>4, <3>5 DEF Segment
      <3>7. IsPrefix(server.buf, chars)
        BY <2>1, <3>3, <3>5, <3>6, PrefixFacts
      <3> QED BY <3>7 DEF chars
    <2> QED BY <2>3, <2>4, <2>5 DEF FramingKept
  <1> QED BY <1>1, StreamInvariant, ClockInvariant, PTL
=============================================================================
