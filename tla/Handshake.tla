------------------------------ MODULE Handshake -----------------------------
(***************************************************************************)
(* A connection from connect to its first request: the preshared token     *)
(* (common/auth.c) over the transfer loops of the network layer            *)
(* (common/network_win32.c).  The client sends the token's frame and goes  *)
(* on with its request without waiting for a verdict; the server receives  *)
(* the frame in two bounded receives, on the thread that accepts.          *)
(*                                                                         *)
(* A byte is a pair of what the sender means by it and its value.  The     *)
(* frame's magic is one byte here and the header two; a request header is  *)
(* longer than the frame's header and than the shortest frame, as in the   *)
(* code (8 bytes against 5 and 6).  Sockets block on both sides, so no     *)
(* call returns WSAEWOULDBLOCK.  Time passes only while the server waits   *)
(* in select: the code between two waits is taken to last less than a      *)
(* tick.                                                                   *)
(***************************************************************************)
EXTENDS Integers, Sequences, SequencesExt

CONSTANTS
  Tokens,               \* configured tokens, sequences of numbers; <<>> is none
  AUTH_TOKEN_MAX_LEN,
  AUTH_TIMEOUT_MS,      \* in ticks
  DwordMod              \* GetTickCount counts modulo 2^32

ASSUME TokenAssumption ==
  /\ Tokens \subseteq Seq(Nat)
  /\ \A t \in Tokens : Len(t) < 256
  /\ AUTH_TOKEN_MAX_LEN \in 1..255

ASSUME TimeAssumption ==
  /\ AUTH_TIMEOUT_MS \in Nat \ {0}
  /\ DwordMod \in Nat /\ AUTH_TIMEOUT_MS < DwordMod

VARIABLES
  token,    \* configured tokens of server and client
  tick,     \* GetTickCount
  client,   \* the client's thread: its place and what net_send_all has left
  conn,     \* the client's end: "none", "open", "lost"
  wire,     \* bytes sent and not yet received
  server    \* the accepting thread; waited and spent are history

vars == <<token, tick, client, conn, wire, server>>

auth_is_enabled(t) == t # <<>>

Magic == <<"magic", 0>>
HeaderLen == 2

\* build_handshake: magic, length, token
Frame(t) == <<Magic, <<"len", Len(t)>>>> \o [i \in 1..Len(t) |-> <<"chr", t[i]>>]

\* The packed header of a device list request
OpHeader == [i \in 1..4 |-> <<"op", i>>]

Idle == [pc |-> "listen", buf |-> <<>>, want |-> 0, start |-> 0, limit |-> 0,
         why |-> "none", waited |-> 0, spent |-> 0]

Disconnected == [pc |-> "connect", left |-> <<>>]

Init ==
  /\ token \in [server : Tokens, client : Tokens]
  /\ tick \in 0..(DwordMod - 1)
  /\ client = Disconnected /\ conn = "none" /\ wire = <<>> /\ server = Idle

-----------------------------------------------------------------------------
\* The client: remote_server_list_devices.

StartRequest == [pc |-> "request", left |-> OpHeader]

\* tcp_client_connect_timeout succeeds; auth_client_handshake starts to send,
\* or refuses a token that is too long, and the socket is closed.
Connect ==
  /\ client.pc = "connect"
  /\ \/ /\ ~auth_is_enabled(token.client)
        /\ client' = StartRequest /\ conn' = "open"
     \/ /\ Len(token.client) \in 1..AUTH_TOKEN_MAX_LEN
        /\ client' = [pc |-> "auth", left |-> Frame(token.client)]
        /\ conn' = "open"
     \/ /\ Len(token.client) > AUTH_TOKEN_MAX_LEN
        /\ client' = [client EXCEPT !.pc = "failed"] /\ conn' = "lost"
  /\ UNCHANGED <<token, tick, wire, server>>

\* It fails or times out; the server may have the connection in its backlog.
ConnectFails ==
  /\ client.pc = "connect"
  /\ client' = [client EXCEPT !.pc = "failed"]
  /\ conn' \in {"none", "lost"}
  /\ UNCHANGED <<token, tick, wire, server>>

Sending == client.pc \in {"auth", "request"}

\* One send takes n of the bytes left; what is sent to a closed socket is lost.
Send(n) ==
  wire' = IF server.pc = "closed" THEN wire ELSE wire \o SubSeq(client.left, 1, n)

\* net_send_all: a send that is not the last one of its message.
SendSome ==
  /\ Sending
  /\ \E n \in 1..(Len(client.left) - 1) :
       /\ Send(n)
       /\ client' = [client EXCEPT !.left = SubSeq(@, n + 1, Len(@))]
  /\ UNCHANGED <<token, tick, conn, server>>

\* The last one; the request follows the frame, the reply the request.
SendLast ==
  /\ Sending
  /\ Send(Len(client.left))
  /\ \/ client.pc = "auth" /\ client' = StartRequest
     \/ client.pc = "request" /\ client' = [pc |-> "reply", left |-> <<>>]
  /\ UNCHANGED <<token, tick, conn, server>>

\* send fails because the peer has closed, and the socket is closed.
SendFails ==
  /\ Sending /\ server.pc = "closed"
  /\ client' = [pc |-> "failed", left |-> <<>>] /\ conn' = "lost"
  /\ UNCHANGED <<token, tick, wire, server>>

\* usbip_recv_header_basic: the reply, or the server's close.
ReceiveReply ==
  /\ client.pc = "reply" /\ server.pc \in {"served", "closed"}
  /\ client' = [client EXCEPT !.pc = IF server.pc = "served" THEN "ok" ELSE "failed"]
  /\ conn' = "lost"
  /\ UNCHANGED <<token, tick, wire, server>>

\* The client ends at any moment; what is in flight may get lost.
ClientGone ==
  /\ conn = "open"
  /\ conn' = "lost" /\ client' = [pc |-> "failed", left |-> <<>>]
  /\ \E n \in 0..Len(wire) : wire' = SubSeq(wire, 1, n)
  /\ UNCHANGED <<token, tick, server>>

-----------------------------------------------------------------------------
\* The server: server_main_loop and auth_server_handshake.

\* Entry of net_recv_all_timeout for n bytes.
Receive(pc, n) ==
  [server EXCEPT !.pc = pc, !.buf = <<>>, !.want = n, !.start = tick,
                 !.limit = AUTH_TIMEOUT_MS, !.waited = 0]

\* auth_server_handshake fails, and its caller closes the socket.
Reject(s, why) == [s EXCEPT !.pc = "closed", !.why = why]

\* tcp_server_accept_timeout returns a socket.
Accept ==
  /\ server.pc = "listen" /\ conn # "none"
  /\ server' = IF auth_is_enabled(token.server) THEN Receive("header", HeaderLen)
               ELSE [server EXCEPT !.pc = "add"]
  /\ UNCHANGED <<token, tick, client, conn, wire>>

InHandshake == server.pc \in {"header", "token"}

\* GetTickCount() - start, in DWORDs.  Mutation: without the wraparound.
PlainElapsed == tick - server.start
Elapsed == (tick - server.start) % DwordMod

\* The header that has arrived: magic and plausible length.
\* Mutation: the longest tokens a client may send are refused.
ShortTokensOnly(h) == h[1] = Magic /\ h[2][2] \in 1..(AUTH_TOKEN_MAX_LEN - 1)
HeaderValid(h) == h[1] = Magic /\ h[2][2] \in 1..AUTH_TOKEN_MAX_LEN

\* The comparison: a byte collects the difference of the lengths and of the
\* characters that both have.  Mutation: the lengths are left out.
PrefixMatches(expected, got) ==
  \A i \in 1..Len(expected) : i <= Len(got) => got[i] = <<"chr", expected[i]>>
TokenMatches(expected, got) ==
  /\ Len(expected) % 256 = Len(got) % 256
  /\ \A i \in 1..Len(expected) : i <= Len(got) => got[i] = <<"chr", expected[i]>>

\* What follows when a bounded receive has all its bytes.
Received(got) ==
  \/ /\ server.pc = "header" /\ HeaderValid(got)
     /\ server' = Receive("token", got[2][2])
  \/ /\ server.pc = "header" /\ ~HeaderValid(got)
     /\ server' = Reject(server, "header")
  \/ /\ server.pc = "token" /\ TokenMatches(token.server, got)
     /\ server' = [server EXCEPT !.pc = "add"]
  \/ /\ server.pc = "token" /\ ~TokenMatches(token.server, got)
     /\ server' = Reject(server, "mismatch")

\* How many bytes one recv of the loop may return.  Mutation: it is asked for
\* all bytes again and not for those that remain.
WholeBuffer(s) == s.want
Remaining(s) == s.want - Len(s.buf)

\* One recv takes n bytes off the stream.
Recv(n) == n <= Remaining(server) /\ wire' = SubSeq(wire, n + 1, Len(wire))
Taken(n) == server.buf \o SubSeq(wire, 1, n)

\* net_recv_all_timeout: select reports data, recv takes some, and the loop
\* ends, times out, or selects again for the time that is left.
AuthRecv ==
  /\ InHandshake
  /\ \E n \in 1..Len(wire) :
       /\ Recv(n)
       /\ \/ Len(Taken(n)) >= server.want /\ Received(Taken(n))
          \/ /\ Len(Taken(n)) < server.want /\ Elapsed >= AUTH_TIMEOUT_MS
             /\ server' = Reject(server, "timeout")
          \/ /\ Len(Taken(n)) < server.want /\ Elapsed < AUTH_TIMEOUT_MS
             /\ server' = [server EXCEPT !.buf = Taken(n),
                                        !.limit = AUTH_TIMEOUT_MS - Elapsed]
  /\ UNCHANGED <<token, tick, client, conn>>

\* select returns 0: nothing arrived in the time that was left.
\* Mutation: the loop only ends when select fails; on 0 it goes on to recv,
\* which blocks until there is data.
AuthTimeoutBlocks ==
  /\ InHandshake /\ server.limit = 0 /\ wire = <<>> /\ conn = "open"
  /\ UNCHANGED vars
AuthTimeout ==
  /\ InHandshake /\ server.limit = 0 /\ wire = <<>> /\ conn = "open"
  /\ server' = Reject(server, "timeout")
  /\ UNCHANGED <<token, tick, client, conn, wire>>

\* recv returns 0 or an error: the connection is closed or reset.
AuthShort ==
  /\ InHandshake /\ wire = <<>> /\ conn = "lost"
  /\ server' = Reject(server, "short")
  /\ UNCHANGED <<token, tick, client, conn, wire>>

\* client_manager_add; there may be no place or no memory.
AddClient ==
  /\ server.pc = "add"
  /\ \/ server' = [server EXCEPT !.pc = "recv", !.buf = <<>>, !.want = Len(OpHeader)]
     \/ server' = Reject(server, "full")
  /\ UNCHANGED <<token, tick, client, conn, wire>>

\* client_handle_request: net_recv_all of the header, without a timeout; what
\* is not a request ends the session.
RequestRecv ==
  /\ server.pc = "recv"
  /\ \E n \in 1..Len(wire) :
       /\ Recv(n)
       /\ \/ /\ Len(Taken(n)) < server.want
             /\ server' = [server EXCEPT !.buf = Taken(n)]
          \/ /\ Len(Taken(n)) >= server.want /\ Taken(n) = OpHeader
             /\ server' = [server EXCEPT !.pc = "served", !.buf = Taken(n)]
          \/ /\ Len(Taken(n)) >= server.want /\ Taken(n) # OpHeader
             /\ server' = Reject([server EXCEPT !.buf = Taken(n)], "unsupported")
  /\ UNCHANGED <<token, tick, client, conn>>

RequestShort ==
  /\ server.pc = "recv" /\ wire = <<>> /\ conn = "lost"
  /\ server' = Reject(server, "short")
  /\ UNCHANGED <<token, tick, client, conn, wire>>

\* Time passes while the server is in select, which ends when its time is up.
Tick ==
  /\ InHandshake /\ server.limit > 0
  /\ tick' = (tick + 1) % DwordMod
  /\ server' = [server EXCEPT !.limit = @ - 1, !.waited = @ + 1, !.spent = @ + 1]
  /\ UNCHANGED <<token, client, conn, wire>>

-----------------------------------------------------------------------------
\* Both sides are done with each other; the next client connects.
NextConnection ==
  /\ client.pc \in {"ok", "failed"}
  /\ server.pc \in {"served", "closed"} \/ conn = "none"
  /\ token' \in [server : {token.server}, client : Tokens]
  /\ client' = Disconnected /\ conn' = "none" /\ wire' = <<>> /\ server' = Idle
  /\ UNCHANGED tick

ClientStep ==
  \/ Connect \/ ConnectFails \/ SendSome \/ SendLast \/ SendFails
  \/ ReceiveReply \/ ClientGone

ServerStep ==
  \/ Accept \/ AuthRecv \/ AuthTimeout \/ AuthShort
  \/ AddClient \/ RequestRecv \/ RequestShort

Next == ClientStep \/ ServerStep \/ Tick \/ NextConnection

Spec == Init /\ [][Next]_vars

\* The server's thread is scheduled and time passes; a client that has sent
\* everything reads what comes.  Nothing obliges a client to send.
FairSpec ==
  /\ Spec
  /\ WF_vars(ServerStep) /\ WF_vars(Tick) /\ WF_vars(ReceiveReply)

-----------------------------------------------------------------------------
Bytes == {Magic} \cup ({"len"} \X (1..AUTH_TOKEN_MAX_LEN)) \cup ({"chr"} \X Nat)
         \cup ({"op"} \X (1..4))

Reasons == {"none", "header", "mismatch", "timeout", "short", "full", "unsupported"}

Servers ==
  [pc : {"listen", "header", "token", "add", "recv", "served", "closed"},
   buf : Seq(Bytes), want : Nat, start : 0..(DwordMod - 1),
   limit : 0..AUTH_TIMEOUT_MS, why : Reasons, waited : Nat, spent : Nat]

\* Types of the variables; in particular a select never waits longer than
\* AUTH_TIMEOUT_MS: the DWORD timeout_ms - elapsed does not wrap below zero.
TypeOK ==
  /\ token \in [server : Tokens, client : Tokens]
  /\ tick \in 0..(DwordMod - 1)
  /\ client \in [pc : {"connect", "auth", "request", "reply", "ok", "failed"},
                 left : Seq(Bytes)]
  /\ conn \in {"none", "open", "lost"}
  /\ wire \in Seq(Bytes)
  /\ server \in Servers

\* Whoever gets past auth_server_handshake, or is served at all, is configured
\* with the server's token (README.md:119); a client with a token is not
\* served by a server without one either.
AdmittedHasToken ==
  /\ server.pc \in {"add", "recv"} /\ auth_is_enabled(token.server)
       => token.client = token.server
  /\ server.pc = "served" => token.client = token.server

\* The receives of the handshake take the frame and not a byte more, however
\* the stream is cut: what follows is received as the request header.
FramingKept ==
  /\ server.pc \in {"recv", "served"} /\ auth_is_enabled(token.server)
       => IsPrefix(server.buf, OpHeader)
  /\ server.pc = "token"
       => IsPrefix(server.buf, [i \in 1..Len(token.client) |-> <<"chr", token.client[i]>>])

\* A peer that sends nothing, or a byte now and then, holds the accepting thread
\* no longer than the two receives may last, wherever the tick counter wraps.
VerdictBounded == server.spent <= 2 * AUTH_TIMEOUT_MS

\* The receive that timed out has lasted as long as it may.
TimeoutHonest == server.why = "timeout" => server.waited >= AUTH_TIMEOUT_MS

\* auth_server_handshake refuses only for cause: a bad header or token only
\* from a client that has another token, a timeout only when the receive has
\* lasted as long as it may, a short receive only from a client that is gone.
RejectionJustified ==
  /\ server.why \in {"header", "mismatch", "unsupported"} => token.client # token.server
  /\ TimeoutHonest
  /\ server.why = "short" => conn = "lost"

\* The handshake comes to an end although the client need not send.
HandshakeEnds == InHandshake ~> ~InHandshake

\* A client that has sent its request gets an answer or sees the connection
\* closed, whatever the two tokens are: neither side waits for the other.
ClientSettles == client.pc = "reply" ~> client.pc # "reply"

\* Neither the accepting thread nor the client is held up for ever.
NobodyWaitsForever == HandshakeEnds /\ ClientSettles
=============================================================================
