------------------------------ MODULE Discovery -----------------------------
(***************************************************************************)
(* Finding servers on the LAN: discovery_broadcast (client/discovery.c) on *)
(* one machine and the listener threads of GUI servers                     *)
(* (discovery_listener_thread, gui/server_gui.c) on others, over datagrams *)
(* that are lost, delayed and reordered.  The CLI server has no listener.  *)
(*                                                                         *)
(* The request goes out twice, to the subnet's broadcast address and to    *)
(* 255.255.255.255, and a listener answers every copy it gets.  A          *)
(* discovery has a socket of its own: what is in flight when it closes the *)
(* socket reaches nobody, so a datagram that is lost, or sent to a machine *)
(* where no server runs, is one that stays in flight until then.           *)
(*                                                                         *)
(* Time is GetTickCount, a counter that wraps; only waiting takes time,    *)
(* except for delays when the thread is not scheduled.  discovery_query    *)
(* and discovery_ping have no caller.                                      *)
(***************************************************************************)
EXTENDS Integers, Sequences, FiniteSets

CONSTANTS
  Servers,                \* machines a GUI server may run on
  MAX_DISCOVERED_SERVERS, \* rows of the result table
  Timeout,                \* DISCOVERY_TIMEOUT_MS
  Slice,                  \* the 500 ms one receive waits at most
  Wrap,                   \* GetTickCount counts modulo this number, 2^32
  MaxDelay,               \* bound: ticks lost to scheduling per discovery
  MaxNoise                \* bound: foreign datagrams and failed receives

Other == "other"    \* a datagram that is no answer, or one without a host name

ASSUME DiscoveryAssumption ==
  /\ Other \notin Servers
  /\ MAX_DISCOVERED_SERVERS \in Nat \ {0}
  /\ Timeout \in Nat /\ Slice \in Nat \ {0} /\ MaxDelay \in Nat /\ MaxNoise \in Nat
  /\ Wrap \in Nat /\ Timeout + MaxDelay < Wrap

VARIABLES
  requests,  \* copies of the request in flight to each machine
  replies,   \* answers of each machine in flight
  inbox,     \* datagrams in the receive buffer of the client's socket
  client,    \* where discovery_broadcast is
  result,    \* the rows of the result table, each a server
  tick,      \* GetTickCount() of the client's machine
  start_time,\* its value when the collection started
  age,       \* ticks since then that have really passed
  delays,    \* ticks lost to scheduling so far
  noise,     \* foreign datagrams and failed receives so far
  answered   \* the servers that have answered this discovery

netVars == <<requests, replies, inbox>>
timeVars == <<tick, start_time, age, delays>>
vars == <<netVars, client, result, timeVars, noise, answered>>

Quiet == [s \in Servers |-> 0]

Init ==
  /\ requests = Quiet /\ replies = Quiet /\ inbox = <<>>
  /\ client = [pc |-> "idle", wait |-> 0]
  /\ result = <<>> /\ answered = {}
  /\ tick \in 0 .. Wrap - 1 /\ start_time = 0 /\ age = 0 /\ delays = 0 /\ noise = 0

----------------------------------------------------------------------------
(* The servers.                                                            *)

\* discovery_listener_thread: the shared devices are counted under the mutex
\* and the answer goes to the sender's address and port.
ListenerAnswers(s) ==
  /\ requests[s] > 0
  /\ requests' = [requests EXCEPT ![s] = @ - 1]
  /\ replies' = [replies EXCEPT ![s] = @ + 1]
  /\ answered' = answered \cup {s}
  /\ UNCHANGED <<inbox, client, result, timeVars, noise>>

----------------------------------------------------------------------------
(* The network.                                                            *)

ReplyArrives(s) ==
  /\ replies[s] > 0 /\ replies' = [replies EXCEPT ![s] = @ - 1]
  /\ inbox' = Append(inbox, s)
  /\ UNCHANGED <<requests, client, result, timeVars, noise, answered>>

NoiseArrives ==
  /\ client.pc \in {"directed", "limited", "loop", "select"}
  /\ noise < MaxNoise /\ noise' = noise + 1
  /\ inbox' = Append(inbox, Other)
  /\ UNCHANGED <<requests, replies, client, result, timeVars, answered>>

----------------------------------------------------------------------------
(* discovery_broadcast.                                                    *)

\* The end, with or without success; the socket is closed.
Close(pc) ==
  /\ client' = [pc |-> pc, wait |-> 0]
  /\ requests' = Quiet /\ replies' = Quiet /\ inbox' = <<>>

\* Mutation: the rows of the last discovery stay.
StartKeepsResults ==
  /\ client.pc \in {"idle", "done", "failed"}
  /\ client' = [pc |-> "directed", wait |-> 0]
  /\ answered' = {}
  /\ age' = 0 /\ delays' = 0 /\ noise' = 0 /\ start_time' = 0
  /\ UNCHANGED <<netVars, tick, result>>

\* discovery_clear_results, then a socket that may send broadcasts, bound to
\* a free port.
Start ==
  /\ client.pc \in {"idle", "done", "failed"}
  /\ client' = [pc |-> "directed", wait |-> 0]
  /\ result' = <<>> /\ answered' = {}
  /\ age' = 0 /\ delays' = 0 /\ noise' = 0 /\ start_time' = 0
  /\ UNCHANGED <<netVars, tick>>

\* udp_socket_create, udp_enable_broadcast, udp_socket_bind or the first
\* udp_sendto fails.
StartFails ==
  /\ client.pc = "directed" /\ Close("failed")
  /\ UNCHANGED <<result, timeVars, noise, answered>>

\* The request goes to every machine on the segment.  get_broadcast_address
\* falls back to 255.255.255.255, so there always is an address.
Broadcast == requests' = [s \in Servers |-> requests[s] + 1]

SendDirected ==
  /\ client.pc = "directed" /\ client' = [pc |-> "limited", wait |-> 0]
  /\ Broadcast
  /\ UNCHANGED <<replies, inbox, result, timeVars, noise, answered>>

\* Its result is ignored; then the collection starts.
SendLimited ==
  /\ client.pc = "limited" /\ client' = [pc |-> "loop", wait |-> 0]
  /\ (Broadcast \/ UNCHANGED requests)
  /\ start_time' = tick
  /\ UNCHANGED <<replies, inbox, result, tick, age, delays, noise, answered>>

\* Mutation: the end is computed once and compared with the counter.
ElapsedByDeadline == IF tick >= (start_time + Timeout) % Wrap THEN Timeout ELSE 0

\* GetTickCount() - start_time, an unsigned difference.
Elapsed == (tick - start_time) % Wrap

\* Mutation: the loop ends only when the time is met exactly.
TimeIsUpExactly == Elapsed = Timeout

TimeIsUp == Elapsed >= Timeout

\* Mutation: the loop test lets one row too many in.
FullTooLate == Len(result) > MAX_DISCOVERED_SERVERS

Full == Len(result) >= MAX_DISCOVERED_SERVERS

\* The loop's tests, and the time the next receive may take.
LoopTop ==
  /\ client.pc = "loop" /\ ~Full /\ ~TimeIsUp
  /\ LET remaining == Timeout - Elapsed
     IN client' = [pc |-> "select", wait |-> IF remaining > Slice THEN Slice ELSE remaining]
  /\ UNCHANGED <<netVars, result, timeVars, noise, answered>>

LoopEnds ==
  /\ client.pc = "loop" /\ (Full \/ TimeIsUp)
  /\ Close("done")
  /\ UNCHANGED <<result, timeVars, noise, answered>>

\* udp_recvfrom_timeout returns a datagram: an answer becomes a row, whether
\* or not its server has one already.
Receive ==
  /\ client.pc = "select" /\ inbox # <<>>
  /\ client' = [pc |-> "loop", wait |-> 0]
  /\ inbox' = Tail(inbox)
  /\ result' = IF Head(inbox) = Other THEN result ELSE Append(result, Head(inbox))
  /\ UNCHANGED <<requests, replies, timeVars, noise, answered>>

ReceiveTimeout ==
  /\ client.pc = "select" /\ inbox = <<>> /\ client.wait = 0
  /\ client' = [pc |-> "loop", wait |-> 0]
  /\ UNCHANGED <<netVars, result, timeVars, noise, answered>>

\* select or recvfrom fails, as after an ICMP message: tried again.
ReceiveFails ==
  /\ client.pc = "select" /\ noise < MaxNoise /\ noise' = noise + 1
  /\ client' = [pc |-> "loop", wait |-> 0]
  /\ UNCHANGED <<netVars, result, timeVars, answered>>

Advance == tick' = (tick + 1) % Wrap /\ age' = age + 1 /\ UNCHANGED start_time

\* The receive waits.
Wait ==
  /\ client.pc = "select" /\ inbox = <<>> /\ client.wait > 0
  /\ client' = [pc |-> "select", wait |-> client.wait - 1]
  /\ Advance
  /\ UNCHANGED <<netVars, result, delays, noise, answered>>

\* The thread is not scheduled.
Delay ==
  /\ client.pc \in {"loop", "select"} /\ delays < MaxDelay /\ delays' = delays + 1
  /\ Advance
  /\ UNCHANGED <<netVars, client, result, noise, answered>>

----------------------------------------------------------------------------
Collect ==
  SendDirected \/ SendLimited \/ LoopTop \/ LoopEnds \/ Receive \/ ReceiveTimeout
  \/ ReceiveFails \/ Wait

Next ==
  \/ Start \/ StartFails \/ Collect \/ Delay \/ NoiseArrives
  \/ \E s \in Servers : ListenerAnswers(s) \/ ReplyArrives(s)

Spec == Init /\ [][Next]_vars

\* The thread is scheduled and time passes while it waits.
FairSpec == Spec /\ WF_vars(Collect)

----------------------------------------------------------------------------
(* Properties.                                                             *)

\* Every variable stays in its range.
TypeOK ==
  /\ requests \in [Servers -> Nat] /\ replies \in [Servers -> Nat]
  /\ inbox \in Seq(Servers \cup {Other}) /\ result \in Seq(Servers)
  /\ client \in [pc : {"idle", "directed", "limited", "loop", "select", "done", "failed"},
                wait : 0 .. Timeout]
  /\ tick \in 0 .. Wrap - 1 /\ start_time \in 0 .. Wrap - 1
  /\ age \in Nat /\ delays \in 0 .. MaxDelay /\ noise \in 0 .. MaxNoise
  /\ answered \subseteq Servers

\* A row of the table stands for a server that has answered this discovery:
\* no row of an earlier discovery, no row made of a foreign datagram.
RowsAreAnswers ==
  client.pc # "idle" => \A i \in DOMAIN result : result[i] \in answered

\* The table is never overrun, and no server takes more than two of its rows,
\* one for each copy of the request.
TableKept ==
  /\ Len(result) <= MAX_DISCOVERED_SERVERS
  /\ \A s \in Servers : Cardinality({i \in DOMAIN result : result[i] = s}) <= 2

\* A discovery that succeeds has waited its whole timeout unless the table is
\* full, and no longer than that but for delays, wherever the tick counter
\* wraps.
EndsInTime ==
  client.pc = "done" => /\ age >= Timeout \/ Len(result) = MAX_DISCOVERED_SERVERS
                        /\ age <= Timeout + delays

\* Every discovery comes to an end, whatever arrives.
DiscoveryEnds == client.pc = "directed" ~> client.pc \in {"done", "failed"}
=============================================================================
