--------------------------- MODULE DiscoveryProofs --------------------------
(***************************************************************************)
(* Proofs about Discovery, for any number of servers, any size of the      *)
(* table, any timeout and any width of the tick counter.                   *)
(***************************************************************************)
EXTENDS Discovery, FiniteSetTheorems, TLAPS

USE DiscoveryAssumption

-----------------------------------------------------------------------------
(* Arithmetic of the tick counter.                                         *)

\* A tick later, the counter is one more or wraps to zero.
LEMMA NextTick ==
  ASSUME NEW t \in 0 .. Wrap - 1
  PROVE  /\ (t + 1) % Wrap \in 0 .. Wrap - 1
         /\ (t + 1) % Wrap = t + 1 \/ (t + 1) % Wrap = t + 1 - Wrap
<1>1. CASE t + 1 < Wrap
  <2>1. (t + 1) % Wrap = t + 1
    BY <1>1
  <2> QED BY <1>1, <2>1
<1>2. CASE t + 1 = Wrap
  <2>1. (t + 1) % Wrap = 0
    BY <1>2
  <2> QED BY <1>2, <2>1
<1> QED BY <1>1, <1>2

\* The unsigned difference of two readings less than a round apart is the time
\* between them, also when the counter has wrapped in between.
LEMMA TickDifference ==
  ASSUME NEW s \in 0 .. Wrap - 1, NEW t \in 0 .. Wrap - 1, NEW a \in 0 .. Wrap - 1,
         t = s + a \/ t = s + a - Wrap
  PROVE  (t - s) % Wrap = a
<1>1. CASE t = s + a
  <2>1. t - s = a /\ a % Wrap = a
    BY <1>1
  <2> QED BY <2>1
<1>2. CASE t = s + a - Wrap
  <2>1. t - s = a - Wrap /\ a - Wrap \in 1 - Wrap .. 0 - 1
    BY <1>2
  <2>2. \A d \in 1 - Wrap .. 0 - 1 : d % Wrap = d + Wrap
    OBVIOUS
  <2> QED BY <2>1, <2>2
<1> QED BY <1>1, <1>2

-----------------------------------------------------------------------------
(* Types.                                                                  *)

LEMMA InitTyped == Init => TypeOK
  BY DEF Init, TypeOK, Quiet

LEMMA StepTyped == TypeOK /\ [Next]_vars => TypeOK'
<1> SUFFICES ASSUME TypeOK, [Next]_vars PROVE TypeOK'
  OBVIOUS
<1> USE DEF TypeOK
<1>1. CASE Start
  BY <1>1 DEF Start, netVars
<1>2. CASE StartFails
  BY <1>2 DEF StartFails, Close, Quiet, timeVars
<1>3. CASE SendDirected
  BY <1>3 DEF SendDirected, Broadcast, timeVars
<1>4. CASE SendLimited
  BY <1>4 DEF SendLimited, Broadcast
<1>5. CASE LoopTop
  <2>1. Elapsed \in 0 .. Wrap - 1 /\ Elapsed < Timeout
    BY <1>5 DEF LoopTop, TimeIsUp, Elapsed
  <2>2. client'.wait \in 0 .. Timeout /\ client' = [pc |-> "select", wait |-> client'.wait]
    BY <1>5, <2>1 DEF LoopTop
  <2> QED BY <1>5, <2>2 DEF LoopTop, netVars, timeVars
<1>6. CASE LoopEnds
  BY <1>6 DEF LoopEnds, Close, Quiet, timeVars
<1>7. CASE Receive
  <2>1. Head(inbox) \in Servers \cup {Other} /\ Tail(inbox) \in Seq(Servers \cup {Other})
    BY <1>7 DEF Receive
  <2> QED BY <1>7, <2>1 DEF Receive, timeVars
<1>8. CASE ReceiveTimeout
  BY <1>8 DEF ReceiveTimeout, netVars, timeVars
<1>9. CASE ReceiveFails
  BY <1>9 DEF ReceiveFails, netVars, timeVars
<1>10. CASE Wait
  <2>1. tick' \in 0 .. Wrap - 1 /\ age' \in Nat
    BY <1>10, NextTick DEF Wait, Advance
  <2> QED BY <1>10, <2>1 DEF Wait, Advance, netVars
<1>11. CASE Delay
  <2>1. tick' \in 0 .. Wrap - 1 /\ age' \in Nat
    BY <1>11, NextTick DEF Delay, Advance
  <2> QED BY <1>11, <2>1 DEF Delay, Advance, netVars
<1>12. CASE NoiseArrives
  BY <1>12 DEF NoiseArrives, timeVars
<1>13. ASSUME NEW s \in Servers, ListenerAnswers(s) PROVE TypeOK'
  BY <1>13 DEF ListenerAnswers, timeVars
<1>14. ASSUME NEW s \in Servers, ReplyArrives(s) PROVE TypeOK'
  BY <1>14 DEF ReplyArrives, timeVars
<1>15. CASE UNCHANGED vars
  BY <1>15 DEF vars, netVars, timeVars
<1> QED
  BY <1>1, <1>2, <1>3, <1>4, <1>5, <1>6, <1>7, <1>8, <1>9, <1>10, <1>11, <1>12, <1>13,
     <1>14, <1>15 DEF Next, Collect

\* Every variable of a discovery stays in its range; the time given to a
\* receive never exceeds the timeout, so the unsigned subtraction that computes
\* it does not wrap.
THEOREM TypeCorrect == Spec => []TypeOK
  BY InitTyped, StepTyped, PTL DEF Spec

-----------------------------------------------------------------------------
(* Time and the size of the table.                                         *)

\* While answers are collected the counter stands at the start plus the time
\* that has passed, or a round below, and the receive ends in time.
Clock ==
  /\ client.pc \in {"directed", "limited"} => age = 0 /\ delays = 0
  /\ client.pc \in {"loop", "select"} =>
       /\ tick = start_time + age \/ tick = start_time + age - Wrap
       /\ age + client.wait <= Timeout + delays

\* A receive is entered only with a free row.
Room ==
  /\ Len(result) <= MAX_DISCOVERED_SERVERS
  /\ client.pc = "select" => Len(result) < MAX_DISCOVERED_SERVERS

TimeInv == TypeOK /\ Clock /\ Room /\ EndsInTime

\* What the loop computes is the time that has passed.
LEMMA ElapsedIsAge ==
  ASSUME TypeOK, Clock, client.pc = "loop"
  PROVE  Elapsed = age
<1>1. age \in 0 .. Wrap - 1
  BY DEF TypeOK, Clock
<1> QED BY <1>1, TickDifference DEF TypeOK, Clock, Elapsed

\* A tick keeps the relation between counter and age.
LEMMA AdvanceKeepsClock ==
  ASSUME TypeOK, Clock, client.pc \in {"loop", "select"}, age + 1 < Wrap, Advance
  PROVE  /\ tick' = start_time' + age' \/ tick' = start_time' + age' - Wrap
         /\ age' = age + 1
<1>1. tick' \in 0 .. Wrap - 1 /\ (tick' = tick + 1 \/ tick' = tick + 1 - Wrap)
  BY NextTick DEF TypeOK, Advance
<1>2. age' = age + 1 /\ start_time' = start_time
  BY DEF Advance
<1>3. /\ tick \in 0 .. Wrap - 1 /\ start_time \in 0 .. Wrap - 1 /\ age \in Nat
      /\ tick = start_time + age \/ tick = start_time + age - Wrap
  BY DEF TypeOK, Clock
<1> QED BY <1>1, <1>2, <1>3

LEMMA InitTime == Init => TimeInv
<1> SUFFICES ASSUME Init PROVE TimeInv
  OBVIOUS
<1>1. TypeOK
  BY InitTyped
<1> QED BY <1>1 DEF Init, TimeInv, Clock, Room, EndsInTime

LEMMA StepTime == TimeInv /\ [Next]_vars => TimeInv'
<1> SUFFICES ASSUME TimeInv, [Next]_vars PROVE Clock' /\ Room' /\ EndsInTime'
  BY StepTyped DEF TimeInv
<1>t. TypeOK /\ TypeOK'
  BY StepTyped DEF TimeInv
<1> USE DEF Clock, Room, EndsInTime, TimeInv
<1>1. CASE Start
  BY <1>1 DEF Start
<1>2. CASE StartFails
  BY <1>2 DEF StartFails, Close, timeVars
<1>3. CASE SendDirected
  BY <1>3 DEF SendDirected, timeVars
<1>4. CASE SendLimited
  BY <1>t, <1>4 DEF SendLimited, TypeOK
<1>5. CASE LoopTop
  <2>1. Elapsed = age
    BY <1>t, <1>5, ElapsedIsAge DEF LoopTop
  <2>2. client'.pc = "select" /\ client'.wait <= Timeout - age
    BY <1>t, <1>5, <2>1 DEF LoopTop, TimeIsUp, TypeOK
  <2> QED BY <1>t, <1>5, <2>2 DEF LoopTop, Full, timeVars, TypeOK
<1>6. CASE LoopEnds
  <2>1. Elapsed = age
    BY <1>t, <1>6, ElapsedIsAge DEF LoopEnds
  <2> QED BY <1>t, <1>6, <2>1 DEF LoopEnds, Close, Full, TimeIsUp, timeVars, TypeOK
<1>7. CASE Receive
  <2>1. Len(result') <= Len(result) + 1
    BY <1>t, <1>7 DEF Receive, TypeOK
  <2> QED BY <1>t, <1>7, <2>1 DEF Receive, timeVars, TypeOK
<1>8. CASE ReceiveTimeout
  BY <1>t, <1>8 DEF ReceiveTimeout, timeVars, TypeOK
<1>9. CASE ReceiveFails
  BY <1>t, <1>9 DEF ReceiveFails, timeVars, TypeOK
<1>10. CASE Wait
  <2>1. age + 1 < Wrap
    BY <1>t, <1>10 DEF Wait, TypeOK
  <2>2. /\ tick' = start_time' + age' \/ tick' = start_time' + age' - Wrap
        /\ age' = age + 1
    BY <1>t, <1>10, <2>1, AdvanceKeepsClock DEF Wait
  <2>3. /\ client.pc = "select" /\ client'.pc = "select" /\ client'.wait = client.wait - 1
        /\ delays' = delays /\ result' = result
    BY <1>10 DEF Wait
  <2>4. age \in Nat /\ client.wait \in Nat /\ delays \in Nat
    BY <1>t DEF TypeOK
  <2>5. age' + client'.wait <= Timeout + delays'
    BY <2>2, <2>3, <2>4
  <2> QED BY <2>2, <2>3, <2>5
<1>11. CASE Delay
  <2>1. age + 1 < Wrap
    BY <1>t, <1>11 DEF Delay, TypeOK
  <2>2. /\ tick' = start_time' + age' \/ tick' = start_time' + age' - Wrap
        /\ age' = age + 1
    BY <1>t, <1>11, <2>1, AdvanceKeepsClock DEF Delay
  <2>3. /\ client.pc \in {"loop", "select"} /\ client' = client
        /\ delays' = delays + 1 /\ result' = result
    BY <1>11 DEF Delay
  <2>4. age \in Nat /\ client.wait \in Nat /\ delays \in Nat
    BY <1>t DEF TypeOK
  <2>5. age' + client'.wait <= Timeout + delays'
    BY <2>2, <2>3, <2>4
  <2> QED BY <2>2, <2>3, <2>5
<1>12. CASE NoiseArrives
  BY <1>12 DEF NoiseArrives, timeVars
<1>13. ASSUME NEW s \in Servers, ListenerAnswers(s) \/ ReplyArrives(s)
       PROVE  Clock' /\ Room' /\ EndsInTime'
  BY <1>13 DEF ListenerAnswers, ReplyArrives, timeVars
<1>14. CASE UNCHANGED vars
  BY <1>14 DEF vars, netVars, timeVars
<1> QED
  BY <1>1, <1>2, <1>3, <1>4, <1>5, <1>6, <1>7, <1>8, <1>9, <1>10, <1>11, <1>12, <1>13,
     <1>14 DEF Next, Collect

\* A discovery that succeeds has waited its whole timeout unless its table is
\* full, and no longer than that but for delays, wherever the counter wraps.
THEOREM TimeIsKept == Spec => []EndsInTime
<1>1. TimeInv => EndsInTime
  BY DEF TimeInv
<1> QED BY <1>1, InitTime, StepTime, PTL DEF Spec

-----------------------------------------------------------------------------
(* Where rows come from.                                                   *)

\* An answer in flight, received or entered is one of a server that has
\* answered this discovery, and nothing is left over for the next one.
Source ==
  /\ \A s \in Servers : replies[s] > 0 => s \in answered
  /\ \A i \in DOMAIN inbox : inbox[i] # Other => inbox[i] \in answered
  /\ \A i \in DOMAIN result : result[i] \in answered
  /\ client.pc \in {"idle", "done", "failed"} =>
       requests = Quiet /\ replies = Quiet /\ inbox = <<>>

LEMMA InitSource == Init => Source
  BY DEF Init, Source, Quiet

LEMMA StepSource == TypeOK /\ Source /\ [Next]_vars => Source'
<1> SUFFICES ASSUME TypeOK, Source, [Next]_vars PROVE Source'
  OBVIOUS
<1> USE DEF Source
<1>1. CASE Start
  BY <1>1 DEF Start, netVars, Quiet, TypeOK
<1>2. CASE StartFails
  BY <1>2 DEF StartFails, Close, Quiet
<1>3. CASE SendDirected
  BY <1>3 DEF SendDirected
<1>4. CASE SendLimited
  BY <1>4 DEF SendLimited
<1>5. CASE LoopTop
  BY <1>5 DEF LoopTop, netVars
<1>6. CASE LoopEnds
  BY <1>6 DEF LoopEnds, Close, Quiet
<1>7. CASE Receive
  <2>1. /\ Len(inbox) \in Nat /\ Len(inbox) > 0 /\ Head(inbox) = inbox[1]
        /\ DOMAIN inbox = 1 .. Len(inbox)
    BY <1>7 DEF Receive, TypeOK
  <2>2. \A i \in DOMAIN inbox' : inbox'[i] # Other => inbox'[i] \in answered'
    BY <1>7, <2>1 DEF Receive, TypeOK
  <2>3. Head(inbox) # Other => Head(inbox) \in answered /\ Head(inbox) \in Servers
    <3>1. inbox[1] \in Servers \cup {Other} /\ 1 \in DOMAIN inbox
      BY <2>1 DEF TypeOK
    <3> QED BY <2>1, <3>1
  <2>4. \A i \in DOMAIN result' : result'[i] \in answered'
    BY <1>7, <2>3 DEF Receive, TypeOK
  <2> QED BY <1>7, <2>2, <2>4 DEF Receive
<1>8. CASE ReceiveTimeout \/ ReceiveFails \/ Wait \/ Delay
  BY <1>8 DEF ReceiveTimeout, ReceiveFails, Wait, Delay, netVars
<1>9. CASE NoiseArrives
  <2>1. \A i \in DOMAIN inbox' : inbox'[i] # Other => inbox'[i] \in answered'
    BY <1>9 DEF NoiseArrives, TypeOK
  <2> QED BY <1>9, <2>1 DEF NoiseArrives
<1>10. ASSUME NEW s \in Servers, ListenerAnswers(s) PROVE Source'
  BY <1>10 DEF ListenerAnswers, TypeOK, Quiet
<1>11. ASSUME NEW s \in Servers, ReplyArrives(s) PROVE Source'
  <2>1. s \in answered /\ client.pc \notin {"idle", "done", "failed"}
    BY <1>11 DEF ReplyArrives, Quiet, TypeOK
  <2>2. \A i \in DOMAIN inbox' : inbox'[i] # Other => inbox'[i] \in answered'
    BY <1>11, <2>1 DEF ReplyArrives, TypeOK
  <2>3. \A t \in Servers : replies'[t] > 0 => t \in answered'
    BY <1>11 DEF ReplyArrives, TypeOK
  <2> QED BY <1>11, <2>1, <2>2, <2>3 DEF ReplyArrives
<1>12. CASE UNCHANGED vars
  BY <1>12 DEF vars, netVars
<1> QED
  BY <1>1, <1>2, <1>3, <1>4, <1>5, <1>6, <1>7, <1>8, <1>9, <1>10, <1>11, <1>12
  DEF Next, Collect

\* No row of the table is left from an earlier discovery or made of a foreign
\* datagram: each stands for a server that has answered this one.
THEOREM RowsHonest == Spec => []RowsAreAnswers
<1>1. Source => RowsAreAnswers
  BY DEF Source, RowsAreAnswers
<1> QED BY <1>1, InitTyped, StepTyped, InitSource, StepSource, PTL DEF Spec

-----------------------------------------------------------------------------
(* How many rows a server takes.                                           *)

\* How often a server occurs in a sequence.
Positions(q, s) == {i \in DOMAIN q : q[i] = s}
Count(q, s) == Cardinality(Positions(q, s))

LEMMA CountEmpty ==
  ASSUME NEW s
  PROVE  Count(<<>>, s) = 0
<1>1. Positions(<<>>, s) = {}
  BY DEF Positions
<1> QED BY <1>1, FS_EmptySet DEF Count

LEMMA CountNat ==
  ASSUME NEW S, NEW q \in Seq(S), NEW s
  PROVE  IsFiniteSet(Positions(q, s)) /\ Count(q, s) \in Nat
<1>1. IsFiniteSet(1 .. Len(q)) /\ Positions(q, s) \subseteq 1 .. Len(q)
  BY FS_Interval DEF Positions
<1> QED BY <1>1, FS_Subset, FS_CardinalityType DEF Count

LEMMA CountAppend ==
  ASSUME NEW S, NEW q \in Seq(S), NEW x \in S, NEW s
  PROVE  Count(Append(q, x), s) = Count(q, s) + (IF x = s THEN 1 ELSE 0)
<1>1. Len(q) + 1 \notin Positions(q, s)
  BY DEF Positions
<1>2. CASE x = s
  <2>1. Positions(Append(q, x), s) = Positions(q, s) \cup {Len(q) + 1}
    BY <1>2 DEF Positions
  <2> QED BY <1>1, <1>2, <2>1, CountNat, FS_AddElement DEF Count
<1>3. CASE x # s
  <2>1. Positions(Append(q, x), s) = Positions(q, s)
    BY <1>3 DEF Positions
  <2> QED BY <1>3, <2>1, CountNat DEF Count
<1> QED BY <1>2, <1>3

LEMMA CountTail ==
  ASSUME NEW S, NEW q \in Seq(S), q # <<>>, NEW s
  PROVE  Count(q, s) = Count(Tail(q), s) + (IF Head(q) = s THEN 1 ELSE 0)
<1> DEFINE T == Positions(Tail(q), s)
           P == Positions(q, s) \ {1}
           f == [i \in T |-> i + 1]
<1>1. /\ Tail(q) \in Seq(S) /\ Len(q) \in Nat /\ DOMAIN q = 1 .. Len(q) /\ Len(q) >= 1
      /\ DOMAIN Tail(q) = 1 .. Len(q) - 1 /\ Head(q) = q[1]
      /\ \A i \in 1 .. Len(q) - 1 : Tail(q)[i] = q[i + 1]
  OBVIOUS
<1>2. f \in Bijection(T, P)
  <2>1. \A i \in T : i \in Int /\ i + 1 \in P
    BY <1>1 DEF Positions
  <2>2. \A p \in P : p - 1 \in T /\ p = (p - 1) + 1
    BY <1>1 DEF Positions
  <2> HIDE DEF T, P
  <2> QED BY <2>1, <2>2 DEF Bijection, Injection, Surjection, IsInjective
<1>3. IsFiniteSet(T) /\ IsFiniteSet(Positions(q, s))
  BY <1>1, CountNat
<1>4. Cardinality(P) = Cardinality(T)
  <2> HIDE DEF T, P, f
  <2> QED BY <1>2, <1>3, FS_Bijection DEF ExistsBijection
<1>5. Cardinality(P) = IF 1 \in Positions(q, s) THEN Count(q, s) - 1 ELSE Count(q, s)
  BY <1>3, FS_RemoveElement DEF Count
<1>6. 1 \in Positions(q, s) <=> Head(q) = s
  BY <1>1 DEF Positions
<1>7. Count(q, s) \in Nat /\ Count(Tail(q), s) = Cardinality(T)
  BY <1>1, CountNat DEF Count
<1> HIDE DEF T, P
<1> QED BY <1>4, <1>5, <1>6, <1>7

\* Copies of the request that have gone to a machine.
Sent(pc) == IF pc = "directed" THEN 0 ELSE IF pc = "limited" THEN 1 ELSE 2

\* Every copy is in flight, answered with the answer in flight or received, or
\* a row, once at most.
Copies(s) == requests[s] + replies[s] + Count(inbox, s) + Count(result, s)
Traffic == \A s \in Servers : Copies(s) <= Sent(client.pc)

LEMMA InitTraffic == Init => Traffic
  BY CountEmpty DEF Init, Traffic, Copies, Sent, Quiet

\* The four terms are numbers, also after a step.
LEMMA CopiesTyped ==
  ASSUME TypeOK, NEW s \in Servers
  PROVE  requests[s] \in Nat /\ replies[s] \in Nat /\ Count(inbox, s) \in Nat
         /\ Count(result, s) \in Nat
  BY CountNat DEF TypeOK

LEMMA StepTraffic == TypeOK /\ Source /\ Traffic /\ [Next]_vars => Traffic'
<1> SUFFICES ASSUME TypeOK, Source, Traffic, [Next]_vars, NEW s \in Servers
             PROVE  Copies(s)' <= Sent(client'.pc)
  BY DEF Traffic
<1>a. /\ requests[s] \in Nat /\ replies[s] \in Nat /\ Count(inbox, s) \in Nat
      /\ Count(result, s) \in Nat /\ Copies(s) <= Sent(client.pc)
  BY CopiesTyped DEF Traffic
<1>b. /\ Copies(s) = requests[s] + replies[s] + Count(inbox, s) + Count(result, s)
      /\ Copies(s)' = requests'[s] + replies'[s] + Count(inbox', s) + Count(result', s)
  BY DEF Copies
<1>c. Quiet[s] = 0 /\ Count(<<>>, s) = 0
  BY CountEmpty DEF Quiet
<1>1. CASE Start
  <2>1. /\ requests'[s] = 0 /\ replies'[s] = 0 /\ inbox' = <<>> /\ result' = <<>>
        /\ client'.pc = "directed"
    BY <1>1, <1>c DEF Start, netVars, Source
  <2> QED BY <1>b, <1>c, <2>1 DEF Sent
<1>2. CASE StartFails \/ LoopEnds
  <2>1. /\ requests'[s] = 0 /\ replies'[s] = 0 /\ inbox' = <<>> /\ result' = result
        /\ client'.pc \in {"failed", "done"}
    BY <1>2, <1>c DEF StartFails, LoopEnds, Close
  <2>2. Copies(s)' = Count(result, s)
    BY <1>a, <1>b, <1>c, <2>1
  <2> QED BY <1>a, <1>b, <2>1, <2>2 DEF Sent
<1>3. CASE SendDirected \/ SendLimited
  <2>1. /\ requests'[s] \in {requests[s], requests[s] + 1} /\ replies' = replies
        /\ inbox' = inbox /\ result' = result
        /\ \/ client.pc = "directed" /\ client'.pc = "limited"
           \/ client.pc = "limited" /\ client'.pc = "loop"
    BY <1>3 DEF SendDirected, SendLimited, Broadcast
  <2> QED BY <1>a, <1>b, <2>1 DEF Sent
<1>4. CASE LoopTop \/ ReceiveTimeout \/ ReceiveFails \/ Wait \/ Delay
  <2>1. /\ UNCHANGED <<requests, replies, inbox, result>>
        /\ client.pc \in {"loop", "select"} /\ client'.pc \in {"loop", "select"}
    BY <1>4 DEF LoopTop, ReceiveTimeout, ReceiveFails, Wait, Delay, netVars
  <2> QED BY <1>a, <1>b, <2>1 DEF Sent
<1>5. CASE Receive
  <2>1. /\ requests' = requests /\ replies' = replies /\ inbox' = Tail(inbox)
        /\ client.pc = "select" /\ client'.pc = "loop" /\ inbox # <<>>
        /\ result' = IF Head(inbox) = Other THEN result ELSE Append(result, Head(inbox))
    BY <1>5 DEF Receive
  <2>2. /\ inbox \in Seq(Servers \cup {Other}) /\ Head(inbox) \in Servers \cup {Other}
        /\ result \in Seq(Servers) /\ Tail(inbox) \in Seq(Servers \cup {Other})
    BY <2>1 DEF TypeOK
  <2>3. Count(inbox, s) = Count(inbox', s) + (IF Head(inbox) = s THEN 1 ELSE 0)
    BY <2>1, <2>2, CountTail
  <2>4. Count(result', s) = Count(result, s) + (IF Head(inbox) = s THEN 1 ELSE 0)
    <3>1. CASE Head(inbox) = Other
      BY <1>a, <2>1, <3>1
    <3>2. CASE Head(inbox) # Other
      BY <2>1, <2>2, <3>2, CountAppend
    <3> QED BY <3>1, <3>2
  <2>5. Count(inbox', s) \in Nat
    BY <2>1, <2>2, CountNat
  <2> QED BY <1>a, <1>b, <2>1, <2>3, <2>4, <2>5 DEF Sent
<1>6. CASE NoiseArrives
  <2>1. /\ requests' = requests /\ replies' = replies /\ result' = result
        /\ client' = client /\ inbox' = Append(inbox, Other)
    BY <1>6 DEF NoiseArrives
  <2>2. /\ inbox \in Seq(Servers \cup {Other}) /\ Other \in Servers \cup {Other}
        /\ Other # s
    BY DiscoveryAssumption DEF TypeOK
  <2>3. Count(inbox', s) = Count(inbox, s) + (IF Other = s THEN 1 ELSE 0)
    BY <2>1, <2>2, CountAppend
  <2> QED BY <1>a, <1>b, <2>1, <2>2, <2>3
<1>7. ASSUME NEW t \in Servers, ListenerAnswers(t) PROVE Copies(s)' <= Sent(client'.pc)
  <2>1. inbox' = inbox /\ result' = result /\ client' = client
    BY <1>7 DEF ListenerAnswers
  <2>2. requests'[s] + replies'[s] = requests[s] + replies[s]
    BY <1>7 DEF ListenerAnswers, TypeOK
  <2>3. requests'[s] \in Nat /\ replies'[s] \in Nat
    BY <1>7 DEF ListenerAnswers, TypeOK
  <2> QED BY <1>a, <1>b, <2>1, <2>2, <2>3
<1>8. ASSUME NEW t \in Servers, ReplyArrives(t) PROVE Copies(s)' <= Sent(client'.pc)
  <2>1. requests' = requests /\ result' = result /\ client' = client
    BY <1>8 DEF ReplyArrives
  <2>2. replies'[s] = replies[s] - (IF t = s THEN 1 ELSE 0)
    BY <1>8 DEF ReplyArrives, TypeOK
  <2>3. /\ inbox' = Append(inbox, t) /\ t \in Servers \cup {Other}
        /\ inbox \in Seq(Servers \cup {Other})
    BY <1>8 DEF ReplyArrives, TypeOK
  <2>4. Count(inbox', s) = Count(inbox, s) + (IF t = s THEN 1 ELSE 0)
    BY <2>3, CountAppend
  <2> QED BY <1>a, <1>b, <2>1, <2>2, <2>4
<1>9. CASE UNCHANGED vars
  BY <1>a, <1>b, <1>9 DEF vars, netVars
<1> QED
  BY <1>1, <1>2, <1>3, <1>4, <1>5, <1>6, <1>7, <1>8, <1>9 DEF Next, Collect

\* The table is never overrun, and a server takes at most two of its rows, one
\* for each copy of the request, whatever is delayed or reordered.
THEOREM TableIsKept == Spec => []TableKept
<1>1. TimeInv /\ Traffic => TableKept
  <2> SUFFICES ASSUME TimeInv, Traffic PROVE TableKept
    OBVIOUS
  <2>1. ASSUME NEW s \in Servers PROVE Cardinality({i \in DOMAIN result : result[i] = s}) <= 2
    <3>1. Count(result, s) <= 2
      BY CopiesTyped DEF TimeInv, Traffic, Copies, Sent
    <3> QED BY <3>1 DEF Count, Positions
  <2> QED BY <2>1 DEF TimeInv, Room, TableKept
<1>2. TimeInv => TypeOK
  BY DEF TimeInv
<1> QED
  BY <1>1, <1>2, InitTime, StepTime, InitSource, StepSource, InitTraffic, StepTraffic, PTL
  DEF Spec
=============================================================================
