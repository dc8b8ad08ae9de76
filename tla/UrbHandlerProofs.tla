-------------------------- MODULE UrbHandlerProofs --------------------------
(***************************************************************************)
(* Proofs about UrbHandler, for any number of URBs and any set of sequence *)
(* numbers.                                                                *)
(***************************************************************************)
EXTENDS UrbHandler, TLAPS

----------------------------------------------------------------------------
(* Sequences as queues.                                                    *)

\* Appending puts the element last and adds it to the elements.
LEMMA AppendFacts ==
  ASSUME NEW S, NEW q \in Seq(S), NEW e \in S
  PROVE  /\ Append(q, e) \in Seq(S)
         /\ Len(Append(q, e)) = Len(q) + 1
         /\ DOMAIN Append(q, e) = 1 .. Len(q) + 1
         /\ \A i \in 1 .. Len(q) : Append(q, e)[i] = q[i]
         /\ Append(q, e)[Len(q) + 1] = e
         /\ Elems(Append(q, e)) = Elems(q) \cup {e}
  <1>1. /\ Append(q, e) \in Seq(S)
        /\ Len(Append(q, e)) = Len(q) + 1
        /\ DOMAIN Append(q, e) = 1 .. Len(q) + 1
        /\ \A i \in 1 .. Len(q) : Append(q, e)[i] = q[i]
        /\ Append(q, e)[Len(q) + 1] = e
    OBVIOUS
  <1>2. Len(q) \in Nat /\ DOMAIN q = 1 .. Len(q)
    OBVIOUS
  <1>3. \A i \in DOMAIN Append(q, e) : i \in DOMAIN q \/ i = Len(q) + 1
    BY <1>1, <1>2
  <1>4. \A i \in DOMAIN q : i \in DOMAIN Append(q, e) /\ Append(q, e)[i] = q[i]
    BY <1>1, <1>2
  <1>5. Len(q) + 1 \in DOMAIN Append(q, e)
    BY <1>1, <1>2
  <1>6. Elems(Append(q, e)) = Elems(q) \cup {e}
    BY <1>1, <1>3, <1>4, <1>5 DEF Elems
  <1> QED BY <1>1, <1>6

\* Taking the head off a queue.
LEMMA TailFacts ==
  ASSUME NEW S, NEW q \in Seq(S), q # <<>>
  PROVE  /\ Tail(q) \in Seq(S) /\ Head(q) \in S /\ Head(q) = q[1]
         /\ 1 \in DOMAIN q
         /\ DOMAIN Tail(q) = 1 .. Len(q) - 1
         /\ \A i \in DOMAIN Tail(q) : i + 1 \in DOMAIN q /\ Tail(q)[i] = q[i + 1]
         /\ Elems(q) = Elems(Tail(q)) \cup {Head(q)}
  <1>1. /\ Tail(q) \in Seq(S) /\ Head(q) \in S /\ Head(q) = q[1]
        /\ Len(q) \in Nat \ {0} /\ DOMAIN q = 1 .. Len(q)
        /\ DOMAIN Tail(q) = 1 .. Len(q) - 1
        /\ \A i \in 1 .. Len(q) - 1 : Tail(q)[i] = q[i + 1]
    OBVIOUS
  <1>2. 1 \in DOMAIN q /\ \A i \in DOMAIN Tail(q) : i + 1 \in DOMAIN q
    BY <1>1
  <1>3. \A i \in DOMAIN q : i = 1 \/ (i - 1 \in DOMAIN Tail(q) /\ Tail(q)[i - 1] = q[i])
    BY <1>1
  <1>4. Elems(q) = Elems(Tail(q)) \cup {Head(q)}
    <2>1. \A i \in DOMAIN q : q[i] \in Elems(Tail(q)) \cup {Head(q)}
      BY <1>1, <1>3 DEF Elems
    <2>2. \A i \in DOMAIN Tail(q) : Tail(q)[i] \in Elems(q)
      BY <1>1, <1>2 DEF Elems
    <2>3. Head(q) \in Elems(q)
      BY <1>1, <1>2 DEF Elems
    <2> QED BY <2>1, <2>2, <2>3 DEF Elems
  <1> QED BY <1>1, <1>2, <1>4

\* Where the i-th entry was before the k-th one was unlinked.
Old(k, i) == IF i < k THEN i ELSE i + 1

\* Unlinking an entry from the middle of a queue.
LEMMA RemoveAtFacts ==
  ASSUME NEW S, NEW q \in Seq(S), NEW k \in DOMAIN q
  PROVE  /\ RemoveAt(q, k) \in Seq(S)
         /\ DOMAIN RemoveAt(q, k) = 1 .. Len(q) - 1
         /\ \A i \in DOMAIN RemoveAt(q, k) :
              /\ Old(k, i) \in DOMAIN q /\ Old(k, i) # k
              /\ RemoveAt(q, k)[i] = q[Old(k, i)]
         /\ \A o \in DOMAIN q : o # k =>
              \E i \in DOMAIN RemoveAt(q, k) : RemoveAt(q, k)[i] = q[o]
         /\ Elems(q) = Elems(RemoveAt(q, k)) \cup {q[k]}
         /\ q[k] \in S
  <1> DEFINE r == RemoveAt(q, k)
  <1> USE DEF Old
  <1>1. Len(q) \in Nat \ {0} /\ DOMAIN q = 1 .. Len(q) /\ k \in Int
        /\ \A i \in DOMAIN q : q[i] \in S
    OBVIOUS
  <1>2. r = [i \in 1 .. Len(q) - 1 |-> q[Old(k, i)]]
    BY DEF RemoveAt
  <1>3. \A i \in 1 .. Len(q) - 1 : Old(k, i) \in DOMAIN q /\ Old(k, i) # k
    BY <1>1
  <1>4. r \in [1 .. Len(q) - 1 -> S] /\ Len(q) - 1 \in Nat
    BY <1>1, <1>2, <1>3
  <1>5. r \in Seq(S) /\ DOMAIN r = 1 .. Len(q) - 1
    BY <1>4
  <1>6. \A i \in DOMAIN r : Old(k, i) \in DOMAIN q /\ Old(k, i) # k /\ r[i] = q[Old(k, i)]
    BY <1>2, <1>3, <1>5
  <1>7. \A o \in DOMAIN q : o # k => \E i \in DOMAIN r : Old(k, i) = o
    <2> SUFFICES ASSUME NEW o \in DOMAIN q, o # k
                 PROVE  \E i \in 1 .. Len(q) - 1 : Old(k, i) = o
      BY <1>5
    <2>1. CASE o < k
      BY <2>1, <1>1
    <2>2. CASE o > k
      <3>1. o - 1 \in 1 .. Len(q) - 1 /\ Old(k, o - 1) = o
        BY <2>2, <1>1
      <3> QED BY <3>1
    <2> QED BY <2>1, <2>2, <1>1
  <1>8. \A o \in DOMAIN q : o # k => \E i \in DOMAIN r : r[i] = q[o]
    BY <1>6, <1>7
  <1>9. Elems(q) = Elems(r) \cup {q[k]}
    BY <1>6, <1>8 DEF Elems
  <1> QED BY <1>1, <1>5, <1>6, <1>8, <1>9

\* A queue without duplicates stays so when a new element is pushed.
LEMMA PushDistinct ==
  ASSUME NEW S, NEW q \in Seq(S), NEW e \in S, NoDuplicates(q), e \notin Elems(q)
  PROVE  NoDuplicates(Append(q, e))
  <1>1. \A i \in DOMAIN q : q[i] # e
    BY DEF Elems
  <1>2. DOMAIN q = 1 .. Len(q) /\ Len(q) \in Nat
    OBVIOUS
  <1>3. \A i \in DOMAIN Append(q, e) :
          \/ i \in DOMAIN q /\ Append(q, e)[i] = q[i]
          \/ i = Len(q) + 1 /\ Append(q, e)[i] = e
    BY <1>2, AppendFacts
  <1> QED BY <1>1, <1>3 DEF NoDuplicates

\* Popping takes the head out for good.
LEMMA PopDistinct ==
  ASSUME NEW S, NEW q \in Seq(S), q # <<>>, NoDuplicates(q)
  PROVE  NoDuplicates(Tail(q)) /\ Head(q) \notin Elems(Tail(q))
  <1>1. /\ Head(q) = q[1] /\ 1 \in DOMAIN q
        /\ DOMAIN Tail(q) = 1 .. Len(q) - 1 /\ Len(q) \in Nat
        /\ \A i \in DOMAIN Tail(q) : i + 1 \in DOMAIN q /\ Tail(q)[i] = q[i + 1]
    BY TailFacts
  <1>2. \A i, j \in DOMAIN Tail(q) : Tail(q)[i] = Tail(q)[j] => i = j
    BY <1>1 DEF NoDuplicates
  <1>3. \A i \in DOMAIN Tail(q) : Tail(q)[i] # Head(q)
    BY <1>1 DEF NoDuplicates
  <1> QED BY <1>2, <1>3 DEF NoDuplicates, Elems

\* So does unlinking, wherever the entry was.
LEMMA RemoveDistinct ==
  ASSUME NEW S, NEW q \in Seq(S), NEW k \in DOMAIN q, NoDuplicates(q)
  PROVE  NoDuplicates(RemoveAt(q, k)) /\ q[k] \notin Elems(RemoveAt(q, k))
  <1> DEFINE r == RemoveAt(q, k)
  <1>1. /\ DOMAIN r = 1 .. Len(q) - 1 /\ Len(q) \in Nat /\ k \in Int
        /\ \A i \in DOMAIN r : Old(k, i) \in DOMAIN q /\ Old(k, i) # k /\ r[i] = q[Old(k, i)]
    <2>1. Len(q) \in Nat /\ k \in Int
      OBVIOUS
    <2> QED BY <2>1, RemoveAtFacts
  <1>2. \A i, j \in 1 .. Len(q) - 1 : Old(k, i) = Old(k, j) => i = j
    BY <1>1 DEF Old
  <1>3. \A i, j \in DOMAIN r : r[i] = r[j] => i = j
    <2> HIDE DEF r
    <2> QED BY <1>1, <1>2 DEF NoDuplicates
  <1>4. \A i \in DOMAIN r : r[i] # q[k]
    <2> HIDE DEF r
    <2> QED BY <1>1 DEF NoDuplicates
  <1> QED BY <1>3, <1>4 DEF NoDuplicates, Elems

----------------------------------------------------------------------------
(* The control state: the flags, the two threads and the event.            *)

\* The session thread is between start and stop.
Serving == {"idle", "notify", "requeue", "deliver"}

Control ==
  /\ initialized <=> caller # "done"
  /\ running <=> caller \in Serving
  /\ caller = "new" => worker = "none"
  /\ caller \in {"cancel", "stopped", "done"} => worker \in Gone
  /\ caller \in {"new", "stopped", "done"} => pending = <<>>

\* A URB reaches the device late only on the way from the test that found
\* the flag set to the next test.
LateOnce ==
  /\ late <= 1
  /\ late # 0 => ~running /\ worker \in {"push", "test", "exited"}

\* NoLostWakeup for the whole of the time since the pop that found nothing.
Wakeup ==
  worker \in {"park", "wait"} /\ pending # <<>> => signalled \/ caller = "notify"

ControlInv == TypeOK /\ Control /\ LateOnce /\ Wakeup

\* urb_handler_init establishes the control invariant.
LEMMA ControlInit == Init => ControlInv
  <1> SUFFICES ASSUME Init PROVE ControlInv
    OBVIOUS
  <1> USE DEF Init, urb_handler_init
  <1>1. /\ seqnum \in [Urbs -> Seqnums \cup {0}]
        /\ status \in [Urbs -> {"none", "ok", "EIO", "ECANCELED"}]
    BY DEF Urbs
  <1>2. pending \in Seq(Urbs) /\ completed \in Seq(Urbs)
    OBVIOUS
  <1>3. /\ created \in 0 .. MaxUrbs /\ current \in 0 .. MaxUrbs
        /\ moving \in 0 .. MaxUrbs /\ late \in Nat
    BY UrbAssumption
  <1>4. TypeOK
    BY <1>1, <1>2, <1>3, Zenon DEF TypeOK
  <1>5. Control /\ LateOnce /\ Wakeup
    BY DEF Control, LateOnce, Wakeup, Serving
  <1> QED BY <1>4, <1>5 DEF ControlInv

\* Each step of either thread keeps the control invariant.
LEMMA ControlStep == ControlInv /\ [Next]_vars => ControlInv'
  <1> SUFFICES ASSUME ControlInv, [Next]_vars PROVE ControlInv'
    OBVIOUS
  <1> USE UrbAssumption DEF ControlInv, Control, LateOnce, Wakeup, Serving, Gone,
          heap, flags, queues, sessionVars, workerVars, Urbs, queue_push,
          event_signal
  <1>1. CASE urb_handler_start
    BY <1>1 DEF urb_handler_start, TypeOK
  <1>2. CASE StartFails
    BY <1>2 DEF StartFails, TypeOK
  <1>3. CASE SubmitSignal
    BY <1>3 DEF SubmitSignal, TypeOK
  <1>4. CASE urb_handler_free_entry
    BY <1>4 DEF urb_handler_free_entry, TypeOK
  <1>5. CASE urb_handler_stop
    BY <1>5 DEF urb_handler_stop, TypeOK
  <1>6. CASE StopSignal
    BY <1>6 DEF StopSignal, TypeOK
  <1>7. CASE StopJoin
    BY <1>7 DEF StopJoin, TypeOK
  <1>8. CASE CancelDone
    BY <1>8 DEF CancelDone, TypeOK
  <1>9. CASE WorkerTest
    BY <1>9 DEF WorkerTest, TypeOK
  <1>10. CASE WorkerPark
    BY <1>10 DEF WorkerPark, TypeOK
  <1>11. CASE WorkerWake
    BY <1>11 DEF WorkerWake, TypeOK
  <1>12. CASE WorkerTimeout
    BY <1>12 DEF WorkerTimeout, TypeOK
  <1>13. CASE WorkerWaitFailed
    BY <1>13 DEF WorkerWaitFailed, TypeOK
  <1>14. CASE WorkerExecute
    BY <1>14 DEF WorkerExecute, TypeOK
  <1>15. ASSUME NEW s \in Seqnums, urb_handler_submit(s) PROVE ControlInv'
    BY <1>15, AppendFacts DEF urb_handler_submit, TypeOK
  <1>16. ASSUME NEW s \in Seqnums, urb_handler_unlink(s) PROVE ControlInv'
    BY <1>16, RemoveAtFacts DEF urb_handler_unlink, TypeOK
  <1>17. CASE UnlinkRequeue
    BY <1>17, AppendFacts DEF UnlinkRequeue, TypeOK
  <1>18. CASE urb_handler_get_completed
    BY <1>18, TailFacts DEF urb_handler_get_completed, TypeOK
  <1>19. CASE urb_handler_cancel_all
    BY <1>19, TailFacts, AppendFacts DEF urb_handler_cancel_all, TypeOK
  <1>20. CASE urb_handler_cleanup
    <2>1. Elems(pending) \subseteq Urbs /\ Elems(completed) \subseteq Urbs
      BY DEF TypeOK, Elems
    <2> QED BY <1>20, <2>1 DEF urb_handler_cleanup, TypeOK
  <1>21. CASE WorkerPop
    <2>1. CASE pending = <<>>
      BY <1>21, <2>1 DEF WorkerPop, TypeOK
    <2>2. CASE pending # <<>>
      <3>1. Head(pending) \in Urbs /\ Tail(pending) \in Seq(Urbs)
        BY <2>2, TailFacts DEF TypeOK
      <3>2. current' \in Urbs /\ pending' \in Seq(Urbs) /\ worker' = "exec"
        BY <1>21, <2>2, <3>1 DEF WorkerPop
      <3>3. UNCHANGED <<created, seqnum, freed, running, initialized, caller,
                        moving, status, completed, signalled, executed, late>>
        BY <1>21 DEF WorkerPop
      <3>4. TypeOK'
        BY <3>2, <3>3 DEF TypeOK
      <3>5. caller' = caller /\ caller \notin {"new", "cancel", "stopped", "done"}
        BY <1>21, <2>2 DEF WorkerPop
      <3>6. Control' /\ LateOnce' /\ Wakeup'
        BY <1>21, <2>2, <3>5 DEF WorkerPop
      <3> QED BY <3>4, <3>6
    <2> QED BY <2>1, <2>2
  <1>22. CASE WorkerPush
    BY <1>22, AppendFacts DEF WorkerPush, TypeOK
  <1>23. CASE UNCHANGED vars
    BY <1>23 DEF vars, TypeOK
  <1> QED BY <1>1, <1>2, <1>3, <1>4, <1>5, <1>6, <1>7, <1>8, <1>9, <1>10, <1>11, <1>12, <1>13, <1>14, <1>15, <1>16, <1>17, <1>18, <1>19, <1>20, <1>21, <1>22, <1>23
     DEF Next, SessionStep, WorkerStep, Finished

\* The control invariant holds in every state.
THEOREM ControlCorrect == Spec => []ControlInv
  BY ControlInit, ControlStep, PTL DEF Spec

\* Every variable stays in its range and no cleared pointer is ever queued,
\* executed or freed.
THEOREM TypeCorrect == Spec => []TypeOK
  BY ControlCorrect, PTL DEF ControlInv

\* Once urb_handler_stop has returned, the worker is gone and nothing is
\* pending: the device and the queues can be destroyed.
THEOREM StopIsComplete == Spec => []StoppedIsQuiet
  <1>1. ControlInv => StoppedIsQuiet
    BY DEF ControlInv, Control, TypeOK, StoppedIsQuiet, Gone
  <1> QED BY <1>1, ControlCorrect, PTL

\* Stopping lets at most one more URB reach the device.
THEOREM StopIsPrompt == Spec => []AtMostOneLate
  <1>1. ControlInv => AtMostOneLate
    BY DEF ControlInv, LateOnce, AtMostOneLate
  <1> QED BY <1>1, ControlCorrect, PTL

\* No wakeup is lost between queue_push's unlock and its event_signal, or
\* between the worker's empty pop and its wait.
THEOREM WakeupNotLost == Spec => []NoLostWakeup
  <1>1. ControlInv => NoLostWakeup
    BY DEF ControlInv, Wakeup, NoLostWakeup
  <1> QED BY <1>1, ControlCorrect, PTL

----------------------------------------------------------------------------
(* No URB is lost, duplicated, leaked or used after free.                  *)

\* A fresh handler holds no URB.
LEMMA AccountedInit == Init => EveryUrbAccounted
  BY DEF Init, urb_handler_init, EveryUrbAccounted, Elems, InHand, Disjoint,
     NoDuplicates

\* Each step moves at most one entry from one place to another.
LEMMA AccountedStep ==
  ControlInv /\ EveryUrbAccounted /\ [Next]_vars => EveryUrbAccounted'
  <1> SUFFICES ASSUME ControlInv, EveryUrbAccounted, [Next]_vars
               PROVE  EveryUrbAccounted'
    OBVIOUS
  <1>a. /\ pending \in Seq(Urbs) /\ completed \in Seq(Urbs)
        /\ created \in 0 .. MaxUrbs
        /\ current # 0 <=> worker \in {"exec", "push"}
        /\ moving # 0 <=> caller \in {"requeue", "deliver"}
        /\ current \in 0 .. MaxUrbs /\ moving \in 0 .. MaxUrbs
    BY DEF ControlInv, TypeOK
  <1>b. NoDuplicates(pending) /\ NoDuplicates(completed)
    BY DEF EveryUrbAccounted
  <1> USE DEF heap, flags, queues, sessionVars, workerVars, InHand, Disjoint
  <1>1. CASE UNCHANGED <<created, pending, completed, freed, current, moving>>
    BY <1>1 DEF EveryUrbAccounted, Elems, NoDuplicates
  <1>2. ASSUME NEW s \in Seqnums, urb_handler_submit(s)
        PROVE  EveryUrbAccounted'
    <2>1. /\ created + 1 \in Urbs /\ created' = created + 1
          /\ pending' = Append(pending, created + 1)
          /\ UNCHANGED <<completed, freed, current, moving>>
      BY <1>2, <1>a, UrbAssumption DEF urb_handler_submit, queue_push, Urbs
    <2>2. /\ 1 .. created' = (1 .. created) \cup {created + 1}
          /\ created + 1 \notin 1 .. created
      BY <2>1, <1>a
    <2>3. created + 1 \notin Elems(pending)
      BY <2>2 DEF EveryUrbAccounted
    <2>4. Elems(pending') = Elems(pending) \cup {created + 1} /\ NoDuplicates(pending')
      BY <2>1, <2>3, <1>a, <1>b, AppendFacts, PushDistinct
    <2> QED BY <2>1, <2>2, <2>4 DEF EveryUrbAccounted
  <1>3. ASSUME NEW s \in Seqnums, urb_handler_unlink(s)
        PROVE  EveryUrbAccounted'
    <2>1. PICK i \in DOMAIN pending :
            pending' = RemoveAt(pending, i) /\ moving' = pending[i]
      BY <1>3 DEF urb_handler_unlink
    <2>2. moving = 0 /\ UNCHANGED <<created, completed, freed, current>>
      BY <1>3, <1>a DEF urb_handler_unlink
    <2>3. /\ Elems(pending) = Elems(pending') \cup {moving'}
          /\ moving' \in Urbs
      BY <2>1, <1>a, RemoveAtFacts
    <2>4. NoDuplicates(pending') /\ moving' \notin Elems(pending')
      BY <2>1, <1>a, <1>b, RemoveDistinct
    <2>5. moving' # 0
      BY <2>3 DEF Urbs
    <2> QED BY <2>2, <2>3, <2>4, <2>5 DEF EveryUrbAccounted
  <1>4. CASE UnlinkRequeue
    <2>1. /\ completed' = Append(completed, moving) /\ moving' = 0
          /\ moving \in Urbs /\ moving # 0
          /\ UNCHANGED <<created, pending, freed, current>>
      BY <1>4, <1>a DEF UnlinkRequeue, queue_push, Urbs
    <2>2. moving \notin Elems(completed)
      BY <2>1 DEF EveryUrbAccounted
    <2>3. Elems(completed') = Elems(completed) \cup {moving} /\ NoDuplicates(completed')
      BY <2>1, <2>2, <1>a, <1>b, AppendFacts, PushDistinct
    <2> QED BY <2>1, <2>3 DEF EveryUrbAccounted
  <1>5. CASE urb_handler_get_completed
    <2>1. /\ completed # <<>> /\ completed' = Tail(completed)
          /\ moving' = Head(completed) /\ moving = 0
          /\ UNCHANGED <<created, pending, freed, current>>
      BY <1>5, <1>a DEF urb_handler_get_completed
    <2>2. /\ Elems(completed) = Elems(completed') \cup {moving'}
          /\ moving' \in Urbs
      BY <2>1, <1>a, TailFacts
    <2>3. NoDuplicates(completed') /\ moving' \notin Elems(completed')
      BY <2>1, <1>a, <1>b, PopDistinct
    <2>4. moving' # 0
      BY <2>2 DEF Urbs
    <2> QED BY <2>1, <2>2, <2>3, <2>4 DEF EveryUrbAccounted
  <1>6. CASE urb_handler_free_entry
    <2>1. /\ freed' = freed \cup {moving} /\ moving' = 0 /\ moving # 0
          /\ UNCHANGED <<created, pending, completed, current>>
      BY <1>6, <1>a DEF urb_handler_free_entry
    <2> QED BY <2>1 DEF EveryUrbAccounted
  <1>7. CASE urb_handler_cancel_all
    <2>1. /\ pending # <<>> /\ pending' = Tail(pending)
          /\ completed' = Append(completed, Head(pending))
          /\ UNCHANGED <<created, freed, current, moving>>
      BY <1>7 DEF urb_handler_cancel_all, queue_push
    <2>2. /\ Elems(pending) = Elems(pending') \cup {Head(pending)}
          /\ Head(pending) \in Urbs
      BY <2>1, <1>a, TailFacts
    <2>3. NoDuplicates(pending') /\ Head(pending) \notin Elems(pending')
      BY <2>1, <1>a, <1>b, PopDistinct
    <2>4. Head(pending) \notin Elems(completed)
      BY <2>2 DEF EveryUrbAccounted
    <2>5. /\ Elems(completed') = Elems(completed) \cup {Head(pending)}
          /\ NoDuplicates(completed')
      BY <2>1, <2>2, <2>4, <1>a, <1>b, AppendFacts, PushDistinct
    <2> QED BY <2>1, <2>2, <2>3, <2>5 DEF EveryUrbAccounted
  <1>8. CASE urb_handler_cleanup
    <2>1. /\ freed' = freed \cup Elems(pending) \cup Elems(completed)
          /\ pending' = <<>> /\ completed' = <<>>
          /\ UNCHANGED <<created, current, moving>>
          /\ caller = "stopped"
      BY <1>8 DEF urb_handler_cleanup
    <2>2. current = 0 /\ moving = 0
      BY <2>1, <1>a DEF ControlInv, Control, Gone
    <2>3. /\ Elems(pending') = {} /\ Elems(completed') = {}
          /\ NoDuplicates(pending') /\ NoDuplicates(completed')
      BY <2>1 DEF Elems, NoDuplicates
    <2> QED BY <2>1, <2>2, <2>3 DEF EveryUrbAccounted
  <1>9. CASE WorkerPop
    <2>1. CASE pending = <<>>
      BY <1>9, <2>1, <1>1 DEF WorkerPop
    <2>2. CASE pending # <<>>
      <3>1. /\ pending' = Tail(pending) /\ current' = Head(pending) /\ current = 0
            /\ UNCHANGED <<created, completed, freed, moving>>
        BY <1>9, <2>2, <1>a DEF WorkerPop
      <3>2. /\ Elems(pending) = Elems(pending') \cup {current'}
            /\ current' \in Urbs
        BY <3>1, <2>2, <1>a, TailFacts
      <3>3. NoDuplicates(pending') /\ current' \notin Elems(pending')
        BY <3>1, <2>2, <1>a, <1>b, PopDistinct
      <3>4. current' # 0
        BY <3>2 DEF Urbs
      <3> QED BY <3>1, <3>2, <3>3, <3>4 DEF EveryUrbAccounted
    <2> QED BY <2>1, <2>2
  <1>10. CASE WorkerPush
    <2>1. /\ completed' = Append(completed, current) /\ current' = 0
          /\ current \in Urbs /\ current # 0
          /\ UNCHANGED <<created, pending, freed, moving>>
      BY <1>10, <1>a DEF WorkerPush, queue_push, Urbs
    <2>2. current \notin Elems(completed)
      BY <2>1 DEF EveryUrbAccounted
    <2>3. /\ Elems(completed') = Elems(completed) \cup {current}
          /\ NoDuplicates(completed')
      BY <2>1, <2>2, <1>a, <1>b, AppendFacts, PushDistinct
    <2> QED BY <2>1, <2>3 DEF EveryUrbAccounted
  <1>11. CASE \/ urb_handler_start \/ StartFails \/ SubmitSignal
              \/ urb_handler_stop \/ StopSignal \/ StopJoin \/ CancelDone
              \/ WorkerTest \/ WorkerPark \/ WorkerWake \/ WorkerTimeout
              \/ WorkerWaitFailed \/ WorkerExecute \/ UNCHANGED vars
    BY <1>11, <1>1 DEF urb_handler_start, StartFails, SubmitSignal,
       urb_handler_stop, StopSignal, StopJoin, CancelDone, WorkerTest,
       WorkerPark, WorkerWake, WorkerTimeout, WorkerWaitFailed, WorkerExecute,
       vars
  <1> QED BY <1>2, <1>3, <1>4, <1>5, <1>6, <1>7, <1>8, <1>9, <1>10, <1>11
     DEF Next, SessionStep, WorkerStep, Finished

\* Each URB ever allocated is in exactly one place, and in a queue only once.
THEOREM UrbsAccounted == Spec => []EveryUrbAccounted
  BY AccountedInit, AccountedStep, ControlCorrect, PTL DEF Spec

----------------------------------------------------------------------------
(* The outcome of a URB.                                                   *)

\* The entries whose fate is open: not yet allocated, pending, or in the
\* worker's hand on their way to the device.
Undecided(e) ==
  \/ e > created
  \/ e \in Elems(pending)
  \/ worker = "exec" /\ e = current

OutcomeInv ==
  \A e \in Urbs : /\ status[e] = "none" <=> Undecided(e)
                  /\ e \in executed <=> Ran(e)

\* A fresh handler has decided nothing.
LEMMA OutcomeInit == Init => OutcomeInv
  BY UrbAssumption DEF Init, urb_handler_init, OutcomeInv, Undecided, Ran, Urbs, Elems

\* Each step keeps the two ends together: an entry is decided exactly when it
\* leaves the pending side, and executed exactly when its status says so.
LEMMA OutcomeStep ==
  ControlInv /\ EveryUrbAccounted /\ OutcomeInv /\ [Next]_vars => OutcomeInv'
  <1> SUFFICES ASSUME ControlInv, EveryUrbAccounted, OutcomeInv, [Next]_vars
               PROVE  OutcomeInv'
    OBVIOUS
  <1>a. /\ pending \in Seq(Urbs) /\ created \in 0 .. MaxUrbs
        /\ status \in [Urbs -> {"none", "ok", "EIO", "ECANCELED"}]
        /\ current # 0 <=> worker \in {"exec", "push"}
        /\ current \in 0 .. MaxUrbs
        /\ executed \in SUBSET Urbs
    BY DEF ControlInv, TypeOK
  <1>b. NoDuplicates(pending)
    BY DEF EveryUrbAccounted
  <1>c. \A e \in Elems(pending) : e \in 1 .. created /\ (current # 0 => e # current)
    BY DEF EveryUrbAccounted, InHand
  <1>d. current # 0 => current \in 1 .. created
    BY DEF EveryUrbAccounted, InHand
  <1> USE DEF heap, flags, queues, sessionVars, workerVars, Ran
  <1>1. CASE /\ UNCHANGED <<created, pending, status, executed, current>>
             /\ (worker' = "exec") = (worker = "exec")
    BY <1>1 DEF OutcomeInv, Undecided
  <1>2. ASSUME NEW s \in Seqnums, urb_handler_submit(s) PROVE OutcomeInv'
    <2>1. /\ created + 1 \in Urbs /\ created' = created + 1
          /\ pending' = Append(pending, created + 1)
          /\ UNCHANGED <<status, executed, current, worker>>
      BY <1>2, <1>a, UrbAssumption DEF urb_handler_submit, queue_push, Urbs
    <2>2. Elems(pending') = Elems(pending) \cup {created + 1}
      BY <2>1, <1>a, AppendFacts
    <2>3. \A e \in Urbs : Undecided(e)' <=> Undecided(e)
      BY <2>1, <2>2, <1>a DEF Undecided, Urbs
    <2> QED BY <2>1, <2>3 DEF OutcomeInv
  <1>3. ASSUME NEW s \in Seqnums, urb_handler_unlink(s) PROVE OutcomeInv'
    <2>1. PICK i \in DOMAIN pending :
            /\ pending' = RemoveAt(pending, i)
            /\ status' = [status EXCEPT ![pending[i]] = "ECANCELED"]
      BY <1>3 DEF urb_handler_unlink
    <2>2. UNCHANGED <<created, executed, current, worker>>
      BY <1>3 DEF urb_handler_unlink
    <2>3. /\ Elems(pending) = Elems(pending') \cup {pending[i]}
          /\ pending[i] \in Urbs
      BY <2>1, <1>a, RemoveAtFacts
    <2>4. pending[i] \notin Elems(pending')
      BY <2>1, <1>a, <1>b, RemoveDistinct
    <2>5. \A e \in Urbs : Undecided(e)' <=> Undecided(e) /\ e # pending[i]
      BY <2>2, <2>3, <2>4, <1>a, <1>c DEF Undecided
    <2>6. status[pending[i]] = "none"
      BY <2>3 DEF OutcomeInv, Undecided
    <2>7. \A e \in Urbs : status'[e] = IF e = pending[i] THEN "ECANCELED" ELSE status[e]
      BY <2>1, <1>a
    <2> QED BY <2>2, <2>3, <2>5, <2>6, <2>7 DEF OutcomeInv
  <1>4. CASE urb_handler_cancel_all
    <2> DEFINE h == Head(pending)
    <2>1. /\ pending # <<>> /\ pending' = Tail(pending)
          /\ status' = [status EXCEPT ![h] = "ECANCELED"]
          /\ UNCHANGED <<created, executed, current, worker>>
      BY <1>4 DEF urb_handler_cancel_all
    <2>2. Elems(pending) = Elems(pending') \cup {h} /\ h \in Urbs
      BY <2>1, <1>a, TailFacts
    <2>3. h \notin Elems(pending')
      BY <2>1, <1>a, <1>b, PopDistinct
    <2> HIDE DEF h
    <2>4. \A e \in Urbs : Undecided(e)' <=> Undecided(e) /\ e # h
      BY <2>1, <2>2, <2>3, <1>a, <1>c DEF Undecided
    <2>5. status[h] = "none"
      BY <2>2 DEF OutcomeInv, Undecided
    <2>6. \A e \in Urbs : status'[e] = IF e = h THEN "ECANCELED" ELSE status[e]
      BY <2>1, <1>a
    <2> QED BY <2>1, <2>2, <2>4, <2>5, <2>6 DEF OutcomeInv
  <1>5. CASE urb_handler_cleanup
    <2>1. /\ pending = <<>> /\ pending' = pending
          /\ UNCHANGED <<created, status, executed, current, worker>>
      BY <1>5 DEF urb_handler_cleanup, ControlInv, Control
    <2> QED BY <2>1, <1>1
  <1>6. CASE WorkerPop
    <2>1. CASE pending = <<>>
      BY <1>6, <2>1, <1>1 DEF WorkerPop
    <2>2. CASE pending # <<>>
      <3>1. /\ pending' = Tail(pending) /\ current' = Head(pending)
            /\ worker' = "exec" /\ worker # "exec"
            /\ UNCHANGED <<created, status, executed>>
        BY <1>6, <2>2 DEF WorkerPop
      <3>2. Elems(pending) = Elems(pending') \cup {current'}
        BY <3>1, <2>2, <1>a, TailFacts
      <3>3. \A e \in Urbs : Undecided(e)' <=> Undecided(e)
        BY <3>1, <3>2 DEF Undecided
      <3> QED BY <3>1, <3>3 DEF OutcomeInv
    <2> QED BY <2>1, <2>2
  <1>7. CASE WorkerExecute
    <2>1. PICK st \in {"ok", "EIO"} : status' = [status EXCEPT ![current] = st]
      BY <1>7 DEF WorkerExecute
    <2>2. /\ worker = "exec" /\ worker' = "push"
          /\ executed' = executed \cup {current}
          /\ UNCHANGED <<created, pending, current>>
      BY <1>7 DEF WorkerExecute
    <2>3. current \in Urbs
      BY <2>2, <1>a DEF Urbs
    <2>4. \A e \in Urbs : Undecided(e)' <=> Undecided(e) /\ e # current
      BY <2>2, <1>a, <1>c, <1>d DEF Undecided
    <2>5. \A e \in Urbs : status'[e] = IF e = current THEN st ELSE status[e]
      BY <2>1, <1>a
    <2> QED BY <2>2, <2>3, <2>4, <2>5 DEF OutcomeInv
  <1>8. CASE WorkerPush
    <2>1. /\ worker = "push" /\ worker' = "test"
          /\ UNCHANGED <<created, pending, status, executed>>
      BY <1>8 DEF WorkerPush
    <2> QED BY <2>1 DEF OutcomeInv, Undecided
  <1>9. CASE \/ urb_handler_start \/ StartFails \/ SubmitSignal \/ UnlinkRequeue
             \/ urb_handler_get_completed \/ urb_handler_free_entry
             \/ urb_handler_stop \/ StopSignal \/ StopJoin \/ CancelDone
             \/ WorkerTest \/ WorkerPark \/ WorkerWake \/ WorkerTimeout
             \/ WorkerWaitFailed \/ UNCHANGED vars
    <2>1. UNCHANGED <<created, pending, status, executed, current>>
      BY <1>9 DEF urb_handler_start, StartFails, SubmitSignal, UnlinkRequeue,
         urb_handler_get_completed, urb_handler_free_entry, urb_handler_stop,
         StopSignal, StopJoin, CancelDone, WorkerTest, WorkerPark, WorkerWake,
         WorkerTimeout, WorkerWaitFailed, vars
    <2>2. (worker' = "exec") = (worker = "exec")
      BY <1>9 DEF urb_handler_start, StartFails, SubmitSignal, UnlinkRequeue,
         urb_handler_get_completed, urb_handler_free_entry, urb_handler_stop,
         StopSignal, StopJoin, CancelDone, WorkerTest, WorkerPark, WorkerWake,
         WorkerTimeout, WorkerWaitFailed, vars, ControlInv, Control
    <2> QED BY <2>1, <2>2, <1>1
  <1> QED BY <1>2, <1>3, <1>4, <1>5, <1>6, <1>7, <1>8, <1>9
     DEF Next, SessionStep, WorkerStep, Finished

\* Which URBs are decided, and that the device has seen exactly those whose
\* status says so.
THEOREM OutcomeCorrect == Spec => []OutcomeInv
  BY OutcomeInit, OutcomeStep, ControlCorrect, UrbsAccounted, PTL DEF Spec

\* A URB reported cancelled never reached the device; one reported done or
\* failed did.
THEOREM StatusIsTruthful == Spec => []StatusTruthful
  <1>1. OutcomeInv => StatusTruthful
    BY DEF OutcomeInv, StatusTruthful, Ran
  <1> QED BY <1>1, OutcomeCorrect, PTL

\* Only an undecided entry gets a status.
LEMMA DecidedStays ==
  ASSUME ControlInv, OutcomeInv, [Next]_vars
  PROVE  \A e \in Urbs : status[e] # "none" => status'[e] = status[e]
  <1>a. /\ pending \in Seq(Urbs)
        /\ status \in [Urbs -> {"none", "ok", "EIO", "ECANCELED"}]
        /\ current # 0 <=> worker \in {"exec", "push"}
        /\ current \in 0 .. MaxUrbs
    BY DEF ControlInv, TypeOK
  <1> USE DEF heap, flags, queues, sessionVars, workerVars
  <1>1. CASE UNCHANGED status
    BY <1>1
  <1>2. ASSUME NEW x \in Urbs, NEW st, status[x] = "none",
               status' = [status EXCEPT ![x] = st]
        PROVE  \A e \in Urbs : status[e] # "none" => status'[e] = status[e]
    BY <1>2, <1>a
  <1>3. ASSUME NEW s \in Seqnums, urb_handler_unlink(s)
        PROVE  \A e \in Urbs : status[e] # "none" => status'[e] = status[e]
    <2>1. PICK i \in DOMAIN pending :
            status' = [status EXCEPT ![pending[i]] = "ECANCELED"]
      BY <1>3 DEF urb_handler_unlink
    <2>2. pending[i] \in Urbs /\ status[pending[i]] = "none"
      BY <1>a DEF OutcomeInv, Undecided, Elems
    <2> QED BY <2>1, <2>2, <1>2
  <1>4. CASE urb_handler_cancel_all
    <2>1. Head(pending) \in Urbs /\ Head(pending) \in Elems(pending)
      BY <1>4, <1>a, TailFacts DEF urb_handler_cancel_all
    <2>2. status[Head(pending)] = "none"
      BY <2>1 DEF OutcomeInv, Undecided
    <2> QED BY <1>4, <2>1, <2>2, <1>2 DEF urb_handler_cancel_all
  <1>5. CASE WorkerExecute
    <2>1. current \in Urbs /\ status[current] = "none"
      BY <1>5, <1>a DEF WorkerExecute, OutcomeInv, Undecided, Urbs
    <2> QED BY <1>5, <2>1, <1>2 DEF WorkerExecute
  <1>6. ASSUME NEW s \in Seqnums, urb_handler_submit(s)
        PROVE  UNCHANGED status
    BY <1>6 DEF urb_handler_submit
  <1>7. CASE \/ urb_handler_start \/ StartFails \/ SubmitSignal \/ UnlinkRequeue
             \/ urb_handler_get_completed \/ urb_handler_free_entry
             \/ urb_handler_stop \/ StopSignal \/ StopJoin \/ CancelDone
             \/ urb_handler_cleanup
             \/ WorkerTest \/ WorkerPop \/ WorkerPark \/ WorkerWake
             \/ WorkerTimeout \/ WorkerWaitFailed \/ WorkerPush
             \/ UNCHANGED vars
    BY <1>7, <1>1 DEF urb_handler_start, StartFails, SubmitSignal, UnlinkRequeue,
       urb_handler_get_completed, urb_handler_free_entry, urb_handler_stop,
       StopSignal, StopJoin, CancelDone, urb_handler_cleanup, WorkerTest,
       WorkerPop, WorkerPark, WorkerWake, WorkerTimeout, WorkerWaitFailed,
       WorkerPush, vars
  <1> QED BY <1>1, <1>3, <1>4, <1>5, <1>6, <1>7
     DEF Next, SessionStep, WorkerStep, Finished

\* An outcome, once decided, never changes: no unlinked URB is executed and
\* no executed one is turned into a cancelled one, whatever the interleaving.
THEOREM OutcomeIsFinal == Spec => OutcomeDecidedOnce
  <1>1. ControlInv /\ OutcomeInv /\ [Next]_vars =>
          [\A e \in Urbs : status[e] # "none" => status'[e] = status[e]]_vars
    BY DecidedStays
  <1> QED BY <1>1, ControlCorrect, OutcomeCorrect, PTL DEF Spec, OutcomeDecidedOnce

----------------------------------------------------------------------------
(* The order of transfers.                                                 *)

\* The three parts of SubmissionOrder: the pending queue, the device, the
\* completed queue and the entry taken from it.
PendingOrder ==
  /\ \A i, j \in DOMAIN pending : i < j => pending[i] < pending[j]
  /\ current # 0 => \A e \in Elems(pending) : current < e

DeviceOrder ==
  \A d \in executed : /\ \A e \in Elems(pending) : d < e
                      /\ current # 0 => d <= current

RanSorted(q) ==
  \A i, j \in DOMAIN q : i < j /\ Ran(q[i]) /\ Ran(q[j]) => q[i] < q[j]

CompletedOrder ==
  /\ RanSorted(completed)
  /\ caller = "deliver" /\ Ran(moving) =>
       \A i \in DOMAIN completed : Ran(completed[i]) => moving < completed[i]

\* The order property is the conjunction of its three parts.
LEMMA OrderSplit == SubmissionOrder <=> PendingOrder /\ DeviceOrder /\ CompletedOrder
  BY DEF SubmissionOrder, PendingOrder, DeviceOrder, CompletedOrder, RanSorted

\* Empty queues are in order.
LEMMA OrderInit == Init => PendingOrder /\ DeviceOrder /\ CompletedOrder
  BY DEF Init, urb_handler_init, PendingOrder, DeviceOrder, CompletedOrder,
     RanSorted, Elems

\* The head of a sorted queue is its least element.
LEMMA SortedTail ==
  ASSUME NEW q \in Seq(Urbs), q # <<>>,
         \A i, j \in DOMAIN q : i < j => q[i] < q[j]
  PROVE  /\ \A i, j \in DOMAIN Tail(q) : i < j => Tail(q)[i] < Tail(q)[j]
         /\ \A e \in Elems(Tail(q)) : Head(q) < e
  <1>1. /\ Head(q) = q[1] /\ 1 \in DOMAIN q
        /\ DOMAIN Tail(q) = 1 .. Len(q) - 1 /\ Len(q) \in Nat
        /\ \A i \in DOMAIN Tail(q) : i + 1 \in DOMAIN q /\ Tail(q)[i] = q[i + 1]
    BY TailFacts
  <1>2. \A i, j \in DOMAIN Tail(q) : i < j => Tail(q)[i] < Tail(q)[j]
    <2> SUFFICES ASSUME NEW i \in DOMAIN Tail(q), NEW j \in DOMAIN Tail(q), i < j
                 PROVE  q[i + 1] < q[j + 1]
      BY <1>1
    <2>1. i + 1 \in DOMAIN q /\ j + 1 \in DOMAIN q /\ i + 1 < j + 1
      BY <1>1
    <2> QED BY <2>1
  <1>3. \A i \in DOMAIN Tail(q) : Head(q) < Tail(q)[i]
    <2> SUFFICES ASSUME NEW i \in DOMAIN Tail(q) PROVE q[1] < q[i + 1]
      BY <1>1
    <2>1. i + 1 \in DOMAIN q /\ 1 < i + 1
      BY <1>1
    <2> QED BY <2>1, <1>1
  <1> QED BY <1>2, <1>3 DEF Elems

\* Unlinking keeps a sorted queue sorted.
LEMMA SortedRemove ==
  ASSUME NEW q \in Seq(Urbs), NEW k \in DOMAIN q,
         \A i, j \in DOMAIN q : i < j => q[i] < q[j]
  PROVE  \A i, j \in DOMAIN RemoveAt(q, k) :
           i < j => RemoveAt(q, k)[i] < RemoveAt(q, k)[j]
  <1> DEFINE r == RemoveAt(q, k)
  <1>1. /\ DOMAIN r = 1 .. Len(q) - 1
        /\ \A i \in DOMAIN r : Old(k, i) \in DOMAIN q /\ r[i] = q[Old(k, i)]
    BY RemoveAtFacts
  <1>2. Len(q) \in Nat /\ k \in Int
    OBVIOUS
  <1>3. \A i, j \in 1 .. Len(q) - 1 : i < j => Old(k, i) < Old(k, j)
    BY <1>2 DEF Old
  <1> HIDE DEF r
  <1>4. \A i, j \in DOMAIN r : i < j => r[i] < r[j]
    BY <1>1, <1>3
  <1> QED BY <1>4 DEF r

\* What is in a queue, in a hand or executed has been allocated.
LEMMA Allocated ==
  ASSUME ControlInv, EveryUrbAccounted, OutcomeInv
  PROVE  /\ created \in 0 .. MaxUrbs /\ created \in Nat
         /\ \A e \in Elems(pending) \cup executed : e \in Urbs /\ e \in 1 .. created
         /\ current # 0 => current \in Urbs /\ current \in 1 .. created
  <1>1. created \in 0 .. MaxUrbs /\ created \in Nat /\ executed \in SUBSET Urbs
    BY UrbAssumption DEF ControlInv, TypeOK
  <1>2. \A e \in 1 .. created : e \in Urbs
    BY <1>1, UrbAssumption DEF Urbs
  <1>3. \A e \in executed : ~(e > created)
    BY <1>1 DEF OutcomeInv, Undecided, Ran
  <1>4. \A e \in executed : e \in 1 .. created
    BY <1>1, <1>3, UrbAssumption DEF Urbs
  <1>5. \A e \in Elems(pending) \cup InHand(current) : e \in 1 .. created
    BY DEF EveryUrbAccounted
  <1> QED BY <1>1, <1>2, <1>4, <1>5 DEF InHand

\* The pending queue stays sorted: entries are pushed in allocation order.
LEMMA PendingOrderStep ==
  ASSUME ControlInv, EveryUrbAccounted, OutcomeInv, PendingOrder, [Next]_vars
  PROVE  PendingOrder'
  <1>a. /\ pending \in Seq(Urbs)
        /\ current # 0 <=> worker \in {"exec", "push"}
    BY DEF ControlInv, TypeOK
  <1> USE DEF heap, flags, queues, sessionVars, workerVars
  <1>1. CASE UNCHANGED <<pending, current>>
    BY <1>1 DEF PendingOrder, Elems
  <1>2. ASSUME NEW s \in Seqnums, urb_handler_submit(s) PROVE PendingOrder'
    <2>1. /\ pending' = Append(pending, created + 1) /\ current' = current
          /\ created + 1 \in Urbs
      BY <1>2, Allocated, UrbAssumption DEF urb_handler_submit, queue_push, Urbs
    <2>2. /\ Elems(pending') = Elems(pending) \cup {created + 1}
          /\ DOMAIN pending' = 1 .. Len(pending) + 1
          /\ pending'[Len(pending) + 1] = created + 1
          /\ \A i \in 1 .. Len(pending) : pending'[i] = pending[i]
      BY <2>1, <1>a, AppendFacts
    <2>3. Len(pending) \in Nat /\ DOMAIN pending = 1 .. Len(pending)
      BY <1>a
    <2>4. \A i \in DOMAIN pending : pending[i] < created + 1
      BY Allocated DEF Elems
    <2>5. ASSUME NEW i \in DOMAIN pending', NEW j \in DOMAIN pending', i < j
          PROVE  pending'[i] < pending'[j]
      <3>1. i \in DOMAIN pending /\ pending'[i] = pending[i]
        BY <2>2, <2>3, <2>5
      <3>2. CASE j = Len(pending) + 1
        BY <3>1, <3>2, <2>2, <2>4
      <3>3. CASE j \in DOMAIN pending
        BY <3>1, <3>3, <2>2, <2>3, <2>5 DEF PendingOrder
      <3> QED BY <3>2, <3>3, <2>2, <2>3
    <2>6. current # 0 => current < created + 1
      BY Allocated
    <2> QED BY <2>1, <2>2, <2>5, <2>6 DEF PendingOrder
  <1>3. ASSUME NEW s \in Seqnums, urb_handler_unlink(s) PROVE PendingOrder'
    <2>1. PICK k \in DOMAIN pending : pending' = RemoveAt(pending, k)
      BY <1>3 DEF urb_handler_unlink
    <2>2. Elems(pending') \subseteq Elems(pending) /\ current' = current
      BY <1>3, <2>1, <1>a, RemoveAtFacts DEF urb_handler_unlink
    <2>3. \A i, j \in DOMAIN pending' : i < j => pending'[i] < pending'[j]
      BY <2>1, <1>a, SortedRemove DEF PendingOrder
    <2> QED BY <2>2, <2>3 DEF PendingOrder
  <1>4. CASE urb_handler_cancel_all
    <2>1. pending # <<>> /\ pending' = Tail(pending) /\ current' = current
      BY <1>4 DEF urb_handler_cancel_all
    <2>2. Elems(pending') \subseteq Elems(pending)
      BY <2>1, <1>a, TailFacts
    <2>3. \A i, j \in DOMAIN pending' : i < j => pending'[i] < pending'[j]
      BY <2>1, <1>a, SortedTail DEF PendingOrder
    <2> QED BY <2>1, <2>2, <2>3 DEF PendingOrder
  <1>5. CASE urb_handler_cleanup
    BY <1>5 DEF urb_handler_cleanup, PendingOrder, Elems
  <1>6. CASE WorkerPop
    <2>1. CASE pending = <<>>
      BY <1>6, <2>1, <1>1 DEF WorkerPop
    <2>2. CASE pending # <<>>
      <3>1. pending' = Tail(pending) /\ current' = Head(pending)
        BY <1>6, <2>2 DEF WorkerPop
      <3>2. /\ \A i, j \in DOMAIN pending' : i < j => pending'[i] < pending'[j]
            /\ \A e \in Elems(pending') : current' < e
        BY <3>1, <2>2, <1>a, SortedTail DEF PendingOrder
      <3> QED BY <3>2 DEF PendingOrder
    <2> QED BY <2>1, <2>2
  <1>7. CASE WorkerPush
    BY <1>7 DEF WorkerPush, PendingOrder
  <1>8. CASE \/ urb_handler_start \/ StartFails \/ SubmitSignal \/ UnlinkRequeue
             \/ urb_handler_get_completed \/ urb_handler_free_entry
             \/ urb_handler_stop \/ StopSignal \/ StopJoin \/ CancelDone
             \/ WorkerTest \/ WorkerPark \/ WorkerWake \/ WorkerTimeout
             \/ WorkerWaitFailed \/ WorkerExecute \/ UNCHANGED vars
    BY <1>8, <1>1 DEF urb_handler_start, StartFails, SubmitSignal, UnlinkRequeue,
       urb_handler_get_completed, urb_handler_free_entry, urb_handler_stop,
       StopSignal, StopJoin, CancelDone, WorkerTest, WorkerPark, WorkerWake,
       WorkerTimeout, WorkerWaitFailed, WorkerExecute, vars
  <1> QED BY <1>2, <1>3, <1>4, <1>5, <1>6, <1>7, <1>8
     DEF Next, SessionStep, WorkerStep, Finished

\* What the device has seen stays ahead of what it has not.
LEMMA DeviceOrderStep ==
  ASSUME ControlInv, EveryUrbAccounted, OutcomeInv, PendingOrder, DeviceOrder,
         [Next]_vars
  PROVE  DeviceOrder'
  <1>a. /\ pending \in Seq(Urbs)
        /\ current # 0 <=> worker \in {"exec", "push"}
    BY DEF ControlInv, TypeOK
  <1> USE DEF heap, flags, queues, sessionVars, workerVars
  <1>1. CASE executed' = executed /\ Elems(pending') \subseteq Elems(pending)
             /\ current' \in {current, 0}
    BY <1>1 DEF DeviceOrder
  <1>2. ASSUME NEW s \in Seqnums, urb_handler_submit(s) PROVE DeviceOrder'
    <2>1. /\ pending' = Append(pending, created + 1)
          /\ UNCHANGED <<current, executed>> /\ created + 1 \in Urbs
      BY <1>2, Allocated, UrbAssumption DEF urb_handler_submit, queue_push, Urbs
    <2>2. Elems(pending') = Elems(pending) \cup {created + 1}
      BY <2>1, <1>a, AppendFacts
    <2>3. \A d \in executed : d < created + 1
      BY Allocated
    <2> QED BY <2>1, <2>2, <2>3 DEF DeviceOrder
  <1>3. ASSUME NEW s \in Seqnums, urb_handler_unlink(s) PROVE DeviceOrder'
    <2>1. PICK k \in DOMAIN pending : pending' = RemoveAt(pending, k)
      BY <1>3 DEF urb_handler_unlink
    <2>2. Elems(pending') \subseteq Elems(pending)
      BY <2>1, <1>a, RemoveAtFacts
    <2> QED BY <1>1, <1>3, <2>2 DEF urb_handler_unlink
  <1>4. CASE urb_handler_cancel_all
    <2>1. Elems(pending') \subseteq Elems(pending)
      BY <1>4, <1>a, TailFacts DEF urb_handler_cancel_all
    <2> QED BY <1>1, <1>4, <2>1 DEF urb_handler_cancel_all
  <1>5. CASE urb_handler_cleanup
    <2>1. Elems(pending') \subseteq Elems(pending)
      BY <1>5 DEF urb_handler_cleanup, Elems
    <2> QED BY <1>1, <1>5, <2>1 DEF urb_handler_cleanup
  <1>6. CASE WorkerPop
    <2>1. CASE pending = <<>>
      BY <1>6, <2>1, <1>1 DEF WorkerPop
    <2>2. CASE pending # <<>>
      <3>1. /\ pending' = Tail(pending) /\ current' = Head(pending)
            /\ executed' = executed
        BY <1>6, <2>2 DEF WorkerPop
      <3>2. Elems(pending) = Elems(pending') \cup {current'}
        BY <3>1, <2>2, <1>a, TailFacts
      <3>3. \A d \in executed : d < current' /\ d \in Int
        BY <3>2, Allocated DEF DeviceOrder
      <3>4. current' \in Int
        BY <3>2, Allocated
      <3>5. \A d \in executed : d <= current'
        BY <3>3, <3>4
      <3> QED BY <3>1, <3>2, <3>5 DEF DeviceOrder
    <2> QED BY <2>1, <2>2
  <1>7. CASE WorkerExecute
    <2>1. /\ executed' = executed \cup {current} /\ current # 0
          /\ UNCHANGED <<pending, current>>
      BY <1>7, <1>a DEF WorkerExecute
    <2>2. current <= current
      BY <2>1, Allocated
    <2> QED BY <2>1, <2>2 DEF DeviceOrder, PendingOrder
  <1>8. CASE \/ urb_handler_start \/ StartFails \/ SubmitSignal \/ UnlinkRequeue
             \/ urb_handler_get_completed \/ urb_handler_free_entry
             \/ urb_handler_stop \/ StopSignal \/ StopJoin \/ CancelDone
             \/ WorkerTest \/ WorkerPark \/ WorkerWake \/ WorkerTimeout
             \/ WorkerWaitFailed \/ WorkerPush \/ UNCHANGED vars
    BY <1>8, <1>1 DEF urb_handler_start, StartFails, SubmitSignal, UnlinkRequeue,
       urb_handler_get_completed, urb_handler_free_entry, urb_handler_stop,
       StopSignal, StopJoin, CancelDone, WorkerTest, WorkerPark, WorkerWake,
       WorkerTimeout, WorkerWaitFailed, WorkerPush, vars
  <1> QED BY <1>2, <1>3, <1>4, <1>5, <1>6, <1>7, <1>8
     DEF Next, SessionStep, WorkerStep, Finished

\* An entry on its way to the completed queue by unlink is a cancelled one.
RequeueCancelled == caller = "requeue" => status[moving] = "ECANCELED"

\* What has left the pending queue and the worker's hand is decided.
LEMMA Decided ==
  ASSUME ControlInv, EveryUrbAccounted, OutcomeInv
  PROVE  /\ \A e \in Elems(completed) \cup InHand(moving) :
              e \in Urbs /\ status[e] # "none" /\ (current # 0 => e # current)
         /\ worker = "push" => status[current] # "none"
  <1>1. /\ created \in 0 .. MaxUrbs /\ completed \in Seq(Urbs)
        /\ moving \in 0 .. MaxUrbs /\ current \in 0 .. MaxUrbs
        /\ current # 0 <=> worker \in {"exec", "push"}
    BY DEF ControlInv, TypeOK
  <1>2. ASSUME NEW e \in Elems(completed) \cup InHand(moving)
        PROVE  e \in Urbs /\ status[e] # "none" /\ (current # 0 => e # current)
    <2>1. e \in 1 .. created /\ e \notin Elems(pending)
      BY <1>2 DEF EveryUrbAccounted, Disjoint
    <2>2. current # 0 => e # current
      BY <1>2 DEF EveryUrbAccounted, Disjoint, InHand
    <2>3. e \in Urbs /\ ~(e > created)
      BY <1>1, <2>1, UrbAssumption DEF Urbs
    <2>4. ~Undecided(e)
      BY <1>1, <2>1, <2>2, <2>3 DEF Undecided
    <2> QED BY <2>2, <2>3, <2>4 DEF OutcomeInv
  <1>3. ASSUME worker = "push" PROVE status[current] # "none"
    <2>1. current \in 1 .. created /\ current \notin Elems(pending)
      BY <1>1, <1>3 DEF EveryUrbAccounted, InHand
    <2>2. current \in Urbs /\ ~(current > created)
      BY <1>1, <2>1, UrbAssumption DEF Urbs
    <2> QED BY <1>3, <2>1, <2>2 DEF OutcomeInv, Undecided
  <1> QED BY <1>2, <1>3

\* The executed entries of the completed queue stay sorted, also while an
\* unlinked entry is on its way into it.
LEMMA CompletedOrderStep ==
  ASSUME ControlInv, EveryUrbAccounted, OutcomeInv, DeviceOrder, CompletedOrder,
         RequeueCancelled, [Next]_vars
  PROVE  CompletedOrder' /\ RequeueCancelled'
  <1>a. /\ completed \in Seq(Urbs) /\ pending \in Seq(Urbs)
        /\ status \in [Urbs -> {"none", "ok", "EIO", "ECANCELED"}]
        /\ current # 0 <=> worker \in {"exec", "push"}
        /\ moving # 0 <=> caller \in {"requeue", "deliver"}
        /\ moving \in 0 .. MaxUrbs /\ current \in 0 .. MaxUrbs
    BY DEF ControlInv, TypeOK
  <1>b. \A i \in DOMAIN completed :
          /\ completed[i] \in Elems(completed) /\ completed[i] \in Urbs
          /\ status'[completed[i]] = status[completed[i]]
    BY <1>a, Decided, DecidedStays DEF Elems
  <1>c. moving # 0 => moving \in Urbs /\ status'[moving] = status[moving]
    BY Decided, DecidedStays DEF InHand
  <1> USE DEF heap, flags, queues, sessionVars, workerVars
  <1>1. CASE /\ UNCHANGED completed
             /\ \/ UNCHANGED <<moving, caller>>
                \/ caller' \notin {"requeue", "deliver"}
    BY <1>1, <1>a, <1>b, <1>c
       DEF CompletedOrder, RanSorted, RequeueCancelled, Ran
  <1>2. ASSUME NEW s \in Seqnums, urb_handler_submit(s)
        PROVE  CompletedOrder' /\ RequeueCancelled'
    BY <1>2, <1>1 DEF urb_handler_submit
  <1>3. ASSUME NEW s \in Seqnums, urb_handler_unlink(s)
        PROVE  CompletedOrder' /\ RequeueCancelled'
    <2>1. PICK k \in DOMAIN pending :
            /\ moving' = pending[k]
            /\ status' = [status EXCEPT ![pending[k]] = "ECANCELED"]
      BY <1>3 DEF urb_handler_unlink
    <2>2. status'[moving'] = "ECANCELED"
      BY <2>1, <1>a
    <2>3. UNCHANGED completed /\ caller' = "requeue"
      BY <1>3 DEF urb_handler_unlink
    <2> QED BY <2>2, <2>3, <1>b DEF CompletedOrder, RanSorted, RequeueCancelled, Ran
  \* Pushing an entry that never ran, or one that ran after all the others.
  <1>4. ASSUME NEW e \in Urbs, completed' = Append(completed, e),
               caller' \in {"requeue", "deliver"} => UNCHANGED <<caller, moving>>,
               Ran(e)' => /\ \A i \in DOMAIN completed :
                               Ran(completed[i]) => completed[i] < e
                          /\ caller = "deliver" /\ Ran(moving) => moving < e
        PROVE  CompletedOrder' /\ RequeueCancelled'
    <2>1. /\ DOMAIN completed' = 1 .. Len(completed) + 1
          /\ completed'[Len(completed) + 1] = e
          /\ \A i \in 1 .. Len(completed) : completed'[i] = completed[i]
      BY <1>4, <1>a, AppendFacts
    <2>2. Len(completed) \in Nat /\ DOMAIN completed = 1 .. Len(completed)
      BY <1>a
    <2>3. \A i \in DOMAIN completed' :
            \/ i = Len(completed) + 1 /\ completed'[i] = e
            \/ /\ i \in DOMAIN completed /\ completed'[i] = completed[i]
               /\ (status'[completed'[i]] = status[completed[i]])
      BY <2>1, <2>2, <1>b
    <2>4. ASSUME NEW i \in DOMAIN completed', NEW j \in DOMAIN completed', i < j,
                 status'[completed'[i]] \in {"ok", "EIO"},
                 status'[completed'[j]] \in {"ok", "EIO"}
          PROVE  completed'[i] < completed'[j]
      <3>1. /\ i \in DOMAIN completed /\ completed'[i] = completed[i]
            /\ status[completed[i]] \in {"ok", "EIO"}
        BY <2>1, <2>2, <2>3, <2>4
      <3>2. CASE j = Len(completed) + 1
        BY <3>1, <3>2, <2>1, <2>4, <1>4 DEF Ran
      <3>3. CASE j \in DOMAIN completed
        <4>1. completed'[j] = completed[j] /\ status[completed[j]] \in {"ok", "EIO"}
          BY <3>3, <2>1, <2>2, <2>4, <1>b
        <4> QED BY <3>1, <3>3, <4>1, <2>4 DEF CompletedOrder, RanSorted, Ran
      <3> QED BY <3>2, <3>3, <2>1, <2>2
    <2>5. ASSUME caller' = "deliver", status'[moving'] \in {"ok", "EIO"},
                 NEW i \in DOMAIN completed', status'[completed'[i]] \in {"ok", "EIO"}
          PROVE  moving' < completed'[i]
      <3>1. caller = "deliver" /\ moving' = moving /\ Ran(moving)
        BY <2>5, <1>4, <1>a, <1>c DEF Ran
      <3> QED BY <3>1, <2>3, <2>5, <1>4 DEF CompletedOrder, Ran
    <2>6. RequeueCancelled'
      BY <1>4, <1>a, <1>c DEF RequeueCancelled
    <2> QED BY <2>4, <2>5, <2>6 DEF CompletedOrder, RanSorted, Ran
  <1>5. CASE UnlinkRequeue
    <2>1. /\ completed' = Append(completed, moving) /\ caller' = "idle"
          /\ status' = status /\ moving \in Urbs
          /\ status[moving] = "ECANCELED"
      BY <1>5, <1>a, <1>c DEF UnlinkRequeue, queue_push, RequeueCancelled
    <2> QED BY <2>1, <1>4 DEF Ran
  <1>6. CASE urb_handler_get_completed
    <2>1. /\ completed # <<>> /\ completed' = Tail(completed)
          /\ moving' = Head(completed) /\ caller' = "deliver" /\ status' = status
      BY <1>6 DEF urb_handler_get_completed
    <2>2. /\ moving' = completed[1] /\ 1 \in DOMAIN completed
          /\ DOMAIN completed' = 1 .. Len(completed) - 1
          /\ \A i \in DOMAIN completed' :
               i + 1 \in DOMAIN completed /\ completed'[i] = completed[i + 1]
      BY <2>1, <1>a, TailFacts
    <2>3. Len(completed) \in Nat
      BY <1>a
    <2>4. ASSUME NEW i \in DOMAIN completed', NEW j \in DOMAIN completed', i < j,
                 status[completed'[i]] \in {"ok", "EIO"},
                 status[completed'[j]] \in {"ok", "EIO"}
          PROVE  completed'[i] < completed'[j]
      <3>1. i + 1 \in DOMAIN completed /\ j + 1 \in DOMAIN completed /\ i + 1 < j + 1
        BY <2>2, <2>3, <2>4
      <3> QED BY <3>1, <2>2, <2>4 DEF CompletedOrder, RanSorted, Ran
    <2>5. ASSUME NEW i \in DOMAIN completed', status[moving'] \in {"ok", "EIO"},
                 status[completed'[i]] \in {"ok", "EIO"}
          PROVE  moving' < completed'[i]
      <3>1. i + 1 \in DOMAIN completed /\ 1 < i + 1
        BY <2>2, <2>3
      <3> QED BY <3>1, <2>2, <2>5 DEF CompletedOrder, RanSorted, Ran
    <2> QED BY <2>1, <2>4, <2>5 DEF CompletedOrder, RanSorted, RequeueCancelled, Ran
  <1>7. CASE urb_handler_cancel_all
    <2>1. /\ pending # <<>> /\ completed' = Append(completed, Head(pending))
          /\ status' = [status EXCEPT ![Head(pending)] = "ECANCELED"]
          /\ caller' = "cancel"
      BY <1>7 DEF urb_handler_cancel_all, queue_push
    <2>2. Head(pending) \in Urbs
      BY <2>1, <1>a, TailFacts
    <2>3. status'[Head(pending)] = "ECANCELED"
      BY <2>1, <2>2, <1>a
    <2>4. ~(status'[Head(pending)] \in {"ok", "EIO"})
      BY <2>3
    <2> QED BY <2>1, <2>2, <2>4, <1>4 DEF Ran
  <1>8. CASE urb_handler_cleanup
    BY <1>8 DEF urb_handler_cleanup, CompletedOrder, RanSorted, RequeueCancelled
  <1>9. CASE WorkerPush
    <2>1. /\ completed' = Append(completed, current) /\ worker = "push"
          /\ UNCHANGED <<status, caller, moving>> /\ current # 0
          /\ current \in Urbs
      BY <1>9, <1>a DEF WorkerPush, queue_push, Urbs
    <2>2. \A d \in executed : d <= current
      BY <2>1 DEF DeviceOrder
    <2>3. \A d \in Elems(completed) \cup InHand(moving) :
            Ran(d) => d \in executed /\ d # current /\ d \in Urbs
      BY <2>1, Decided DEF OutcomeInv
    <2>4. \A d \in Elems(completed) \cup InHand(moving) : Ran(d) => d < current
      BY <2>1, <2>2, <2>3 DEF Urbs
    <2>5. \A i \in DOMAIN completed : Ran(completed[i]) => completed[i] < current
      BY <2>4, <1>b
    <2>6. caller = "deliver" /\ Ran(moving) => moving < current
      BY <2>4, <1>a DEF InHand
    <2> QED BY <2>1, <2>5, <2>6, <1>4
  <1>10. CASE \/ urb_handler_start \/ StartFails \/ SubmitSignal
              \/ urb_handler_free_entry \/ urb_handler_stop \/ StopSignal
              \/ StopJoin \/ CancelDone
              \/ WorkerTest \/ WorkerPop \/ WorkerPark \/ WorkerWake
              \/ WorkerTimeout \/ WorkerWaitFailed \/ WorkerExecute
              \/ UNCHANGED vars
    BY <1>10, <1>1 DEF urb_handler_start, StartFails, SubmitSignal,
       urb_handler_free_entry, urb_handler_stop, StopSignal, StopJoin,
       CancelDone, WorkerTest, WorkerPop, WorkerPark, WorkerWake,
       WorkerTimeout, WorkerWaitFailed, WorkerExecute, vars
  <1> QED BY <1>2, <1>3, <1>5, <1>6, <1>7, <1>8, <1>9, <1>10
     DEF Next, SessionStep, WorkerStep, Finished

OrderInv == PendingOrder /\ DeviceOrder /\ CompletedOrder /\ RequeueCancelled

\* The parts of the order hold together, in every state.
THEOREM OrderCorrect == Spec => []OrderInv
  <1>1. Init => OrderInv
    BY OrderInit DEF OrderInv, RequeueCancelled, Init, urb_handler_init
  <1>2. ControlInv /\ EveryUrbAccounted /\ OutcomeInv /\ OrderInv /\ [Next]_vars
          => OrderInv'
    BY PendingOrderStep, DeviceOrderStep, CompletedOrderStep DEF OrderInv
  <1> QED BY <1>1, <1>2, ControlCorrect, UrbsAccounted, OutcomeCorrect, PTL DEF Spec

\* Transfers reach the device and are reported in the order of submission.
THEOREM OrderKept == Spec => []SubmissionOrder
  <1>1. OrderInv => SubmissionOrder
    BY OrderSplit DEF OrderInv
  <1> QED BY <1>1, OrderCorrect, PTL

----------------------------------------------------------------------------
(* What a user of the handler may rely on: the interface of the proofs.    *)

HandlerInv == ControlInv /\ EveryUrbAccounted /\ OutcomeInv /\ OrderInv

\* All of the above, in every state.
THEOREM HandlerCorrect == Spec => []HandlerInv
  BY ControlCorrect, UrbsAccounted, OutcomeCorrect, OrderCorrect, PTL DEF HandlerInv

\* The entries on their way out: completed ones and the one being delivered.
Outgoing == Elems(completed) \cup (IF caller = "deliver" THEN {moving} ELSE {})

\* A freed entry is decided and is in nobody's hands any more; an executed one
\* was submitted before the one the worker has.
LEMMA FreedFacts ==
  ASSUME HandlerInv
  PROVE  \A e \in freed :
           /\ e \in Urbs /\ e \notin Outgoing \cup InHand(current)
           /\ status[e] # "none"
           /\ status[e] = "ECANCELED" <=> e \notin executed
           /\ e \in executed /\ current # 0 => e < current
  <1> SUFFICES ASSUME NEW e \in freed
               PROVE  /\ e \in Urbs /\ e \notin Outgoing \cup InHand(current)
                      /\ status[e] # "none"
                      /\ status[e] = "ECANCELED" <=> e \notin executed
                      /\ e \in executed /\ current # 0 => e < current
    OBVIOUS
  <1>1. /\ created \in 0 .. MaxUrbs /\ freed \in SUBSET Urbs
        /\ current \in 0 .. MaxUrbs /\ moving \in 0 .. MaxUrbs
        /\ status \in [Urbs -> {"none", "ok", "EIO", "ECANCELED"}]
        /\ current # 0 <=> worker \in {"exec", "push"}
        /\ moving # 0 <=> caller \in {"requeue", "deliver"}
    BY DEF HandlerInv, ControlInv, TypeOK
  <1>2. e \in Urbs /\ e \in 1 .. created /\ e \notin Elems(pending)
        /\ e \notin Elems(completed) /\ e \notin InHand(current) \cup InHand(moving)
    BY <1>1 DEF HandlerInv, EveryUrbAccounted, Disjoint
  <1>3. e \notin Outgoing
    BY <1>1, <1>2 DEF Outgoing, InHand
  <1>4. ~Undecided(e)
    <2>1. ~(e > created)
      BY <1>1, <1>2
    <2>2. worker = "exec" => e # current
      BY <1>1, <1>2 DEF InHand
    <2> QED BY <1>2, <2>1, <2>2 DEF Undecided
  <1>5. status[e] # "none" /\ (e \in executed <=> Ran(e))
    BY <1>2, <1>4 DEF HandlerInv, OutcomeInv
  <1>6. status[e] = "ECANCELED" <=> e \notin executed
    BY <1>1, <1>2, <1>5 DEF Ran
  <1>7. ASSUME e \in executed, current # 0 PROVE e < current
    <2>1. e <= current /\ e # current
      BY <1>2, <1>7 DEF HandlerInv, OrderInv, DeviceOrder, InHand
    <2> QED BY <2>1, <1>1, <1>2, UrbAssumption DEF Urbs
  <1> QED BY <1>2, <1>3, <1>5, <1>6, <1>7

\* The entry being delivered is a decided one, delivered for the first time;
\* an executed one before all executed ones that are still to come.
LEMMA DeliverFacts ==
  ASSUME HandlerInv, caller = "deliver"
  PROVE  /\ moving \in Urbs /\ moving \notin freed
         /\ \A e \in Elems(completed) :
              moving \in executed /\ e \in executed => moving < e
  <1>1. /\ completed \in Seq(Urbs) /\ moving \in 0 .. MaxUrbs /\ moving # 0
    BY DEF HandlerInv, ControlInv, TypeOK
  <1>2. moving \in Urbs
    BY <1>1, UrbAssumption DEF Urbs
  <1>3. moving \notin freed
    BY <1>1 DEF HandlerInv, EveryUrbAccounted, InHand
  <1>4. ASSUME NEW i \in DOMAIN completed, moving \in executed, completed[i] \in executed
        PROVE  moving < completed[i]
    <2>1. completed[i] \in Urbs
      BY <1>1, <1>4
    <2>2. Ran(moving) /\ Ran(completed[i])
      BY <1>2, <1>4, <2>1 DEF HandlerInv, OutcomeInv
    <2> QED BY <2>2 DEF HandlerInv, OrderInv, CompletedOrder
  <1> QED BY <1>2, <1>3, <1>4 DEF Elems

\* What one step of either thread may do to what is freed, executed and on its
\* way out: nothing freed comes back, only the entry in the worker's hand is
\* executed, and nothing else that was executed joins what is on its way out.
LEMMA OutgoingStep ==
  ASSUME HandlerInv, [Next]_vars
  PROVE  /\ freed \subseteq freed'
         /\ executed' \subseteq executed \cup InHand(current)
         /\ \A e \in Outgoing' : e \in executed' => e \in Outgoing \cup InHand(current)
  <1>a. /\ completed \in Seq(Urbs) /\ pending \in Seq(Urbs)
        /\ status \in [Urbs -> {"none", "ok", "EIO", "ECANCELED"}]
        /\ current # 0 <=> worker \in {"exec", "push"}
        /\ moving # 0 <=> caller \in {"requeue", "deliver"}
        /\ moving \in 0 .. MaxUrbs /\ current \in 0 .. MaxUrbs
    BY DEF HandlerInv, ControlInv, TypeOK
  <1>b. \A e \in Urbs : e \in executed => status[e] \in {"ok", "EIO"}
    BY DEF HandlerInv, OutcomeInv, Ran
  <1> USE DEF heap, flags, queues, sessionVars, workerVars
  <1>1. CASE /\ UNCHANGED <<executed, completed>> /\ freed \subseteq freed'
             /\ caller' = "deliver" => UNCHANGED <<caller, moving>>
    BY <1>1 DEF Outgoing, Elems
  <1>2. ASSUME NEW s \in Seqnums, urb_handler_submit(s) \/ urb_handler_unlink(s)
        PROVE  /\ freed \subseteq freed'
               /\ executed' \subseteq executed \cup InHand(current)
               /\ \A e \in Outgoing' : e \in executed' => e \in Outgoing \cup InHand(current)
    BY <1>1, <1>2 DEF urb_handler_submit, urb_handler_unlink
  <1>3. CASE UnlinkRequeue
    <2>1. /\ completed' = Append(completed, moving) /\ caller' = "idle"
          /\ moving \in Urbs /\ status[moving] = "ECANCELED"
          /\ UNCHANGED <<freed, executed>>
      BY <1>3, <1>a, UrbAssumption DEF UnlinkRequeue, queue_push, Urbs,
         HandlerInv, OrderInv, RequeueCancelled
    <2>2. moving \notin executed
      BY <2>1, <1>b
    <2>3. Elems(completed)' = Elems(completed) \cup {moving}
      BY <2>1, <1>a, AppendFacts DEF Elems
    <2> QED BY <2>1, <2>2, <2>3 DEF Outgoing
  <1>4. CASE urb_handler_get_completed
    <2>1. /\ completed # <<>> /\ completed' = Tail(completed)
          /\ moving' = Head(completed) /\ UNCHANGED <<freed, executed>>
      BY <1>4 DEF urb_handler_get_completed
    <2>2. Elems(completed) = Elems(completed)' \cup {moving'}
      BY <2>1, <1>a, TailFacts
    <2> QED BY <2>1, <2>2 DEF Outgoing
  <1>5. CASE urb_handler_cancel_all
    <2>1. /\ pending # <<>> /\ completed' = Append(completed, Head(pending))
          /\ caller' = "cancel" /\ UNCHANGED <<freed, executed>>
      BY <1>5 DEF urb_handler_cancel_all, queue_push
    <2>2. Head(pending) \in Urbs /\ Head(pending) \in Elems(pending)
      BY <2>1, <1>a, TailFacts
    <2>3. Undecided(Head(pending))
      BY <2>2 DEF Undecided
    <2>4. status[Head(pending)] = "none"
      BY <2>2, <2>3 DEF HandlerInv, OutcomeInv
    <2>5. Head(pending) \notin executed
      BY <2>2, <2>4, <1>b
    <2>6. Elems(completed)' = Elems(completed) \cup {Head(pending)}
      BY <2>1, <2>2, <1>a, AppendFacts
    <2> QED BY <2>1, <2>5, <2>6 DEF Outgoing
  <1>6. CASE urb_handler_cleanup
    BY <1>6 DEF urb_handler_cleanup, Outgoing, Elems
  <1>7. CASE WorkerExecute
    BY <1>7, <1>a DEF WorkerExecute, Outgoing, Elems, InHand
  <1>8. CASE WorkerPush
    <2>1. /\ completed' = Append(completed, current) /\ current # 0 /\ current \in Urbs
          /\ UNCHANGED <<freed, executed, caller, moving>>
      BY <1>8, <1>a, UrbAssumption DEF WorkerPush, queue_push, Urbs
    <2>2. Elems(completed)' = Elems(completed) \cup {current}
      BY <2>1, <1>a, AppendFacts
    <2> QED BY <2>1, <2>2 DEF Outgoing, InHand
  <1>9. CASE \/ urb_handler_start \/ StartFails \/ SubmitSignal
             \/ urb_handler_free_entry \/ urb_handler_stop \/ StopSignal
             \/ StopJoin \/ CancelDone
             \/ WorkerTest \/ WorkerPop \/ WorkerPark \/ WorkerWake
             \/ WorkerTimeout \/ WorkerWaitFailed \/ UNCHANGED vars
    BY <1>9, <1>1 DEF urb_handler_start, StartFails, SubmitSignal,
       urb_handler_free_entry, urb_handler_stop, StopSignal, StopJoin,
       CancelDone, WorkerTest, WorkerPop, WorkerPark, WorkerWake,
       WorkerTimeout, WorkerWaitFailed, vars
  <1> QED BY <1>2, <1>3, <1>4, <1>5, <1>6, <1>7, <1>8, <1>9
     DEF Next, SessionStep, WorkerStep, Finished
=============================================================================
