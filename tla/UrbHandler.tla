----------------------------- MODULE UrbHandler -----------------------------
(***************************************************************************)
(* The URB handler of one attached device (server/urb_handler.c): a        *)
(* pending queue and a completed queue, a worker thread that executes      *)
(* pending URBs on the device one at a time, and the session thread that   *)
(* submits, unlinks, collects completed URBs and finally stops the handler *)
(* and destroys it.                                                        *)
(*                                                                         *)
(* A urb_entry_t is named by the order of its allocation: entry e is the   *)
(* e-th one created.  Its transfer data plays no part in the control flow  *)
(* and is left out; its seqnum is chosen by the remote client and need not *)
(* be unique.  Everything done under a queue's mutex is one step; so is    *)
(* each test of the running flag and each call on the event.               *)
(***************************************************************************)
EXTENDS Integers, Sequences

CONSTANTS
  MaxUrbs,      \* bound: how many URBs a behaviour submits
  Seqnums,      \* the sequence numbers a client uses
  WaitMayFail   \* whether event_wait_timeout may return WAIT_FAILED

ASSUME UrbAssumption == MaxUrbs \in Nat /\ WaitMayFail \in BOOLEAN

VARIABLES
  created,      \* number of entries allocated so far
  seqnum,       \* seqnum of each entry
  status,       \* urb.status of each entry; "none" until it is completed
  pending,      \* handler->pending, head first
  completed,    \* handler->completed, head first
  freed,        \* entries given back to the heap
  running,      \* handler->running
  initialized,  \* handler->initialized
  signalled,    \* handler->pending.notify, an auto-reset event
  worker,       \* where the worker thread is
  current,      \* the entry in the worker's hand, 0 if none
  caller,       \* where the session thread is
  moving,       \* the entry in the session thread's hand, 0 if none
  executed,     \* entries handed to the device (history)
  late          \* how many of them after running was cleared (history)

heap == <<created, seqnum, freed>>
flags == <<running, initialized>>
queues == <<pending, completed>>
sessionVars == <<heap, flags, caller, moving>>
workerVars == <<worker, current, executed, late>>
vars == <<sessionVars, workerVars, queues, status, signalled>>

Urbs == 1 .. MaxUrbs
Elems(q) == {q[i] : i \in DOMAIN q}
InHand(e) == IF e = 0 THEN {} ELSE {e}
Gone == {"none", "exited"}          \* the worker thread does not exist

\* memset, queue_init on both queues, initialized = true.
urb_handler_init ==
  /\ created = 0 /\ freed = {} /\ executed = {} /\ late = 0
  /\ seqnum = [e \in Urbs |-> 0] /\ status = [e \in Urbs |-> "none"]
  /\ pending = <<>> /\ completed = <<>>
  /\ running = FALSE /\ initialized = TRUE /\ signalled = FALSE
  /\ worker = "none" /\ current = 0 /\ caller = "new" /\ moving = 0

----------------------------------------------------------------------------
(* The queues and the event.                                               *)

\* Mutation: a stack instead of a queue.
queue_push_at_head(q, e) == <<e>> \o q

queue_push(q, e) == Append(q, e)

\* Mutation: unlinks the entry's predecessor.
RemoveAtOffByOne(q, i) == [j \in 1 .. Len(q) - 1 |-> q[IF j < i - 1 THEN j ELSE j + 1]]

RemoveAt(q, i) == [j \in 1 .. Len(q) - 1 |-> q[IF j < i THEN j ELSE j + 1]]

\* The index queue_find_remove stops at: the first entry with this seqnum.
FirstMatch(q, s, i) ==
  /\ i \in DOMAIN q
  /\ seqnum[q[i]] = s
  /\ \A j \in 1 .. i - 1 : seqnum[q[j]] # s

\* Mutation: an event that drops the signal when no thread is parked on it.
event_signal_if_parked == signalled' = (signalled \/ worker = "wait")

\* SetEvent: the signal stays until a wait consumes it.
event_signal == signalled' = TRUE

----------------------------------------------------------------------------
(* The session thread.                                                     *)

\* urb_handler_start: the flag is set before the thread is created.
urb_handler_start ==
  /\ caller = "new" /\ caller' = "idle"
  /\ running' = TRUE /\ worker' = "test"
  /\ UNCHANGED <<heap, queues, status, initialized, signalled, current, moving,
                 executed, late>>

\* CreateThread failed: the flag is reset and the caller goes on to cleanup.
StartFails ==
  /\ caller = "new" /\ caller' = "stopped"
  /\ UNCHANGED <<workerVars, heap, flags, queues, status, signalled, moving>>

\* urb_handler_submit: the new entry is at the tail of the pending queue,
\* the event is signalled only after the mutex has been released.
urb_handler_submit(s) ==
  /\ caller = "idle" /\ initialized /\ created < MaxUrbs
  /\ created' = created + 1
  /\ seqnum' = [seqnum EXCEPT ![created + 1] = s]
  /\ pending' = queue_push(pending, created + 1)
  /\ caller' = "notify"
  /\ UNCHANGED <<workerVars, flags, status, completed, freed, signalled,
                 moving>>

SubmitSignal ==
  /\ caller = "notify" /\ caller' = "idle"
  /\ event_signal
  /\ UNCHANGED <<workerVars, heap, flags, queues, status, moving>>

\* Mutation: unlink also cancels the URB the worker is executing.
UnlinkInProgress(s) ==
  /\ caller = "idle" /\ current # 0 /\ seqnum[current] = s
  /\ status' = [status EXCEPT ![current] = "ECANCELED"]
  /\ UNCHANGED <<sessionVars, workerVars, queues, signalled>>

\* Mutation: unlink marks the entry and leaves it in the pending queue.
UnlinkMarksOnly(s) ==
  /\ caller = "idle" /\ initialized
  /\ \E i \in DOMAIN pending :
       /\ FirstMatch(pending, s, i)
       /\ status' = [status EXCEPT ![pending[i]] = "ECANCELED"]
  /\ UNCHANGED <<sessionVars, workerVars, queues, signalled>>

\* urb_handler_unlink, first half: queue_find_remove on the pending queue.
\* When nothing matches the call returns ERR_NOT_FOUND and changes nothing.
urb_handler_unlink(s) ==
  /\ caller = "idle" /\ initialized
  /\ \E i \in DOMAIN pending :
       /\ FirstMatch(pending, s, i)
       /\ pending' = RemoveAt(pending, i)
       /\ moving' = pending[i]
       /\ status' = [status EXCEPT ![pending[i]] = "ECANCELED"]
  /\ caller' = "requeue"
  /\ UNCHANGED <<workerVars, heap, flags, completed, signalled>>

\* Second half: the cancelled entry goes to the completed queue.
UnlinkRequeue ==
  /\ caller = "requeue" /\ caller' = "idle"
  /\ completed' = queue_push(completed, moving)
  /\ moving' = 0
  /\ UNCHANGED <<workerVars, heap, flags, status, pending, signalled>>

\* urb_handler_get_completed; on an empty queue it returns NULL.
urb_handler_get_completed ==
  /\ caller = "idle" /\ initialized /\ completed # <<>>
  /\ moving' = Head(completed)
  /\ completed' = Tail(completed)
  /\ caller' = "deliver"
  /\ UNCHANGED <<workerVars, heap, flags, status, pending, signalled>>

urb_handler_free_entry ==
  /\ caller = "deliver" /\ caller' = "idle"
  /\ freed' = freed \cup {moving}
  /\ moving' = 0
  /\ UNCHANGED <<workerVars, flags, queues, created, seqnum, status,
                 signalled>>

\* urb_handler_stop: clear the flag, signal, join, cancel what is left.
urb_handler_stop ==
  /\ caller = "idle" /\ running
  /\ running' = FALSE
  /\ caller' = "nudge"
  /\ UNCHANGED <<workerVars, heap, queues, status, initialized, signalled,
                 moving>>

StopSignal ==
  /\ caller = "nudge" /\ caller' = "join"
  /\ event_signal
  /\ UNCHANGED <<workerVars, heap, flags, queues, status, moving>>

\* Mutation: stop does not wait for the worker.
StopWithoutJoin ==
  /\ caller = "join" /\ caller' = "cancel"
  /\ UNCHANGED <<workerVars, heap, flags, queues, status, signalled, moving>>

StopJoin ==
  /\ caller = "join" /\ worker \in Gone
  /\ caller' = "cancel"
  /\ UNCHANGED <<workerVars, heap, flags, queues, status, signalled, moving>>

\* One turn of urb_handler_cancel_all: pop, mark, push.
urb_handler_cancel_all ==
  /\ caller = "cancel" /\ pending # <<>>
  /\ status' = [status EXCEPT ![Head(pending)] = "ECANCELED"]
  /\ completed' = queue_push(completed, Head(pending))
  /\ pending' = Tail(pending)
  /\ UNCHANGED <<workerVars, heap, flags, signalled, caller, moving>>

CancelDone ==
  /\ caller = "cancel" /\ pending = <<>>
  /\ caller' = "stopped"
  /\ UNCHANGED <<workerVars, heap, flags, queues, status, signalled, moving>>

\* urb_handler_cleanup after its urb_handler_stop: queue_cleanup frees what
\* both queues still hold.
urb_handler_cleanup ==
  /\ caller = "stopped" /\ initialized
  /\ freed' = freed \cup Elems(pending) \cup Elems(completed)
  /\ pending' = <<>> /\ completed' = <<>>
  /\ initialized' = FALSE
  /\ caller' = "done"
  /\ UNCHANGED <<workerVars, created, seqnum, status, running, signalled,
                 moving>>

----------------------------------------------------------------------------
(* The worker thread.                                                      *)

\* Mutation: the worker drains the queue before it looks at the flag.
WorkerTestDrains ==
  /\ worker = "test"
  /\ worker' = IF running \/ pending # <<>> THEN "pop" ELSE "exited"
  /\ UNCHANGED <<sessionVars, queues, status, signalled, current, executed,
                 late>>

\* Mutation: the worker never looks at the flag.
WorkerTestIgnored ==
  /\ worker = "test" /\ worker' = "pop"
  /\ UNCHANGED <<sessionVars, queues, status, signalled, current, executed,
                 late>>

\* while (handler->running)
WorkerTest ==
  /\ worker = "test"
  /\ worker' = IF running THEN "pop" ELSE "exited"
  /\ UNCHANGED <<sessionVars, queues, status, signalled, current, executed,
                 late>>

\* queue_pop(&handler->pending)
WorkerPop ==
  /\ worker = "pop"
  /\ \/ /\ pending = <<>>
        /\ worker' = "park"
        /\ UNCHANGED <<pending, current>>
     \/ /\ pending # <<>>
        /\ worker' = "exec"
        /\ current' = Head(pending)
        /\ pending' = Tail(pending)
  /\ UNCHANGED <<sessionVars, status, completed, signalled, executed, late>>

\* WaitForSingleObject finds the event set and resets it, or blocks.
WorkerPark ==
  /\ worker = "park"
  /\ worker' = IF signalled THEN "test" ELSE "wait"
  /\ signalled' = FALSE
  /\ UNCHANGED <<sessionVars, queues, status, current, executed, late>>

\* The blocked thread is released by the event.
WorkerWake ==
  /\ worker = "wait" /\ signalled
  /\ worker' = "test"
  /\ signalled' = FALSE
  /\ UNCHANGED <<sessionVars, queues, status, current, executed, late>>

\* The 100 ms watchdog.
WorkerTimeout ==
  /\ worker = "wait" /\ ~signalled
  /\ worker' = "test"
  /\ UNCHANGED <<sessionVars, queues, status, signalled, current, executed,
                 late>>

\* WAIT_FAILED: break out of the loop with running still set.
WorkerWaitFailed ==
  /\ WaitMayFail
  /\ worker \in {"park", "wait"}
  /\ worker' = "exited"
  /\ UNCHANGED <<sessionVars, queues, status, signalled, current, executed,
                 late>>

\* Mutation: a failed URB is dropped instead of being completed.
WorkerExecuteDropsFailed ==
  /\ worker = "exec"
  /\ executed' = executed \cup {current}
  /\ \/ status' = [status EXCEPT ![current] = "ok"] /\ worker' = "push" /\ UNCHANGED current
     \/ worker' = "test" /\ current' = 0 /\ UNCHANGED status
  /\ UNCHANGED <<sessionVars, queues, signalled, late>>

\* usb_submit_urb; a failure of any kind is reported as -EIO.
WorkerExecute ==
  /\ worker = "exec"
  /\ executed' = executed \cup {current}
  /\ late' = IF running THEN late ELSE late + 1
  /\ \E st \in {"ok", "EIO"} : status' = [status EXCEPT ![current] = st]
  /\ worker' = "push"
  /\ UNCHANGED <<sessionVars, queues, signalled, current>>

\* queue_push(&handler->completed, entry); nobody waits on its event.
WorkerPush ==
  /\ worker = "push"
  /\ completed' = queue_push(completed, current)
  /\ current' = 0
  /\ worker' = "test"
  /\ UNCHANGED <<sessionVars, status, pending, signalled, executed, late>>

----------------------------------------------------------------------------
SessionStep ==
  \/ urb_handler_start \/ StartFails
  \/ \E s \in Seqnums : urb_handler_submit(s) \/ urb_handler_unlink(s)
  \/ SubmitSignal \/ UnlinkRequeue
  \/ urb_handler_get_completed \/ urb_handler_free_entry
  \/ urb_handler_stop \/ StopSignal \/ StopJoin
  \/ urb_handler_cancel_all \/ CancelDone \/ urb_handler_cleanup

WorkerStep ==
  \/ WorkerTest \/ WorkerPop \/ WorkerPark \/ WorkerWake \/ WorkerTimeout
  \/ WorkerWaitFailed \/ WorkerExecute \/ WorkerPush

\* The handler has been destroyed and its worker is gone.
Finished == caller = "done" /\ worker \in Gone /\ UNCHANGED vars

Init == urb_handler_init
Next == SessionStep \/ WorkerStep \/ Finished
Spec == Init /\ [][Next]_vars

\* The steps the session thread takes once it is inside a call: it is never
\* obliged to make another call, but the call it has made runs to its end.
InsideCall ==
  \/ SubmitSignal \/ UnlinkRequeue \/ StopSignal \/ StopJoin
  \/ urb_handler_cancel_all \/ CancelDone

\* Both threads are scheduled by Windows; a USB transfer ends within its
\* URB_TIMEOUT_MS and a wait within 100 ms.
FairSpec == Spec /\ WF_vars(WorkerStep) /\ WF_vars(InsideCall)

----------------------------------------------------------------------------
(* Properties.                                                             *)

\* Every variable stays in its range; an entry in a queue, in a hand or on
\* the heap's free list is a real entry, never a cleared pointer.
TypeOK ==
  /\ created \in 0 .. MaxUrbs
  /\ seqnum \in [Urbs -> Seqnums \cup {0}]
  /\ status \in [Urbs -> {"none", "ok", "EIO", "ECANCELED"}]
  /\ pending \in Seq(Urbs) /\ completed \in Seq(Urbs)
  /\ freed \in SUBSET Urbs /\ executed \in SUBSET Urbs
  /\ running \in BOOLEAN /\ initialized \in BOOLEAN /\ signalled \in BOOLEAN
  /\ worker \in {"none", "test", "pop", "park", "wait", "exec", "push", "exited"}
  /\ caller \in {"new", "idle", "notify", "requeue", "deliver", "nudge", "join",
                 "cancel", "stopped", "done"}
  /\ current \in 0 .. MaxUrbs /\ moving \in 0 .. MaxUrbs
  /\ late \in Nat
  /\ current # 0 <=> worker \in {"exec", "push"}
  /\ moving # 0 <=> caller \in {"requeue", "deliver"}

Disjoint(A, B) == A \cap B = {}
NoDuplicates(q) == \A i, j \in DOMAIN q : q[i] = q[j] => i = j

\* No URB is lost, duplicated, leaked or used after free: at every instant
\* each entry ever allocated is in exactly one of the two queues, the two
\* threads' hands and the freed heap, and in a queue only once.
EveryUrbAccounted ==
  /\ 1 .. created = Elems(pending) \cup Elems(completed) \cup freed
                    \cup InHand(current) \cup InHand(moving)
  /\ Disjoint(Elems(pending), Elems(completed))
  /\ Disjoint(Elems(pending), freed) /\ Disjoint(Elems(completed), freed)
  /\ Disjoint(InHand(current), InHand(moving))
  /\ \A e \in InHand(current) \cup InHand(moving) :
       e \notin Elems(pending) \cup Elems(completed) \cup freed
  /\ NoDuplicates(pending) /\ NoDuplicates(completed)

\* What a URB's status says of the device is true: a URB reported cancelled
\* never reached the device, a URB reported done or failed did.
StatusTruthful ==
  \A e \in Urbs :
    /\ status[e] = "ECANCELED" => e \notin executed
    /\ status[e] \in {"ok", "EIO"} => e \in executed

\* An URB's outcome is decided once: an unlinked URB is not executed later
\* and an executed one is not turned into a cancelled one.
OutcomeDecidedOnce ==
  [][\A e \in Urbs : status[e] # "none" => status'[e] = status[e]]_vars

Ran(e) == status[e] \in {"ok", "EIO"}

\* Transfers reach the device and are reported in the order of submission,
\* whatever unlinks happen in between: the pending queue is sorted, the
\* entry being executed precedes it, the executed entries of the completed
\* queue precede that one and are sorted, and so is the one being delivered.
SubmissionOrder ==
  /\ \A i, j \in DOMAIN pending : i < j => pending[i] < pending[j]
  /\ current # 0 => \A e \in Elems(pending) : current < e
  /\ \A d \in executed : /\ \A e \in Elems(pending) : d < e
                         /\ current # 0 => d <= current
  /\ \A i, j \in DOMAIN completed :
       i < j /\ Ran(completed[i]) /\ Ran(completed[j])
         => completed[i] < completed[j]
  /\ caller = "deliver" /\ Ran(moving) =>
       \A i \in DOMAIN completed : Ran(completed[i]) => moving < completed[i]

\* The watchdog is not needed for progress: a worker blocked on the event
\* while URBs are pending always has a signal set or on its way.
NoLostWakeup ==
  worker = "wait" /\ pending # <<>> => signalled \/ caller = "notify"

\* Once urb_handler_stop has returned no thread of the handler is left that
\* could use the device or the queues, and no URB is left pending.
StoppedIsQuiet ==
  caller \in {"stopped", "done"} =>
    worker \in Gone /\ current = 0 /\ pending = <<>>

\* After the flag is cleared at most one more URB reaches the device, however
\* many are pending: stop does not wait for the queue to drain.
AtMostOneLate == late <= 1

\* urb_handler_stop always returns: its join cannot wait forever.
StopReturns == caller = "nudge" ~> caller = "stopped"

\* Every submitted URB gets an outcome, even when the session thread makes
\* no further call: only a failed wait, which ends the worker under a handler
\* that is still running, leaves URBs behind (until urb_handler_stop).
EveryUrbDecided ==
  \A e \in Urbs :
    e \in Elems(pending)
      ~> status[e] # "none" \/ (running /\ worker = "exited")
=============================================================================
