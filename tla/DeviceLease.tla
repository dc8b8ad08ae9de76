----------------------------- MODULE DeviceLease ----------------------------
(***************************************************************************)
(* What sharing a device means to its users: a device is used by at most   *)
(* one client at a time.  The servers are compared with this               *)
(* specification through the set of clients that use each device.          *)
(***************************************************************************)
CONSTANTS Clients, Devices

VARIABLE holders     \* the clients that use each device

Free == [d \in Devices |-> {}]

Acquire(c, d) ==
  /\ holders[d] = {}
  /\ holders' = [holders EXCEPT ![d] = {c}]

Release(c, d) ==
  /\ holders[d] = {c}
  /\ holders' = [holders EXCEPT ![d] = {}]

Next == \E c \in Clients, d \in Devices : Acquire(c, d) \/ Release(c, d)

Spec == holders = Free /\ [][Next]_holders
=============================================================================
