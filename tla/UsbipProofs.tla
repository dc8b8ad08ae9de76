---------------------------- MODULE UsbipProofs -----------------------------
(***************************************************************************)
(* What the conversions of common/protocol.c do for every structure and    *)
(* every number (UsbipFormat), and that the two ends of a connection that  *)
(* uses them understand each other (UsbipExchange), for every list of      *)
(* devices, set of URBs and loss of bytes.                                 *)
(*                                                                         *)
(* The argument about a connection.  The bytes of a message are a          *)
(* structure, a sequence of fields; Bytes concatenates them, and a reader  *)
(* with the layout of the structure gets the fields back (FieldsRead).     *)
(* UpRest and DownRest say which bytes each end has still to read, given   *)
(* what was sent and where the end is; the invariant is that just these    *)
(* bytes are in flight.  A send appends the same bytes to both sides of    *)
(* that equation; a read takes the same bytes off both, and since they are *)
(* those of the message sent, the fields read are the fields meant.        *)
(***************************************************************************)
EXTENDS UsbipExchange, SequenceTheorems, WellFoundedInduction, TLAPS

----------------------------------------------------------------------------
(* The conversions of common/protocol.c.                                   *)

\* A word and a half word in memory, and the structures made of them.
Word(f) == f = <<f[1], f[2], f[3], f[4]>>
Half(f) == f = <<f[1], f[2]>>
WordsAt(s, W) == \A i \in W : Word(s[i])
HalvesAt(s, H) == \A i \in H : Half(s[i])

\* Converting a field twice gives the field again.
LEMMA SwapWord ==
  ASSUME NEW f, Word(f)
  PROVE Word(Swapped(f)) /\ Swapped(Swapped(f)) = f
  BY DEF Word, Swapped, swap32, swap16

\* The same for a half word.
LEMMA SwapHalf ==
  ASSUME NEW f, Half(f)
  PROVE Half(Swapped(f)) /\ Swapped(Swapped(f)) = f
  BY DEF Half, Swapped, swap32, swap16

\* Converting the same fields of a structure twice gives the structure again.
LEMMA SwapTwice ==
  ASSUME NEW n \in Nat, NEW s, s = [i \in 1 .. n |-> s[i]],
         NEW F, \A i \in F : i \in 1 .. n => Swapped(Swapped(s[i])) = s[i]
  PROVE SwapFields(SwapFields(s, F), F) = s
  BY DEF SwapFields

\* A basic header survives usbip_send_header_basic and usbip_recv_header_basic.
THEOREM BasicRoundTrip ==
  ASSUME NEW h, h = [i \in 1 .. 3 |-> h[i]], HalvesAt(h, 1 .. 2), WordsAt(h, {3})
  PROVE usbip_unpack_header_basic(usbip_pack_header_basic(h)) = h
<1>1. \A i \in 1 .. 3 : Swapped(Swapped(h[i])) = h[i]
  BY SwapWord, SwapHalf DEF HalvesAt, WordsAt
<1> QED
  BY <1>1, SwapTwice DEF usbip_pack_header_basic, usbip_unpack_header_basic

\* A device survives usbip_send_device and usbip_recv_device.
THEOREM DeviceRoundTrip ==
  ASSUME NEW d, d = [i \in 1 .. 10 |-> d[i]], WordsAt(d, 3 .. 5), HalvesAt(d, 6 .. 8)
  PROVE usbip_unpack_device(usbip_pack_device(d)) = d
<1>1. \A i \in 3 .. 8 : Swapped(Swapped(d[i])) = d[i]
  BY SwapWord, SwapHalf DEF HalvesAt, WordsAt
<1> QED
  BY <1>1, SwapTwice DEF usbip_pack_device, usbip_unpack_device

\* A URB header of any command, known or not, survives usbip_send_urb_header
\* and usbip_recv_urb_header: the reader's switch, on a command it has just
\* converted, takes the branch the sender's took.
THEOREM HeaderRoundTrip ==
  ASSUME NEW h, h = [i \in 1 .. 11 |-> h[i]], WordsAt(h, 1 .. 10)
  PROVE usbip_unpack_header(usbip_pack_header(h, Number32(h[1]))) = h
<1> DEFINE C == 1 .. 5
           U == CommandFields(Number32(h[1]))
           packed == usbip_pack_header(h, Number32(h[1]))
           common == SwapFields(packed, C)
<1>1. U \subseteq 6 .. 10
  BY DEF CommandFields
<1>2. \A i \in 1 .. 10 : Swapped(Swapped(h[i])) = h[i]
  BY SwapWord DEF WordsAt
<1>3. packed = SwapFields(h, C \cup U)
  BY DEF usbip_pack_header
<1>4. common = SwapFields(h, U)
  BY <1>1, <1>2, <1>3 DEF SwapFields
<1>5. common[1] = h[1]
  BY <1>1, <1>4 DEF SwapFields
<1>6. SwapFields(common, U) = h
  <2>1. \A i \in U : i \in 1 .. 11 => Swapped(Swapped(h[i])) = h[i]
    BY <1>1, <1>2
  <2> HIDE DEF U, common
  <2>2. SwapFields(SwapFields(h, U), U) = h
    BY <2>1, SwapTwice
  <2> QED
    BY <1>4, <2>2
<1> QED
  BY <1>5, <1>6 DEF usbip_unpack_header

\* The setup packet and the words a command does not use go out as they are.
THEOREM RawFieldsKept ==
  ASSUME NEW h, h = [i \in 1 .. 11 |-> h[i]], NEW command
  PROVE /\ usbip_pack_header(h, command)[11] = h[11]
        /\ command \in {USBIP_CMD_UNLINK, USBIP_RET_UNLINK} =>
             \A i \in 7 .. 11 : usbip_pack_header(h, command)[i] = h[i]
  BY DEF usbip_pack_header, SwapFields, CommandFields, USBIP_CMD_UNLINK,
         USBIP_RET_UNLINK, USBIP_CMD_SUBMIT, USBIP_RET_SUBMIT

\* The bytes that go out for a number of the host are those of its value
\* modulo 2^32 or 2^16, the most significant first, and this is what Net32
\* and Net16 say; a negative number (a URB's status) included.
THEOREM SwapIsNetworkOrder ==
  ASSUME NEW n \in Int
  PROVE /\ LET b == swap32(Host32(n))
           IN /\ b = Net32(n)
              /\ 16777216 * b[1] + 65536 * b[2] + 256 * b[3] + b[4] = n % 4294967296
        /\ LET b == swap16(Host16(n))
           IN b = Net16(n) /\ 256 * b[1] + b[2] = n % 65536
<1>1. 16777216 * ((n \div 16777216) % 256) + 65536 * ((n \div 65536) % 256)
        + 256 * ((n \div 256) % 256) + (n % 256) = n % 4294967296
  OBVIOUS
<1>2. 256 * ((n \div 256) % 256) + (n % 256) = n % 65536
  OBVIOUS
<1> QED
  BY <1>1, <1>2 DEF Host32, Host16, Net32, Net16, swap32, swap16

\* A number that fits 32 bits is read as it was written.
THEOREM NumberRoundTrip ==
  ASSUME NEW n \in Int, -2147483648 <= n, n <= 2147483647
  PROVE Number32(Host32(n)) = n
  BY DEF Number32, Host32

(* A message from one end to the other, field by field.                    *)

\* A number that fits 16 bits is read as it was written.
LEMMA HalfRoundTrip ==
  ASSUME NEW n \in Nat16
  PROVE  Number16(Host16(n)) = n
<1>1. n \in Int /\ 0 <= n /\ n <= 65535
  BY SMT DEF Nat16
<1>2. (n % 256) + 256 * ((n \div 256) % 256) = n
  BY <1>1, SMT
<1> QED BY <1>2 DEF Number16, Host16

\* The two forms of a number, and the conversion between them.
LEMMA WordForms ==
  ASSUME NEW n \in Int32
  PROVE  /\ Word(Host32(n)) /\ Word(Net32(n)) /\ Number32(Host32(n)) = n
         /\ Swapped(Host32(n)) = Net32(n) /\ Swapped(Net32(n)) = Host32(n)
         /\ swap32(Net32(n)) = Host32(n)
<1>1. Number32(Host32(n)) = n
  <2>1. n \in Int /\ -2147483648 <= n /\ n <= 2147483647
    BY SMT DEF Int32
  <2> QED BY <2>1, NumberRoundTrip, SMT
<1> QED BY <1>1 DEF Word, Host32, Net32, Swapped, swap32

\* The client's device, after usb_device_to_usbip and both conversions, is the
\* server's, whatever its numbers.
THEOREM DeviceUnderstood ==
  ASSUME NEW P, NEW C, NEW d \in
           [path : P, busid : P, busnum : Int32, devnum : Int32, speed : Int32,
            vendor_id : Nat16, product_id : Nat16, bcd_device : Nat16, codes : C,
            num_interfaces : Nat]
  PROVE  DeviceInfo(usbip_unpack_device(usbip_pack_device(usb_device_to_usbip(d)))) = d
<1> DEFINE s == usb_device_to_usbip(d)
<1>1. s = [i \in 1 .. 10 |-> s[i]]
  BY DEF usb_device_to_usbip
<1>2. WordsAt(s, 3 .. 5) /\ HalvesAt(s, 6 .. 8)
  BY DEF usb_device_to_usbip, WordsAt, HalvesAt, Word, Half, Host32, Host16
<1>3. usbip_unpack_device(usbip_pack_device(s)) = s
  <2> HIDE DEF s
  <2> QED BY <1>1, <1>2, DeviceRoundTrip
<1>4. /\ s[1][1] = d.path /\ s[2][1] = d.busid /\ s[9] = d.codes
      /\ s[10][1] = d.num_interfaces
      /\ s[3] = Host32(d.busnum) /\ s[4] = Host32(d.devnum) /\ s[5] = Host32(d.speed)
      /\ s[6] = Host16(d.vendor_id) /\ s[7] = Host16(d.product_id)
      /\ s[8] = Host16(d.bcd_device)
  BY DEF usb_device_to_usbip
<1>5. /\ Number32(s[3]) = d.busnum /\ Number32(s[4]) = d.devnum /\ Number32(s[5]) = d.speed
      /\ Number16(s[6]) = d.vendor_id /\ Number16(s[7]) = d.product_id
      /\ Number16(s[8]) = d.bcd_device
  BY <1>4, WordForms, HalfRoundTrip
<1> HIDE DEF s
<1>6. DeviceInfo(s) = d
  BY <1>4, <1>5 DEF DeviceInfo
<1> QED BY <1>3, <1>6 DEF s

\* A URB header in network order, its ten words given.
NetHeader(w, setup) == [i \in 1 .. 11 |-> IF i = 11 THEN setup ELSE Net32(w[i])]

\* The server converts the words of a CMD_SUBMIT and of a CMD_UNLINK to host
\* order, all those that it reads.
LEMMA HeaderReceived ==
  ASSUME NEW w, \A i \in 1 .. 10 : w[i] \in Int32, NEW setup
  PROVE  LET h == usbip_unpack_header(NetHeader(w, setup))
         IN /\ \A i \in 1 .. 5 : Number32(h[i]) = w[i]
            /\ w[1] = USBIP_CMD_SUBMIT => \A i \in 6 .. 10 : Number32(h[i]) = w[i]
            /\ w[1] = USBIP_CMD_UNLINK => Number32(h[6]) = w[6]
            /\ h[11] = setup
<1> DEFINE n == NetHeader(w, setup)
           common == SwapFields(n, 1 .. 5)
           U == CommandFields(Number32(common[1]))
           h == SwapFields(common, U)
<1>1. /\ \A i \in 1 .. 10 : n[i] = Net32(w[i])
      /\ n[11] = setup /\ DOMAIN n = 1 .. 11
  BY DEF NetHeader
<1> HIDE DEF n
<1>2. /\ \A i \in 1 .. 5 : common[i] = Host32(w[i])
      /\ \A i \in 6 .. 11 : common[i] = n[i]
      /\ DOMAIN common = 1 .. 11
  BY <1>1, WordForms DEF SwapFields
<1>3. Number32(common[1]) = w[1]
  BY <1>2, WordForms
<1> HIDE DEF common
<1>4. /\ U \subseteq 6 .. 10 /\ (w[1] = USBIP_CMD_SUBMIT => U = 6 .. 10)
      /\ (w[1] = USBIP_CMD_UNLINK => 6 \in U)
  BY <1>3 DEF CommandFields, USBIP_CMD_SUBMIT, USBIP_CMD_UNLINK, USBIP_RET_SUBMIT,
     USBIP_RET_UNLINK
<1> HIDE DEF U
<1>5. /\ \A i \in 1 .. 5 : h[i] = Host32(w[i])
      /\ \A i \in U : h[i] = Host32(w[i])
      /\ h[11] = setup
  BY <1>1, <1>2, <1>4, WordForms DEF SwapFields
<1>6. \A i \in 1 .. 5 \cup U : Number32(h[i]) = w[i]
  BY <1>4, <1>5, WordForms
<1>7. usbip_unpack_header(n) = h
  BY DEF usbip_unpack_header, U, common
<1> HIDE DEF h
<1> QED BY <1>4, <1>5, <1>6, <1>7 DEF n

\* The fields of a URB that a driver submits.
SubmitFields(S) ==
  [command : {USBIP_CMD_SUBMIT}, seqnum : Int32, devid : Int32, direction : Int32,
   ep : Int32, transfer_flags : Int32, transfer_buffer_length : Int32,
   start_frame : Int32, number_of_packets : Int32, interval : Int32, setup : S]

\* handle_client_session reads every field of a CMD_SUBMIT as the driver meant
\* it, and a CMD_UNLINK's URB to unlink.
THEOREM CommandsUnderstood ==
  /\ \A S : \A u \in SubmitFields(S) :
       Submit(usbip_unpack_header(NetHeader(
         <<u.command, u.seqnum, u.devid, u.direction, u.ep, u.transfer_flags,
           u.transfer_buffer_length, u.start_frame, u.number_of_packets, u.interval>>,
         u.setup))) = u
  /\ \A seqnum, devid, victim \in Int32 : \A setup :
       Unlink(usbip_unpack_header(NetHeader(
         <<USBIP_CMD_UNLINK, seqnum, devid, 0, 0, victim, 0, 0, 0, 0>>, setup)))
       = [command |-> USBIP_CMD_UNLINK, seqnum |-> seqnum, devid |-> devid,
          direction |-> 0, ep |-> 0, seqnum_to_unlink |-> victim]
<1>0. USBIP_CMD_SUBMIT \in Int32 /\ USBIP_CMD_UNLINK \in Int32 /\ 0 \in Int32
  BY SMT DEF USBIP_CMD_SUBMIT, USBIP_CMD_UNLINK, Int32
<1>1. ASSUME NEW S, NEW u \in SubmitFields(S)
      PROVE  Submit(usbip_unpack_header(NetHeader(
               <<u.command, u.seqnum, u.devid, u.direction, u.ep, u.transfer_flags,
                 u.transfer_buffer_length, u.start_frame, u.number_of_packets, u.interval>>,
               u.setup))) = u
  <2> DEFINE w == <<u.command, u.seqnum, u.devid, u.direction, u.ep, u.transfer_flags,
                    u.transfer_buffer_length, u.start_frame, u.number_of_packets, u.interval>>
             h == usbip_unpack_header(NetHeader(w, u.setup))
  <2>1. (\A i \in 1 .. 10 : w[i] \in Int32) /\ w[1] = USBIP_CMD_SUBMIT
    BY <1>0 DEF SubmitFields
  <2>2. /\ w[1] = u.command /\ w[2] = u.seqnum /\ w[3] = u.devid /\ w[4] = u.direction
        /\ w[5] = u.ep /\ w[6] = u.transfer_flags /\ w[7] = u.transfer_buffer_length
        /\ w[8] = u.start_frame /\ w[9] = u.number_of_packets /\ w[10] = u.interval
    OBVIOUS
  <2> HIDE DEF w
  <2>3. (\A i \in 1 .. 10 : Number32(h[i]) = w[i]) /\ h[11] = u.setup
    <3>1. /\ \A i \in 1 .. 5 : Number32(h[i]) = w[i]
          /\ \A i \in 6 .. 10 : Number32(h[i]) = w[i]
          /\ h[11] = u.setup
      BY <2>1, HeaderReceived
    <3> HIDE DEF h
    <3> QED BY <3>1
  <2> HIDE DEF h
  <2>4. Submit(h) = u
    BY <2>2, <2>3 DEF Submit, SubmitFields
  <2> QED BY <2>4 DEF h, w
<1>2. ASSUME NEW seqnum \in Int32, NEW devid \in Int32, NEW victim \in Int32, NEW setup
      PROVE  Unlink(usbip_unpack_header(NetHeader(
               <<USBIP_CMD_UNLINK, seqnum, devid, 0, 0, victim, 0, 0, 0, 0>>, setup)))
             = [command |-> USBIP_CMD_UNLINK, seqnum |-> seqnum, devid |-> devid,
                direction |-> 0, ep |-> 0, seqnum_to_unlink |-> victim]
  <2> DEFINE w == <<USBIP_CMD_UNLINK, seqnum, devid, 0, 0, victim, 0, 0, 0, 0>>
             h == usbip_unpack_header(NetHeader(w, setup))
  <2>1. (\A i \in 1 .. 10 : w[i] \in Int32) /\ w[1] = USBIP_CMD_UNLINK
    BY <1>0
  <2>2. w[2] = seqnum /\ w[3] = devid /\ w[4] = 0 /\ w[5] = 0 /\ w[6] = victim
    OBVIOUS
  <2> HIDE DEF w
  <2>3. (\A i \in 1 .. 5 : Number32(h[i]) = w[i]) /\ Number32(h[6]) = w[6]
    BY <2>1, HeaderReceived
  <2> HIDE DEF h
  <2>4. Unlink(h) = [command |-> USBIP_CMD_UNLINK, seqnum |-> seqnum, devid |-> devid,
                     direction |-> 0, ep |-> 0, seqnum_to_unlink |-> victim]
    BY <2>1, <2>2, <2>3 DEF Unlink
  <2> QED BY <2>4 DEF h, w
<1> QED BY <1>1, <1>2

\* The words of a header of this command that go out are in network order.
LEMMA HeaderSent ==
  ASSUME NEW w, \A i \in 1 .. 10 : w[i] \in Int32, NEW setup,
         NEW command \in {USBIP_RET_SUBMIT, USBIP_RET_UNLINK},
         NEW h, h = [i \in 1 .. 11 |-> IF i = 11 THEN setup ELSE Host32(w[i])]
  PROVE  LET f == usbip_pack_header(h, command)
         IN /\ \A i \in 1 .. 6 : f[i] = Net32(w[i])
            /\ command = USBIP_RET_SUBMIT => \A i \in 7 .. 10 : f[i] = Net32(w[i])
            /\ f[11] = setup
  BY WordForms DEF usbip_pack_header, SwapFields, CommandFields, USBIP_CMD_SUBMIT,
     USBIP_CMD_UNLINK, USBIP_RET_SUBMIT, USBIP_RET_UNLINK

\* The fields of a completed URB's entry that go into its answer.
EntryFields(S) ==
  [seqnum : Int32, devid : Int32, direction : Int32, endpoint : 0 .. 255, status : Int32,
   actual_length : Int32, start_frame : Int32, number_of_packets : Int32, setup : S]

\* The numbers a driver reads from the words of a header in network order.
Heard(f) == [i \in 1 .. 9 |-> Number32(swap32(f[i]))]

\* A driver reads every field of a RET_SUBMIT, a negative status included, as
\* client_send_urb_completion meant it, and finds the URB's endpoint number
\* although the entry's has a direction bit.
THEOREM ReturnsUnderstood ==
  ASSUME NEW S, NEW e \in EntryFields(S)
  PROVE  LET h == urb_handler_create_return(e)
             f == usbip_pack_header(h, Number32(h[1]))
         IN /\ Heard(f) = <<USBIP_RET_SUBMIT, e.seqnum, e.devid, e.direction,
                            e.endpoint % 16, e.status, e.actual_length, e.start_frame,
                            e.number_of_packets>>
            /\ f[11] = e.setup
            /\ \A ep \in 0 .. 15 : e.endpoint \in {ep, 128 + ep} => Heard(f)[5] = ep
<1> DEFINE w == <<USBIP_RET_SUBMIT, e.seqnum, e.devid, e.direction, e.endpoint % 16,
                  e.status, e.actual_length, e.start_frame, e.number_of_packets, 0>>
           h == urb_handler_create_return(e)
           f == usbip_pack_header(h, Number32(h[1]))
<1>1. USBIP_RET_SUBMIT \in Int32 /\ 0 \in Int32 /\ e.endpoint % 16 \in Int32
  <2>1. e.endpoint \in 0 .. 255
    BY DEF EntryFields
  <2>2. e.endpoint % 16 \in 0 .. 15
    BY <2>1, SMT
  <2>3. \A n \in 0 .. 15 : n \in Int32
    BY SMT DEF Int32
  <2> QED BY <2>2, <2>3, SMT DEF USBIP_RET_SUBMIT
<1>2. \A i \in 1 .. 10 : w[i] \in Int32
  BY <1>1 DEF EntryFields
<1>3. h = [i \in 1 .. 11 |-> IF i = 11 THEN e.setup ELSE Host32(w[i])]
  BY DEF urb_handler_create_return, Zero
<1>4. Number32(h[1]) = USBIP_RET_SUBMIT
  <2>1. h[1] = Host32(USBIP_RET_SUBMIT)
    BY DEF urb_handler_create_return
  <2> QED BY <2>1, <1>1, WordForms
<1>5. /\ w[1] = USBIP_RET_SUBMIT /\ w[2] = e.seqnum /\ w[3] = e.devid
      /\ w[4] = e.direction /\ w[5] = e.endpoint % 16 /\ w[6] = e.status
      /\ w[7] = e.actual_length /\ w[8] = e.start_frame /\ w[9] = e.number_of_packets
  OBVIOUS
<1> HIDE DEF w, h
<1>6. (\A i \in 1 .. 10 : f[i] = Net32(w[i])) /\ f[11] = e.setup
  <2>1. /\ \A i \in 1 .. 6 : f[i] = Net32(w[i])
        /\ \A i \in 7 .. 10 : f[i] = Net32(w[i])
        /\ f[11] = e.setup
    BY <1>2, <1>3, <1>4, HeaderSent
  <2> HIDE DEF f
  <2> QED BY <2>1
<1> HIDE DEF f
<1>7. \A i \in 1 .. 9 : Number32(swap32(f[i])) = w[i]
  BY <1>2, <1>6, WordForms
<1>8. Heard(f) = <<USBIP_RET_SUBMIT, e.seqnum, e.devid, e.direction, e.endpoint % 16,
                   e.status, e.actual_length, e.start_frame, e.number_of_packets>>
  BY <1>5, <1>7 DEF Heard
<1>9. \A ep \in 0 .. 15 : e.endpoint \in {ep, 128 + ep} => e.endpoint % 16 = ep
  OBVIOUS
<1>10. Heard(f)[5] = e.endpoint % 16
  BY <1>5, <1>7 DEF Heard
<1> QED BY <1>6, <1>8, <1>9, <1>10 DEF f, h

\* And of a RET_UNLINK the command, the numbers and the status, though of its
\* union only the first word is converted.
THEOREM UnlinkReturnsUnderstood ==
  ASSUME NEW seqnum \in Int32, NEW devid \in Int32, NEW status \in Int32
  PROVE  LET h == usbip_create_urb_unlink_ret(seqnum, devid, status)
             f == usbip_pack_header(h, Number32(h[1]))
         IN /\ Heard(f)[1] = USBIP_RET_UNLINK /\ Heard(f)[2] = seqnum
            /\ Heard(f)[3] = devid /\ Heard(f)[6] = status
<1> DEFINE w == <<USBIP_RET_UNLINK, seqnum, devid, 0, 0, status, 0, 0, 0, 0>>
           h == usbip_create_urb_unlink_ret(seqnum, devid, status)
           f == usbip_pack_header(h, Number32(h[1]))
<1>1. USBIP_RET_UNLINK \in Int32 /\ 0 \in Int32
  BY SMT DEF USBIP_RET_UNLINK, Int32
<1>2. \A i \in 1 .. 10 : w[i] \in Int32
  BY <1>1
<1>t. PICK tail : tail = Zero \o Zero
  OBVIOUS
<1>3. h = [i \in 1 .. 11 |-> IF i = 11 THEN tail ELSE Host32(w[i])]
  <2>1. h = <<Host32(USBIP_RET_UNLINK), Host32(seqnum), Host32(devid), Host32(0), Host32(0),
              Host32(status), Host32(0), Host32(0), Host32(0), Host32(0), tail>>
    BY <1>t, Zenon DEF usbip_create_urb_unlink_ret, Zero
  <2> QED BY <2>1
<1>4. Number32(h[1]) = USBIP_RET_UNLINK
  <2>1. h[1] = Host32(USBIP_RET_UNLINK)
    BY DEF usbip_create_urb_unlink_ret
  <2> QED BY <2>1, <1>1, WordForms
<1>5. w[1] = USBIP_RET_UNLINK /\ w[2] = seqnum /\ w[3] = devid /\ w[6] = status
  OBVIOUS
<1> HIDE DEF w, h
<1>6. \A i \in 1 .. 6 : f[i] = Net32(w[i])
  BY <1>2, <1>3, <1>4, HeaderSent
<1> HIDE DEF f
<1>7. \A i \in 1 .. 6 : Number32(swap32(f[i])) = w[i]
  BY <1>2, <1>6, WordForms
<1>8. \A i \in 1 .. 6 : Heard(f)[i] = w[i]
  BY <1>7 DEF Heard
<1> QED BY <1>5, <1>8 DEF f, h

----------------------------------------------------------------------------
(* Sequences of bytes, and the structures they are cut into.               *)

\* What a place of a message holds: a byte, or a name that stands for its bytes.
Place == Int \cup Names
\* Bytes on their way, and the structures they are cut into, field by field.
ByteSeq == Seq(Place)
Struct == Seq(ByteSeq)
\* The concatenation of two runs of bytes, for the provers an opaque operator.
Cat(a, b) == a \o b

\* A set of numbers that is not empty has a least one.
LEMMA LeastNumber ==
  ASSUME NEW T \in SUBSET Nat, T # {}
  PROVE  \E n \in T : \A m \in T : n <= m
  <1> DEFINE less == OpToRel(<, Nat)
  <1>2. IsWellFoundedOn(less, Nat)
    BY NatLessThanWellFounded, Zenon
  <1>3. \A j, k \in Nat : <<j, k>> \in less <=> j < k
    BY DEF OpToRel
  <1> HIDE DEF less
  <1>4. PICK k \in T : \A j \in T : <<j, k>> \notin less
    BY <1>2, WFMin
  <1>5. ASSUME NEW j \in T PROVE k <= j
    <2>1. j \in Nat /\ k \in Nat /\ ~(j < k)
      BY <1>3, <1>4
    <2> QED BY <2>1
  <1> QED BY <1>5

\* Induction: a set that holds 0, and n + 1 with n, holds every number (else it
\* lacks a least one, which is neither).
LEMMA NatInd ==
  ASSUME NEW T, 0 \in T, \A n \in Nat : n \in T => n + 1 \in T
  PROVE  \A n \in Nat : n \in T
  <1> SUFFICES ASSUME Nat \ T # {} PROVE FALSE
    OBVIOUS
  <1>1. PICK n \in Nat \ T : \A m \in Nat \ T : n <= m
    BY LeastNumber
  <1>2. n # 0 /\ n - 1 \in Nat
    BY <1>1
  <1>3. n - 1 \in T
    BY <1>1, <1>2
  <1>4. (n - 1) + 1 \in T
    BY <1>2, <1>3
  <1> QED BY <1>4, <1>1

\* The bytes of a concatenation, one by one.
LEMMA CatFacts ==
  ASSUME NEW a \in ByteSeq, NEW b \in ByteSeq
  PROVE  /\ Len(a) \in Nat /\ Len(b) \in Nat
         /\ Cat(a, b) \in ByteSeq /\ Len(Cat(a, b)) = Len(a) + Len(b)
         /\ \A i \in 1 .. Len(a) : Cat(a, b)[i] = a[i]
         /\ \A i \in 1 .. Len(b) : Cat(a, b)[Len(a) + i] = b[i]
  BY ConcatProperties DEF ByteSeq, Cat

\* Concatenation is associative.
LEMMA CatAssoc ==
  ASSUME NEW a \in ByteSeq, NEW b \in ByteSeq, NEW c \in ByteSeq
  PROVE  Cat(Cat(a, b), c) = Cat(a, Cat(b, c))
  BY ConcatAssociative DEF ByteSeq, Cat

\* The empty run is neutral.
LEMMA CatEmpty ==
  ASSUME NEW a \in ByteSeq
  PROVE  <<>> \in ByteSeq /\ Cat(a, <<>>) = a /\ Cat(<<>>, a) = a
  BY ConcatEmptySeq DEF ByteSeq, Cat

\* The fields of a structure.
LEMMA StructFacts ==
  ASSUME NEW s \in Struct
  PROVE  Len(s) \in Nat /\ DOMAIN s = 1 .. Len(s) /\ \A i \in 1 .. Len(s) : s[i] \in ByteSeq
  BY DEF Struct

\* f gives the concatenation of the first i fields of s, for every i up to n.
Recurrence(s, n, f) ==
  /\ f = [i \in 0 .. n |-> f[i]] /\ f[0] = <<>>
  /\ \A i \in 1 .. n : f[i] = Cat(f[i - 1], s[i])

\* The function that Bytes defines by recursion.
FieldSums(s) ==
  CHOOSE first : first = [i \in 0 .. Len(s) |-> IF i = 0 THEN <<>> ELSE first[i - 1] \o s[i]]

\* The recursion of Bytes has a solution for every number of fields.
LEMMA FieldSumsExist ==
  ASSUME NEW s
  PROVE  \A n \in Nat : \E f : Recurrence(s, n, f)
  <1> DEFINE T == {n \in Nat : \E f : Recurrence(s, n, f)}
  <1>1. 0 \in T
    <2>1. Recurrence(s, 0, [i \in 0 .. 0 |-> <<>>])
      BY DEF Recurrence
    <2> QED BY <2>1
  <1>2. ASSUME NEW n \in Nat, n \in T PROVE n + 1 \in T
    <2>1. PICK f : Recurrence(s, n, f)
      BY <1>2
    <2> DEFINE g == [i \in 0 .. n + 1 |-> IF i = n + 1 THEN Cat(f[n], s[i]) ELSE f[i]]
    <2>2. Recurrence(s, n + 1, g)
      BY <2>1 DEF Recurrence
    <2> QED BY <2>2
  <1> HIDE DEF T
  <1>3. \A n \in Nat : n \in T
    BY <1>1, <1>2, NatInd
  <1> QED BY <1>3 DEF T

\* So Bytes computes what its recursion says.
LEMMA BytesRecurrence ==
  ASSUME NEW s, Len(s) \in Nat
  PROVE  Recurrence(s, Len(s), FieldSums(s)) /\ Bytes(s) = FieldSums(s)[Len(s)]
  <1>1. PICK f : Recurrence(s, Len(s), f)
    BY FieldSumsExist
  <1>2. f = [i \in 0 .. Len(s) |-> IF i = 0 THEN <<>> ELSE f[i - 1] \o s[i]]
    BY <1>1 DEF Recurrence, Cat
  <1> DEFINE p == FieldSums(s)
  <1>3. p = [i \in 0 .. Len(s) |-> IF i = 0 THEN <<>> ELSE p[i - 1] \o s[i]]
    BY <1>2, Zenon DEF FieldSums
  <1> HIDE DEF p
  <1>4. Recurrence(s, Len(s), p)
    BY <1>3 DEF Recurrence, Cat
  <1>5. Bytes(s) = p[Len(s)]
    BY Zenon DEF Bytes, FieldSums, p
  <1> QED BY <1>4, <1>5 DEF p

\* The bytes of the first n fields are bytes.
LEMMA FieldSumsType ==
  ASSUME NEW s \in Struct
  PROVE  \A n \in 0 .. Len(s) : FieldSums(s)[n] \in ByteSeq
  <1> DEFINE p == FieldSums(s)
             T == {n \in Nat : n <= Len(s) => p[n] \in ByteSeq}
  <1>1. Len(s) \in Nat /\ Recurrence(s, Len(s), p)
    BY StructFacts, BytesRecurrence
  <1> HIDE DEF p
  <1>2. 0 \in T
    BY <1>1, EmptySeq DEF Recurrence, ByteSeq
  <1>3. ASSUME NEW n \in Nat, n \in T PROVE n + 1 \in T
    <2> SUFFICES ASSUME n + 1 <= Len(s) PROVE p[n + 1] \in ByteSeq
      OBVIOUS
    <2>1. n + 1 \in 1 .. Len(s) /\ n <= Len(s)
      BY <1>1
    <2>2. p[n] \in ByteSeq /\ s[n + 1] \in ByteSeq
      BY <1>3, <2>1, StructFacts
    <2>3. p[n + 1] = Cat(p[n], s[n + 1])
      BY <1>1, <2>1 DEF Recurrence
    <2> QED BY <2>2, <2>3, CatFacts
  <1> HIDE DEF T
  <1>4. \A n \in Nat : n \in T
    BY <1>2, <1>3, NatInd
  <1> QED BY <1>1, <1>4 DEF T, p

\* The bytes of a structure are bytes.
LEMMA BytesType ==
  ASSUME NEW s \in Struct
  PROVE  Bytes(s) \in ByteSeq
  BY StructFacts, BytesRecurrence, FieldSumsType

\* A structure without fields has no bytes.
LEMMA BytesEmpty == Bytes(<<>>) = <<>> /\ <<>> \in Struct
  <1>1. Len(<<>>) = 0 /\ <<>> \in Struct
    BY EmptySeq DEF Struct
  <1> QED BY <1>1, BytesRecurrence DEF Recurrence

\* A structure with one field more.
LEMMA AppendFacts ==
  ASSUME NEW s \in Struct, NEW x \in ByteSeq
  PROVE  /\ Append(s, x) \in Struct /\ Len(Append(s, x)) = Len(s) + 1
         /\ Append(s, x)[Len(s) + 1] = x
         /\ \A i \in 1 .. Len(s) : Append(s, x)[i] = s[i]
  BY AppendProperties DEF Struct

\* The bytes of a structure with one field more: those of the field follow.
LEMMA BytesAppend ==
  ASSUME NEW s \in Struct, NEW x \in ByteSeq
  PROVE  Bytes(Append(s, x)) = Cat(Bytes(s), x)
  <1>t. PICK t : t = Append(s, x)
    OBVIOUS
  <1>l. PICK l \in Nat : l = Len(s)
    BY StructFacts
  <1>1. Len(t) = l + 1 /\ t[l + 1] = x /\ \A i \in 1 .. l : t[i] = s[i]
    BY <1>t, <1>l, AppendFacts
  <1> DEFINE p == FieldSums(s)
             q == FieldSums(t)
             T == {n \in Nat : n <= l => q[n] = p[n]}
  <1>2. Bytes(s) = p[l] /\ Recurrence(s, l, p)
    BY <1>l, BytesRecurrence
  <1>3. Bytes(t) = q[l + 1] /\ Recurrence(t, l + 1, q)
    BY <1>1, BytesRecurrence
  <1> HIDE DEF p, q
  <1>4. 0 \in T
    BY <1>2, <1>3 DEF Recurrence
  <1>5. ASSUME NEW n \in Nat, n \in T PROVE n + 1 \in T
    BY <1>1, <1>2, <1>3, <1>5 DEF Recurrence
  <1> HIDE DEF T
  <1>6. \A n \in Nat : n \in T
    BY <1>4, <1>5, NatInd
  <1>7. q[l] = p[l]
    BY <1>6 DEF T
  <1>8. q[l + 1] = Cat(q[l], x)
    <2>1. l + 1 \in 1 .. l + 1 /\ (l + 1) - 1 = l
      OBVIOUS
    <2> QED BY <1>1, <1>3, <2>1 DEF Recurrence
  <1> QED BY <1>2, <1>3, <1>7, <1>8, <1>t

\* A structure that has fields has a last one, and a first one.
LEMMA StructCases ==
  ASSUME NEW s \in Struct, Len(s) > 0
  PROVE  /\ \E r \in Struct, x \in ByteSeq : s = Append(r, x)
         /\ Tail(s) \in Struct /\ Len(Tail(s)) = Len(s) - 1
         /\ \A i \in 1 .. Len(s) - 1 : Tail(s)[i] = s[i + 1]
  <1>1. s # <<>>
    BY EmptySeq
  <1> QED BY <1>1, SequenceEmptyOrAppend, HeadTailProperties DEF Struct

\* The first field and the last are taken off in either order.
LEMMA TailAppend ==
  ASSUME NEW r \in Struct, Len(r) > 0, NEW x
  PROVE  Tail(Append(r, x)) = Append(Tail(r), x)
  <1>1. r # <<>>
    BY EmptySeq
  <1> QED BY <1>1, HeadTailAppend DEF Struct

\* The bytes of a structure begin with those of its first field.
LEMMA BytesFirst ==
  ASSUME NEW s \in Struct, Len(s) > 0
  PROVE  Bytes(s) = Cat(s[1], Bytes(Tail(s)))
  <1> DEFINE Q(n) == \A t \in Struct : Len(t) = n + 1 => Bytes(t) = Cat(t[1], Bytes(Tail(t)))
             T == {n \in Nat : Q(n)}
  <1>1. Q(0)
    <2> SUFFICES ASSUME NEW t \in Struct, Len(t) = 1
                 PROVE Bytes(t) = Cat(t[1], Bytes(Tail(t)))
      OBVIOUS
    <2>0. Len(t) > 0
      OBVIOUS
    <2>1. PICK r \in Struct, x \in ByteSeq : t = Append(r, x)
      BY <2>0, StructCases, Zenon
    <2>2. Len(r) = 0 /\ Len(r) \in Nat
      BY <2>1, AppendFacts, StructFacts
    <2>3. r = <<>>
      BY <2>2, EmptySeq DEF Struct
    <2>4. t[1] = x
      <3>1. Append(r, x)[Len(r) + 1] = x
        BY AppendFacts
      <3> QED BY <2>1, <2>2, <3>1
    <2>5. Tail(t) = <<>>
      <3>1. r \in Seq(ByteSeq)
        BY DEF Struct
      <3>2. Tail(Append(r, x)) = IF r = <<>> THEN <<>> ELSE Append(Tail(r), x)
        BY <3>1, HeadTailAppend, Zenon
      <3> QED BY <2>1, <2>3, <3>2, Zenon
    <2>6. Bytes(t) = Cat(Bytes(r), x)
      BY <2>1, BytesAppend
    <2> QED BY <2>3, <2>4, <2>5, <2>6, BytesEmpty, CatEmpty
  <1>2. ASSUME NEW n \in Nat, Q(n) PROVE Q(n + 1)
    <2> SUFFICES ASSUME NEW t \in Struct, Len(t) = n + 2
                 PROVE Bytes(t) = Cat(t[1], Bytes(Tail(t)))
      OBVIOUS
    <2>1. PICK r \in Struct, x \in ByteSeq : t = Append(r, x)
      BY StructCases
    <2>2. Len(r) = n + 1 /\ t[1] = r[1] /\ r[1] \in ByteSeq
      BY <2>1, AppendFacts, StructFacts
    <2>3. Tail(r) \in Struct /\ Tail(t) = Append(Tail(r), x)
      BY <2>1, <2>2, StructCases, TailAppend
    <2>4. Bytes(t) = Cat(Bytes(r), x) /\ Bytes(Tail(t)) = Cat(Bytes(Tail(r)), x)
      BY <2>1, <2>3, BytesAppend
    <2>5. Bytes(r) = Cat(r[1], Bytes(Tail(r)))
      BY <1>2, <2>2
    <2>6. Bytes(Tail(r)) \in ByteSeq
      BY <2>3, BytesType
    <2>7. Cat(Cat(r[1], Bytes(Tail(r))), x) = Cat(r[1], Cat(Bytes(Tail(r)), x))
      BY <2>2, <2>6, CatAssoc
    <2> QED BY <2>2, <2>4, <2>5, <2>7
  <1>3. 0 \in T /\ \A n \in Nat : n \in T => n + 1 \in T
    BY <1>1, <1>2
  <1> HIDE DEF T
  <1>4. \A n \in Nat : n \in T
    BY <1>3, NatInd
  <1>5. Len(s) - 1 \in Nat /\ Len(s) = (Len(s) - 1) + 1
    BY StructFacts
  <1> QED BY <1>4, <1>5 DEF T

\* off[i] is the number of bytes before the i-th field.
Offsets(s, off) ==
  /\ off[1] = 0
  /\ \A i \in 1 .. Len(s) : off[i] \in Nat /\ off[i + 1] = off[i] + Len(s[i])

\* Every field is in the bytes of its structure where the offsets say.
LEMMA FieldsInBytes ==
  ASSUME NEW s \in Struct, NEW off, Offsets(s, off)
  PROVE  /\ Len(Bytes(s)) = off[Len(s) + 1]
         /\ \A i \in 1 .. Len(s) :
              /\ off[i] + Len(s[i]) <= off[Len(s) + 1]
              /\ \A j \in 1 .. Len(s[i]) : Bytes(s)[off[i] + j] = s[i][j]
  <1> DEFINE p == FieldSums(s)
             Q(n) == /\ Len(p[n]) = off[n + 1]
                     /\ \A i \in 1 .. n :
                          /\ off[i] + Len(s[i]) <= off[n + 1]
                          /\ \A j \in 1 .. Len(s[i]) : p[n][off[i] + j] = s[i][j]
             T == {n \in Nat : n <= Len(s) => Q(n)}
  <1>1. Bytes(s) = p[Len(s)] /\ Len(s) \in Nat /\ Recurrence(s, Len(s), p)
    BY BytesRecurrence, StructFacts
  <1>2. \A n \in 0 .. Len(s) : p[n] \in ByteSeq
    BY FieldSumsType
  <1> HIDE DEF p
  <1>3. 0 \in T
    <2>1. p[0] = <<>>
      BY <1>1 DEF Recurrence
    <2>2. Len(p[0]) = 0
      BY <2>1, EmptySeq
    <2> QED BY <2>2 DEF Offsets
  <1>4. ASSUME NEW n \in Nat, n \in T PROVE n + 1 \in T
    <2> SUFFICES ASSUME n + 1 <= Len(s) PROVE Q(n + 1)
      OBVIOUS
    <2>0. n \in 0 .. Len(s) /\ n + 1 \in 1 .. Len(s)
      BY <1>1
    <2>1. Q(n)
      BY <2>0, <1>4
    <2>2. PICK a \in ByteSeq : a = p[n]
      BY <2>0, <1>2
    <2>3. PICK b \in ByteSeq : b = s[n + 1]
      BY <2>0, StructFacts
    <2>4. p[n + 1] = Cat(a, b)
      BY <2>0, <1>1, <2>2, <2>3 DEF Recurrence
    <2>5. PICK la \in Nat, lb \in Nat : la = Len(a) /\ lb = Len(b)
      BY CatFacts
    <2>6. /\ Len(Cat(a, b)) = la + lb
          /\ \A i \in 1 .. la : Cat(a, b)[i] = a[i]
          /\ \A i \in 1 .. lb : Cat(a, b)[la + i] = b[i]
      BY <2>5, CatFacts
    <2>7. la = off[n + 1] /\ off[n + 2] = la + lb
      <3>1. off[n + 1] \in Nat /\ off[(n + 1) + 1] = off[n + 1] + Len(s[n + 1])
        BY <2>0 DEF Offsets
      <3> QED BY <3>1, <2>1, <2>2, <2>3, <2>5
    <2>8. Len(p[n + 1]) = off[n + 2]
      BY <2>4, <2>6, <2>7
    <2>9. ASSUME NEW i \in 1 .. n + 1
          PROVE  /\ off[i] + Len(s[i]) <= off[n + 2]
                 /\ \A j \in 1 .. Len(s[i]) : p[n + 1][off[i] + j] = s[i][j]
      <3>1. CASE i = n + 1
        <4>1. s[i] = b /\ off[i] = la /\ Len(s[i]) = lb
          BY <3>1, <2>3, <2>5, <2>7
        <4>2. \A j \in 1 .. lb : p[n + 1][la + j] = b[j]
          BY <2>4, <2>6
        <4> QED BY <4>1, <4>2, <2>7
      <3>2. CASE i \in 1 .. n
        <4>1. /\ off[i] + Len(s[i]) <= la
              /\ \A j \in 1 .. Len(s[i]) : a[off[i] + j] = s[i][j]
          BY <2>1, <2>2, <2>7, <3>2
        <4>2. off[i] \in Nat /\ s[i] \in ByteSeq
          BY <2>0, <3>2, StructFacts DEF Offsets
        <4>3. PICK ls \in Nat : ls = Len(s[i])
          BY <4>2, CatFacts
        <4>4. off[i] + ls <= la + lb
          BY <4>1, <4>2, <4>3
        <4>5. ASSUME NEW j \in 1 .. ls PROVE Cat(a, b)[off[i] + j] = s[i][j]
          <5>1. off[i] + j \in 1 .. la
            BY <4>1, <4>2, <4>3
          <5> QED BY <5>1, <4>1, <4>3, <2>6
        <4> QED BY <4>3, <4>4, <4>5, <2>4, <2>7
      <3> QED BY <3>1, <3>2
    <2> QED BY <2>8, <2>9
  <1> HIDE DEF T
  <1>5. \A n \in Nat : n \in T
    BY <1>3, <1>4, NatInd
  <1> QED BY <1>1, <1>5 DEF T

\* A part of b that agrees with f, byte by byte, is f.
LEMMA SubSeqIs ==
  ASSUME NEW b, NEW f \in ByteSeq, NEW m \in Nat,
         \A j \in 1 .. Len(f) : b[m + j] = f[j]
  PROVE  SubSeq(b, m + 1, m + Len(f)) = f
  <1>1. Len(f) \in Nat /\ \A j \in 1 .. Len(f) : f[j] \in Place
    BY DEF ByteSeq
  <1>l. PICK l \in Nat : l = Len(f)
    BY <1>1
  <1>2. \A i \in m + 1 .. m + l : b[i] \in Place
    <2> SUFFICES ASSUME NEW i \in m + 1 .. m + l PROVE b[i] \in Place
      OBVIOUS
    <2>1. i - m \in 1 .. l /\ m + (i - m) = i
      OBVIOUS
    <2> QED BY <1>1, <1>l, <2>1
  <1>g. PICK g : g = SubSeq(b, m + 1, m + l)
    OBVIOUS
  <1>3. /\ g \in Seq(Place) /\ Len(g) = IF m + 1 <= m + l THEN (m + l) - (m + 1) + 1 ELSE 0
        /\ \A i \in 1 .. (m + l) - (m + 1) + 1 : g[i] = b[(m + 1) + i - 1]
    BY <1>2, <1>g, SubSeqProperties
  <1>4. Len(g) = l
    BY <1>3
  <1>5. \A i \in 1 .. l : g[i] = f[i]
    <2> SUFFICES ASSUME NEW i \in 1 .. l PROVE g[i] = f[i]
      OBVIOUS
    <2>1. i \in 1 .. (m + l) - (m + 1) + 1 /\ (m + 1) + i - 1 = m + i
      OBVIOUS
    <2>2. g[i] = b[m + i]
      BY <1>3, <2>1
    <2> QED BY <1>l, <2>2
  <1>6. f \in Seq(Place)
    BY DEF ByteSeq
  <1> QED BY <1>3, <1>4, <1>5, <1>6, <1>l, <1>g, SeqEqual

\* The bytes b begin with the bytes x.
Starts(b, x) == \A i \in 1 .. Len(x) : b[i] = x[i]

\* The layout a reader cuts bytes by is the one of the structure s.
LayoutOf(s, layout, off) ==
  /\ Offsets(s, off) /\ DOMAIN layout = 1 .. Len(s)
  /\ \A i \in 1 .. Len(s) : layout[i][1] = off[i] + 1 /\ layout[i][2] = off[i + 1]

\* A reader with the layout of s finds the fields of s in bytes that begin
\* with the bytes of s.
LEMMA FieldsRead ==
  ASSUME NEW s \in Struct, NEW layout, NEW off, LayoutOf(s, layout, off),
         NEW b, Starts(b, Bytes(s))
  PROVE  Fields(b, layout) = s
  <1>0. /\ Offsets(s, off) /\ DOMAIN layout = 1 .. Len(s)
        /\ \A i \in 1 .. Len(s) : layout[i][1] = off[i] + 1 /\ layout[i][2] = off[i + 1]
        /\ \A k \in 1 .. Len(Bytes(s)) : b[k] = Bytes(s)[k]
    BY DEF LayoutOf, Starts
  <1>1. ASSUME NEW i \in 1 .. Len(s) PROVE SubSeq(b, layout[i][1], layout[i][2]) = s[i]
    <2>0. s[i] \in ByteSeq
      BY StructFacts
    <2>l. PICK l \in Nat : l = Len(s[i])
      BY <2>0, CatFacts
    <2>1. off[i] \in Nat /\ layout[i][1] = off[i] + 1 /\ layout[i][2] = off[i] + l
      BY <1>0, <2>l DEF Offsets
    <2>2. /\ off[i] + l <= Len(Bytes(s))
          /\ \A j \in 1 .. l : Bytes(s)[off[i] + j] = s[i][j]
      BY <1>0, <2>l, FieldsInBytes
    <2>3. Len(Bytes(s)) \in Nat
      BY BytesType, CatFacts
    <2>4. ASSUME NEW j \in 1 .. l PROVE b[off[i] + j] = s[i][j]
      <3>1. off[i] + j \in 1 .. Len(Bytes(s))
        BY <2>1, <2>2, <2>3
      <3> QED BY <1>0, <2>2, <3>1
    <2>5. \A j \in 1 .. Len(s[i]) : b[off[i] + j] = s[i][j]
      BY <2>l, <2>4, Zenon
    <2>6. SubSeq(b, off[i] + 1, off[i] + Len(s[i])) = s[i]
      BY <2>0, <2>1, <2>5, SubSeqIs, Zenon
    <2> QED BY <2>l, <2>1, <2>6, Zenon
  <1>2. s = [i \in 1 .. Len(s) |-> s[i]]
    BY DEF Struct
  <1>3. Fields(b, layout) = [i \in 1 .. Len(s) |-> SubSeq(b, layout[i][1], layout[i][2])]
    BY <1>0 DEF Fields
  <1>4. [i \in 1 .. Len(s) |-> SubSeq(b, layout[i][1], layout[i][2])]
          = [i \in 1 .. Len(s) |-> s[i]]
    BY <1>1, Zenon
  <1> QED BY <1>2, <1>3, <1>4, Zenon

\* Bytes have a length and their places.
LEMMA ByteSeqFacts ==
  ASSUME NEW a \in ByteSeq
  PROVE  Len(a) \in Nat /\ (\A i \in 1 .. Len(a) : a[i] \in Place) /\ DOMAIN a = 1 .. Len(a)
  BY DEF ByteSeq

\* Runs of bytes are equal when they agree everywhere.
LEMMA ByteSeqEqual ==
  ASSUME NEW a \in ByteSeq, NEW b \in ByteSeq, Len(a) = Len(b),
         \A i \in 1 .. Len(a) : a[i] = b[i]
  PROVE  a = b
  BY SeqEqual DEF ByteSeq

\* A part of a sequence, element by element.
LEMMA PartFacts ==
  ASSUME NEW S, NEW b \in Seq(S), NEW m \in 0 .. Len(b), NEW n \in m .. Len(b)
  PROVE  LET g == SubSeq(b, m + 1, n)
         IN g \in Seq(S) /\ Len(g) = n - m /\ \A i \in 1 .. n - m : g[i] = b[m + i]
  <1>l. PICK l \in Nat : l = Len(b)
    OBVIOUS
  <1>0. \A i \in 1 .. l : b[i] \in S
    BY <1>l
  <1>n. m \in Nat /\ n \in Nat /\ m <= n /\ n <= l
    BY <1>l
  <1>1. \A i \in m + 1 .. n : b[i] \in S
    BY <1>0, <1>n
  <1>g. PICK g : g = SubSeq(b, m + 1, n)
    OBVIOUS
  <1>2. /\ g \in Seq(S) /\ Len(g) = IF m + 1 <= n THEN n - (m + 1) + 1 ELSE 0
        /\ \A i \in 1 .. n - (m + 1) + 1 : g[i] = b[(m + 1) + i - 1]
    <2>1. m + 1 \in Int /\ n \in Int
      BY <1>n
    <2> QED BY <2>1, <1>1, <1>g, SubSeqProperties
  <1>3. Len(g) = n - m
    BY <1>2, <1>n
  <1>4. ASSUME NEW i \in 1 .. n - m PROVE g[i] = b[m + i]
    <2>1. i \in 1 .. n - (m + 1) + 1 /\ (m + 1) + i - 1 = m + i
      BY <1>n
    <2> QED BY <1>2, <2>1
  <1> QED BY <1>g, <1>2, <1>3, <1>4

\* What is left of a sequence when n elements are taken.
LEMMA RestFacts ==
  ASSUME NEW S, NEW b \in Seq(S), NEW n \in 0 .. Len(b)
  PROVE  /\ Rest(b, n) \in Seq(S) /\ Len(Rest(b, n)) = Len(b) - n
         /\ \A i \in 1 .. Len(b) - n : Rest(b, n)[i] = b[n + i]
  <1>1. Len(b) \in n .. Len(b)
    BY LenProperties
  <1> QED BY <1>1, PartFacts DEF Rest

\* The bytes in flight are those that are left to read or, when the sender
\* may have gone, the first of them.
InFlight(bytes, rest, cut) == IF cut THEN IsPrefix(bytes, rest) ELSE bytes = rest

\* InFlight, byte by byte.
LEMMA InFlightFacts ==
  ASSUME NEW b \in ByteSeq, NEW r \in ByteSeq, NEW cut \in BOOLEAN
  PROVE  InFlight(b, r, cut) <=> /\ Len(b) <= Len(r) /\ (~cut => Len(b) = Len(r))
                                 /\ \A i \in 1 .. Len(b) : b[i] = r[i]
  <1>0. Len(b) \in Nat /\ Len(r) \in Nat
    BY ByteSeqFacts
  <1>1. CASE ~cut
    BY <1>0, <1>1, ByteSeqEqual DEF InFlight
  <1>2. CASE cut
    <2> SUFFICES ASSUME Len(b) <= Len(r)
                 PROVE SubSeq(b, 1, Len(b)) = SubSeq(r, 1, Len(b))
                         <=> \A i \in 1 .. Len(b) : b[i] = r[i]
      BY <1>2 DEF InFlight, IsPrefix
    <2> DEFINE n == Len(b)
    <2>1. SubSeq(b, 1, n) = b
      BY SubSeqFull DEF ByteSeq
    <2>g. PICK g : g = SubSeq(r, 1, n)
      OBVIOUS
    <2>2. g \in ByteSeq /\ Len(g) = n /\ \A i \in 1 .. n : g[i] = r[i]
      <3>1. 0 \in 0 .. Len(r) /\ n \in 0 .. Len(r) /\ 0 + 1 = 1 /\ n - 0 = n
        BY <1>0
      <3>2. r \in Seq(Place)
        BY DEF ByteSeq
      <3>3. /\ SubSeq(r, 0 + 1, n) \in Seq(Place) /\ Len(SubSeq(r, 0 + 1, n)) = n - 0
            /\ \A i \in 1 .. n - 0 : SubSeq(r, 0 + 1, n)[i] = r[0 + i]
        BY <3>1, <3>2, PartFacts
      <3> QED BY <1>0, <2>g, <3>1, <3>3 DEF ByteSeq
    <2>3. b = g <=> \A i \in 1 .. n : b[i] = r[i]
      BY <2>2, ByteSeqEqual
    <2> QED BY <2>1, <2>g, <2>3
  <1> QED BY <1>1, <1>2

\* When the bytes of x are taken those of y are left.
LEMMA Taken ==
  ASSUME NEW b \in ByteSeq, NEW x \in ByteSeq, NEW y \in ByteSeq, NEW cut \in BOOLEAN,
         InFlight(b, Cat(x, y), cut), Len(b) >= Len(x)
  PROVE  /\ Rest(b, Len(x)) \in ByteSeq /\ InFlight(Rest(b, Len(x)), y, cut)
         /\ Starts(b, x)
  <1>l. PICK lb \in Nat, lx \in Nat, ly \in Nat : lb = Len(b) /\ lx = Len(x) /\ ly = Len(y)
    BY ByteSeqFacts
  <1>c. PICK c \in ByteSeq : c = Cat(x, y)
    BY CatFacts
  <1>1. Len(c) = lx + ly /\ (\A i \in 1 .. lx : c[i] = x[i])
          /\ \A i \in 1 .. ly : c[lx + i] = y[i]
    <2>1. /\ Len(Cat(x, y)) = Len(x) + Len(y)
          /\ \A i \in 1 .. Len(x) : Cat(x, y)[i] = x[i]
          /\ \A i \in 1 .. Len(y) : Cat(x, y)[Len(x) + i] = y[i]
      BY CatFacts
    <2> QED BY <1>l, <1>c, <2>1, Zenon
  <1>2. lb <= lx + ly /\ (~cut => lb = lx + ly) /\ \A i \in 1 .. lb : b[i] = c[i]
    <2>1. InFlight(b, c, cut)
      BY <1>c
    <2>2. Len(b) <= Len(c) /\ (~cut => Len(b) = Len(c)) /\ \A i \in 1 .. Len(b) : b[i] = c[i]
      BY <2>1, InFlightFacts
    <2> QED BY <1>l, <1>1, <2>2
  <1>r. PICK r : r = Rest(b, lx)
    OBVIOUS
  <1>3. r \in ByteSeq /\ Len(r) = lb - lx /\ \A i \in 1 .. lb - lx : r[i] = b[lx + i]
    <2>1. lx \in 0 .. lb
      BY <1>l
    <2> QED BY <1>l, <1>r, <2>1, RestFacts DEF ByteSeq
  <1>4. /\ Len(r) <= Len(y) /\ (~cut => Len(r) = Len(y))
        /\ \A i \in 1 .. Len(r) : r[i] = y[i]
    <2>1. Len(r) <= ly /\ (~cut => Len(r) = ly)
      BY <1>2, <1>3
    <2>2. ASSUME NEW i \in 1 .. lb - lx PROVE r[i] = y[i]
      <3>1. lx + i \in 1 .. lb /\ i \in 1 .. ly
        BY <1>2
      <3> QED BY <1>1, <1>2, <1>3, <3>1
    <2> QED BY <1>l, <1>3, <2>1, <2>2
  <1>5. InFlight(r, y, cut)
    BY <1>3, <1>4, InFlightFacts
  <1>6. \A i \in 1 .. lx : b[i] = x[i]
    <2> SUFFICES ASSUME NEW i \in 1 .. lx PROVE b[i] = x[i]
      OBVIOUS
    <2>1. i \in 1 .. lb
      BY <1>l
    <2> QED BY <1>1, <1>2, <2>1
  <1> QED BY <1>l, <1>r, <1>3, <1>5, <1>6 DEF Starts

\* The last bytes are lost: what is in flight is still a beginning.
LEMMA Lost ==
  ASSUME NEW b \in ByteSeq, NEW r \in ByteSeq, NEW cut \in BOOLEAN, InFlight(b, r, cut),
         NEW n \in Nat, n <= Len(b)
  PROVE  SubSeq(b, 1, Len(b) - n) \in ByteSeq /\ InFlight(SubSeq(b, 1, Len(b) - n), r, TRUE)
  <1>l. PICK lb \in Nat, lr \in Nat : lb = Len(b) /\ lr = Len(r)
    BY ByteSeqFacts
  <1>1. lb <= lr /\ \A i \in 1 .. lb : b[i] = r[i]
    BY <1>l, InFlightFacts
  <1>g. PICK g : g = SubSeq(b, 1, lb - n)
    OBVIOUS
  <1>2. g \in ByteSeq /\ Len(g) = lb - n /\ \A i \in 1 .. lb - n : g[i] = b[i]
    <2>1. 0 \in 0 .. lb /\ lb - n \in 0 .. lb /\ 0 + 1 = 1 /\ (lb - n) - 0 = lb - n
      BY <1>l
    <2>2. b \in Seq(Place)
      BY DEF ByteSeq
    <2>3. /\ SubSeq(b, 0 + 1, lb - n) \in Seq(Place)
          /\ Len(SubSeq(b, 0 + 1, lb - n)) = (lb - n) - 0
          /\ \A i \in 1 .. (lb - n) - 0 : SubSeq(b, 0 + 1, lb - n)[i] = b[0 + i]
      BY <1>l, <2>1, <2>2, PartFacts
    <2> QED BY <1>g, <2>1, <2>3 DEF ByteSeq
  <1>3. Len(g) <= lr /\ \A i \in 1 .. Len(g) : g[i] = r[i]
    BY <1>1, <1>2, <1>l
  <1> QED BY <1>l, <1>g, <1>2, <1>3, InFlightFacts

\* What is left of a structure when n fields are taken.
LEMMA RestOfStruct ==
  ASSUME NEW s \in Struct, NEW n \in 0 .. Len(s)
  PROVE  /\ Rest(s, n) \in Struct /\ Len(Rest(s, n)) = Len(s) - n
         /\ \A i \in 1 .. Len(s) - n : Rest(s, n)[i] = s[n + i]
  BY RestFacts DEF Struct

\* Structures are equal when their fields are.
LEMMA StructEqual ==
  ASSUME NEW s \in Struct, NEW t \in Struct, Len(s) = Len(t),
         \A i \in 1 .. Len(s) : s[i] = t[i]
  PROVE  s = t
  BY SeqEqual DEF Struct

\* What is left of a structure, and of its bytes, once n fields are read.
LEMMA BytesOfRest ==
  ASSUME NEW s \in Struct, NEW n \in Nat, n < Len(s)
  PROVE  /\ s[n + 1] \in ByteSeq /\ Rest(s, n + 1) \in Struct
         /\ Bytes(Rest(s, n)) = Cat(s[n + 1], Bytes(Rest(s, n + 1)))
  <1>l. PICK l \in Nat : l = Len(s)
    BY StructFacts
  <1>0. n \in 0 .. l /\ n + 1 \in 0 .. l /\ n + 1 \in 1 .. l
    BY <1>l
  <1>1. s[n + 1] \in ByteSeq
    BY <1>0, <1>l, StructFacts
  <1>r. PICK r \in Struct : r = Rest(s, n) /\ Len(r) = l - n
               /\ \A i \in 1 .. l - n : r[i] = s[n + i]
    BY <1>0, <1>l, RestOfStruct
  <1>q. PICK q \in Struct : /\ q = Rest(s, n + 1) /\ Len(q) = l - (n + 1)
                            /\ \A i \in 1 .. l - (n + 1) : q[i] = s[(n + 1) + i]
    BY <1>0, <1>l, RestOfStruct
  <1>2. Len(r) > 0
    BY <1>r, <1>0
  <1>t. PICK t \in Struct : t = Tail(r) /\ Len(t) = Len(r) - 1
               /\ \A i \in 1 .. Len(r) - 1 : t[i] = r[i + 1]
    BY <1>2, StructCases
  <1>3. t = q
    <2>1. Len(t) = Len(q) /\ Len(t) = l - (n + 1)
      BY <1>r, <1>q, <1>t
    <2>2. ASSUME NEW i \in 1 .. l - (n + 1) PROVE t[i] = q[i]
      <3>1. i \in 1 .. Len(r) - 1 /\ i + 1 \in 1 .. l - n /\ n + (i + 1) = (n + 1) + i
        BY <1>r
      <3>2. t[i] = r[i + 1] /\ r[i + 1] = s[n + (i + 1)] /\ q[i] = s[(n + 1) + i]
        BY <1>r, <1>q, <1>t, <3>1
      <3> QED BY <3>1, <3>2
    <2> QED BY <2>1, <2>2, StructEqual
  <1>4. r[1] = s[n + 1]
    BY <1>r, <1>0
  <1>5. Bytes(r) = Cat(r[1], Bytes(t))
    BY <1>2, <1>t, BytesFirst
  <1> QED BY <1>1, <1>r, <1>q, <1>3, <1>4, <1>5

\* Nothing is left when every field is read, and everything when none is.
LEMMA BytesOfNone ==
  ASSUME NEW s \in Struct
  PROVE  Rest(s, Len(s)) = <<>> /\ Bytes(Rest(s, Len(s))) = <<>> /\ Rest(s, 0) = s
  <1>1. Len(s) + 1 \in Int /\ Len(s) \in Int /\ Len(s) < Len(s) + 1
    BY StructFacts
  <1>2. Rest(s, Len(s)) = <<>>
    BY <1>1, SubSeqEmpty DEF Rest
  <1>3. Rest(s, 0) = s
    BY SubSeqFull DEF Struct, Rest
  <1> QED BY <1>2, <1>3, BytesEmpty

\* What is left to read grows at its end.
LEMMA BytesOfRestAppend ==
  ASSUME NEW s \in Struct, NEW n \in 0 .. Len(s), NEW x \in ByteSeq
  PROVE  Bytes(Rest(Append(s, x), n)) = Cat(Bytes(Rest(s, n)), x)
  <1>l. PICK l \in Nat : l = Len(s)
    BY StructFacts
  <1>0. n \in Nat /\ n <= l /\ n \in 0 .. l + 1 /\ n \in 0 .. l
    BY <1>l
  <1>a. PICK a \in Struct : a = Append(s, x) /\ Len(a) = l + 1 /\ a[l + 1] = x
               /\ \A i \in 1 .. l : a[i] = s[i]
    BY <1>l, AppendFacts
  <1>r. PICK r \in Struct : r = Rest(s, n) /\ Len(r) = l - n
               /\ \A i \in 1 .. l - n : r[i] = s[n + i]
    BY <1>0, <1>l, RestOfStruct
  <1>q. PICK q \in Struct : /\ q = Rest(a, n) /\ Len(q) = (l + 1) - n
                            /\ \A i \in 1 .. (l + 1) - n : q[i] = a[n + i]
    <2>1. n \in 0 .. Len(a)
      BY <1>0, <1>a
    <2>2. /\ Rest(a, n) \in Struct /\ Len(Rest(a, n)) = Len(a) - n
          /\ \A i \in 1 .. Len(a) - n : Rest(a, n)[i] = a[n + i]
      BY <2>1, RestOfStruct
    <2> QED BY <2>2, <1>a, Zenon
  <1>t. PICK t \in Struct : /\ t = Append(r, x) /\ Len(t) = Len(r) + 1 /\ t[Len(r) + 1] = x
                            /\ \A i \in 1 .. Len(r) : t[i] = r[i]
    BY AppendFacts
  <1>1. q = t
    <2>1. Len(q) = Len(t) /\ Len(t) = (l - n) + 1
      BY <1>0, <1>r, <1>q, <1>t
    <2>2. ASSUME NEW i \in 1 .. (l - n) + 1 PROVE q[i] = t[i]
      <3>1. q[i] = a[n + i]
        BY <1>0, <1>q
      <3>2. CASE i = (l - n) + 1
        <4>1. n + i = l + 1 /\ i = Len(r) + 1
          BY <1>0, <1>r, <3>2
        <4> QED BY <3>1, <4>1, <1>a, <1>t
      <3>3. CASE i \in 1 .. l - n
        <4>1. n + i \in 1 .. l /\ i \in 1 .. Len(r)
          BY <1>0, <1>r, <3>3
        <4> QED BY <3>1, <3>3, <4>1, <1>a, <1>r, <1>t
      <3> QED BY <3>2, <3>3, <1>0
    <2> QED BY <2>1, <2>2, StructEqual
  <1>2. Bytes(t) = Cat(Bytes(r), x)
    BY <1>t, BytesAppend
  <1> QED BY <1>a, <1>r, <1>q, <1>1, <1>2

----------------------------------------------------------------------------
(* The messages on the wire: basic headers, URB headers and devices.       *)

\* The sizes of the two kinds of number.
LEMMA NetFacts ==
  ASSUME NEW n \in Int
  PROVE  /\ Net16(n) \in ByteSeq /\ Len(Net16(n)) = 2
         /\ Net32(n) \in ByteSeq /\ Len(Net32(n)) = 4
  BY DEF Net16, Net32, ByteSeq, Place

\* The ranges of the fields are of numbers.
LEMMA NumberFacts ==
  /\ \A n \in Int32 : n \in Int
  /\ \A n \in Nat16 : n \in Int
  BY SMT DEF Int32, Nat16

\* The length of a concatenation.
LEMMA CatSize ==
  ASSUME NEW a \in ByteSeq, NEW b \in ByteSeq
  PROVE  Cat(a, b) \in ByteSeq /\ Len(Cat(a, b)) = Len(a) + Len(b)
  BY CatFacts

\* A field of n octets is n bytes.
LEMMA OctetsFacts ==
  ASSUME NEW n \in Nat, NEW f \in [1 .. n -> Octet]
  PROVE  f \in ByteSeq /\ Len(f) = n
  <1>1. f \in [1 .. n -> Place]
    <2>1. \A x \in Octet : x \in Place
      BY DEF Octet, Place
    <2> QED BY <2>1
  <1>2. f \in Seq(Place)
    BY <1>1, SeqDef
  <1>3. Len(f) \in Nat /\ 1 .. Len(f) = 1 .. n
    BY <1>1, <1>2, LenProperties
  <1>4. Len(f) = n
    BY <1>3
  <1> QED BY <1>2, <1>4 DEF ByteSeq

\* One place is one byte of the model.
LEMMA PlaceFacts ==
  ASSUME NEW p \in Place
  PROVE  <<p>> \in ByteSeq /\ Len(<<p>>) = 1
  BY DEF ByteSeq

\* The bytes of three fields.
LEMMA BytesOfThree ==
  ASSUME NEW a \in ByteSeq, NEW b \in ByteSeq, NEW c \in ByteSeq
  PROVE  <<a, b, c>> \in Struct /\ Bytes(<<a, b, c>>) = Cat(Cat(a, b), c)
  <1>1. /\ <<>> \in Struct /\ <<a>> \in Struct /\ <<a, b>> \in Struct /\ <<a, b, c>> \in Struct
        /\ <<a>> = Append(<<>>, a) /\ <<a, b>> = Append(<<a>>, b)
        /\ <<a, b, c>> = Append(<<a, b>>, c)
    BY DEF Struct
  <1>2. Bytes(<<a>>) = Cat(<<>>, a) /\ Bytes(<<a, b>>) = Cat(Bytes(<<a>>), b)
        /\ Bytes(<<a, b, c>>) = Cat(Bytes(<<a, b>>), c)
    BY <1>1, BytesAppend, BytesEmpty
  <1> QED BY <1>1, <1>2, CatEmpty

\* A basic header (op_common) in network order.
BasicFields(command, status) == <<Net16(USBIP_PROTO_VERSION), Net16(command), Net32(status)>>

\* The bytes of a basic header: usbip_send_header_basic sends what README.md
\* specifies.
LEMMA BasicBytes ==
  ASSUME NEW command \in Int, NEW status \in Int
  PROVE  /\ BasicFields(command, status) \in Struct
         /\ WireBasic(command, status) = Bytes(BasicFields(command, status))
         /\ WireBasic(command, status) \in ByteSeq /\ Len(WireBasic(command, status)) = 8
         /\ Bytes(usbip_pack_header_basic(BasicHeader(command, status)))
              = WireBasic(command, status)
  <1> DEFINE a == Net16(USBIP_PROTO_VERSION)
             b == Net16(command)
             c == Net32(status)
  <1>1. USBIP_PROTO_VERSION \in Int
    BY DEF USBIP_PROTO_VERSION
  <1>2. /\ a \in ByteSeq /\ b \in ByteSeq /\ c \in ByteSeq
        /\ Len(a) = 2 /\ Len(b) = 2 /\ Len(c) = 4
    BY <1>1, NetFacts
  <1>3. usbip_pack_header_basic(BasicHeader(command, status)) = BasicFields(command, status)
    BY DEF usbip_pack_header_basic, BasicHeader, BasicFields, SwapFields, Swapped, swap16,
           swap32, Host16, Host32, Net16, Net32
  <1>4. WireBasic(command, status) = Cat(Cat(a, b), c)
    BY Zenon DEF WireBasic, Cat
  <1>5. BasicFields(command, status) = <<a, b, c>>
    BY Zenon DEF BasicFields
  <1> HIDE DEF a, b, c
  <1>6. <<a, b, c>> \in Struct /\ Bytes(<<a, b, c>>) = Cat(Cat(a, b), c)
    BY <1>2, BytesOfThree
  <1>7. Cat(a, b) \in ByteSeq /\ Len(Cat(a, b)) = 4
    <2>1. Cat(a, b) \in ByteSeq /\ Len(Cat(a, b)) = Len(a) + Len(b)
      BY <1>2, CatSize, Zenon
    <2> QED BY <1>2, <2>1
  <1>8. Cat(Cat(a, b), c) \in ByteSeq /\ Len(Cat(Cat(a, b), c)) = 8
    <2>1. Cat(Cat(a, b), c) \in ByteSeq /\ Len(Cat(Cat(a, b), c)) = Len(Cat(a, b)) + Len(c)
      BY <1>2, <1>7, CatSize, Zenon
    <2> QED BY <1>2, <1>7, <2>1
  <1> QED BY <1>3, <1>4, <1>5, <1>6, <1>8, Zenon

\* A reader of a basic header finds the command and the status that were sent.
LEMMA BasicRead ==
  ASSUME NEW command \in Nat16, NEW status \in Int32,
         NEW b, Starts(b, WireBasic(command, status))
  PROVE  /\ Number16(usbip_recv_header_basic(b)[2]) = command
         /\ Number32(usbip_recv_header_basic(b)[3]) = status
  <1> DEFINE s == BasicFields(command, status)
             off == [i \in 1 .. 4 |-> IF i = 4 THEN 8 ELSE 2 * (i - 1)]
  <1>0. command \in Int /\ status \in Int
    BY NumberFacts, Zenon
  <1>1. s \in Struct /\ Bytes(s) = WireBasic(command, status) /\ Len(Bytes(s)) = 8
    BY <1>0, BasicBytes
  <1>2. /\ Len(s) = 3 /\ Len(s[1]) = 2 /\ Len(s[2]) = 2 /\ Len(s[3]) = 4
        /\ s[2] = Net16(command) /\ s[3] = Net32(status) /\ DOMAIN s = 1 .. 3
    BY DEF BasicFields, Net16, Net32
  <1> HIDE DEF s
  <1>3. Offsets(s, off)
    <2>1. off[1] = 0 /\ off[2] = 2 /\ off[3] = 4 /\ off[4] = 8
      OBVIOUS
    <2> HIDE DEF off
    <2>2. \A i \in 1 .. 3 : i = 1 \/ i = 2 \/ i = 3
      OBVIOUS
    <2>3. /\ off[1] \in Nat /\ off[1 + 1] = off[1] + Len(s[1])
          /\ off[2] \in Nat /\ off[2 + 1] = off[2] + Len(s[2])
          /\ off[3] \in Nat /\ off[3 + 1] = off[3] + Len(s[3])
      BY <1>2, <2>1
    <2>4. \A i \in 1 .. 3 : off[i] \in Nat /\ off[i + 1] = off[i] + Len(s[i])
      BY <2>2, <2>3, Zenon
    <2> QED BY <1>2, <2>1, <2>4, Zenon DEF Offsets
  <1>4. /\ DOMAIN BasicLayout = 1 .. 3
        /\ \A i \in 1 .. 3 : BasicLayout[i][1] = off[i] + 1 /\ BasicLayout[i][2] = off[i + 1]
    BY DEF BasicLayout
  <1> HIDE DEF off
  <1>5. Fields(b, BasicLayout) = s
    <2>1. LayoutOf(s, BasicLayout, off)
      BY <1>2, <1>3, <1>4, Zenon DEF LayoutOf
    <2>2. Starts(b, Bytes(s))
      BY <1>1, Zenon
    <2> QED BY <1>1, <2>1, <2>2, FieldsRead, Zenon
  <1>6. usbip_recv_header_basic(b) = SwapFields(s, 1 .. 3)
    BY <1>5 DEF usbip_recv_header_basic, usbip_unpack_header_basic
  <1>7. SwapFields(s, 1 .. 3)[2] = Host16(command) /\ SwapFields(s, 1 .. 3)[3] = Host32(status)
    BY <1>2 DEF SwapFields, Swapped, swap16, swap32, Host16, Host32, Net16, Net32
  <1>8. Number16(Host16(command)) = command /\ Number32(Host32(status)) = status
    BY HalfRoundTrip, WordForms
  <1> QED BY <1>6, <1>7, <1>8

\* The ten words of a URB header in network order.
NetWords(w) == [i \in 1 .. 10 |-> Net32(w[i])]

\* A URB header is 48 bytes: its ten words, then its setup packet.
LEMMA HeaderBytes ==
  ASSUME NEW w, \A i \in 1 .. 10 : w[i] \in Int, NEW setup \in ByteSeq, Len(setup) = 8
  PROVE  /\ NetWords(w) \in Struct /\ NetHeader(w, setup) \in Struct
         /\ Bytes(NetHeader(w, setup)) = Cat(Bytes(NetWords(w)), setup)
         /\ Bytes(NetHeader(w, setup)) \in ByteSeq /\ Len(Bytes(NetHeader(w, setup))) = 48
         /\ \A b : Starts(b, Bytes(NetHeader(w, setup)))
                     => Fields(b, HeaderLayout) = NetHeader(w, setup)
  <1> DEFINE s == NetWords(w)
             h == NetHeader(w, setup)
             off == [i \in 1 .. 12 |-> IF i = 12 THEN 48 ELSE 4 * (i - 1)]
  <1>1. \A i \in 1 .. 10 : Net32(w[i]) \in ByteSeq /\ Len(Net32(w[i])) = 4
    BY NetFacts
  <1>2. s \in Struct /\ Len(s) = 10 /\ \A i \in 1 .. 10 : s[i] = Net32(w[i])
    BY <1>1 DEF NetWords, Struct
  <1>3. /\ h \in Struct /\ Len(h) = 11 /\ h[11] = setup /\ \A i \in 1 .. 10 : h[i] = Net32(w[i])
        /\ DOMAIN h = 1 .. 11
    BY <1>1 DEF NetHeader, Struct
  <1> HIDE DEF s, h
  <1>4. h = Append(s, setup)
    <2>t. PICK t \in Struct : /\ t = Append(s, setup) /\ Len(t) = 11 /\ t[11] = setup
                              /\ \A i \in 1 .. 10 : t[i] = s[i]
      <3>1. /\ Append(s, setup) \in Struct /\ Len(Append(s, setup)) = Len(s) + 1
            /\ Append(s, setup)[Len(s) + 1] = setup
            /\ \A i \in 1 .. Len(s) : Append(s, setup)[i] = s[i]
        BY <1>2, AppendFacts, Zenon
      <3>2. Len(s) + 1 = 11
        BY <1>2
      <3> QED BY <1>2, <3>1, <3>2, Zenon
    <2>1. \A i \in 1 .. 11 : h[i] = t[i]
      BY <1>2, <1>3, <2>t
    <2>2. Len(h) = Len(t) /\ \A i \in 1 .. Len(h) : h[i] = t[i]
      BY <1>3, <2>t, <2>1, Zenon
    <2> QED BY <1>3, <2>t, <2>2, StructEqual, Zenon
  <1>5. Bytes(h) = Cat(Bytes(s), setup)
    BY <1>2, <1>4, BytesAppend
  <1>6. Offsets(h, off)
    <2>1. \A i \in 1 .. 10 : Len(h[i]) = 4
      BY <1>1, <1>3
    <2>2. Len(h[11]) = 8
      BY <1>3
    <2>3. ASSUME NEW i \in 1 .. 11
          PROVE  off[i] \in Nat /\ off[i + 1] = off[i] + Len(h[i])
      <3>1. CASE i = 11
        BY <3>1, <2>2
      <3>2. CASE i \in 1 .. 10
        <4>1. Len(h[i]) = 4
          BY <3>2, <2>1
        <4>2. off[i] = 4 * (i - 1) /\ off[i + 1] = IF i + 1 = 12 THEN 48 ELSE 4 * ((i + 1) - 1)
          BY <3>2
        <4> HIDE DEF off
        <4> QED BY <3>2, <4>1, <4>2
      <3> QED BY <3>1, <3>2
    <2>4. off[1] = 0
      OBVIOUS
    <2> HIDE DEF off
    <2> QED BY <1>3, <2>3, <2>4 DEF Offsets
  <1>7. off[12] = 48 /\ /\ DOMAIN HeaderLayout = 1 .. 11
        /\ \A i \in 1 .. 11 : HeaderLayout[i][1] = off[i] + 1 /\ HeaderLayout[i][2] = off[i + 1]
    BY DEF HeaderLayout
  <1> HIDE DEF off
  <1>8. Len(Bytes(h)) = 48 /\ Bytes(h) \in ByteSeq
    <2>1. Len(Bytes(h)) = off[Len(h) + 1] /\ Len(h) + 1 = 12
      <3>1. Len(h) + 1 = 12
        BY <1>3
      <3> QED BY <1>3, <1>6, <3>1, FieldsInBytes, Zenon
    <2> QED BY <1>3, <1>7, <2>1, BytesType, Zenon
  <1>9. ASSUME NEW b, Starts(b, Bytes(h))
        PROVE Fields(b, HeaderLayout) = h
    <2>1. LayoutOf(h, HeaderLayout, off)
      BY <1>3, <1>6, <1>7, Zenon DEF LayoutOf
    <2> QED BY <1>3, <1>9, <2>1, FieldsRead, Zenon
  <1> QED BY <1>2, <1>3, <1>5, <1>8, <1>9 DEF s, h

\* The fields of a usbip_usb_device in network order.
DeviceFields(d) ==
  <<<<d.path>>, <<d.busid>>, Net32(d.busnum), Net32(d.devnum), Net32(d.speed),
    Net16(d.vendor_id), Net16(d.product_id), Net16(d.bcd_device), d.codes,
    <<d.num_interfaces>>>>

\* usbip_pack_device puts them there.
LEMMA DeviceFieldsPacked ==
  ASSUME NEW d
  PROVE  usbip_pack_device(usb_device_to_usbip(d)) = DeviceFields(d)
  BY DEF DeviceFields, usbip_pack_device, usb_device_to_usbip, SwapFields, Swapped, swap16,
         swap32, Host16, Host32, Net16, Net32

\* The sizes of the fields of a device.
LEMMA DeviceFieldFacts ==
  ASSUME NEW d \in usb_device_t
  PROVE  LET s == DeviceFields(d)
         IN /\ s \in Struct /\ Len(s) = 10
            /\ Len(s[1]) = 1 /\ Len(s[2]) = 1 /\ Len(s[3]) = 4 /\ Len(s[4]) = 4
            /\ Len(s[5]) = 4 /\ Len(s[6]) = 2 /\ Len(s[7]) = 2 /\ Len(s[8]) = 2
            /\ Len(s[9]) = 5 /\ Len(s[10]) = 1
            /\ s[1] = <<d.path>> /\ s[2] = <<d.busid>> /\ s[3] = Net32(d.busnum)
            /\ s[4] = Net32(d.devnum) /\ s[5] = Net32(d.speed) /\ s[6] = Net16(d.vendor_id)
            /\ s[7] = Net16(d.product_id) /\ s[8] = Net16(d.bcd_device)
            /\ s[9] = d.codes /\ s[10] = <<d.num_interfaces>>
  <1> DEFINE s == DeviceFields(d)
  <1>1. /\ d.path \in Place /\ d.busid \in Place /\ d.busnum \in Int32 /\ d.devnum \in Int32
        /\ d.speed \in Int32 /\ d.vendor_id \in Nat16 /\ d.product_id \in Nat16
        /\ d.bcd_device \in Nat16 /\ d.codes \in [1 .. 5 -> Octet]
        /\ d.num_interfaces \in Octet
    BY DEF usb_device_t, Place
  <1>2. /\ d.busnum \in Int /\ d.devnum \in Int /\ d.speed \in Int /\ d.vendor_id \in Int
        /\ d.product_id \in Int /\ d.bcd_device \in Int
    BY <1>1, NumberFacts, Zenon
  <1>3. d.codes \in ByteSeq /\ Len(d.codes) = 5
    BY <1>1, OctetsFacts
  <1>4. d.num_interfaces \in Place
    BY <1>1 DEF Octet, Place
  <1>5. /\ Len(s) = 10 /\ s[1] = <<d.path>> /\ s[2] = <<d.busid>> /\ s[3] = Net32(d.busnum)
        /\ s[4] = Net32(d.devnum) /\ s[5] = Net32(d.speed) /\ s[6] = Net16(d.vendor_id)
        /\ s[7] = Net16(d.product_id) /\ s[8] = Net16(d.bcd_device)
        /\ s[9] = d.codes /\ s[10] = <<d.num_interfaces>> /\ s = [i \in 1 .. 10 |-> s[i]]
    BY DEF DeviceFields
  <1> HIDE DEF s
  <1>6. /\ s[1] \in ByteSeq /\ Len(s[1]) = 1 /\ s[2] \in ByteSeq /\ Len(s[2]) = 1
        /\ s[3] \in ByteSeq /\ Len(s[3]) = 4 /\ s[4] \in ByteSeq /\ Len(s[4]) = 4
        /\ s[5] \in ByteSeq /\ Len(s[5]) = 4 /\ s[6] \in ByteSeq /\ Len(s[6]) = 2
        /\ s[7] \in ByteSeq /\ Len(s[7]) = 2 /\ s[8] \in ByteSeq /\ Len(s[8]) = 2
        /\ s[9] \in ByteSeq /\ Len(s[9]) = 5 /\ s[10] \in ByteSeq /\ Len(s[10]) = 1
    BY <1>1, <1>2, <1>3, <1>4, <1>5, NetFacts, PlaceFacts, Zenon
  <1>7. \A i \in 1 .. 10 : s[i] \in ByteSeq
    BY <1>6
  <1>8. s \in Struct
    BY <1>5, <1>7 DEF Struct
  <1> QED BY <1>5, <1>6, <1>8 DEF s

\* The bytes of ten fields.
LEMMA BytesOfTen ==
  ASSUME NEW s \in Struct, Len(s) = 10
  PROVE  Bytes(s) = Cat(Cat(Cat(Cat(Cat(Cat(Cat(Cat(Cat(s[1], s[2]), s[3]), s[4]), s[5]),
                      s[6]), s[7]), s[8]), s[9]), s[10])
  <1> DEFINE p == FieldSums(s)
  <1>1. Recurrence(s, 10, p) /\ Bytes(s) = p[10]
    <2>1. Len(s) \in Nat
      OBVIOUS
    <2>2. Recurrence(s, Len(s), p) /\ Bytes(s) = p[Len(s)]
      BY <2>1, BytesRecurrence, Zenon
    <2> QED BY <2>2, Zenon
  <1> HIDE DEF p
  <1>2. p[0] = <<>> /\ \A i \in 1 .. 10 : p[i] = Cat(p[i - 1], s[i])
    BY <1>1 DEF Recurrence
  <1>3. /\ p[1] = Cat(p[0], s[1]) /\ p[2] = Cat(p[1], s[2]) /\ p[3] = Cat(p[2], s[3])
        /\ p[4] = Cat(p[3], s[4]) /\ p[5] = Cat(p[4], s[5]) /\ p[6] = Cat(p[5], s[6])
        /\ p[7] = Cat(p[6], s[7]) /\ p[8] = Cat(p[7], s[8]) /\ p[9] = Cat(p[8], s[9])
        /\ p[10] = Cat(p[9], s[10])
    BY <1>2
  <1>4. s[1] \in ByteSeq
    BY StructFacts
  <1>5. p[1] = s[1]
    BY <1>2, <1>3, <1>4, CatEmpty, Zenon
  <1> QED BY <1>1, <1>3, <1>5, Zenon

\* A device is the 26 bytes of the format, and a reader finds its fields there.
LEMMA DeviceBytes ==
  ASSUME NEW d \in usb_device_t
  PROVE  /\ WireDevice(d) = Bytes(DeviceFields(d))
         /\ WireDevice(d) \in ByteSeq /\ Len(WireDevice(d)) = 26
         /\ \A b : Starts(b, WireDevice(d)) => Fields(b, DeviceLayout) = DeviceFields(d)
  <1> DEFINE off == [i \in 1 .. 11 |->
                       IF i <= 2 THEN i - 1 ELSE IF i <= 6 THEN 4 * (i - 3) + 2
                       ELSE IF i <= 9 THEN 2 * (i - 6) + 14 ELSE IF i = 10 THEN 25 ELSE 26]
  <1>s. PICK s \in Struct : s = DeviceFields(d)
    BY DeviceFieldFacts
  <1>1. /\ Len(s) = 10
        /\ Len(s[1]) = 1 /\ Len(s[2]) = 1 /\ Len(s[3]) = 4 /\ Len(s[4]) = 4
        /\ Len(s[5]) = 4 /\ Len(s[6]) = 2 /\ Len(s[7]) = 2 /\ Len(s[8]) = 2
        /\ Len(s[9]) = 5 /\ Len(s[10]) = 1
    BY <1>s, DeviceFieldFacts
  <1>2. /\ s[1] = <<d.path>> /\ s[2] = <<d.busid>> /\ s[3] = Net32(d.busnum)
        /\ s[4] = Net32(d.devnum) /\ s[5] = Net32(d.speed) /\ s[6] = Net16(d.vendor_id)
        /\ s[7] = Net16(d.product_id) /\ s[8] = Net16(d.bcd_device)
        /\ s[9] = d.codes /\ s[10] = <<d.num_interfaces>>
    BY <1>s, DeviceFieldFacts
  <1>3. \A i \in 1 .. 10 : s[i] \in ByteSeq
    BY <1>1, StructFacts
  <1>4. WireDevice(d) = Bytes(s)
    <2>1. Words(<<d.busnum, d.devnum, d.speed>>) = Cat(Cat(s[3], s[4]), s[5])
      <3>1. Words(<<d.busnum, d.devnum, d.speed>>) = Bytes(<<s[3], s[4], s[5]>>)
        <4>1. [i \in DOMAIN <<d.busnum, d.devnum, d.speed>>
                 |-> Net32(<<d.busnum, d.devnum, d.speed>>[i])] = <<s[3], s[4], s[5]>>
          BY <1>2
        <4> QED BY <4>1, Zenon DEF Words
      <3> QED BY <1>3, <3>1, BytesOfThree
    <2>2. <<d.path, d.busid>> = Cat(s[1], s[2])
      BY <1>2 DEF Cat
    <2>3. WireDevice(d)
            = Cat(Cat(Cat(Cat(Cat(Cat(Cat(s[1], s[2]), Cat(Cat(s[3], s[4]), s[5])),
                s[6]), s[7]), s[8]), s[9]), s[10])
      BY <1>2, <2>1, <2>2, Zenon DEF WireDevice, Cat
    <2>4. Cat(Cat(s[1], s[2]), Cat(Cat(s[3], s[4]), s[5]))
            = Cat(Cat(Cat(Cat(s[1], s[2]), s[3]), s[4]), s[5])
      <3>1. 1 \in 1 .. 10 /\ 2 \in 1 .. 10 /\ 3 \in 1 .. 10 /\ 4 \in 1 .. 10 /\ 5 \in 1 .. 10
        OBVIOUS
      <3>2. PICK a \in ByteSeq : a = Cat(s[1], s[2])
        BY <1>3, <3>1, CatFacts
      <3>3. PICK b \in ByteSeq : b = Cat(s[3], s[4])
        BY <1>3, <3>1, CatFacts
      <3>4. Cat(a, Cat(b, s[5])) = Cat(Cat(a, b), s[5])
        BY <1>3, <3>1, CatAssoc
      <3>5. Cat(a, b) = Cat(Cat(a, s[3]), s[4])
        BY <1>3, <3>1, <3>3, CatAssoc
      <3> QED BY <3>2, <3>3, <3>4, <3>5, Zenon
    <2> QED BY <1>1, <2>3, <2>4, BytesOfTen, Zenon
  <1>5. /\ off[1] = 0 /\ off[2] = 1 /\ off[3] = 2 /\ off[4] = 6 /\ off[5] = 10 /\ off[6] = 14
        /\ off[7] = 16 /\ off[8] = 18 /\ off[9] = 20 /\ off[10] = 25 /\ off[11] = 26
    OBVIOUS
  <1>6. LayoutOf(s, DeviceLayout, off)
    <2>1. \A i \in 1 .. 10 : off[i] \in Nat /\ off[i + 1] = off[i] + Len(s[i])
      <3> SUFFICES ASSUME NEW i \in 1 .. 10
                   PROVE off[i] \in Nat /\ off[i + 1] = off[i] + Len(s[i])
        OBVIOUS
      <3> HIDE DEF off
      <3>1. i = 1 \/ i = 2 \/ i = 3 \/ i = 4 \/ i = 5 \/ i = 6 \/ i = 7 \/ i = 8 \/ i = 9 \/ i = 10
        OBVIOUS
      <3>2. /\ off[1] \in Nat /\ off[1 + 1] = off[1] + Len(s[1])
            /\ off[2] \in Nat /\ off[2 + 1] = off[2] + Len(s[2])
            /\ off[3] \in Nat /\ off[3 + 1] = off[3] + Len(s[3])
            /\ off[4] \in Nat /\ off[4 + 1] = off[4] + Len(s[4])
            /\ off[5] \in Nat /\ off[5 + 1] = off[5] + Len(s[5])
            /\ off[6] \in Nat /\ off[6 + 1] = off[6] + Len(s[6])
            /\ off[7] \in Nat /\ off[7 + 1] = off[7] + Len(s[7])
            /\ off[8] \in Nat /\ off[8 + 1] = off[8] + Len(s[8])
            /\ off[9] \in Nat /\ off[9 + 1] = off[9] + Len(s[9])
            /\ off[10] \in Nat /\ off[10 + 1] = off[10] + Len(s[10])
        BY <1>1, <1>5
      <3> QED BY <3>1, <3>2, Zenon
    <2>2. /\ DOMAIN DeviceLayout = 1 .. 10
          /\ \A i \in 1 .. 10 : DeviceLayout[i][1] = off[i] + 1
             /\ DeviceLayout[i][2] = off[i + 1]
      BY DEF DeviceLayout
    <2> HIDE DEF off
    <2> QED BY <1>1, <1>5, <2>1, <2>2, Zenon DEF LayoutOf, Offsets
  <1> HIDE DEF off
  <1>7. Len(Bytes(s)) = 26 /\ Bytes(s) \in ByteSeq
    <2>1. Len(s) + 1 = 11
      BY <1>1
    <2>2. Offsets(s, off)
      BY <1>6 DEF LayoutOf
    <2>3. Len(Bytes(s)) = off[Len(s) + 1]
      BY <2>2, FieldsInBytes, Zenon
    <2>4. Bytes(s) \in ByteSeq
      BY BytesType, Zenon
    <2> QED BY <1>5, <2>1, <2>3, <2>4, Zenon
  <1>8. ASSUME NEW b, Starts(b, WireDevice(d)) PROVE Fields(b, DeviceLayout) = s
    BY <1>4, <1>6, <1>8, FieldsRead, Zenon
  <1> QED BY <1>s, <1>4, <1>7, <1>8, Zenon

\* The client reads the device that the server sent.
LEMMA DeviceRead ==
  ASSUME NEW d \in usb_device_t, NEW b, Starts(b, WireDevice(d))
  PROVE  DeviceInfo(usbip_recv_device(b)) = d
  <1>1. usbip_recv_device(b) = usbip_unpack_device(usbip_pack_device(usb_device_to_usbip(d)))
    BY DeviceBytes, DeviceFieldsPacked, Zenon DEF usbip_recv_device
  <1>2. d \in [path : Names, busid : Names, busnum : Int32, devnum : Int32, speed : Int32,
               vendor_id : Nat16, product_id : Nat16, bcd_device : Nat16,
               codes : [1 .. 5 -> Octet], num_interfaces : Nat]
    BY DEF usb_device_t, Octet
  <1> QED BY <1>1, <1>2, DeviceUnderstood, Zenon

----------------------------------------------------------------------------
(* The messages of the driver, and the answers to them.                    *)

\* The setup packets.
Setups == [1 .. 8 -> Octet]

\* What a URB of the driver is made of.
LEMMA UrbFacts ==
  ASSUME NEW u \in Urbs
  PROVE  /\ u \in SubmitFields(Setups) /\ u.command = USBIP_CMD_SUBMIT
         /\ u.seqnum \in Int32 /\ 512 + u.seqnum \in Int32 /\ u.devid \in Int32
         /\ u.direction \in {USBIP_DIR_OUT, USBIP_DIR_IN} /\ u.ep \in 0 .. 15
         /\ u.transfer_flags \in Int32 /\ u.transfer_buffer_length \in Int32
         /\ u.transfer_buffer_length \in Nat /\ u.start_frame \in Int32
         /\ u.number_of_packets \in Int32 /\ u.interval \in Int32
         /\ u.setup \in ByteSeq /\ Len(u.setup) = 8
  <1>1. u \in SubmitHeaders /\ 512 + u.seqnum \in Int32
    BY ExchangeAssumption
  <1>2. /\ u.command = USBIP_CMD_SUBMIT /\ u.seqnum \in Int32 /\ u.devid \in Int32
        /\ u.direction \in {USBIP_DIR_OUT, USBIP_DIR_IN} /\ u.ep \in 0 .. 15
        /\ u.transfer_flags \in Int32 /\ u.transfer_buffer_length \in Int32
        /\ u.transfer_buffer_length \in Nat /\ u.start_frame \in Int32
        /\ u.number_of_packets \in Int32 /\ u.interval \in Int32 /\ u.setup \in Setups
        /\ u = [command |-> u.command, seqnum |-> u.seqnum, devid |-> u.devid,
                direction |-> u.direction, ep |-> u.ep, transfer_flags |-> u.transfer_flags,
                transfer_buffer_length |-> u.transfer_buffer_length,
                start_frame |-> u.start_frame, number_of_packets |-> u.number_of_packets,
                interval |-> u.interval, setup |-> u.setup]
    BY <1>1 DEF SubmitHeaders, Setups
  <1>3. \A n \in 0 .. 15 : n \in Int32
    BY SMT DEF Int32
  <1>4. u.direction \in 0 .. 15
    BY <1>2 DEF USBIP_DIR_OUT, USBIP_DIR_IN
  <1>5. u.ep \in Int32 /\ u.direction \in Int32
    BY <1>2, <1>3, <1>4, Zenon
  <1>6. u \in SubmitFields(Setups)
    BY <1>2, <1>5 DEF SubmitFields
  <1>7. u.setup \in ByteSeq /\ Len(u.setup) = 8
    BY <1>2, OctetsFacts DEF Setups
  <1> QED BY <1>1, <1>2, <1>6, <1>7, Zenon

\* The data of a transfer of n bytes are n bytes.
LEMMA PayloadFacts ==
  ASSUME NEW n \in Nat
  PROVE  Payload(n) \in ByteSeq /\ Len(Payload(n)) = n
  <1>1. \A i \in 1 .. n : (16 * i) % 256 \in Octet
    BY DEF Octet
  <1>2. Payload(n) \in [1 .. n -> Octet]
    BY <1>1 DEF Payload
  <1> QED BY <1>2, OctetsFacts, Zenon

\* The words of the header of a CMD_SUBMIT.
SubmitWords(u) ==
  <<USBIP_CMD_SUBMIT, u.seqnum, u.devid, u.direction, u.ep, u.transfer_flags,
    u.transfer_buffer_length, u.start_frame, u.number_of_packets, u.interval>>
\* The words of an unlink message: ten, and twelve with the empty setup packet.
Ten(a, b, c, d) == <<a, b, c, 0, 0, d, 0, 0, 0, 0>>
Twelve(a, b, c, d) == <<a, b, c, 0, 0, d, 0, 0, 0, 0, 0, 0>>
\* The number that the driver gives to a request to unlink u.
UnlinkSeqnum(u) == 512 + u.seqnum
\* The words of the header of a CMD_UNLINK.
UnlinkWords(u) == Ten(USBIP_CMD_UNLINK, UnlinkSeqnum(u), u.devid, u.seqnum)
\* The setup packet of a header that carries none.
NoSetup == Cat(Net32(0), Net32(0))

\* It has 8 bytes.
LEMMA NoSetupFacts == NoSetup \in ByteSeq /\ Len(NoSetup) = 8
  <1>1. 0 \in Int
    OBVIOUS
  <1>2. PICK z : z = Net32(0) /\ z \in ByteSeq /\ Len(z) = 4
    BY <1>1, NetFacts, Zenon
  <1>3. Cat(z, z) \in ByteSeq /\ Len(Cat(z, z)) = Len(z) + Len(z)
    BY <1>2, CatSize, Zenon
  <1>4. Len(Cat(z, z)) = 8
    <2>1. PICK n : n = Len(z) /\ n = 4
      BY <1>2
    <2>2. n + n = 8
      BY <2>1
    <2> QED BY <2>1, <2>2, <1>3, Zenon
  <1> QED BY <1>2, <1>3, <1>4, Zenon DEF NoSetup

\* A reader cuts a URB header into the fields that were sent.
LEMMA HeaderRead ==
  ASSUME NEW w, \A i \in 1 .. 10 : w[i] \in Int, NEW setup \in ByteSeq, Len(setup) = 8,
         NEW b, Starts(b, Bytes(NetHeader(w, setup)))
  PROVE  /\ Fields(b, HeaderLayout) = NetHeader(w, setup)
         /\ usbip_recv_urb_header(b) = usbip_unpack_header(NetHeader(w, setup))
  <1>1. \A c : Starts(c, Bytes(NetHeader(w, setup)))
                     => Fields(c, HeaderLayout) = NetHeader(w, setup)
    BY HeaderBytes
  <1>2. Fields(b, HeaderLayout) = NetHeader(w, setup)
    BY <1>1, Zenon
  <1> QED BY <1>2, Zenon DEF usbip_recv_urb_header

\* The words of a CMD_SUBMIT are 32-bit numbers.
LEMMA SubmitWordsFacts ==
  ASSUME NEW u \in Urbs
  PROVE  \A i \in 1 .. 10 : SubmitWords(u)[i] \in Int
  <1>1. /\ u.seqnum \in Int32 /\ u.devid \in Int32 /\ u.transfer_flags \in Int32
        /\ u.transfer_buffer_length \in Int32 /\ u.start_frame \in Int32
        /\ u.number_of_packets \in Int32 /\ u.interval \in Int32
    BY UrbFacts
  <1>2. /\ u.seqnum \in Int /\ u.devid \in Int /\ u.transfer_flags \in Int
        /\ u.transfer_buffer_length \in Int /\ u.start_frame \in Int
        /\ u.number_of_packets \in Int /\ u.interval \in Int
    BY <1>1, NumberFacts, Zenon
  <1>3. u.direction \in Int /\ u.ep \in Int
    BY UrbFacts DEF USBIP_DIR_OUT, USBIP_DIR_IN
  <1> QED BY <1>2, <1>3 DEF SubmitWords, USBIP_CMD_SUBMIT

\* Ten words written one by one are the words of a header.
LEMMA TenWords ==
  ASSUME NEW a1, NEW a2, NEW a3, NEW a4, NEW a5, NEW a6, NEW a7, NEW a8, NEW a9, NEW a10
  PROVE  Words(<<a1, a2, a3, a4, a5, a6, a7, a8, a9, a10>>)
           = Bytes(NetWords(<<a1, a2, a3, a4, a5, a6, a7, a8, a9, a10>>))
  <1>1. DOMAIN <<a1, a2, a3, a4, a5, a6, a7, a8, a9, a10>> = 1 .. 10
    OBVIOUS
  <1> QED BY <1>1, Zenon DEF Words, NetWords

\* Twelve words, the last two of them zero, are a header with no setup packet.
LEMMA TwelveWords ==
  ASSUME NEW a \in Int, NEW b \in Int, NEW c \in Int, NEW d \in Int
  PROVE  /\ \A i \in 1 .. 10 : Ten(a, b, c, d)[i] \in Int
         /\ Words(Twelve(a, b, c, d)) = Bytes(NetHeader(Ten(a, b, c, d), NoSetup))
  <1> DEFINE w == Ten(a, b, c, d)
             v == Twelve(a, b, c, d)
             s == NetWords(w)
             z == Net32(0)
             t == [i \in DOMAIN v |-> Net32(v[i])]
  <1>1. \A i \in 1 .. 10 : w[i] \in Int
    BY DEF Ten
  <1>2. z \in ByteSeq /\ Len(z) = 4
    BY NetFacts
  <1>3. NoSetup \in ByteSeq /\ Len(NoSetup) = 8
    BY NoSetupFacts, Zenon
  <1>4. DOMAIN v = 1 .. 12 /\ (\A i \in 1 .. 10 : v[i] = w[i]) /\ v[11] = 0 /\ v[12] = 0
    BY DEF Ten, Twelve
  <1> HIDE DEF w, v
  <1>5. s \in Struct /\ Bytes(NetHeader(w, NoSetup)) = Cat(Bytes(s), NoSetup)
    BY <1>1, <1>3, HeaderBytes, Zenon
  <1>6. Len(s) = 10 /\ \A i \in 1 .. 10 : s[i] = Net32(w[i])
    BY DEF NetWords
  <1>7. t = [i \in 1 .. 12 |-> IF i <= 10 THEN s[i] ELSE z]
    BY <1>4, <1>6
  <1> HIDE DEF s, z, t
  <1>8. t = Append(Append(s, z), z)
    <2>r. PICK r \in Struct : /\ r = Append(s, z) /\ Len(r) = Len(s) + 1 /\ r[Len(s) + 1] = z
                              /\ \A i \in 1 .. Len(s) : r[i] = s[i]
      BY <1>2, <1>5, AppendFacts, Zenon
    <2>q. PICK q \in Struct : /\ q = Append(r, z) /\ Len(q) = Len(r) + 1 /\ q[Len(r) + 1] = z
                              /\ \A i \in 1 .. Len(r) : q[i] = r[i]
      BY <1>2, AppendFacts, Zenon
    <2>1. Len(r) = 11 /\ Len(q) = 12
      BY <1>6, <2>r, <2>q
    <2>2. ASSUME NEW i \in 1 .. 12 PROVE q[i] = t[i]
      <3>1. CASE i \in 1 .. 10
        <4>1. q[i] = r[i] /\ r[i] = s[i]
          BY <3>1, <2>1, <1>6, <2>r, <2>q
        <4>2. t[i] = s[i]
          BY <3>1, <1>7
        <4> QED BY <4>1, <4>2
      <3>2. CASE i = 11
        <4>1. q[11] = r[11] /\ r[11] = z
          BY <2>1, <1>6, <2>r, <2>q
        <4>2. t[11] = z
          BY <1>7
        <4> QED BY <3>2, <4>1, <4>2
      <3>3. CASE i = 12
        <4>1. q[12] = z
          BY <2>1, <2>q
        <4>2. t[12] = z
          BY <1>7
        <4> QED BY <3>3, <4>1, <4>2
      <3> QED BY <3>1, <3>2, <3>3
    <2>3. t \in Struct /\ Len(t) = 12
      <3>1. \A i \in 1 .. 10 : s[i] \in ByteSeq
        BY <1>5, <1>6, StructFacts
      <3> QED BY <1>2, <1>7, <3>1 DEF Struct
    <2>4. Len(q) = Len(t) /\ \A i \in 1 .. Len(q) : q[i] = t[i]
      BY <2>1, <2>2, <2>3, Zenon
    <2>5. q = t
      BY <2>3, <2>4, StructEqual, Zenon
    <2> QED BY <2>5, <2>q, <2>r
  <1>9. Append(s, z) \in Struct
    BY <1>2, <1>5, AppendFacts, Zenon
  <1>10. Bytes(t) = Cat(Cat(Bytes(s), z), z)
    <2>1. Bytes(t) = Cat(Bytes(Append(s, z)), z)
      BY <1>2, <1>8, <1>9, BytesAppend, Zenon
    <2>2. Bytes(Append(s, z)) = Cat(Bytes(s), z)
      BY <1>2, <1>5, BytesAppend, Zenon
    <2> QED BY <2>1, <2>2
  <1>11. Bytes(t) = Cat(Bytes(s), NoSetup)
    BY <1>2, <1>5, <1>10, BytesType, CatAssoc, Zenon DEF NoSetup, z
  <1> QED BY <1>1, <1>5, <1>11, Zenon DEF Words, t, v, w

\* A CMD_SUBMIT on the wire: the header, then the data of an OUT transfer.
LEMMA SubmitWire ==
  ASSUME NEW u \in Urbs
  PROVE  LET h == Bytes(NetHeader(SubmitWords(u), u.setup))
             m == SubmitMessage(u)
         IN /\ Wire(m) = Cat(h, m.data) /\ h \in ByteSeq /\ Len(h) = 48
            /\ m.data \in ByteSeq
            /\ (CarriesData(u) => Len(m.data) = u.transfer_buffer_length)
            /\ (~CarriesData(u) => m.data = <<>>)
  <1> DEFINE w == SubmitWords(u)
             m == SubmitMessage(u)
  <1>1. \A i \in 1 .. 10 : w[i] \in Int
    BY SubmitWordsFacts, Zenon
  <1>2. u.setup \in ByteSeq /\ Len(u.setup) = 8
    BY UrbFacts, Zenon
  <1>3. Words(w) = Bytes(NetWords(w))
    BY TenWords, Zenon DEF SubmitWords
  <1>4. /\ Bytes(NetHeader(w, u.setup)) = Cat(Bytes(NetWords(w)), u.setup)
        /\ Bytes(NetHeader(w, u.setup)) \in ByteSeq /\ Len(Bytes(NetHeader(w, u.setup))) = 48
    BY <1>1, <1>2, HeaderBytes, Zenon
  <1>5. m.op = "SUBMIT" /\ m.u = u
    BY DEF SubmitMessage
  <1>6. /\ u.direction = USBIP_DIR_OUT => m.data = Payload(u.transfer_buffer_length)
        /\ u.direction # USBIP_DIR_OUT => m.data = <<>>
    BY DEF SubmitMessage
  <1>7. Wire(m) = (Words(w) \o u.setup) \o m.data
    <2> HIDE DEF m
    <2> QED BY <1>5 DEF Wire, SubmitWords
  <1>8. Wire(m) = Cat(Bytes(NetHeader(w, u.setup)), m.data)
    BY <1>3, <1>4, <1>7, Zenon DEF Cat
  <1>9. u.transfer_buffer_length \in Nat
    BY UrbFacts, Zenon
  <1>10. /\ Payload(u.transfer_buffer_length) \in ByteSeq
         /\ Len(Payload(u.transfer_buffer_length)) = u.transfer_buffer_length
         /\ <<>> \in ByteSeq
    BY <1>9, PayloadFacts, CatEmpty, Zenon
  <1>11. m.data \in ByteSeq
    BY <1>6, <1>10, Zenon
  <1>12. CarriesData(u) => Len(m.data) = u.transfer_buffer_length
    BY <1>6, <1>10, Zenon DEF CarriesData
  <1>13. ~CarriesData(u) => m.data = <<>>
    <2>1. CASE u.direction # USBIP_DIR_OUT
      BY <1>6, <2>1
    <2>2. CASE u.transfer_buffer_length = 0 /\ u.direction = USBIP_DIR_OUT
      <3>1. Len(m.data) = 0
        BY <1>6, <1>10, <2>2, Zenon
      <3> HIDE DEF m
      <3> QED BY <3>1, <1>11, EmptySeq DEF ByteSeq
    <2> QED BY <1>9, <2>1, <2>2 DEF CarriesData
  <1> QED BY <1>4, <1>8, <1>11, <1>12, <1>13

\* The server reads the URB that the driver sent, and does not take it for an
\* unlink.
LEMMA SubmitRead ==
  ASSUME NEW u \in Urbs, NEW b, Starts(b, Bytes(NetHeader(SubmitWords(u), u.setup)))
  PROVE  /\ Submit(usbip_recv_urb_header(b)) = u
         /\ Unlink(usbip_recv_urb_header(b)).command = USBIP_CMD_SUBMIT
  <1> DEFINE w == SubmitWords(u)
             h == usbip_recv_urb_header(b)
  <1>1. \A i \in 1 .. 10 : w[i] \in Int
    BY SubmitWordsFacts, Zenon
  <1>2. u.setup \in ByteSeq /\ Len(u.setup) = 8
    BY UrbFacts, Zenon
  <1>3. h = usbip_unpack_header(NetHeader(w, u.setup))
    BY <1>1, <1>2, HeaderRead, Zenon
  <1>4. u \in SubmitFields(Setups) /\ u.command = USBIP_CMD_SUBMIT
    BY UrbFacts, Zenon
  <1>5. Submit(h) = u
    BY <1>3, <1>4, CommandsUnderstood, Zenon DEF SubmitWords
  <1>6. Submit(h).command = Number32(h[1]) /\ Unlink(h).command = Number32(h[1])
    BY DEF Submit, Unlink
  <1> QED BY <1>4, <1>5, <1>6, Zenon

\* A CMD_UNLINK on the wire: a header.
LEMMA UnlinkWire ==
  ASSUME NEW u \in Urbs
  PROVE  LET h == Bytes(NetHeader(UnlinkWords(u), NoSetup))
         IN /\ Wire(UnlinkMessage(u)) = h /\ h \in ByteSeq /\ Len(h) = 48
            /\ \A i \in 1 .. 10 : UnlinkWords(u)[i] \in Int
  <1> DEFINE m == UnlinkMessage(u)
             w == UnlinkWords(u)
  <1>1. u.seqnum \in Int /\ u.devid \in Int /\ UnlinkSeqnum(u) \in Int
    <2>1. u.seqnum \in Int32 /\ u.devid \in Int32 /\ UnlinkSeqnum(u) \in Int32
      BY UrbFacts DEF UnlinkSeqnum
    <2> QED BY <2>1, NumberFacts, Zenon
  <1>2. /\ m.op = "UNLINK" /\ m.u.seqnum = UnlinkSeqnum(u) /\ m.u.devid = u.devid
        /\ m.u.seqnum_to_unlink = u.seqnum
    BY DEF UnlinkMessage, UnlinkSeqnum
  <1>3. Wire(m) = Words(Twelve(USBIP_CMD_UNLINK, UnlinkSeqnum(u), u.devid, u.seqnum))
    <2> HIDE DEF m
    <2> QED BY <1>2 DEF Wire, Twelve
  <1>4. USBIP_CMD_UNLINK \in Int
    BY DEF USBIP_CMD_UNLINK
  <1>5. Wire(m) = Bytes(NetHeader(w, NoSetup)) /\ \A i \in 1 .. 10 : w[i] \in Int
    BY <1>1, <1>3, <1>4, TwelveWords, Zenon DEF UnlinkWords
  <1>6. Bytes(NetHeader(w, NoSetup)) \in ByteSeq /\ Len(Bytes(NetHeader(w, NoSetup))) = 48
    BY <1>5, NoSetupFacts, HeaderBytes
  <1> QED BY <1>5, <1>6, Zenon

\* The server reads the unlink that the driver sent, and does not take it for a
\* URB.
LEMMA UnlinkRead ==
  ASSUME NEW u \in Urbs, NEW b, Starts(b, Bytes(NetHeader(UnlinkWords(u), NoSetup)))
  PROVE  /\ Unlink(usbip_recv_urb_header(b)) = UnlinkMessage(u).u
         /\ Submit(usbip_recv_urb_header(b)).command = USBIP_CMD_UNLINK
  <1> DEFINE w == UnlinkWords(u)
             h == usbip_recv_urb_header(b)
  <1>1. \A i \in 1 .. 10 : w[i] \in Int
    BY UnlinkWire, Zenon
  <1>3. h = usbip_unpack_header(NetHeader(w, NoSetup))
    BY <1>1, NoSetupFacts, HeaderRead, Zenon
  <1>4. u.seqnum \in Int32 /\ u.devid \in Int32 /\ UnlinkSeqnum(u) \in Int32
    BY UrbFacts DEF UnlinkSeqnum
  <1>5. Unlink(h) = [command |-> USBIP_CMD_UNLINK, seqnum |-> UnlinkSeqnum(u),
                     devid |-> u.devid, direction |-> 0, ep |-> 0,
                     seqnum_to_unlink |-> u.seqnum]
    <2>1. \A seqnum, devid, victim \in Int32 :
            Unlink(usbip_unpack_header(NetHeader(Ten(USBIP_CMD_UNLINK, seqnum, devid, victim),
                                                 NoSetup)))
            = [command |-> USBIP_CMD_UNLINK, seqnum |-> seqnum, devid |-> devid,
               direction |-> 0, ep |-> 0, seqnum_to_unlink |-> victim]
      BY CommandsUnderstood, Zenon DEF Ten
    <2> QED BY <1>3, <1>4, <2>1, Zenon DEF UnlinkWords
  <1>6. Submit(h).command = Number32(h[1]) /\ Unlink(h).command = Number32(h[1])
    BY DEF Submit, Unlink
  <1> HIDE DEF h
  <1>7. Unlink(h).command = USBIP_CMD_UNLINK /\ Unlink(h) = UnlinkMessage(u).u
    BY <1>5 DEF UnlinkMessage, UnlinkSeqnum
  <1> QED BY <1>6, <1>7 DEF h

\* The entries that the URB handler makes of the URBs, cancelled or not.
Entries == {Entry(u) : u \in Urbs} \cup {[Entry(u) EXCEPT !.cancelled = TRUE] : u \in Urbs}
\* The lengths of transfers.
Lengths == Int32 \cap Nat

\* The answer to the URB u: n bytes were moved, with status s.
Return(u, n, s) ==
  [op |-> "RET_SUBMIT", seqnum |-> u.seqnum, devid |-> u.devid, direction |-> u.direction,
   ep |-> u.ep, status |-> s, actual_length |-> n, start_frame |-> u.start_frame,
   number_of_packets |-> u.number_of_packets, setup |-> u.setup,
   data |-> IF u.direction = USBIP_DIR_IN THEN Payload(n) ELSE <<>>]
\* The words of its header.
ReturnWords(u, n, s) ==
  <<USBIP_RET_SUBMIT, u.seqnum, u.devid, u.direction, u.ep, s, n, u.start_frame,
    u.number_of_packets, 0>>

\* An entry keeps what the answer needs of its URB.
LEMMA EntryFacts ==
  ASSUME NEW e \in Entries
  PROVE  \E u \in Urbs :
           /\ e.seqnum = u.seqnum /\ e.devid = u.devid /\ e.direction = u.direction
           /\ e.endpoint \in {u.ep, 128 + u.ep} /\ e.start_frame = u.start_frame
           /\ e.number_of_packets = u.number_of_packets /\ e.setup = u.setup
           /\ e.buffer_length = u.transfer_buffer_length
  <1>1. PICK u \in Urbs : e = Entry(u) \/ e = [Entry(u) EXCEPT !.cancelled = TRUE]
    BY DEF Entries
  <1>2. /\ e.seqnum = u.seqnum /\ e.devid = u.devid /\ e.direction = u.direction % 256
        /\ e.start_frame = u.start_frame /\ e.number_of_packets = u.number_of_packets
        /\ e.setup = u.setup /\ e.buffer_length = u.transfer_buffer_length
        /\ e.endpoint = IF u.direction % 256 = USBIP_DIR_IN THEN 128 + (u.ep % 128)
                                                            ELSE u.ep % 256
    BY <1>1 DEF Entry
  <1>3. u.direction \in {USBIP_DIR_OUT, USBIP_DIR_IN} /\ u.ep \in 0 .. 15
    BY UrbFacts
  <1>4. u.direction % 256 = u.direction /\ u.ep % 128 = u.ep /\ u.ep % 256 = u.ep
    BY <1>3 DEF USBIP_DIR_OUT, USBIP_DIR_IN
  <1>5. e.direction = u.direction /\ e.endpoint \in {u.ep, 128 + u.ep}
    BY <1>2, <1>4
  <1> QED BY <1>2, <1>5, Zenon

\* A transfer moves no more bytes than a 32-bit length can say.
LEMMA TransferFacts ==
  ASSUME NEW e, e.buffer_length \in Lengths, NEW t \in usb_submit_urb(e)
  PROVE  t.actual \in Lengths
  <1>1. e.buffer_length \in Nat /\ e.buffer_length \in Int32
    BY DEF Lengths
  <1>2. e.buffer_length % 65536 \in 0 .. e.buffer_length
    BY <1>1
  <1>3. t.actual \in 0 .. e.buffer_length
    BY <1>1, <1>2 DEF usb_submit_urb, usb_control_transfer, usb_bulk_transfer
  <1> QED BY <1>1, <1>3, SMT DEF Lengths, Int32

\* A completed URB carries the numbers of a URB of the driver.
LEMMA CompletionFacts ==
  ASSUME NEW e \in Entries, NEW c \in Completions(e)
  PROVE  \E u \in Urbs, n \in Lengths, s \in Int32 :
           /\ c.seqnum = u.seqnum /\ c.devid = u.devid /\ c.direction = u.direction
           /\ c.endpoint \in {u.ep, 128 + u.ep} /\ c.start_frame = u.start_frame
           /\ c.number_of_packets = u.number_of_packets /\ c.setup = u.setup
           /\ c.actual_length = n /\ c.status = s
  <1>u. PICK u \in Urbs :
           /\ e.seqnum = u.seqnum /\ e.devid = u.devid /\ e.direction = u.direction
           /\ e.endpoint \in {u.ep, 128 + u.ep} /\ e.start_frame = u.start_frame
           /\ e.number_of_packets = u.number_of_packets /\ e.setup = u.setup
           /\ e.buffer_length = u.transfer_buffer_length
    BY EntryFacts
  <1>1. e.buffer_length \in Lengths
    BY <1>u, UrbFacts DEF Lengths
  <1> DEFINE R == IF e.cancelled THEN {[actual |-> 0, status |-> -ECANCELED]}
                  ELSE {[actual |-> t.actual, status |-> IF t.ok THEN 0 ELSE -EIO] :
                        t \in usb_submit_urb(e)}
  <1>2. PICK r \in R : c = [seqnum |-> e.seqnum, devid |-> e.devid, direction |-> e.direction,
                            endpoint |-> e.endpoint, start_frame |-> e.start_frame,
                            number_of_packets |-> e.number_of_packets, setup |-> e.setup,
                            actual_length |-> r.actual, status |-> r.status]
    BY DEF Completions
  <1>3. 0 \in Int32 /\ -ECANCELED \in Int32 /\ -EIO \in Int32 /\ 0 \in Lengths
    BY SMT DEF Int32, ECANCELED, EIO, Lengths
  <1>4. r.actual \in Lengths /\ r.status \in Int32
    <2>1. CASE e.cancelled
      <3>1. r = [actual |-> 0, status |-> -ECANCELED]
        BY <2>1
      <3> QED BY <3>1, <1>3
    <2>2. CASE ~e.cancelled
      <3>1. PICK t \in usb_submit_urb(e) :
              r = [actual |-> t.actual, status |-> IF t.ok THEN 0 ELSE -EIO]
        BY <2>2
      <3>2. t.actual \in Lengths
        BY <1>1, TransferFacts
      <3> QED BY <1>3, <3>1, <3>2
    <2> QED BY <2>1, <2>2
  <1> HIDE DEF R
  <1>5. /\ c.seqnum = u.seqnum /\ c.devid = u.devid /\ c.direction = u.direction
        /\ c.endpoint \in {u.ep, 128 + u.ep} /\ c.start_frame = u.start_frame
        /\ c.number_of_packets = u.number_of_packets /\ c.setup = u.setup
        /\ c.actual_length = r.actual /\ c.status = r.status
    BY <1>u, <1>2
  <1> QED BY <1>4, <1>5, Zenon

\* The words of an answer are 32-bit numbers.
LEMMA ReturnWordsFacts ==
  ASSUME NEW u \in Urbs, NEW n \in Lengths, NEW s \in Int32
  PROVE  \A i \in 1 .. 10 : ReturnWords(u, n, s)[i] \in Int32 /\ ReturnWords(u, n, s)[i] \in Int
  <1>1. /\ u.seqnum \in Int32 /\ u.devid \in Int32 /\ u.start_frame \in Int32
        /\ u.number_of_packets \in Int32
    BY UrbFacts
  <1>2. u.direction \in 0 .. 15 /\ u.ep \in 0 .. 15
    BY UrbFacts DEF USBIP_DIR_OUT, USBIP_DIR_IN
  <1>3. USBIP_RET_SUBMIT \in 0 .. 15 /\ \A k \in 0 .. 15 : k \in Int32
    BY SMT DEF USBIP_RET_SUBMIT, Int32
  <1>4. u.direction \in Int32 /\ u.ep \in Int32 /\ USBIP_RET_SUBMIT \in Int32 /\ 0 \in Int32
    BY <1>2, <1>3
  <1>5. n \in Int32
    BY DEF Lengths
  <1>6. \A i \in 1 .. 10 : ReturnWords(u, n, s)[i] \in Int32
    BY <1>1, <1>4, <1>5 DEF ReturnWords
  <1> QED BY <1>6, NumberFacts, Zenon

\* client_send_urb_completion sends the answer that the completion means.
LEMMA ReturnSent ==
  ASSUME NEW u \in Urbs, NEW n \in Lengths, NEW s \in Int32, NEW c,
         c.seqnum = u.seqnum, c.devid = u.devid, c.direction = u.direction,
         c.endpoint \in {u.ep, 128 + u.ep}, c.start_frame = u.start_frame,
         c.number_of_packets = u.number_of_packets, c.setup = u.setup,
         c.actual_length = n, c.status = s
  PROVE  /\ ReturnMessage(c) = Return(u, n, s)
         /\ CompletionData(c) = Return(u, n, s).data
         /\ usbip_send_urb_header(urb_handler_create_return(c))
              = Bytes(NetHeader(ReturnWords(u, n, s), u.setup))
  <1> DEFINE w == ReturnWords(u, n, s)
             h == urb_handler_create_return(c)
  <1>1. u.ep \in 0 .. 15
    BY UrbFacts
  <1>2. c.endpoint % 16 = u.ep /\ c.endpoint % 128 = u.ep
    BY <1>1
  <1>3. CompletionData(c) = Return(u, n, s).data
    BY DEF CompletionData, Return
  <1>4. ReturnMessage(c) = Return(u, n, s)
    BY <1>2 DEF ReturnMessage, Return, CompletionData
  <1>5. \A i \in 1 .. 10 : w[i] \in Int32
    BY ReturnWordsFacts
  <1>6. h = [i \in 1 .. 11 |-> IF i = 11 THEN u.setup ELSE Host32(w[i])]
    BY <1>2 DEF urb_handler_create_return, ReturnWords, Zero
  <1>7. Number32(h[1]) = USBIP_RET_SUBMIT
    <2>1. h[1] = Host32(w[1]) /\ w[1] = USBIP_RET_SUBMIT
      BY DEF urb_handler_create_return, ReturnWords
    <2>2. USBIP_RET_SUBMIT \in Int32
      BY SMT DEF Int32, USBIP_RET_SUBMIT
    <2> QED BY <2>1, <2>2, WordForms
  <1> DEFINE f == usbip_pack_header(h, USBIP_RET_SUBMIT)
  <1> HIDE DEF w, h
  <1>8. /\ \A i \in 1 .. 6 : f[i] = Net32(w[i])
        /\ \A i \in 7 .. 10 : f[i] = Net32(w[i])
        /\ f[11] = u.setup
    BY <1>5, <1>6, HeaderSent
  <1>9. f = [i \in 1 .. 11 |-> f[i]]
    BY <1>6 DEF usbip_pack_header, SwapFields
  <1>10. f = NetHeader(w, u.setup)
    <2> HIDE DEF f
    <2>1. \A i \in 1 .. 11 : i \in 1 .. 6 \/ i \in 7 .. 10 \/ i = 11
      OBVIOUS
    <2> QED BY <1>8, <1>9, <2>1 DEF NetHeader
  <1>11. usbip_send_urb_header(h) = Bytes(NetHeader(w, u.setup))
    BY <1>7, <1>10, Zenon DEF usbip_send_urb_header
  <1> QED BY <1>3, <1>4, <1>11, Zenon DEF w, h

\* An answer on the wire: the header, then the data of an IN transfer.
LEMMA ReturnWire ==
  ASSUME NEW u \in Urbs, NEW n \in Lengths, NEW s \in Int32
  PROVE  LET m == Return(u, n, s)
             h == Bytes(NetHeader(ReturnWords(u, n, s), u.setup))
         IN /\ Wire(m) = Cat(h, m.data) /\ h \in ByteSeq /\ Len(h) = 48
            /\ m.data \in ByteSeq
            /\ (u.direction = USBIP_DIR_IN => Len(m.data) = n)
            /\ (u.direction # USBIP_DIR_IN => m.data = <<>>)
  <1> DEFINE w == ReturnWords(u, n, s)
             m == Return(u, n, s)
  <1>1. \A i \in 1 .. 10 : w[i] \in Int
    BY ReturnWordsFacts
  <1>2. u.setup \in ByteSeq /\ Len(u.setup) = 8
    BY UrbFacts
  <1>3. Words(w) = Bytes(NetWords(w))
    BY TenWords, Zenon DEF ReturnWords
  <1>4. /\ Bytes(NetHeader(w, u.setup)) = Cat(Bytes(NetWords(w)), u.setup)
        /\ Bytes(NetHeader(w, u.setup)) \in ByteSeq /\ Len(Bytes(NetHeader(w, u.setup))) = 48
    BY <1>1, <1>2, HeaderBytes, Zenon
  <1>5. /\ m.op = "RET_SUBMIT" /\ m.setup = u.setup
        /\ m.seqnum = u.seqnum /\ m.devid = u.devid /\ m.direction = u.direction
        /\ m.ep = u.ep /\ m.status = s /\ m.actual_length = n
        /\ m.start_frame = u.start_frame /\ m.number_of_packets = u.number_of_packets
    BY DEF Return
  <1>6. /\ u.direction = USBIP_DIR_IN => m.data = Payload(n)
        /\ u.direction # USBIP_DIR_IN => m.data = <<>>
    BY DEF Return
  <1>7. Wire(m) = (Words(w) \o u.setup) \o m.data
    <2> HIDE DEF m
    <2> QED BY <1>5 DEF Wire, ReturnWords
  <1>8. Wire(m) = Cat(Bytes(NetHeader(w, u.setup)), m.data)
    BY <1>3, <1>4, <1>7, Zenon DEF Cat
  <1>9. n \in Nat
    BY DEF Lengths
  <1>10. Payload(n) \in ByteSeq /\ Len(Payload(n)) = n /\ <<>> \in ByteSeq
    BY <1>9, PayloadFacts, CatEmpty, Zenon
  <1>11. m.data \in ByteSeq /\ (u.direction = USBIP_DIR_IN => Len(m.data) = n)
    BY <1>6, <1>10, Zenon
  <1> QED BY <1>4, <1>6, <1>8, <1>11

\* What the driver finds in the words of a header.
DriverReads(b, i) == Number32(swap32(Fields(b, HeaderLayout)[i]))

\* The driver finds in a header the words that were sent.
LEMMA DriverRead ==
  ASSUME NEW w, \A i \in 1 .. 10 : w[i] \in Int32, NEW setup \in ByteSeq, Len(setup) = 8,
         NEW b, Starts(b, Bytes(NetHeader(w, setup)))
  PROVE  /\ \A i \in 1 .. 10 : DriverReads(b, i) = w[i]
         /\ Fields(b, HeaderLayout)[11] = setup
  <1>1. \A i \in 1 .. 10 : w[i] \in Int
    BY NumberFacts, Zenon
  <1>2. Fields(b, HeaderLayout) = NetHeader(w, setup)
    BY <1>1, HeaderRead, Zenon
  <1>3. \A i \in 1 .. 10 : NetHeader(w, setup)[i] = Net32(w[i])
    BY DEF NetHeader
  <1>4. NetHeader(w, setup)[11] = setup
    BY DEF NetHeader
  <1>5. ASSUME NEW i \in 1 .. 10 PROVE DriverReads(b, i) = w[i]
    <2>1. DriverReads(b, i) = Number32(swap32(Net32(w[i])))
      BY <1>2, <1>3, Zenon DEF DriverReads
    <2>2. w[i] \in Int32
      OBVIOUS
    <2>3. swap32(Net32(w[i])) = Host32(w[i]) /\ Number32(Host32(w[i])) = w[i]
      BY <2>2, WordForms, Zenon
    <2> QED BY <2>1, <2>3, Zenon
  <1> QED BY <1>2, <1>4, <1>5, Zenon

\* The answer to a request to unlink u, and the words of its header.
RetUnlink(u) ==
  [op |-> "RET_UNLINK", seqnum |-> UnlinkSeqnum(u), devid |-> u.devid, status |-> 0]
RetUnlinkWords(u) == Ten(USBIP_RET_UNLINK, UnlinkSeqnum(u), u.devid, 0)

\* They are 32-bit numbers.
LEMMA RetUnlinkWordsFacts ==
  ASSUME NEW u \in Urbs
  PROVE  \A i \in 1 .. 10 : RetUnlinkWords(u)[i] \in Int32 /\ RetUnlinkWords(u)[i] \in Int
  <1>1. UnlinkSeqnum(u) \in Int32 /\ u.devid \in Int32
    BY UrbFacts DEF UnlinkSeqnum
  <1>2. USBIP_RET_UNLINK \in Int32 /\ 0 \in Int32
    BY SMT DEF Int32, USBIP_RET_UNLINK
  <1>3. \A i \in 1 .. 10 : RetUnlinkWords(u)[i] \in Int32
    BY <1>1, <1>2 DEF RetUnlinkWords, Ten
  <1> QED BY <1>3, NumberFacts, Zenon

\* An answer to an unlink on the wire: a header.
LEMMA RetUnlinkWire ==
  ASSUME NEW u \in Urbs
  PROVE  LET h == Bytes(NetHeader(RetUnlinkWords(u), NoSetup))
         IN Wire(RetUnlink(u)) = h /\ h \in ByteSeq /\ Len(h) = 48
  <1> DEFINE m == RetUnlink(u)
             w == RetUnlinkWords(u)
  <1>1. UnlinkSeqnum(u) \in Int /\ u.devid \in Int /\ 0 \in Int
    <2>1. UnlinkSeqnum(u) \in Int32 /\ u.devid \in Int32
      BY UrbFacts DEF UnlinkSeqnum
    <2>2. 0 \in Int
      OBVIOUS
    <2> QED BY <2>1, <2>2, NumberFacts, Zenon
  <1>2. m.op = "RET_UNLINK" /\ m.seqnum = UnlinkSeqnum(u) /\ m.devid = u.devid /\ m.status = 0
    BY DEF RetUnlink
  <1>3. Wire(m) = Words(Twelve(USBIP_RET_UNLINK, UnlinkSeqnum(u), u.devid, 0))
    <2> HIDE DEF m
    <2> QED BY <1>2 DEF Wire, Twelve
  <1>4. USBIP_RET_UNLINK \in Int
    BY DEF USBIP_RET_UNLINK
  <1>5. Wire(m) = Bytes(NetHeader(w, NoSetup))
    BY <1>1, <1>3, <1>4, TwelveWords, Zenon DEF RetUnlinkWords
  <1>6. \A i \in 1 .. 10 : w[i] \in Int
    BY RetUnlinkWordsFacts
  <1>7. Bytes(NetHeader(w, NoSetup)) \in ByteSeq /\ Len(Bytes(NetHeader(w, NoSetup))) = 48
    BY <1>6, NoSetupFacts, HeaderBytes
  <1> QED BY <1>5, <1>7, Zenon

\* handle_client_session sends it so.
LEMMA RetUnlinkSent ==
  ASSUME NEW u \in Urbs
  PROVE  usbip_send_urb_header(usbip_create_urb_unlink_ret(UnlinkSeqnum(u), u.devid, 0))
           = Wire(RetUnlink(u))
  <1> DEFINE w == RetUnlinkWords(u)
             h == usbip_create_urb_unlink_ret(UnlinkSeqnum(u), u.devid, 0)
             f == usbip_pack_header(h, USBIP_RET_UNLINK)
  <1>1. \A i \in 1 .. 10 : w[i] \in Int32
    BY RetUnlinkWordsFacts
  <1>2. NoSetup = Zero \o Zero
    BY DEF NoSetup, Cat, Zero, Host32, Net32
  <1>3. h = [i \in 1 .. 11 |-> IF i = 11 THEN NoSetup ELSE Host32(w[i])]
    BY <1>2 DEF usbip_create_urb_unlink_ret, RetUnlinkWords, Ten, Zero
  <1>4. Number32(h[1]) = USBIP_RET_UNLINK
    <2>1. h[1] = Host32(USBIP_RET_UNLINK)
      BY DEF usbip_create_urb_unlink_ret
    <2>2. USBIP_RET_UNLINK \in Int32
      BY SMT DEF Int32, USBIP_RET_UNLINK
    <2> QED BY <2>1, <2>2, WordForms
  <1>5. \A i \in 7 .. 10 : w[i] = 0
    BY DEF RetUnlinkWords, Ten
  <1>6. \A i \in 7 .. 10 : h[i] = Net32(w[i])
    BY <1>3, <1>5 DEF Host32, Net32
  <1> HIDE DEF w, h
  <1>7. /\ \A i \in 1 .. 6 : f[i] = Net32(w[i])
        /\ f[11] = NoSetup
    BY <1>1, <1>3, HeaderSent
  <1>8. f = [i \in 1 .. 11 |-> f[i]] /\ \A i \in 7 .. 10 : f[i] = h[i]
    BY <1>3 DEF usbip_pack_header, SwapFields, CommandFields, USBIP_CMD_SUBMIT, USBIP_RET_SUBMIT,
         USBIP_CMD_UNLINK, USBIP_RET_UNLINK
  <1>9. f = NetHeader(w, NoSetup)
    <2> HIDE DEF f
    <2>1. \A i \in 1 .. 11 : i \in 1 .. 6 \/ i \in 7 .. 10 \/ i = 11
      OBVIOUS
    <2> QED BY <1>6, <1>7, <1>8, <2>1 DEF NetHeader
  <1>10. usbip_send_urb_header(h) = Bytes(NetHeader(w, NoSetup))
    BY <1>4, <1>9, Zenon DEF usbip_send_urb_header
  <1> QED BY <1>10, RetUnlinkWire, Zenon DEF w, h

----------------------------------------------------------------------------
(* The messages of the client programs, and the replies.                   *)

\* The devices of a list as they follow each other on the wire.
ListStruct(l) == [i \in DOMAIN l |-> Cat(WireDevice(l[i].info), Bytes(l[i].interfaces))]

\* What a list of shared devices is made of.
LEMMA ListFacts ==
  ASSUME NEW l \in Lists
  PROVE  /\ Len(l) \in Int32 /\ Len(l) \in Nat /\ DOMAIN l = 1 .. Len(l)
         /\ \A i \in 1 .. Len(l) :
              /\ l[i].info \in usb_device_t /\ l[i].interfaces \in Seq([1 .. 4 -> Octet])
              /\ l[i].info.num_interfaces = Len(l[i].interfaces)
  <1>1. /\ l \in Seq(SharedDevice) /\ Len(l) \in Int32
        /\ \A i \in DOMAIN l : l[i].info.num_interfaces = Len(l[i].interfaces)
    BY ExchangeAssumption
  <1>2. Len(l) \in Nat /\ DOMAIN l = 1 .. Len(l) /\ \A i \in 1 .. Len(l) : l[i] \in SharedDevice
    BY <1>1
  <1>3. ASSUME NEW i \in 1 .. Len(l)
        PROVE  l[i].info \in usb_device_t /\ l[i].interfaces \in Seq([1 .. 4 -> Octet])
    <2>1. l[i] \in SharedDevice
      BY <1>2
    <2> QED BY <2>1 DEF SharedDevice
  <1> QED BY <1>1, <1>2, <1>3, Zenon

\* A function of n runs of bytes is a structure of n fields.
LEMMA StructIs ==
  ASSUME NEW n \in Nat, NEW s, s = [i \in 1 .. n |-> s[i]], \A i \in 1 .. n : s[i] \in ByteSeq
  PROVE  s \in Struct /\ Len(s) = n
  BY DEF Struct

\* The interfaces of a device take 4 bytes each.
LEMMA InterfaceBytes ==
  ASSUME NEW s \in Seq([1 .. 4 -> Octet])
  PROVE  /\ s \in Struct /\ Bytes(s) \in ByteSeq /\ Len(Bytes(s)) = 4 * Len(s)
         /\ Bytes([j \in DOMAIN s |-> usbip_send_interface(s[j])]) = Bytes(s)
  <1>l. PICK l \in Nat : l = Len(s)
    OBVIOUS
  <1>0. DOMAIN s = 1 .. l /\ s = [j \in 1 .. l |-> s[j]]
          /\ \A i \in 1 .. l : s[i] \in [1 .. 4 -> Octet]
    BY <1>l
  <1>1. 4 \in Nat
    OBVIOUS
  <1>2. \A i \in 1 .. l : s[i] \in ByteSeq /\ Len(s[i]) = 4
    BY <1>0, <1>1, OctetsFacts, Zenon
  <1>3. s \in Struct
    BY <1>0, <1>2, StructIs, Zenon
  <1>4. Bytes(s) \in ByteSeq
    BY <1>3, BytesType, Zenon
  <1> DEFINE off == [i \in 1 .. l + 1 |-> 4 * (i - 1)]
  <1>5. Offsets(s, off) /\ off[l + 1] = 4 * l
    <2>1. off[1] = 0 /\ off[l + 1] = 4 * l
      OBVIOUS
    <2>2. ASSUME NEW i \in 1 .. l PROVE off[i] \in Nat /\ off[i + 1] = off[i] + 4
      <3>1. i \in 1 .. l + 1 /\ i + 1 \in 1 .. l + 1 /\ i \in Nat /\ i >= 1
        OBVIOUS
      <3>2. off[i] = 4 * (i - 1) /\ off[i + 1] = 4 * ((i + 1) - 1)
        BY <3>1
      <3> HIDE DEF off
      <3> QED BY <3>1, <3>2
    <2> HIDE DEF off
    <2>3. \A i \in 1 .. l : off[i] \in Nat /\ off[i + 1] = off[i] + Len(s[i])
      BY <1>2, <2>2, Zenon
    <2> QED BY <1>l, <2>1, <2>3, Zenon DEF Offsets
  <1> HIDE DEF off
  <1>6. Len(Bytes(s)) = 4 * l
    BY <1>3, <1>5, <1>l, FieldsInBytes, Zenon
  <1>7. [j \in DOMAIN s |-> usbip_send_interface(s[j])] = s
    BY <1>0 DEF usbip_send_interface
  <1> QED BY <1>3, <1>4, <1>6, <1>7, <1>l, Zenon

\* A device takes 26 bytes in the list and 4 for each interface that its
\* bNumInterfaces says follow.
LEMMA ListStructFacts ==
  ASSUME NEW l \in Lists
  PROVE  /\ ListStruct(l) \in Struct /\ Len(ListStruct(l)) = Len(l)
         /\ Bytes(ListStruct(l)) \in ByteSeq
         /\ \A i \in 1 .. Len(l) :
              LET d == l[i].info
                  x == Bytes(l[i].interfaces)
              IN /\ ListStruct(l)[i] = Cat(WireDevice(d), x)
                 /\ d \in usb_device_t /\ WireDevice(d) \in ByteSeq /\ x \in ByteSeq
                 /\ Len(WireDevice(d)) = 26 /\ Len(x) = 4 * d.num_interfaces
                 /\ d.num_interfaces \in Nat
                 /\ Len(ListStruct(l)[i]) = 26 + 4 * d.num_interfaces
  <1>n. PICK n \in Nat : n = Len(l)
    BY ListFacts
  <1>0. DOMAIN l = 1 .. n
    BY <1>n, ListFacts
  <1> DEFINE s == ListStruct(l)
  <1>1. DOMAIN s = 1 .. n /\ s = [i \in 1 .. n |-> s[i]]
         /\ \A i \in 1 .. n : s[i] = Cat(WireDevice(l[i].info), Bytes(l[i].interfaces))
    BY <1>0 DEF ListStruct
  <1> HIDE DEF s
  <1>2. ASSUME NEW i \in 1 .. n
        PROVE  LET d == l[i].info
                   x == Bytes(l[i].interfaces)
               IN /\ d \in usb_device_t /\ WireDevice(d) \in ByteSeq /\ x \in ByteSeq
                  /\ Len(WireDevice(d)) = 26 /\ Len(x) = 4 * d.num_interfaces
                  /\ d.num_interfaces \in Nat /\ s[i] \in ByteSeq
                  /\ Len(s[i]) = 26 + 4 * d.num_interfaces
    <2>1. PICK d \in usb_device_t, t \in Seq([1 .. 4 -> Octet]) :
             d = l[i].info /\ t = l[i].interfaces /\ d.num_interfaces = Len(t)
      BY <1>n, ListFacts, Zenon
    <2>2. WireDevice(d) \in ByteSeq /\ Len(WireDevice(d)) = 26
      BY DeviceBytes
    <2>3. Bytes(t) \in ByteSeq /\ Len(Bytes(t)) = 4 * Len(t)
      BY InterfaceBytes, Zenon
    <2>4. Len(t) \in Nat
      OBVIOUS
    <2>5. Cat(WireDevice(d), Bytes(t)) \in ByteSeq
          /\ Len(Cat(WireDevice(d), Bytes(t))) = Len(WireDevice(d)) + Len(Bytes(t))
      BY <2>2, <2>3, CatSize, Zenon
    <2>6. Len(Cat(WireDevice(d), Bytes(t))) = 26 + 4 * Len(t)
      BY <2>2, <2>3, <2>4, <2>5, Zenon
    <2> QED BY <1>1, <2>1, <2>2, <2>3, <2>4, <2>5, <2>6, Zenon
  <1>3. s \in Struct /\ Len(s) = n
    BY <1>1, <1>2 DEF Struct
  <1>4. Bytes(s) \in ByteSeq
    BY <1>3, BytesType, Zenon
  <1> QED BY <1>n, <1>1, <1>2, <1>3, <1>4, Zenon DEF s

\* The messages of the two client programs, as they are meant.
DevlistReply(l) == [op |-> "REP_DEVLIST", devices |-> l]
DevlistRequest == [op |-> "REQ_DEVLIST"]
ImportRequestFor(b) == [op |-> "REQ_IMPORT", busid |-> b]
ImportDone(d) == [op |-> "REP_IMPORT", status |-> USBIP_ST_OK, device |-> d]
ImportRefused(s) == [op |-> "REP_IMPORT", status |-> s]
\* The statuses with which client_handle_import refuses.
Refusals == {USBIP_ST_DEV_BUSY, USBIP_ST_NA}

\* The codes of the messages fit their fields and differ.
LEMMA Commands ==
  /\ OP_REQ_DEVLIST \in Nat16 /\ OP_REQ_IMPORT \in Nat16 /\ OP_REP_DEVLIST \in Nat16
  /\ OP_REP_IMPORT \in Nat16 /\ 0 \in Int32 /\ USBIP_ST_OK \in Int32 /\ 0 \in Int
  /\ OP_REQ_DEVLIST \in Int /\ OP_REQ_IMPORT \in Int /\ OP_REP_DEVLIST \in Int
  /\ OP_REP_IMPORT \in Int /\ USBIP_ST_OK \in Int /\ OP_REQ_DEVLIST # OP_REQ_IMPORT
  /\ \A s \in Refusals : s \in Int32 /\ s \in Int /\ s # USBIP_ST_OK
  BY SMT DEF OP_REQ_DEVLIST, OP_REQ_IMPORT, OP_REP_DEVLIST, OP_REP_IMPORT, USBIP_ST_OK,
     USBIP_ST_DEV_BUSY, USBIP_ST_NA, Nat16, Int32, Refusals

\* The two requests on the wire, and that the client sends them so.
LEMMA RequestWire ==
  /\ LET w == WireBasic(OP_REQ_DEVLIST, 0)
     IN /\ Wire(DevlistRequest) = w /\ w \in ByteSeq /\ Len(w) = 8
        /\ Bytes(usbip_pack_header_basic(usbip_create_devlist_request)) = w
  /\ \A b \in Names :
       LET w == WireBasic(OP_REQ_IMPORT, 0)
       IN /\ Wire(ImportRequestFor(b)) = Cat(w, <<b>>) /\ w \in ByteSeq /\ Len(w) = 8
          /\ Bytes(usbip_pack_header_basic(usbip_create_import_request)) \o <<b>> = Cat(w, <<b>>)
          /\ <<b>> \in ByteSeq /\ Len(<<b>>) = 1
  <1>1. /\ WireBasic(OP_REQ_DEVLIST, 0) \in ByteSeq /\ Len(WireBasic(OP_REQ_DEVLIST, 0)) = 8
        /\ Bytes(usbip_pack_header_basic(BasicHeader(OP_REQ_DEVLIST, 0)))
             = WireBasic(OP_REQ_DEVLIST, 0)
    BY Commands, BasicBytes, Zenon
  <1>2. /\ WireBasic(OP_REQ_IMPORT, 0) \in ByteSeq /\ Len(WireBasic(OP_REQ_IMPORT, 0)) = 8
        /\ Bytes(usbip_pack_header_basic(BasicHeader(OP_REQ_IMPORT, 0)))
             = WireBasic(OP_REQ_IMPORT, 0)
    BY Commands, BasicBytes, Zenon
  <1>3. Wire(DevlistRequest) = WireBasic(OP_REQ_DEVLIST, 0)
    <2> DEFINE m == DevlistRequest
    <2>1. m.op = "REQ_DEVLIST"
      BY DEF DevlistRequest
    <2> HIDE DEF m
    <2>2. Wire(m) = WireBasic(OP_REQ_DEVLIST, 0)
      BY <2>1 DEF Wire
    <2> QED BY <2>2, Zenon DEF m
  <1>4. ASSUME NEW b \in Names
        PROVE  /\ Wire(ImportRequestFor(b)) = Cat(WireBasic(OP_REQ_IMPORT, 0), <<b>>)
               /\ <<b>> \in ByteSeq /\ Len(<<b>>) = 1
    <2> DEFINE m == ImportRequestFor(b)
    <2>1. m.op = "REQ_IMPORT" /\ m.busid = b
      BY DEF ImportRequestFor
    <2> HIDE DEF m
    <2>2. b \in Place
      BY DEF Place
    <2>3. Wire(m) = WireBasic(OP_REQ_IMPORT, 0) \o <<b>>
      BY <2>1 DEF Wire
    <2> QED BY <2>2, <2>3, PlaceFacts, Zenon DEF Cat, m
  <1> QED BY <1>1, <1>2, <1>3, <1>4, Zenon DEF Cat, usbip_create_devlist_request,
            usbip_create_import_request

\* The device list on the wire: header, count, devices; and that
\* client_send_device_list sends it so.
LEMMA DevlistWire ==
  ASSUME NEW l \in Lists
  PROVE  LET w == WireBasic(OP_REP_DEVLIST, USBIP_ST_OK)
             n == Net32(Len(l))
             r == Bytes(ListStruct(l))
         IN /\ Wire(DevlistReply(l)) = Cat(Cat(w, n), r)
            /\ w \in ByteSeq /\ Len(w) = 8 /\ n \in ByteSeq /\ Len(n) = 4 /\ r \in ByteSeq
            /\ Bytes(usbip_pack_header_basic(usbip_create_devlist_reply)) = w
            /\ swap32(Host32(Len(l))) = n
            /\ Bytes([i \in DOMAIN l |->
                 usbip_send_device(usb_device_to_usbip(l[i].info))
                   \o Bytes([j \in DOMAIN l[i].interfaces |->
                        usbip_send_interface(l[i].interfaces[j])])]) = r
  <1>1. /\ WireBasic(OP_REP_DEVLIST, USBIP_ST_OK) \in ByteSeq
        /\ Len(WireBasic(OP_REP_DEVLIST, USBIP_ST_OK)) = 8
        /\ Bytes(usbip_pack_header_basic(BasicHeader(OP_REP_DEVLIST, USBIP_ST_OK)))
             = WireBasic(OP_REP_DEVLIST, USBIP_ST_OK)
    BY Commands, BasicBytes, Zenon
  <1>2. Len(l) \in Int
    BY ListFacts
  <1>3. Net32(Len(l)) \in ByteSeq /\ Len(Net32(Len(l))) = 4
    BY <1>2, NetFacts
  <1>4. swap32(Host32(Len(l))) = Net32(Len(l))
    BY DEF swap32, Host32, Net32
  <1>5. Bytes(ListStruct(l)) \in ByteSeq
    BY ListStructFacts
  <1>6. Wire(DevlistReply(l))
          = Cat(Cat(WireBasic(OP_REP_DEVLIST, USBIP_ST_OK), Net32(Len(l))), Bytes(ListStruct(l)))
    <2> DEFINE m == DevlistReply(l)
    <2>1. m.op = "REP_DEVLIST" /\ m.devices = l
      BY DEF DevlistReply
    <2> HIDE DEF m
    <2>2. Wire(m) = (WireBasic(OP_REP_DEVLIST, USBIP_ST_OK) \o Net32(Len(l)))
           \o Bytes([i \in DOMAIN l |-> WireDevice(l[i].info) \o Bytes(l[i].interfaces)])
      BY <2>1 DEF Wire
    <2> QED BY <2>2, Zenon DEF Cat, ListStruct, m
  <1>7. [i \in DOMAIN l |->
                 usbip_send_device(usb_device_to_usbip(l[i].info))
                   \o Bytes([j \in DOMAIN l[i].interfaces |->
                        usbip_send_interface(l[i].interfaces[j])])] = ListStruct(l)
    <2>1. ASSUME NEW i \in DOMAIN l
          PROVE  usbip_send_device(usb_device_to_usbip(l[i].info))
                   \o Bytes([j \in DOMAIN l[i].interfaces |->
                        usbip_send_interface(l[i].interfaces[j])])
                 = Cat(WireDevice(l[i].info), Bytes(l[i].interfaces))
      <3>1. l[i].info \in usb_device_t /\ l[i].interfaces \in Seq([1 .. 4 -> Octet])
        BY ListFacts, Zenon
      <3>2. usbip_send_device(usb_device_to_usbip(l[i].info)) = WireDevice(l[i].info)
        BY <3>1, DeviceBytes, DeviceFieldsPacked, Zenon DEF usbip_send_device
      <3>3. Bytes([j \in DOMAIN l[i].interfaces |-> usbip_send_interface(l[i].interfaces[j])])
              = Bytes(l[i].interfaces)
        BY <3>1, InterfaceBytes, Zenon
      <3> QED BY <3>2, <3>3, Zenon DEF Cat
    <2> QED BY <2>1, Zenon DEF ListStruct
  <1> QED BY <1>1, <1>3, <1>4, <1>5, <1>6, <1>7, Zenon DEF usbip_create_devlist_reply

\* The reply to an import, granted, and that client_handle_import sends it so.
LEMMA ImportDoneWire ==
  ASSUME NEW d \in usb_device_t
  PROVE  LET w == WireBasic(OP_REP_IMPORT, USBIP_ST_OK)
         IN /\ Wire(ImportDone(d)) = Cat(w, WireDevice(d)) /\ w \in ByteSeq /\ Len(w) = 8
            /\ WireDevice(d) \in ByteSeq /\ Len(WireDevice(d)) = 26
            /\ ImportReplyBytes(USBIP_ST_OK, d) = Wire(ImportDone(d))
  <1>1. /\ WireBasic(OP_REP_IMPORT, USBIP_ST_OK) \in ByteSeq
        /\ Len(WireBasic(OP_REP_IMPORT, USBIP_ST_OK)) = 8
        /\ Bytes(usbip_pack_header_basic(BasicHeader(OP_REP_IMPORT, USBIP_ST_OK)))
             = WireBasic(OP_REP_IMPORT, USBIP_ST_OK)
    BY Commands, BasicBytes, Zenon
  <1>2. WireDevice(d) \in ByteSeq /\ Len(WireDevice(d)) = 26
    BY DeviceBytes
  <1>3. Wire(ImportDone(d)) = Cat(WireBasic(OP_REP_IMPORT, USBIP_ST_OK), WireDevice(d))
    <2> DEFINE m == ImportDone(d)
    <2>1. m.op = "REP_IMPORT" /\ m.status = USBIP_ST_OK /\ m.device = d
      BY DEF ImportDone
    <2> HIDE DEF m
    <2>2. Wire(m) = WireBasic(OP_REP_IMPORT, USBIP_ST_OK) \o WireDevice(d)
      BY <2>1 DEF Wire
    <2> QED BY <2>2, Zenon DEF Cat, m
  <1>4. usbip_send_device(usb_device_to_usbip(d)) = WireDevice(d)
    BY DeviceBytes, DeviceFieldsPacked, Zenon DEF usbip_send_device
  <1>5. ImportReplyBytes(USBIP_ST_OK, d)
          = Cat(WireBasic(OP_REP_IMPORT, USBIP_ST_OK), WireDevice(d))
    BY <1>1, <1>4, Zenon DEF ImportReplyBytes, Cat
  <1> QED BY <1>1, <1>2, <1>3, <1>5, Zenon

\* The reply to an import, refused, and that client_handle_import sends it so.
LEMMA ImportRefusedWire ==
  ASSUME NEW s \in Refusals, NEW d
  PROVE  LET w == WireBasic(OP_REP_IMPORT, s)
         IN /\ Wire(ImportRefused(s)) = w /\ w \in ByteSeq /\ Len(w) = 8
            /\ ImportReplyBytes(s, d) = Wire(ImportRefused(s))
  <1>0. s \in Int /\ s # USBIP_ST_OK
    BY Commands
  <1>1. /\ WireBasic(OP_REP_IMPORT, s) \in ByteSeq /\ Len(WireBasic(OP_REP_IMPORT, s)) = 8
        /\ Bytes(usbip_pack_header_basic(BasicHeader(OP_REP_IMPORT, s)))
             = WireBasic(OP_REP_IMPORT, s)
    BY <1>0, Commands, BasicBytes, Zenon
  <1>2. Wire(ImportRefused(s)) = Cat(WireBasic(OP_REP_IMPORT, s), <<>>)
    <2> DEFINE m == ImportRefused(s)
    <2>1. m.op = "REP_IMPORT" /\ m.status = s
      BY DEF ImportRefused
    <2> HIDE DEF m
    <2>2. Wire(m) = WireBasic(OP_REP_IMPORT, s) \o <<>>
      BY <1>0, <2>1 DEF Wire
    <2> QED BY <2>2, Zenon DEF Cat, m
  <1>3. ImportReplyBytes(s, d) = Cat(WireBasic(OP_REP_IMPORT, s), <<>>)
    BY <1>0, <1>1, Zenon DEF ImportReplyBytes, Cat
  <1> QED BY <1>1, <1>2, <1>3, CatEmpty, Zenon

\* What a client or its driver may ask.
Request ==
  {DevlistRequest} \cup {ImportRequestFor(b) : b \in Names}
    \cup {SubmitMessage(u) : u \in Urbs} \cup {UnlinkMessage(u) : u \in Urbs}

\* What the server may answer.
Reply ==
  {DevlistReply(l) : l \in Lists} \cup {ImportDone(d) : d \in usb_device_t}
    \cup {ImportRefused(s) : s \in Refusals} \cup {RetUnlink(u) : u \in Urbs}
    \cup UNION {{Return(u, n, s) : n \in Lengths, s \in Int32} : u \in Urbs}

\* A concatenation is no shorter than its first part.
LEMMA CatAtLeast ==
  ASSUME NEW x \in ByteSeq, NEW y \in ByteSeq
  PROVE  Cat(x, y) \in ByteSeq /\ Len(Cat(x, y)) >= Len(x)
  BY CatFacts

\* What begins with a header has at least 8 bytes.
LEMMA LongWire ==
  ASSUME NEW x \in ByteSeq, NEW y \in ByteSeq, NEW v, v = Cat(x, y), Len(x) = 8 \/ Len(x) = 48
  PROVE  v \in ByteSeq /\ Len(v) >= 8
  <1>1. PICK n \in Nat, k \in Nat : n = Len(v) /\ k = Len(x) /\ n >= k
    BY CatAtLeast, ByteSeqFacts
  <1>2. v \in ByteSeq
    BY CatAtLeast
  <1>3. k = 8 \/ k = 48
    BY <1>1, Zenon
  <1>4. n >= 8
    <2>1. \A a \in Nat : (a >= 8 => a >= 8) /\ (a >= 48 => a >= 8)
      OBVIOUS
    <2> QED BY <1>1, <1>3, <2>1, Zenon
  <1> QED BY <1>1, <1>2, <1>4, Zenon

\* A request is known by its op.
LEMMA RequestCases ==
  ASSUME NEW m \in Request
  PROVE  /\ m.op \in {"REQ_DEVLIST", "REQ_IMPORT", "SUBMIT", "UNLINK"}
         /\ m.op = "REQ_DEVLIST" => m = DevlistRequest
         /\ m.op = "REQ_IMPORT" => \E b \in Names : m = ImportRequestFor(b)
         /\ m.op = "SUBMIT" => \E u \in Urbs : m = SubmitMessage(u)
         /\ m.op = "UNLINK" => \E u \in Urbs : m = UnlinkMessage(u)
  <1>1. CASE m = DevlistRequest
    BY <1>1 DEF DevlistRequest
  <1>2. CASE \E b \in Names : m = ImportRequestFor(b)
    BY <1>2 DEF ImportRequestFor
  <1>3. CASE \E u \in Urbs : m = SubmitMessage(u)
    <2>1. m.op = "SUBMIT"
      BY <1>3 DEF SubmitMessage
    <2> QED BY <1>3, <2>1
  <1>4. CASE \E u \in Urbs : m = UnlinkMessage(u)
    <2>1. m.op = "UNLINK"
      BY <1>4 DEF UnlinkMessage
    <2> QED BY <1>4, <2>1
  <1> QED BY <1>1, <1>2, <1>3, <1>4, Zenon DEF Request

\* A request has bytes, a header at least.
LEMMA RequestWired ==
  ASSUME NEW m \in Request
  PROVE  Wire(m) \in ByteSeq /\ Len(Wire(m)) >= 8
  <1>1. CASE m = DevlistRequest
    <2>1. Wire(m) \in ByteSeq /\ Len(Wire(m)) = 8
      BY <1>1, RequestWire, Zenon
    <2> QED BY <2>1
  <1>2. CASE \E b \in Names : m = ImportRequestFor(b)
    <2>1. PICK b \in Names : m = ImportRequestFor(b)
      BY <1>2
    <2>2. PICK x \in ByteSeq, y \in ByteSeq : Wire(m) = Cat(x, y) /\ Len(x) = 8
      BY <2>1, RequestWire, Zenon
    <2> QED BY <2>2, CatAtLeast
  <1>3. CASE \E u \in Urbs : m = SubmitMessage(u)
    <2>1. PICK u \in Urbs : m = SubmitMessage(u)
      BY <1>3
    <2>2. PICK x \in ByteSeq, y \in ByteSeq : Wire(m) = Cat(x, y) /\ Len(x) = 48
      BY <2>1, SubmitWire, Zenon
    <2> QED BY <2>2, LongWire
  <1>4. CASE \E u \in Urbs : m = UnlinkMessage(u)
    <2>1. Wire(m) \in ByteSeq /\ Len(Wire(m)) = 48
      BY <1>4, UnlinkWire, Zenon
    <2> QED BY <2>1
  <1> QED BY <1>1, <1>2, <1>3, <1>4, Zenon DEF Request

\* A reply is known by its op.
LEMMA ReplyCases ==
  ASSUME NEW m \in Reply
  PROVE  /\ m.op \in {"REP_DEVLIST", "REP_IMPORT", "RET_SUBMIT", "RET_UNLINK"}
         /\ m.op = "REP_DEVLIST" => \E l \in Lists : m = DevlistReply(l)
         /\ m.op = "REP_IMPORT" => \/ \E d \in usb_device_t : m = ImportDone(d)
                                   \/ \E s \in Refusals : m = ImportRefused(s)
         /\ m.op = "RET_SUBMIT" => \E u \in Urbs, n \in Lengths, s \in Int32 :
            m = Return(u, n, s)
         /\ m.op = "RET_UNLINK" => \E u \in Urbs : m = RetUnlink(u)
  <1>1. CASE \E l \in Lists : m = DevlistReply(l)
    <2>1. m.op = "REP_DEVLIST"
      BY <1>1 DEF DevlistReply
    <2> QED BY <1>1, <2>1
  <1>2. CASE \E d \in usb_device_t : m = ImportDone(d)
    <2>1. m.op = "REP_IMPORT"
      BY <1>2 DEF ImportDone
    <2> QED BY <1>2, <2>1
  <1>3. CASE \E s \in Refusals : m = ImportRefused(s)
    <2>1. m.op = "REP_IMPORT"
      BY <1>3 DEF ImportRefused
    <2> QED BY <1>3, <2>1
  <1>4. CASE \E u \in Urbs : m = RetUnlink(u)
    <2>1. m.op = "RET_UNLINK"
      BY <1>4 DEF RetUnlink
    <2> QED BY <1>4, <2>1
  <1>5. CASE \E u \in Urbs, n \in Lengths, s \in Int32 : m = Return(u, n, s)
    <2>1. m.op = "RET_SUBMIT"
      BY <1>5 DEF Return
    <2> QED BY <1>5, <2>1
  <1>6. \/ \E l \in Lists : m = DevlistReply(l)
        \/ \E d \in usb_device_t : m = ImportDone(d)
        \/ \E s \in Refusals : m = ImportRefused(s)
        \/ \E u \in Urbs : m = RetUnlink(u)
        \/ \E u \in Urbs, n \in Lengths, s \in Int32 : m = Return(u, n, s)
    BY DEF Reply
  <1> QED BY <1>1, <1>2, <1>3, <1>4, <1>5, <1>6, Zenon

\* A reply has bytes, a header at least.
LEMMA ReplyWired ==
  ASSUME NEW m \in Reply
  PROVE  Wire(m) \in ByteSeq /\ Len(Wire(m)) >= 8
  <1>0. m.op = "REP_DEVLIST" \/ m.op = "REP_IMPORT" \/ m.op = "RET_SUBMIT" \/ m.op = "RET_UNLINK"
    BY ReplyCases
  <1>1. CASE m.op = "REP_DEVLIST"
    <2>1. PICK l \in Lists : m = DevlistReply(l)
      BY <1>1, ReplyCases, Zenon
    <2>2. PICK x \in ByteSeq, y \in ByteSeq, z \in ByteSeq : Wire(m) = Cat(Cat(x, y), z)
                 /\ Len(x) = 8
      BY <2>1, DevlistWire, Zenon
    <2>3. PICK v \in ByteSeq : v = Cat(x, y) /\ Len(v) >= 8
      BY <2>2, CatAtLeast
    <2>4. PICK k \in Nat : k = Len(v)
      BY ByteSeqFacts
    <2>5. Wire(m) \in ByteSeq /\ Len(Wire(m)) >= k
      BY <2>2, <2>3, <2>4, CatAtLeast, Zenon
    <2>6. Len(Wire(m)) \in Nat
      BY <2>5, ByteSeqFacts, Zenon
    <2> QED BY <2>3, <2>4, <2>5, <2>6
  <1>2. CASE m.op = "REP_IMPORT"
    <2>0. (\E d \in usb_device_t : m = ImportDone(d)) \/ (\E s \in Refusals :
            m = ImportRefused(s))
      BY <1>2, ReplyCases, Zenon
    <2>1. CASE \E d \in usb_device_t : m = ImportDone(d)
      <3>1. PICK x \in ByteSeq, y \in ByteSeq : Wire(m) = Cat(x, y) /\ Len(x) = 8
        BY <2>1, ImportDoneWire, Zenon
      <3> QED BY <3>1, CatAtLeast
    <2>2. CASE \E s \in Refusals : m = ImportRefused(s)
      <3>1. Wire(m) \in ByteSeq /\ Len(Wire(m)) = 8
        BY <2>2, ImportRefusedWire, Zenon
      <3> QED BY <3>1
    <2> QED BY <2>0, <2>1, <2>2
  <1>3. CASE m.op = "RET_SUBMIT"
    <2>1. PICK u \in Urbs, n \in Lengths, s \in Int32 : m = Return(u, n, s)
      BY <1>3, ReplyCases, Zenon
    <2>2. PICK x \in ByteSeq, y \in ByteSeq : Wire(m) = Cat(x, y) /\ Len(x) = 48
      BY <2>1, ReturnWire, Zenon
    <2> QED BY <2>2, LongWire
  <1>4. CASE m.op = "RET_UNLINK"
    <2>1. Wire(m) \in ByteSeq /\ Len(Wire(m)) = 48
      BY <1>4, ReplyCases, RetUnlinkWire, Zenon
    <2> QED BY <2>1
  <1> QED BY <1>0, <1>1, <1>2, <1>3, <1>4, Zenon

\* The bytes of the messages after the first k.
Remain(ms, k) == WireAll(Rest(ms, k))

\* One message more.
LEMMA MessagesAppend ==
  ASSUME NEW M, NEW ms \in Seq(M), NEW m \in M
  PROVE  /\ Append(ms, m) \in Seq(M) /\ Len(Append(ms, m)) = Len(ms) + 1
         /\ Append(ms, m)[Len(ms) + 1] = m /\ \A i \in 1 .. Len(ms) : Append(ms, m)[i] = ms[i]
  BY AppendProperties

\* Messages have a length and their places.
LEMMA MessagesFacts ==
  ASSUME NEW M, NEW ms \in Seq(M)
  PROVE  Len(ms) \in Nat /\ DOMAIN ms = 1 .. Len(ms) /\ \A i \in 1 .. Len(ms) : ms[i] \in M
  OBVIOUS

\* The bytes of messages, one field for each.
Wires(ms) == [i \in DOMAIN ms |-> Wire(ms[i])]

\* They are a structure.
LEMMA WiresFacts ==
  ASSUME NEW M, \A m \in M : Wire(m) \in ByteSeq, NEW ms \in Seq(M)
  PROVE  /\ Wires(ms) \in Struct /\ Len(Wires(ms)) = Len(ms)
         /\ \A i \in 1 .. Len(ms) : Wires(ms)[i] = Wire(ms[i])
         /\ WireAll(ms) = Bytes(Wires(ms))
  <1>1. PICK n \in Nat : n = Len(ms) /\ DOMAIN ms = 1 .. n /\ \A i \in 1 .. n : ms[i] \in M
    BY MessagesFacts
  <1> DEFINE s == Wires(ms)
  <1>2. s = [i \in 1 .. n |-> s[i]] /\ \A i \in 1 .. n : s[i] = Wire(ms[i])
    BY <1>1 DEF Wires
  <1> HIDE DEF s
  <1>3. \A i \in 1 .. n : s[i] \in ByteSeq
    BY <1>1, <1>2, Zenon
  <1>4. s \in Struct /\ Len(s) = n
    BY <1>2, <1>3, StructIs, Zenon
  <1>5. WireAll(ms) = Bytes(s)
    BY Zenon DEF WireAll, Wires, s
  <1> QED BY <1>1, <1>2, <1>4, <1>5, Zenon DEF s

\* What remains of messages is what remains of their bytes.
LEMMA RemainIs ==
  ASSUME NEW M, \A m \in M : Wire(m) \in ByteSeq, NEW ms \in Seq(M), NEW k \in 0 .. Len(ms)
  PROVE  Remain(ms, k) = Bytes(Rest(Wires(ms), k))
  <1>l. PICK l \in Nat : l = Len(ms)
    BY MessagesFacts, Zenon
  <1>k. k \in 0 .. l /\ k \in Nat /\ k <= l /\ l - k \in Nat
    BY <1>l
  <1>1. PICK r \in Seq(M) : /\ r = Rest(ms, k) /\ Len(r) = l - k
                            /\ \A i \in 1 .. l - k : r[i] = ms[k + i]
    <2>1. /\ Rest(ms, k) \in Seq(M) /\ Len(Rest(ms, k)) = Len(ms) - k
          /\ \A i \in 1 .. Len(ms) - k : Rest(ms, k)[i] = ms[k + i]
      BY RestFacts, Zenon
    <2> QED BY <2>1, <1>l
  <1>2. PICK w \in Struct : /\ w = Wires(ms) /\ Len(w) = l
                               /\ \A i \in 1 .. l : w[i] = Wire(ms[i])
    BY <1>l, WiresFacts, Zenon
  <1>3. PICK v \in Struct : /\ v = Wires(r) /\ Len(v) = l - k /\ WireAll(r) = Bytes(v)
                            /\ \A i \in 1 .. l - k : v[i] = Wire(r[i])
    BY <1>1, WiresFacts, Zenon
  <1>4. PICK q \in Struct : /\ q = Rest(w, k) /\ Len(q) = l - k
                            /\ \A i \in 1 .. l - k : q[i] = w[k + i]
    BY <1>k, <1>2, RestOfStruct, Zenon
  <1>5. ASSUME NEW i \in 1 .. l - k PROVE v[i] = q[i]
    <2>1. k + i \in 1 .. l
      BY <1>k
    <2> QED BY <1>1, <1>2, <1>3, <1>4, <2>1, Zenon
  <1>6. v = q
    BY <1>3, <1>4, <1>5, StructEqual, Zenon
  <1> QED BY <1>1, <1>2, <1>3, <1>4, <1>6, Zenon DEF Remain

\* What remains begins with the next message, ends when there is none, and
\* grows at its end with what is sent.
LEMMA RemainFacts ==
  ASSUME NEW M, \A m \in M : Wire(m) \in ByteSeq, NEW ms \in Seq(M), NEW k \in 0 .. Len(ms)
  PROVE  /\ Remain(ms, k) \in ByteSeq
         /\ k = Len(ms) => Remain(ms, k) = <<>>
         /\ k < Len(ms) => /\ ms[k + 1] \in M /\ Wire(ms[k + 1]) \in ByteSeq
                           /\ Remain(ms, k + 1) \in ByteSeq
                           /\ Remain(ms, k) = Cat(Wire(ms[k + 1]), Remain(ms, k + 1))
         /\ \A m \in M : Remain(Append(ms, m), k) = Cat(Remain(ms, k), Wire(m))
  <1>l. PICK l \in Nat : l = Len(ms)
    BY MessagesFacts, Zenon
  <1>k. k \in 0 .. l /\ k \in Nat /\ k <= l
    BY <1>l
  <1>2. PICK w \in Struct : /\ w = Wires(ms) /\ Len(w) = l
                               /\ \A i \in 1 .. l : w[i] = Wire(ms[i])
    BY <1>l, WiresFacts, Zenon
  <1>3. Remain(ms, k) = Bytes(Rest(w, k))
    BY <1>2, RemainIs, Zenon
  <1>4. Rest(w, k) \in Struct
    BY <1>2, <1>k, RestOfStruct, Zenon
  <1>5. Remain(ms, k) \in ByteSeq
    BY <1>3, <1>4, BytesType, Zenon
  <1>6. k = Len(ms) => Remain(ms, k) = <<>>
    BY <1>2, <1>3, <1>l, BytesOfNone, Zenon
  <1>7. ASSUME k < Len(ms)
        PROVE  /\ ms[k + 1] \in M /\ Wire(ms[k + 1]) \in ByteSeq
               /\ Remain(ms, k + 1) \in ByteSeq
               /\ Remain(ms, k) = Cat(Wire(ms[k + 1]), Remain(ms, k + 1))
    <2>1. k + 1 \in 0 .. l /\ k + 1 \in 1 .. l /\ k < Len(w)
      BY <1>7, <1>l, <1>k, <1>2
    <2>2. ms[k + 1] \in M
      BY <2>1, <1>l
    <2>3. w[k + 1] = Wire(ms[k + 1])
      BY <1>2, <2>1
    <2>4. Remain(ms, k + 1) = Bytes(Rest(w, k + 1))
      BY <1>2, <1>l, <2>1, RemainIs, Zenon
    <2>5. /\ w[k + 1] \in ByteSeq /\ Rest(w, k + 1) \in Struct
          /\ Bytes(Rest(w, k)) = Cat(w[k + 1], Bytes(Rest(w, k + 1)))
      BY <1>k, <2>1, BytesOfRest, Zenon
    <2> QED BY <1>3, <2>2, <2>3, <2>4, <2>5, BytesType, Zenon
  <1>8. ASSUME NEW m \in M PROVE Remain(Append(ms, m), k) = Cat(Remain(ms, k), Wire(m))
    <2>1. PICK a \in Seq(M) : /\ a = Append(ms, m) /\ Len(a) = l + 1 /\ a[l + 1] = m
                              /\ \A i \in 1 .. l : a[i] = ms[i]
      <3>1. /\ Append(ms, m) \in Seq(M) /\ Len(Append(ms, m)) = Len(ms) + 1
            /\ Append(ms, m)[Len(ms) + 1] = m
            /\ \A i \in 1 .. Len(ms) : Append(ms, m)[i] = ms[i]
        BY MessagesAppend
      <3> QED BY <3>1, <1>l
    <2>2. PICK v \in Struct : /\ v = Wires(a) /\ Len(v) = l + 1
                              /\ \A i \in 1 .. l + 1 : v[i] = Wire(a[i])
      BY <2>1, WiresFacts, Zenon
    <2>3. Wire(m) \in ByteSeq
      OBVIOUS
    <2>4. PICK q \in Struct : /\ q = Append(w, Wire(m)) /\ Len(q) = l + 1 /\ q[l + 1] = Wire(m)
                              /\ \A i \in 1 .. l : q[i] = w[i]
      BY <1>2, <2>3, AppendFacts, Zenon
    <2>5. ASSUME NEW i \in 1 .. l + 1 PROVE v[i] = q[i]
      <3>1. CASE i = l + 1
        BY <3>1, <2>1, <2>2, <2>4, Zenon
      <3>2. CASE i \in 1 .. l
        BY <3>2, <1>2, <2>1, <2>2, <2>4, Zenon
      <3>3. i = l + 1 \/ i \in 1 .. l
        OBVIOUS
      <3> QED BY <3>1, <3>2, <3>3
    <2>6. v = q
      BY <2>2, <2>4, <2>5, StructEqual, Zenon
    <2>7. k \in 0 .. Len(a) /\ k \in 0 .. Len(w)
      BY <1>k, <2>1, <1>2
    <2>8. Remain(a, k) = Bytes(Rest(v, k))
      BY <2>2, <2>7, RemainIs, Zenon
    <2>9. Bytes(Rest(Append(w, Wire(m)), k)) = Cat(Bytes(Rest(w, k)), Wire(m))
      BY <2>3, <2>7, BytesOfRestAppend, Zenon
    <2> QED BY <1>3, <2>1, <2>4, <2>6, <2>8, <2>9, Zenon
  <1> QED BY <1>5, <1>6, <1>7, <1>8

----------------------------------------------------------------------------
(* The invariant.                                                          *)

\* Where client and server may be.
CliPcs == {"start", "list", "ndev", "device", "import", "info", "driver", "closed"}
SrvPcs == {"request", "busid", "urb", "data", "drain", "closed"}
\* What a client may make of the replies: of a list, as much as it read.
Learned == Reply \cup {DevlistReply(ds) : ds \in Seq(usb_device_t)}

\* The type invariant of the exchange.
TypeInv ==
  /\ shared \in Lists /\ up \in ByteSeq /\ down \in ByteSeq
  /\ cli \in [pc : CliPcs, left : Int, devices : Seq(usb_device_t)]
  /\ srv \in [pc : SrvPcs, header : Urbs \cup {<<>>}]
  /\ pending \subseteq Entries
  /\ asked \in Seq(Request) /\ heard \in Seq(Request)
  /\ told \in Seq(Reply) /\ learned \in Seq(Learned)

\* A connection carries one request; only an import is followed by the URBs.
AskedInv ==
  /\ \A i \in 1 .. Len(asked) : asked[i].op \in {"REQ_DEVLIST", "REQ_IMPORT"} <=> i = 1
  /\ Len(asked) > 1 => asked[1].op = "REQ_IMPORT"
  /\ cli.pc = "start" => Len(asked) = 0
  /\ cli.pc \in {"list", "ndev", "device"} => Len(asked) = 1 /\ asked[1].op = "REQ_DEVLIST"
  /\ cli.pc \in {"import", "info", "driver"} => Len(asked) >= 1 /\ asked[1].op = "REQ_IMPORT"

\* The bytes the server has still to read: after the header of an import the
\* bus id, after the header of a CMD_SUBMIT its data, else the next messages.
UpRest(pc, a, n) ==
  IF pc = "busid" THEN Cat(<<a[1].busid>>, Remain(a, 1))
  ELSE IF pc = "data" THEN Cat(a[n + 1].data, Remain(a, n + 1)) ELSE Remain(a, n)

\* The server has heard the first messages that were asked, and what is in
\* flight is what it has still to read: all of it, or a beginning once the
\* client has gone.
UpInv ==
  /\ Len(heard) <= Len(asked) /\ \A i \in 1 .. Len(heard) : heard[i] = asked[i]
  /\ srv.pc # "closed" => InFlight(up, UpRest(srv.pc, asked, Len(heard)), TRUE)
  /\ srv.pc # "closed" /\ cli.pc # "closed" => up = UpRest(srv.pc, asked, Len(heard))
  /\ srv.pc = "request" => Len(heard) = 0 \/ heard[1].op = "REQ_DEVLIST"
  /\ srv.pc = "busid" => Len(heard) = 0 /\ Len(asked) >= 1 /\ asked[1].op = "REQ_IMPORT"
  /\ srv.pc \in {"urb", "data", "drain"} => Len(heard) >= 1 /\ heard[1].op = "REQ_IMPORT"
  /\ srv.pc = "data" =>
       /\ Len(heard) < Len(asked) /\ asked[Len(heard) + 1] = SubmitMessage(srv.header)
       /\ srv.header \in Urbs /\ CarriesData(srv.header)

\* The first reply answers the request heard, the others answer URBs.
ToldInv ==
  /\ Len(told) >= 1 =>
       /\ Len(heard) >= 1
       /\ \/ /\ heard[1].op = "REQ_DEVLIST" /\ Len(told) = 1
             /\ told[1] = DevlistReply(shared)
          \/ heard[1].op = "REQ_IMPORT" /\ told[1].op = "REP_IMPORT"
  /\ \A i \in 2 .. Len(told) : told[i].op \in {"RET_SUBMIT", "RET_UNLINK"}
  /\ cli.pc # "closed" /\ Len(heard) >= 1 => Len(told) >= 1

\* Agrees of UsbipExchange, for a server at pc.
AgreesAt(pc, l, t) ==
  IF t.op = "REP_DEVLIST"
  THEN /\ l.op = "REP_DEVLIST" /\ Len(l.devices) <= Len(t.devices)
       /\ \A i \in DOMAIN l.devices : l.devices[i] = t.devices[i].info
       /\ pc # "closed" => Len(l.devices) = Len(t.devices) \/ Len(l.devices) = MAX_DEVICES
  ELSE l = t

\* The bytes the client has still to read: of a list what follows the devices
\* read so far, of an import the device, else the next messages.
DownRest(pc, l, k, t, n) ==
  IF pc = "ndev" THEN Cat(Cat(Net32(Len(l)), Bytes(ListStruct(l))), Remain(t, 1))
  ELSE IF pc = "device" THEN Cat(Bytes(Rest(ListStruct(l), k)), Remain(t, 1))
  ELSE IF pc = "info" THEN Cat(WireDevice(t[1].device), Remain(t, 1)) ELSE Remain(t, n)

\* What the client of the current state has still to read.
DownLeft == DownRest(cli.pc, shared, Len(cli.devices), told, Len(learned))

\* What the client has learned agrees with what it was told, and what is in
\* flight is what it has still to read: all of it, or a beginning once the
\* server has gone.  A list is read device by device: those read so far are
\* the first of the list, and as many are left as the count said.
DownInv ==
  /\ Len(learned) <= Len(told)
  /\ \A i \in 1 .. Len(learned) : AgreesAt(srv.pc, learned[i], told[i])
  /\ cli.pc # "closed" => InFlight(down, DownLeft, TRUE)
  /\ cli.pc # "closed" /\ srv.pc # "closed" => down = DownLeft
  /\ cli.pc \in {"start", "list", "import"} => Len(learned) = 0
  /\ cli.pc \in {"ndev", "device", "info"} => Len(learned) = 0 /\ Len(told) >= 1
  /\ cli.pc = "driver" => Len(learned) >= 1
  /\ cli.pc = "info" => \E d \in usb_device_t : told[1] = ImportDone(d)
  /\ cli.pc \in {"start", "list", "ndev"} => Len(cli.devices) = 0
  /\ cli.pc = "device" =>
       /\ Len(cli.devices) <= Len(shared) /\ Len(cli.devices) <= MAX_DEVICES
       /\ cli.left = Len(shared) - Len(cli.devices)
       /\ \A i \in 1 .. Len(cli.devices) : cli.devices[i] = shared[i].info

\* The inductive invariant of the exchange.
ExchangeInv == TypeInv /\ AskedInv /\ UpInv /\ ToldInv /\ DownInv

----------------------------------------------------------------------------
(* Bytes sent and bytes taken: the server reads what was sent.             *)

\* The parts of the type invariant that the proofs use.
LEMMA TypeFacts ==
  ASSUME TypeInv
  PROVE  /\ Len(asked) \in Nat /\ Len(heard) \in Nat /\ Len(told) \in Nat
            /\ Len(learned) \in Nat
         /\ Len(up) \in Nat /\ Len(down) \in Nat
         /\ cli.pc \in CliPcs /\ cli.left \in Int /\ cli.devices \in Seq(usb_device_t)
         /\ srv.pc \in SrvPcs /\ srv.header \in Urbs \cup {<<>>}
         /\ (\A i \in 1 .. Len(asked) : asked[i] \in Request)
         /\ (\A i \in 1 .. Len(heard) : heard[i] \in Request)
         /\ (\A i \in 1 .. Len(told) : told[i] \in Reply)
  <1>1. Len(up) \in Nat /\ Len(down) \in Nat
    BY ByteSeqFacts DEF TypeInv
  <1>2. /\ cli.pc \in CliPcs /\ cli.left \in Int /\ cli.devices \in Seq(usb_device_t)
        /\ srv.pc \in SrvPcs /\ srv.header \in Urbs \cup {<<>>}
    BY DEF TypeInv
  <1>3. asked \in Seq(Request) /\ heard \in Seq(Request) /\ told \in Seq(Reply)
          /\ learned \in Seq(Learned)
    BY DEF TypeInv
  <1>4. Len(asked) \in Nat /\ \A i \in 1 .. Len(asked) : asked[i] \in Request
    BY <1>3, MessagesFacts, Zenon
  <1>5. Len(heard) \in Nat /\ \A i \in 1 .. Len(heard) : heard[i] \in Request
    BY <1>3, MessagesFacts, Zenon
  <1>6. Len(told) \in Nat /\ \A i \in 1 .. Len(told) : told[i] \in Reply
    BY <1>3, MessagesFacts, Zenon
  <1>7. Len(learned) \in Nat
    BY <1>3, MessagesFacts, Zenon
  <1> QED BY <1>1, <1>2, <1>4, <1>5, <1>6, <1>7, Zenon

\* What remains of the requests.
LEMMA RemainAsked ==
  ASSUME NEW a \in Seq(Request), NEW k \in 0 .. Len(a)
  PROVE  /\ Remain(a, k) \in ByteSeq
         /\ k = Len(a) => Remain(a, k) = <<>>
         /\ k < Len(a) => /\ a[k + 1] \in Request /\ Wire(a[k + 1]) \in ByteSeq
                           /\ Remain(a, k + 1) \in ByteSeq
                           /\ Remain(a, k) = Cat(Wire(a[k + 1]), Remain(a, k + 1))
         /\ \A m \in Request : Remain(Append(a, m), k) = Cat(Remain(a, k), Wire(m))
  <1>1. \A m \in Request : Wire(m) \in ByteSeq
    BY RequestWired, Zenon
  <1> QED BY <1>1, RemainFacts, Zenon

\* What remains of the replies.
LEMMA RemainTold ==
  ASSUME NEW a \in Seq(Reply), NEW k \in 0 .. Len(a)
  PROVE  /\ Remain(a, k) \in ByteSeq
         /\ k = Len(a) => Remain(a, k) = <<>>
         /\ k < Len(a) => /\ a[k + 1] \in Reply /\ Wire(a[k + 1]) \in ByteSeq
                           /\ Remain(a, k + 1) \in ByteSeq
                           /\ Remain(a, k) = Cat(Wire(a[k + 1]), Remain(a, k + 1))
         /\ \A m \in Reply : Remain(Append(a, m), k) = Cat(Remain(a, k), Wire(m))
  <1>1. \A m \in Reply : Wire(m) \in ByteSeq
    BY ReplyWired, Zenon
  <1> QED BY <1>1, RemainFacts, Zenon

\* What the server has still to read grows at its end with what is sent.
LEMMA UpRestFacts ==
  ASSUME NEW a \in Seq(Request), NEW n \in 0 .. Len(a), NEW pc,
         pc = "busid" => Len(a) >= 1 /\ a[1].op = "REQ_IMPORT",
         pc = "data" => n < Len(a) /\ \E u \in Urbs : a[n + 1] = SubmitMessage(u)
  PROVE  /\ UpRest(pc, a, n) \in ByteSeq
         /\ \A m \in Request : UpRest(pc, Append(a, m), n) = Cat(UpRest(pc, a, n), Wire(m))
  <1>l. PICK l \in Nat : l = Len(a)
    BY MessagesFacts, Zenon
  <1>0. n \in Nat /\ n <= l /\ n \in 0 .. l
    BY <1>l
  <1>m. \A m \in Request : Wire(m) \in ByteSeq
    BY RequestWired, Zenon
  <1>a. \A m \in Request : \A i \in 1 .. l : Append(a, m)[i] = a[i]
    BY <1>l, MessagesAppend
  <1>1. CASE pc = "busid"
    <2>0. 1 \in 1 .. l /\ 1 \in 0 .. Len(a)
      BY <1>1, <1>l
    <2>1. a[1] \in Request
      BY <2>0, <1>l, MessagesFacts, Zenon
    <2>2. PICK b \in Names : a[1] = ImportRequestFor(b)
      BY <1>1, <2>1, RequestCases, Zenon
    <2>3. a[1].busid = b
      BY <2>2 DEF ImportRequestFor
    <2>4. PICK p \in ByteSeq : p = <<a[1].busid>>
      BY <2>3, RequestWire, Zenon
    <2>5. /\ Remain(a, 1) \in ByteSeq
          /\ \A m \in Request : Remain(Append(a, m), 1) = Cat(Remain(a, 1), Wire(m))
      BY <2>0, RemainAsked, Zenon
    <2>6. UpRest(pc, a, n) = Cat(p, Remain(a, 1))
      BY <1>1, <2>4, Zenon DEF UpRest
    <2>7. ASSUME NEW m \in Request
          PROVE  UpRest(pc, Append(a, m), n) = Cat(p, Remain(Append(a, m), 1))
      BY <1>1, <1>a, <2>0, <2>4, Zenon DEF UpRest
    <2>9. Cat(p, Remain(a, 1)) \in ByteSeq
      BY <2>5, CatSize, Zenon
    <2>10. ASSUME NEW m \in Request
           PROVE  Cat(p, Remain(Append(a, m), 1)) = Cat(Cat(p, Remain(a, 1)), Wire(m))
      <3>1. Remain(Append(a, m), 1) = Cat(Remain(a, 1), Wire(m)) /\ Wire(m) \in ByteSeq
        BY <1>m, <2>5, Zenon
      <3>2. Cat(Cat(p, Remain(a, 1)), Wire(m)) = Cat(p, Cat(Remain(a, 1), Wire(m)))
        BY <2>5, <3>1, CatAssoc, Zenon
      <3> QED BY <3>1, <3>2, Zenon
    <2> QED BY <2>6, <2>7, <2>9, <2>10, Zenon
  <1>2. CASE pc = "data"
    <2>0. n + 1 \in 1 .. l /\ n + 1 \in 0 .. Len(a)
      BY <1>0, <1>2, <1>l
    <2>2. PICK u \in Urbs : a[n + 1] = SubmitMessage(u)
      BY <1>2
    <2>4. PICK p \in ByteSeq : p = a[n + 1].data
      BY <2>2, SubmitWire, Zenon
    <2>5. /\ Remain(a, n + 1) \in ByteSeq
          /\ \A m \in Request : Remain(Append(a, m), n + 1) = Cat(Remain(a, n + 1), Wire(m))
      BY <2>0, RemainAsked, Zenon
    <2>x. pc # "busid"
      BY <1>2
    <2>6. UpRest(pc, a, n) = Cat(p, Remain(a, n + 1))
      BY <1>2, <2>x, <2>4, Zenon DEF UpRest
    <2>7. ASSUME NEW m \in Request
          PROVE  UpRest(pc, Append(a, m), n) = Cat(p, Remain(Append(a, m), n + 1))
      BY <1>2, <1>a, <2>x, <2>0, <2>4, Zenon DEF UpRest
    <2>9. Cat(p, Remain(a, n + 1)) \in ByteSeq
      BY <2>5, CatSize, Zenon
    <2>10. ASSUME NEW m \in Request
           PROVE  Cat(p, Remain(Append(a, m), n + 1)) = Cat(Cat(p, Remain(a, n + 1)), Wire(m))
      <3>1. Remain(Append(a, m), n + 1) = Cat(Remain(a, n + 1), Wire(m)) /\ Wire(m) \in ByteSeq
        BY <1>m, <2>5, Zenon
      <3>2. Cat(Cat(p, Remain(a, n + 1)), Wire(m)) = Cat(p, Cat(Remain(a, n + 1), Wire(m)))
        BY <2>5, <3>1, CatAssoc, Zenon
      <3> QED BY <3>1, <3>2, Zenon
    <2> QED BY <2>6, <2>7, <2>9, <2>10, Zenon
  <1>3. CASE pc # "busid" /\ pc # "data"
    BY <1>3, RemainAsked, Zenon DEF UpRest
  <1> QED BY <1>1, <1>2, <1>3

\* Bytes are taken, whether the sender has gone or not.
LEMMA TakenBoth ==
  ASSUME NEW b \in ByteSeq, NEW x \in ByteSeq, NEW y \in ByteSeq,
         InFlight(b, Cat(x, y), TRUE), Len(b) >= Len(x)
  PROVE  /\ Rest(b, Len(x)) \in ByteSeq /\ InFlight(Rest(b, Len(x)), y, TRUE)
         /\ Starts(b, x) /\ (b = Cat(x, y) => Rest(b, Len(x)) = y)
  <1>1. TRUE \in BOOLEAN /\ FALSE \in BOOLEAN
    OBVIOUS
  <1>2. Rest(b, Len(x)) \in ByteSeq /\ InFlight(Rest(b, Len(x)), y, TRUE) /\ Starts(b, x)
    BY <1>1, Taken, Zenon
  <1>3. ASSUME b = Cat(x, y) PROVE Rest(b, Len(x)) = y
    <2>1. InFlight(b, Cat(x, y), FALSE)
      BY <1>3 DEF InFlight
    <2>2. InFlight(Rest(b, Len(x)), y, FALSE)
      BY <1>1, <2>1, Taken, Zenon
    <2> QED BY <2>2 DEF InFlight
  <1> QED BY <1>2, <1>3

\* No more is in flight than is left to read.
LEMMA Flies ==
  ASSUME NEW b \in ByteSeq, NEW r \in ByteSeq, InFlight(b, r, TRUE)
  PROVE  Len(b) \in Nat /\ Len(r) \in Nat /\ Len(b) <= Len(r)
  BY InFlightFacts, ByteSeqFacts

\* All that is left to read is in flight.
LEMMA Same ==
  ASSUME NEW b \in ByteSeq
  PROVE  InFlight(b, b, TRUE)
  <1>1. PICK n \in Nat : n = Len(b)
    BY ByteSeqFacts
  <1>2. n <= n /\ TRUE \in BOOLEAN
    OBVIOUS
  <1>3. InFlight(b, b, TRUE) <=> /\ Len(b) <= Len(b) /\ (~TRUE => Len(b) = Len(b))
                                 /\ \A i \in 1 .. Len(b) : b[i] = b[i]
    BY <1>2, InFlightFacts, Zenon
  <1> QED BY <1>1, <1>2, <1>3, Zenon

\* A message goes out to the server.
LEMMA ClientSent ==
  ASSUME TypeInv, UpInv, NEW m \in Request, ClientSends(m, Wire(m)), cli.pc # "closed",
         UNCHANGED <<srv, heard>>
  PROVE  /\ UpInv' /\ asked' \in Seq(Request) /\ up' \in ByteSeq
         /\ Len(asked') = Len(asked) + 1 /\ asked'[Len(asked) + 1] = m
         /\ \A i \in 1 .. Len(asked) : asked'[i] = asked[i]
  <1>n. PICK n \in Nat : n = Len(heard)
    BY TypeFacts
  <1>l. PICK l \in Nat : l = Len(asked)
    BY TypeFacts
  <1>0. up \in ByteSeq /\ asked \in Seq(Request) /\ n <= l /\ n \in 0 .. Len(asked)
    BY <1>n, <1>l DEF TypeInv, UpInv
  <1>1. asked' = Append(asked, m) /\ up' = Cat(up, Wire(m))
    BY DEF ClientSends, Cat
  <1>2. /\ asked' \in Seq(Request) /\ Len(asked') = Len(asked) + 1 /\ asked'[Len(asked) + 1] = m
        /\ \A i \in 1 .. Len(asked) : asked'[i] = asked[i]
    BY <1>0, <1>1, MessagesAppend
  <1>3. Wire(m) \in ByteSeq
    BY RequestWired
  <1>4. up' \in ByteSeq
    BY <1>0, <1>1, <1>3, CatSize, Zenon
  <1>5. UpInv'
    <2>1. Len(heard') = n /\ heard' = heard /\ srv' = srv
      BY <1>n
    <2>2. /\ srv.pc = "busid" => Len(asked) >= 1 /\ asked[1].op = "REQ_IMPORT"
          /\ srv.pc = "data" => n < Len(asked)
             /\ \E u \in Urbs : asked[n + 1] = SubmitMessage(u)
      BY <1>n DEF UpInv
    <2>3. /\ UpRest(srv.pc, asked, n) \in ByteSeq
          /\ UpRest(srv.pc, asked', n) = Cat(UpRest(srv.pc, asked, n), Wire(m))
      BY <1>0, <1>1, <2>2, UpRestFacts, Zenon
    <2>4. ASSUME srv.pc # "closed"
          PROVE up' = UpRest(srv'.pc, asked', Len(heard')) /\ InFlight(up', up', TRUE)
      <3>1. up = UpRest(srv.pc, asked, n)
        BY <2>4, <1>n DEF UpInv
      <3>2. InFlight(up', up', TRUE)
        BY <1>4, Same, Zenon
      <3> QED BY <1>1, <2>1, <2>3, <3>1, <3>2, Zenon
    <2>5. \A i \in 1 .. n : heard[i] = asked[i] /\ asked'[i] = asked[i]
      <3>1. \A i \in 1 .. n : heard[i] = asked[i] /\ i \in 1 .. l
        BY <1>n, <1>l, <1>0 DEF UpInv
      <3> QED BY <1>2, <1>l, <3>1, Zenon
    <2>6. /\ Len(heard') <= Len(asked') /\ \A i \in 1 .. Len(heard') : heard'[i] = asked'[i]
      <3>1. Len(asked') = l + 1
        BY <1>2, <1>l
      <3>2. n <= l + 1
        BY <1>0
      <3> QED BY <2>1, <2>5, <3>1, <3>2, Zenon
    <2>7. srv.pc = "busid" => Len(heard') = 0 /\ Len(asked') >= 1 /\ asked'[1].op = "REQ_IMPORT"
      <3> SUFFICES ASSUME srv.pc = "busid" PROVE Len(heard') = 0 /\ Len(asked') >= 1
        /\ asked'[1].op = "REQ_IMPORT"
        OBVIOUS
      <3>1. n = 0 /\ l >= 1 /\ asked[1].op = "REQ_IMPORT"
        BY <1>n, <1>l DEF UpInv
      <3>2. 1 \in 1 .. l /\ l + 1 >= 1
        BY <3>1
      <3> QED BY <1>2, <1>l, <2>1, <3>1, <3>2, Zenon
    <2>8. srv.pc = "data" => /\ Len(heard') < Len(asked')
                                /\ asked'[Len(heard') + 1] = SubmitMessage(srv'.header)
                             /\ srv'.header \in Urbs /\ CarriesData(srv'.header)
      <3> SUFFICES ASSUME srv.pc = "data"
                   PROVE /\ Len(heard') < Len(asked')
                            /\ asked'[Len(heard') + 1] = SubmitMessage(srv'.header)
                         /\ srv'.header \in Urbs /\ CarriesData(srv'.header)
        OBVIOUS
      <3>1. n < l /\ asked[n + 1] = SubmitMessage(srv.header) /\ srv.header \in Urbs
              /\ CarriesData(srv.header)
        BY <1>n, <1>l DEF UpInv
      <3>2. n + 1 \in 1 .. l /\ n < l + 1
        BY <3>1
      <3> QED BY <1>2, <1>l, <2>1, <3>1, <3>2, Zenon
    <2>9. /\ srv.pc = "request" => Len(heard) = 0 \/ heard[1].op = "REQ_DEVLIST"
          /\ srv.pc \in {"urb", "data", "drain"} => Len(heard) >= 1
             /\ heard[1].op = "REQ_IMPORT"
      BY DEF UpInv
    <2> QED BY <2>1, <2>4, <2>6, <2>7, <2>8, <2>9, Zenon DEF UpInv
  <1> QED BY <1>2, <1>4, <1>5

\* A part is lost once more.
LEMMA CutTrue ==
  ASSUME NEW b \in ByteSeq, NEW r \in ByteSeq, InFlight(b, r, TRUE), NEW n \in Nat, n <= Len(b)
  PROVE  SubSeq(b, 1, Len(b) - n) \in ByteSeq /\ InFlight(SubSeq(b, 1, Len(b) - n), r, TRUE)
  <1>1. TRUE \in BOOLEAN
    OBVIOUS
  <1> QED BY <1>1, Lost, Zenon

\* The server takes the bytes x: it has read x, and y is what is left.
LEMMA ServerTook ==
  ASSUME TypeInv, UpInv, srv.pc # "closed", NEW x \in ByteSeq, NEW y \in ByteSeq,
         UpRest(srv.pc, asked, Len(heard)) = Cat(x, y),
         Len(up) >= Len(x), up' = Rest(up, Len(x))
  PROVE  /\ up' \in ByteSeq /\ Starts(up, x) /\ InFlight(up', y, TRUE)
         /\ cli.pc # "closed" => up' = y
  <1>1. up \in ByteSeq
    BY DEF TypeInv
  <1>2. InFlight(up, Cat(x, y), TRUE) /\ (cli.pc # "closed" => up = Cat(x, y))
    BY DEF UpInv
  <1>3. /\ Rest(up, Len(x)) \in ByteSeq /\ InFlight(Rest(up, Len(x)), y, TRUE)
        /\ Starts(up, x) /\ (up = Cat(x, y) => Rest(up, Len(x)) = y)
    BY <1>1, <1>2, TakenBoth, Zenon
  <1> QED BY <1>2, <1>3, Zenon

\* The server has bytes to read: there is a message it has not heard.
LEMMA MoreAsked ==
  ASSUME TypeInv, UpInv, srv.pc \in {"request", "urb"}, Len(up) >= 1
  PROVE  /\ Len(heard) < Len(asked) /\ asked[Len(heard) + 1] \in Request
         /\ Len(heard) \in 0 .. Len(asked) /\ Len(heard) + 1 \in 1 .. Len(asked)
         /\ Remain(asked, Len(heard) + 1) \in ByteSeq
         /\ UpRest(srv.pc, asked, Len(heard))
              = Cat(Wire(asked[Len(heard) + 1]), Remain(asked, Len(heard) + 1))
  <1>n. PICK n \in Nat : n = Len(heard)
    BY TypeFacts
  <1>l. PICK l \in Nat : l = Len(asked)
    BY TypeFacts
  <1>0. up \in ByteSeq /\ asked \in Seq(Request) /\ n <= l /\ n \in 0 .. Len(asked)
    BY <1>n, <1>l DEF TypeInv, UpInv
  <1>1. srv.pc # "busid" /\ srv.pc # "data" /\ srv.pc # "closed"
    OBVIOUS
  <1>2. UpRest(srv.pc, asked, n) = Remain(asked, n)
    BY <1>1, Zenon DEF UpRest
  <1>3. InFlight(up, Remain(asked, n), TRUE)
    BY <1>1, <1>2, <1>n DEF UpInv
  <1>4. Remain(asked, n) \in ByteSeq /\ (n = Len(asked) => Remain(asked, n) = <<>>)
    BY <1>0, RemainAsked, Zenon
  <1>5. Len(up) <= Len(Remain(asked, n))
    BY <1>0, <1>3, <1>4, Flies, Zenon
  <1>6. n # l
    <2> SUFFICES ASSUME n = l PROVE FALSE
      OBVIOUS
    <2>1. Len(up) <= Len(<<>>)
      BY <1>l, <1>4, <1>5, Zenon
    <2>2. PICK k \in Nat : k = Len(up)
      BY TypeFacts
    <2> QED BY <2>1, <2>2
  <1>7. n < l /\ n + 1 \in 1 .. l
    BY <1>0, <1>6
  <1>8. /\ asked[n + 1] \in Request /\ Remain(asked, n + 1) \in ByteSeq
        /\ Remain(asked, n) = Cat(Wire(asked[n + 1]), Remain(asked, n + 1))
    BY <1>0, <1>7, <1>l, RemainAsked, Zenon
  <1> QED BY <1>0, <1>2, <1>7, <1>8, <1>n, <1>l, Zenon

\* One request more is heard.
LEMMA HeardNext ==
  ASSUME NEW a \in Seq(Request), NEW h \in Seq(Request), Len(h) < Len(a),
         \A i \in 1 .. Len(h) : h[i] = a[i], NEW g, g = Append(h, a[Len(h) + 1])
  PROVE  /\ g \in Seq(Request) /\ Len(g) = Len(h) + 1 /\ Len(g) <= Len(a) /\ Len(g) >= 1
         /\ Len(g) \in 0 .. Len(a) /\ (\A i \in 1 .. Len(g) : g[i] = a[i]) /\ g[1] = a[1]
  <1>n. PICK n \in Nat : n = Len(h)
    BY MessagesFacts, Zenon
  <1>l. PICK l \in Nat : l = Len(a)
    BY MessagesFacts, Zenon
  <1>1. n < l /\ n + 1 \in 1 .. l /\ n + 1 <= l /\ n + 1 >= 1 /\ n + 1 \in 0 .. l
    BY <1>n, <1>l
  <1>m. PICK m \in Request : m = a[Len(h) + 1]
    BY <1>n, <1>l, <1>1, MessagesFacts, Zenon
  <1>2. g = Append(h, m)
    BY <1>m
  <1>3. /\ g \in Seq(Request) /\ Len(g) = Len(h) + 1
        /\ g[Len(h) + 1] = m /\ \A i \in 1 .. Len(h) : g[i] = h[i]
    BY <1>2, MessagesAppend
  <1>4. \A i \in 1 .. n + 1 : i \in 1 .. n \/ i = n + 1
    OBVIOUS
  <1>5. \A i \in 1 .. n + 1 : g[i] = a[i]
    BY <1>m, <1>3, <1>4, <1>n, Zenon
  <1>6. 1 \in 1 .. n + 1
    OBVIOUS
  <1> QED BY <1>1, <1>3, <1>5, <1>6, <1>n, <1>l, Zenon

\* The server sends the list as the format has it.
LEMMA ListSent ==
  ASSUME TypeInv
  PROVE  DeviceListBytes = Wire(DevlistReply(shared)) /\ DevlistReply(shared) \in Reply
  <1>1. shared \in Lists
    BY DEF TypeInv
  <1>2. DevlistReply(shared) \in Reply
    BY <1>1 DEF Reply
  <1> QED BY <1>1, <1>2, DevlistWire, Zenon DEF DeviceListBytes, Cat

\* RecvRequest reads the request that was sent, and only its header.
LEMMA RequestTaken ==
  ASSUME TypeInv, AskedInv, UpInv, RecvRequest
  PROVE  /\ UpInv' /\ up' \in ByteSeq /\ heard' \in Seq(Request)
         /\ srv' \in [pc : SrvPcs, header : Urbs \cup {<<>>}] /\ srv'.pc # "closed"
         /\ \/ /\ Len(heard') = 1 /\ heard'[1].op = "REQ_DEVLIST" /\ Len(heard) = 0
               /\ ServerSends(DevlistReply(shared), Wire(DevlistReply(shared)))
            \/ heard' = heard /\ UNCHANGED <<down, told>>
  <1>n. PICK n \in Nat : n = Len(heard)
    BY TypeFacts
  <1>l. PICK l \in Nat : l = Len(asked)
    BY TypeFacts
  <1>0. /\ srv.pc = "request" /\ Len(up) >= 8 /\ up' = Rest(up, 8)
        /\ cli' = cli /\ asked' = asked
    BY DEF RecvRequest, ServerTakes, clientVars
  <1>u. Len(up) >= 1
    <2>1. PICK k \in Nat : k = Len(up)
      BY TypeFacts
    <2> QED BY <1>0, <2>1
  <1>1. /\ n < l /\ asked[n + 1] \in Request /\ n + 1 \in 1 .. l
        /\ Remain(asked, n + 1) \in ByteSeq
        /\ UpRest(srv.pc, asked, n) = Cat(Wire(asked[n + 1]), Remain(asked, n + 1))
    BY <1>0, <1>n, <1>l, <1>u, MoreAsked, Zenon
  <1>2. n = 0
    <2> SUFFICES ASSUME n # 0 PROVE FALSE
      OBVIOUS
    <2>1. heard[1].op = "REQ_DEVLIST" /\ heard[1] = asked[1]
      BY <1>0, <1>n DEF UpInv
    <2>2. asked[1].op = "REQ_IMPORT"
      BY <1>1, <1>l DEF AskedInv
    <2> QED BY <2>1, <2>2
  <1>3. n + 1 = 1 /\ 1 \in 1 .. l
    BY <1>1, <1>2
  <1>4. asked[1].op = "REQ_DEVLIST" \/ asked[1].op = "REQ_IMPORT"
    BY <1>3, <1>l DEF AskedInv
  <1>5. /\ asked[1] \in Request /\ Remain(asked, 1) \in ByteSeq
        /\ UpRest(srv.pc, asked, 0) = Cat(Wire(asked[1]), Remain(asked, 1))
    BY <1>1, <1>2, <1>3, Zenon
  <1> DEFINE command == Number16(usbip_recv_header_basic(up)[2])
  <1>6. CASE asked[1].op = "REQ_DEVLIST"
    <2>1. asked[1] = DevlistRequest
      BY <1>5, <1>6, RequestCases, Zenon
    <2>2. PICK x \in ByteSeq : x = WireBasic(OP_REQ_DEVLIST, 0) /\ Len(x) = 8
                 /\ Wire(asked[1]) = x
      BY <2>1, RequestWire, Zenon
    <2>3. /\ up' \in ByteSeq /\ Starts(up, x) /\ InFlight(up', Remain(asked, 1), TRUE)
          /\ cli.pc # "closed" => up' = Remain(asked, 1)
      <3>1. UpRest(srv.pc, asked, Len(heard)) = Cat(x, Remain(asked, 1))
        BY <1>2, <1>n, <1>5, <2>2, Zenon
      <3>2. srv.pc # "closed" /\ Len(up) >= Len(x) /\ up' = Rest(up, Len(x))
        BY <1>0, <2>2
      <3> QED BY <1>5, <3>1, <3>2, ServerTook, Zenon
    <2>4. command = OP_REQ_DEVLIST
      <3>1. OP_REQ_DEVLIST \in Nat16 /\ 0 \in Int32 /\ Starts(up, WireBasic(OP_REQ_DEVLIST, 0))
        BY <2>2, <2>3, Commands, Zenon
      <3> QED BY <3>1, BasicRead, Zenon
    <2>5. command # OP_REQ_IMPORT
      BY <2>4, Commands, Zenon
    <2> HIDE DEF command
    <2>6. /\ heard' = Append(heard, [op |-> "REQ_DEVLIST"])
          /\ ServerSends([op |-> "REP_DEVLIST", devices |-> shared], DeviceListBytes)
          /\ srv' = srv
      BY <2>4, <2>5, Zenon DEF RecvRequest, command
    <2>7. /\ heard' \in Seq(Request) /\ Len(heard') = Len(heard) + 1
             /\ Len(heard') <= Len(asked)
          /\ Len(heard') >= 1
          /\ (\A i \in 1 .. Len(heard') : heard'[i] = asked[i]) /\ heard'[1] = asked[1]
      <3>1. asked \in Seq(Request) /\ heard \in Seq(Request)
        BY DEF TypeInv
      <3>2. Len(heard) < Len(asked) /\ (\A i \in 1 .. Len(heard) : heard[i] = asked[i])
        BY <1>1, <1>n, <1>l DEF UpInv
      <3>3. heard' = Append(heard, asked[Len(heard) + 1])
        BY <1>3, <1>n, <2>1, <2>6, Zenon DEF DevlistRequest
      <3> QED BY <3>1, <3>2, <3>3, HeardNext
    <2>8. Len(heard') = 1 /\ heard'[1].op = "REQ_DEVLIST"
      BY <1>2, <1>n, <1>6, <2>7
    <2>9. UpRest(srv'.pc, asked', Len(heard')) = Remain(asked, 1)
      <3>1. srv'.pc = "request" /\ "request" # "busid" /\ "request" # "data"
        BY <1>0, <2>6
      <3> QED BY <1>0, <2>8, <3>1, Zenon DEF UpRest
    <2>10. UpInv'
      <3>1. srv'.pc = "request"
        BY <1>0, <2>6
      <3> QED BY <1>0, <2>3, <2>7, <2>8, <2>9, <3>1 DEF UpInv
    <2>11. ServerSends(DevlistReply(shared), Wire(DevlistReply(shared)))
      BY <2>6, ListSent, Zenon DEF DevlistReply
    <2>12. srv' \in [pc : SrvPcs, header : Urbs \cup {<<>>}] /\ srv'.pc # "closed"
      BY <1>0, <2>6 DEF TypeInv
    <2> QED BY <1>2, <1>n, <2>3, <2>7, <2>8, <2>10, <2>11, <2>12, Zenon
  <1>7. CASE asked[1].op = "REQ_IMPORT"
    <2>1. PICK b \in Names : asked[1] = ImportRequestFor(b)
      BY <1>5, <1>7, RequestCases, Zenon
    <2>2. PICK x \in ByteSeq, y \in ByteSeq :
            /\ x = WireBasic(OP_REQ_IMPORT, 0) /\ Len(x) = 8 /\ y = <<b>>
            /\ Wire(asked[1]) = Cat(x, y)
      BY <2>1, RequestWire, Zenon
    <2>b. b = asked[1].busid
      BY <2>1 DEF ImportRequestFor
    <2>z. PICK z \in ByteSeq : z = Cat(y, Remain(asked, 1))
      BY <1>5, CatSize, Zenon
    <2>c. Cat(Cat(x, y), Remain(asked, 1)) = Cat(x, z)
      BY <1>5, <2>z, CatAssoc, Zenon
    <2>3. /\ up' \in ByteSeq /\ Starts(up, x) /\ InFlight(up', z, TRUE)
          /\ cli.pc # "closed" => up' = z
      <3>1. UpRest(srv.pc, asked, Len(heard)) = Cat(x, z)
        BY <1>2, <1>n, <1>5, <2>2, <2>c, Zenon
      <3>2. srv.pc # "closed" /\ Len(up) >= Len(x) /\ up' = Rest(up, Len(x))
        BY <1>0, <2>2
      <3> QED BY <3>1, <3>2, ServerTook, Zenon
    <2>4. command = OP_REQ_IMPORT
      BY <2>2, <2>3, BasicRead, Commands, Zenon
    <2>5. command # OP_REQ_DEVLIST
      BY <2>4, Commands, Zenon
    <2> HIDE DEF command
    <2>6. srv' = [srv EXCEPT !.pc = "busid"] /\ UNCHANGED <<down, heard, told>>
      BY <2>4, <2>5, Zenon DEF RecvRequest, command
    <2>7. srv' \in [pc : SrvPcs, header : Urbs \cup {<<>>}] /\ srv'.pc = "busid"
      BY <2>6 DEF TypeInv, SrvPcs
    <2>8. UpRest(srv'.pc, asked', Len(heard')) = z
      BY <1>0, <2>2, <2>7, <2>b, <2>z, Zenon DEF UpRest
    <2>9. UpInv'
      <3>1. /\ Len(heard') <= Len(asked') /\ \A i \in 1 .. Len(heard') : heard'[i] = asked'[i]
        BY <1>0, <2>6 DEF UpInv
      <3>2. Len(heard') = 0 /\ Len(asked') >= 1 /\ asked'[1].op = "REQ_IMPORT"
        BY <1>0, <1>1, <1>2, <1>7, <1>n, <1>l, <2>6
      <3> QED BY <1>0, <2>3, <2>7, <2>8, <3>1, <3>2 DEF UpInv
    <2>10. heard' \in Seq(Request) /\ heard' = heard
      BY <2>6 DEF TypeInv
    <2> QED BY <2>3, <2>6, <2>7, <2>9, <2>10
  <1> QED BY <1>4, <1>6, <1>7

\* The server has heard the next request.
LEMMA ServerHeard ==
  ASSUME TypeInv, UpInv, Len(heard) < Len(asked), asked' = asked,
         heard' = Append(heard, asked[Len(heard) + 1])
  PROVE  /\ heard' \in Seq(Request) /\ Len(heard') = Len(heard) + 1
            /\ Len(heard') <= Len(asked')
         /\ Len(heard') >= 1 /\ (\A i \in 1 .. Len(heard') : heard'[i] = asked'[i])
         /\ heard'[1] = asked[1] /\ (Len(heard) >= 1 => heard'[1] = heard[1])
  <1>1. asked \in Seq(Request) /\ heard \in Seq(Request)
    BY DEF TypeInv
  <1>2. (\A i \in 1 .. Len(heard) : heard[i] = asked[i])
    BY DEF UpInv
  <1>3. /\ heard' \in Seq(Request) /\ Len(heard') = Len(heard) + 1 /\ Len(heard') <= Len(asked)
        /\ Len(heard') >= 1
        /\ (\A i \in 1 .. Len(heard') : heard'[i] = asked[i]) /\ heard'[1] = asked[1]
    BY <1>1, <1>2, HeardNext
  <1>4. Len(heard) >= 1 => heard[1] = asked[1]
    <2>1. PICK n \in Nat : n = Len(heard)
      BY TypeFacts
    <2>2. n >= 1 => 1 \in 1 .. n
      OBVIOUS
    <2> QED BY <1>2, <2>1, <2>2, Zenon
  <1> QED BY <1>3, <1>4, Zenon

\* RecvBusid reads the bus id that was sent, and answers.
LEMMA BusidTaken ==
  ASSUME TypeInv, AskedInv, UpInv, RecvBusid
  PROVE  /\ UpInv' /\ up' \in ByteSeq /\ heard' \in Seq(Request)
         /\ srv' \in [pc : SrvPcs, header : Urbs \cup {<<>>}] /\ srv.pc # "closed"
         /\ Len(heard) = 0 /\ Len(heard') = 1 /\ heard'[1].op = "REQ_IMPORT"
         /\ \E m \in Reply : m.op = "REP_IMPORT" /\ ServerSends(m, Wire(m))
  <1>l. PICK l \in Nat : l = Len(asked)
    BY TypeFacts
  <1>0. /\ srv.pc = "busid" /\ Len(up) >= 1 /\ up' = Rest(up, 1)
        /\ cli' = cli /\ asked' = asked
        /\ heard' = Append(heard, [op |-> "REQ_IMPORT", busid |-> Head(up)])
    BY DEF RecvBusid, ServerTakes, clientVars
  <1>1. Len(heard) = 0 /\ l >= 1 /\ asked[1].op = "REQ_IMPORT"
    BY <1>0, <1>l DEF UpInv
  <1>2. 1 \in 1 .. l /\ 1 \in 0 .. l /\ 0 + 1 = 1 /\ 0 < l
    BY <1>1
  <1>3. asked[1] \in Request /\ asked \in Seq(Request)
    BY <1>2, <1>l, TypeFacts DEF TypeInv
  <1>4. PICK b \in Names : asked[1] = ImportRequestFor(b)
    BY <1>1, <1>3, RequestCases, Zenon
  <1>5. asked[1].busid = b
    BY <1>4 DEF ImportRequestFor
  <1>6. PICK x \in ByteSeq : x = <<b>> /\ Len(x) = 1
    BY RequestWire, Zenon
  <1>7. Remain(asked, 1) \in ByteSeq
    BY <1>2, <1>3, <1>l, RemainAsked, Zenon
  <1>8. UpRest(srv.pc, asked, Len(heard)) = Cat(x, Remain(asked, 1))
    BY <1>0, <1>5, <1>6, Zenon DEF UpRest
  <1>9. /\ up' \in ByteSeq /\ Starts(up, x) /\ InFlight(up', Remain(asked, 1), TRUE)
        /\ cli.pc # "closed" => up' = Remain(asked, 1)
    <2>1. srv.pc # "closed" /\ Len(up) >= Len(x) /\ up' = Rest(up, Len(x))
      BY <1>0, <1>6
    <2> QED BY <1>7, <1>8, <2>1, ServerTook, Zenon
  <1>10. Head(up) = b
    <2>1. 1 \in 1 .. Len(x)
      BY <1>6
    <2>2. up[1] = x[1]
      BY <1>9, <2>1, Zenon DEF Starts
    <2>3. x[1] = b
      BY <1>6
    <2>4. Head(up) = up[1]
      OBVIOUS
    <2> QED BY <2>2, <2>3, <2>4
  <1>11. heard' = Append(heard, asked[Len(heard) + 1])
    BY <1>0, <1>1, <1>2, <1>4, <1>10, Zenon DEF ImportRequestFor
  <1>12. /\ heard' \in Seq(Request) /\ Len(heard') = Len(heard) + 1
            /\ Len(heard') <= Len(asked')
         /\ (\A i \in 1 .. Len(heard') : heard'[i] = asked'[i])
         /\ heard'[1] = asked[1]
    BY <1>0, <1>1, <1>2, <1>l, <1>11, ServerHeard, Zenon
  <1>13. Len(heard') = 1 /\ heard'[1].op = "REQ_IMPORT"
    BY <1>1, <1>2, <1>12, Zenon
  <1>14. srv'.pc \in {"urb", "closed"} /\ srv' \in [pc : SrvPcs, header : Urbs \cup {<<>>}]
    <2>1. srv' = [srv EXCEPT !.pc = "urb"] \/ srv' = [srv EXCEPT !.pc = "closed"]
      BY DEF RecvBusid
    <2> QED BY <2>1 DEF TypeInv, SrvPcs
  <1>15. srv'.pc = "urb" => UpRest(srv'.pc, asked', Len(heard')) = Remain(asked, 1)
    <2>1. "urb" # "busid" /\ "urb" # "data"
      OBVIOUS
    <2> QED BY <1>0, <1>13, <2>1, Zenon DEF UpRest
  <1>16. UpInv'
    <2>1. Len(heard') <= Len(asked') /\ (\A i \in 1 .. Len(heard') : heard'[i] = asked'[i])
      BY <1>12, Zenon
    <2>2. Len(heard') >= 1 /\ cli'.pc = cli.pc
      BY <1>0, <1>13
    <2>3. CASE srv'.pc = "closed"
      BY <2>1, <2>3 DEF UpInv
    <2>4. CASE srv'.pc = "urb"
      <3>1. /\ InFlight(up', UpRest(srv'.pc, asked', Len(heard')), TRUE)
            /\ cli'.pc # "closed" => up' = UpRest(srv'.pc, asked', Len(heard'))
        BY <1>9, <1>15, <2>2, <2>4, Zenon
      <3> QED BY <1>13, <2>1, <2>2, <2>4, <3>1 DEF UpInv
    <2> QED BY <1>14, <2>3, <2>4
  <1>17. \E m \in Reply : m.op = "REP_IMPORT" /\ ServerSends(m, Wire(m))
    <2>1. CASE \E i \in DOMAIN shared :
                 ServerSends([op |-> "REP_IMPORT", status |-> USBIP_ST_OK,
                              device |-> shared[i].info],
                             ImportReplyBytes(USBIP_ST_OK, shared[i].info))
      <3>1. PICK i \in DOMAIN shared :
                 ServerSends(ImportDone(shared[i].info),
                             ImportReplyBytes(USBIP_ST_OK, shared[i].info))
        BY <2>1, Zenon DEF ImportDone
      <3>2. shared \in Lists
        BY DEF TypeInv
      <3>3. PICK d \in usb_device_t : d = shared[i].info
        BY <3>2, ListFacts, Zenon
      <3>4. ImportReplyBytes(USBIP_ST_OK, d) = Wire(ImportDone(d))
        BY ImportDoneWire, Zenon
      <3>5. ImportDone(d) \in Reply /\ ImportDone(d).op = "REP_IMPORT"
        BY DEF Reply, ImportDone
      <3> QED BY <3>1, <3>3, <3>4, <3>5, Zenon
    <2>2. CASE \E status \in {USBIP_ST_DEV_BUSY, USBIP_ST_NA} :
                 ServerSends([op |-> "REP_IMPORT", status |-> status],
                             ImportReplyBytes(status, shared[1].info))
      <3>1. PICK s \in Refusals :
                 ServerSends(ImportRefused(s), ImportReplyBytes(s, shared[1].info))
        BY <2>2, Zenon DEF ImportRefused, Refusals
      <3>2. ImportReplyBytes(s, shared[1].info) = Wire(ImportRefused(s))
        BY ImportRefusedWire, Zenon
      <3>3. ImportRefused(s) \in Reply
        BY DEF Reply
      <3>4. ImportRefused(s).op = "REP_IMPORT"
        BY DEF ImportRefused
      <3> QED BY <3>1, <3>2, <3>3, <3>4, Zenon
    <2> QED BY <2>1, <2>2, Zenon DEF RecvBusid
  <1> QED BY <1>0, <1>1, <1>9, <1>12, <1>13, <1>14, <1>16, <1>17

\* The next header that the server reads is that of the next message.
LEMMA NextUrb ==
  ASSUME TypeInv, AskedInv, UpInv, ServerTakes("urb", 48)
  PROVE  /\ Len(heard) < Len(asked) /\ Len(heard) + 1 \in 1 .. Len(asked)
         /\ Remain(asked, Len(heard) + 1) \in ByteSeq /\ up' \in ByteSeq
         /\ \/ \E u \in Urbs : LET r == Cat(SubmitMessage(u).data, Remain(asked, Len(heard) + 1))
                               IN /\ asked[Len(heard) + 1] = SubmitMessage(u)
                                  /\ Submit(usbip_recv_urb_header(up)) = u
                                  /\ Unlink(usbip_recv_urb_header(up)).command = USBIP_CMD_SUBMIT
                                  /\ InFlight(up', r, TRUE) /\ (cli.pc # "closed" => up' = r)
            \/ \E u \in Urbs : LET r == Remain(asked, Len(heard) + 1)
                               IN /\ asked[Len(heard) + 1] = UnlinkMessage(u)
                                  /\ Unlink(usbip_recv_urb_header(up)) = UnlinkMessage(u).u
                                  /\ Submit(usbip_recv_urb_header(up)).command = USBIP_CMD_UNLINK
                                  /\ InFlight(up', r, TRUE) /\ (cli.pc # "closed" => up' = r)
  <1>n. PICK n \in Nat : n = Len(heard)
    BY TypeFacts
  <1>l. PICK l \in Nat : l = Len(asked)
    BY TypeFacts
  <1>0. srv.pc = "urb" /\ Len(up) >= 48 /\ up' = Rest(up, 48)
    BY DEF ServerTakes
  <1>u. Len(up) >= 1
    <2>1. PICK k \in Nat : k = Len(up)
      BY TypeFacts
    <2> QED BY <1>0, <2>1
  <1>r. PICK r : r = Remain(asked, n + 1)
    OBVIOUS
  <1>m. PICK m : m = asked[n + 1]
    OBVIOUS
  <1>1. /\ n < l /\ m \in Request /\ n + 1 \in 1 .. l /\ r \in ByteSeq
        /\ UpRest(srv.pc, asked, n) = Cat(Wire(m), r)
    BY <1>0, <1>n, <1>l, <1>u, <1>r, <1>m, MoreAsked, Zenon
  <1>2. n >= 1
    BY <1>0, <1>n DEF UpInv
  <1>3. m.op \notin {"REQ_DEVLIST", "REQ_IMPORT"}
    BY <1>1, <1>2, <1>l, <1>m DEF AskedInv
  <1>4. m.op = "SUBMIT" \/ m.op = "UNLINK"
    BY <1>1, <1>3, RequestCases
  <1>5. CASE m.op = "SUBMIT"
    <2>1. PICK u \in Urbs : m = SubmitMessage(u)
      BY <1>1, <1>5, RequestCases, Zenon
    <2>2. PICK x \in ByteSeq, y \in ByteSeq :
            /\ x = Bytes(NetHeader(SubmitWords(u), u.setup)) /\ Len(x) = 48
            /\ y = m.data /\ Wire(m) = Cat(x, y)
      BY <2>1, SubmitWire, Zenon
    <2>z. PICK z \in ByteSeq : z = Cat(y, r)
      BY <1>1, CatSize, Zenon
    <2>c. Cat(Cat(x, y), r) = Cat(x, z)
      BY <1>1, <2>z, CatAssoc, Zenon
    <2>3. /\ up' \in ByteSeq /\ Starts(up, x) /\ InFlight(up', z, TRUE)
          /\ cli.pc # "closed" => up' = z
      <3>1. UpRest(srv.pc, asked, Len(heard)) = Cat(x, z)
        BY <1>n, <1>1, <2>2, <2>c, Zenon
      <3>2. srv.pc # "closed" /\ Len(up) >= Len(x) /\ up' = Rest(up, Len(x))
        BY <1>0, <2>2
      <3> QED BY <3>1, <3>2, ServerTook, Zenon
    <2>4. /\ Submit(usbip_recv_urb_header(up)) = u
          /\ Unlink(usbip_recv_urb_header(up)).command = USBIP_CMD_SUBMIT
      BY <2>2, <2>3, SubmitRead, Zenon
    <2> QED BY <1>n, <1>l, <1>r, <1>m, <1>1, <2>1, <2>2, <2>z, <2>3, <2>4, Zenon
  <1>6. CASE m.op = "UNLINK"
    <2>1. PICK u \in Urbs : m = UnlinkMessage(u)
      BY <1>1, <1>6, RequestCases, Zenon
    <2>2. PICK x \in ByteSeq :
            /\ x = Bytes(NetHeader(UnlinkWords(u), NoSetup)) /\ Len(x) = 48 /\ Wire(m) = x
      BY <2>1, UnlinkWire, Zenon
    <2>3. /\ up' \in ByteSeq /\ Starts(up, x) /\ InFlight(up', r, TRUE)
          /\ cli.pc # "closed" => up' = r
      <3>1. UpRest(srv.pc, asked, Len(heard)) = Cat(x, r)
        BY <1>n, <1>1, <2>2, Zenon
      <3>2. srv.pc # "closed" /\ Len(up) >= Len(x) /\ up' = Rest(up, Len(x))
        BY <1>0, <2>2
      <3> QED BY <1>1, <3>1, <3>2, ServerTook, Zenon
    <2>4. /\ Unlink(usbip_recv_urb_header(up)) = UnlinkMessage(u).u
          /\ Submit(usbip_recv_urb_header(up)).command = USBIP_CMD_UNLINK
      BY <2>2, <2>3, UnlinkRead, Zenon
    <2> QED BY <1>n, <1>l, <1>r, <1>m, <1>1, <2>1, <2>3, <2>4, Zenon
  <1> QED BY <1>4, <1>5, <1>6

\* The server has read a message of the driver to its end.
LEMMA UrbHeard ==
  ASSUME TypeInv, UpInv, Len(heard) < Len(asked), asked' = asked, cli' = cli,
         heard' = Append(heard, asked[Len(heard) + 1]),
         srv.pc \in {"urb", "data"}, srv'.pc \in {"urb", "drain"},
         InFlight(up', Remain(asked, Len(heard) + 1), TRUE),
         cli.pc # "closed" => up' = Remain(asked, Len(heard) + 1)
  PROVE  /\ UpInv' /\ heard' \in Seq(Request)
         /\ Len(heard) >= 1 /\ Len(heard') >= 1 /\ heard'[1] = heard[1]
         /\ heard[1].op = "REQ_IMPORT"
  <1>1. /\ heard' \in Seq(Request) /\ Len(heard') = Len(heard) + 1 /\ Len(heard') <= Len(asked')
        /\ Len(heard') >= 1 /\ (\A i \in 1 .. Len(heard') : heard'[i] = asked'[i])
        /\ (Len(heard) >= 1 => heard'[1] = heard[1])
    BY ServerHeard, Zenon
  <1>2. Len(heard) >= 1 /\ heard[1].op = "REQ_IMPORT"
    BY DEF UpInv
  <1>3. UpRest(srv'.pc, asked', Len(heard')) = Remain(asked, Len(heard) + 1)
    <2>1. srv'.pc # "busid" /\ srv'.pc # "data"
      OBVIOUS
    <2> QED BY <1>1, <2>1, Zenon DEF UpRest
  <1>4. UpInv'
    <2>1. Len(heard') <= Len(asked') /\ (\A i \in 1 .. Len(heard') : heard'[i] = asked'[i])
      BY <1>1, Zenon
    <2>2. cli'.pc = cli.pc /\ heard'[1].op = "REQ_IMPORT" /\ Len(heard') >= 1
      BY <1>1, <1>2, Zenon
    <2>3. /\ InFlight(up', UpRest(srv'.pc, asked', Len(heard')), TRUE)
          /\ cli'.pc # "closed" => up' = UpRest(srv'.pc, asked', Len(heard'))
      BY <1>3, <2>2, Zenon
    <2> QED BY <2>1, <2>2, <2>3 DEF UpInv
  <1> QED BY <1>1, <1>2, <1>4, Zenon

\* What is submitted to the handler is an entry of a URB.
LEMMA Forwarded ==
  ASSUME TypeInv, NEW u \in Urbs, Forward(u)
  PROVE  pending' \subseteq Entries
  <1>1. Entry(u) \in Entries /\ pending \subseteq Entries
    BY Zenon DEF Entries, TypeInv
  <1>2. pending' = pending \cup {Entry(u)} \/ pending' = pending
    BY Zenon DEF Forward
  <1> QED BY <1>1, <1>2

\* RecvSubmit reads the URB that was sent and, when data follow, stops before them.
LEMMA SubmitTaken ==
  ASSUME TypeInv, AskedInv, UpInv, RecvSubmit
  PROVE  /\ UpInv' /\ up' \in ByteSeq /\ heard' \in Seq(Request) /\ pending' \subseteq Entries
         /\ srv' \in [pc : SrvPcs, header : Urbs \cup {<<>>}] /\ srv.pc # "closed"
         /\ srv'.pc # "closed"
         /\ Len(heard) >= 1 /\ Len(heard') >= 1 /\ heard'[1] = heard[1]
  <1>n. PICK n \in Nat : n = Len(heard)
    BY TypeFacts
  <1>t. ServerTakes("urb", 48) /\ asked' = asked /\ cli' = cli
    BY DEF RecvSubmit, clientVars
  <1>0. srv.pc = "urb"
    BY <1>t DEF ServerTakes
  <1>c. Submit(usbip_recv_urb_header(up)).command = USBIP_CMD_SUBMIT
          /\ USBIP_CMD_SUBMIT # USBIP_CMD_UNLINK
    <2>1. USBIP_CMD_SUBMIT # USBIP_CMD_UNLINK
      BY DEF USBIP_CMD_SUBMIT, USBIP_CMD_UNLINK
    <2> QED BY <2>1, Zenon DEF RecvSubmit
  <1>r. PICK r : r = Remain(asked, n + 1)
    OBVIOUS
  <1>1. n < Len(asked) /\ n + 1 \in 1 .. Len(asked) /\ r \in ByteSeq /\ up' \in ByteSeq
    BY <1>t, <1>n, <1>r, NextUrb, Zenon
  <1>2. PICK u \in Urbs :
          /\ asked[n + 1] = SubmitMessage(u) /\ Submit(usbip_recv_urb_header(up)) = u
          /\ InFlight(up', Cat(SubmitMessage(u).data, r), TRUE)
          /\ (cli.pc # "closed" => up' = Cat(SubmitMessage(u).data, r))
    BY <1>t, <1>c, <1>n, <1>r, NextUrb, Zenon
  <1>3. Len(heard) >= 1 /\ heard[1].op = "REQ_IMPORT"
    BY <1>0 DEF UpInv
  <1>4. CASE CarriesData(u)
    <2>1. srv' = [pc |-> "data", header |-> u] /\ pending' = pending /\ heard' = heard
      BY <1>2, <1>4, Zenon DEF RecvSubmit
    <2>2. srv'.pc = "data" /\ srv'.header = u
      BY <2>1
    <2>3. srv' \in [pc : SrvPcs, header : Urbs \cup {<<>>}]
      BY <2>1 DEF SrvPcs
    <2>4. UpRest(srv'.pc, asked', Len(heard')) = Cat(SubmitMessage(u).data, r)
      <3>1. "data" # "busid"
        OBVIOUS
      <3> QED BY <1>n, <1>r, <1>t, <1>2, <2>1, <2>2, <3>1, Zenon DEF UpRest
    <2>5. UpInv'
      <3>1. Len(heard') <= Len(asked') /\ (\A i \in 1 .. Len(heard') : heard'[i] = asked'[i])
        BY <1>t, <2>1 DEF UpInv
      <3>2. /\ Len(heard') < Len(asked') /\ asked'[Len(heard') + 1] = SubmitMessage(srv'.header)
            /\ srv'.header \in Urbs /\ CarriesData(srv'.header)
        BY <1>n, <1>t, <1>1, <1>2, <1>4, <2>1, <2>2, Zenon
      <3>3. /\ InFlight(up', UpRest(srv'.pc, asked', Len(heard')), TRUE)
            /\ cli'.pc # "closed" => up' = UpRest(srv'.pc, asked', Len(heard'))
        BY <1>t, <1>2, <2>4, Zenon
      <3>4. Len(heard') >= 1 /\ heard'[1].op = "REQ_IMPORT"
        BY <1>3, <2>1
      <3>5. CarriesData(srv.header)'
        BY <3>2 DEF CarriesData
      <3>6. (SubmitMessage(srv.header))' = SubmitMessage(srv'.header)
        BY DEF SubmitMessage, Payload
      <3> QED BY <2>2, <3>1, <3>2, <3>3, <3>4, <3>5, <3>6 DEF UpInv
    <2>6. heard' \in Seq(Request) /\ pending' \subseteq Entries
      BY <2>1 DEF TypeInv
    <2>7. srv'.pc # "closed"
      BY <2>2
    <2> QED BY <1>0, <1>1, <1>3, <2>1, <2>3, <2>5, <2>6, <2>7
  <1>5. CASE ~CarriesData(u)
    <2>1. /\ srv' = [srv EXCEPT !.pc = "drain"] /\ Forward(u)
          /\ heard' = Append(heard, [op |-> "SUBMIT", u |-> u, data |-> <<>>])
      BY <1>2, <1>5, Zenon DEF RecvSubmit
    <2>2. SubmitMessage(u).data = <<>>
      BY <1>5, SubmitWire, Zenon
    <2>3. SubmitMessage(u) = [op |-> "SUBMIT", u |-> u, data |-> <<>>]
      BY <2>2 DEF SubmitMessage
    <2>4. srv'.pc = "drain" /\ srv' \in [pc : SrvPcs, header : Urbs \cup {<<>>}]
      BY <2>1 DEF TypeInv, SrvPcs
    <2>5. Cat(SubmitMessage(u).data, r) = r
      BY <1>1, <2>2, CatEmpty, Zenon
    <2>6. /\ heard' = Append(heard, asked[Len(heard) + 1]) /\ Len(heard) < Len(asked)
          /\ InFlight(up', Remain(asked, Len(heard) + 1), TRUE)
          /\ cli.pc # "closed" => up' = Remain(asked, Len(heard) + 1)
      BY <1>n, <1>r, <1>1, <1>2, <2>1, <2>3, <2>5, Zenon
    <2>7. srv.pc \in {"urb", "data"} /\ srv'.pc \in {"urb", "drain"} /\ srv'.pc # "closed"
            /\ srv.pc # "closed"
      BY <1>0, <2>4
    <2>8. /\ UpInv' /\ heard' \in Seq(Request)
          /\ Len(heard) >= 1 /\ Len(heard') >= 1 /\ heard'[1] = heard[1]
      BY <1>t, <2>6, <2>7, UrbHeard, Zenon
    <2>9. pending' \subseteq Entries
      BY <2>1, Forwarded, Zenon
    <2> QED BY <1>1, <2>4, <2>7, <2>8, <2>9, Zenon
  <1> QED BY <1>4, <1>5

\* RecvData reads the data that were sent, and no byte more.
LEMMA DataTaken ==
  ASSUME TypeInv, AskedInv, UpInv, RecvData
  PROVE  /\ UpInv' /\ up' \in ByteSeq /\ heard' \in Seq(Request) /\ pending' \subseteq Entries
         /\ srv' \in [pc : SrvPcs, header : Urbs \cup {<<>>}] /\ srv.pc # "closed"
         /\ srv'.pc # "closed"
         /\ Len(heard) >= 1 /\ Len(heard') >= 1 /\ heard'[1] = heard[1]
  <1>n. PICK n \in Nat : n = Len(heard)
    BY TypeFacts
  <1>l. PICK l \in Nat : l = Len(asked)
    BY TypeFacts
  <1>h. PICK u : u = srv.header
    OBVIOUS
  <1>0. /\ srv.pc = "data" /\ Len(up) >= u.transfer_buffer_length
        /\ up' = Rest(up, u.transfer_buffer_length)
        /\ asked' = asked /\ cli' = cli /\ srv' = [srv EXCEPT !.pc = "drain"] /\ Forward(u)
        /\ heard' = Append(heard, [op |-> "SUBMIT", u |-> u,
                                   data |-> SubSeq(up, 1, u.transfer_buffer_length)])
    BY <1>h DEF RecvData, ServerTakes, clientVars
  <1>1. n < l /\ asked[n + 1] = SubmitMessage(u) /\ u \in Urbs /\ CarriesData(u)
    BY <1>0, <1>h, <1>n, <1>l DEF UpInv
  <1>2. PICK x \in ByteSeq : x = SubmitMessage(u).data /\ Len(x) = u.transfer_buffer_length
    BY <1>1, SubmitWire, Zenon
  <1>r. PICK r \in ByteSeq : r = Remain(asked, n + 1)
    <2>1. n \in 0 .. l /\ n < l
      BY <1>1
    <2>2. asked \in Seq(Request)
      BY DEF TypeInv
    <2> QED BY <1>l, <2>1, <2>2, RemainAsked, Zenon
  <1>3. UpRest(srv.pc, asked, Len(heard)) = Cat(x, r)
    <2>1. "data" # "busid"
      OBVIOUS
    <2> QED BY <1>0, <1>n, <1>1, <1>2, <1>r, <2>1, Zenon DEF UpRest
  <1>4. /\ up' \in ByteSeq /\ Starts(up, x) /\ InFlight(up', r, TRUE)
        /\ cli.pc # "closed" => up' = r
    <2>1. srv.pc # "closed" /\ Len(up) >= Len(x) /\ up' = Rest(up, Len(x))
      BY <1>0, <1>2
    <2> QED BY <1>3, <2>1, ServerTook, Zenon
  <1>5. SubSeq(up, 1, Len(x)) = x
    <2>1. 0 \in Nat /\ \A j \in 1 .. Len(x) : up[0 + j] = x[j]
      BY <1>4 DEF Starts
    <2>2. SubSeq(up, 0 + 1, 0 + Len(x)) = x
      BY <2>1, SubSeqIs, Zenon
    <2>3. 0 + 1 = 1 /\ 0 + Len(x) = Len(x)
      BY ByteSeqFacts
    <2> QED BY <2>2, <2>3, Zenon
  <1>6. [op |-> "SUBMIT", u |-> u, data |-> SubSeq(up, 1, u.transfer_buffer_length)]
          = SubmitMessage(u)
    <2>1. SubSeq(up, 1, u.transfer_buffer_length) = SubmitMessage(u).data
      BY <1>2, <1>5, Zenon
    <2> QED BY <2>1 DEF SubmitMessage
  <1>7. /\ heard' = Append(heard, asked[Len(heard) + 1]) /\ Len(heard) < Len(asked)
        /\ InFlight(up', Remain(asked, Len(heard) + 1), TRUE)
        /\ cli.pc # "closed" => up' = Remain(asked, Len(heard) + 1)
    BY <1>n, <1>l, <1>r, <1>0, <1>1, <1>4, <1>6, Zenon
  <1>8. /\ srv.pc \in {"urb", "data"} /\ srv'.pc \in {"urb", "drain"} /\ srv'.pc # "closed"
        /\ srv.pc # "closed" /\ srv' \in [pc : SrvPcs, header : Urbs \cup {<<>>}]
    BY <1>0 DEF TypeInv, SrvPcs
  <1>9. /\ UpInv' /\ heard' \in Seq(Request)
        /\ Len(heard) >= 1 /\ Len(heard') >= 1 /\ heard'[1] = heard[1]
    BY <1>0, <1>7, <1>8, UrbHeard, Zenon
  <1>10. pending' \subseteq Entries
    BY <1>0, <1>1, Forwarded, Zenon
  <1> QED BY <1>4, <1>8, <1>9, <1>10, Zenon

\* RecvUnlink reads the unlink that was sent, and answers.
LEMMA UnlinkTaken ==
  ASSUME TypeInv, AskedInv, UpInv, RecvUnlink
  PROVE  /\ UpInv' /\ up' \in ByteSeq /\ heard' \in Seq(Request) /\ pending' \subseteq Entries
         /\ srv.pc # "closed" /\ srv' = srv
         /\ Len(heard) >= 1 /\ Len(heard') >= 1 /\ heard'[1] = heard[1]
         /\ heard[1].op = "REQ_IMPORT"
         /\ \E m \in Reply : m.op = "RET_UNLINK" /\ ServerSends(m, Wire(m))
  <1>n. PICK n \in Nat : n = Len(heard)
    BY TypeFacts
  <1>t. ServerTakes("urb", 48) /\ asked' = asked /\ cli' = cli /\ srv' = srv
    BY DEF RecvUnlink, clientVars
  <1>0. srv.pc = "urb"
    BY <1>t DEF ServerTakes
  <1>d. PICK h : h = Unlink(usbip_recv_urb_header(up))
    OBVIOUS
  <1>e. /\ h.command = USBIP_CMD_UNLINK /\ heard' = Append(heard, [op |-> "UNLINK", u |-> h])
        /\ \E found \in SUBSET pending :
             pending' = (pending \ found) \cup {[e EXCEPT !.cancelled = TRUE] : e \in found}
        /\ ServerSends([op |-> "RET_UNLINK", seqnum |-> h.seqnum, devid |-> h.devid, status |-> 0],
                       usbip_send_urb_header(usbip_create_urb_unlink_ret(h.seqnum, h.devid, 0)))
    BY <1>d DEF RecvUnlink
  <1>c. USBIP_CMD_SUBMIT # USBIP_CMD_UNLINK
    BY DEF USBIP_CMD_SUBMIT, USBIP_CMD_UNLINK
  <1>r. PICK r : r = Remain(asked, n + 1)
    OBVIOUS
  <1>1. n < Len(asked) /\ n + 1 \in 1 .. Len(asked) /\ r \in ByteSeq /\ up' \in ByteSeq
    BY <1>t, <1>n, <1>r, NextUrb, Zenon
  <1>2. PICK u \in Urbs :
          /\ asked[n + 1] = UnlinkMessage(u) /\ h = UnlinkMessage(u).u
          /\ InFlight(up', r, TRUE) /\ (cli.pc # "closed" => up' = r)
    BY <1>t, <1>c, <1>d, <1>e, <1>n, <1>r, NextUrb, Zenon
  <1>3. /\ h.seqnum = UnlinkSeqnum(u) /\ h.devid = u.devid
        /\ [op |-> "UNLINK", u |-> h] = UnlinkMessage(u)
    BY <1>2 DEF UnlinkMessage, UnlinkSeqnum
  <1>4. /\ heard' = Append(heard, asked[Len(heard) + 1]) /\ Len(heard) < Len(asked)
        /\ InFlight(up', Remain(asked, Len(heard) + 1), TRUE)
        /\ cli.pc # "closed" => up' = Remain(asked, Len(heard) + 1)
    BY <1>n, <1>r, <1>1, <1>2, <1>e, <1>3, Zenon
  <1>5. srv.pc \in {"urb", "data"} /\ srv'.pc \in {"urb", "drain"} /\ srv.pc # "closed"
    BY <1>0, <1>t
  <1>6. /\ UpInv' /\ heard' \in Seq(Request)
        /\ Len(heard) >= 1 /\ Len(heard') >= 1 /\ heard'[1] = heard[1]
        /\ heard[1].op = "REQ_IMPORT"
    BY <1>t, <1>4, <1>5, UrbHeard, Zenon
  <1>7. pending' \subseteq Entries
    <2>1. ASSUME NEW e \in Entries PROVE [e EXCEPT !.cancelled = TRUE] \in Entries
      <3>1. PICK v \in Urbs : e = Entry(v) \/ e = [Entry(v) EXCEPT !.cancelled = TRUE]
        BY DEF Entries
      <3>2. [e EXCEPT !.cancelled = TRUE] = [Entry(v) EXCEPT !.cancelled = TRUE]
        BY <3>1 DEF Entry
      <3> QED BY <3>2 DEF Entries
    <2>2. pending \subseteq Entries
      BY DEF TypeInv
    <2> QED BY <1>e, <2>1, <2>2
  <1>8. \E m \in Reply : m.op = "RET_UNLINK" /\ ServerSends(m, Wire(m))
    <2>1. RetUnlink(u) \in Reply /\ RetUnlink(u).op = "RET_UNLINK"
      BY DEF Reply, RetUnlink
    <2>2. ServerSends(RetUnlink(u), usbip_send_urb_header(
             usbip_create_urb_unlink_ret(UnlinkSeqnum(u), u.devid, 0)))
      BY <1>e, <1>3, Zenon DEF RetUnlink
    <2> QED BY <2>1, <2>2, RetUnlinkSent, Zenon
  <1> QED BY <1>t, <1>1, <1>5, <1>6, <1>7, <1>8, Zenon

----------------------------------------------------------------------------
(* What goes to the client.                                                *)

\* The rest of a message and the messages after it.
LEMMA PartRemain ==
  ASSUME NEW p \in ByteSeq, NEW t \in Seq(Reply), Len(t) >= 1
  PROVE  /\ Remain(t, 1) \in ByteSeq /\ Cat(p, Remain(t, 1)) \in ByteSeq
         /\ \A m \in Reply : Cat(p, Remain(Append(t, m), 1)) = Cat(Cat(p, Remain(t, 1)), Wire(m))
  <1>1. 1 \in 0 .. Len(t)
    <2>1. PICK k \in Nat : k = Len(t)
      BY MessagesFacts, Zenon
    <2> QED BY <2>1
  <1>2. /\ Remain(t, 1) \in ByteSeq
        /\ \A m \in Reply : Remain(Append(t, m), 1) = Cat(Remain(t, 1), Wire(m))
    BY <1>1, RemainTold, Zenon
  <1>3. Cat(p, Remain(t, 1)) \in ByteSeq
    BY <1>2, CatSize, Zenon
  <1>4. ASSUME NEW m \in Reply
        PROVE  Cat(p, Remain(Append(t, m), 1)) = Cat(Cat(p, Remain(t, 1)), Wire(m))
    <2>1. Wire(m) \in ByteSeq /\ Remain(Append(t, m), 1) = Cat(Remain(t, 1), Wire(m))
      BY <1>2, ReplyWired, Zenon
    <2>2. Cat(Cat(p, Remain(t, 1)), Wire(m)) = Cat(p, Cat(Remain(t, 1), Wire(m)))
      BY <1>2, <2>1, CatAssoc, Zenon
    <2> QED BY <2>1, <2>2, Zenon
  <1> QED BY <1>2, <1>3, <1>4, Zenon

\* What the client has still to read grows at its end with what is sent.
LEMMA DownRestFacts ==
  ASSUME NEW l \in Lists, NEW t \in Seq(Reply), NEW n \in 0 .. Len(t), NEW k \in Nat, NEW pc,
         pc \in {"ndev", "device", "info"} => Len(t) >= 1,
         pc = "device" => k <= Len(l),
         pc = "info" => \E d \in usb_device_t : t[1] = ImportDone(d)
  PROVE  /\ DownRest(pc, l, k, t, n) \in ByteSeq
         /\ \A m \in Reply : DownRest(pc, l, k, Append(t, m), n)
                               = Cat(DownRest(pc, l, k, t, n), Wire(m))
  <1>1. CASE pc = "ndev"
    <2>1. Net32(Len(l)) \in ByteSeq /\ Bytes(ListStruct(l)) \in ByteSeq /\ Len(t) >= 1
      BY <1>1, DevlistWire
    <2>2. PICK p \in ByteSeq : p = Cat(Net32(Len(l)), Bytes(ListStruct(l)))
      BY <2>1, CatSize, Zenon
    <2>3. \A s : DownRest(pc, l, k, s, n) = Cat(p, Remain(s, 1))
      BY <1>1, <2>2, Zenon DEF DownRest
    <2>4. /\ Cat(p, Remain(t, 1)) \in ByteSeq
          /\ \A m \in Reply : Cat(p, Remain(Append(t, m), 1)) = Cat(Cat(p, Remain(t, 1)), Wire(m))
      BY <2>1, PartRemain, Zenon
    <2> QED BY <2>3, <2>4, Zenon
  <1>2. CASE pc = "device"
    <2>1. Len(t) >= 1 /\ k <= Len(l)
      BY <1>2
    <2>2. PICK p \in ByteSeq : p = Bytes(Rest(ListStruct(l), k))
      <3>1. ListStruct(l) \in Struct /\ Len(ListStruct(l)) = Len(l)
        BY ListStructFacts, Zenon
      <3>2. k \in 0 .. Len(l)
        BY <2>1, ListFacts
      <3>3. Rest(ListStruct(l), k) \in Struct
        BY <3>1, <3>2, RestOfStruct, Zenon
      <3> QED BY <3>3, BytesType, Zenon
    <2>x. pc # "ndev"
      BY <1>2
    <2>3. \A s : DownRest(pc, l, k, s, n) = Cat(p, Remain(s, 1))
      BY <1>2, <2>2, <2>x, Zenon DEF DownRest
    <2>4. /\ Cat(p, Remain(t, 1)) \in ByteSeq
          /\ \A m \in Reply : Cat(p, Remain(Append(t, m), 1)) = Cat(Cat(p, Remain(t, 1)), Wire(m))
      BY <2>1, PartRemain, Zenon
    <2> QED BY <2>3, <2>4, Zenon
  <1>3. CASE pc = "info"
    <2>1. Len(t) >= 1
      BY <1>3
    <2>2. PICK d \in usb_device_t : t[1] = ImportDone(d)
      BY <1>3
    <2>3. t[1].device = d
      BY <2>2 DEF ImportDone
    <2>4. PICK p \in ByteSeq : p = WireDevice(d)
      BY DeviceBytes
    <2>x. pc # "ndev" /\ pc # "device"
      BY <1>3
    <2>5. ASSUME NEW m \in Reply PROVE Append(t, m)[1] = t[1]
      <3>1. 1 \in 1 .. Len(t)
        <4>1. PICK j \in Nat : j = Len(t)
          BY MessagesFacts, Zenon
        <4> QED BY <2>1, <4>1
      <3>2. \A i \in 1 .. Len(t) : Append(t, m)[i] = t[i]
        BY MessagesAppend
      <3> QED BY <3>1, <3>2, Zenon
    <2>6. DownRest(pc, l, k, t, n) = Cat(p, Remain(t, 1))
      BY <1>3, <2>x, <2>3, <2>4, Zenon DEF DownRest
    <2>7. ASSUME NEW m \in Reply
          PROVE  DownRest(pc, l, k, Append(t, m), n) = Cat(p, Remain(Append(t, m), 1))
      <3>1. Append(t, m)[1].device = d
        BY <2>3, <2>5, Zenon
      <3> QED BY <1>3, <2>x, <2>4, <3>1, Zenon DEF DownRest
    <2>8. /\ Cat(p, Remain(t, 1)) \in ByteSeq
          /\ \A m \in Reply : Cat(p, Remain(Append(t, m), 1)) = Cat(Cat(p, Remain(t, 1)), Wire(m))
      BY <2>1, PartRemain, Zenon
    <2> QED BY <2>6, <2>7, <2>8, Zenon
  <1>4. CASE pc # "ndev" /\ pc # "device" /\ pc # "info"
    BY <1>4, RemainTold, Zenon DEF DownRest
  <1> QED BY <1>1, <1>2, <1>3, <1>4

\* The same, of the state.
LEMMA DownLeftFacts ==
  ASSUME TypeInv, DownInv
  PROVE  /\ DownLeft \in ByteSeq
         /\ \A m \in Reply : DownRest(cli.pc, shared, Len(cli.devices), Append(told, m), Len(learned))
                               = Cat(DownLeft, Wire(m))
  <1>1. shared \in Lists /\ told \in Seq(Reply)
    BY DEF TypeInv
  <1>2. Len(learned) \in 0 .. Len(told)
    <2>1. Len(learned) <= Len(told)
      BY DEF DownInv
    <2>2. Len(learned) \in Nat /\ Len(told) \in Nat
      BY TypeFacts
    <2> QED BY <2>1, <2>2
  <1>3. Len(cli.devices) \in Nat
    <2>1. cli.devices \in Seq(usb_device_t)
      BY TypeFacts
    <2> QED BY <2>1, MessagesFacts, Zenon
  <1>4. /\ cli.pc \in {"ndev", "device", "info"} => Len(told) >= 1
        /\ cli.pc = "device" => Len(cli.devices) <= Len(shared)
        /\ cli.pc = "info" => \E d \in usb_device_t : told[1] = ImportDone(d)
    BY DEF DownInv
  <1> QED BY <1>1, <1>2, <1>3, <1>4, DownRestFacts, Zenon DEF DownLeft

\* Agreement does not end when the server closes.
LEMMA AgreesStable ==
  ASSUME NEW p, NEW q, NEW l, NEW t, AgreesAt(p, l, t), p = "closed" => q = "closed"
  PROVE  AgreesAt(q, l, t)
  BY Zenon DEF AgreesAt

\* A message goes out to the client.
LEMMA ServerSent ==
  ASSUME TypeInv, DownInv, srv.pc # "closed", NEW m \in Reply, ServerSends(m, Wire(m)),
         UNCHANGED <<shared, cli, learned>>
  PROVE  /\ DownInv' /\ down' \in ByteSeq /\ told' \in Seq(Reply)
         /\ cli.pc = "closed" => told' = told
         /\ cli.pc # "closed" => /\ Len(told') = Len(told) + 1 /\ told'[Len(told) + 1] = m
                                 /\ \A i \in 1 .. Len(told) : told'[i] = told[i]
  <1>0. down \in ByteSeq /\ told \in Seq(Reply) /\ Wire(m) \in ByteSeq
    BY ReplyWired DEF TypeInv
  <1>s. shared' = shared /\ cli' = cli /\ learned' = learned
    OBVIOUS
  <1>g. \A l, t : AgreesAt(srv.pc, l, t) => AgreesAt(srv'.pc, l, t)
    BY AgreesStable, Zenon
  <1>1. CASE cli.pc = "closed"
    <2>1. down' = down /\ told' = told
      BY <1>1 DEF ServerSends
    <2>2. DownInv'
      <3>1. /\ Len(learned') <= Len(told') /\ cli'.pc = "closed"
            /\ \A i \in 1 .. Len(learned') : AgreesAt(srv'.pc, learned'[i], told'[i])
        BY <1>s, <1>g, <1>1, <2>1, Zenon DEF DownInv
      <3> QED BY <3>1 DEF DownInv
    <2> QED BY <1>0, <1>1, <2>1, <2>2
  <1>2. CASE cli.pc # "closed"
    <2>1. down' = Cat(down, Wire(m)) /\ told' = Append(told, m)
      BY <1>2 DEF ServerSends, Cat
    <2>2. /\ told' \in Seq(Reply) /\ Len(told') = Len(told) + 1 /\ told'[Len(told) + 1] = m
          /\ \A i \in 1 .. Len(told) : told'[i] = told[i]
      BY <1>0, <2>1, MessagesAppend
    <2>3. down' \in ByteSeq
      BY <1>0, <2>1, CatSize, Zenon
    <2>4. down' = DownLeft'
      <3>1. down = DownLeft
        BY <1>2 DEF DownInv
      <3>2. DownRest(cli.pc, shared, Len(cli.devices), told', Len(learned))
              = Cat(DownLeft, Wire(m))
        BY <2>1, DownLeftFacts, Zenon
      <3>3. DownLeft' = DownRest(cli'.pc, shared', Len(cli'.devices), told', Len(learned'))
        BY DEF DownLeft
      <3> QED BY <1>s, <2>1, <3>1, <3>2, <3>3, Zenon
    <2>5. InFlight(down', DownLeft', TRUE)
      BY <2>3, <2>4, Same, Zenon
    <2>l. PICK j \in Nat, n \in Nat : j = Len(told) /\ n = Len(learned) /\ n <= j
      BY TypeFacts DEF DownInv
    <2>6. /\ Len(learned') <= Len(told')
          /\ \A i \in 1 .. Len(learned') : AgreesAt(srv'.pc, learned'[i], told'[i])
      <3>1. \A i \in 1 .. n : i \in 1 .. j
        BY <2>l
      <3>2. n <= j + 1
        BY <2>l
      <3>3. \A i \in 1 .. n : AgreesAt(srv.pc, learned[i], told[i])
        BY <2>l DEF DownInv
      <3>4. \A i \in 1 .. n : AgreesAt(srv'.pc, learned[i], told'[i])
        BY <1>g, <2>2, <2>l, <3>1, <3>3, Zenon
      <3> QED BY <1>s, <2>2, <2>l, <3>2, <3>4, Zenon
    <2>7. /\ cli.pc \in {"ndev", "device", "info"} => Len(told') >= 1
          /\ cli.pc = "info" => \E d \in usb_device_t : told'[1] = ImportDone(d)
      <3>1. cli.pc \in {"ndev", "device", "info"} => j >= 1
        BY <2>l DEF DownInv
      <3>2. j >= 1 => 1 \in 1 .. j
        OBVIOUS
      <3>3. j + 1 >= 1 /\ Len(told') = j + 1
        BY <2>2, <2>l
      <3>4. cli.pc = "info" => told'[1] = told[1]
        BY <2>2, <2>l, <3>1, <3>2
      <3>5. cli.pc = "info" => \E d \in usb_device_t : told[1] = ImportDone(d)
        BY DEF DownInv
      <3> QED BY <3>3, <3>4, <3>5, Zenon
    <2>8. DownInv'
      <3>1. /\ cli'.pc \in {"start", "list", "import"} => Len(learned') = 0
            /\ cli'.pc \in {"ndev", "device", "info"} => Len(learned') = 0
            /\ cli'.pc = "driver" => Len(learned') >= 1
            /\ cli'.pc \in {"start", "list", "ndev"} => Len(cli'.devices) = 0
            /\ cli'.pc = "device" =>
                /\ Len(cli'.devices) <= Len(shared') /\ Len(cli'.devices) <= MAX_DEVICES
                /\ cli'.left = Len(shared') - Len(cli'.devices)
                /\ \A i \in 1 .. Len(cli'.devices) : cli'.devices[i] = shared'[i].info
        BY <1>s, Zenon DEF DownInv
      <3>2. (\E d \in usb_device_t : told[1] = ImportDone(d))' <=> \E d \in usb_device_t :
              told'[1] = ImportDone(d)
        BY DEF ImportDone
      <3> QED BY <1>s, <2>4, <2>5, <2>6, <2>7, <3>1, <3>2 DEF DownInv
    <2> QED BY <1>2, <2>2, <2>3, <2>8
  <1> QED BY <1>1, <1>2

\* What the server has still to read are bytes.
LEMMA UpLeftType ==
  ASSUME TypeInv, UpInv
  PROVE  UpRest(srv.pc, asked, Len(heard)) \in ByteSeq
  <1>1. asked \in Seq(Request)
    BY DEF TypeInv
  <1>2. Len(heard) \in 0 .. Len(asked)
    <2>1. Len(heard) <= Len(asked)
      BY DEF UpInv
    <2>2. Len(heard) \in Nat /\ Len(asked) \in Nat
      BY TypeFacts
    <2> QED BY <2>1, <2>2
  <1>3. /\ srv.pc = "busid" => Len(asked) >= 1 /\ asked[1].op = "REQ_IMPORT"
        /\ srv.pc = "data" => /\ Len(heard) < Len(asked)
                              /\ \E u \in Urbs : asked[Len(heard) + 1] = SubmitMessage(u)
    BY DEF UpInv
  <1> QED BY <1>1, <1>2, <1>3, UpRestFacts, Zenon

\* A step of the client that sends nothing keeps UpInv.
LEMMA UpKept ==
  ASSUME UpInv, UNCHANGED <<up, asked, heard, srv>>, cli.pc = "closed" => cli'.pc = "closed"
  PROVE  UpInv'
  <1>1. up' = up /\ asked' = asked /\ heard' = heard /\ srv' = srv
    OBVIOUS
  <1>2. (SubmitMessage(srv.header))' = SubmitMessage(srv'.header)
    BY DEF SubmitMessage, Payload
  <1>3. (CarriesData(srv.header))' = CarriesData(srv'.header)
    BY DEF CarriesData
  <1> QED BY <1>1, <1>2, <1>3, Zenon DEF UpInv

\* The client goes and some of its last bytes with it.
LEMMA UpCut ==
  ASSUME TypeInv, UpInv, UNCHANGED <<asked, heard, srv>>, cli'.pc = "closed",
         NEW n \in Nat, n <= Len(up), up' = SubSeq(up, 1, Len(up) - n)
  PROVE  UpInv' /\ up' \in ByteSeq
  <1>1. asked' = asked /\ heard' = heard /\ srv' = srv
    OBVIOUS
  <1>2. (SubmitMessage(srv.header))' = SubmitMessage(srv'.header)
    BY DEF SubmitMessage, Payload
  <1>3. (CarriesData(srv.header))' = CarriesData(srv'.header)
    BY DEF CarriesData
  <1>4. up \in ByteSeq
    BY DEF TypeInv
  <1>5. up' \in ByteSeq
    <2>1. InFlight(up, up, TRUE)
      BY <1>4, Same, Zenon
    <2> QED BY <1>4, <2>1, CutTrue, Zenon
  <1>6. srv.pc # "closed" => InFlight(up', UpRest(srv.pc, asked, Len(heard)), TRUE)
    <2> SUFFICES ASSUME srv.pc # "closed"
      PROVE InFlight(up', UpRest(srv.pc, asked, Len(heard)), TRUE)
      OBVIOUS
    <2>1. InFlight(up, UpRest(srv.pc, asked, Len(heard)), TRUE)
      BY DEF UpInv
    <2>2. UpRest(srv.pc, asked, Len(heard)) \in ByteSeq
      BY UpLeftType, Zenon
    <2> QED BY <1>4, <2>1, <2>2, CutTrue, Zenon
  <1> QED BY <1>1, <1>2, <1>3, <1>5, <1>6, Zenon DEF UpInv

\* A step that tells nothing keeps ToldInv.
LEMMA ToldKept ==
  ASSUME ToldInv, UNCHANGED <<told, heard, shared>>, cli.pc = "closed" => cli'.pc = "closed"
  PROVE  ToldInv'
  <1>1. told' = told /\ heard' = heard /\ shared' = shared
    OBVIOUS
  <1>2. (DevlistReply(shared))' = DevlistReply(shared')
    BY DEF DevlistReply
  <1> QED BY <1>1, <1>2, Zenon DEF ToldInv

\* A step of the server that sends nothing keeps DownInv.
LEMMA DownKept ==
  ASSUME DownInv, UNCHANGED <<shared, cli, learned, told, down>>,
         srv.pc = "closed" => srv'.pc = "closed"
  PROVE  DownInv'
  <1>1. shared' = shared /\ cli' = cli /\ learned' = learned /\ told' = told /\ down' = down
    OBVIOUS
  <1>2. DownLeft' = DownLeft
    BY <1>1 DEF DownLeft
  <1>3. \A l, t : AgreesAt(srv.pc, l, t) => AgreesAt(srv'.pc, l, t)
    BY AgreesStable, Zenon
  <1>4. \A i \in 1 .. Len(learned') : AgreesAt(srv'.pc, learned'[i], told'[i])
    BY <1>1, <1>3, Zenon DEF DownInv
  <1>5. (\E d \in usb_device_t : told[1] = ImportDone(d))' <=> \E d \in usb_device_t :
          told'[1] = ImportDone(d)
    BY DEF ImportDone
  <1> QED BY <1>1, <1>2, <1>4, <1>5, Zenon DEF DownInv

\* The server goes and some of its last bytes with it.
LEMMA DownCut ==
  ASSUME TypeInv, DownInv, UNCHANGED <<shared, cli, learned, told>>, srv'.pc = "closed",
         NEW n \in Nat, n <= Len(down), down' = SubSeq(down, 1, Len(down) - n)
  PROVE  DownInv' /\ down' \in ByteSeq
  <1>1. shared' = shared /\ cli' = cli /\ learned' = learned /\ told' = told
    OBVIOUS
  <1>2. DownLeft' = DownLeft
    BY <1>1 DEF DownLeft
  <1>3. \A l, t : AgreesAt(srv.pc, l, t) => AgreesAt(srv'.pc, l, t)
    BY AgreesStable, Zenon
  <1>4. \A i \in 1 .. Len(learned') : AgreesAt(srv'.pc, learned'[i], told'[i])
    BY <1>1, <1>3, Zenon DEF DownInv
  <1>5. (\E d \in usb_device_t : told[1] = ImportDone(d))' <=> \E d \in usb_device_t :
          told'[1] = ImportDone(d)
    BY DEF ImportDone
  <1>6. down \in ByteSeq
    BY DEF TypeInv
  <1>7. down' \in ByteSeq
    <2>1. InFlight(down, down, TRUE)
      BY <1>6, Same, Zenon
    <2> QED BY <1>6, <2>1, CutTrue, Zenon
  <1>8. cli.pc # "closed" => InFlight(down', DownLeft, TRUE)
    <2> SUFFICES ASSUME cli.pc # "closed" PROVE InFlight(down', DownLeft, TRUE)
      OBVIOUS
    <2>1. InFlight(down, DownLeft, TRUE)
      BY DEF DownInv
    <2>2. DownLeft \in ByteSeq
      BY DownLeftFacts, Zenon
    <2> QED BY <1>6, <2>1, <2>2, CutTrue, Zenon
  <1> QED BY <1>1, <1>2, <1>4, <1>5, <1>7, <1>8, Zenon DEF DownInv

\* A step of the server keeps AskedInv.
LEMMA AskedKept ==
  ASSUME AskedInv, asked' = asked, cli' = cli
  PROVE  AskedInv'
  BY Zenon DEF AskedInv

----------------------------------------------------------------------------
(* The server's steps.                                                     *)

\* One answer to a URB more.
LEMMA ToldMore ==
  ASSUME TypeInv, ToldInv, NEW m, m.op \in {"RET_SUBMIT", "RET_UNLINK"},
         UNCHANGED <<cli, shared>>,
         Len(heard) >= 1, Len(heard') >= 1, heard'[1] = heard[1], heard[1].op = "REQ_IMPORT",
         cli.pc = "closed" => told' = told,
         cli.pc # "closed" => /\ Len(told') = Len(told) + 1 /\ told'[Len(told) + 1] = m
                              /\ \A i \in 1 .. Len(told) : told'[i] = told[i]
  PROVE  ToldInv'
  <1>0. PICK j \in Nat : j = Len(told)
    BY TypeFacts
  <1>s. shared' = shared /\ cli' = cli /\ (DevlistReply(shared))' = DevlistReply(shared')
    BY DEF DevlistReply
  <1>1. CASE cli.pc = "closed"
    BY <1>1, <1>s, Zenon DEF ToldInv
  <1>2. CASE cli.pc # "closed"
    <2>1. j >= 1
      BY <1>2, <1>0 DEF ToldInv
    <2>2. told[1].op = "REP_IMPORT"
      <3>1. "REQ_IMPORT" # "REQ_DEVLIST"
        OBVIOUS
      <3> QED BY <1>0, <2>1, <3>1 DEF ToldInv
    <2>3. 1 \in 1 .. j /\ j + 1 >= 1
      BY <2>1
    <2>4. Len(told') = j + 1 /\ told'[j + 1] = m /\ \A i \in 1 .. j : told'[i] = told[i]
      BY <1>0, <1>2, Zenon
    <2>5. told'[1].op = "REP_IMPORT"
      BY <2>2, <2>3, <2>4, Zenon
    <2>6. ASSUME NEW i \in 2 .. Len(told') PROVE told'[i].op \in {"RET_SUBMIT", "RET_UNLINK"}
      <3>1. CASE i = j + 1
        BY <3>1, <2>4
      <3>2. CASE i \in 2 .. j
        <4>1. i \in 1 .. j
          BY <3>2
        <4> QED BY <1>0, <2>4, <3>2, <4>1 DEF ToldInv
      <3> QED BY <2>4, <3>1, <3>2
    <2>7. Len(told') >= 1
      BY <2>3, <2>4
    <2> QED BY <2>5, <2>6, <2>7 DEF ToldInv
  <1> QED BY <1>1, <1>2

\* The first reply.
LEMMA ToldFirst ==
  ASSUME TypeInv, ToldInv, NEW m, UNCHANGED <<cli, shared>>,
         Len(heard) = 0, Len(heard') = 1,
         \/ heard'[1].op = "REQ_DEVLIST" /\ m = DevlistReply(shared)
         \/ heard'[1].op = "REQ_IMPORT" /\ m.op = "REP_IMPORT",
         cli.pc = "closed" => told' = told,
         cli.pc # "closed" => /\ Len(told') = Len(told) + 1 /\ told'[Len(told) + 1] = m
                              /\ \A i \in 1 .. Len(told) : told'[i] = told[i]
  PROVE  ToldInv'
  <1>0. Len(told) = 0
    <2>1. PICK j \in Nat : j = Len(told)
      BY TypeFacts
    <2>2. ~(j >= 1)
      BY <2>1 DEF ToldInv
    <2> QED BY <2>1, <2>2
  <1>s. shared' = shared /\ cli' = cli /\ (DevlistReply(shared))' = DevlistReply(shared')
    BY DEF DevlistReply
  <1>1. CASE cli.pc = "closed"
    <2>1. Len(told') = 0
      BY <1>0, <1>1
    <2> QED BY <1>s, <1>1, <2>1 DEF ToldInv
  <1>2. CASE cli.pc # "closed"
    <2>1. Len(told') = 1 /\ told'[1] = m
      BY <1>0, <1>2
    <2>2. Len(heard') >= 1 /\ Len(told') >= 1 /\ \A i \in 2 .. Len(told') : FALSE
      BY <2>1
    <2> QED BY <1>s, <2>1, <2>2, Zenon DEF ToldInv
  <1> QED BY <1>1, <1>2

\* RecvRequest keeps the invariant.
LEMMA RecvRequestStep ==
  ASSUME ExchangeInv, RecvRequest
  PROVE  ExchangeInv'
  <1>1. TypeInv /\ AskedInv /\ UpInv /\ ToldInv /\ DownInv
    BY DEF ExchangeInv
  <1>2. shared' = shared /\ cli' = cli /\ asked' = asked /\ learned' = learned
          /\ pending' = pending
    BY DEF RecvRequest, clientVars
  <1>3. srv.pc # "closed"
    BY DEF RecvRequest, ServerTakes
  <1>4. /\ UpInv' /\ up' \in ByteSeq /\ heard' \in Seq(Request)
        /\ srv' \in [pc : SrvPcs, header : Urbs \cup {<<>>}] /\ srv'.pc # "closed"
    BY <1>1, RequestTaken, Zenon
  <1>5. AskedInv'
    BY <1>1, <1>2, AskedKept, Zenon
  <1>6. CASE /\ Len(heard') = 1 /\ heard'[1].op = "REQ_DEVLIST" /\ Len(heard) = 0
             /\ ServerSends(DevlistReply(shared), Wire(DevlistReply(shared)))
    <2>1. DevlistReply(shared) \in Reply
      BY <1>1, ListSent, Zenon
    <2>2. UNCHANGED <<shared, cli, learned>> /\ UNCHANGED <<cli, shared>>
      BY <1>2
    <2>3. /\ DownInv' /\ down' \in ByteSeq /\ told' \in Seq(Reply)
          /\ cli.pc = "closed" => told' = told
          /\ cli.pc # "closed" => /\ Len(told') = Len(told) + 1
                                     /\ told'[Len(told) + 1] = DevlistReply(shared)
                                  /\ \A i \in 1 .. Len(told) : told'[i] = told[i]
      BY <1>1, <1>3, <1>6, <2>1, <2>2, ServerSent, Zenon
    <2>4. ToldInv'
      BY <1>1, <1>6, <2>2, <2>3, ToldFirst, Zenon
    <2>5. TypeInv'
      BY <1>1, <1>2, <1>4, <2>3, Zenon DEF TypeInv
    <2> QED BY <1>4, <1>5, <2>3, <2>4, <2>5, Zenon DEF ExchangeInv
  <1>7. CASE heard' = heard /\ UNCHANGED <<down, told>>
    <2>1. UNCHANGED <<shared, cli, learned, told, down>> /\ UNCHANGED <<told, heard, shared>>
            /\ cli' = cli
      BY <1>2, <1>7
    <2>2. DownInv' /\ ToldInv'
      BY <1>1, <1>3, <2>1, DownKept, ToldKept, Zenon
    <2>3. TypeInv'
      BY <1>1, <1>2, <1>4, <1>7, Zenon DEF TypeInv
    <2> QED BY <1>4, <1>5, <2>2, <2>3, Zenon DEF ExchangeInv
  <1> QED BY <1>1, <1>6, <1>7, RequestTaken, Zenon

\* RecvBusid keeps the invariant.
LEMMA RecvBusidStep ==
  ASSUME ExchangeInv, RecvBusid
  PROVE  ExchangeInv'
  <1>1. TypeInv /\ AskedInv /\ UpInv /\ ToldInv /\ DownInv
    BY DEF ExchangeInv
  <1>2. /\ shared' = shared /\ cli' = cli /\ asked' = asked /\ learned' = learned
           /\ pending' = pending
        /\ UNCHANGED <<shared, cli, learned>> /\ UNCHANGED <<cli, shared>>
    BY DEF RecvBusid, clientVars
  <1>3. /\ UpInv' /\ up' \in ByteSeq /\ heard' \in Seq(Request)
        /\ srv' \in [pc : SrvPcs, header : Urbs \cup {<<>>}] /\ srv.pc # "closed"
        /\ Len(heard) = 0 /\ Len(heard') = 1 /\ heard'[1].op = "REQ_IMPORT"
    BY <1>1, BusidTaken, Zenon
  <1>4. PICK m \in Reply : m.op = "REP_IMPORT" /\ ServerSends(m, Wire(m))
    BY <1>1, BusidTaken, Zenon
  <1>5. AskedInv'
    BY <1>1, <1>2, AskedKept, Zenon
  <1>6. /\ DownInv' /\ down' \in ByteSeq /\ told' \in Seq(Reply)
        /\ cli.pc = "closed" => told' = told
        /\ cli.pc # "closed" => /\ Len(told') = Len(told) + 1 /\ told'[Len(told) + 1] = m
                                /\ \A i \in 1 .. Len(told) : told'[i] = told[i]
    BY <1>1, <1>2, <1>3, <1>4, ServerSent, Zenon
  <1>7. ToldInv'
    BY <1>1, <1>2, <1>3, <1>4, <1>6, ToldFirst, Zenon
  <1>8. TypeInv'
    BY <1>1, <1>2, <1>3, <1>6, Zenon DEF TypeInv
  <1> QED BY <1>3, <1>5, <1>6, <1>7, <1>8, Zenon DEF ExchangeInv

\* A step of the server that hears the driver and sends nothing keeps it.
LEMMA HeardStep ==
  ASSUME ExchangeInv, UNCHANGED <<down, shared, cli, asked, learned, told>>,
         UpInv', up' \in ByteSeq, heard' \in Seq(Request), pending' \subseteq Entries,
         srv' \in [pc : SrvPcs, header : Urbs \cup {<<>>}], srv.pc # "closed",
         Len(heard) >= 1, Len(heard') >= 1, heard'[1] = heard[1]
  PROVE  ExchangeInv'
  <1>1. TypeInv /\ AskedInv /\ UpInv /\ ToldInv /\ DownInv
    BY DEF ExchangeInv
  <1>2. /\ down' = down /\ shared' = shared /\ cli' = cli /\ asked' = asked
           /\ learned' = learned
        /\ told' = told /\ UNCHANGED <<shared, cli, learned, told, down>>
    OBVIOUS
  <1>3. AskedInv' /\ DownInv'
    BY <1>1, <1>2, AskedKept, DownKept, Zenon
  <1>4. ToldInv'
    <2>1. (DevlistReply(shared))' = DevlistReply(shared')
      BY DEF DevlistReply
    <2> QED BY <1>1, <1>2, <2>1, Zenon DEF ToldInv
  <1>5. TypeInv'
    BY <1>1, <1>2, Zenon DEF TypeInv
  <1> QED BY <1>3, <1>4, <1>5, Zenon DEF ExchangeInv

\* RecvSubmit keeps the invariant.
LEMMA RecvSubmitStep ==
  ASSUME ExchangeInv, RecvSubmit
  PROVE  ExchangeInv'
  <1>1. TypeInv /\ AskedInv /\ UpInv
    BY DEF ExchangeInv
  <1>2. UNCHANGED <<down, shared, cli, asked, learned, told>>
    BY DEF RecvSubmit, clientVars
  <1> QED BY <1>1, <1>2, SubmitTaken, HeardStep, Zenon

\* RecvData keeps the invariant.
LEMMA RecvDataStep ==
  ASSUME ExchangeInv, RecvData
  PROVE  ExchangeInv'
  <1>1. TypeInv /\ AskedInv /\ UpInv
    BY DEF ExchangeInv
  <1>2. UNCHANGED <<down, shared, cli, asked, learned, told>>
    BY DEF RecvData, clientVars
  <1> QED BY <1>1, <1>2, DataTaken, HeardStep, Zenon

\* RecvUnlink keeps the invariant.
LEMMA RecvUnlinkStep ==
  ASSUME ExchangeInv, RecvUnlink
  PROVE  ExchangeInv'
  <1>1. TypeInv /\ AskedInv /\ UpInv /\ ToldInv /\ DownInv
    BY DEF ExchangeInv
  <1>2. /\ shared' = shared /\ cli' = cli /\ asked' = asked /\ learned' = learned
        /\ UNCHANGED <<shared, cli, learned>> /\ UNCHANGED <<cli, shared>>
    BY DEF RecvUnlink, clientVars
  <1>3. /\ UpInv' /\ up' \in ByteSeq /\ heard' \in Seq(Request) /\ pending' \subseteq Entries
        /\ srv.pc # "closed" /\ srv' = srv
        /\ Len(heard) >= 1 /\ Len(heard') >= 1 /\ heard'[1] = heard[1]
        /\ heard[1].op = "REQ_IMPORT"
    BY <1>1, UnlinkTaken, Zenon
  <1>4. PICK m \in Reply : m.op = "RET_UNLINK" /\ ServerSends(m, Wire(m))
    BY <1>1, UnlinkTaken, Zenon
  <1>m. m.op \in {"RET_SUBMIT", "RET_UNLINK"}
    BY <1>4
  <1>5. AskedInv'
    BY <1>1, <1>2, AskedKept, Zenon
  <1>6. /\ DownInv' /\ down' \in ByteSeq /\ told' \in Seq(Reply)
        /\ cli.pc = "closed" => told' = told
        /\ cli.pc # "closed" => /\ Len(told') = Len(told) + 1 /\ told'[Len(told) + 1] = m
                                /\ \A i \in 1 .. Len(told) : told'[i] = told[i]
    BY <1>1, <1>2, <1>3, <1>4, ServerSent, Zenon
  <1>7. ToldInv'
    BY <1>1, <1>2, <1>3, <1>m, <1>6, ToldMore
  <1>8. TypeInv'
    BY <1>1, <1>2, <1>3, <1>6, Zenon DEF TypeInv
  <1> QED BY <1>3, <1>5, <1>6, <1>7, <1>8, Zenon DEF ExchangeInv

\* DrainSend keeps the invariant: the answer that is sent is the one meant.
LEMMA DrainSendStep ==
  ASSUME ExchangeInv, NEW e \in pending, DrainSend(e)
  PROVE  ExchangeInv'
  <1>1. TypeInv /\ AskedInv /\ UpInv /\ ToldInv /\ DownInv
    BY DEF ExchangeInv
  <1>2. /\ shared' = shared /\ cli' = cli /\ asked' = asked /\ learned' = learned
        /\ UNCHANGED <<shared, cli, learned>> /\ UNCHANGED <<cli, shared>>
        /\ UNCHANGED <<up, asked, heard, srv>> /\ heard' = heard /\ srv' = srv /\ up' = up
        /\ pending' = pending \ {e} /\ srv.pc = "drain"
    BY DEF DrainSend, clientVars
  <1>3. e \in Entries /\ pending' \subseteq Entries
    BY <1>1, <1>2 DEF TypeInv
  <1>4. PICK c \in Completions(e) :
       ServerSends(ReturnMessage(c),
                   usbip_send_urb_header(urb_handler_create_return(c)) \o CompletionData(c))
    BY DEF DrainSend
  <1>5. PICK u \in Urbs, n \in Lengths, s \in Int32 :
           /\ c.seqnum = u.seqnum /\ c.devid = u.devid /\ c.direction = u.direction
           /\ c.endpoint \in {u.ep, 128 + u.ep} /\ c.start_frame = u.start_frame
           /\ c.number_of_packets = u.number_of_packets /\ c.setup = u.setup
           /\ c.actual_length = n /\ c.status = s
    BY <1>3, CompletionFacts
  <1>6. /\ ReturnMessage(c) = Return(u, n, s)
        /\ CompletionData(c) = Return(u, n, s).data
        /\ usbip_send_urb_header(urb_handler_create_return(c))
             = Bytes(NetHeader(ReturnWords(u, n, s), u.setup))
    BY <1>5, ReturnSent
  <1>m. PICK m \in Reply : m = Return(u, n, s) /\ m.op = "RET_SUBMIT"
    <2>1. Return(u, n, s) \in Reply
      BY DEF Reply
    <2>2. Return(u, n, s).op = "RET_SUBMIT"
      BY DEF Return
    <2> QED BY <2>1, <2>2, Zenon
  <1>7. ServerSends(m, Wire(m))
    <2>1. Wire(m) = Cat(Bytes(NetHeader(ReturnWords(u, n, s), u.setup)), m.data)
      BY <1>m, ReturnWire, Zenon
    <2> QED BY <1>4, <1>6, <1>m, <2>1, Zenon DEF Cat
  <1>8. m.op \in {"RET_SUBMIT", "RET_UNLINK"} /\ srv.pc # "closed"
    BY <1>m, <1>2
  <1>9. /\ DownInv' /\ down' \in ByteSeq /\ told' \in Seq(Reply)
        /\ cli.pc = "closed" => told' = told
        /\ cli.pc # "closed" => /\ Len(told') = Len(told) + 1 /\ told'[Len(told) + 1] = m
                                /\ \A i \in 1 .. Len(told) : told'[i] = told[i]
    BY <1>1, <1>2, <1>7, <1>8, ServerSent, Zenon
  <1>10. AskedInv' /\ UpInv'
    BY <1>1, <1>2, AskedKept, UpKept, Zenon
  <1>11. Len(heard) >= 1 /\ Len(heard') >= 1 /\ heard'[1] = heard[1]
           /\ heard[1].op = "REQ_IMPORT"
    BY <1>1, <1>2 DEF UpInv
  <1>12. ToldInv'
    BY <1>1, <1>2, <1>8, <1>9, <1>11, ToldMore
  <1>13. TypeInv'
    BY <1>1, <1>2, <1>3, <1>9, Zenon DEF TypeInv
  <1> QED BY <1>9, <1>10, <1>12, <1>13, Zenon DEF ExchangeInv

\* DrainDone keeps the invariant: nothing is read or sent.
LEMMA DrainDoneStep ==
  ASSUME ExchangeInv, DrainDone
  PROVE  ExchangeInv'
  <1>1. TypeInv /\ AskedInv /\ UpInv /\ ToldInv /\ DownInv
    BY DEF ExchangeInv
  <1>2. /\ srv.pc = "drain" /\ srv' = [srv EXCEPT !.pc = "urb"]
        /\ up' = up /\ heard' = heard /\ asked' = asked /\ cli' = cli /\ pending' = pending
        /\ UNCHANGED <<down, shared, cli, asked, learned, told>>
    BY DEF DrainDone, clientVars
  <1>3. srv' \in [pc : SrvPcs, header : Urbs \cup {<<>>}] /\ srv'.pc = "urb"
    BY <1>1, <1>2 DEF TypeInv, SrvPcs
  <1>4. Len(heard) >= 1 /\ heard[1].op = "REQ_IMPORT"
    BY <1>1, <1>2 DEF UpInv
  <1>5. UpRest("drain", asked, Len(heard)) = UpRest("urb", asked, Len(heard))
    BY DEF UpRest
  <1>6. UpInv'
    BY <1>1, <1>2, <1>3, <1>4, <1>5 DEF UpInv
  <1>7. /\ up' \in ByteSeq /\ heard' \in Seq(Request) /\ pending' \subseteq Entries
           /\ srv.pc # "closed"
        /\ Len(heard') >= 1 /\ heard'[1] = heard[1]
    BY <1>1, <1>2, <1>4 DEF TypeInv
  <1> QED BY <1>2, <1>3, <1>4, <1>6, <1>7, HeardStep, Zenon

\* ServerShort keeps the invariant.
LEMMA ServerShortStep ==
  ASSUME ExchangeInv, ServerShort
  PROVE  ExchangeInv'
  <1>1. TypeInv /\ AskedInv /\ UpInv /\ ToldInv /\ DownInv
    BY DEF ExchangeInv
  <1>2. /\ srv' = [srv EXCEPT !.pc = "closed"] /\ heard' = heard /\ asked' = asked /\ cli' = cli
        /\ up' = up /\ down' = down /\ shared' = shared /\ learned' = learned /\ told' = told
        /\ pending' = pending
        /\ UNCHANGED <<shared, cli, learned, told, down>> /\ UNCHANGED <<told, heard, shared>>
    BY DEF ServerShort, clientVars
  <1>3. srv' \in [pc : SrvPcs, header : Urbs \cup {<<>>}] /\ srv'.pc = "closed"
    BY <1>1, <1>2 DEF TypeInv, SrvPcs
  <1>4. AskedInv' /\ ToldInv' /\ DownInv'
    BY <1>1, <1>2, <1>3, AskedKept, ToldKept, DownKept, Zenon
  <1>5. UpInv'
    BY <1>1, <1>2, <1>3 DEF UpInv
  <1>6. TypeInv'
    BY <1>1, <1>2, <1>3, Zenon DEF TypeInv
  <1> QED BY <1>4, <1>5, <1>6, Zenon DEF ExchangeInv

\* ServerGone keeps the invariant.
LEMMA ServerGoneStep ==
  ASSUME ExchangeInv, ServerGone
  PROVE  ExchangeInv'
  <1>1. TypeInv /\ AskedInv /\ UpInv /\ ToldInv /\ DownInv
    BY DEF ExchangeInv
  <1>2. /\ srv' = [srv EXCEPT !.pc = "closed"] /\ heard' = heard /\ asked' = asked /\ cli' = cli
        /\ up' = up /\ shared' = shared /\ learned' = learned /\ told' = told
        /\ pending' = pending
        /\ UNCHANGED <<shared, cli, learned, told>> /\ UNCHANGED <<told, heard, shared>>
    BY DEF ServerGone, clientVars
  <1>3. srv' \in [pc : SrvPcs, header : Urbs \cup {<<>>}] /\ srv'.pc = "closed"
    BY <1>1, <1>2 DEF TypeInv, SrvPcs
  <1>4. PICK n \in Nat : n <= Len(down) /\ down' = SubSeq(down, 1, Len(down) - n)
    <2>1. Losses \subseteq Nat
      BY ExchangeAssumption
    <2> QED BY <2>1 DEF ServerGone
  <1>5. AskedInv' /\ ToldInv'
    BY <1>1, <1>2, AskedKept, ToldKept, Zenon
  <1>6. DownInv' /\ down' \in ByteSeq
    BY <1>1, <1>2, <1>3, <1>4, DownCut, Zenon
  <1>7. UpInv'
    BY <1>1, <1>2, <1>3 DEF UpInv
  <1>8. TypeInv'
    BY <1>1, <1>2, <1>3, <1>6, Zenon DEF TypeInv
  <1> QED BY <1>5, <1>6, <1>7, <1>8, Zenon DEF ExchangeInv

----------------------------------------------------------------------------
(* The client's steps.                                                     *)

\* A client program sends its request.
LEMMA AskStep ==
  ASSUME ExchangeInv, cli.pc = "start", NEW q, cli' = [cli EXCEPT !.pc = q],
         NEW m \in Request, ClientSends(m, Wire(m)),
         \/ q = "list" /\ m.op = "REQ_DEVLIST"
         \/ q = "import" /\ m.op = "REQ_IMPORT",
         UNCHANGED <<down, learned, serverVars>>
  PROVE  ExchangeInv'
  <1>1. TypeInv /\ AskedInv /\ UpInv /\ ToldInv /\ DownInv
    BY DEF ExchangeInv
  <1>2. /\ down' = down /\ learned' = learned /\ shared' = shared /\ srv' = srv
           /\ pending' = pending
        /\ heard' = heard /\ told' = told
        /\ UNCHANGED <<srv, heard>> /\ UNCHANGED <<told, heard, shared>>
    BY DEF serverVars
  <1>3. cli.pc # "closed"
    OBVIOUS
  <1>4. /\ UpInv' /\ asked' \in Seq(Request) /\ up' \in ByteSeq
        /\ Len(asked') = Len(asked) + 1 /\ asked'[Len(asked) + 1] = m
    BY <1>1, <1>2, <1>3, ClientSent, Zenon
  <1>5. Len(asked') = 1 /\ asked'[1] = m
    <2>1. Len(asked) = 0
      BY <1>1 DEF AskedInv
    <2> QED BY <1>4, <2>1
  <1>6. /\ cli'.pc = q /\ cli'.devices = cli.devices
        /\ cli' \in [pc : CliPcs, left : Int, devices : Seq(usb_device_t)]
    BY <1>1 DEF TypeInv, CliPcs
  <1>7. AskedInv'
    BY <1>5, <1>6 DEF AskedInv
  <1>8. ToldInv'
    BY <1>1, <1>2, <1>3, ToldKept, Zenon
  <1>9. DownInv'
    <2>1. DownLeft = Remain(told, Len(learned))
      BY DEF DownLeft, DownRest
    <2>2. DownLeft' = Remain(told, Len(learned))
      <3>1. DownLeft' = DownRest(cli'.pc, shared', Len(cli'.devices), told', Len(learned'))
        BY DEF DownLeft
      <3> QED BY <1>2, <1>6, <3>1 DEF DownRest
    <2>3. /\ Len(learned) <= Len(told)
          /\ \A i \in 1 .. Len(learned) : AgreesAt(srv.pc, learned[i], told[i])
          /\ InFlight(down, DownLeft, TRUE)
          /\ srv.pc # "closed" => down = DownLeft
          /\ Len(learned) = 0 /\ Len(cli.devices) = 0
      BY <1>1 DEF DownInv
    <2> QED BY <1>2, <1>6, <2>1, <2>2, <2>3 DEF DownInv
  <1>10. TypeInv'
    BY <1>1, <1>2, <1>4, <1>6, Zenon DEF TypeInv
  <1> QED BY <1>4, <1>7, <1>8, <1>9, <1>10, Zenon DEF ExchangeInv

\* ListRequest keeps the invariant.
LEMMA ListRequestStep ==
  ASSUME ExchangeInv, ListRequest
  PROVE  ExchangeInv'
  <1>1. /\ cli.pc = "start" /\ cli' = [cli EXCEPT !.pc = "list"]
        /\ ClientSends([op |-> "REQ_DEVLIST"],
                       Bytes(usbip_pack_header_basic(usbip_create_devlist_request)))
        /\ UNCHANGED <<down, learned, serverVars>>
    BY DEF ListRequest
  <1>2. DevlistRequest \in Request /\ DevlistRequest.op = "REQ_DEVLIST"
    BY DEF Request, DevlistRequest
  <1>3. ClientSends(DevlistRequest, Wire(DevlistRequest))
    <2>1. Bytes(usbip_pack_header_basic(usbip_create_devlist_request)) = Wire(DevlistRequest)
      BY RequestWire, Zenon
    <2> QED BY <1>1, <2>1, Zenon DEF DevlistRequest
  <1> QED BY <1>1, <1>2, <1>3, AskStep, Zenon

\* ImportRequest keeps the invariant.
LEMMA ImportRequestStep ==
  ASSUME ExchangeInv, NEW b \in Busids, ImportRequest(b)
  PROVE  ExchangeInv'
  <1>1. /\ cli.pc = "start" /\ cli' = [cli EXCEPT !.pc = "import"]
        /\ ClientSends([op |-> "REQ_IMPORT", busid |-> b],
                       Bytes(usbip_pack_header_basic(usbip_create_import_request)) \o <<b>>)
        /\ UNCHANGED <<down, learned, serverVars>>
    BY DEF ImportRequest
  <1>2. b \in Names
    <2>1. shared \in Lists
      BY DEF ExchangeInv, TypeInv
    <2>2. PICK i \in DOMAIN shared : b = shared[i].info.busid
      BY DEF Busids
    <2>3. i \in 1 .. Len(shared)
      BY <2>1, <2>2, ListFacts
    <2>4. shared[i].info \in usb_device_t
      BY <2>1, <2>3, ListFacts, Zenon
    <2> QED BY <2>2, <2>4 DEF usb_device_t
  <1>3. ImportRequestFor(b) \in Request /\ ImportRequestFor(b).op = "REQ_IMPORT"
    BY <1>2 DEF Request, ImportRequestFor
  <1>4. ClientSends(ImportRequestFor(b), Wire(ImportRequestFor(b)))
    <2>1. Bytes(usbip_pack_header_basic(usbip_create_import_request)) \o <<b>>
            = Wire(ImportRequestFor(b))
      BY <1>2, RequestWire, Zenon
    <2> QED BY <1>1, <2>1, Zenon DEF ImportRequestFor
  <1> QED BY <1>1, <1>3, <1>4, AskStep, Zenon

\* The driver sends a message.
LEMMA DriverSendStep ==
  ASSUME ExchangeInv, cli.pc = "driver", NEW m \in Request, m.op \in {"SUBMIT", "UNLINK"},
         ClientSends(m, Wire(m)), UNCHANGED <<down, cli, learned, serverVars>>
  PROVE  ExchangeInv'
  <1>1. TypeInv /\ AskedInv /\ UpInv /\ ToldInv /\ DownInv
    BY DEF ExchangeInv
  <1>2. /\ down' = down /\ learned' = learned /\ shared' = shared /\ srv' = srv
           /\ pending' = pending
        /\ heard' = heard /\ told' = told /\ cli' = cli
        /\ UNCHANGED <<srv, heard>> /\ UNCHANGED <<told, heard, shared>>
        /\ UNCHANGED <<shared, cli, learned, told, down>>
    BY DEF serverVars
  <1>3. cli.pc # "closed"
    OBVIOUS
  <1>4. /\ UpInv' /\ asked' \in Seq(Request) /\ up' \in ByteSeq
        /\ Len(asked') = Len(asked) + 1 /\ asked'[Len(asked) + 1] = m
        /\ \A i \in 1 .. Len(asked) : asked'[i] = asked[i]
    BY <1>1, <1>2, <1>3, ClientSent, Zenon
  <1>5. AskedInv'
    <2>l. PICK l \in Nat : l = Len(asked)
      BY <1>1, TypeFacts
    <2>1. /\ l >= 1 /\ asked[1].op = "REQ_IMPORT"
          /\ \A i \in 1 .. l : asked[i].op \in {"REQ_DEVLIST", "REQ_IMPORT"} <=> i = 1
      BY <1>1, <2>l DEF AskedInv
    <2>2. 1 \in 1 .. l /\ Len(asked') = l + 1 /\ l + 1 >= 1 /\ l + 1 # 1
      BY <1>4, <2>1, <2>l
    <2>3. asked'[1].op = "REQ_IMPORT"
      BY <1>4, <2>1, <2>2, <2>l, Zenon
    <2>4. m.op \notin {"REQ_DEVLIST", "REQ_IMPORT"}
      OBVIOUS
    <2>5. \A i \in 1 .. l + 1 : i \in 1 .. l \/ i = l + 1
      OBVIOUS
    <2>6. \A i \in 1 .. l + 1 : asked'[i].op \in {"REQ_DEVLIST", "REQ_IMPORT"} <=> i = 1
      BY <1>4, <2>1, <2>2, <2>4, <2>5, <2>l, Zenon
    <2> QED BY <1>2, <2>2, <2>3, <2>6 DEF AskedInv
  <1>6. ToldInv' /\ DownInv'
    BY <1>1, <1>2, <1>3, ToldKept, DownKept, Zenon
  <1>7. TypeInv'
    BY <1>1, <1>2, <1>4, Zenon DEF TypeInv
  <1> QED BY <1>4, <1>5, <1>6, <1>7, Zenon DEF ExchangeInv

\* DriverSubmit keeps the invariant.
LEMMA DriverSubmitStep ==
  ASSUME ExchangeInv, NEW u \in Urbs, DriverSubmit(u)
  PROVE  ExchangeInv'
  <1>1. SubmitMessage(u) \in Request
    BY DEF Request
  <1>2. SubmitMessage(u).op \in {"SUBMIT", "UNLINK"}
    BY DEF SubmitMessage
  <1>3. /\ cli.pc = "driver" /\ ClientSends(SubmitMessage(u), Wire(SubmitMessage(u)))
        /\ UNCHANGED <<down, cli, learned, serverVars>>
    BY DEF DriverSubmit
  <1> QED BY <1>1, <1>2, <1>3, DriverSendStep, Zenon

\* DriverUnlink keeps the invariant.
LEMMA DriverUnlinkStep ==
  ASSUME ExchangeInv, NEW u \in Urbs, DriverUnlink(u)
  PROVE  ExchangeInv'
  <1>1. UnlinkMessage(u) \in Request
    BY DEF Request
  <1>2. UnlinkMessage(u).op \in {"SUBMIT", "UNLINK"}
    BY DEF UnlinkMessage
  <1>3. /\ cli.pc = "driver" /\ ClientSends(UnlinkMessage(u), Wire(UnlinkMessage(u)))
        /\ UNCHANGED <<down, cli, learned, serverVars>>
    BY DEF DriverUnlink
  <1> QED BY <1>1, <1>2, <1>3, DriverSendStep, Zenon

\* The client takes the bytes x: it has read x, and y is what is left.
LEMMA ClientTook ==
  ASSUME TypeInv, DownInv, cli.pc # "closed", NEW x \in ByteSeq, NEW y \in ByteSeq,
         DownLeft = Cat(x, y), Len(down) >= Len(x)
  PROVE  /\ Starts(down, x)
         /\ down' = Rest(down, Len(x)) =>
              /\ down' \in ByteSeq /\ InFlight(down', y, TRUE)
              /\ srv.pc # "closed" => down' = y
  <1>1. down \in ByteSeq
    BY DEF TypeInv
  <1>2. InFlight(down, Cat(x, y), TRUE) /\ (srv.pc # "closed" => down = Cat(x, y))
    BY DEF DownInv
  <1>3. /\ Rest(down, Len(x)) \in ByteSeq /\ InFlight(Rest(down, Len(x)), y, TRUE)
        /\ Starts(down, x) /\ (down = Cat(x, y) => Rest(down, Len(x)) = y)
    BY <1>1, <1>2, TakenBoth, Zenon
  <1> QED BY <1>2, <1>3, Zenon

\* The client has bytes to read: there is a message it has not learned.
LEMMA MoreTold ==
  ASSUME TypeInv, DownInv, cli.pc \in {"list", "import", "driver"}, Len(down) >= 1
  PROVE  /\ Len(learned) < Len(told) /\ told[Len(learned) + 1] \in Reply
         /\ Len(learned) \in 0 .. Len(told) /\ Len(learned) + 1 \in 1 .. Len(told)
         /\ Wire(told[Len(learned) + 1]) \in ByteSeq
         /\ Remain(told, Len(learned) + 1) \in ByteSeq
         /\ DownLeft = Cat(Wire(told[Len(learned) + 1]), Remain(told, Len(learned) + 1))
  <1>n. PICK n \in Nat : n = Len(learned)
    BY TypeFacts
  <1>l. PICK l \in Nat : l = Len(told)
    BY TypeFacts
  <1>0. down \in ByteSeq /\ told \in Seq(Reply) /\ n <= l /\ n \in 0 .. Len(told)
    BY <1>n, <1>l DEF TypeInv, DownInv
  <1>1. cli.pc # "ndev" /\ cli.pc # "device" /\ cli.pc # "info" /\ cli.pc # "closed"
    OBVIOUS
  <1>2. DownLeft = Remain(told, n)
    BY <1>1, <1>n, Zenon DEF DownRest, DownLeft
  <1>3. InFlight(down, Remain(told, n), TRUE)
    BY <1>1, <1>2 DEF DownInv
  <1>4. Remain(told, n) \in ByteSeq /\ (n = Len(told) => Remain(told, n) = <<>>)
    BY <1>0, RemainTold, Zenon
  <1>5. Len(down) <= Len(Remain(told, n))
    BY <1>0, <1>3, <1>4, Flies, Zenon
  <1>6. n # l
    <2> SUFFICES ASSUME n = l PROVE FALSE
      OBVIOUS
    <2>1. Len(down) <= Len(<<>>)
      BY <1>l, <1>4, <1>5, Zenon
    <2>2. PICK k \in Nat : k = Len(down)
      BY TypeFacts
    <2> QED BY <2>1, <2>2
  <1>7. n < l /\ n + 1 \in 1 .. l
    BY <1>0, <1>6, <1>l
  <1>8. /\ told[n + 1] \in Reply /\ Remain(told, n + 1) \in ByteSeq
        /\ Wire(told[n + 1]) \in ByteSeq
        /\ Remain(told, n) = Cat(Wire(told[n + 1]), Remain(told, n + 1))
    BY <1>0, <1>7, <1>l, RemainTold, Zenon
  <1> QED BY <1>0, <1>2, <1>7, <1>8, <1>n, <1>l, Zenon

\* What a client that asked for the list, or for a device, is told first.
LEMMA FirstTold ==
  ASSUME ExchangeInv, Len(told) >= 1
  PROVE  /\ cli.pc \in {"list", "ndev", "device"} =>
              Len(told) = 1 /\ told[1] = DevlistReply(shared) /\ Remain(told, 1) = <<>>
         /\ cli.pc \in {"import", "info", "driver"} => told[1].op = "REP_IMPORT"
         /\ told[1] \in Reply /\ Remain(told, 1) \in ByteSeq /\ shared \in Lists
  <1>1. TypeInv /\ AskedInv /\ UpInv /\ ToldInv
    BY DEF ExchangeInv
  <1>l. PICK l \in Nat : l = Len(told)
    BY <1>1, TypeFacts
  <1>n. PICK n \in Nat : n = Len(heard)
    BY <1>1, TypeFacts
  <1>2. n >= 1 /\ 1 \in 1 .. n /\ 1 \in 1 .. l /\ 1 \in 0 .. l
    BY <1>1, <1>n, <1>l DEF ToldInv
  <1>3. heard[1] = asked[1]
    BY <1>1, <1>2, <1>n DEF UpInv
  <1>4. told \in Seq(Reply) /\ shared \in Lists
    BY <1>1 DEF TypeInv
  <1>5. told[1] \in Reply
    BY <1>2, <1>4, <1>l, MessagesFacts, Zenon
  <1>6. Remain(told, 1) \in ByteSeq /\ (1 = Len(told) => Remain(told, 1) = <<>>)
    BY <1>2, <1>4, <1>l, RemainTold, Zenon
  <1>7. ASSUME cli.pc \in {"list", "ndev", "device"}
        PROVE  Len(told) = 1 /\ told[1] = DevlistReply(shared)
    <2>1. asked[1].op = "REQ_DEVLIST"
      BY <1>1, <1>7 DEF AskedInv
    <2>2. heard[1].op # "REQ_IMPORT"
      BY <1>3, <2>1
    <2> QED BY <1>1, <2>2, Zenon DEF ToldInv
  <1>8. ASSUME cli.pc \in {"import", "info", "driver"}
        PROVE  told[1].op = "REP_IMPORT"
    <2>1. asked[1].op = "REQ_IMPORT"
      BY <1>1, <1>8 DEF AskedInv
    <2>2. heard[1].op # "REQ_DEVLIST"
      BY <1>3, <2>1
    <2> QED BY <1>1, <2>2, Zenon DEF ToldInv
  <1> QED BY <1>4, <1>5, <1>6, <1>7, <1>8, Zenon

\* A step of the client that sends nothing.
LEMMA TakeStep ==
  ASSUME ExchangeInv, UNCHANGED <<up, asked, serverVars>>, DownInv', down' \in ByteSeq,
         learned' \in Seq(Learned), cli' \in [pc : CliPcs, left : Int, devices :
           Seq(usb_device_t)],
         \/ cli.pc \in {"list", "ndev", "device"} /\ cli'.pc \in {"ndev", "device", "closed"}
         \/ cli.pc \in {"import", "info", "driver"} /\ cli'.pc \in {"info", "driver", "closed"}
  PROVE  ExchangeInv'
  <1>1. TypeInv /\ AskedInv /\ UpInv /\ ToldInv
    BY DEF ExchangeInv
  <1>2. /\ up' = up /\ asked' = asked /\ shared' = shared /\ srv' = srv /\ pending' = pending
        /\ heard' = heard /\ told' = told
        /\ UNCHANGED <<up, asked, heard, srv>> /\ UNCHANGED <<told, heard, shared>>
    BY DEF serverVars
  <1>3. cli.pc # "closed"
    OBVIOUS
  <1>4. UpInv' /\ ToldInv'
    BY <1>1, <1>2, <1>3, UpKept, ToldKept, Zenon
  <1>5. AskedInv'
    BY <1>1, <1>2 DEF AskedInv
  <1>6. TypeInv'
    BY <1>1, <1>2, Zenon DEF TypeInv
  <1> QED BY <1>4, <1>5, <1>6, Zenon DEF ExchangeInv

\* The client closes: nothing more is said of what it reads.
LEMMA DownClosed ==
  ASSUME cli'.pc = "closed", Len(learned') <= Len(told'),
         \A i \in 1 .. Len(learned') : AgreesAt(srv'.pc, learned'[i], told'[i])
  PROVE  DownInv'
  BY DEF DownInv

\* One message more is learned.
LEMMA LearnedNext ==
  ASSUME TypeInv, DownInv, told' = told, srv' = srv, Len(learned) < Len(told),
         NEW m \in Learned, AgreesAt(srv.pc, m, told[Len(learned) + 1]),
         learned' = Append(learned, m)
  PROVE  /\ learned' \in Seq(Learned) /\ Len(learned') = Len(learned) + 1
         /\ Len(learned') <= Len(told') /\ Len(learned') >= 1
         /\ \A i \in 1 .. Len(learned') : AgreesAt(srv'.pc, learned'[i], told'[i])
  <1>n. PICK n \in Nat : n = Len(learned)
    BY TypeFacts
  <1>l. PICK l \in Nat : l = Len(told)
    BY TypeFacts
  <1>1. n < l /\ n + 1 <= l /\ n + 1 >= 1
    BY <1>n, <1>l
  <1>2. learned \in Seq(Learned)
    BY DEF TypeInv
  <1>3. /\ learned' \in Seq(Learned) /\ Len(learned') = Len(learned) + 1
        /\ learned'[Len(learned) + 1] = m
           /\ \A i \in 1 .. Len(learned) : learned'[i] = learned[i]
    BY <1>2, MessagesAppend
  <1>4. \A i \in 1 .. n : AgreesAt(srv.pc, learned[i], told[i])
    BY <1>n DEF DownInv
  <1>5. \A i \in 1 .. n + 1 : i \in 1 .. n \/ i = n + 1
    OBVIOUS
  <1>6. \A i \in 1 .. n + 1 : AgreesAt(srv'.pc, learned'[i], told'[i])
    BY <1>3, <1>4, <1>5, <1>n, Zenon
  <1> QED BY <1>1, <1>3, <1>6, <1>n, <1>l, Zenon

\* ListHeader keeps the invariant: the status it reads is the one sent.
LEMMA ListHeaderStep ==
  ASSUME ExchangeInv, ListHeader
  PROVE  ExchangeInv'
  <1>1. TypeInv /\ DownInv
    BY DEF ExchangeInv
  <1>2. /\ cli.pc = "list" /\ Len(down) >= 8 /\ down' = Rest(down, 8)
        /\ cli' = [cli EXCEPT !.pc = IF Number32(usbip_recv_header_basic(down)[3]) = USBIP_ST_OK
                                     THEN "ndev" ELSE "closed"]
        /\ UNCHANGED <<up, asked, serverVars>> /\ learned' = learned
    BY DEF ListHeader, ClientTakes
  <1>3. shared' = shared /\ srv' = srv /\ told' = told
    BY <1>2 DEF serverVars
  <1>4. Len(learned) = 0 /\ Len(cli.devices) = 0
    BY <1>1, <1>2 DEF DownInv
  <1>5. Len(down) >= 1 /\ cli.pc \in {"list", "import", "driver"}
    <2>1. PICK k \in Nat : k = Len(down)
      BY <1>1, TypeFacts
    <2> QED BY <1>2, <2>1
  <1>6. Len(told) >= 1 /\ DownLeft = Cat(Wire(told[1]), Remain(told, 1))
    <2>1. PICK n \in Nat : n = Len(learned) /\ n = 0 /\ n + 1 = 1
      BY <1>4
    <2>2. PICK l \in Nat : l = Len(told)
      BY <1>1, TypeFacts
    <2>3. n < l /\ DownLeft = Cat(Wire(told[n + 1]), Remain(told, n + 1))
      BY <1>1, <1>5, <2>1, <2>2, MoreTold, Zenon
    <2>4. l >= 1
      BY <2>1, <2>3
    <2> QED BY <2>1, <2>2, <2>3, <2>4, Zenon
  <1>7. Len(told) = 1 /\ told[1] = DevlistReply(shared) /\ Remain(told, 1) \in ByteSeq
          /\ shared \in Lists
    BY <1>2, <1>6, FirstTold
  <1>8. PICK w \in ByteSeq, n \in ByteSeq, r \in ByteSeq, R \in ByteSeq :
          /\ w = WireBasic(OP_REP_DEVLIST, USBIP_ST_OK) /\ Len(w) = 8
          /\ n = Net32(Len(shared)) /\ r = Bytes(ListStruct(shared)) /\ R = Remain(told, 1)
          /\ Wire(told[1]) = Cat(Cat(w, n), r)
    BY <1>7, DevlistWire, Zenon
  <1>9. PICK q \in ByteSeq, z \in ByteSeq : q = Cat(n, r) /\ z = Cat(q, R)
    BY CatSize, Zenon
  <1>10. DownLeft = Cat(w, z)
    <2>1. Cat(Cat(w, n), r) = Cat(w, Cat(n, r))
      BY CatAssoc, Zenon
    <2>2. Cat(Cat(w, q), R) = Cat(w, Cat(q, R))
      BY CatAssoc, Zenon
    <2> QED BY <1>6, <1>8, <1>9, <2>1, <2>2, Zenon
  <1>11. /\ Starts(down, w) /\ down' \in ByteSeq /\ InFlight(down', z, TRUE)
         /\ srv.pc # "closed" => down' = z
    <2>1. cli.pc # "closed" /\ Len(down) >= Len(w) /\ down' = Rest(down, Len(w))
      BY <1>2, <1>8
    <2> QED BY <1>1, <1>10, <2>1, ClientTook, Zenon
  <1>12. Number32(usbip_recv_header_basic(down)[3]) = USBIP_ST_OK
    BY <1>8, <1>11, BasicRead, Commands, Zenon
  <1>13. cli' = [cli EXCEPT !.pc = "ndev"]
    BY <1>2, <1>12, Zenon
  <1>14. /\ cli'.pc = "ndev" /\ cli'.devices = cli.devices
         /\ cli' \in [pc : CliPcs, left : Int, devices : Seq(usb_device_t)]
    BY <1>1, <1>13 DEF TypeInv, CliPcs
  <1>15. DownLeft' = z
    <2>1. DownLeft' = DownRest(cli'.pc, shared', Len(cli'.devices), told', Len(learned'))
      BY DEF DownLeft
    <2> QED BY <1>3, <1>8, <1>9, <1>14, <2>1, Zenon DEF DownRest
  <1>16. DownInv'
    <2>1. /\ Len(learned) <= Len(told)
          /\ \A i \in 1 .. Len(learned) : AgreesAt(srv.pc, learned[i], told[i])
      BY <1>1 DEF DownInv
    <2> QED BY <1>2, <1>3, <1>4, <1>6, <1>11, <1>14, <1>15, <2>1 DEF DownInv
  <1>17. learned' \in Seq(Learned)
    BY <1>1, <1>2 DEF TypeInv
  <1>18. cli.pc \in {"list", "ndev", "device"} /\ cli'.pc \in {"ndev", "device", "closed"}
    BY <1>2, <1>14
  <1> QED BY <1>2, <1>11, <1>14, <1>16, <1>17, <1>18, TakeStep, Zenon

\* ListCount keeps the invariant: it counts the devices that were sent.
LEMMA ListCountStep ==
  ASSUME ExchangeInv, ListCount
  PROVE  ExchangeInv'
  <1>1. TypeInv /\ DownInv
    BY DEF ExchangeInv
  <1>2. /\ cli.pc = "ndev" /\ Len(down) >= 4 /\ down' = Rest(down, 4)
        /\ cli' = [cli EXCEPT !.pc = "device", !.left = Number32(swap32(SubSeq(down, 1, 4)))]
        /\ UNCHANGED <<up, asked, serverVars>> /\ learned' = learned
    BY DEF ListCount, ClientTakes
  <1>3. shared' = shared /\ srv' = srv /\ told' = told
    BY <1>2 DEF serverVars
  <1>4. Len(learned) = 0 /\ Len(cli.devices) = 0 /\ Len(told) >= 1
    BY <1>1, <1>2 DEF DownInv
  <1>7. Len(told) = 1 /\ told[1] = DevlistReply(shared) /\ Remain(told, 1) \in ByteSeq
          /\ shared \in Lists
    BY <1>2, <1>4, FirstTold
  <1>8. PICK n \in ByteSeq, r \in ByteSeq, R \in ByteSeq :
          /\ n = Net32(Len(shared)) /\ Len(n) = 4
          /\ r = Bytes(ListStruct(shared)) /\ R = Remain(told, 1)
    BY <1>7, DevlistWire, Zenon
  <1>9. PICK z \in ByteSeq : z = Cat(r, R)
    BY CatSize, Zenon
  <1>10. DownLeft = Cat(n, z)
    <2>1. DownLeft = Cat(Cat(n, r), R)
      BY <1>2, <1>8, Zenon DEF DownLeft, DownRest
    <2>2. Cat(Cat(n, r), R) = Cat(n, z)
      BY <1>9, CatAssoc, Zenon
    <2> QED BY <2>1, <2>2, Zenon
  <1>11. /\ Starts(down, n) /\ down' \in ByteSeq /\ InFlight(down', z, TRUE)
         /\ srv.pc # "closed" => down' = z
    <2>1. cli.pc # "closed" /\ Len(down) >= Len(n) /\ down' = Rest(down, Len(n))
      BY <1>2, <1>8
    <2> QED BY <1>1, <1>10, <2>1, ClientTook, Zenon
  <1>12. SubSeq(down, 1, 4) = n
    <2>1. \A j \in 1 .. 4 : down[j] = n[j]
      BY <1>8, <1>11, Zenon DEF Starts
    <2>2. \A j \in 1 .. 4 : 0 + j = j
      OBVIOUS
    <2>3. \A j \in 1 .. Len(n) : down[0 + j] = n[j]
      BY <1>8, <2>1, <2>2, Zenon
    <2>4. 0 \in Nat /\ 0 + 1 = 1 /\ 0 + 4 = 4
      OBVIOUS
    <2>5. SubSeq(down, 0 + 1, 0 + Len(n)) = n
      BY <2>3, <2>4, SubSeqIs, Zenon
    <2> QED BY <1>8, <2>4, <2>5, Zenon
  <1>13. Number32(swap32(SubSeq(down, 1, 4))) = Len(shared)
    <2>1. Len(shared) \in Int32
      BY <1>7, ListFacts, Zenon
    <2>2. swap32(Net32(Len(shared))) = Host32(Len(shared))
            /\ Number32(Host32(Len(shared))) = Len(shared)
      BY <2>1, WordForms, Zenon
    <2> QED BY <1>8, <1>12, <2>2, Zenon
  <1>14. Len(shared) \in Nat
    BY <1>7, ListFacts, Zenon
  <1>15. /\ cli'.pc = "device" /\ cli'.devices = cli.devices /\ cli'.left = Len(shared)
         /\ cli' \in [pc : CliPcs, left : Int, devices : Seq(usb_device_t)]
    <2>1. cli' = [cli EXCEPT !.pc = "device", !.left = Len(shared)]
      BY <1>2, <1>13, Zenon
    <2>2. cli \in [pc : CliPcs, left : Int, devices : Seq(usb_device_t)]
      BY <1>1 DEF TypeInv
    <2>3. "device" \in CliPcs /\ Len(shared) \in Int
      BY <1>14 DEF CliPcs
    <2> QED BY <2>1, <2>2, <2>3
  <1>16. DownLeft' = z
    <2>1. DownLeft' = DownRest(cli'.pc, shared', Len(cli'.devices), told', Len(learned'))
      BY DEF DownLeft
    <2>2. ListStruct(shared) \in Struct
      BY <1>7, ListStructFacts, Zenon
    <2>3. Rest(ListStruct(shared), 0) = ListStruct(shared)
      BY <2>2, BytesOfNone, Zenon
    <2>4. DownLeft' = DownRest("device", shared, 0, told, Len(learned))
      BY <1>2, <1>3, <1>4, <1>15, <2>1, Zenon
    <2>5. "device" # "ndev"
      OBVIOUS
    <2> QED BY <1>8, <1>9, <2>3, <2>4, <2>5, Zenon DEF DownRest
  <1>17. DownInv'
    <2>1. /\ Len(learned) <= Len(told)
          /\ \A i \in 1 .. Len(learned) : AgreesAt(srv.pc, learned[i], told[i])
      BY <1>1 DEF DownInv
    <2>2. /\ Len(cli'.devices) = 0 /\ 0 <= Len(shared) /\ 0 <= MAX_DEVICES
          /\ Len(shared) = Len(shared) - 0 /\ \A i \in 1 .. 0 : FALSE
      BY <1>4, <1>14, <1>15, ExchangeAssumption
    <2>3. cli'.pc = "device" =>
            /\ Len(cli'.devices) <= Len(shared') /\ Len(cli'.devices) <= MAX_DEVICES
            /\ cli'.left = Len(shared') - Len(cli'.devices)
            /\ \A i \in 1 .. Len(cli'.devices) : cli'.devices[i] = shared'[i].info
      BY <1>3, <1>15, <2>2, Zenon
    <2> QED BY <1>2, <1>3, <1>4, <1>11, <1>15, <1>16, <2>1, <2>3 DEF DownInv
  <1>18. learned' \in Seq(Learned)
    BY <1>1, <1>2 DEF TypeInv
  <1>19. cli.pc \in {"list", "ndev", "device"} /\ cli'.pc \in {"ndev", "device", "closed"}
    BY <1>2, <1>15
  <1> QED BY <1>2, <1>11, <1>15, <1>17, <1>18, <1>19, TakeStep, Zenon

\* The next device of the list: where it is, and what the client reads there.
LEMMA NextListed ==
  ASSUME ExchangeInv, cli.pc = "device", cli.left > 0
  PROVE  /\ Len(cli.devices) \in Nat /\ Len(cli.devices) + 1 \in 1 .. Len(shared)
         /\ \E v \in ByteSeq, z \in ByteSeq, d \in usb_device_t :
              /\ d = shared[Len(cli.devices) + 1].info /\ d.num_interfaces \in Nat
              /\ DownLeft = Cat(v, z) /\ Len(v) = 26 + 4 * d.num_interfaces
              /\ z = Cat(Bytes(Rest(ListStruct(shared), Len(cli.devices) + 1)), Remain(told, 1))
              /\ Len(down) >= 26 => NextDevice = d
  <1>1. TypeInv /\ DownInv
    BY DEF ExchangeInv
  <1>2. Len(told) >= 1 /\ Len(cli.devices) <= Len(shared)
          /\ cli.left = Len(shared) - Len(cli.devices)
    BY <1>1 DEF DownInv
  <1>3. shared \in Lists /\ Remain(told, 1) \in ByteSeq
    BY <1>2, FirstTold, Zenon
  <1>k. PICK k \in Nat : k = Len(cli.devices)
    <2>1. cli.devices \in Seq(usb_device_t)
      BY <1>1, TypeFacts
    <2> QED BY <2>1, MessagesFacts, Zenon
  <1>l. PICK l \in Nat : l = Len(shared)
    BY <1>3, ListFacts
  <1>4. k < l /\ k + 1 \in 1 .. l /\ k + 1 \in 0 .. l
    BY <1>2, <1>k, <1>l
  <1>5. PICK s \in Struct : s = ListStruct(shared) /\ Len(s) = l
    BY <1>3, <1>l, ListStructFacts, Zenon
  <1>6. PICK d \in usb_device_t, w \in ByteSeq, x \in ByteSeq :
          /\ d = shared[k + 1].info /\ w = WireDevice(d) /\ s[k + 1] = Cat(w, x)
          /\ Len(w) = 26 /\ d.num_interfaces \in Nat
             /\ Len(s[k + 1]) = 26 + 4 * d.num_interfaces
    <2> DEFINE d == shared[k + 1].info
               x == Bytes(shared[k + 1].interfaces)
    <2>1. /\ ListStruct(shared)[k + 1] = Cat(WireDevice(d), x)
          /\ d \in usb_device_t /\ WireDevice(d) \in ByteSeq /\ x \in ByteSeq
          /\ Len(WireDevice(d)) = 26 /\ d.num_interfaces \in Nat
          /\ Len(ListStruct(shared)[k + 1]) = 26 + 4 * d.num_interfaces
      BY <1>3, <1>4, <1>l, ListStructFacts
    <2> QED BY <1>5, <2>1, Zenon
  <1>7. PICK v \in ByteSeq, b \in ByteSeq :
          /\ v = s[k + 1] /\ b = Bytes(Rest(s, k + 1)) /\ Bytes(Rest(s, k)) = Cat(v, b)
    <2>1. /\ s[k + 1] \in ByteSeq /\ Rest(s, k + 1) \in Struct
          /\ Bytes(Rest(s, k)) = Cat(s[k + 1], Bytes(Rest(s, k + 1)))
      BY <1>4, <1>5, BytesOfRest, Zenon
    <2>2. Bytes(Rest(s, k + 1)) \in ByteSeq
      BY <2>1, BytesType, Zenon
    <2> QED BY <2>1, <2>2, Zenon
  <1>8. PICK R \in ByteSeq, z \in ByteSeq : R = Remain(told, 1) /\ z = Cat(b, R)
    BY <1>3, CatSize, Zenon
  <1>9. DownLeft = Cat(v, z)
    <2>x. cli.pc # "ndev"
      OBVIOUS
    <2>1. DownLeft = Cat(Cat(v, b), R)
      BY <1>k, <1>5, <1>7, <1>8, <2>x, Zenon DEF DownLeft, DownRest
    <2>2. Cat(Cat(v, b), R) = Cat(v, Cat(b, R))
      BY CatAssoc, Zenon
    <2> QED BY <1>8, <2>1, <2>2, Zenon
  <1>10. ASSUME Len(down) >= 26 PROVE NextDevice = d
    <2>1. PICK y \in ByteSeq : y = Cat(x, z)
      BY CatSize, Zenon
    <2>2. Cat(Cat(w, x), z) = Cat(w, Cat(x, z))
      BY <1>6, <1>8, CatAssoc
    <2>3. DownLeft = Cat(w, y)
      BY <1>6, <1>7, <1>9, <2>1, <2>2, Zenon
    <2>4. cli.pc # "closed" /\ Len(down) >= Len(w)
      BY <1>6, <1>10
    <2>5. Starts(down, w)
      BY <1>1, <2>3, <2>4, ClientTook, Zenon
    <2> QED BY <1>6, <2>5, DeviceRead, Zenon DEF NextDevice
  <1>11. z = Cat(Bytes(Rest(ListStruct(shared), k + 1)), Remain(told, 1))
           /\ Len(v) = 26 + 4 * d.num_interfaces
    BY <1>5, <1>6, <1>7, <1>8, Zenon
  <1> QED BY <1>4, <1>6, <1>9, <1>10, <1>11, <1>k, <1>l, Zenon

\* ListDevice keeps the invariant: it reads the next device, and skips as many
\* interfaces as were sent.
LEMMA ListDeviceStep ==
  ASSUME ExchangeInv, ListDevice
  PROVE  ExchangeInv'
  <1>1. TypeInv /\ DownInv
    BY DEF ExchangeInv
  <1>2. /\ cli.pc = "device" /\ cli.left > 0 /\ Len(cli.devices) < MAX_DEVICES
        /\ Len(down) >= 26 /\ Len(down) >= 26 + 4 * NextDevice.num_interfaces
        /\ down' = Rest(down, 26 + 4 * NextDevice.num_interfaces)
        /\ cli' = [cli EXCEPT !.left = @ - 1, !.devices = Append(@, NextDevice)]
        /\ UNCHANGED <<up, asked, serverVars>> /\ learned' = learned
    BY DEF ListDevice, ClientTakes, More, Whole, DeviceSize
  <1>3. shared' = shared /\ srv' = srv /\ told' = told
    BY <1>2 DEF serverVars
  <1>k. PICK k \in Nat : k = Len(cli.devices) /\ k + 1 \in 1 .. Len(shared)
    BY <1>2, NextListed, Zenon
  <1>4. PICK v \in ByteSeq, z \in ByteSeq, d \in usb_device_t :
              /\ d = shared[k + 1].info /\ d.num_interfaces \in Nat
              /\ DownLeft = Cat(v, z) /\ Len(v) = 26 + 4 * d.num_interfaces
              /\ z = Cat(Bytes(Rest(ListStruct(shared), k + 1)), Remain(told, 1))
              /\ NextDevice = d
    BY <1>2, <1>k, NextListed, Zenon
  <1>5. /\ down' \in ByteSeq /\ InFlight(down', z, TRUE)
        /\ srv.pc # "closed" => down' = z
    <2>1. cli.pc # "closed" /\ Len(down) >= Len(v) /\ down' = Rest(down, Len(v))
      BY <1>2, <1>4, Zenon
    <2> QED BY <1>1, <1>4, <2>1, ClientTook, Zenon
  <1>6. cli' = [cli EXCEPT !.left = cli.left - 1, !.devices = Append(cli.devices, d)]
    BY <1>2, <1>4, Zenon
  <1>7. cli \in [pc : CliPcs, left : Int, devices : Seq(usb_device_t)]
          /\ cli.devices \in Seq(usb_device_t)
    BY <1>1 DEF TypeInv
  <1>8. PICK ds \in Seq(usb_device_t) :
          /\ ds = Append(cli.devices, d) /\ Len(ds) = k + 1 /\ ds[k + 1] = d
          /\ \A i \in 1 .. k : ds[i] = cli.devices[i]
    <2>1. /\ Append(cli.devices, d) \in Seq(usb_device_t)
          /\ Len(Append(cli.devices, d)) = Len(cli.devices) + 1
          /\ Append(cli.devices, d)[Len(cli.devices) + 1] = d
          /\ \A i \in 1 .. Len(cli.devices) : Append(cli.devices, d)[i] = cli.devices[i]
      BY <1>7, MessagesAppend
    <2> QED BY <1>k, <2>1, Zenon
  <1>9. /\ cli'.pc = "device" /\ cli'.devices = ds /\ cli'.left = cli.left - 1
        /\ cli' \in [pc : CliPcs, left : Int, devices : Seq(usb_device_t)]
    <2>1. cli.left - 1 \in Int
      BY <1>7
    <2> QED BY <1>2, <1>6, <1>7, <1>8, <2>1
  <1>10. DownLeft' = z
    <2>1. DownLeft' = DownRest(cli'.pc, shared', Len(cli'.devices), told', Len(learned'))
      BY DEF DownLeft
    <2>x. "device" # "ndev"
      OBVIOUS
    <2> QED BY <1>3, <1>4, <1>8, <1>9, <2>1, <2>x, Zenon DEF DownRest
  <1>11. /\ Len(cli'.devices) <= Len(shared') /\ Len(cli'.devices) <= MAX_DEVICES
         /\ cli'.left = Len(shared') - Len(cli'.devices)
         /\ \A i \in 1 .. Len(cli'.devices) : cli'.devices[i] = shared'[i].info
    <2>l. PICK l \in Nat : l = Len(shared)
      BY <1>1, ListFacts DEF TypeInv
    <2>m. PICK m \in Nat : m = MAX_DEVICES
      BY ExchangeAssumption
    <2>1. k < m /\ cli.left = l - k
      BY <1>1, <1>2, <1>k, <2>l, <2>m DEF DownInv
    <2>2. k + 1 <= l /\ k + 1 <= m /\ cli.left - 1 = l - (k + 1)
      BY <1>k, <2>1, <2>l
    <2>3. \A i \in 1 .. k : cli.devices[i] = shared[i].info
      BY <1>1, <1>2, <1>k DEF DownInv
    <2>4. \A i \in 1 .. k + 1 : i \in 1 .. k \/ i = k + 1
      OBVIOUS
    <2>5. \A i \in 1 .. k + 1 : ds[i] = shared[i].info
      BY <1>4, <1>8, <2>3, <2>4, Zenon
    <2> QED BY <1>3, <1>8, <1>9, <2>2, <2>5, <2>l, <2>m, Zenon
  <1>12. DownInv'
    <2>1. /\ Len(learned) <= Len(told) /\ Len(learned) = 0 /\ Len(told) >= 1
          /\ \A i \in 1 .. Len(learned) : AgreesAt(srv.pc, learned[i], told[i])
      BY <1>1, <1>2 DEF DownInv
    <2> QED BY <1>2, <1>3, <1>5, <1>9, <1>10, <1>11, <2>1 DEF DownInv
  <1>13. learned' \in Seq(Learned)
    BY <1>1, <1>2 DEF TypeInv
  <1>14. cli.pc \in {"list", "ndev", "device"} /\ cli'.pc \in {"ndev", "device", "closed"}
    BY <1>2, <1>9
  <1> QED BY <1>2, <1>5, <1>9, <1>12, <1>13, <1>14, TakeStep, Zenon

\* ListEnds keeps the invariant: all devices, a full table, or the server is gone.
LEMMA ListEndsStep ==
  ASSUME ExchangeInv, ListEnds
  PROVE  ExchangeInv'
  <1>1. TypeInv /\ DownInv
    BY DEF ExchangeInv
  <1> DEFINE last == IF More /\ Len(down) >= DeviceSize THEN <<NextDevice>> ELSE <<>>
             ds == cli.devices \o last
  <1>2. /\ cli.pc = "device" /\ (More => srv.pc = "closed")
        /\ learned' = Append(learned, DevlistReply(ds))
        /\ cli' = [cli EXCEPT !.pc = "closed"]
        /\ down' = down /\ UNCHANGED <<up, asked, serverVars>>
    BY DEF ListEnds, Learn, DevlistReply
  <1>3. shared' = shared /\ srv' = srv /\ told' = told
    BY <1>2 DEF serverVars
  <1>4. /\ Len(learned) = 0 /\ Len(told) >= 1
        /\ \A i \in 1 .. Len(cli.devices) : cli.devices[i] = shared[i].info
        /\ cli.left = Len(shared) - Len(cli.devices)
        /\ Len(cli.devices) <= Len(shared) /\ Len(cli.devices) <= MAX_DEVICES
    BY <1>1, <1>2 DEF DownInv
  <1>5. told[1] = DevlistReply(shared) /\ shared \in Lists
    BY <1>2, <1>4, FirstTold
  <1>l. PICK l \in Nat : l = Len(shared)
    BY <1>5, ListFacts
  <1>c. cli \in [pc : CliPcs, left : Int, devices : Seq(usb_device_t)]
          /\ cli.devices \in Seq(usb_device_t)
    BY <1>1 DEF TypeInv
  <1>k. PICK k \in Nat : k = Len(cli.devices)
    BY <1>c, MessagesFacts, Zenon
  <1>6. /\ ds \in Seq(usb_device_t) /\ Len(ds) \in Nat /\ Len(ds) <= l
        /\ \A i \in 1 .. Len(ds) : ds[i] = shared[i].info
        /\ srv.pc # "closed" => Len(ds) = l \/ Len(ds) = MAX_DEVICES
    <2>1. CASE More /\ Len(down) >= DeviceSize
      <3>1. cli.left > 0 /\ Len(down) >= 26
        BY <2>1 DEF More, DeviceSize
      <3>2. PICK d \in usb_device_t : d = shared[k + 1].info /\ NextDevice = d
                   /\ k + 1 \in 1 .. l
        BY <1>2, <1>k, <1>l, <3>1, NextListed, Zenon
      <3>3. last = <<d>>
        BY <2>1, <3>2
      <3> HIDE DEF last
      <3>4. ds = Append(cli.devices, d)
        BY <1>c, <3>3, AppendIsConcat DEF ds
      <3> HIDE DEF ds
      <3>5. /\ ds \in Seq(usb_device_t) /\ Len(ds) = k + 1 /\ ds[k + 1] = d
            /\ \A i \in 1 .. k : ds[i] = cli.devices[i]
        <4>1. /\ Append(cli.devices, d) \in Seq(usb_device_t)
              /\ Len(Append(cli.devices, d)) = Len(cli.devices) + 1
              /\ Append(cli.devices, d)[Len(cli.devices) + 1] = d
              /\ \A i \in 1 .. Len(cli.devices) : Append(cli.devices, d)[i] = cli.devices[i]
          BY <1>c, MessagesAppend
        <4> QED BY <1>k, <3>4, <4>1, Zenon
      <3>6. \A i \in 1 .. k + 1 : i \in 1 .. k \/ i = k + 1
        OBVIOUS
      <3>7. \A i \in 1 .. k + 1 : ds[i] = shared[i].info
        BY <1>4, <1>k, <3>2, <3>5, <3>6, Zenon
      <3>8. k + 1 \in Nat /\ k + 1 <= l
        BY <3>2
      <3> QED BY <1>2, <2>1, <3>5, <3>7, <3>8, Zenon
    <2>2. CASE ~(More /\ Len(down) >= DeviceSize)
      <3>1. last = <<>>
        BY <2>2
      <3> HIDE DEF last
      <3>2. ds = cli.devices
        BY <1>c, <3>1, ConcatEmptySeq DEF ds
      <3> HIDE DEF ds
      <3>3. srv.pc # "closed" => k = l \/ k = MAX_DEVICES
        <4> SUFFICES ASSUME srv.pc # "closed" PROVE k = l \/ k = MAX_DEVICES
          OBVIOUS
        <4>1. ~(cli.left > 0 /\ k < MAX_DEVICES)
          BY <1>2, <1>k DEF More
        <4>2. PICK m \in Nat : m = MAX_DEVICES
          BY ExchangeAssumption
        <4> QED BY <1>4, <1>k, <1>l, <4>1, <4>2
      <3> QED BY <1>4, <1>c, <1>k, <1>l, <3>2, <3>3
    <2> QED BY <2>1, <2>2
  <1> HIDE DEF ds
  <1>7. DevlistReply(ds) \in Learned
    BY <1>6 DEF Learned
  <1>8. AgreesAt(srv.pc, DevlistReply(ds), told[Len(learned) + 1])
    <2>1. told[Len(learned) + 1] = DevlistReply(shared)
      <3>1. Len(learned) + 1 = 1
        BY <1>4
      <3> QED BY <1>5, <3>1, Zenon
    <2>2. DOMAIN ds = 1 .. Len(ds)
      BY <1>6
    <2>3. /\ DevlistReply(ds).op = "REP_DEVLIST" /\ DevlistReply(ds).devices = ds
          /\ DevlistReply(shared).op = "REP_DEVLIST" /\ DevlistReply(shared).devices = shared
      BY DEF DevlistReply
    <2> QED BY <1>6, <1>l, <2>1, <2>2, <2>3, Zenon DEF AgreesAt
  <1>9. Len(learned) < Len(told)
    <2>1. PICK j \in Nat : j = Len(told)
      BY <1>1, TypeFacts
    <2> QED BY <1>4, <2>1
  <1>10. /\ learned' \in Seq(Learned) /\ Len(learned') <= Len(told')
         /\ \A i \in 1 .. Len(learned') : AgreesAt(srv'.pc, learned'[i], told'[i])
    BY <1>1, <1>2, <1>3, <1>7, <1>8, <1>9, LearnedNext, Zenon
  <1>11. /\ cli'.pc = "closed"
         /\ cli' \in [pc : CliPcs, left : Int, devices : Seq(usb_device_t)]
    BY <1>2, <1>c DEF CliPcs
  <1>12. DownInv'
    BY <1>10, <1>11, DownClosed, Zenon
  <1>13. down' \in ByteSeq
    BY <1>1, <1>2 DEF TypeInv
  <1>14. cli.pc \in {"list", "ndev", "device"} /\ cli'.pc \in {"ndev", "device", "closed"}
    BY <1>2, <1>11
  <1> QED BY <1>2, <1>10, <1>11, <1>12, <1>13, <1>14, TakeStep, Zenon

\* ImportHeader keeps the invariant: granted or refused as the server meant.
LEMMA ImportHeaderStep ==
  ASSUME ExchangeInv, ImportHeader
  PROVE  ExchangeInv'
  <1>1. TypeInv /\ DownInv
    BY DEF ExchangeInv
  <1> DEFINE status == Number32(usbip_recv_header_basic(down)[3])
  <1>2. /\ cli.pc = "import" /\ Len(down) >= 8 /\ down' = Rest(down, 8)
        /\ status = USBIP_ST_OK => cli' = [cli EXCEPT !.pc = "info"] /\ learned' = learned
        /\ status # USBIP_ST_OK => /\ cli' = [cli EXCEPT !.pc = "closed"]
                                   /\ learned' = Append(learned, ImportRefused(status))
        /\ UNCHANGED <<up, asked, serverVars>>
    BY DEF ImportHeader, ClientTakes, Learn, ImportRefused
  <1> HIDE DEF status
  <1>3. shared' = shared /\ srv' = srv /\ told' = told
    BY <1>2 DEF serverVars
  <1>4. Len(learned) = 0
    BY <1>1, <1>2 DEF DownInv
  <1>c. cli \in [pc : CliPcs, left : Int, devices : Seq(usb_device_t)]
    BY <1>1 DEF TypeInv
  <1>5. Len(down) >= 1 /\ cli.pc \in {"list", "import", "driver"}
    <2>1. PICK k \in Nat : k = Len(down)
      BY <1>1, TypeFacts
    <2> QED BY <1>2, <2>1
  <1>6. Len(told) >= 1 /\ Len(learned) < Len(told)
          /\ DownLeft = Cat(Wire(told[1]), Remain(told, 1))
    <2>1. PICK n \in Nat : n = Len(learned) /\ n = 0 /\ n + 1 = 1
      BY <1>4
    <2>2. PICK l \in Nat : l = Len(told)
      BY <1>1, TypeFacts
    <2>3. n < l /\ DownLeft = Cat(Wire(told[n + 1]), Remain(told, n + 1))
      BY <1>1, <1>5, <2>1, <2>2, MoreTold, Zenon
    <2>4. l >= 1
      BY <2>1, <2>3
    <2> QED BY <2>1, <2>2, <2>3, <2>4, Zenon
  <1>7. told[1].op = "REP_IMPORT" /\ told[1] \in Reply /\ Remain(told, 1) \in ByteSeq
    BY <1>2, <1>6, FirstTold
  <1>r. PICK R \in ByteSeq : R = Remain(told, 1)
    BY <1>7
  <1>g. cli.pc # "closed"
    BY <1>2
  <1>8. CASE \E d \in usb_device_t : told[1] = ImportDone(d)
    <2>1. PICK d \in usb_device_t : told[1] = ImportDone(d)
      BY <1>8
    <2>2. PICK w \in ByteSeq, v \in ByteSeq :
            /\ w = WireBasic(OP_REP_IMPORT, USBIP_ST_OK) /\ Len(w) = 8 /\ v = WireDevice(d)
            /\ Wire(told[1]) = Cat(w, v)
      BY <2>1, ImportDoneWire, Zenon
    <2>3. PICK z \in ByteSeq : z = Cat(v, R)
      BY CatSize, Zenon
    <2>4. DownLeft = Cat(w, z)
      <3>1. Cat(Cat(w, v), R) = Cat(w, Cat(v, R))
        BY <2>2, CatAssoc
      <3> QED BY <1>6, <1>r, <2>2, <2>3, <3>1, Zenon
    <2>5. /\ Starts(down, w) /\ down' \in ByteSeq /\ InFlight(down', z, TRUE)
          /\ srv.pc # "closed" => down' = z
      <3>1. Len(down) >= Len(w) /\ down' = Rest(down, Len(w))
        BY <1>2, <2>2
      <3> QED BY <1>1, <1>g, <2>4, <3>1, ClientTook, Zenon
    <2>6. status = USBIP_ST_OK
      BY <2>2, <2>5, BasicRead, Commands, Zenon DEF status
    <2>7. cli' = [cli EXCEPT !.pc = "info"] /\ learned' = learned
      BY <1>2, <2>6
    <2>8. cli'.pc = "info" /\ cli' \in [pc : CliPcs, left : Int, devices : Seq(usb_device_t)]
      BY <1>c, <2>7 DEF CliPcs
    <2>9. DownLeft' = z
      <3>1. DownLeft' = DownRest(cli'.pc, shared', Len(cli'.devices), told', Len(learned'))
        BY DEF DownLeft
      <3>2. told'[1].device = d
        BY <1>3, <2>1 DEF ImportDone
      <3>x. "info" # "ndev" /\ "info" # "device"
        OBVIOUS
      <3> QED BY <1>3, <1>r, <2>2, <2>3, <2>8, <3>1, <3>2, <3>x, Zenon DEF DownRest
    <2>10. DownInv'
      <3>1. /\ Len(learned) <= Len(told)
            /\ \A i \in 1 .. Len(learned) : AgreesAt(srv.pc, learned[i], told[i])
        BY <1>1 DEF DownInv
      <3>2. (\E e \in usb_device_t : told[1] = ImportDone(e))' <=> \E e \in usb_device_t :
              told'[1] = ImportDone(e)
        BY DEF ImportDone
      <3>3. \E e \in usb_device_t : told'[1] = ImportDone(e)
        BY <1>3, <2>1
      <3> QED BY <1>3, <1>4, <1>6, <2>5, <2>7, <2>8, <2>9, <3>1, <3>2, <3>3 DEF DownInv
    <2>11. learned' \in Seq(Learned)
      BY <1>1, <2>7 DEF TypeInv
    <2>12. cli.pc \in {"import", "info", "driver"} /\ cli'.pc \in {"info", "driver", "closed"}
      BY <1>2, <2>8
    <2> QED BY <1>2, <2>5, <2>8, <2>10, <2>11, <2>12, TakeStep, Zenon
  <1>9. CASE \E s \in Refusals : told[1] = ImportRefused(s)
    <2>1. PICK s \in Refusals : told[1] = ImportRefused(s)
      BY <1>9
    <2>2. PICK w \in ByteSeq :
            w = WireBasic(OP_REP_IMPORT, s) /\ Len(w) = 8 /\ Wire(told[1]) = w
      BY <2>1, ImportRefusedWire, Zenon
    <2>4. DownLeft = Cat(w, R)
      BY <1>6, <1>r, <2>2, Zenon
    <2>5. Starts(down, w) /\ down' \in ByteSeq
      <3>1. Len(down) >= Len(w) /\ down' = Rest(down, Len(w))
        BY <1>2, <2>2
      <3> QED BY <1>1, <1>g, <2>4, <3>1, ClientTook, Zenon
    <2>6. status = s /\ s # USBIP_ST_OK
      <3>1. s \in Int32 /\ s # USBIP_ST_OK
        BY Commands, Zenon
      <3> QED BY <2>2, <2>5, <3>1, BasicRead, Commands, Zenon DEF status
    <2>7. cli' = [cli EXCEPT !.pc = "closed"] /\ learned' = Append(learned, ImportRefused(s))
      BY <1>2, <2>6
    <2>8. cli'.pc = "closed" /\ cli' \in [pc : CliPcs, left : Int, devices : Seq(usb_device_t)]
      BY <1>c, <2>7 DEF CliPcs
    <2>9. ImportRefused(s) \in Learned
      BY DEF Learned, Reply
    <2>10. AgreesAt(srv.pc, ImportRefused(s), told[Len(learned) + 1])
      <3>1. Len(learned) + 1 = 1
        BY <1>4
      <3>2. told[1].op # "REP_DEVLIST"
        BY <1>7
      <3> QED BY <2>1, <3>1, <3>2, Zenon DEF AgreesAt
    <2>11. /\ learned' \in Seq(Learned) /\ Len(learned') <= Len(told')
           /\ \A i \in 1 .. Len(learned') : AgreesAt(srv'.pc, learned'[i], told'[i])
      BY <1>1, <1>3, <1>6, <2>7, <2>9, <2>10, LearnedNext, Zenon
    <2>12. DownInv'
      BY <2>8, <2>11, DownClosed, Zenon
    <2>13. cli.pc \in {"import", "info", "driver"} /\ cli'.pc \in {"info", "driver", "closed"}
      BY <1>2, <2>8
    <2> QED BY <1>2, <2>5, <2>8, <2>11, <2>12, <2>13, TakeStep, Zenon
  <1> QED BY <1>7, <1>8, <1>9, ReplyCases, Zenon

\* ImportDevice keeps the invariant: it reads the device that was sent.
LEMMA ImportDeviceStep ==
  ASSUME ExchangeInv, ImportDevice
  PROVE  ExchangeInv'
  <1>1. TypeInv /\ DownInv
    BY DEF ExchangeInv
  <1>2. /\ cli.pc = "info" /\ Len(down) >= 26 /\ down' = Rest(down, 26)
        /\ cli' = [cli EXCEPT !.pc = "driver"]
        /\ learned' = Append(learned, ImportDone(NextDevice))
        /\ UNCHANGED <<up, asked, serverVars>>
    BY DEF ImportDevice, ClientTakes, Learn, ImportDone, DeviceSize
  <1>3. shared' = shared /\ srv' = srv /\ told' = told
    BY <1>2 DEF serverVars
  <1>4. /\ Len(learned) = 0 /\ Len(told) >= 1 /\ cli.pc # "closed"
        /\ \E d \in usb_device_t : told[1] = ImportDone(d)
    BY <1>1, <1>2 DEF DownInv
  <1>5. PICK d \in usb_device_t : told[1] = ImportDone(d) /\ told[1].device = d
    <2>1. PICK d \in usb_device_t : told[1] = ImportDone(d)
      BY <1>4
    <2>2. ImportDone(d).device = d
      BY DEF ImportDone
    <2> QED BY <2>1, <2>2, Zenon
  <1>6. PICK v \in ByteSeq, R \in ByteSeq :
          v = WireDevice(d) /\ Len(v) = 26 /\ R = Remain(told, 1) /\ told[1] \in Reply
    <2>1. Remain(told, 1) \in ByteSeq /\ told[1] \in Reply
      BY <1>4, FirstTold, Zenon
    <2> QED BY <2>1, ImportDoneWire, Zenon
  <1>7. DownLeft = Cat(v, R)
    <2>x. cli.pc # "ndev" /\ cli.pc # "device"
      BY <1>2
    <2> QED BY <1>2, <1>5, <1>6, <2>x, Zenon DEF DownLeft, DownRest
  <1>8. /\ Starts(down, v) /\ down' \in ByteSeq /\ InFlight(down', R, TRUE)
        /\ srv.pc # "closed" => down' = R
    <2>1. Len(down) >= Len(v) /\ down' = Rest(down, Len(v))
      BY <1>2, <1>6
    <2> QED BY <1>1, <1>4, <1>7, <2>1, ClientTook, Zenon
  <1>9. NextDevice = d
    BY <1>6, <1>8, DeviceRead, Zenon DEF NextDevice
  <1>10. cli'.pc = "driver" /\ cli' \in [pc : CliPcs, left : Int, devices : Seq(usb_device_t)]
    BY <1>1, <1>2 DEF CliPcs, TypeInv
  <1>11. ImportDone(d) \in Learned /\ learned' = Append(learned, ImportDone(d))
    BY <1>2, <1>9 DEF Learned, Reply
  <1>12. AgreesAt(srv.pc, ImportDone(d), told[Len(learned) + 1])
    <2>1. Len(learned) + 1 = 1
      BY <1>4
    <2>2. told[1].op # "REP_DEVLIST"
      BY <1>5 DEF ImportDone
    <2> QED BY <1>5, <2>1, <2>2, Zenon DEF AgreesAt
  <1>13. Len(learned) < Len(told)
    <2>1. PICK l \in Nat : l = Len(told)
      BY <1>1, TypeFacts
    <2> QED BY <1>4, <2>1
  <1>14. /\ learned' \in Seq(Learned) /\ Len(learned') = Len(learned) + 1
         /\ Len(learned') <= Len(told') /\ Len(learned') >= 1
         /\ \A i \in 1 .. Len(learned') : AgreesAt(srv'.pc, learned'[i], told'[i])
    BY <1>1, <1>3, <1>11, <1>12, <1>13, LearnedNext, Zenon
  <1>15. DownLeft' = R
    <2>1. DownLeft' = DownRest(cli'.pc, shared', Len(cli'.devices), told', Len(learned'))
      BY DEF DownLeft
    <2>2. Len(learned') = 1
      BY <1>4, <1>14
    <2>x. "driver" # "ndev" /\ "driver" # "device" /\ "driver" # "info"
      OBVIOUS
    <2> QED BY <1>3, <1>6, <1>10, <2>1, <2>2, <2>x, Zenon DEF DownRest
  <1>16. DownInv'
    BY <1>8, <1>3, <1>10, <1>14, <1>15 DEF DownInv
  <1>17. cli.pc \in {"import", "info", "driver"} /\ cli'.pc \in {"info", "driver", "closed"}
    BY <1>2, <1>10
  <1> QED BY <1>2, <1>8, <1>10, <1>14, <1>16, <1>17, TakeStep, Zenon

\* The driver takes a message whole.
LEMMA DriverLearns ==
  ASSUME ExchangeInv, cli.pc = "driver", NEW n \in Nat, n = Len(learned), n < Len(told),
         Len(down) >= Len(Wire(told[n + 1])), down' = Rest(down, Len(Wire(told[n + 1]))),
         DownLeft = Cat(Wire(told[n + 1]), Remain(told, n + 1)),
         learned' = Append(learned, told[n + 1]), UNCHANGED <<up, cli, asked, serverVars>>,
         told[n + 1] \in Reply, Remain(told, n + 1) \in ByteSeq, told[n + 1].op # "REP_DEVLIST"
  PROVE  ExchangeInv'
  <1>1. TypeInv /\ DownInv
    BY DEF ExchangeInv
  <1>2. /\ shared' = shared /\ srv' = srv /\ told' = told /\ cli' = cli
        /\ UNCHANGED <<up, asked, serverVars>> /\ cli.pc # "closed"
    BY DEF serverVars
  <1>3. PICK w \in ByteSeq, R \in ByteSeq : w = Wire(told[n + 1]) /\ R = Remain(told, n + 1)
    BY ReplyWired
  <1>4. /\ down' \in ByteSeq /\ InFlight(down', R, TRUE)
        /\ srv.pc # "closed" => down' = R
    <2>1. Len(down) >= Len(w) /\ down' = Rest(down, Len(w)) /\ DownLeft = Cat(w, R)
      BY <1>3
    <2> QED BY <1>1, <1>2, <2>1, ClientTook, Zenon
  <1>5. told[n + 1] \in Learned
    BY DEF Learned
  <1>6. AgreesAt(srv.pc, told[n + 1], told[Len(learned) + 1])
    BY Zenon DEF AgreesAt
  <1>7. /\ learned' \in Seq(Learned) /\ Len(learned') = Len(learned) + 1
        /\ Len(learned') <= Len(told') /\ Len(learned') >= 1
        /\ \A i \in 1 .. Len(learned') : AgreesAt(srv'.pc, learned'[i], told'[i])
    BY <1>1, <1>2, <1>5, <1>6, LearnedNext, Zenon
  <1>8. DownLeft' = R
    <2>1. DownLeft' = DownRest(cli'.pc, shared', Len(cli'.devices), told', Len(learned'))
      BY DEF DownLeft
    <2>x. "driver" # "ndev" /\ "driver" # "device" /\ "driver" # "info"
      OBVIOUS
    <2> QED BY <1>2, <1>3, <1>7, <2>1, <2>x, Zenon DEF DownRest
  <1>9. DownInv'
    BY <1>2, <1>4, <1>7, <1>8 DEF DownInv
  <1>10. cli' \in [pc : CliPcs, left : Int, devices : Seq(usb_device_t)]
    BY <1>1, <1>2 DEF TypeInv
  <1>11. cli.pc \in {"import", "info", "driver"} /\ cli'.pc \in {"info", "driver", "closed"}
    BY <1>2
  <1> QED BY <1>2, <1>4, <1>7, <1>9, <1>10, <1>11, TakeStep, Zenon

\* ClientShort keeps the invariant.
LEMMA ClientShortStep ==
  ASSUME ExchangeInv, ClientShort
  PROVE  ExchangeInv'
  <1>1. TypeInv /\ DownInv
    BY DEF ExchangeInv
  <1>2. /\ cli' = [cli EXCEPT !.pc = "closed"] /\ down' = down /\ learned' = learned
        /\ UNCHANGED <<up, asked, serverVars>> /\ told' = told /\ srv' = srv
    BY DEF ClientShort, serverVars
  <1>3. cli.pc \in {"list", "ndev", "import", "info"}
    <2> SUFFICES ASSUME cli.pc \notin {"list", "ndev", "import", "info"} PROVE FALSE
      OBVIOUS
    <2>1. ClientNeeds = 0
      BY DEF ClientNeeds
    <2>2. Len(down) < 0
      BY <2>1 DEF ClientShort
    <2> QED BY <1>1, <2>2, TypeFacts
  <1>4. cli'.pc = "closed" /\ cli' \in [pc : CliPcs, left : Int, devices : Seq(usb_device_t)]
    BY <1>1, <1>2 DEF CliPcs, TypeInv
  <1>5. DownInv'
    <2>1. /\ Len(learned') <= Len(told')
          /\ \A i \in 1 .. Len(learned') : AgreesAt(srv'.pc, learned'[i], told'[i])
      BY <1>1, <1>2, Zenon DEF DownInv
    <2> QED BY <1>4, <2>1, DownClosed, Zenon
  <1>6. down' \in ByteSeq /\ learned' \in Seq(Learned)
    BY <1>1, <1>2 DEF TypeInv
  <1>7. \/ cli.pc \in {"list", "ndev", "device"} /\ cli'.pc \in {"ndev", "device", "closed"}
        \/ cli.pc \in {"import", "info", "driver"} /\ cli'.pc \in {"info", "driver", "closed"}
    BY <1>3, <1>4
  <1> QED BY <1>2, <1>4, <1>5, <1>6, <1>7, TakeStep

\* ClientGone keeps the invariant.
LEMMA ClientGoneStep ==
  ASSUME ExchangeInv, ClientGone
  PROVE  ExchangeInv'
  <1>1. TypeInv /\ AskedInv /\ UpInv /\ ToldInv /\ DownInv
    BY DEF ExchangeInv
  <1>2. /\ cli' = [cli EXCEPT !.pc = "closed"] /\ down' = down /\ learned' = learned
        /\ asked' = asked /\ heard' = heard /\ shared' = shared /\ pending' = pending
        /\ told' = told /\ srv' = srv
        /\ UNCHANGED <<asked, heard, srv>> /\ UNCHANGED <<told, heard, shared>>
    BY DEF ClientGone, serverVars
  <1>3. PICK n \in Nat : n <= Len(up) /\ up' = SubSeq(up, 1, Len(up) - n)
    <2>1. Losses \subseteq Nat
      BY ExchangeAssumption
    <2> QED BY <2>1 DEF ClientGone
  <1>4. cli'.pc = "closed" /\ cli' \in [pc : CliPcs, left : Int, devices : Seq(usb_device_t)]
    BY <1>1, <1>2 DEF CliPcs, TypeInv
  <1>5. UpInv' /\ up' \in ByteSeq
    BY <1>1, <1>2, <1>3, <1>4, UpCut, Zenon
  <1>6. ToldInv'
    BY <1>1, <1>2, <1>4, ToldKept, Zenon
  <1>7. DownInv'
    <2>1. /\ Len(learned') <= Len(told')
          /\ \A i \in 1 .. Len(learned') : AgreesAt(srv'.pc, learned'[i], told'[i])
      BY <1>1, <1>2, Zenon DEF DownInv
    <2> QED BY <1>4, <2>1, DownClosed, Zenon
  <1>8. AskedInv'
    BY <1>1, <1>2, <1>4 DEF AskedInv
  <1>9. TypeInv'
    BY <1>1, <1>2, <1>4, <1>5, Zenon DEF TypeInv
  <1> QED BY <1>5, <1>6, <1>7, <1>8, <1>9, Zenon DEF ExchangeInv

\* The data that the driver expects after a header.
Expected(b) ==
  IF /\ DriverReads(b, 1) = USBIP_RET_SUBMIT
     /\ {u \in Urbs : u.seqnum = DriverReads(b, 2) /\ u.direction = USBIP_DIR_IN} # {}
  THEN DriverReads(b, 7) ELSE 0
\* The message that the driver makes of a header and its data.
Received(b) ==
  IF DriverReads(b, 1) = USBIP_RET_SUBMIT
  THEN [op |-> "RET_SUBMIT", seqnum |-> DriverReads(b, 2), devid |-> DriverReads(b, 3),
        direction |-> DriverReads(b, 4), ep |-> DriverReads(b, 5), status |-> DriverReads(b, 6),
        actual_length |-> DriverReads(b, 7), start_frame |-> DriverReads(b, 8),
        number_of_packets |-> DriverReads(b, 9), setup |-> Fields(b, HeaderLayout)[11],
        data |-> SubSeq(b, 49, 48 + Expected(b))]
  ELSE [op |-> "RET_UNLINK", seqnum |-> DriverReads(b, 2), devid |-> DriverReads(b, 3),
        status |-> DriverReads(b, 6)]

\* DriverReceive in these terms.
LEMMA DriverReceiveIs ==
  ASSUME DriverReceive
  PROVE  /\ cli.pc = "driver" /\ Len(down) >= 48
         /\ Len(down) >= 48 + Expected(down) /\ down' = Rest(down, 48 + Expected(down))
         /\ learned' = Append(learned, Received(down))
         /\ UNCHANGED <<up, cli, asked, serverVars>>
  BY DEF DriverReceive, ClientTakes, Learn, Expected, Received, DriverReads

\* No two URBs have the same number, so the driver knows the direction of the
\* one that is answered.
LEMMA ExpectedReturn ==
  ASSUME NEW u \in Urbs, NEW b, DriverReads(b, 1) = USBIP_RET_SUBMIT, DriverReads(b, 2) = u.seqnum
  PROVE  Expected(b) = IF u.direction = USBIP_DIR_IN THEN DriverReads(b, 7) ELSE 0
  <1>1. \A v \in Urbs : v.seqnum = u.seqnum => v = u
    BY ExchangeAssumption
  <1>2. {v \in Urbs : v.seqnum = DriverReads(b, 2) /\ v.direction = USBIP_DIR_IN} # {}
          <=> u.direction = USBIP_DIR_IN
    BY <1>1
  <1> QED BY <1>2, Zenon DEF Expected

\* The driver reads an answer to a URB as it was meant.
LEMMA ReturnReceived ==
  ASSUME NEW u \in Urbs, NEW k \in Lengths, NEW s \in Int32, NEW b \in ByteSeq, NEW R \in ByteSeq,
         InFlight(b, Cat(Wire(Return(u, k, s)), R), TRUE), Len(b) >= 48, Len(b) >= 48 + Expected(b)
  PROVE  /\ Received(b) = Return(u, k, s)
         /\ Len(Wire(Return(u, k, s))) = 48 + Expected(b)
  <1> DEFINE m == Return(u, k, s)
             w == ReturnWords(u, k, s)
  <1>f. /\ m.op = "RET_SUBMIT" /\ m.data = Return(u, k, s).data
        /\ m = [op |-> "RET_SUBMIT", seqnum |-> u.seqnum, devid |-> u.devid, direction |-> u.direction,
                ep |-> u.ep, status |-> s, actual_length |-> k, start_frame |-> u.start_frame,
                number_of_packets |-> u.number_of_packets, setup |-> u.setup, data |-> m.data]
    BY DEF Return
  <1>w. /\ w[1] = USBIP_RET_SUBMIT /\ w[2] = u.seqnum /\ w[3] = u.devid /\ w[4] = u.direction
        /\ w[5] = u.ep /\ w[6] = s /\ w[7] = k /\ w[8] = u.start_frame
        /\ w[9] = u.number_of_packets
    BY DEF ReturnWords
  <1>1. PICK h \in ByteSeq, x \in ByteSeq :
          /\ h = Bytes(NetHeader(w, u.setup)) /\ Len(h) = 48 /\ x = m.data
             /\ Wire(m) = Cat(h, x)
          /\ u.direction = USBIP_DIR_IN => Len(x) = k
          /\ u.direction # USBIP_DIR_IN => x = <<>>
    BY ReturnWire, Zenon
  <1>2. \A i \in 1 .. 10 : w[i] \in Int32
    BY ReturnWordsFacts
  <1>3. u.setup \in ByteSeq /\ Len(u.setup) = 8
    BY UrbFacts
  <1> HIDE DEF m, w
  <1>4. Starts(b, h)
    <2>1. PICK y \in ByteSeq : y = Cat(x, R)
      BY CatSize, Zenon
    <2>2. Cat(Cat(h, x), R) = Cat(h, Cat(x, R))
      BY <1>1, CatAssoc
    <2>3. InFlight(b, Cat(h, y), TRUE) /\ Len(b) >= Len(h)
      BY <1>1, <2>1, <2>2 DEF m
    <2> QED BY <2>3, TakenBoth, Zenon
  <1>5. /\ \A i \in 1 .. 10 : DriverReads(b, i) = w[i]
        /\ Fields(b, HeaderLayout)[11] = u.setup
    <2>1. Starts(b, Bytes(NetHeader(w, u.setup)))
      BY <1>1, <1>4, Zenon
    <2> QED BY <1>2, <1>3, <2>1, DriverRead
  <1>6. /\ DriverReads(b, 1) = USBIP_RET_SUBMIT /\ DriverReads(b, 2) = u.seqnum
        /\ DriverReads(b, 3) = u.devid /\ DriverReads(b, 4) = u.direction
        /\ DriverReads(b, 5) = u.ep /\ DriverReads(b, 6) = s /\ DriverReads(b, 7) = k
        /\ DriverReads(b, 8) = u.start_frame /\ DriverReads(b, 9) = u.number_of_packets
    BY <1>5, <1>w
  <1>7. Expected(b) = Len(x) /\ Len(x) \in Nat
    <2>1. Expected(b) = IF u.direction = USBIP_DIR_IN THEN k ELSE 0
      BY <1>6, ExpectedReturn, Zenon
    <2>2. Len(x) \in Nat
      BY ByteSeqFacts
    <2> QED BY <1>1, <2>1, <2>2
  <1>8. Len(Wire(m)) = 48 + Expected(b)
    <2>1. Len(Cat(h, x)) = Len(h) + Len(x)
      BY CatSize, Zenon
    <2> QED BY <1>1, <1>7, <2>1
  <1>9. SubSeq(b, 49, 48 + Expected(b)) = x
    <2>l. PICK l \in Nat : l = Len(x)
      BY <1>7
    <2>1. PICK v \in ByteSeq : v = Cat(h, x)
      BY CatSize, Zenon
    <2>2. Len(v) = 48 + l /\ \A j \in 1 .. l : v[48 + j] = x[j]
      <3>1. Len(Cat(h, x)) = Len(h) + Len(x)
              /\ \A j \in 1 .. Len(x) : Cat(h, x)[Len(h) + j] = x[j]
        BY CatFacts
      <3> QED BY <1>1, <2>l, <2>1, <3>1, Zenon
    <2>3. Starts(b, v)
      <3>1. InFlight(b, Cat(v, R), TRUE)
        BY <1>1, <2>1 DEF m
      <3>2. Len(b) >= Len(v)
        BY <1>7, <2>l, <2>2
      <3> QED BY <3>1, <3>2, TakenBoth, Zenon
    <2>4. \A j \in 1 .. l : 48 + j \in 1 .. 48 + l
      OBVIOUS
    <2>5. \A j \in 1 .. Len(x) : b[48 + j] = x[j]
      BY <2>l, <2>2, <2>3, <2>4, Zenon DEF Starts
    <2>6. 48 \in Nat /\ 48 + 1 = 49
      OBVIOUS
    <2>7. SubSeq(b, 48 + 1, 48 + Len(x)) = x
      BY <2>5, <2>6, SubSeqIs
    <2> QED BY <1>7, <2>6, <2>7, Zenon
  <1>10. Received(b) = m
    BY <1>1, <1>5, <1>6, <1>9, <1>f, Zenon DEF Received
  <1> QED BY <1>8, <1>10 DEF m

\* The driver reads an answer to an unlink as it was meant.
LEMMA RetUnlinkReceived ==
  ASSUME NEW u \in Urbs, NEW b \in ByteSeq, NEW R \in ByteSeq,
         InFlight(b, Cat(Wire(RetUnlink(u)), R), TRUE), Len(b) >= 48
  PROVE  Received(b) = RetUnlink(u) /\ Expected(b) = 0 /\ Len(Wire(RetUnlink(u))) = 48
  <1> DEFINE w == RetUnlinkWords(u)
  <1>w. w[1] = USBIP_RET_UNLINK /\ w[2] = UnlinkSeqnum(u) /\ w[3] = u.devid /\ w[6] = 0
    BY DEF RetUnlinkWords, Ten
  <1>1. PICK h \in ByteSeq : h = Bytes(NetHeader(w, NoSetup)) /\ Len(h) = 48
               /\ Wire(RetUnlink(u)) = h
    BY RetUnlinkWire, Zenon
  <1>2. \A i \in 1 .. 10 : w[i] \in Int32
    BY RetUnlinkWordsFacts
  <1> HIDE DEF w
  <1>4. Starts(b, h)
    <2>1. InFlight(b, Cat(h, R), TRUE) /\ Len(b) >= Len(h)
      BY <1>1
    <2> QED BY <2>1, TakenBoth, Zenon
  <1>5. \A i \in 1 .. 10 : DriverReads(b, i) = w[i]
    <2>1. Starts(b, Bytes(NetHeader(w, NoSetup)))
      BY <1>1, <1>4, Zenon
    <2> QED BY <1>2, <2>1, NoSetupFacts, DriverRead
  <1>6. /\ DriverReads(b, 1) = USBIP_RET_UNLINK /\ DriverReads(b, 2) = UnlinkSeqnum(u)
        /\ DriverReads(b, 3) = u.devid /\ DriverReads(b, 6) = 0
    BY <1>5, <1>w
  <1>7. DriverReads(b, 1) # USBIP_RET_SUBMIT
    BY <1>6 DEF USBIP_RET_SUBMIT, USBIP_RET_UNLINK
  <1> QED BY <1>1, <1>6, <1>7, Zenon DEF Received, Expected, RetUnlink

\* DriverReceive keeps the invariant.
LEMMA DriverReceiveStep ==
  ASSUME ExchangeInv, DriverReceive
  PROVE  ExchangeInv'
  <1>1. TypeInv /\ DownInv /\ ToldInv
    BY DEF ExchangeInv
  <1>2. /\ cli.pc = "driver" /\ Len(down) >= 48
        /\ Len(down) >= 48 + Expected(down) /\ down' = Rest(down, 48 + Expected(down))
        /\ learned' = Append(learned, Received(down))
        /\ UNCHANGED <<up, cli, asked, serverVars>>
    BY DriverReceiveIs, Zenon
  <1>n. PICK n \in Nat : n = Len(learned) /\ n >= 1
    BY <1>1, <1>2, TypeFacts DEF DownInv
  <1>l. PICK l \in Nat : l = Len(told)
    BY <1>1, TypeFacts
  <1>3. Len(down) >= 1 /\ cli.pc \in {"list", "import", "driver"}
    <2>1. PICK k \in Nat : k = Len(down)
      BY <1>1, TypeFacts
    <2> QED BY <1>2, <2>1
  <1>4. /\ n < l /\ told[n + 1] \in Reply /\ Remain(told, n + 1) \in ByteSeq
        /\ DownLeft = Cat(Wire(told[n + 1]), Remain(told, n + 1))
    BY <1>1, <1>3, <1>n, <1>l, MoreTold, Zenon
  <1>5. told[n + 1].op \in {"RET_SUBMIT", "RET_UNLINK"} /\ told[n + 1].op # "REP_DEVLIST"
    <2>1. n + 1 \in 2 .. l
      BY <1>n, <1>4
    <2> QED BY <1>1, <1>l, <2>1 DEF ToldInv
  <1>6. down \in ByteSeq /\ InFlight(down, Cat(Wire(told[n + 1]), Remain(told, n + 1)), TRUE)
    BY <1>1, <1>2, <1>4 DEF TypeInv, DownInv
  <1>7. Received(down) = told[n + 1] /\ Len(Wire(told[n + 1])) = 48 + Expected(down)
    <2>1. CASE told[n + 1].op = "RET_SUBMIT"
      <3>1. PICK u \in Urbs, k \in Lengths, s \in Int32 : told[n + 1] = Return(u, k, s)
        BY <1>4, <2>1, ReplyCases, Zenon
      <3>r. PICK R \in ByteSeq : R = Remain(told, n + 1)
        BY <1>4
      <3>2. InFlight(down, Cat(Wire(Return(u, k, s)), R), TRUE) /\ down \in ByteSeq
        BY <1>6, <3>1, <3>r, Zenon
      <3>3. /\ Received(down) = Return(u, k, s)
            /\ Len(Wire(Return(u, k, s))) = 48 + Expected(down)
        BY <1>2, <3>2, ReturnReceived
      <3> QED BY <3>1, <3>3, Zenon
    <2>2. CASE told[n + 1].op = "RET_UNLINK"
      <3>1. PICK u \in Urbs : told[n + 1] = RetUnlink(u)
        BY <1>4, <2>2, ReplyCases, Zenon
      <3>2. InFlight(down, Cat(Wire(RetUnlink(u)), Remain(told, n + 1)), TRUE)
        BY <1>6, <3>1, Zenon
      <3>3. Received(down) = RetUnlink(u) /\ Expected(down) = 0 /\ Len(Wire(RetUnlink(u))) = 48
        BY <1>2, <1>4, <1>6, <3>2, RetUnlinkReceived, Zenon
      <3> QED BY <3>1, <3>3
    <2> QED BY <1>5, <2>1, <2>2
  <1>8. /\ Len(down) >= Len(Wire(told[n + 1])) /\ down' = Rest(down, Len(Wire(told[n + 1])))
        /\ learned' = Append(learned, told[n + 1]) /\ n < Len(told)
    BY <1>2, <1>4, <1>7, <1>l, Zenon
  <1> QED BY <1>2, <1>4, <1>5, <1>8, <1>n, DriverLearns, Zenon

----------------------------------------------------------------------------
(* The theorems about the exchange.                                        *)

\* The invariant holds at first.
LEMMA InitInv ==
  ASSUME Init
  PROVE  ExchangeInv
  <1>1. /\ shared \in Lists /\ up = <<>> /\ down = <<>>
        /\ cli = [pc |-> "start", left |-> 0, devices |-> <<>>]
        /\ srv = [pc |-> "request", header |-> <<>>] /\ pending = {}
        /\ asked = <<>> /\ heard = <<>> /\ told = <<>> /\ learned = <<>>
    BY DEF Init
  <1>e. <<>> \in ByteSeq
    BY DEF ByteSeq
  <1>s. <<>> \in Seq(Request) /\ <<>> \in Seq(Reply) /\ <<>> \in Seq(Learned)
          /\ <<>> \in Seq(usb_device_t)
    OBVIOUS
  <1>2. TypeInv
    <2>1. cli \in [pc : CliPcs, left : Int, devices : Seq(usb_device_t)]
      BY <1>1, <1>s DEF CliPcs
    <2>2. srv \in [pc : SrvPcs, header : Urbs \cup {<<>>}]
      BY <1>1 DEF SrvPcs
    <2> QED BY <1>1, <1>e, <1>s, <2>1, <2>2 DEF TypeInv
  <1>3. AskedInv /\ ToldInv
    BY <1>1 DEF AskedInv, ToldInv
  <1>4. Remain(asked, 0) = <<>> /\ Remain(told, 0) = <<>> /\ Len(asked) = 0 /\ Len(told) = 0
    <2>1. 0 \in 0 .. Len(asked) /\ 0 \in 0 .. Len(told) /\ 0 = Len(asked) /\ 0 = Len(told)
      BY <1>1
    <2>2. asked \in Seq(Request) /\ told \in Seq(Reply)
      BY <1>1, <1>s
    <2>3. Remain(asked, 0) = <<>>
      BY <2>1, <2>2, RemainAsked, Zenon
    <2>4. Remain(told, 0) = <<>>
      BY <2>1, <2>2, RemainTold, Zenon
    <2> QED BY <2>1, <2>3, <2>4
  <1>5. InFlight(<<>>, <<>>, TRUE)
    BY <1>e, Same, Zenon
  <1>6. UpInv
    <2>1. UpRest(srv.pc, asked, Len(heard)) = <<>>
      BY <1>1, <1>4 DEF UpRest
    <2>2. srv.pc = "request" /\ Len(heard) = 0 /\ Len(asked) = 0 /\ up = <<>>
      BY <1>1
    <2>3. \A i \in 1 .. 0 : FALSE
      OBVIOUS
    <2>4. Len(heard) <= Len(asked) /\ \A i \in 1 .. Len(heard) : heard[i] = asked[i]
      BY <2>2, <2>3
    <2>5. srv.pc \notin {"busid", "urb", "data", "drain", "closed"}
      BY <2>2
    <2>6. /\ InFlight(up, UpRest(srv.pc, asked, Len(heard)), TRUE)
          /\ up = UpRest(srv.pc, asked, Len(heard))
      BY <1>5, <2>1, <2>2
    <2> QED BY <2>2, <2>4, <2>5, <2>6 DEF UpInv
  <1>7. DownInv
    <2>1. DownLeft = <<>>
      BY <1>1, <1>4 DEF DownLeft, DownRest
    <2>2. /\ cli.pc = "start" /\ Len(learned) = 0 /\ Len(told) = 0 /\ down = <<>>
          /\ Len(cli.devices) = 0
      BY <1>1
    <2>3. \A i \in 1 .. 0 : FALSE
      OBVIOUS
    <2>4. /\ Len(learned) <= Len(told)
          /\ \A i \in 1 .. Len(learned) : AgreesAt(srv.pc, learned[i], told[i])
      BY <2>2, <2>3
    <2>5. cli.pc \notin {"ndev", "device", "info", "driver"}
      BY <2>2
    <2>6. InFlight(down, DownLeft, TRUE) /\ down = DownLeft
      BY <1>5, <2>1, <2>2
    <2> QED BY <2>2, <2>4, <2>5, <2>6 DEF DownInv
  <1> QED BY <1>2, <1>3, <1>6, <1>7, Zenon DEF ExchangeInv

\* A step that changes nothing keeps the invariant.
LEMMA InvStutters ==
  ASSUME ExchangeInv, UNCHANGED vars
  PROVE  ExchangeInv'
  <1>1. TypeInv /\ AskedInv /\ UpInv /\ ToldInv /\ DownInv
    BY DEF ExchangeInv
  <1>2. /\ shared' = shared /\ up' = up /\ down' = down /\ cli' = cli /\ srv' = srv
        /\ pending' = pending /\ asked' = asked /\ heard' = heard /\ told' = told
           /\ learned' = learned
        /\ UNCHANGED <<up, asked, heard, srv>> /\ UNCHANGED <<told, heard, shared>>
        /\ UNCHANGED <<shared, cli, learned, told, down>>
    BY DEF vars
  <1>3. UpInv' /\ ToldInv' /\ DownInv' /\ AskedInv'
    BY <1>1, <1>2, UpKept, ToldKept, DownKept, AskedKept, Zenon
  <1>4. TypeInv'
    BY <1>1, <1>2, Zenon DEF TypeInv
  <1> QED BY <1>3, <1>4, Zenon DEF ExchangeInv

\* Every step keeps the invariant.
LEMMA InvStep ==
  ASSUME ExchangeInv, [Next]_vars
  PROVE  ExchangeInv'
  <1>1. CASE UNCHANGED vars
    BY <1>1, InvStutters
  <1>2. CASE ListRequest \/ \E b \in Busids : ImportRequest(b)
    BY <1>2, ListRequestStep, ImportRequestStep
  <1>3. CASE ClientStep
    BY <1>3, ListHeaderStep, ListCountStep, ListDeviceStep, ListEndsStep, ImportHeaderStep,
       ImportDeviceStep, ClientShortStep DEF ClientStep
  <1>4. CASE Driver
    BY <1>4, DriverReceiveStep, DriverSubmitStep, DriverUnlinkStep DEF Driver
  <1>5. CASE ClientGone
    BY <1>5, ClientGoneStep
  <1>6. CASE ServerStep
    BY <1>6, RecvRequestStep, RecvBusidStep, RecvSubmitStep, RecvDataStep, RecvUnlinkStep,
       ServerShortStep, DrainDoneStep, DrainSendStep DEF ServerStep
  <1>7. CASE ServerGone
    BY <1>7, ServerGoneStep
  <1> QED BY <1>1, <1>2, <1>3, <1>4, <1>5, <1>6, <1>7 DEF Next

\* In every state of the exchange each end is where the other takes it to be:
\* what is in flight is what is left to read.
THEOREM Exchange == Spec => []ExchangeInv
  <1>1. Init => ExchangeInv
    BY InitInv
  <1>2. ExchangeInv /\ [Next]_vars => ExchangeInv'
    BY InvStep
  <1> QED BY <1>1, <1>2, PTL DEF Spec

\* Messages that agree one by one are a prefix.
LEMMA PrefixOf ==
  ASSUME NEW M, NEW s \in Seq(M), NEW t \in Seq(M), Len(s) <= Len(t),
         \A i \in 1 .. Len(s) : s[i] = t[i]
  PROVE  IsPrefix(s, t)
  <1>n. PICK n \in Nat : n = Len(s)
    BY MessagesFacts, Zenon
  <1>0. 0 \in 0 .. Len(t) /\ n \in 0 .. Len(t) /\ 0 + 1 = 1 /\ n - 0 = n
          /\ \A i \in 1 .. n : 0 + i = i
    BY <1>n
  <1>1. SubSeq(s, 1, n) = s
    BY <1>n, SubSeqFull
  <1>g. PICK g : g = SubSeq(t, 0 + 1, n)
    OBVIOUS
  <1>2. /\ g \in Seq(M) /\ Len(g) = n - 0 /\ \A i \in 1 .. n - 0 : g[i] = t[0 + i]
    BY <1>0, <1>g, PartFacts
  <1>3. Len(g) = Len(s) /\ \A i \in 1 .. Len(s) : s[i] = g[i]
    BY <1>0, <1>2, <1>n
  <1>4. s = g
    BY <1>2, <1>3, SeqEqual
  <1> QED BY <1>0, <1>1, <1>4, <1>g, <1>n DEF IsPrefix

\* The invariant implies that the requests are understood,
LEMMA InvRequests ==
  ASSUME ExchangeInv
  PROVE  RequestsUnderstood
  <1>1. TypeInv /\ UpInv
    BY DEF ExchangeInv
  <1>2. IsPrefix(heard, asked)
    <2>1. heard \in Seq(Request) /\ asked \in Seq(Request)
      BY <1>1 DEF TypeInv
    <2>2. Len(heard) <= Len(asked) /\ \A i \in 1 .. Len(heard) : heard[i] = asked[i]
      BY <1>1 DEF UpInv
    <2> QED BY <2>1, <2>2, PrefixOf
  <1>3. ASSUME srv.pc \in {"request", "urb", "drain"}
        PROVE  LET rest == WireAll(Rest(asked, Len(heard)))
               IN IF cli.pc = "closed" THEN IsPrefix(up, rest) ELSE up = rest
    <2>1. UpRest(srv.pc, asked, Len(heard)) = WireAll(Rest(asked, Len(heard)))
      BY <1>3 DEF UpRest, Remain
    <2>2. IsPrefix(up, UpRest(srv.pc, asked, Len(heard)))
      BY <1>1, <1>3 DEF UpInv, InFlight
    <2>3. cli.pc # "closed" => up = UpRest(srv.pc, asked, Len(heard))
      BY <1>1, <1>3 DEF UpInv
    <2> QED BY <2>1, <2>2, <2>3, Zenon
  <1> QED BY <1>2, <1>3, Zenon DEF RequestsUnderstood

\* that the replies are,
LEMMA InvReplies ==
  ASSUME ExchangeInv
  PROVE  RepliesUnderstood
  <1>1. TypeInv /\ DownInv
    BY DEF ExchangeInv
  <1>2. Len(learned) <= Len(told) /\ \A i \in 1 .. Len(learned) :
          AgreesAt(srv.pc, learned[i], told[i])
    BY <1>1 DEF DownInv
  <1>3. DOMAIN learned = 1 .. Len(learned)
    BY <1>1 DEF TypeInv
  <1>4. \A l, t : AgreesAt(srv.pc, l, t) => Agrees(l, t)
    BY DEF AgreesAt, Agrees
  <1>5. ASSUME cli.pc = "driver"
        PROVE  LET rest == WireAll(Rest(told, Len(learned)))
               IN IF srv.pc = "closed" THEN IsPrefix(down, rest) ELSE down = rest
    <2>1. DownLeft = WireAll(Rest(told, Len(learned)))
      BY <1>5 DEF DownLeft, DownRest, Remain
    <2>2. IsPrefix(down, DownLeft) /\ (srv.pc # "closed" => down = DownLeft)
      BY <1>1, <1>5 DEF DownInv, InFlight
    <2> QED BY <2>1, <2>2, Zenon
  <1> QED BY <1>2, <1>3, <1>4, <1>5, Zenon DEF RepliesUnderstood

\* The server has the bytes it waits for when the client waits for its first
\* answer.
LEMMA FirstAsked ==
  ASSUME ExchangeInv, srv.pc # "closed", cli.pc \in {"list", "import"}, Len(told) = 0
  PROVE  ~(Len(up) < ServerNeeds)
  <1>u. Len(up) \in Nat
    BY TypeFacts DEF ExchangeInv
  <1>1. TypeInv /\ AskedInv /\ UpInv /\ ToldInv
    BY DEF ExchangeInv
  <1>n. PICK n \in Nat : n = Len(heard)
    BY <1>1, TypeFacts
  <1>l. PICK l \in Nat : l = Len(asked)
    BY <1>1, TypeFacts
  <1>2. n = 0
    <2>1. ~(n >= 1)
      BY <1>1, <1>n DEF ToldInv
    <2> QED BY <2>1
  <1>3. l >= 1
    BY <1>1, <1>l DEF AskedInv
  <1>4. 0 \in 0 .. l /\ 1 \in 0 .. l /\ 0 < l /\ 0 + 1 = 1
    BY <1>3
  <1>5. asked \in Seq(Request) /\ up = UpRest(srv.pc, asked, 0)
    BY <1>1, <1>2, <1>n DEF TypeInv, UpInv
  <1>6. srv.pc = "request" \/ srv.pc = "busid"
    BY <1>1, <1>2, <1>n, TypeFacts DEF UpInv, SrvPcs
  <1>7. CASE srv.pc = "request"
    <2>1. PICK w \in ByteSeq, R \in ByteSeq :
            Len(w) >= 8 /\ Remain(asked, 0) = Cat(w, R)
      <3>1. /\ asked[0 + 1] \in Request /\ Wire(asked[0 + 1]) \in ByteSeq
               /\ Remain(asked, 0 + 1) \in ByteSeq
            /\ Remain(asked, 0) = Cat(Wire(asked[0 + 1]), Remain(asked, 0 + 1))
        BY <1>4, <1>5, <1>l, RemainAsked, Zenon
      <3>2. Len(Wire(asked[0 + 1])) >= 8
        BY <3>1, RequestWired, Zenon
      <3> QED BY <3>1, <3>2, Zenon
    <2>2. up = Cat(w, R)
      BY <1>5, <1>7, <2>1 DEF UpRest
    <2>3. Len(up) >= 8
      BY <2>1, <2>2, CatSize, ByteSeqFacts
    <2> QED BY <1>7, <1>u, <2>3 DEF ServerNeeds
  <1>8. CASE srv.pc = "busid"
    <2>1. asked[1].op = "REQ_IMPORT" /\ asked[1] \in Request
      BY <1>1, <1>3, <1>8, <1>l, TypeFacts DEF UpInv
    <2>2. PICK b \in Names : asked[1] = ImportRequestFor(b)
      BY <2>1, RequestCases, Zenon
    <2>3. PICK w \in ByteSeq : w = <<asked[1].busid>> /\ Len(w) = 1
      <3>1. asked[1].busid = b
        BY <2>2 DEF ImportRequestFor
      <3> QED BY <3>1, RequestWire, Zenon
    <2>4. PICK R \in ByteSeq : R = Remain(asked, 1)
      BY <1>4, <1>5, <1>l, RemainAsked, Zenon
    <2>5. up = Cat(w, R)
      BY <1>5, <1>8, <2>3, <2>4 DEF UpRest
    <2>6. Len(up) >= 1
      <3>1. Len(up) >= Len(w)
        BY <2>5, CatAtLeast, Zenon
      <3> QED BY <2>3, <3>1
    <2> QED BY <1>8, <1>u, <2>6 DEF ServerNeeds
  <1> QED BY <1>6, <1>7, <1>8

\* and that the two never wait for each other.
LEMMA InvWaits ==
  ASSUME ExchangeInv
  PROVE  NeverBothWaiting
  <1>1. TypeInv /\ DownInv
    BY DEF ExchangeInv
  <1> SUFFICES ASSUME srv.pc # "closed", Len(up) < ServerNeeds,
                      \/ cli.pc \in {"list", "ndev", "import", "info"}
                         /\ Len(down) < ClientNeeds
                      \/ cli.pc = "device" /\ More /\ ~Whole
               PROVE  FALSE
    BY DEF NeverBothWaiting
  <1>2. cli.pc # "closed" /\ down = DownLeft
    BY <1>1 DEF DownInv
  <1>d. Len(down) \in Nat
    BY <1>1, TypeFacts
  <1>3. CASE cli.pc = "ndev"
    <2>1. Len(told) >= 1
      BY <1>1, <1>3 DEF DownInv
    <2>2. Remain(told, 1) \in ByteSeq /\ shared \in Lists
      BY <2>1, FirstTold, Zenon
    <2>3. PICK n \in ByteSeq, r \in ByteSeq, R \in ByteSeq :
            n = Net32(Len(shared)) /\ Len(n) = 4 /\ r = Bytes(ListStruct(shared))
              /\ R = Remain(told, 1)
      BY <2>2, DevlistWire, Zenon
    <2>4. down = Cat(Cat(n, r), R)
      BY <1>2, <1>3, <2>3, Zenon DEF DownLeft, DownRest
    <2>5. PICK q \in ByteSeq : q = Cat(n, r) /\ Len(q) >= Len(n)
      BY CatAtLeast, Zenon
    <2>6. Len(down) >= Len(q) /\ Len(q) \in Nat
      BY <2>4, <2>5, CatAtLeast, ByteSeqFacts, Zenon
    <2>7. Len(down) < 4
      BY <1>3 DEF ClientNeeds
    <2> QED BY <1>d, <2>3, <2>5, <2>6, <2>7
  <1>4. CASE cli.pc = "info"
    <2>1. Len(told) >= 1 /\ \E d \in usb_device_t : told[1] = ImportDone(d)
      BY <1>1, <1>4 DEF DownInv
    <2>2. PICK R \in ByteSeq : R = Remain(told, 1)
      BY <2>1, FirstTold, Zenon
    <2>3. PICK d \in usb_device_t : told[1] = ImportDone(d)
      BY <2>1
    <2>4. told[1].device = d
      BY <2>3 DEF ImportDone
    <2>5. PICK v \in ByteSeq : v = WireDevice(d) /\ Len(v) = 26
      BY ImportDoneWire, Zenon
    <2>x. "info" # "ndev" /\ "info" # "device"
      OBVIOUS
    <2>6. down = Cat(v, R)
      BY <1>2, <1>4, <2>2, <2>4, <2>5, <2>x, Zenon DEF DownLeft, DownRest
    <2>7. Len(down) >= Len(v)
      BY <2>6, CatAtLeast, Zenon
    <2>8. Len(down) < 26
      BY <1>4 DEF ClientNeeds, DeviceSize
    <2> QED BY <1>d, <2>5, <2>7, <2>8
  <1>5. CASE cli.pc = "device"
    <2>1. More /\ ~Whole /\ cli.left > 0
      BY <1>5 DEF More
    <2>2. PICK v \in ByteSeq, z \in ByteSeq, d \in usb_device_t :
            /\ d.num_interfaces \in Nat /\ DownLeft = Cat(v, z)
               /\ Len(v) = 26 + 4 * d.num_interfaces
            /\ Len(down) >= 26 => NextDevice = d
      BY <1>5, <2>1, NextListed, Zenon
    <2>3. Len(down) >= Len(v)
      BY <1>2, <2>2, CatAtLeast, Zenon
    <2>4. Len(down) >= 26
      BY <1>d, <2>2, <2>3
    <2> QED BY <2>1, <2>2, <2>3, <2>4 DEF Whole, DeviceSize
  <1>6. CASE cli.pc \in {"list", "import"}
    <2>l. PICK l \in Nat : l = Len(told)
      BY <1>1, TypeFacts
    <2>1. l # 0
      BY <1>6, <2>l, FirstAsked, Zenon
    <2>2. 0 \in 0 .. l /\ 0 < l /\ 0 + 1 = 1
      BY <2>1
    <2>3. told \in Seq(Reply)
      BY <1>1 DEF TypeInv
    <2>4. PICK w \in ByteSeq, R \in ByteSeq : Len(w) >= 8 /\ Remain(told, 0) = Cat(w, R)
      <3>1. /\ told[0 + 1] \in Reply /\ Wire(told[0 + 1]) \in ByteSeq
               /\ Remain(told, 0 + 1) \in ByteSeq
            /\ Remain(told, 0) = Cat(Wire(told[0 + 1]), Remain(told, 0 + 1))
        BY <2>2, <2>3, <2>l, RemainTold, Zenon
      <3>2. Len(Wire(told[0 + 1])) >= 8
        BY <3>1, ReplyWired, Zenon
      <3> QED BY <3>1, <3>2, Zenon
    <2>5. Len(learned) = 0
      BY <1>1, <1>6 DEF DownInv
    <2>6. down = Cat(w, R)
      BY <1>2, <1>6, <2>4, <2>5 DEF DownLeft, DownRest
    <2>7. Len(down) >= Len(w) /\ Len(w) \in Nat
      BY <2>6, CatAtLeast, ByteSeqFacts, Zenon
    <2>8. Len(down) < 8
      BY <1>6 DEF ClientNeeds
    <2> QED BY <1>d, <2>4, <2>7, <2>8
  <1> QED BY <1>3, <1>4, <1>5, <1>6

\* For every list of devices, every set of URBs, every length of transfer and
\* every loss: client_handle_request and handle_client_session understand what
\* the client sent, message by message, and read no byte too many or too few.
THEOREM RequestsAreUnderstood == Spec => []RequestsUnderstood
  BY Exchange, InvRequests, PTL

\* The same for what the client program and its driver read: every device,
\* status, length and datum is the one the server meant, and the driver finds
\* each header where the message before it ends.
THEOREM RepliesAreUnderstood == Spec => []RepliesUnderstood
  BY Exchange, InvReplies, PTL

\* A client program and the server never both wait for bytes of the other.
THEOREM NeverBothWait == Spec => []NeverBothWaiting
  BY Exchange, InvWaits, PTL
=============================================================================
