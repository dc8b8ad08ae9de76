-------------------------- MODULE MCUsbipExchange ---------------------------
(* Devices as usb_enumerate_devices describes them, none, and fewer and    *)
(* more than the client's table holds, and a URB for each path through the *)
(* server: control and bulk, IN and OUT, with and without data.            *)
EXTENDS UsbipExchange

CONSTANTS p1, p2, p3, b1, b2, b3   \* paths and bus ids

Device(path, busid, devnum, vendor_id, product_id) ==
  [info |-> [path |-> path, busid |-> busid, busnum |-> 2, devnum |-> devnum,
             speed |-> 3, vendor_id |-> vendor_id, product_id |-> product_id,
             bcd_device |-> 0, codes |-> <<0, 0, 0, 1, 1>>, num_interfaces |-> 1],
   interfaces |-> <<<<0, 0, 0, 0>>>>]

MCLists == {<<>>, <<Device(p1, b1, 1, 1133, 50484)>>,
            <<Device(p1, b1, 1, 1133, 50484), Device(p2, b2, 126, 1027, 24577),
              Device(p3, b3, 7, 2414, 772)>>}

Urb(seqnum, direction, ep, length) ==
  [command |-> USBIP_CMD_SUBMIT, seqnum |-> seqnum, devid |-> 131073,
   direction |-> direction, ep |-> ep, transfer_flags |-> 512,
   transfer_buffer_length |-> length, start_frame |-> 3, number_of_packets |-> 0,
   interval |-> 1, setup |-> <<128, 6, 0, 1, 0, 0, 18, 0>>]

MCUrbs == {Urb(257, USBIP_DIR_IN, 0, 2), Urb(258, USBIP_DIR_OUT, 0, 0),
           Urb(259, USBIP_DIR_OUT, 2, 2), Urb(260, USBIP_DIR_IN, 1, 1)}
=============================================================================
