---------------------------- MODULE MCUsbCdcHost ----------------------------
(* UsbCdcHost on a small instance. *)
EXTENDS UsbCdcHost

CONSTANTS id1, id2

MCVcpIds == <<id1, id2>>
MCMaxFed == [d \in Dir |-> IF d = "usb_to_net" THEN 1 ELSE 3]
=============================================================================
