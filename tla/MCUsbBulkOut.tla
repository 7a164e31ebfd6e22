---------------------------- MODULE MCUsbBulkOut ----------------------------
(* UsbBulkOut on small instances for TLC. *)
EXTENDS UsbBulkOut

MCHops == {1, 2}
=============================================================================
