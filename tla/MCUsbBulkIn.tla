---------------------------- MODULE MCUsbBulkIn ----------------------------
(* UsbBulkIn on small instances for TLC. *)
EXTENDS UsbBulkIn
=============================================================================
