----------------------------- MODULE MCUsbCtrl -----------------------------
(* UsbCtrl on small instances for TLC. *)
EXTENDS UsbCtrl
=============================================================================
