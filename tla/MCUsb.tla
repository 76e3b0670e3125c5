------------------------------- MODULE MCUsb -------------------------------
(* An instance of Usb: a disk at a port of the EHCI controller, and at those of the UHCI
   controller a device with many descriptors and another disk.  The table has room for two
   devices and the driver for one disk, so the second is used when EHCI does not come up
   or the first disk is lost. *)
EXTENDS Usb

MCAttached(p) == IF p = 2 THEN {"big"} ELSE {"disk"}
=============================================================================
