--------------------------- MODULE MCUsbPipeline ---------------------------
(* Up to five chunks for three slots, so that slots are used again and the  *)
(* oldest URB is not always in the lowest slot; a second call after the     *)
(* first.                                                                   *)
EXTENDS UsbPipeline
=============================================================================
