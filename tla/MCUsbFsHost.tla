----------------------------- MODULE MCUsbFsHost -----------------------------
(* UsbFsHost with a device of every kind, and reports of one key.          *)
EXTENDS UsbFsHost

MCDevices == {"k", "m", "h", "x"}
MCKind == [d \in MCDevices |->
             CASE d = "k" -> "keyboard" [] d = "m" -> "mouse" [] d = "h" -> "hub" [] OTHER -> "mute"]
=============================================================================
