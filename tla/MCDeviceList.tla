---------------------------- MODULE MCDeviceList ----------------------------
(* A device that has two entries or two devices with one, the whole pool, *)
(* and memory that holds an address of the pool or one of another network. *)
EXTENDS DeviceList

MCLeftovers == {2, Elsewhere}

=============================================================================
