------------------------- MODULE MCDeviceBootstrap -------------------------
(***************************************************************************)
(* Instances of DeviceBootstrap: a phone that enrolls with a desktop. The  *)
(* bounds allow the phone one recovery, and an interrupted start after it. *)
(***************************************************************************)
EXTENDS DeviceBootstrap, TLC

PhoneCallsDesk == {<<"phone", "desk">>}
IdsMade == [phone |-> 2, desk |-> 1]
KeysMade == [phone |-> 3, desk |-> 1]
AnyOrder == Permutations(Session)
=============================================================================
