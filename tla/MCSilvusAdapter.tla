--------------------------- MODULE MCSilvusAdapter ---------------------------
(***************************************************************************)
(* Small instances of SilvusAdapter.  The radio advertises 10 and 20; 15   *)
(* is a default of the adapter's it does not have, 5 the factory frequency *)
(* no channel stands for.  28.6 dBm is a license ceiling that is no whole  *)
(* number, 2 dBm an ordinary value, 30 dBm too much.  A soft boot lasts 2  *)
(* ticks, as the adapter's window does (30 s each in the code), a radio    *)
(* reset 3 (60 s).                                                         *)
(***************************************************************************)
EXTENDS SilvusAdapter

MCProfile == {10, 20}
MCProfileList == <<10, 20>>
MCDefaultList == <<10, 15>>

MCOps == SilvusOps
\* refresh_state has no caller in the service.
ServiceOps == {"set_power", "set_channel"}

MCChannelRequests == {<<1, 10>>, <<2, 15>>, <<0, 10>>}
FewChannels == {<<1, 10>>, <<2, 20>>}
MCPowerRequests == {286, 300}
FewPowers == {20, 286}

MaxPowerOn == Request("enable_max_power", 1)
MaxPowerOff == Request("enable_max_power", 0)
MCMaintenance == {MaxPowerOn, MaxPowerOff, Request("freq", 20),
                  Request("radio_reset", 0), Request("zeroize", 0),
                  Request("factory_reset", 0)}
ModeChanges == {MaxPowerOn, MaxPowerOff}
Nobody == {}
=============================================================================
