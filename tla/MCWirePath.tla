----------------------------- MODULE MCWirePath -----------------------------
(* One command line per subcommand of hsm-host, the arguments at the       *)
(* boundaries the code checks: the first and the last slot, one past it,   *)
(* a slot above 7, a counter that does not exist, a short PIN.             *)
EXTENDS WirePath

Line(cmd, args) == [cmd |-> cmd, args |-> args]

Pin(d) == <<48, 48, 48, 48 + d>>
Puk(d) == <<49, 50, 51, 52, 53, 54, 55, 48 + d>>
IoKey  == Sample(5, 32)

(* A factory-fresh chip, one with the generator's zone locked, and one     *)
(* whose data zone is locked too.                                          *)
FactoryZone ==
  Sample(3, 16) \o Zeros(70) \o <<UNLOCKED, UNLOCKED, 255, 255>> \o Zeros(38)
Written == Sample(4, 16) \o SubSeq(build, 17, 128)
MCZones == { FactoryZone, [Written EXCEPT ![88] = 0], [Written EXCEPT ![87] = 0, ![88] = 0] }

MCAsked ==
  { Line("Info", <<>>), Line("ReadConfig", <<>>), Line("ReadConfigSlot", <<9>>),
    Line("ReadSlotBlock", <<9, 1>>), Line("ReadSlotWord", <<5, 0, 7>>),
    Line("ReadSlotBlock", <<16, 0>>), Line("WriteConfig", <<build>>),
    Line("ProvisionSlot", <<5, Sample(6, 32)>>), Line("ProvisionSlot", <<2, Sample(6, 32)>>),
    Line("GetPubkey", <<15>>), Line("GenKey", <<15>>), Line("Sign", <<0, Sample(7, 32)>>),
    Line("VerifyPin", <<Pin(1)>>), Line("VerifyPin", <<Puk(1)>>),
    Line("SetPin", <<Pin(1), Pin(2), IoKey>>), Line("UnblockPin", <<Puk(1), Pin(2), IoKey>>),
    Line("SetPuk", <<Puk(1), Puk(2), IoKey>>), Line("CloseSession", <<>>),
    Line("EmergencyReset", <<IoKey>>), Line("GetPinStatus", <<>>),
    Line("ReadCounter", <<1>>), Line("ReadCounter", <<2>>), Line("LockConfig", <<>>),
    Line("LockDataZone", <<>>), Line("LockSlot", <<15>>) }

(* The four irreversible commands, an ordinary one and no command at all. *)
MCStrayOpcodes == {13, 240, 241, 242, 6, 200}

(* Count byte, first byte of the data, both ends of the CRC. *)
MCNoise == {<<1, 0>>, <<1, 2>>, <<2, 3>>, <<0, 0>>, <<0, 7>>}
=============================================================================
