-------------------------------- MODULE Device --------------------------------
(***************************************************************************)
(* A device: Boot until Matter runs or the device has given it up, the     *)
(* console from the start on, and the light that both set.                 *)
(***************************************************************************)
EXTENDS Boot, Light

deviceVars == <<bootVars, lightVars>>

DeviceInit == InitBoot /\ InitLight

PowerOn == Start /\ ResetLight(cfg'.pins)

MatterTask ==
    /\ boot = "matter" /\ AttributeUpdate
    /\ UNCHANGED bootVars

\* The console runs one command at a time.
ConsoleTask ==
    /\ boot # "off"
    /\ \/ ~testing /\ Console /\ UNCHANGED bootVars
       \/ Prompt /\ (TestDisconnect \/ TestConnect) /\ UNCHANGED lightVars

LightStep == \E t \in Tasks : SetCh(t) /\ UNCHANGED bootVars

WifiStep == (AppMain \/ Wifi) /\ UNCHANGED lightVars

FactoryReset == Prompt /\ ~testing /\ Reset(Erased) /\ ResetLight({})

Restart == Reset(cfg) /\ ResetLight({})

DeviceNext ==
    PowerOn \/ MatterTask \/ ConsoleTask \/ LightStep \/ WifiStep \/ FactoryReset \/ Restart

DeviceSpec == DeviceInit /\ [][DeviceNext]_deviceVars

DeviceTypeOK == BootTypeOK /\ LightTypeOK
=============================================================================
