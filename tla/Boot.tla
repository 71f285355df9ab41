--------------------------------- MODULE Boot ---------------------------------
(***************************************************************************)
(* The start of a device and its WiFi (firmware/main/app_main.cpp): the    *)
(* configuration from NVS, the light, the console, then up to 60 seconds   *)
(* for an address; Matter is started only after that, or never.  The WiFi  *)
(* driver is external: it posts events that one task handles in order.     *)
(***************************************************************************)
EXTENDS Naturals, Sequences

CONSTANTS
    Configs,        \* what the hub may have written to NVS
    WIFI_MAX_RETRIES,
    MaxEvents       \* bound on the events waiting: the event task keeps up

Configuration == [ssid : BOOLEAN, pins : SUBSET {1, 2}]

ASSUME BootAssumption == Configs \subseteq Configuration /\ WIFI_MAX_RETRIES \in Nat /\ MaxEvents \in Nat

VARIABLES
    cfg,        \* NVS
    boot,       \* where app_main is
    link,       \* the driver: "off", "idle", "connecting", "associated" or "up"
    events,     \* events posted and not handled
    retries,    \* s_wifi_retries
    bits,       \* the event group
    testing,    \* the console is between the two halves of wifi_test
    \* history
    why,        \* why Matter was not started
    tested,     \* wifi_test was used
    drops       \* disconnections handled since the last address, up to one more
                \* than the retries

bootVars == <<cfg, boot, link, events, retries, bits, testing, why, tested, drops>>

\* An erased NVS: no SSID, no module.
Erased == [ssid |-> FALSE, pins |-> {}]

BootTypeOK ==
    /\ cfg \in Configuration
    /\ boot \in {"off", "started", "starting", "wait", "address", "matter", "console"}
    /\ link \in {"off", "idle", "connecting", "associated", "up"}
    /\ events \in Seq({"start", "disconnected", "ip"})
    /\ retries \in 0..WIFI_MAX_RETRIES
    /\ bits \subseteq {"connected", "fail"}
    /\ testing \in BOOLEAN
    /\ why \in {"none", "no ssid", "gave up", "timeout", "failed"}
    /\ tested \in BOOLEAN
    /\ drops \in 0..(WIFI_MAX_RETRIES + 1)

InitBoot ==
    /\ cfg \in Configs /\ boot = "off" /\ link = "off" /\ events = <<>>
    /\ retries = 0 /\ bits = {} /\ testing = FALSE
    /\ why = "none" /\ tested = FALSE /\ drops = 0

-----------------------------------------------------------------------------
(* app_main.                                                               *)

\* NVS is initialised (and erased when it is corrupt), the configuration read,
\* the light set up with its pins and the console started.
Start ==
    /\ boot = "off"
    /\ cfg' \in {cfg, Erased}
    /\ boot' = IF cfg'.ssid THEN "started" ELSE "console"
    /\ why' = IF cfg'.ssid THEN "none" ELSE "no ssid"
    /\ UNCHANGED <<link, events, retries, bits, testing, tested, drops>>

\* wifi_connect up to esp_wifi_start.
StartWifi ==
    /\ boot = "started" /\ boot' = "starting"
    /\ retries' = 0 /\ bits' = {}
    /\ link' = "idle" /\ events' = <<"start">>
    /\ UNCHANGED <<cfg, testing, why, tested, drops>>

\* The bits the waiting task wakes up with decide; CONNECTED wins.
Decide(b) ==
    /\ boot' = IF "connected" \in b THEN "address" ELSE "console"
    /\ why' = IF "connected" \in b THEN "none" ELSE "gave up"

Wait ==
    /\ boot = "starting"
    /\ IF bits = {} THEN boot' = "wait" /\ UNCHANGED why ELSE Decide(bits)
    /\ UNCHANGED <<cfg, link, events, retries, bits, testing, tested, drops>>

Timeout ==
    /\ boot = "wait"
    /\ boot' = "console" /\ why' = "timeout"
    /\ UNCHANGED <<cfg, link, events, retries, bits, testing, tested, drops>>

\* matter_app_start; its error is only logged.
StartMatter ==
    /\ boot = "address"
    /\ \/ boot' = "matter" /\ UNCHANGED why
       \/ boot' = "console" /\ why' = "failed"
    /\ UNCHANGED <<cfg, link, events, retries, bits, testing, tested, drops>>

-----------------------------------------------------------------------------
(* wifi_event_handler, in the event task.                                  *)

\* esp_wifi_connect: an error unless the station is idle, and nobody looks.
Connect == link' = IF link = "idle" THEN "connecting" ELSE link

Take(e) == events # <<>> /\ Head(events) = e /\ events' = Tail(events)

SetBits(b) ==
    /\ bits' = bits \cup {b}
    /\ IF boot = "wait" THEN Decide(bits') ELSE UNCHANGED <<boot, why>>

HandleStart ==
    /\ Take("start") /\ Connect
    /\ UNCHANGED <<cfg, boot, retries, bits, testing, why, tested, drops>>

\* Mutant: FAIL is set with the first failure.
HandleDisconnected_FailsFirst ==
    /\ Take("disconnected")
    /\ drops' = IF drops <= WIFI_MAX_RETRIES THEN drops + 1 ELSE drops
    /\ IF retries < WIFI_MAX_RETRIES
         THEN Connect /\ retries' = retries + 1
         ELSE UNCHANGED <<link, retries>>
    /\ SetBits("fail")
    /\ UNCHANGED <<cfg, testing, tested>>

HandleDisconnected ==
    /\ Take("disconnected")
    /\ drops' = IF drops <= WIFI_MAX_RETRIES THEN drops + 1 ELSE drops
    /\ IF retries < WIFI_MAX_RETRIES
         THEN Connect /\ retries' = retries + 1 /\ UNCHANGED <<bits, boot, why>>
         ELSE SetBits("fail") /\ UNCHANGED <<link, retries>>
    /\ UNCHANGED <<cfg, testing, tested>>

\* Mutant: the counter is reset only when a connection is begun.
HandleIP_KeepsRetries ==
    /\ Take("ip") /\ drops' = 0
    /\ SetBits("connected")
    /\ UNCHANGED <<cfg, link, retries, testing, tested>>

HandleIP ==
    /\ Take("ip") /\ retries' = 0 /\ drops' = 0
    /\ SetBits("connected")
    /\ UNCHANGED <<cfg, link, testing, tested>>

-----------------------------------------------------------------------------
(* The driver and the access point.                                        *)

Post(from, to, e) ==
    /\ link \in from /\ link' = to
    /\ Len(events \o e) <= MaxEvents /\ events' = events \o e
    /\ UNCHANGED <<cfg, boot, retries, bits, testing, why, tested, drops>>

\* STA_CONNECTED only starts DHCP.
Driver ==
    \/ Post({"connecting"}, "associated", <<>>)
    \/ Post({"associated"}, "up", <<"ip">>)
    \/ Post({"connecting", "associated", "up"}, "idle", <<"disconnected">>)
    \/ boot = "matter" /\ Post({"idle"}, "connecting", <<>>)   \* esp-matter's own manager

-----------------------------------------------------------------------------
(* The console's wifi_test: disconnect, then new credentials and connect.  *)

TestDisconnect ==
    /\ ~testing /\ link # "off" /\ Len(events) < MaxEvents
    /\ testing' = TRUE /\ tested' = TRUE
    /\ IF link = "idle" THEN UNCHANGED <<link, events>>
       ELSE link' = "idle" /\ events' = Append(events, "disconnected")
    /\ UNCHANGED <<cfg, boot, retries, bits, why, drops>>

\* When the handler has begun a retry meanwhile the credentials are refused.
TestConnect ==
    /\ testing /\ testing' = FALSE
    /\ Connect
    /\ UNCHANGED <<cfg, boot, events, retries, bits, why, tested, drops>>

\* A reboot, a power cut or a failed ESP_ERROR_CHECK; factory_reset erases NVS.
Reset(nvs) ==
    /\ boot # "off" /\ boot' = "off" /\ cfg' = nvs
    /\ link' = "off" /\ events' = <<>> /\ retries' = 0 /\ bits' = {} /\ testing' = FALSE
    /\ why' = "none" /\ tested' = FALSE /\ drops' = 0

AppMain == StartWifi \/ Wait \/ Timeout \/ StartMatter

Wifi == HandleStart \/ HandleDisconnected \/ HandleIP \/ Driver

-----------------------------------------------------------------------------
(* Properties.                                                             *)

\* The radio is silent for good only after all the retries failed in a row
\* since the last address: an event lost to wifi_test or one that comes while
\* another attempt runs never ends the chain of attempts.
SilentMeansGaveUp ==
    link = "idle" /\ events = <<>> => drops > WIFI_MAX_RETRIES

\* A device that has an address and no Matter got it after the 60 seconds, or
\* by wifi_test, or Matter failed: never because a retry followed the verdict.
OnlineWithoutMatter ==
    link = "up" /\ boot = "console" => why \in {"timeout", "failed"} \/ tested
=============================================================================
