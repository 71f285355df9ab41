----------------------------- MODULE Provisioning -----------------------------
(***************************************************************************)
(* How a chip gets its firmware, its key and its row, and how it reports   *)
(* back: flashing over the hub's USB port (internal/api/flash.go,          *)
(* internal/flash/orchestrator.go), the browser that flashes a chip with   *)
(* what WebFlash prepared, the version check of a device (internal/ota)    *)
(* and the deletion of its row (internal/api/devices.go).                  *)
(*                                                                         *)
(* One run of esptool is one step: it opens the port exclusively.  It may  *)
(* fail, having written nothing, part or all of what it was to write, and  *)
(* the user may plug in another chip between two runs.                     *)
(***************************************************************************)
EXTENDS DeviceTable, WebFlash

CONSTANTS
    Requests,   \* POST /api/flash/run
    Names,      \* the number of device names of each
    FwOf,       \* the version each asks for
    OldVersion, \* the one on the devices registered at the start
    KindOf      \* what a version's file is: the "app" alone or the "merged" image

Attempts == UNION {{r} \X (1..Names[r]) : r \in Requests}

ASSUME ProvAssumption ==
    /\ Attempts \cup Tokens \subseteq Bundles
    /\ FwOf \in [Requests -> Versions]
    /\ OldVersion \in Versions
    /\ KindOf \in [Versions -> {"app", "merged"}]
    /\ Nothing \notin Bundles
    /\ Names \in [Requests -> Nat \ {0}]    \* a list without a name is a 400

\* Two draws of 32 random bytes are never the same; the fleet at the start has
\* keys of earlier ones and versions come by as below.
ASSUME FreshKeys ==
    /\ Attempts \cap Tokens = {}
    /\ \A c, d \in Chips : c # d /\ OldFleet[c] # NoRow /\ OldFleet[d] # NoRow =>
          OldFleet[c].bundle # OldFleet[d].bundle
    /\ \A c \in Chips : OldFleet[c] # NoRow =>
          /\ OldFleet[c].bundle \notin Attempts \cup Tokens
          /\ OldFleet[c].by \in {OldFleet[c].bundle, Nothing}

VARIABLES
    \* the chips
    plugged,    \* the chip on the hub's port
    image,      \* what its flash holds: a version at 0 ("base") or at 0x20000 ("slot"),
                \* or nothing that runs
    nvs,        \* the bundle in its NVS partition
    writer,     \* history: the bundle of whoever wrote image or NVS last;
                \* Nothing when the chip was unplugged in the middle
    \* runFlash
    call,       \* of each request: the step, the name's number, the id read
    result,     \* what FlashDevice returned to each attempt, "gone" when its
                \* row was deleted since (history)
    \* GET /ota/check
    msg         \* an authentic request whose report is not written yet; moot once
                \* the row it was checked against has gone (history)

usb  == <<plugged, image, nvs, writer>>
runs == <<call, result>>
provVars == <<devices, usb, runs, msg, webVars>>

Steps == {"new", "chip", "image", "nvs", "insert", "over"}

Images == [at : {"base", "slot"}, fw : Versions] \cup [at : {"torn"}, fw : {NoVersion}]

Torn == [at |-> "torn", fw |-> NoVersion]

ProvTypeOK ==
    /\ devices \in [Chips -> Rows \cup {NoRow}]
    /\ plugged \in Chips
    /\ image \in [Chips -> Images]
    /\ nvs \in [Chips -> Bundles \cup {Nothing}]
    /\ writer \in [Chips -> Bundles \cup {Nothing}]
    /\ call \in [Requests -> [pc : Steps, i : Nat, id : Chips \cup {Nothing}]]
    /\ \A r \in Requests : call[r].i \in 1..Names[r]
    /\ result \in [Attempts -> {"none", "ok", "failed", "gone"}]
    /\ msg \in [id : Chips, key : Bundles, moot : BOOLEAN] \cup {Nothing}
    /\ WebTypeOK

\* The devices registered at the start hold the bundle of their row.
ProvInit ==
    /\ devices = OldFleet
    /\ plugged \in Chips
    /\ image = [c \in Chips |-> IF devices[c] = NoRow THEN Torn
                                ELSE [at |-> "base", fw |-> OldVersion]]
    /\ nvs = [c \in Chips |-> IF devices[c] = NoRow THEN Nothing ELSE devices[c].bundle]
    /\ writer = nvs
    /\ call = [r \in Requests |-> [pc |-> "new", i |-> 1, id |-> Nothing]]
    /\ result = [a \in Attempts |-> "none"]
    /\ msg = Nothing
    /\ WebInit

-----------------------------------------------------------------------------
(* runFlash: FlashDevice for each name in turn, on the one port, up to the *)
(* first error.                                                            *)

\* Mutant: the key is drawn once, for the whole request.
Current_OfRequest(r) == <<r, 1>>

\* The attempt for the name at hand, and the key it draws.
Current(r) == <<r, call[r].i>>

Advance(r, pc) == call' = [call EXCEPT ![r].pc = pc]

\* An attempt returns its error and the loop is left.
GiveUp(r) ==
    /\ Advance(r, "over")
    /\ result' = [result EXCEPT ![Current(r)] = "failed"]

\* Template and firmware file were found.
StartFlash(r) ==
    /\ call[r].pc = "new"
    /\ Advance(r, "chip")
    /\ UNCHANGED <<devices, usb, result, msg, webVars>>

\* esptool chip_id; then key, credentials, CSV and NVS binary are generated.
ReadChip(r) ==
    /\ call[r].pc = "chip"
    /\ \/ /\ call' = [call EXCEPT ![r].pc = "image", ![r].id = plugged]
          /\ UNCHANGED result
       \/ GiveUp(r)
    /\ UNCHANGED <<devices, usb, msg, webVars>>

Wrote(r) == writer' = [writer EXCEPT ![plugged] = Current(r)]

\* write_flash at 0: a megabyte and a half, over the NVS partition as well.
WriteImage(r) ==
    /\ call[r].pc = "image"
    /\ \/ /\ Advance(r, "nvs")
          /\ image' = [image EXCEPT ![plugged] = [at |-> "base", fw |-> FwOf[r]]]
          /\ nvs' = [nvs EXCEPT ![plugged] = Nothing]
          /\ Wrote(r) /\ UNCHANGED result
       \/ /\ GiveUp(r)
          /\ image' = [image EXCEPT ![plugged] = Torn]
          /\ nvs' \in {nvs, [nvs EXCEPT ![plugged] = Nothing]}
          /\ Wrote(r)
       \/ GiveUp(r) /\ UNCHANGED <<image, nvs, writer>>
    /\ UNCHANGED <<devices, plugged, msg, webVars>>

\* Mutant: the error of the second write is not looked at.
WriteNVS_ErrorIgnored(r) ==
    /\ call[r].pc = "nvs"
    /\ Advance(r, "insert")
    /\ nvs' \in {nvs, [nvs EXCEPT ![plugged] = Current(r)]}
    /\ Wrote(r)
    /\ UNCHANGED <<devices, plugged, image, result, msg, webVars>>

WriteNVS(r) ==
    /\ call[r].pc = "nvs"
    /\ \/ /\ Advance(r, "insert")
          /\ nvs' = [nvs EXCEPT ![plugged] = Current(r)]
          /\ Wrote(r) /\ UNCHANGED result
       \/ /\ GiveUp(r)
          /\ \E b \in {Nothing, Current(r)} : nvs' = [nvs EXCEPT ![plugged] = b]
          /\ Wrote(r)
       \/ GiveUp(r) /\ UNCHANGED <<nvs, writer>>
    /\ UNCHANGED <<devices, plugged, image, msg, webVars>>

\* Mutant: the loop's bound is off by one.
Succeed_OffByOne(r) ==
    /\ result' = [result EXCEPT ![Current(r)] = "ok"]
    /\ call' = [call EXCEPT ![r].pc = IF call[r].i <= Names[r] THEN "chip" ELSE "over",
                            ![r].i = IF @ <= Names[r] THEN @ + 1 ELSE @]

\* FlashDevice returns nil and the loop goes on.
Succeed(r) ==
    /\ result' = [result EXCEPT ![Current(r)] = "ok"]
    /\ call' = [call EXCEPT ![r].pc = IF call[r].i < Names[r] THEN "chip" ELSE "over",
                            ![r].i = IF @ < Names[r] THEN @ + 1 ELSE @]

\* Mutant: a row that exists is not an error.
Register_ErrorIgnored(r) ==
    /\ call[r].pc = "insert"
    /\ \/ CreateDevice(call[r].id, Current(r))
       \/ devices[call[r].id] # NoRow /\ UNCHANGED devices
    /\ Succeed(r)
    /\ UNCHANGED <<usb, msg, webVars>>

\* The INSERT fails when the chip is registered already: it keeps its old row.
Register(r) ==
    /\ call[r].pc = "insert"
    /\ \/ CreateDevice(call[r].id, Current(r)) /\ Succeed(r)
       \/ devices[call[r].id] # NoRow /\ GiveUp(r) /\ UNCHANGED devices
    /\ UNCHANGED <<usb, msg, webVars>>

\* The user plugs in another chip, whatever the hub is doing.
PlugIn(c) ==
    /\ c # plugged /\ plugged' = c
    /\ writer' = [d \in Chips |->
                     IF \E r \in Requests : writer[d] = Current(r) /\ call[r].pc \in {"nvs", "insert"}
                       THEN Nothing ELSE writer[d]]
    /\ UNCHANGED <<devices, image, nvs, runs, msg, webVars>>

Flashing(r) == StartFlash(r) \/ ReadChip(r) \/ WriteImage(r) \/ WriteNVS(r) \/ Register(r)

RemoveDevice(c) ==
    /\ devices[c] # NoRow /\ DeleteDevice(c)
    /\ result' = [a \in Attempts |-> IF a = devices[c].bundle THEN "gone" ELSE result[a]]
    /\ msg' = IF msg # Nothing /\ msg.id = c
                THEN [msg EXCEPT !.moot = TRUE] ELSE msg
    /\ UNCHANGED <<usb, call, webVars>>

WebHandlers == WebNext /\ UNCHANGED <<devices, usb, runs, msg>>

\* The browser installs the parts it fetched, on a port of its own; the hub
\* does not register the chip.
BrowserFlash(c, t) ==
    /\ page[t].pc = "complete"
    /\ \/ /\ image' = [image EXCEPT ![c] = [at |-> "slot", fw |-> page[t].fw]]
          /\ nvs' = [nvs EXCEPT ![c] = t]
       \/ image' = [image EXCEPT ![c] = Torn] /\ nvs' = [nvs EXCEPT ![c] = Nothing]
    /\ writer' = [writer EXCEPT ![c] = t]
    /\ UNCHANGED <<devices, plugged, runs, msg, webVars>>

-----------------------------------------------------------------------------
(* GET /ota/check: the row is read and the signature checked with its key, *)
(* then the version is written by id.                                      *)

\* Mutant: an unknown signature is accepted.
Authenticate_AnyKey(c, b) ==
    /\ msg = Nothing
    /\ devices[c] # NoRow
    /\ msg' = [id |-> c, key |-> b, moot |-> FALSE]
    /\ UNCHANGED <<devices, usb, runs, webVars>>

\* A request in the name of device c, signed with b at most five minutes ago:
\* a key the chip holds or held.  Any other request changes nothing (401), and
\* one that was answered may come again.
Authenticate(c, b) ==
    /\ msg = Nothing
    /\ devices[c] # NoRow /\ devices[c].bundle = b
    /\ msg' = [id |-> c, key |-> b, moot |-> FALSE]
    /\ UNCHANGED <<devices, usb, runs, webVars>>

HandleCheck ==
    /\ msg # Nothing
    /\ UpdateDeviceFWVersion(msg.id, IF msg.moot THEN Nothing ELSE msg.key)
    /\ msg' = Nothing
    /\ UNCHANGED <<usb, runs, webVars>>

\* A dying hub takes along its requests and the web sessions.  (A death in the
\* middle of a write is that write's failure, then the death.)
HubRestart ==
    /\ call' = [r \in Requests |-> IF call[r].pc = "new" THEN call[r]
                                   ELSE [call[r] EXCEPT !.pc = "over"]]
    /\ msg' = Nothing
    /\ WebRestart
    /\ UNCHANGED <<devices, usb, result>>

ProvNext ==
    \/ \E r \in Requests : Flashing(r)
    \/ \E c \in Chips : PlugIn(c) \/ RemoveDevice(c)
    \/ \E c \in Chips, t \in Tokens : BrowserFlash(c, t)
    \/ \E c \in Chips, b \in Bundles : Authenticate(c, b)
    \/ HandleCheck \/ HubRestart \/ WebHandlers

ProvSpec == ProvInit /\ [][ProvNext]_provVars

-----------------------------------------------------------------------------
(* Properties.                                                             *)

\* A row is never ahead of its chip: when nobody else wrote to the chip since
\* the attempt that registered it, and no other chip was plugged in during the
\* attempt, the chip holds the key of its row.
RowMatchesChip ==
    \A c \in Registered :
        LET b == devices[c].bundle IN
        writer[c] = b => nvs[c] = b

\* "ok" means enrolled: the row of the attempt is in the table until a user
\* deletes it.  In particular a chip that was given a new key while its old
\* row stood (flashed again, or left on the port for the next name) is never
\* reported as flashed.
OkMeansEnrolled ==
    \A a \in Attempts :
        result[a] = "ok" => \E c \in Registered : devices[c].bundle = a

\* No two devices share a key, neither in the table nor on the chips, though one
\* request flashes several names on one port, chips are swapped between its
\* runs, writes fail after they reached the chip, and ids are registered again.
\* Only the key of a browser session is on as many chips as the user installs
\* its parts on; the hub has no row for those.
KeysAreApart ==
    \A c, d \in Chips : c # d =>
        /\ {c, d} \subseteq Registered => devices[c].bundle # devices[d].bundle
        /\ nvs[c] = nvs[d] => nvs[c] \in Tokens \cup {Nothing}

\* The version a row shows is the one its device was flashed with or reported
\* under the row's own key, not that of a device that had the id before;
\* except that a row which replaced another one between the signature check
\* and the update gets the report of the old one.
ReportedVersionIsOwn ==
    \A c \in Registered : devices[c].by \in {devices[c].bundle, Nothing}

\* A chip that a browser flashed last runs the version its session was
\* prepared with and announced, whichever is the latest by then.
InstalledAsPrepared ==
    \A c \in Chips :
        nvs[c] \in Tokens /\ writer[c] = nvs[c] =>
            /\ image[c] = [at |-> "slot", fw |-> sessionFw[nvs[c]]]
            /\ image[c].fw = page[nvs[c]].label

\* The program at its address, with what must surround it.
Boots(c) ==
    \/ image[c].at = "base" /\ KindOf[image[c].fw] = "merged"
    \/ image[c].at = "slot" /\ KindOf[image[c].fw] = "app"

\* BUILD.md, "Flash via hub": what the hub writes at 0 is the full image with
\* bootloader and partition table, so a chip that was registered and holds its
\* key boots.
FlashedDeviceRuns ==
    \A c \in Registered : devices[c].bundle \in Attempts /\ nvs[c] = devices[c].bundle => Boots(c)
=============================================================================
