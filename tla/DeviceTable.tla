----------------------------- MODULE DeviceTable -----------------------------
(***************************************************************************)
(* Table devices (internal/db/device.go).  A row is abstracted to the      *)
(* bundle it was registered with (the key and the Matter credentials drawn *)
(* by one flash attempt) and to where the firmware version it shows comes  *)
(* from: the bundle whose key signed the report.  Each operation is one    *)
(* SQL statement.                                                          *)
(***************************************************************************)
CONSTANTS
    Chips,      \* device ids: "esp-" and the last three bytes of the MAC
    Bundles,    \* everything one attempt generates: PSK, discriminator, passcode
    NoRow,      \* no row for this id
    Nothing,    \* no bundle, no version, no message
    OldFleet    \* the rows at the start

VARIABLE devices    \* Chips -> row or NoRow

Rows == [bundle : Bundles, by : Bundles \cup {Nothing}]

ASSUME DevicesAssumption == NoRow \notin Rows /\ OldFleet \in [Chips -> Rows \cup {NoRow}]

Registered == {c \in Chips : devices[c] # NoRow}

\* A plain INSERT: it fails when the id is taken.
CreateDevice(c, b) ==
    /\ devices[c] = NoRow
    /\ devices' = [devices EXCEPT ![c] = [bundle |-> b, by |-> b]]

\* The UPDATE is by id; it touches nothing when the row has gone meanwhile.
UpdateDeviceFWVersion(c, b) ==
    devices' = [devices EXCEPT ![c] = IF @ = NoRow THEN NoRow ELSE [@ EXCEPT !.by = b]]

DeleteDevice(c) == devices' = [devices EXCEPT ![c] = NoRow]
=============================================================================
