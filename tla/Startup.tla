------------------------------- MODULE Startup -------------------------------
(***************************************************************************)
(* The start of the hub (cmd/server/main.go): configuration file, database *)
(* schema and the migration of table devices, seeding of the catalogue,    *)
(* certificates, listeners.  The process may die between any two writes    *)
(* and is started again over what it left on disk.                         *)
(*                                                                         *)
(* The four configuration files go the same way; app.yaml stands for them. *)
(* The schema and the reset of the compile jobs are idempotent; the reset  *)
(* is part of CompileQueue!HubRestart.                                     *)
(***************************************************************************)
EXTENDS DeviceTable, Naturals

CONSTANTS
    Modules,    \* ids of the modules built into this release
    Mine,       \* those a user's own module had before
    MaxCrashes  \* bound on the number of times the process dies

ASSUME StartAssumption == Mine \subseteq Modules /\ MaxCrashes \in Nat

VARIABLES
    phase,      \* where main() is; "down" before it, "dead" after log.Fatalf
    config,     \* app.yaml: "none", "empty" (created, not written) or "ok"
    ports,      \* the ports the process uses: "default", or "zero"
    crt, key,   \* server.crt and server.key: "none", "torn" or "ok"
    tables,     \* which of the tables devices and devices_v2 exist
    typed,      \* table devices has the column firmware_type
    shadow,     \* rows of devices_v2
    modules,    \* rows of the catalogue: "none", "old" (earlier release), "new" or "user"
    \* history
    mine,       \* modules that are a user's own
    fleet,      \* devices registered and not deleted by a user
    cut,        \* phases in which the process died
    crashes     \* how often it died

disk  == <<config, crt, key, tables, typed, shadow, modules>>
hist  == <<mine, fleet, cut, crashes>>
startVars == <<devices, phase, ports, disk, hist>>

NoRows == [c \in Chips |-> NoRow]

StartTypeOK ==
    /\ devices \in [Chips -> Rows \cup {NoRow}]
    /\ phase \in {"down", "config", "writeConfig", "schema", "detect", "create",
                  "copy", "drop", "rename", "seed", "certs", "fillCrt", "openKey",
                  "fillKey", "listen", "serving", "dead"}
    /\ config \in {"none", "empty", "ok"}
    /\ ports \in {"default", "zero"}
    /\ crt \in {"none", "torn", "ok"}
    /\ key \in {"none", "torn", "ok"}
    /\ tables \subseteq {"devices", "devices_v2"}
    /\ typed \in BOOLEAN
    /\ shadow \in [Chips -> Rows \cup {NoRow}]
    /\ modules \in [Modules -> {"none", "old", "new", "user"}]
    /\ mine \subseteq Modules
    /\ fleet \subseteq Chips
    /\ cut \subseteq {"writeConfig", "copy", "drop", "rename", "fillKey"}
    /\ crashes \in 0..MaxCrashes

\* An empty data directory, or that of a release without firmware_type, which
\* has the rows of OldFleet, files and older built-in modules.
StartInit ==
    /\ phase = "down" /\ ports = "default"
    /\ shadow = NoRows /\ cut = {} /\ crashes = 0
    /\ typed = FALSE
    /\ \/ /\ config = "none" /\ crt = "none" /\ key = "none" /\ tables = {}
          /\ devices = NoRows /\ modules = [m \in Modules |-> "none"]
       \/ /\ config = "ok" /\ crt = "ok" /\ key = "ok" /\ tables = {"devices"}
          /\ devices = OldFleet /\ modules = [m \in Modules |-> IF m \in Mine THEN "user" ELSE "old"]
    /\ mine = {m \in Modules : modules[m] = "user"}
    /\ fleet = Registered

Goto(from, to) == phase = from /\ phase' = to

-----------------------------------------------------------------------------
(* config.Load: the file is created exclusively, then written; a file that *)
(* exists is read, and an empty one parses to ports 0.                     *)

StartProcess ==
    /\ phase \in {"down", "dead"} /\ phase' = "config"
    /\ UNCHANGED <<devices, ports, disk, hist>>

CreateConfig ==
    /\ Goto("config", "writeConfig")
    /\ config = "none" /\ config' = "empty"
    /\ UNCHANGED <<devices, ports, crt, key, tables, typed, shadow, modules, hist>>

WriteConfig ==
    /\ Goto("writeConfig", "schema")
    /\ config' = "ok" /\ ports' = "default"
    /\ UNCHANGED <<devices, crt, key, tables, typed, shadow, modules, hist>>

ReadConfig ==
    /\ Goto("config", "schema")
    /\ config # "none"
    /\ ports' = IF config = "ok" THEN "default" ELSE "zero"
    /\ UNCHANGED <<devices, disk, hist>>

-----------------------------------------------------------------------------
(* db.Open: the schema creates what is missing; a devices table without    *)
(* firmware_type is rebuilt by four statements, each committed on its own. *)

ApplySchema ==
    /\ Goto("schema", "detect")
    /\ tables' = tables \cup {"devices"}
    /\ typed' = (typed \/ "devices" \notin tables)
    /\ UNCHANGED <<devices, ports, config, crt, key, shadow, modules, hist>>

Detect ==
    /\ phase = "detect"
    /\ phase' = IF typed THEN "seed" ELSE "create"
    /\ UNCHANGED <<devices, ports, disk, hist>>

\* CREATE TABLE without IF NOT EXISTS.
CreateShadow ==
    /\ phase = "create"
    /\ phase' = IF "devices_v2" \in tables THEN "dead" ELSE "copy"
    /\ tables' = tables \cup {"devices_v2"}
    /\ UNCHANGED <<devices, ports, config, crt, key, typed, shadow, modules, hist>>

\* Mutant: the INSERT's error is ignored, as the ALTERs' before it are.
CopyRows_ErrorIgnored ==
    /\ Goto("copy", "drop")
    /\ shadow' \in {shadow, devices}
    /\ UNCHANGED <<devices, ports, config, crt, key, tables, typed, modules, hist>>

CopyRows ==
    /\ Goto("copy", "drop")
    /\ shadow' = devices
    /\ UNCHANGED <<devices, ports, config, crt, key, tables, typed, modules, hist>>

DropDevices ==
    /\ Goto("drop", "rename")
    /\ tables' = tables \ {"devices"} /\ devices' = NoRows
    /\ UNCHANGED <<ports, config, crt, key, typed, shadow, modules, hist>>

RenameShadow ==
    /\ Goto("rename", "seed")
    /\ tables' = {"devices"} /\ typed' = TRUE
    /\ devices' = shadow /\ shadow' = NoRows
    /\ UNCHANGED <<ports, config, crt, key, modules, hist>>

-----------------------------------------------------------------------------
(* seed.SeedBuiltins: module after module, the upsert refreshes built-in    *)
(* rows and leaves a user's row of the same id alone.                      *)

\* Mutant: the WHERE of the upsert is missing.
SeedModule_Overwrites(m) ==
    /\ phase = "seed" /\ modules[m] # "new"
    /\ modules' = [modules EXCEPT ![m] = "new"]
    /\ UNCHANGED <<devices, phase, ports, config, crt, key, tables, typed, shadow, hist>>

SeedModule(m) ==
    /\ phase = "seed" /\ modules[m] \in {"none", "old"}
    /\ modules' = [modules EXCEPT ![m] = "new"]
    /\ UNCHANGED <<devices, phase, ports, config, crt, key, tables, typed, shadow, hist>>

Seeded ==
    /\ Goto("seed", "certs")
    /\ \A m \in Modules : modules[m] \in {"new", "user"}
    /\ UNCHANGED <<devices, ports, disk, hist>>

-----------------------------------------------------------------------------
(* tlsutil.EnsureCerts: the certificate is written before the key, each by *)
(* an open that truncates and a write; a pair that exists is never checked.*)

\* Mutant: one of the two files is enough.
EnsureCerts_Either ==
    /\ phase = "certs"
    /\ IF crt # "none" \/ key # "none"
         THEN phase' = "listen" /\ crt' = crt
         ELSE phase' = "fillCrt" /\ crt' = "torn"
    /\ UNCHANGED <<devices, ports, config, key, tables, typed, shadow, modules, hist>>

EnsureCerts ==
    /\ phase = "certs"
    /\ IF crt # "none" /\ key # "none"
         THEN phase' = "listen" /\ crt' = crt
         ELSE phase' = "fillCrt" /\ crt' = "torn"
    /\ UNCHANGED <<devices, ports, config, key, tables, typed, shadow, modules, hist>>

FillCrt ==
    /\ Goto("fillCrt", "openKey")
    /\ crt' = "ok"
    /\ UNCHANGED <<devices, ports, config, key, tables, typed, shadow, modules, hist>>

OpenKey ==
    /\ Goto("openKey", "fillKey")
    /\ key' = "torn"
    /\ UNCHANGED <<devices, ports, config, crt, tables, typed, shadow, modules, hist>>

FillKey ==
    /\ Goto("fillKey", "listen")
    /\ key' = "ok"
    /\ UNCHANGED <<devices, ports, config, crt, tables, typed, shadow, modules, hist>>

\* ListenAndServeTLS loads the pair: log.Fatalf when it cannot.
Listen ==
    /\ phase = "listen"
    /\ phase' = IF crt = "ok" /\ key = "ok" THEN "serving" ELSE "dead"
    /\ UNCHANGED <<devices, ports, disk, hist>>

StartStep ==
    \/ StartProcess \/ CreateConfig \/ WriteConfig \/ ReadConfig
    \/ ApplySchema \/ Detect \/ CreateShadow \/ CopyRows \/ DropDevices \/ RenameShadow
    \/ (\E m \in Modules : SeedModule(m)) \/ Seeded
    \/ EnsureCerts \/ FillCrt \/ OpenKey \/ FillKey \/ Listen

\* The phases in which dying leaves something the next start does not mend.
Windows == {"writeConfig", "copy", "drop", "rename", "fillKey"}

Crash ==
    /\ crashes < MaxCrashes
    /\ phase \notin {"down", "dead"} /\ phase' = "down"
    /\ crashes' = crashes + 1
    /\ cut' = cut \cup ({phase} \cap Windows)
    /\ UNCHANGED <<devices, ports, disk, mine, fleet>>

-----------------------------------------------------------------------------
(* The catalogue's API (internal/api/modules.go) while the hub serves.     *)

\* INSERT OR IGNORE; the answer is 201 even when the id is taken.
CreateModule(m) ==
    /\ phase = "serving" /\ modules[m] = "none"
    /\ modules' = [modules EXCEPT ![m] = "user"]
    /\ mine' = mine \cup {m}
    /\ UNCHANGED <<devices, phase, ports, config, crt, key, tables, typed, shadow, fleet, cut, crashes>>

\* A built-in module can be deleted as well.
DeleteModule(m) ==
    /\ phase = "serving" /\ modules[m] # "none"
    /\ modules' = [modules EXCEPT ![m] = "none"]
    /\ mine' = mine \ {m}
    /\ UNCHANGED <<devices, phase, ports, config, crt, key, tables, typed, shadow, fleet, cut, crashes>>

Catalogue == \E m \in Modules : CreateModule(m) \/ DeleteModule(m)

StartNext == StartStep \/ Crash \/ Catalogue

StartSpec == StartInit /\ [][StartNext]_startVars

-----------------------------------------------------------------------------
(* Properties.                                                             *)

\* No registered device is lost by a start: its row is in devices or waits in
\* devices_v2, and the hub serves the whole fleet unless it died between the
\* DROP and the RENAME of the migration (the next start then creates an empty
\* devices table, takes it for a migrated one and leaves the rows stranded).
FleetKept ==
    /\ \A c \in fleet : devices[c] # NoRow \/ shadow[c] # NoRow
    /\ phase = "serving" /\ "rename" \notin cut => fleet \subseteq Registered

\* Every start brings the built-in modules to this release, also when another
\* one died half-way through them, and never touches a module of the user's,
\* one with a built-in's id included.  This is UpsertBuiltinModule and its own
\* comment; the comment of package seed (seed.go:1, "on first boot", "INSERT OR
\* IGNORE") is out of date for modules.
CatalogueAfterStart ==
    /\ \A m \in mine : modules[m] = "user"
    /\ phase = "serving" => \A m \in Modules : modules[m] # "old"

\* The hub comes up on its default ports, however often it died before, unless
\* it died inside one of the windows: between creating and writing app.yaml,
\* in the migration, or while writing the key.
HubServes == <>((phase = "serving" /\ ports = "default") \/ cut # {})
=============================================================================
