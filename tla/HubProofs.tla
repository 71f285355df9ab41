------------------------------ MODULE HubProofs ------------------------------
(***************************************************************************)
(* For any fleet, catalogue, number of crashes, builds and tabs: what the  *)
(* starts of the hub keep, and what a tab and the Docker daemon see of the *)
(* firmware builds.                                                        *)
(*                                                                         *)
(* Behind FleetKept stands one fact of the migration: once the process has *)
(* died between the DROP and the RENAME the table is missing, the next     *)
(* start creates one that counts as migrated, and no start migrates again. *)
(***************************************************************************)
EXTENDS Hub, TLAPS

Migrating == {"create", "copy", "drop", "rename"}
Later     == {"certs", "fillCrt", "openKey", "fillKey", "listen", "serving"}

\* The rows are in devices, but for the moment between the two statements; and
\* whoever died then left no table to migrate.
Migration ==
    /\ phase # "rename" /\ "rename" \notin cut => fleet \subseteq Registered
    /\ phase \in {"drop", "rename"} => \A c \in fleet : shadow[c] # NoRow
    /\ phase = "rename" => "devices" \notin tables
    /\ phase = "detect" => "devices" \in tables
    /\ phase \in Migrating => "rename" \notin cut
    /\ "rename" \in cut => typed \/ "devices" \notin tables

\* No row of an earlier release survives the seeding.
Refreshed == phase \in Later => \A m \in Modules : modules[m] # "old"

\* A build that is neither to come nor over belongs to the goroutine that the
\* status request shows.
Jobs ==
    \A b \in Builds :
        /\ job[b].done <=> job[b].pc = "over"
        /\ job[b].on => job[b].pc \in Docker
        /\ job[b].pc \notin {"new", "over", "lost"} => b = activeBuild

Opened == \A s \in Tabs : tab[s].pc # "closed" => tab[s].job \in Builds

StartIInv == StartTypeOK /\ FleetKept /\ Migration /\ CatalogueAfterStart /\ Refreshed

BuildIInv == BuildTypeOK /\ Jobs /\ Opened /\ TerminalHasAll /\ OneBuild

IInv == StartIInv /\ BuildIInv

-----------------------------------------------------------------------------
(* Start-up.                                                                *)

LEMMA InitStart == StartInit => StartIInv
<1> SUFFICES ASSUME StartInit PROVE StartIInv
  OBVIOUS
<1> USE DEF StartInit
<1>1. StartTypeOK
  <2>1. devices \in [Chips -> Rows \cup {NoRow}] /\ shadow \in [Chips -> Rows \cup {NoRow}]
    BY DevicesAssumption DEF NoRows
  <2>2. modules \in [Modules -> {"none", "old", "new", "user"}]
    OBVIOUS
  <2>3. fleet \subseteq Chips /\ mine \subseteq Modules /\ crashes \in 0..MaxCrashes
    BY StartAssumption DEF Registered
  <2> QED
    BY <2>1, <2>2, <2>3 DEF StartTypeOK
<1>2. FleetKept /\ Migration
  BY DEF FleetKept, Migration, Migrating, Registered
<1>3. CatalogueAfterStart /\ Refreshed
  BY DEF CatalogueAfterStart, Refreshed, Later
<1> QED
  BY <1>1, <1>2, <1>3 DEF StartIInv

\* A step that touches neither the fleet nor the catalogue and goes on to a
\* phase that asks nothing of them.
LEMMA PlainStep ==
    ASSUME StartIInv, StartTypeOK',
           UNCHANGED <<devices, tables, typed, shadow, modules, hist>>,
           phase # "rename",
           phase' \in {"config", "writeConfig", "schema", "seed", "dead"} \cup Later,
           phase' \in Later => phase \in Later
    PROVE  StartIInv'
<1> USE DEF StartIInv, hist
<1>1. FleetKept' /\ Migration'
  BY DEF FleetKept, Migration, Migrating, Later, Registered
<1>2. CatalogueAfterStart' /\ Refreshed'
  BY DEF CatalogueAfterStart, Refreshed, Later
<1> QED
  BY <1>1, <1>2

LEMMA ConfigKeeps ==
    ASSUME StartIInv, StartProcess \/ CreateConfig \/ WriteConfig \/ ReadConfig
    PROVE  StartIInv'
<1>1. /\ UNCHANGED <<devices, tables, typed, shadow, modules, hist>> /\ phase # "rename"
      /\ phase' \in {"config", "writeConfig", "schema"}
  BY DEF StartProcess, CreateConfig, WriteConfig, ReadConfig, Goto, disk
<1>2. StartTypeOK'
  <2> USE DEF StartIInv, StartTypeOK, Goto, disk, hist
  <2>1. CASE StartProcess \/ ReadConfig
    BY <2>1 DEF StartProcess, ReadConfig
  <2>2. CASE CreateConfig
    BY <2>2 DEF CreateConfig
  <2>3. CASE WriteConfig
    BY <2>3 DEF WriteConfig
  <2> QED
    BY <2>1, <2>2, <2>3
<1> QED
  BY <1>1, <1>2, PlainStep DEF Later

LEMMA CertsKeep ==
    ASSUME StartIInv, EnsureCerts \/ FillCrt \/ OpenKey \/ FillKey \/ Listen
    PROVE  StartIInv'
<1>1. /\ UNCHANGED <<devices, tables, typed, shadow, modules, hist>>
      /\ phase \in Later /\ phase' \in {"dead"} \cup Later
  BY DEF EnsureCerts, FillCrt, OpenKey, FillKey, Listen, Goto, disk, Later
<1>2. StartTypeOK'
  <2> USE DEF StartIInv, StartTypeOK, Goto, disk, hist
  <2>1. CASE EnsureCerts \/ Listen
    BY <2>1 DEF EnsureCerts, Listen
  <2>2. CASE FillCrt \/ OpenKey \/ FillKey
    BY <2>2 DEF FillCrt, OpenKey, FillKey
  <2> QED
    BY <2>1, <2>2
<1> QED
  BY <1>1, <1>2, PlainStep DEF Later

\* What the migration leaves alone.
LEMMA CatalogueFrame ==
    ASSUME CatalogueAfterStart, UNCHANGED <<modules, mine>>, phase' \notin Later
    PROVE  CatalogueAfterStart' /\ Refreshed'
  BY DEF CatalogueAfterStart, Refreshed, Later

\* The schema: a table that is missing is created, with all its columns.
LEMMA ApplySchemaKeeps == ASSUME StartIInv, ApplySchema PROVE StartIInv'
<1> USE DEF StartIInv, ApplySchema, Goto, hist
<1>1. StartTypeOK'
  BY DEF StartTypeOK
<1>2. FleetKept' /\ Migration'
  BY DEF FleetKept, Migration, Migrating, Registered
<1>3. phase' \notin Later
  BY DEF Later
<1> QED
  BY <1>1, <1>2, <1>3, CatalogueFrame

\* Whoever migrates has not died in the window before.
LEMMA DetectKeeps == ASSUME StartIInv, Detect PROVE StartIInv'
<1> USE DEF StartIInv, Detect, disk, hist
<1>1. StartTypeOK'
  BY DEF StartTypeOK
<1>2. FleetKept' /\ Migration'
  BY DEF FleetKept, Migration, Migrating, Registered
<1>3. phase' \notin Later
  BY DEF Later
<1> QED
  BY <1>1, <1>2, <1>3, CatalogueFrame

LEMMA CreateShadowKeeps == ASSUME StartIInv, CreateShadow PROVE StartIInv'
<1> USE DEF StartIInv, CreateShadow, hist
<1>1. StartTypeOK'
  BY DEF StartTypeOK
<1>2. FleetKept' /\ Migration'
  BY DEF FleetKept, Migration, Migrating, Registered
<1>3. phase' \notin Later
  BY DEF Later
<1> QED
  BY <1>1, <1>2, <1>3, CatalogueFrame

LEMMA CopyRowsKeeps == ASSUME StartIInv, CopyRows PROVE StartIInv'
<1> USE DEF StartIInv, CopyRows, Goto, hist
<1>1. StartTypeOK'
  BY DEF StartTypeOK
<1>2. \A c \in fleet : devices[c] # NoRow
  BY DEF Migration, Migrating, Registered
<1>3. FleetKept' /\ Migration'
  BY <1>2 DEF FleetKept, Migration, Migrating, Registered
<1>4. phase' \notin Later
  BY DEF Later
<1> QED
  BY <1>1, <1>3, <1>4, CatalogueFrame

LEMMA DropDevicesKeeps == ASSUME StartIInv, DropDevices PROVE StartIInv'
<1> USE DEF StartIInv, DropDevices, Goto, hist
<1>1. StartTypeOK'
  BY DEF StartTypeOK, NoRows
<1>2. FleetKept' /\ Migration'
  BY DEF FleetKept, Migration, Migrating
<1>3. phase' \notin Later
  BY DEF Later
<1> QED
  BY <1>1, <1>2, <1>3, CatalogueFrame

LEMMA RenameShadowKeeps == ASSUME StartIInv, RenameShadow PROVE StartIInv'
<1> USE DEF StartIInv, RenameShadow, Goto, hist
<1>1. StartTypeOK'
  BY DEF StartTypeOK, NoRows
<1>2. fleet \subseteq Chips
  BY DEF StartTypeOK
<1>3. \A c \in fleet : devices'[c] # NoRow
  BY DEF Migration
<1>4. fleet \subseteq Registered'
  BY <1>2, <1>3 DEF Registered
<1>5. FleetKept' /\ Migration'
  BY <1>3, <1>4 DEF FleetKept, Migration, Migrating
<1>6. phase' \notin Later
  BY DEF Later
<1> QED
  BY <1>1, <1>5, <1>6, CatalogueFrame

\* The upsert of one built-in module: a row of the user's is not touched.
LEMMA SeedModuleKeeps == ASSUME StartIInv, NEW m \in Modules, SeedModule(m) PROVE StartIInv'
<1> USE DEF StartIInv, SeedModule, hist
<1>1. StartTypeOK'
  BY DEF StartTypeOK
<1>2. FleetKept' /\ Migration'
  BY DEF FleetKept, Migration, Migrating, Registered
<1>3. \A n \in mine : modules'[n] = "user"
  BY DEF CatalogueAfterStart, StartTypeOK
<1>4. CatalogueAfterStart' /\ Refreshed'
  BY <1>3 DEF CatalogueAfterStart, Refreshed, Later
<1> QED
  BY <1>1, <1>2, <1>4

\* Past the loop nothing of an earlier release is left.
LEMMA SeededKeeps == ASSUME StartIInv, Seeded PROVE StartIInv'
<1> USE DEF StartIInv, Seeded, Goto, disk, hist
<1>1. StartTypeOK'
  BY DEF StartTypeOK
<1>2. FleetKept' /\ Migration'
  BY DEF FleetKept, Migration, Migrating, Registered
<1>3. CatalogueAfterStart' /\ Refreshed'
  BY DEF CatalogueAfterStart, Refreshed
<1> QED
  BY <1>1, <1>2, <1>3

LEMMA CatalogueKeeps == ASSUME StartIInv, Catalogue PROVE StartIInv'
<1> USE DEF StartIInv
<1>1. PICK m \in Modules : CreateModule(m) \/ DeleteModule(m)
  BY DEF Catalogue
<1>2. /\ UNCHANGED <<devices, phase, ports, config, crt, key, tables, typed, shadow, fleet, cut, crashes>>
      /\ phase = "serving"
  BY <1>1 DEF CreateModule, DeleteModule
<1>3. /\ modules' \in [Modules -> {"none", "old", "new", "user"}]
      /\ mine' \subseteq Modules
      /\ modules'[m] \in {"user", "none"} /\ (m \in mine' => modules'[m] = "user")
      /\ \A n \in Modules : n # m => modules'[n] = modules[n] /\ (n \in mine' <=> n \in mine)
  BY <1>1 DEF CreateModule, DeleteModule, StartTypeOK
<1>4. StartTypeOK'
  BY <1>2, <1>3 DEF StartTypeOK
<1>5. FleetKept' /\ Migration'
  BY <1>2 DEF FleetKept, Migration, Migrating, Registered
<1>6. CatalogueAfterStart' /\ Refreshed'
  BY <1>2, <1>3 DEF CatalogueAfterStart, Refreshed, Later
<1> QED
  BY <1>4, <1>5, <1>6

\* A death remembers its window.
LEMMA CrashKeeps == ASSUME StartIInv, Crash PROVE StartIInv'
<1> USE DEF StartIInv, Crash, disk
<1>1. StartTypeOK'
  BY StartAssumption DEF StartTypeOK, Windows
<1>2. "rename" \in cut' <=> "rename" \in cut \/ phase = "rename"
  BY DEF Windows
<1>3. FleetKept' /\ Migration'
  BY <1>2 DEF FleetKept, Migration, Migrating, Registered
<1>4. phase' \notin Later
  BY DEF Later
<1> QED
  BY <1>1, <1>3, <1>4, CatalogueFrame

LEMMA StartFrame == ASSUME StartIInv, UNCHANGED startVars PROVE StartIInv'
<1> USE DEF startVars, disk, hist
<1>1. StartTypeOK' /\ FleetKept' /\ Migration' /\ CatalogueAfterStart' /\ Refreshed'
  BY DEF StartIInv, StartTypeOK, FleetKept, Migration, Migrating, CatalogueAfterStart, Refreshed,
     Registered
<1> QED
  BY <1>1 DEF StartIInv

LEMMA StartStepKeeps == ASSUME StartIInv, StartStep \/ Catalogue PROVE StartIInv'
  BY ConfigKeeps, ApplySchemaKeeps, DetectKeeps, CreateShadowKeeps, CopyRowsKeeps,
     DropDevicesKeeps, RenameShadowKeeps, SeedModuleKeeps, SeededKeeps, CertsKeep, CatalogueKeeps DEF StartStep

-----------------------------------------------------------------------------
(* Builds and tabs.                                                         *)

JobRows == [pc : {"new", "mkdir", "check", "complete", "good", "bad", "over", "lost"} \cup Docker,
            on : BOOLEAN, output : 0..MaxOutput, lines : Nat, done : BOOLEAN, err : BOOLEAN]

Tabulated == [pc : {"closed", "open", "done", "fail", "left"},
              job : Builds \cup {NoBuild}, cursor : Nat]

LEMMA InitBuild == BuildInit => BuildIInv
<1> SUFFICES ASSUME BuildInit PROVE BuildIInv
  OBVIOUS
<1> USE DEF BuildInit
<1>1. BuildTypeOK
  BY BuildAssumption DEF BuildTypeOK, Docker
<1>2. Jobs /\ OneBuild
  BY DEF Jobs, OneBuild
<1>3. Opened /\ TerminalHasAll
  BY DEF Opened, TerminalHasAll
<1> QED
  BY <1>1, <1>2, <1>3 DEF BuildIInv

\* A step of the goroutine of build b, which is not over: no tab has got its
\* terminal event yet.
LEMMA WorkKeeps ==
    ASSUME BuildIInv, NEW b \in Builds, job[b].pc \notin {"new", "over", "lost"},
           NEW new \in JobRows, job' = [job EXCEPT ![b] = new],
           new.pc \notin {"new", "lost"}, new.done <=> new.pc = "over",
           new.on => new.pc \in Docker,
           builder' \in BOOLEAN, UNCHANGED <<activeBuild, tab>>
    PROVE  BuildIInv'
<1> USE DEF BuildIInv
<1>1. /\ job' \in [Builds -> JobRows] /\ job'[b] = new
      /\ \A a \in Builds : a # b => job'[a] = job[a]
  BY DEF BuildTypeOK, JobRows
<1>2. b = activeBuild /\ ~job[b].done
  BY DEF Jobs, BuildTypeOK
<1>3. BuildTypeOK'
  BY <1>1 DEF BuildTypeOK, JobRows
<1>4. Jobs' /\ OneBuild'
  BY <1>1, <1>2 DEF Jobs, OneBuild, Docker
<1>5. Opened'
  BY DEF Opened
<1>6. TerminalHasAll'
  <2>1. ASSUME NEW s \in Tabs, tab[s].pc \in {"done", "fail"}
        PROVE  tab[s].job \in Builds /\ tab[s].job # b
    <3>1. tab[s].job \in Builds
      BY <2>1 DEF Opened
    <3>2. job[tab[s].job].done
      BY <2>1 DEF TerminalHasAll
    <3> QED
      BY <3>1, <3>2, <1>2
  <2> QED
    BY <1>1, <2>1 DEF TerminalHasAll
<1> QED
  BY <1>3, <1>4, <1>5, <1>6

\* From one step to the next.
LEMMA StepKeeps ==
    ASSUME BuildIInv, NEW b \in Builds, NEW from, NEW to, NEW n \in Nat, Step(b, from, to, n),
           from \notin {"new", "over", "lost"} \cup Docker,
           to \in {"check", "run", "create", "good", "bad"},
           UNCHANGED builder
    PROVE  BuildIInv'
<1> DEFINE all == job[b].lines + n
           new == [job[b] EXCEPT !.pc = to, !.lines = all]
<1>1. job[b] \in JobRows /\ job[b].pc = from
  BY DEF BuildIInv, BuildTypeOK, JobRows, Step
<1>2. ~job[b].done /\ ~job[b].on
  BY <1>1 DEF BuildIInv, Jobs
<1>3. new \in JobRows /\ new.pc = to /\ new.done = job[b].done /\ new.on = job[b].on
  <2>1. all \in Nat
    BY <1>1 DEF JobRows
  <2> HIDE DEF all
  <2> QED
    BY <1>1, <2>1 DEF JobRows, Docker
<1>4. job' = [job EXCEPT ![b] = new] /\ UNCHANGED <<activeBuild, tab>> /\ builder' \in BOOLEAN
  BY DEF Step, BuildIInv, BuildTypeOK
<1> HIDE DEF new, all
<1> QED
  BY <1>1, <1>2, <1>3, <1>4, WorkKeeps DEF Docker

LEMMA RunBuildKeeps == ASSUME BuildIInv, NEW b \in Builds, RunBuild(b) \/ Output(b) PROVE BuildIInv'
<1>0. /\ job[b] \in JobRows /\ builder \in BOOLEAN
      /\ (job[b].done <=> job[b].pc = "over") /\ (job[b].on => job[b].pc \in Docker)
  BY DEF BuildIInv, BuildTypeOK, JobRows, Jobs
<1>1. CASE MakeIncoming(b)
  BY <1>1, StepKeeps DEF MakeIncoming, Docker
<1>2. CASE CheckImage(b)
  <2>1. PICK to \in {"run", "create"} : Step(b, "check", to, 1) /\ UNCHANGED builder
    BY <1>2 DEF CheckImage
  <2> QED
    BY <2>1, StepKeeps DEF Docker
<1>3. CASE StartDocker(b)
  <2>1. CASE job' = [job EXCEPT ![b].on = TRUE, ![b].lines = @ + 1]
    <3> DEFINE n == job[b].lines + 1
               new == [job[b] EXCEPT !.on = TRUE, !.lines = n]
    <3>1. new \in JobRows /\ new.pc = job[b].pc /\ new.done = job[b].done
      <4>1. n \in Nat
        BY <1>0 DEF JobRows
      <4> HIDE DEF n
      <4> QED
        BY <1>0, <4>1 DEF JobRows
    <3>2. /\ job' = [job EXCEPT ![b] = new] /\ UNCHANGED <<builder, activeBuild, tab>>
          /\ job[b].pc \in Docker
      BY <1>3, <2>1 DEF StartDocker
    <3> HIDE DEF new
    <3> QED
      BY <1>0, <3>1, <3>2, WorkKeeps DEF Docker
  <2>2. CASE job' = [job EXCEPT ![b].pc = "bad", ![b].lines = @ + 2]
    <3> DEFINE n == job[b].lines + 2
               new == [job[b] EXCEPT !.pc = "bad", !.lines = n]
    <3>1. new \in JobRows /\ new.pc = "bad" /\ new.done = job[b].done /\ new.on = job[b].on
      <4>1. n \in Nat
        BY <1>0 DEF JobRows
      <4> HIDE DEF n
      <4> QED
        BY <1>0, <4>1 DEF JobRows
    <3>2. /\ job' = [job EXCEPT ![b] = new] /\ UNCHANGED <<builder, activeBuild, tab>>
          /\ job[b].pc \in Docker /\ ~job[b].on
      BY <1>3, <2>2 DEF StartDocker
    <3> HIDE DEF new
    <3> QED
      BY <1>0, <3>1, <3>2, WorkKeeps DEF Docker
  <2> QED
    BY <1>3, <2>1, <2>2 DEF StartDocker
<1>4. CASE DockerSucceeds(b)
  <2> DEFINE to == IF job[b].pc = "create" THEN "extract" ELSE "complete"
             n == IF job[b].pc = "create" THEN job[b].lines + 1 ELSE job[b].lines
             new == [job[b] EXCEPT !.on = FALSE, !.pc = to, !.lines = n]
  <2>1. to \in {"extract", "complete"} /\ n \in Nat
    BY <1>0 DEF JobRows
  <2>2. /\ job' = [job EXCEPT ![b] = new] /\ UNCHANGED <<activeBuild, tab>>
        /\ job[b].pc \in Docker /\ builder' \in BOOLEAN
    BY <1>4 DEF DockerSucceeds
  <2>3. new \in JobRows /\ new.pc = to /\ new.done = job[b].done /\ ~new.on
    <3> HIDE DEF to, n
    <3> QED
      BY <1>0, <2>1 DEF JobRows, Docker
  <2> HIDE DEF new, to, n
  <2> QED
    BY <1>0, <2>1, <2>2, <2>3, WorkKeeps DEF Docker
<1>5. CASE DockerFails(b)
  <2> DEFINE n == job[b].lines + 1
             new == [job[b] EXCEPT !.on = FALSE, !.pc = "bad", !.lines = n]
  <2>1. new \in JobRows /\ new.pc = "bad" /\ new.done = job[b].done /\ ~new.on
    <3>1. n \in Nat
      BY <1>0 DEF JobRows
    <3> HIDE DEF n
    <3> QED
      BY <1>0, <3>1 DEF JobRows
  <2>2. /\ job' = [job EXCEPT ![b] = new] /\ UNCHANGED <<builder, activeBuild, tab>>
        /\ job[b].pc \in Docker
    BY <1>5 DEF DockerFails
  <2> HIDE DEF new
  <2> QED
    BY <1>0, <2>1, <2>2, WorkKeeps DEF Docker
<1>6. CASE Complete(b)
  BY <1>6, StepKeeps DEF Complete, Docker
<1>7. CASE Finish(b)
  <2> DEFINE e == (job[b].pc = "bad")
             new == [job[b] EXCEPT !.pc = "over", !.done = TRUE, !.err = e]
  <2>1. e \in BOOLEAN
    OBVIOUS
  <2>2. job' = [job EXCEPT ![b] = new] /\ UNCHANGED <<builder, activeBuild, tab>>
    BY <1>7 DEF Finish
  <2>3. job[b].pc \in {"good", "bad"}
    BY <1>7 DEF Finish
  <2> HIDE DEF e
  <2>4. new \in JobRows /\ new.pc = "over" /\ new.done /\ new.on = job[b].on
    BY <1>0, <2>1 DEF JobRows
  <2> HIDE DEF new
  <2> QED
    BY <1>0, <2>2, <2>3, <2>4, WorkKeeps DEF Docker
<1>8. CASE Output(b)
  <2> DEFINE o == job[b].output + 1
             n == job[b].lines + 1
             new == [job[b] EXCEPT !.output = o, !.lines = n]
  <2>1. /\ job' = [job EXCEPT ![b] = new] /\ UNCHANGED <<builder, activeBuild, tab>>
        /\ job[b].pc \in Docker /\ job[b].output < MaxOutput
    BY <1>8 DEF Output
  <2>2. new \in JobRows /\ new.pc = job[b].pc /\ new.done = job[b].done /\ new.on = job[b].on
    <3>1. n \in Nat /\ o \in 0..MaxOutput
      BY <1>0, <2>1, BuildAssumption DEF JobRows
    <3> HIDE DEF n, o
    <3> QED
      BY <1>0, <3>1 DEF JobRows
  <2> HIDE DEF new
  <2> QED
    BY <1>0, <2>1, <2>2, WorkKeeps DEF Docker
<1> QED
  BY <1>1, <1>2, <1>3, <1>4, <1>5, <1>6, <1>7, <1>8 DEF RunBuild

\* No goroutine is at work when a build is admitted.
LEMMA StartBuildKeeps == ASSUME BuildIInv, NEW b \in Builds, StartBuild(b) PROVE BuildIInv'
<1> USE DEF BuildIInv
<1> DEFINE new == [job[b] EXCEPT !.pc = "mkdir"]
<1>1. job[b] \in JobRows /\ job[b].pc = "new" /\ ~job[b].done /\ ~job[b].on
  BY DEF BuildTypeOK, JobRows, StartBuild, Jobs, Docker
<1>2. new \in JobRows /\ new.pc = "mkdir" /\ ~new.done /\ ~new.on
  BY <1>1 DEF JobRows
<1>3. job' = [job EXCEPT ![b] = new] /\ activeBuild' = b /\ UNCHANGED <<builder, tab>>
  BY DEF StartBuild
<1>4. \A a \in Builds : job[a].pc \in {"new", "over", "lost"}
  <2> SUFFICES ASSUME NEW a \in Builds, job[a].pc \notin {"new", "over", "lost"} PROVE FALSE
    OBVIOUS
  <2>1. a = activeBuild /\ a # NoBuild
    BY BuildAssumption DEF Jobs, Builds
  <2>2. job[a].done
    BY <2>1 DEF StartBuild
  <2> QED
    BY <2>2 DEF Jobs
<1> HIDE DEF new
<1>5. /\ job' \in [Builds -> JobRows] /\ job'[b] = new
      /\ \A a \in Builds : a # b => job'[a] = job[a]
  BY <1>2, <1>3 DEF BuildTypeOK, JobRows
<1>6. BuildTypeOK'
  BY <1>3, <1>5 DEF BuildTypeOK, JobRows
<1>7. Jobs' /\ OneBuild'
  BY <1>2, <1>3, <1>4, <1>5 DEF Jobs, OneBuild, Docker
<1>8. Opened'
  BY <1>3 DEF Opened
<1>9. TerminalHasAll'
  <2>1. ASSUME NEW s \in Tabs, tab[s].pc \in {"done", "fail"}
        PROVE  tab[s].job \in Builds /\ tab[s].job # b
    BY <1>1, <2>1 DEF Opened, TerminalHasAll
  <2> QED
    BY <1>3, <1>5, <2>1 DEF TerminalHasAll
<1> QED
  BY <1>6, <1>7, <1>8, <1>9

\* What a tab does leaves the builds alone.
LEMMA TabKeeps ==
    ASSUME BuildIInv, NEW s \in Tabs, NEW new \in Tabulated, tab' = [tab EXCEPT ![s] = new],
           UNCHANGED <<builder, activeBuild, job>>,
           new.pc # "closed" => new.job \in Builds,
           new.pc \in {"done", "fail"} =>
               /\ job[new.job].done /\ new.cursor = job[new.job].lines
               /\ new.pc = "fail" <=> job[new.job].err
    PROVE  BuildIInv'
<1> USE DEF BuildIInv
<1>1. /\ tab' \in [Tabs -> Tabulated] /\ tab'[s] = new
      /\ \A u \in Tabs : u # s => tab'[u] = tab[u]
  BY DEF BuildTypeOK, Tabulated
<1>2. BuildTypeOK'
  BY <1>1 DEF BuildTypeOK, Tabulated
<1>3. Jobs' /\ OneBuild'
  BY DEF Jobs, OneBuild
<1>4. Opened'
  BY <1>1 DEF Opened
<1>5. TerminalHasAll'
  BY <1>1 DEF TerminalHasAll
<1> QED
  BY <1>2, <1>3, <1>4, <1>5

LEMMA OpenTabKeeps == ASSUME BuildIInv, NEW s \in Tabs, OpenTab(s) PROVE BuildIInv'
<1> DEFINE new == [pc |-> "open", job |-> activeBuild, cursor |-> 0]
<1>1. /\ tab' = [tab EXCEPT ![s] = new] /\ UNCHANGED <<builder, activeBuild, job>>
      /\ activeBuild \in Builds
  BY DEF OpenTab, BuildIInv, BuildTypeOK
<1>2. new \in Tabulated /\ new.pc = "open" /\ new.job \in Builds
  BY <1>1 DEF Tabulated
<1> HIDE DEF new
<1> QED
  BY <1>1, <1>2, TabKeeps

\* Lines, done and err are read under one lock.
LEMMA PollKeeps == ASSUME BuildIInv, NEW s \in Tabs, Poll(s) PROVE BuildIInv'
<1> DEFINE b == tab[s].job
           to == IF ~job[b].done THEN "open" ELSE IF job[b].err THEN "fail" ELSE "done"
           n == job[b].lines
           new == [tab[s] EXCEPT !.cursor = n, !.pc = to]
<1>1. tab[s] \in Tabulated /\ tab[s].pc = "open" /\ b \in Builds
  BY DEF Poll, BuildIInv, BuildTypeOK, Opened, Tabulated
<1>2. job[b] \in JobRows /\ n \in Nat
  BY <1>1 DEF BuildIInv, BuildTypeOK, JobRows
<1>3. tab' = [tab EXCEPT ![s] = new] /\ UNCHANGED <<builder, activeBuild, job>>
  BY DEF Poll
<1>4. /\ to \in {"open", "done", "fail"}
      /\ to \in {"done", "fail"} => job[b].done /\ (to = "fail" <=> job[b].err)
  OBVIOUS
<1>5. new \in Tabulated /\ new.pc = to /\ new.job = b /\ new.cursor = n
  <2> HIDE DEF to, n
  <2> QED
    BY <1>1, <1>2, <1>4 DEF Tabulated
<1> HIDE DEF new, to, b
<1> QED
  BY <1>1, <1>3, <1>4, <1>5, TabKeeps

LEMMA CloseTabKeeps == ASSUME BuildIInv, NEW s \in Tabs, CloseTab(s) PROVE BuildIInv'
<1> DEFINE new == [tab[s] EXCEPT !.pc = "left"]
<1>1. tab[s] \in Tabulated /\ tab[s].pc = "open" /\ tab[s].job \in Builds
  BY DEF CloseTab, BuildIInv, BuildTypeOK, Opened, Tabulated
<1>2. tab' = [tab EXCEPT ![s] = new] /\ UNCHANGED <<builder, activeBuild, job>>
  BY DEF CloseTab
<1>3. new \in Tabulated /\ new.pc = "left" /\ new.job = tab[s].job
  BY <1>1 DEF Tabulated
<1> HIDE DEF new
<1> QED
  BY <1>1, <1>2, <1>3, TabKeeps

\* A death loses the builds at work and the streams.
LEMMA BuildRestartKeeps == ASSUME BuildIInv, BuildRestart PROVE BuildIInv'
<1> USE DEF BuildIInv
<1>1. activeBuild' = NoBuild /\ UNCHANGED builder
  BY DEF BuildRestart
<1>2. ASSUME NEW b \in Builds
      PROVE  /\ job'[b] \in JobRows
             /\ job[b].pc \in {"new", "over"} => job'[b] = job[b]
             /\ job[b].pc \notin {"new", "over"} =>
                   job'[b].pc = "lost" /\ ~job'[b].on /\ job'[b].done = job[b].done
  <2>1. job[b] \in JobRows
    BY DEF BuildTypeOK, JobRows
  <2>2. job'[b] = IF job[b].pc \in {"new", "over"} THEN job[b]
                  ELSE [job[b] EXCEPT !.pc = "lost", !.on = FALSE]
    BY DEF BuildRestart
  <2>3. LET lost == [job[b] EXCEPT !.pc = "lost", !.on = FALSE] IN
        lost \in JobRows /\ lost.pc = "lost" /\ ~lost.on /\ lost.done = job[b].done
    BY <2>1 DEF JobRows
  <2> QED
    BY <2>1, <2>2, <2>3
<1>3. ASSUME NEW s \in Tabs
      PROVE  /\ tab'[s] \in Tabulated
             /\ tab[s].pc # "open" => tab'[s] = tab[s]
             /\ tab[s].pc = "open" => tab'[s].pc = "left" /\ tab'[s].job = tab[s].job
  <2>1. tab[s] \in Tabulated
    BY DEF BuildTypeOK, Tabulated
  <2>2. tab'[s] = IF tab[s].pc = "open" THEN [tab[s] EXCEPT !.pc = "left"] ELSE tab[s]
    BY DEF BuildRestart
  <2>3. LET left == [tab[s] EXCEPT !.pc = "left"] IN
        left \in Tabulated /\ left.pc = "left" /\ left.job = tab[s].job
    BY <2>1 DEF Tabulated
  <2> QED
    BY <2>1, <2>2, <2>3
<1>4. BuildTypeOK'
  <2>1. job' \in [Builds -> JobRows] /\ tab' \in [Tabs -> Tabulated]
    BY <1>2, <1>3 DEF BuildRestart
  <2> QED
    BY <1>1, <2>1 DEF BuildTypeOK, JobRows, Tabulated
<1>5. Jobs' /\ OneBuild'
  <2>1. \A b \in Builds : ~job'[b].on /\ (job'[b].done <=> job'[b].pc = "over")
    BY <1>2 DEF Jobs, Docker
  <2> QED
    BY <1>2, <2>1 DEF Jobs, OneBuild
<1>6. Opened'
  BY <1>3 DEF Opened
<1>7. TerminalHasAll'
  <2> SUFFICES ASSUME NEW s \in Tabs, tab'[s].pc \in {"done", "fail"}
               PROVE  /\ tab'[s] = tab[s] /\ tab[s].job \in Builds
                      /\ job'[tab[s].job] = job[tab[s].job]
    BY DEF TerminalHasAll
  <2>1. tab'[s] = tab[s]
    BY <1>3
  <2>2. tab[s].job \in Builds /\ job[tab[s].job].done
    BY <2>1 DEF Opened, TerminalHasAll
  <2> QED
    BY <1>2, <2>1, <2>2 DEF Jobs
<1> QED
  BY <1>4, <1>5, <1>6, <1>7

LEMMA BuildFrame == ASSUME BuildIInv, UNCHANGED buildVars PROVE BuildIInv'
<1>1. BuildTypeOK' /\ Jobs' /\ Opened' /\ TerminalHasAll' /\ OneBuild'
  BY DEF BuildIInv, BuildTypeOK, Jobs, Opened, TerminalHasAll, OneBuild, buildVars
<1> QED
  BY <1>1 DEF BuildIInv

LEMMA BuildNextKeeps == ASSUME BuildIInv, BuildNext PROVE BuildIInv'
  BY StartBuildKeeps, RunBuildKeeps, OpenTabKeeps, PollKeeps, CloseTabKeeps DEF BuildNext

-----------------------------------------------------------------------------
(* The theorems, about HubSpec; FairHubSpec adds fairness to it.            *)

LEMMA NextKeepsIInv == ASSUME IInv, [HubNext]_hubVars PROVE IInv'
<1>1. CASE UNCHANGED hubVars
  BY <1>1, StartFrame, BuildFrame DEF IInv, hubVars
<1>2. CASE Booting
  BY <1>2, StartStepKeeps, BuildFrame DEF IInv, Booting
<1>3. CASE Building
  BY <1>3, StartFrame, BuildNextKeeps DEF IInv, Building, WhileServing
<1>4. CASE Dying
  BY <1>4, CrashKeeps, BuildRestartKeeps DEF IInv, Dying
<1> QED
  BY <1>1, <1>2, <1>3, <1>4 DEF HubNext

\* Every reachable state satisfies the inductive invariant.
THEOREM Invariance == HubSpec => []IInv
<1>1. HubInit => IInv
  BY InitStart, InitBuild DEF HubInit, IInv
<1>2. IInv /\ [HubNext]_hubVars => IInv'
  BY NextKeepsIInv
<1> QED
  BY <1>1, <1>2, PTL DEF HubSpec

\* The state keeps its types; the process never dies more often than the bound.
THEOREM TypeCorrect == HubSpec => []HubTypeOK
<1>1. IInv => HubTypeOK
  BY DEF IInv, StartIInv, BuildIInv, HubTypeOK
<1> QED
  BY <1>1, Invariance, PTL

\* No start loses a registered device, however often and wherever the process
\* died, but between the DROP and the RENAME of the migration; and there the
\* rows still wait in devices_v2 (db.Open).
THEOREM FleetIsKept == HubSpec => []FleetKept
<1>1. IInv => FleetKept
  BY DEF IInv, StartIInv
<1> QED
  BY <1>1, Invariance, PTL

\* A hub that serves has no built-in module of an earlier release, and no start
\* touches a user's own (seed.SeedBuiltins).
THEOREM CatalogueIsFresh == HubSpec => []CatalogueAfterStart
<1>1. IInv => CatalogueAfterStart
  BY DEF IInv, StartIInv
<1> QED
  BY <1>1, Invariance, PTL

\* A tab that was told the end has every line and the right end
\* (snapshotFrom).
THEOREM TerminalIsComplete == HubSpec => []TerminalHasAll
<1>1. IInv => TerminalHasAll
  BY DEF IInv, BuildIInv
<1> QED
  BY <1>1, Invariance, PTL

\* One docker client at a time, that of the build the status shows (startBuild
\* under buildMu).
THEOREM OneBuildAtATime == HubSpec => []OneBuild
<1>1. IInv => OneBuild
  BY DEF IInv, BuildIInv
<1> QED
  BY <1>1, Invariance, PTL
=============================================================================
