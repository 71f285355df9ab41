------------------------------- MODULE BuildLog -------------------------------
(***************************************************************************)
(* A firmware build in Docker and the tabs that follow its log             *)
(* (internal/api/build.go): one build at a time under buildMu, a goroutine *)
(* that runs docker and appends its output to the job, and streams that    *)
(* poll the job from a cursor.  The lines of a log are counted.            *)
(*                                                                         *)
(* A container may outlive the docker client that started it: when the hub *)
(* dies, or when a line of over 64 KB stops the scanner and the pipe is    *)
(* closed under the client.                                                *)
(***************************************************************************)
EXTENDS Naturals

CONSTANTS
    MaxBuilds,  \* bound on the builds; their ids are times and grow
    NoBuild,    \* no build was started in this process
    Tabs,       \* requests of /api/build/<id>/logs
    MaxOutput   \* bound on the lines docker prints in a build

Builds == 1..MaxBuilds

ASSUME BuildAssumption == NoBuild \notin Nat /\ MaxBuilds \in Nat /\ MaxOutput \in Nat

VARIABLES
    builder,    \* the Docker image matter-fw-builder exists
    activeBuild,
    job,        \* of each build: its step, whether docker runs, lines, done, err
    tab         \* of each tab: its step, its build, its cursor

buildVars == <<builder, activeBuild, job, tab>>

\* "run" is docker run in the existing image; "create" and "extract" are the
\* docker build and docker run of a first build.
Docker == {"run", "create", "extract"}

BuildTypeOK ==
    /\ builder \in BOOLEAN
    /\ activeBuild \in Builds \cup {NoBuild}
    /\ job \in [Builds -> [pc : {"new", "mkdir", "check", "complete", "good", "bad",
                                 "over", "lost"} \cup Docker,
                           on : BOOLEAN, output : 0..MaxOutput, lines : Nat,
                           done : BOOLEAN, err : BOOLEAN]]
    /\ tab \in [Tabs -> [pc : {"closed", "open", "done", "fail", "left"},
                         job : Builds \cup {NoBuild}, cursor : Nat]]

BuildInit ==
    /\ builder \in BOOLEAN
    /\ activeBuild = NoBuild
    /\ job = [b \in Builds |-> [pc |-> "new", on |-> FALSE, output |-> 0, lines |-> 0,
                                done |-> FALSE, err |-> FALSE]]
    /\ tab = [s \in Tabs |-> [pc |-> "closed", job |-> NoBuild, cursor |-> 0]]

-----------------------------------------------------------------------------
(* POST /api/build.                                                        *)

\* Mutant: the check of the active build is missing.
StartBuild_NoCheck(b) ==
    /\ job[b].pc = "new"
    /\ activeBuild' = b
    /\ job' = [job EXCEPT ![b].pc = "mkdir"]
    /\ UNCHANGED <<builder, tab>>

\* 409 while the active build is not done.  (done is read without the job's
\* lock; a stale FALSE only refuses once more.)
StartBuild(b) ==
    /\ job[b].pc = "new" /\ \A a \in 1..(b - 1) : job[a].pc # "new"
    /\ activeBuild # NoBuild => job[activeBuild].done
    /\ activeBuild' = b
    /\ job' = [job EXCEPT ![b].pc = "mkdir"]
    /\ UNCHANGED <<builder, tab>>

-----------------------------------------------------------------------------
(* runBuild and execStep.                                                  *)

\* The goroutine goes from one step to the next, appending a line or none.
Step(b, from, to, lines) ==
    /\ job[b].pc = from
    /\ job' = [job EXCEPT ![b].pc = to, ![b].lines = @ + lines]
    /\ UNCHANGED <<activeBuild, tab>>

\* Mutant: the early return forgets finish.
MakeIncoming_Returns(b) ==
    /\ Step(b, "mkdir", "check", 0) \/ Step(b, "mkdir", "over", 1)
    /\ UNCHANGED builder

MakeIncoming(b) ==
    /\ Step(b, "mkdir", "check", 0) \/ Step(b, "mkdir", "bad", 1)
    /\ UNCHANGED builder

\* An error of "docker images" is dropped, and looks like no image.
CheckImage(b) ==
    /\ \E found \in {builder, FALSE} :
          Step(b, "check", IF found THEN "run" ELSE "create", 1)
    /\ UNCHANGED builder

\* The command line is logged; the pipe or the start may fail.
StartDocker(b) ==
    /\ job[b].pc \in Docker /\ ~job[b].on
    /\ \/ job' = [job EXCEPT ![b].on = TRUE, ![b].lines = @ + 1]
       \/ job' = [job EXCEPT ![b].pc = "bad", ![b].lines = @ + 2]
    /\ UNCHANGED <<builder, activeBuild, tab>>

Output(b) ==
    /\ job[b].on /\ job[b].pc \in Docker /\ job[b].output < MaxOutput
    /\ job' = [job EXCEPT ![b].output = @ + 1, ![b].lines = @ + 1]
    /\ UNCHANGED <<builder, activeBuild, tab>>

DockerSucceeds(b) ==
    /\ job[b].pc \in Docker /\ job[b].on
    /\ job' = [job EXCEPT ![b].on = FALSE,
                          ![b].pc = IF @ = "create" THEN "extract" ELSE "complete",
                          ![b].lines = IF job[b].pc = "create" THEN @ + 1 ELSE @]
    /\ builder' = (builder \/ job[b].pc = "create")
    /\ UNCHANGED <<activeBuild, tab>>

\* It may also be the scanner that failed, on a line of over 64 KB.
DockerFails(b) ==
    /\ job[b].pc \in Docker /\ job[b].on
    /\ job' = [job EXCEPT ![b].on = FALSE, ![b].pc = "bad", ![b].lines = @ + 1]
    /\ UNCHANGED <<builder, activeBuild, tab>>

Complete(b) == Step(b, "complete", "good", 1) /\ UNCHANGED builder

Finish(b) ==
    /\ job[b].pc \in {"good", "bad"}
    /\ job' = [job EXCEPT ![b].pc = "over", ![b].done = TRUE, ![b].err = (job[b].pc = "bad")]
    /\ UNCHANGED <<builder, activeBuild, tab>>

RunBuild(b) ==
    \/ MakeIncoming(b) \/ CheckImage(b) \/ StartDocker(b)
    \/ DockerSucceeds(b) \/ DockerFails(b) \/ Complete(b) \/ Finish(b)

-----------------------------------------------------------------------------
(* GET /api/build/<id>/logs.                                               *)

\* Only the active build is found; any other id gets 404.
OpenTab(s) ==
    /\ tab[s].pc = "closed" /\ activeBuild # NoBuild
    /\ tab' = [tab EXCEPT ![s] = [pc |-> "open", job |-> activeBuild, cursor |-> 0]]
    /\ UNCHANGED <<builder, activeBuild, job>>

\* Mutant: a poll sends at most one line and then looks at done.
Poll_Line(s) ==
    /\ tab[s].pc = "open"
    /\ LET j == job[tab[s].job] IN
       tab' = [tab EXCEPT ![s].cursor = IF @ < j.lines THEN @ + 1 ELSE @,
                          ![s].pc = IF ~j.done THEN "open" ELSE IF j.err THEN "fail" ELSE "done"]
    /\ UNCHANGED <<builder, activeBuild, job>>

\* snapshotFrom takes the lines from the cursor on, done and err under one
\* lock; every 250 ms.
Poll(s) ==
    /\ tab[s].pc = "open"
    /\ LET j == job[tab[s].job] IN
       tab' = [tab EXCEPT ![s].cursor = j.lines,
                          ![s].pc = IF ~j.done THEN "open" ELSE IF j.err THEN "fail" ELSE "done"]
    /\ UNCHANGED <<builder, activeBuild, job>>

CloseTab(s) ==
    /\ tab[s].pc = "open"
    /\ tab' = [tab EXCEPT ![s].pc = "left"]
    /\ UNCHANGED <<builder, activeBuild, job>>

BuildRestart ==
    /\ activeBuild' = NoBuild
    /\ job' = [b \in Builds |-> IF job[b].pc \in {"new", "over"} THEN job[b]
                                ELSE [job[b] EXCEPT !.pc = "lost", !.on = FALSE]]
    /\ tab' = [s \in Tabs |-> IF tab[s].pc = "open" THEN [tab[s] EXCEPT !.pc = "left"]
                              ELSE tab[s]]
    /\ UNCHANGED builder

BuildNext ==
    \/ \E b \in Builds : StartBuild(b) \/ RunBuild(b) \/ Output(b)
    \/ \E s \in Tabs : OpenTab(s) \/ Poll(s) \/ CloseTab(s)

-----------------------------------------------------------------------------
(* Properties.                                                             *)

\* A tab that got the terminal event has every line of its build and was told
\* how it ended, also when the next build had begun meanwhile.
TerminalHasAll ==
    \A s \in Tabs :
        tab[s].pc \in {"done", "fail"} =>
            LET j == job[tab[s].job] IN
            j.done /\ tab[s].cursor = j.lines /\ (tab[s].pc = "fail" <=> j.err)

\* docker runs for one build at a time, the one that the status request shows
\* as running.  (A container cut off from its client is not among them.)
OneBuild == \A b \in Builds : job[b].on => b = activeBuild /\ ~job[b].done

\* Every stream ends.
TabEnds == \A s \in Tabs : tab[s].pc = "open" ~> tab[s].pc # "open"
=============================================================================
