--------------------------------- MODULE Hub ---------------------------------
(***************************************************************************)
(* The hub process over its lives: Startup until it serves, then the part  *)
(* that lives in its memory only, the firmware build with its log, and a   *)
(* death at any point that loses it.                                       *)
(***************************************************************************)
EXTENDS Startup, BuildLog

hubVars == <<startVars, buildVars>>

HubInit == StartInit /\ BuildInit

Booting == (StartStep \/ Catalogue) /\ UNCHANGED buildVars

\* What runs once the hub has come up.
WhileServing(action) == phase = "serving" /\ action /\ UNCHANGED startVars

Building == WhileServing(BuildNext)

Dying == Crash /\ BuildRestart

HubNext == Booting \/ Building \/ Dying

HubSpec == HubInit /\ [][HubNext]_hubVars

\* Docker restarts a process that ended and main() goes on by itself; builds
\* and polls go on while the hub serves.  Users and deaths owe nothing.
FairHubSpec ==
    /\ HubSpec
    /\ WF_hubVars(StartStep /\ UNCHANGED buildVars)
    /\ \A b \in Builds : WF_hubVars(WhileServing(RunBuild(b)))
    /\ \A s \in Tabs : WF_hubVars(WhileServing(Poll(s)))

HubTypeOK == StartTypeOK /\ BuildTypeOK
=============================================================================
