--------------------------- MODULE HubSidecarProofs ---------------------------
(***************************************************************************)
(* For any number of calls, directories and interventions: what an answer  *)
(* of the compile service means, when it turns a call away, and when two   *)
(* compiles meet.                                                          *)
(*                                                                         *)
(* The stated properties speak of a call's end; the strengthening follows  *)
(* a call from its thread over its process to _proc, the directory and the *)
(* hub.                                                                    *)
(***************************************************************************)
EXTENDS HubSidecar, TLAPS

\* How far the hub has come with a call, and how far its thread.
Progress ==
    /\ \A j \in Calls : j > cur => handler[j] = "none" /\ ~gone[j]
    /\ hpc = "ready" => handler[cur] = "none"
    /\ hpc = "read" => reply[cur] = "ok"
    \* a thread that still works, and not for nobody, works for the current call
    /\ \A j \in Calls : handler[j] \notin {"none", "end", "lost"} /\ ~gone[j] =>
          j = cur /\ hpc = "wait"
    /\ \A j \in Calls : handler[j] # "end" => reply[j] = "none"

\* A thread and its process.
OwnProcess ==
    \A j \in Calls :
        /\ handler[j] \in {"none", "request"} => proc[j] = "none"
        /\ handler[j] = "reply" => proc[j] \in Exited
        /\ handler[j] = "end" => ~Live(j)
        /\ handler[j] = "lost" => gone[j]
        /\ reply[j] = "ok" => proc[j] = "exit0"
        /\ reply[j] # "none" => ~Live(j)

\* A process alive is in _proc, unless some thread has wiped it from there.
SlotHolds == \A j \in Calls : Live(j) /\ slot # j => \E k \in Calls : proc[k] \in Exited

\* 409 is answered on account of a call abandoned earlier.
BusyReplies == \A j \in Calls : reply[j] = "busy" => \E i \in 1..(j - 1) : gone[i]

\* Call i may have left its firmware in the directory of call j.
Meddles(i, j) == gone[i] /\ proc[i] # "none" /\ Wiped(i, j)

\* The configuration in the directory of the current call is its own; a process
\* that builds another one there has met the process of the current call.
OwnBuild ==
    /\ cur # None => config[DirOf[cur]] = cur
    /\ \A j \in Calls : proc[j] \in {"none", "starting"} => source[j] = None
    /\ cur # None /\ proc[cur] = "building" => source[cur] = cur
    /\ \A i \in Calls \ {cur} :
          /\ cur # None /\ proc[cur] # "none"
          /\ proc[i] = "building" /\ DirOf[i] = DirOf[cur] /\ source[i] # cur
          => Wiped(i, cur)
    /\ cur # None /\ proc[cur] \in {"built", "exit0"} /\ binary[DirOf[cur]] # cur =>
          \E i \in 1..(cur - 1) : Meddles(i, cur)

IInv ==
    /\ TypeOK /\ Progress /\ OwnProcess /\ SlotHolds /\ BusyReplies
    /\ BusyOnlyAfterAbandon /\ OwnBuild /\ OwnFirmware

-----------------------------------------------------------------------------
(* What the parts say together.                                             *)

\* A process alive was started for a call already made; unless it is the
\* current one's, the hub has abandoned that call.
LEMMA LiveFacts ==
    ASSUME TypeOK, Progress, OwnProcess, NEW j \in Calls, Live(j)
    PROVE  j <= cur /\ (j # cur => j \in 1..(cur - 1) /\ gone[j])
<1>1. cur \in Nat /\ j \in Nat /\ j >= 1
  BY SidecarAssumption DEF TypeOK, Calls, None
<1>2. handler[j] \notin {"none", "request", "reply"}
  BY DEF OwnProcess, Live, Running, Exited
<1>3. j <= cur
  BY <1>1, <1>2 DEF Progress
<1>4. j # cur => gone[j]
  BY <1>2 DEF Progress, OwnProcess
<1> QED
  BY <1>1, <1>3, <1>4

LEMMA InitIInv == Init => IInv
<1> SUFFICES ASSUME Init PROVE IInv
  OBVIOUS
<1>1. TypeOK
  BY SidecarAssumption DEF Init, TypeOK, Live, Running, None
<1>2. Progress /\ OwnProcess /\ SlotHolds /\ BusyReplies
  BY DEF Init, Progress, OwnProcess, SlotHolds, BusyReplies, Live, Running, Exited
<1>3. BusyOnlyAfterAbandon /\ OwnBuild /\ OwnFirmware
  BY DEF Init, BusyOnlyAfterAbandon, OwnBuild, OwnFirmware
<1> QED
  BY <1>1, <1>2, <1>3 DEF IInv

-----------------------------------------------------------------------------
(* The worker's steps.                                                      *)

LEMMA WriteConfigKeepsIInv == ASSUME IInv, WriteConfig PROVE IInv'
<1> USE DEF WriteConfig, IInv, threads, build
<1>1. cur \in Nat /\ cur + 1 \in Calls /\ cur' = cur + 1 /\ DirOf[cur'] \in Dirs
  BY SidecarAssumption DEF TypeOK, Calls, None
<1>2. TypeOK'
  BY <1>1 DEF TypeOK, Live, None
<1>3. Progress'
  BY <1>1 DEF Progress, TypeOK, Calls
<1>4. OwnProcess' /\ SlotHolds' /\ BusyReplies'
  BY DEF OwnProcess, SlotHolds, BusyReplies, Live
<1>5. BusyOnlyAfterAbandon' /\ OwnFirmware'
  BY DEF BusyOnlyAfterAbandon, OwnFirmware, Wiped
<1>6. proc[cur'] = "none"
  BY <1>1 DEF Progress, OwnProcess
<1>7. OwnBuild'
  BY <1>1, <1>6 DEF OwnBuild, TypeOK
<1> QED
  BY <1>2, <1>3, <1>4, <1>5, <1>7

LEMMA PostKeepsIInv == ASSUME IInv, Post PROVE IInv'
<1> USE DEF Post, IInv, build
<1>1. cur \in Calls
  BY DEF TypeOK
<1>2. TypeOK'
  BY <1>1 DEF TypeOK, Live
<1>3. Progress'
  BY <1>1 DEF Progress, TypeOK, Calls
<1>4. OwnProcess' /\ SlotHolds' /\ BusyReplies'
  BY <1>1 DEF OwnProcess, SlotHolds, BusyReplies, Live, Progress, TypeOK
<1>5. BusyOnlyAfterAbandon' /\ OwnFirmware' /\ OwnBuild'
  BY DEF BusyOnlyAfterAbandon, OwnFirmware, OwnBuild, Wiped, Meddles
<1> QED
  BY <1>2, <1>3, <1>4, <1>5

LEMMA UnreachableKeepsIInv == ASSUME IInv, Unreachable PROVE IInv'
<1> USE DEF Unreachable, Return, IInv, threads, build
<1>1. TypeOK'
  BY DEF TypeOK, Live
<1>2. Progress' /\ OwnProcess' /\ SlotHolds' /\ BusyReplies'
  BY DEF Progress, OwnProcess, SlotHolds, BusyReplies, Live
<1>3. BusyOnlyAfterAbandon' /\ OwnFirmware' /\ OwnBuild'
  BY DEF TypeOK, BusyOnlyAfterAbandon, OwnFirmware, OwnBuild, Wiped, Meddles
<1> QED
  BY <1>1, <1>2, <1>3

LEMMA AbandonKeepsIInv == ASSUME IInv, Abandon PROVE IInv'
<1> USE DEF Abandon, Return, IInv, threads, build
<1>1. cur \in Calls /\ \A j \in Calls : gone[j] => gone'[j]
  BY DEF TypeOK
<1>2. TypeOK'
  BY <1>1 DEF TypeOK, Live
<1>3. Progress'
  BY <1>1 DEF Progress, TypeOK, Calls
<1>4. OwnProcess' /\ SlotHolds'
  BY <1>1 DEF TypeOK, OwnProcess, SlotHolds, Live
<1>5. \A j \in Calls : 1..(j - 1) \subseteq Calls
  BY SidecarAssumption DEF Calls
<1>6. BusyReplies' /\ BusyOnlyAfterAbandon' /\ OwnFirmware'
  BY <1>1, <1>5 DEF TypeOK, BusyReplies, BusyOnlyAfterAbandon, OwnFirmware, Wiped
<1>7. OwnBuild'
  BY <1>1, <1>5 DEF OwnBuild, Wiped, Meddles
<1> QED
  BY <1>2, <1>3, <1>4, <1>6, <1>7

\* A call turned away is recorded as such: BusyReplies carries over.
LEMMA ReceiveKeepsIInv == ASSUME IInv, Receive PROVE IInv'
<1> USE DEF Receive, Return, IInv, threads, build
<1>1. cur \in Calls
  BY DEF TypeOK
<1>2. TypeOK'
  BY <1>1 DEF TypeOK, Live
<1>3. Progress'
  BY <1>1 DEF Progress, TypeOK
<1>4. OwnProcess' /\ SlotHolds' /\ BusyReplies'
  BY DEF OwnProcess, SlotHolds, BusyReplies, Live
<1>5. BusyOnlyAfterAbandon' /\ OwnFirmware'
  BY <1>1 DEF TypeOK, BusyReplies, BusyOnlyAfterAbandon, OwnFirmware, Wiped
<1>6. OwnBuild'
  BY DEF OwnBuild, Wiped, Meddles
<1> QED
  BY <1>2, <1>3, <1>4, <1>5, <1>6

\* Success rests on the exit of the own process, and OwnBuild says what lies in
\* the directory then.
LEMMA TakeFirmwareKeepsIInv == ASSUME IInv, TakeFirmware PROVE IInv'
<1> USE DEF TakeFirmware, Return, IInv, threads, build
<1>1. cur \in Calls /\ DirOf[cur] \in Dirs
  BY SidecarAssumption DEF TypeOK, Calls
<1>2. TypeOK'
  BY <1>1 DEF TypeOK, Live
<1>3. Progress' /\ OwnProcess' /\ SlotHolds' /\ BusyReplies'
  BY DEF Progress, OwnProcess, SlotHolds, BusyReplies, Live
<1>4. OwnBuild'
  BY DEF OwnBuild, Wiped, Meddles
<1>5. proc[cur] = "exit0"
  BY <1>1 DEF Progress, OwnProcess
<1>6. cur # None
  BY <1>1, SidecarAssumption DEF Calls, None
<1>7. BusyOnlyAfterAbandon'
  BY <1>1 DEF TypeOK, BusyOnlyAfterAbandon
<1>8. OwnFirmware'
  BY <1>1, <1>5, <1>6 DEF TypeOK, OwnBuild, Meddles, OwnFirmware, Wiped
<1> QED
  BY <1>2, <1>3, <1>4, <1>7, <1>8

-----------------------------------------------------------------------------
(* The threads of the service, DELETE and the container.                    *)

\* A process is started only while _proc holds none alive: whatever else lives
\* then was wiped from there.
LEMMA CheckAndSpawnKeepsIInv == ASSUME IInv, NEW j \in Calls, CheckAndSpawn(j) PROVE IInv'
<1> USE DEF IInv, hub
<1>1. proc[j] = "none" /\ reply[j] = "none"
  BY DEF CheckAndSpawn, OwnProcess, Progress
<1>2. ~gone[j] => j = cur
  BY DEF CheckAndSpawn, Progress
<1>3. CASE slot # None /\ Live(slot)
  <2> USE DEF CheckAndSpawn, Tell
  <2>1. slot \in Calls /\ slot # j
    BY <1>1, <1>3 DEF TypeOK, Live, Running
  <2>2. TypeOK'
    BY <1>3 DEF TypeOK, Live
  <2>3. ~gone[j] => gone[slot] /\ slot \in 1..(j - 1)
    BY <1>2, <1>3, <2>1, LiveFacts
  <2>4. Progress'
    BY <1>3 DEF Progress, TypeOK
  <2>5. OwnProcess' /\ SlotHolds'
    BY <1>1, <1>3 DEF TypeOK, OwnProcess, SlotHolds, Live, Running
  <2>6. BusyReplies'
    BY <1>3, <2>3 DEF TypeOK, BusyReplies
  <2>7. BusyOnlyAfterAbandon' /\ OwnFirmware' /\ OwnBuild'
    BY <1>3 DEF BusyOnlyAfterAbandon, OwnFirmware, OwnBuild, Wiped, Meddles
  <2> QED
    BY <2>2, <2>4, <2>5, <2>6, <2>7
<1>4. CASE ~(slot # None /\ Live(slot))
  <2> USE DEF CheckAndSpawn
  <2>1. /\ proc' = [proc EXCEPT ![j] = "starting"]
        /\ handler' = [handler EXCEPT ![j] = "headers"]
        /\ slot' = j
        /\ UNCHANGED <<hub, reply, source, binary, killed, config, events>>
    BY <1>4
  <2>2. \A i \in Calls : i # j => proc'[i] = proc[i]
    BY <2>1 DEF TypeOK
  <2>3. proc'[j] = "starting"
    BY <2>1 DEF TypeOK
  <2>4. \A i \in Calls : Live(i) => slot # i
    BY <1>4, SidecarAssumption DEF TypeOK, Calls, None
  <2>5. \A i \in Calls : proc[i] \in Exited => i # j /\ proc'[i] \in Exited
    BY <1>1, <2>2 DEF Exited
  <2> HIDE DEF CheckAndSpawn
  <2>6. TypeOK'
    <3>1. proc' \in [Calls -> {"none"} \cup Running \cup Exited]
      BY <2>1 DEF TypeOK, Running
    <3>2. \A i \in Calls : killed'[i] => Live(i)'
      BY <2>1, <2>2, <2>3 DEF TypeOK, Live, Running
    <3> QED
      BY <2>1, <3>1, <3>2 DEF TypeOK
  <2>7. Progress'
    <3>1. handler[j] = "request"
      BY DEF CheckAndSpawn
    <3> QED
      BY <2>1, <3>1 DEF Progress, TypeOK
  <2>8. OwnProcess'
    BY <1>1, <2>1, <2>2, <2>3 DEF OwnProcess, Live, TypeOK
  <2>9. SlotHolds'
    BY <2>1, <2>2, <2>4, <2>5 DEF SlotHolds, Live
  <2>10. BusyReplies' /\ BusyOnlyAfterAbandon'
    BY <2>1 DEF BusyReplies, BusyOnlyAfterAbandon
  <2>11. \A i, k \in Calls : Wiped(i, k) => Wiped(i, k)'
    BY <2>5 DEF Wiped
  <2>12. \A k \in Calls : 1..(k - 1) \subseteq Calls
    BY SidecarAssumption DEF Calls
  <2>13. \A i, k \in Calls : Meddles(i, k) => Meddles(i, k)'
    BY <1>1, <2>1, <2>2, <2>11 DEF Meddles
  <2>14. OwnFirmware'
    BY <2>1, <2>12, <2>13 DEF OwnFirmware, Meddles
  <2>15. OwnBuild'
    <3>1. cur' = cur /\ (cur # None => cur \in Calls)
      BY <2>1 DEF TypeOK
    <3>2. \A i \in Calls : proc'[i] \in {"none", "starting"} => source'[i] = None
      BY <1>1, <2>1, <2>2 DEF OwnBuild
    <3>3. cur # None /\ proc'[cur] = "building" => source'[cur] = cur
      BY <2>1, <2>2, <2>3, <3>1 DEF OwnBuild
    <3>4. ASSUME NEW i \in Calls \ {cur}, cur # None, proc'[cur] # "none",
                 proc'[i] = "building", DirOf[i] = DirOf[cur], source'[i] # cur
          PROVE  Wiped(i, cur)'
      <4>1. i # j /\ proc[i] = "building" /\ source[i] # cur
        BY <2>1, <2>2, <2>3, <3>4
      <4>2. CASE j = cur
        <5>1. PICK k \in Calls : proc[k] \in Exited
          BY <2>4, <4>1 DEF SlotHolds, Live, Running
        <5>2. k \notin {i, cur} /\ proc'[k] \in Exited
          BY <2>5, <4>1, <4>2, <5>1 DEF Exited
        <5> QED
          BY <3>1, <5>2 DEF Wiped
      <4>3. CASE j # cur
        BY <2>2, <2>11, <3>1, <3>4, <4>1, <4>3 DEF OwnBuild
      <4> QED
        BY <4>2, <4>3
    <3>5. ASSUME cur # None, proc'[cur] \in {"built", "exit0"}, binary[DirOf[cur]] # cur
          PROVE  \E i \in 1..(cur - 1) : Meddles(i, cur)'
      BY <2>2, <2>3, <2>12, <2>13, <3>1, <3>5 DEF OwnBuild
    <3> QED
      BY <2>1, <3>1, <3>2, <3>3, <3>4, <3>5 DEF OwnBuild
  <2> QED
    BY <2>6, <2>7, <2>8, <2>9, <2>10, <2>14, <2>15
<1> QED
  BY <1>3, <1>4

\* Threads and processes move on; what is over stays over, and the witnesses of
\* an overlap stay.
LEMMA WitnessesStay ==
    ASSUME SidecarAssumption, gone' = gone,
           \A j \in Calls : proc[j] \in Exited => proc'[j] \in Exited,
           \A j \in Calls : proc[j] # "none" => proc'[j] # "none"
    PROVE  /\ \A i, j \in Calls : Wiped(i, j) => Wiped(i, j)'
           /\ \A i, j \in Calls : Meddles(i, j) => Meddles(i, j)'
           /\ UNCHANGED result /\ UNCHANGED taken /\ OwnFirmware => OwnFirmware'
<1>1. \A i, j \in Calls : Wiped(i, j) => Wiped(i, j)'
  BY DEF Wiped
<1>2. \A i, j \in Calls : Meddles(i, j) => Meddles(i, j)'
  BY <1>1 DEF Meddles
<1>3. \A j \in Calls : 1..(j - 1) \subseteq Calls
  BY DEF SidecarAssumption, Calls
<1>4. UNCHANGED result /\ UNCHANGED taken /\ OwnFirmware => OwnFirmware'
  BY <1>2, <1>3 DEF OwnFirmware, Meddles
<1> QED
  BY <1>1, <1>2, <1>4

LEMMA SendHeadersKeepsIInv == ASSUME IInv, NEW j \in Calls, SendHeaders(j) PROVE IInv'
<1> USE DEF IInv, SendHeaders, hub, build
<1>1. TypeOK'
  BY DEF TypeOK, Live
<1>2. Progress'
  BY DEF Progress, TypeOK
<1>3. OwnProcess' /\ SlotHolds' /\ BusyReplies'
  BY DEF OwnProcess, SlotHolds, BusyReplies, Live, TypeOK
<1>4. BusyOnlyAfterAbandon' /\ OwnFirmware' /\ OwnBuild'
  BY DEF BusyOnlyAfterAbandon, OwnFirmware, OwnBuild, Wiped, Meddles
<1> QED
  BY <1>1, <1>2, <1>3, <1>4

LEMMA BrokenPipeKeepsIInv == ASSUME IInv, NEW j \in Calls, BrokenPipe(j) PROVE IInv'
<1> USE DEF IInv, BrokenPipe, hub, build
<1>1. TypeOK'
  <2>1. Live(j) \in BOOLEAN /\ \A i \in Calls : Live(i)' <=> Live(i)
    BY DEF Live
  <2>2. killed' \in [Calls -> BOOLEAN]
    BY <2>1 DEF TypeOK
  <2>3. \A i \in Calls : killed'[i] => Live(i)'
    BY <2>1 DEF TypeOK
  <2> QED
    BY <2>2, <2>3 DEF TypeOK
<1>2. Progress'
  BY DEF Progress, TypeOK
<1>3. OwnProcess' /\ SlotHolds' /\ BusyReplies'
  BY DEF OwnProcess, SlotHolds, BusyReplies, Live, TypeOK
<1>4. BusyOnlyAfterAbandon' /\ OwnFirmware' /\ OwnBuild'
  BY DEF BusyOnlyAfterAbandon, OwnFirmware, OwnBuild, Wiped, Meddles
<1> QED
  BY <1>1, <1>2, <1>3, <1>4

\* Whatever _proc held: the thread's own process has exited, so SlotHolds has
\* its witness for those that are wiped.
LEMMA ReapKeepsIInv == ASSUME IInv, NEW j \in Calls, Reap(j) PROVE IInv'
<1> USE DEF IInv, Reap, hub, build
<1>1. TypeOK'
  BY DEF TypeOK, Live
<1>2. Progress'
  BY DEF Progress, TypeOK
<1>3. OwnProcess' /\ SlotHolds' /\ BusyReplies'
  BY DEF OwnProcess, SlotHolds, BusyReplies, Live, TypeOK
<1>4. BusyOnlyAfterAbandon' /\ OwnFirmware' /\ OwnBuild'
  BY DEF BusyOnlyAfterAbandon, OwnFirmware, OwnBuild, Wiped, Meddles
<1> QED
  BY <1>1, <1>2, <1>3, <1>4

LEMMA AnswerKeepsIInv == ASSUME IInv, NEW j \in Calls, Answer(j) PROVE IInv'
<1> USE DEF IInv, Answer, Tell, hub, build
<1>1. proc[j] \in Exited
  BY DEF OwnProcess
<1>2. TypeOK'
  BY DEF TypeOK, Live
<1>3. Progress'
  BY DEF Progress, TypeOK
<1>4. OwnProcess'
  BY <1>1 DEF OwnProcess, Live, Running, Exited, TypeOK
<1>5. SlotHolds' /\ BusyReplies'
  BY DEF SlotHolds, BusyReplies, Live, TypeOK
<1>6. BusyOnlyAfterAbandon' /\ OwnFirmware' /\ OwnBuild'
  BY DEF BusyOnlyAfterAbandon, OwnFirmware, OwnBuild, Wiped, Meddles
<1> QED
  BY <1>2, <1>3, <1>4, <1>5, <1>6

LEMMA DeleteKeepsIInv == ASSUME IInv, Delete PROVE IInv'
<1> USE DEF IInv, Delete, hub, threads, build
<1>1. TypeOK'
  <2>1. slot \in Calls /\ Live(slot) \in BOOLEAN /\ \A i \in Calls : Live(i)' <=> Live(i)
    BY DEF TypeOK, Live
  <2>2. killed' \in [Calls -> BOOLEAN]
    BY <2>1 DEF TypeOK
  <2>3. \A i \in Calls : killed'[i] => Live(i)'
    BY <2>1 DEF TypeOK
  <2>4. events' \in 0..MaxEvents
    BY SidecarAssumption DEF TypeOK
  <2> QED
    BY <2>2, <2>3, <2>4 DEF TypeOK
<1>2. Progress' /\ OwnProcess' /\ SlotHolds' /\ BusyReplies'
  BY DEF Progress, OwnProcess, SlotHolds, BusyReplies, Live
<1>3. BusyOnlyAfterAbandon' /\ OwnFirmware' /\ OwnBuild'
  BY DEF BusyOnlyAfterAbandon, OwnFirmware, OwnBuild, Wiped, Meddles
<1> QED
  BY <1>1, <1>2, <1>3

\* No process outlives the container, so nothing is left to meet another.
LEMMA SidecarRestartKeepsIInv == ASSUME IInv, SidecarRestart PROVE IInv'
<1> USE DEF IInv, SidecarRestart, hub
<1>1. \A j \in Calls : /\ proc'[j] = IF Live(j) THEN "exit1" ELSE proc[j]
                       /\ ~Live(j)'
  BY DEF Live, Running
<1>2. TypeOK'
  <2>1. proc' \in [Calls -> {"none"} \cup Running \cup Exited]
    BY DEF TypeOK, Exited
  <2>2. handler' \in [Calls -> {"none", "request", "headers", "stream", "drain",
                                 "reply", "end", "lost"}]
    BY DEF TypeOK
  <2>3. reply' \in [Calls -> {"none", "ok", "busy", "failed"}]
    BY DEF TypeOK
  <2>4. events' \in 0..MaxEvents
    BY SidecarAssumption DEF TypeOK
  <2> QED
    BY <2>1, <2>2, <2>3, <2>4 DEF TypeOK
<1>3. \A j \in Calls : reply[j] # "none" => handler[j] = "end"
  BY DEF Progress
<1>4. Progress'
  BY <1>3 DEF Progress, TypeOK
<1>5. \A j \in Calls : /\ proc[j] \in Exited => proc'[j] \in Exited /\ proc'[j] = proc[j]
                       /\ proc[j] # "none" => proc'[j] # "none"
                       /\ proc[j] = "none" => proc'[j] = "none"
  BY <1>1 DEF Live, Running, Exited
<1>6. OwnProcess'
  BY <1>1, <1>3, <1>5 DEF OwnProcess, Exited
<1>7. SlotHolds' /\ BusyReplies' /\ BusyOnlyAfterAbandon'
  BY <1>1 DEF SlotHolds, BusyReplies, BusyOnlyAfterAbandon
<1>8. /\ \A i, j \in Calls : Meddles(i, j) => Meddles(i, j)'
      /\ OwnFirmware'
  BY <1>5, WitnessesStay, SidecarAssumption
<1>9. OwnBuild'
  <2>1. \A j \in Calls : /\ proc'[j] \notin Running
                         /\ proc'[j] = "exit0" => proc[j] = "exit0"
    BY <1>1 DEF Live
  <2>2. \A j \in Calls : proc'[j] \in {"none", "starting"} => source'[j] = None
    BY <2>1, <1>1 DEF OwnBuild, Running, Live
  <2>3. cur # None => cur \in Calls /\ 1..(cur - 1) \subseteq Calls
    BY SidecarAssumption DEF TypeOK, Calls
  <2> QED
    BY <1>8, <2>1, <2>2, <2>3 DEF OwnBuild, Running
<1> QED
  BY <1>2, <1>4, <1>6, <1>7, <1>8, <1>9

-----------------------------------------------------------------------------
(* The esphome processes.                                                   *)

LEMMA ReadConfigKeepsIInv == ASSUME IInv, NEW j \in Calls, ReadConfig(j) PROVE IInv'
<1> USE DEF IInv, ReadConfig, hub, threads
<1>0. DirOf[j] \in Dirs /\ config[DirOf[j]] \in Calls \cup {None}
  BY SidecarAssumption DEF TypeOK, Calls
<1>1. TypeOK'
  <2>1. proc' \in [Calls -> {"none"} \cup Running \cup Exited]
    BY DEF TypeOK, Running
  <2>2. source' \in [Calls -> Calls \cup {None}]
    BY <1>0 DEF TypeOK
  <2>3. \A i \in Calls : killed'[i] => Live(i)'
    BY DEF TypeOK, Live, Running
  <2> QED
    BY <2>1, <2>2, <2>3 DEF TypeOK
<1>2. Progress' /\ BusyReplies' /\ BusyOnlyAfterAbandon'
  BY DEF Progress, BusyReplies, BusyOnlyAfterAbandon
<1>3. /\ \A i \in Calls \ {j} : proc'[i] = proc[i] /\ source'[i] = source[i]
      /\ proc'[j] = "building" /\ source'[j] = config[DirOf[j]]
  BY DEF TypeOK
<1>4. OwnProcess'
  BY <1>3 DEF OwnProcess, Live, Running, Exited
<1>5. SlotHolds'
  BY <1>3 DEF SlotHolds, Live, Running, Exited
<1>6. \A i \in Calls : /\ proc[i] \in Exited => proc'[i] \in Exited
                       /\ proc[i] # "none" => proc'[i] # "none"
  BY <1>3 DEF Exited
<1>7. /\ \A i, k \in Calls : Wiped(i, k) => Wiped(i, k)'
      /\ \A i, k \in Calls : Meddles(i, k) => Meddles(i, k)'
      /\ OwnFirmware'
  BY <1>6, WitnessesStay, SidecarAssumption
<1>8. OwnBuild'
  <2>1. cur # None => cur \in Calls /\ 1..(cur - 1) \subseteq Calls
    BY SidecarAssumption DEF TypeOK, Calls
  <2>2. cur # None /\ proc'[cur] = "building" => source'[cur] = cur
    BY <1>3, <2>1 DEF OwnBuild
  <2>3. ASSUME NEW i \in Calls \ {cur}, cur # None, proc'[cur] # "none",
               proc'[i] = "building", DirOf[i] = DirOf[cur], source'[i] # cur
        PROVE  Wiped(i, cur)'
    <3>1. i # j
      BY <1>3, <2>3 DEF OwnBuild
    <3>2. proc[cur] # "none"
      BY <1>3, <2>1, <2>3
    <3> QED
      BY <1>3, <1>7, <2>1, <2>3, <3>1, <3>2 DEF OwnBuild
  <2>4. ASSUME cur # None, proc'[cur] \in {"built", "exit0"}, binary[DirOf[cur]] # cur
        PROVE  \E i \in 1..(cur - 1) : Meddles(i, cur)'
    BY <1>3, <1>7, <2>1, <2>4 DEF OwnBuild
  <2> QED
    BY <1>3, <2>2, <2>3, <2>4 DEF OwnBuild
<1> QED
  BY <1>1, <1>2, <1>4, <1>5, <1>7, <1>8

\* The abandoned process that overwrites the current call's firmware is the one
\* whose meeting OwnBuild has kept in mind.
LEMMA WriteBinaryKeepsIInv == ASSUME IInv, NEW j \in Calls, WriteBinary(j) PROVE IInv'
<1> USE DEF IInv, WriteBinary, hub, threads
<1>0. DirOf \in [Calls -> Dirs] /\ source[j] \in Calls \cup {None}
  BY SidecarAssumption DEF TypeOK, Calls
<1>1. TypeOK'
  <2>1. proc' \in [Calls -> {"none"} \cup Running \cup Exited]
    BY DEF TypeOK, Running
  <2>2. source' \in [Calls -> Calls \cup {None}] /\ binary' \in [Dirs -> Calls \cup {None}]
    BY <1>0 DEF TypeOK
  <2>3. \A i \in Calls : killed'[i] => Live(i)'
    BY DEF TypeOK, Live, Running
  <2> QED
    BY <2>1, <2>2, <2>3 DEF TypeOK
<1>2. Progress' /\ BusyReplies' /\ BusyOnlyAfterAbandon'
  BY DEF Progress, BusyReplies, BusyOnlyAfterAbandon
<1>3. /\ \A i \in Calls \ {j} : proc'[i] = proc[i] /\ source'[i] = source[i]
      /\ proc'[j] = "built"
      /\ \A d \in Dirs : binary'[d] = IF d = DirOf[j] THEN source[j] ELSE binary[d]
  BY DEF TypeOK
<1>4. OwnProcess'
  BY <1>3 DEF OwnProcess, Live, Running, Exited
<1>5. SlotHolds'
  BY <1>3 DEF SlotHolds, Live, Running, Exited
<1>6. \A i \in Calls : /\ proc[i] \in Exited => proc'[i] \in Exited
                       /\ proc[i] # "none" => proc'[i] # "none"
  BY <1>3 DEF Exited
<1>7. /\ \A i, k \in Calls : Wiped(i, k) => Wiped(i, k)'
      /\ \A i, k \in Calls : Meddles(i, k) => Meddles(i, k)'
      /\ OwnFirmware'
  BY <1>6, WitnessesStay, SidecarAssumption
<1>8. OwnBuild'
  <2>1. cur # None => cur \in Calls /\ 1..(cur - 1) \subseteq Calls
    BY SidecarAssumption DEF TypeOK, Calls
  <2>2. \A i \in Calls : proc'[i] \in {"none", "starting"} => source'[i] = None
    BY <1>3 DEF OwnBuild
  <2>3. cur # None /\ proc'[cur] = "building" => source'[cur] = cur
    BY <1>3, <2>1 DEF OwnBuild
  <2>4. ASSUME NEW i \in Calls \ {cur}, cur # None, proc'[cur] # "none",
               proc'[i] = "building", DirOf[i] = DirOf[cur], source'[i] # cur
        PROVE  Wiped(i, cur)'
    BY <1>3, <1>7, <2>1, <2>4 DEF OwnBuild
  <2>5. ASSUME cur # None, proc'[cur] \in {"built", "exit0"}, binary'[DirOf[cur]] # cur
        PROVE  \E i \in 1..(cur - 1) : Meddles(i, cur)'
    <3>1. CASE j = cur
      BY <1>0, <1>3, <2>1, <2>5, <3>1 DEF OwnBuild
    <3>2. CASE j # cur /\ DirOf[j] = DirOf[cur]
      <4>1. source[j] # cur /\ proc[cur] # "none"
        BY <1>0, <1>3, <2>1, <2>5, <3>2
      <4>2. Wiped(j, cur)
        BY <2>5, <3>2, <4>1 DEF OwnBuild
      <4>3. j \in 1..(cur - 1) /\ gone[j]
        BY <3>2, LiveFacts DEF Live, Running
      <4> QED
        BY <1>3, <1>7, <2>1, <2>5, <4>2, <4>3 DEF Meddles
    <3>3. CASE j # cur /\ DirOf[j] # DirOf[cur]
      BY <1>0, <1>3, <1>7, <2>1, <2>5, <3>3 DEF OwnBuild
    <3> QED
      BY <3>1, <3>2, <3>3
  <2> QED
    BY <2>2, <2>3, <2>4, <2>5 DEF OwnBuild
<1> QED
  BY <1>1, <1>2, <1>4, <1>5, <1>7, <1>8

LEMMA ExitKeepsIInv == ASSUME IInv, NEW j \in Calls, Exit(j) PROVE IInv'
<1> USE DEF IInv, Exit, hub, threads
<1>0. PICK e \in Exited : /\ e = "exit0" => proc[j] = "built"
                          /\ proc' = [proc EXCEPT ![j] = e]
  OBVIOUS
<1>1. TypeOK'
  <2>1. proc' \in [Calls -> {"none"} \cup Running \cup Exited]
    BY <1>0 DEF TypeOK
  <2>2. source' \in [Calls -> Calls \cup {None}]
    BY DEF TypeOK
  <2>3. \A i \in Calls : killed'[i] => Live(i)'
    BY <1>0 DEF TypeOK, Live
  <2> QED
    BY <2>1, <2>2, <2>3 DEF TypeOK
<1>2. Progress' /\ BusyReplies' /\ BusyOnlyAfterAbandon'
  BY DEF Progress, BusyReplies, BusyOnlyAfterAbandon
<1>3. /\ \A i \in Calls \ {j} : proc'[i] = proc[i] /\ source'[i] = source[i]
      /\ proc'[j] = e /\ source'[j] = None
  BY <1>0 DEF TypeOK
<1>4. OwnProcess'
  BY <1>3 DEF OwnProcess, Live, Running, Exited
<1>5. SlotHolds'
  BY <1>3 DEF SlotHolds
<1>6. \A i \in Calls : /\ proc[i] \in Exited => proc'[i] \in Exited
                       /\ proc[i] # "none" => proc'[i] # "none"
  BY <1>3 DEF Exited
<1>7. /\ \A i, k \in Calls : Wiped(i, k) => Wiped(i, k)'
      /\ \A i, k \in Calls : Meddles(i, k) => Meddles(i, k)'
      /\ OwnFirmware'
  BY <1>6, WitnessesStay, SidecarAssumption
<1>8. OwnBuild'
  <2>1. cur # None => cur \in Calls /\ 1..(cur - 1) \subseteq Calls
    BY SidecarAssumption DEF TypeOK, Calls
  <2>2. \A i \in Calls : proc'[i] \in {"none", "starting"} => source'[i] = None
    BY <1>3 DEF OwnBuild
  <2>3. cur # None /\ proc'[cur] = "building" => source'[cur] = cur
    BY <1>3, <2>1 DEF OwnBuild, Exited
  <2>4. ASSUME NEW i \in Calls \ {cur}, cur # None, proc'[cur] # "none",
               proc'[i] = "building", DirOf[i] = DirOf[cur], source'[i] # cur
        PROVE  Wiped(i, cur)'
    <3>1. i # j /\ proc[cur] # "none"
      BY <1>3, <2>1, <2>4 DEF Exited, Live, Running
    <3> QED
      BY <1>3, <1>7, <2>1, <2>4, <3>1 DEF OwnBuild
  <2>5. ASSUME cur # None, proc'[cur] \in {"built", "exit0"}, binary[DirOf[cur]] # cur
        PROVE  \E i \in 1..(cur - 1) : Meddles(i, cur)'
    BY <1>0, <1>3, <1>7, <2>1, <2>5 DEF OwnBuild, Exited
  <2> QED
    BY <2>2, <2>3, <2>4, <2>5 DEF OwnBuild
<1> QED
  BY <1>1, <1>2, <1>4, <1>5, <1>7, <1>8

-----------------------------------------------------------------------------
(* The theorems.                                                            *)

LEMMA NextKeepsIInv == ASSUME IInv, [Next]_vars PROVE IInv'
<1>1. CASE Hub
  BY <1>1, WriteConfigKeepsIInv, PostKeepsIInv, UnreachableKeepsIInv, AbandonKeepsIInv,
     ReceiveKeepsIInv, TakeFirmwareKeepsIInv DEF Hub
<1>2. ASSUME NEW j \in Calls, Thread(j) \/ BrokenPipe(j) PROVE IInv'
  BY <1>2, CheckAndSpawnKeepsIInv, SendHeadersKeepsIInv, BrokenPipeKeepsIInv,
     ReapKeepsIInv, AnswerKeepsIInv DEF Thread
<1>3. CASE Delete \/ SidecarRestart
  BY <1>3, DeleteKeepsIInv, SidecarRestartKeepsIInv
<1>4. ASSUME NEW j \in Calls, ReadConfig(j) \/ WriteBinary(j) \/ Exit(j) PROVE IInv'
  BY <1>4, ReadConfigKeepsIInv, WriteBinaryKeepsIInv, ExitKeepsIInv
<1>5. CASE UNCHANGED vars
  BY <1>5 DEF vars, hub, threads, build, IInv, TypeOK, Progress, OwnProcess, SlotHolds,
     BusyReplies, BusyOnlyAfterAbandon, OwnBuild, OwnFirmware, Live, Wiped, Meddles
<1> QED
  BY <1>1, <1>2, <1>3, <1>4, <1>5 DEF Next

\* The inductive invariant: a call, its thread, its process and its directory
\* stay in step whatever the hub abandons and whenever the service restarts.
THEOREM Invariance == Spec => []IInv
<1>1. Init => IInv
  BY InitIInv
<1>2. IInv /\ [Next]_vars => IInv'
  BY NextKeepsIInv
<1> QED
  BY <1>1, <1>2, PTL DEF Spec

\* Every variable has its type, and SIGTERM is pending for live processes only.
THEOREM TypeCorrect == Spec => []TypeOK
<1>1. IInv => TypeOK
  BY DEF IInv
<1> QED
  BY <1>1, Invariance, PTL

\* However a call ends for the hub, its running compile keeps a thread that
\* reads its output or waits for it, unless the headers met a dropped connection.
THEOREM NoneIsLeftAlone == Spec => []CompileIsAttended
<1>1. ASSUME IInv PROVE CompileIsAttended
  <2>1. SUFFICES ASSUME NEW j \in Calls, Live(j)
                 PROVE  \/ handler[j] \in {"headers", "stream", "drain"}
                        \/ handler[j] = "lost" /\ gone[j]
    BY DEF CompileIsAttended
  <2>2. handler[j] \notin {"none", "request", "reply", "end"}
    BY <1>1, <2>1 DEF IInv, OwnProcess, Live, Running, Exited
  <2> QED
    BY <1>1, <2>2 DEF IInv, TypeOK, OwnProcess
<1> QED
  BY <1>1, Invariance, PTL

\* The hub's worker, which makes one call at a time, is answered 409 only on
\* account of a call it has itself abandoned.
THEOREM BusyBlamesAbandoned == Spec => []BusyOnlyAfterAbandon
<1>1. IInv => BusyOnlyAfterAbandon
  BY DEF IInv
<1> QED
  BY <1>1, Invariance, PTL

\* server.py's single _proc admits a second compile only after an abandoned
\* call and the late cleanup of a third one's thread.
THEOREM OverlapNeedsThree == Spec => []OverlapTakesThirdCall
<1>1. ASSUME IInv PROVE OverlapTakesThirdCall
  <2>1. SUFFICES ASSUME NEW i \in Calls, NEW j \in Calls, i < j, Live(i), Live(j)
                 PROVE  gone[i] /\ Wiped(i, j)
    BY DEF OverlapTakesThirdCall
  <2>2. j <= cur /\ cur \in Nat /\ i \in Nat /\ j \in Nat
    BY <1>1, <2>1, LiveFacts, SidecarAssumption DEF IInv, TypeOK, Calls, None
  <2>3. gone[i]
    BY <1>1, <2>1, <2>2, LiveFacts DEF IInv
  <2>4. PICK k \in Calls : proc[k] \in Exited
    BY <1>1, <2>1, <2>2 DEF IInv, SlotHolds
  <2>5. k \notin {i, j}
    BY <2>1, <2>4 DEF Live, Running, Exited
  <2> QED
    BY <2>3, <2>4, <2>5 DEF Wiped
<1> QED
  BY <1>1, Invariance, PTL

\* Devices may share a build directory (their slugs may be equal); still the
\* firmware of a finished job was built from the configuration of that job,
\* unless an abandoned compile overlapped with it.
THEOREM FirmwareIsOwn == Spec => []OwnFirmware
<1>1. IInv => OwnFirmware
  BY DEF IInv
<1> QED
  BY <1>1, Invariance, PTL
=============================================================================
