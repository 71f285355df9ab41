----------------------------- MODULE HubSidecar -----------------------------
(***************************************************************************)
(* The hub's calls to the ESPHome compile service (Client.Compile of       *)
(* internal/esphome/sidecar.go) and the service itself                     *)
(* (esphome-svc/server.py).  The queue's only worker makes call 1, then    *)
(* call 2, ...: each writes config.yaml to the build directory of its      *)
(* device, posts, reads the stream to its result and takes the firmware    *)
(* from the same directory.  The service answers each POST in a thread of  *)
(* its own and keeps the compile process in the global _proc.              *)
(*                                                                         *)
(* A call may be abandoned while the service works for it: cancelled, past *)
(* its 15 minutes, fed a line longer than the scanner's buffer, or cut off *)
(* by a restart of the hub.  The service learns of that only from a write  *)
(* that fails, and it writes only when the compile prints a line.          *)
(***************************************************************************)
EXTENDS Naturals, FiniteSets

CONSTANTS
    NCalls,      \* bound: calls the worker makes
    Dirs,        \* build directories, one per device slug
    DirOf,       \* call -> its build directory
    MaxEvents    \* bound: DELETE /compile requests (the hub sends none) and
                 \* restarts of the service's container, together

Calls == 1..NCalls
None == 0

ASSUME SidecarAssumption ==
    /\ NCalls \in Nat /\ MaxEvents \in Nat
    /\ DirOf \in [1..NCalls -> Dirs]

VARIABLES
    cur,      \* the call the worker is at, None before the first
    hpc,      \* worker: "idle", "ready" (config written), "wait", "read"
    gone,     \* call -> the hub has dropped its connection
    result,   \* call -> how it ended for the hub ("failed": also abandoned)
    taken,    \* call -> whose configuration the firmware it took was built from
    slot,     \* _proc: the call whose process it is, or None
    handler,  \* call -> control point of its thread in the service
    reply,    \* call -> the answer on its way to the hub
    proc,     \* call -> its esphome process
    killed,   \* call -> its process, still alive, has been sent SIGTERM
    source,   \* call -> whose configuration its process is building
    config,   \* directory -> call that wrote config.yaml
    binary,   \* directory -> whose configuration firmware.factory.bin was built from
    events    \* DELETE requests and restarts so far

hub     == <<cur, hpc, gone, result, taken>>
threads == <<handler, reply>>
build   == <<proc, source, binary>>
vars    == <<hub, slot, threads, build, killed, config, events>>

Running == {"starting", "building", "built"}
Exited  == {"exit0", "exit1"}
Live(j) == proc[j] \in Running

TypeOK ==
    /\ cur \in Calls \cup {None}
    /\ hpc \in {"idle", "ready", "wait", "read"}
    /\ hpc # "idle" => cur # None
    /\ gone \in [Calls -> BOOLEAN]
    /\ result \in [Calls -> {"none", "done", "busy", "failed"}]
    /\ slot \in Calls \cup {None}
    /\ handler \in [Calls -> {"none", "request", "headers", "stream", "drain",
                               "reply", "end", "lost"}]
    /\ reply \in [Calls -> {"none", "ok", "busy", "failed"}]
    /\ proc \in [Calls -> {"none"} \cup Running \cup Exited]
    /\ killed \in [Calls -> BOOLEAN]
    /\ \A j \in Calls : killed[j] => Live(j)
    /\ {source, taken} \subseteq [Calls -> Calls \cup {None}]
    /\ {config, binary} \subseteq [Dirs -> Calls \cup {None}]
    /\ events \in 0..MaxEvents

Init ==
    /\ cur = None /\ hpc = "idle"
    /\ gone = [j \in Calls |-> FALSE] /\ killed = gone
    /\ result = [j \in Calls |-> "none"]
    /\ taken = [j \in Calls |-> None] /\ source = taken
    /\ slot = None
    /\ handler = [j \in Calls |-> "none"] /\ reply = handler /\ proc = handler
    /\ config = [d \in Dirs |-> None] /\ binary = config
    /\ events = 0

-----------------------------------------------------------------------------
(* The hub.                                                                *)

Return(r) == hpc' = "idle" /\ result' = [result EXCEPT ![cur] = r]

\* runJob reaches the sidecar section: config.yaml of the device is replaced.
WriteConfig ==
    /\ hpc = "idle" /\ cur < NCalls
    /\ cur' = cur + 1 /\ hpc' = "ready"
    /\ config' = [config EXCEPT ![DirOf[cur + 1]] = cur + 1]
    /\ UNCHANGED <<gone, result, taken, slot, threads, build, killed, events>>

Post ==
    /\ hpc = "ready"
    /\ hpc' = "wait"
    /\ handler' = [handler EXCEPT ![cur] = "request"]
    /\ UNCHANGED <<cur, gone, result, taken, slot, reply, build, killed, config,
                   events>>

\* The request never reaches the service: it is down, or the context has ended.
Unreachable ==
    /\ hpc = "ready"
    /\ Return("failed")
    /\ UNCHANGED <<cur, gone, taken, slot, threads, build, killed, config, events>>

Abandon ==
    /\ hpc = "wait"
    /\ Return("failed")
    /\ gone' = [gone EXCEPT ![cur] = TRUE]
    /\ UNCHANGED <<cur, taken, slot, threads, build, killed, config, events>>

\* The stream is read to its result line, or to its end.
Receive ==
    /\ hpc = "wait" /\ reply[cur] # "none"
    /\ IF reply[cur] = "ok" THEN hpc' = "read" /\ UNCHANGED result
                            ELSE Return(reply[cur])
    /\ UNCHANGED <<cur, gone, taken, slot, threads, build, killed, config, events>>

TakeFirmware ==
    /\ hpc = "read"
    /\ Return(IF binary[DirOf[cur]] = None THEN "failed" ELSE "done")
    /\ taken' = [taken EXCEPT ![cur] = binary[DirOf[cur]]]
    /\ UNCHANGED <<cur, gone, slot, threads, build, killed, config, events>>

-----------------------------------------------------------------------------
(* The threads of the service.                                             *)

\* An answer nobody waits for any more is not recorded.
Tell(j, r) == reply' = IF gone[j] THEN reply ELSE [reply EXCEPT ![j] = r]

\* Mutant: the check is dropped.
CheckAndSpawn_Unchecked(j) ==
    /\ handler[j] = "request"
    /\ handler' = [handler EXCEPT ![j] = "headers"]
    /\ proc' = [proc EXCEPT ![j] = "starting"]
    /\ slot' = j
    /\ UNCHANGED <<hub, reply, source, binary, killed, config, events>>

\* Under _lock: 409 while the process in _proc is alive, else start another.
CheckAndSpawn(j) ==
    /\ handler[j] = "request"
    /\ IF slot # None /\ Live(slot)
       THEN /\ handler' = [handler EXCEPT ![j] = "end"]
            /\ Tell(j, "busy")
            /\ UNCHANGED <<slot, proc>>
       ELSE /\ handler' = [handler EXCEPT ![j] = "headers"]
            /\ proc' = [proc EXCEPT ![j] = "starting"]
            /\ slot' = j
            /\ UNCHANGED reply
    /\ UNCHANGED <<hub, source, binary, killed, config, events>>

\* The 200 is sent outside the try: should that write already fail, the thread
\* is lost and with it whoever would wait for the process and clear _proc.
SendHeaders(j) ==
    /\ handler[j] = "headers"
    /\ \/ handler' = [handler EXCEPT ![j] = "stream"]
       \/ gone[j] /\ handler' = [handler EXCEPT ![j] = "lost"]
    /\ UNCHANGED <<hub, slot, reply, build, killed, config, events>>

\* Mutant: the error ends the thread; the waiting is not in a finally.
BrokenPipe_Returns(j) ==
    /\ handler[j] = "stream" /\ gone[j] /\ proc[j] # "none"
    /\ handler' = [handler EXCEPT ![j] = "end"]
    /\ killed' = [killed EXCEPT ![j] = Live(j)]
    /\ UNCHANGED <<hub, slot, reply, build, config, events>>

\* Mutant: the error is passed over, as that of the last write is.
BrokenPipe_NoSignal(j) ==
    /\ handler[j] = "stream" /\ gone[j] /\ proc[j] # "none"
    /\ handler' = [handler EXCEPT ![j] = "drain"]
    /\ UNCHANGED <<hub, slot, reply, build, killed, config, events>>

\* A line is written to a connection the hub has dropped: the process is told
\* to stop, and the thread reads no more but waits for it.
BrokenPipe(j) ==
    /\ handler[j] = "stream" /\ gone[j] /\ proc[j] # "none"
    /\ handler' = [handler EXCEPT ![j] = "drain"]
    /\ killed' = [killed EXCEPT ![j] = Live(j)]
    /\ UNCHANGED <<hub, slot, reply, build, config, events>>

\* Mutant: the thread goes by the end of the output and does not wait.
Reap_NoWait(j) ==
    /\ handler[j] \in {"stream", "drain"} /\ proc[j] \in Exited \cup {"built"}
    /\ handler' = [handler EXCEPT ![j] = "reply"]
    /\ slot' = IF Live(j) THEN slot ELSE None
    /\ UNCHANGED <<hub, reply, build, killed, config, events>>

\* The output has ended and the process is waited for; _proc = None, whatever
\* process it holds by now.
Reap(j) ==
    /\ handler[j] \in {"stream", "drain"} /\ proc[j] \in Exited
    /\ handler' = [handler EXCEPT ![j] = "reply"]
    /\ slot' = None
    /\ UNCHANGED <<hub, reply, build, killed, config, events>>

\* The last line tells the exit code of this thread's own process.
Answer(j) ==
    /\ handler[j] = "reply"
    /\ handler' = [handler EXCEPT ![j] = "end"]
    /\ Tell(j, IF proc[j] = "exit0" THEN "ok" ELSE "failed")
    /\ UNCHANGED <<hub, slot, build, killed, config, events>>

\* Mutant: the signal is sent without asking whether the process still runs.
Delete_NoPoll ==
    /\ slot # None /\ events < MaxEvents
    /\ killed' = [killed EXCEPT ![slot] = TRUE]
    /\ events' = events + 1
    /\ UNCHANGED <<hub, slot, threads, build, config>>

\* do_DELETE: the process in _proc is signalled if it is alive.  (It is read
\* under the lock and signalled after; a later signal is a later DELETE.)
Delete ==
    /\ slot # None /\ events < MaxEvents
    /\ killed' = [killed EXCEPT ![slot] = Live(slot)]
    /\ events' = events + 1
    /\ UNCHANGED <<hub, slot, threads, build, config>>

\* The container restarts: processes and threads die, open streams break off.
SidecarRestart ==
    /\ events < MaxEvents
    /\ events' = events + 1
    /\ slot' = None
    /\ proc' = [j \in Calls |-> IF Live(j) THEN "exit1" ELSE proc[j]]
    /\ handler' = [j \in Calls |-> IF handler[j] = "none" THEN "none" ELSE "end"]
    /\ reply' = [j \in Calls |-> IF handler[j] \in {"none", "end", "lost"} \/ gone[j]
                                 THEN reply[j] ELSE "failed"]
    /\ killed' = [j \in Calls |-> FALSE]
    /\ UNCHANGED <<hub, source, binary, config>>

-----------------------------------------------------------------------------
(* The esphome process: external.  It reads config.yaml, leaves a firmware *)
(* in the directory it was started for and exits with 0; or it fails.      *)

ReadConfig(j) ==
    /\ proc[j] = "starting"
    /\ proc' = [proc EXCEPT ![j] = "building"]
    /\ source' = [source EXCEPT ![j] = config[DirOf[j]]]
    /\ UNCHANGED <<hub, slot, threads, binary, killed, config, events>>

WriteBinary(j) ==
    /\ proc[j] = "building"
    /\ proc' = [proc EXCEPT ![j] = "built"]
    /\ binary' = [binary EXCEPT ![DirOf[j]] = source[j]]
    /\ source' = [source EXCEPT ![j] = None]
    /\ UNCHANGED <<hub, slot, threads, killed, config, events>>

Exit(j) ==
    /\ Live(j)
    /\ \E e \in Exited :
          /\ e = "exit0" => proc[j] = "built"
          /\ proc' = [proc EXCEPT ![j] = e]
    /\ killed' = [killed EXCEPT ![j] = FALSE]
    /\ source' = [source EXCEPT ![j] = None]
    /\ UNCHANGED <<hub, slot, threads, binary, config, events>>

Hub == WriteConfig \/ Post \/ Unreachable \/ Abandon \/ Receive \/ TakeFirmware

Thread(j) == CheckAndSpawn(j) \/ SendHeaders(j) \/ Reap(j) \/ Answer(j)

Next ==
    \/ Hub
    \/ \E j \in Calls : Thread(j) \/ BrokenPipe(j)
    \/ Delete \/ SidecarRestart
    \/ \E j \in Calls : ReadConfig(j) \/ WriteBinary(j) \/ Exit(j)

Spec == Init /\ [][Next]_vars

\* The worker runs, and its context ends every call that is left waiting; the
\* service's threads run; a process that was sent SIGTERM exits.  Nothing is
\* assumed of a process left to itself, nor of what it prints and when.
FairSpec ==
    /\ Spec
    /\ WF_vars(WriteConfig) /\ WF_vars(Post \/ Unreachable)
    /\ WF_vars(Abandon \/ Receive) /\ WF_vars(TakeFirmware)
    /\ \A j \in Calls : WF_vars(Thread(j)) /\ WF_vars(killed[j] /\ Exit(j))

-----------------------------------------------------------------------------
(* Properties.                                                             *)

\* A running compile has a thread that reads its output, or at least waits for
\* it, however the hub lets go of the call, whoever wipes _proc and whenever the
\* container restarts.  One case is left: the hub was gone before the headers
\* were out, and the error on them, outside the try, took the thread with it.
CompileIsAttended ==
    \A j \in Calls :
        Live(j) => \/ handler[j] \in {"headers", "stream", "drain"}
                   \/ handler[j] = "lost" /\ gone[j]

\* "Should not happen if the hub queue is working correctly": a call is turned
\* away with 409 only on account of an earlier one the hub has abandoned.
BusyOnlyAfterAbandon ==
    \A j \in Calls : result[j] = "busy" => \E i \in 1..(j - 1) : gone[i]

\* A third call whose process is over: its thread may have wiped _proc.
Wiped(i, j) == \E k \in Calls \ {i, j} : proc[k] \in Exited

\* Two compiles overlap only when the hub has abandoned the earlier call, and
\* then only when the thread of yet another call could wipe one from _proc.
OverlapTakesThirdCall ==
    \A i, j \in Calls : i < j /\ Live(i) /\ Live(j) => gone[i] /\ Wiped(i, j)

\* A finished job has the firmware built from its own configuration, whatever
\* directory it shares, except after such an overlap with an abandoned call.
OwnFirmware ==
    \A j \in Calls :
        result[j] = "done" /\ taken[j] # j =>
            \E i \in 1..(j - 1) : gone[i] /\ proc[i] # "none" /\ Wiped(i, j)

\* What the end of a call (timed out, cancelled, the hub restarted) does reach:
\* a compile that goes on printing runs into the dropped connection, is
\* terminated, waited for and taken out of _proc, also when the call was let go
\* before its process was started or in the very step in which it ended.  Not
\* so one that has fallen silent, nor one whose thread was lost on the headers.
AbandonedIsStopped ==
    \A j \in Calls :
        WF_vars(BrokenPipe(j)) =>
            (gone[j] ~> \/ handler[j] = "end" /\ ~Live(j) /\ slot # j
                        \/ handler[j] = "lost")

\* server.py's promise in the design doc: one compile at a time.
OneCompileAtATime == \A i, j \in Calls : Live(i) /\ Live(j) => i = j

\* Design doc, "Compile timeout": when the hub lets go of a call its subprocess
\* is killed.
TimeoutKillsCompile == \A j \in Calls : gone[j] ~> ~Live(j)
=============================================================================
