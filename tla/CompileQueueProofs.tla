------------------------- MODULE CompileQueueProofs -------------------------
(* Proofs about CompileQueue, for every set of jobs and of devices.         *)
EXTENDS CompileQueue, SequenceTheorems, TLAPS

-----------------------------------------------------------------------------
(* Cancel takes one entry out of the queue and keeps the order of the rest. *)

LEMMA RemoveAtFacts ==
    ASSUME NEW S, NEW s \in Seq(S), NEW i \in 1..Len(s)
    PROVE  /\ RemoveAt(s, i) \in Seq(S)
           /\ Len(RemoveAt(s, i)) = Len(s) - 1
           /\ \A k \in 1..Len(s) - 1 :
                 RemoveAt(s, i)[k] = IF k < i THEN s[k] ELSE s[k + 1]
<1> DEFINE l == SubSeq(s, 1, i - 1)
           r == SubSeq(s, i + 1, Len(s))
<1>0. Len(s) \in Nat /\ i \in Nat /\ i >= 1 /\ i <= Len(s)
  BY LenProperties
<1>1. l \in Seq(S) /\ Len(l) = i - 1 /\ \A k \in 1..(i - 1) : l[k] = s[k]
  BY <1>0, SubSeqProperties
<1>2. r \in Seq(S) /\ Len(r) = Len(s) - i /\ \A k \in 1..(Len(s) - i) : r[k] = s[k + i]
  BY <1>0, SubSeqProperties
<1> HIDE DEF l, r
<1>3. /\ l \o r \in Seq(S)
      /\ Len(l \o r) = Len(l) + Len(r)
      /\ \A k \in 1..Len(l) + Len(r) : (l \o r)[k] = IF k <= Len(l) THEN l[k] ELSE r[k - Len(l)]
  BY <1>1, <1>2, ConcatProperties, Zenon
<1>4. ASSUME NEW k \in 1..Len(s) - 1
      PROVE  (l \o r)[k] = IF k < i THEN s[k] ELSE s[k + 1]
  <2>1. k \in 1..Len(l) + Len(r)
    BY <1>0, <1>1, <1>2
  <2>2. (l \o r)[k] = IF k <= Len(l) THEN l[k] ELSE r[k - Len(l)]
    BY <1>3, <2>1, Zenon
  <2>3. CASE k < i
    BY <1>0, <1>1, <2>2, <2>3
  <2>4. CASE ~(k < i)
    <3>1. k - Len(l) \in 1..(Len(s) - i) /\ (k - Len(l)) + i = k + 1 /\ ~(k <= Len(l))
      BY <1>0, <1>1, <2>4
    <3> QED
      BY <1>2, <2>2, <2>4, <3>1
  <2> QED
    BY <2>3, <2>4
<1>5. RemoveAt(s, i) = l \o r
  BY DEF RemoveAt, l, r
<1>6. Len(l \o r) = Len(s) - 1
  BY <1>0, <1>1, <1>2, <1>3
<1> QED
  BY <1>3, <1>4, <1>5, <1>6, Zenon

-----------------------------------------------------------------------------
(* IInv holds initially and every step keeps it.  One lemma per goroutine,  *)
(* one step per action; only the actions that rearrange q.pending need more *)
(* than the definitions.                                                    *)

LEMMA EmptyQueue == <<>> \in Seq(Jobs) /\ DOMAIN <<>> = {}
<1>1. <<>> \in Seq(Jobs) /\ Len(<<>>) = 0
  BY EmptySeq
<1>2. DOMAIN <<>> = 1..0
  BY <1>1, LenProperties
<1> QED
  BY <1>1, <1>2

LEMMA InitIInv == Init => IInv
<1> SUFFICES ASSUME Init PROVE IInv
  OBVIOUS
<1>1. TypeOK
  BY EmptyQueue DEF Init, TypeOK, InRunJob, Lifecycle!Statuses
<1>2. NoLostWakeup /\ UnsettledJobsAreHeld /\ QueueHoldsPendingJobs
  BY EmptyQueue DEF Init, NoLostWakeup, UnsettledJobsAreHeld, QueueHoldsPendingJobs
<1>3. DoneHasBinary /\ FleetHasBuiltDevicesOnly /\ EnqueueControl
  BY DEF Init, DoneHasBinary, FleetHasBuiltDevicesOnly, EnqueueControl
<1>4. WorkerControl /\ FileControl
  BY DEF Init, WorkerControl, FileControl, InRunJob
<1> QED
  BY <1>1, <1>2, <1>3, <1>4 DEF IInv

\* Enqueue's append puts at the back a job that was nowhere before.
LEMMA AppendJobKeepsIInv == ASSUME IInv, NEW j \in Jobs, AppendJob(j) PROVE IInv'
<1>1. /\ pending \in Seq(Jobs)
      /\ Len(pending) \in Nat
      /\ DOMAIN pending = 1..Len(pending)
  BY LenProperties DEF IInv, TypeOK
<1>2. /\ pending' \in Seq(Jobs)
      /\ DOMAIN pending' = 1..Len(pending) + 1
      /\ \A i \in DOMAIN pending : pending'[i] = pending[i]
      /\ pending'[Len(pending) + 1] = j
  BY <1>1, AppendProperties, LenProperties DEF AppendJob
<1>3. TypeOK'
  BY <1>2 DEF IInv, TypeOK, AppendJob, stores, aging, Lifecycle!Statuses, InRunJob
<1>4. NoLostWakeup'
  BY DEF IInv, TypeOK, AppendJob, NoLostWakeup
<1>5. UnsettledJobsAreHeld'
  BY <1>1, <1>2 DEF IInv, TypeOK, UnsettledJobsAreHeld, AppendJob, stores
<1>6. QueueHoldsPendingJobs'
  <2>1. status[j] = "pending" /\ j \notin cancelling /\ j # active
        /\ \A i \in DOMAIN pending : pending[i] # j
    BY JobsAssumption DEF IInv, TypeOK, QueueHoldsPendingJobs, EnqueueControl, WorkerControl, AppendJob
  <2> QED
    BY <1>1, <1>2, <2>1 DEF IInv, TypeOK, QueueHoldsPendingJobs, AppendJob, stores
<1>7. EnqueueControl' /\ WorkerControl'
  BY DEF IInv, TypeOK, EnqueueControl, WorkerControl, AppendJob, stores
<1>8. DoneHasBinary' /\ FleetHasBuiltDevicesOnly' /\ FileControl'
  BY DEF IInv, DoneHasBinary, FleetHasBuiltDevicesOnly, FileControl, AppendJob, stores, aging
<1> QED
  BY <1>3, <1>4, <1>5, <1>6, <1>7, <1>8 DEF IInv

\* Cancel takes its job out of the queue and moves no other job.
LEMMA RemovePendingKeepsIInv == ASSUME IInv, NEW j \in Jobs, RemovePending(j) PROVE IInv'
<1>1. /\ pending \in Seq(Jobs)
      /\ Len(pending) \in Nat
      /\ DOMAIN pending = 1..Len(pending)
  BY LenProperties DEF IInv, TypeOK
<1>2. PICK i \in 1..Len(pending) : pending[i] = j /\ pending' = RemoveAt(pending, i)
  BY <1>1 DEF RemovePending
<1>3. /\ RemoveAt(pending, i) \in Seq(Jobs)
      /\ Len(RemoveAt(pending, i)) = Len(pending) - 1
      /\ \A k \in 1..Len(pending) - 1 :
            RemoveAt(pending, i)[k] = IF k < i THEN pending[k] ELSE pending[k + 1]
  BY <1>1, RemoveAtFacts
<1>4. /\ pending' \in Seq(Jobs)
      /\ DOMAIN pending' = 1..Len(pending) - 1
      /\ \A k \in 1..Len(pending) - 1 :
            pending'[k] = IF k < i THEN pending[k] ELSE pending[k + 1]
  BY <1>2, <1>3, LenProperties
<1>5. ASSUME NEW k \in DOMAIN pending, k # i
      PROVE  \E n \in DOMAIN pending' : pending'[n] = pending[k]
  <2>1. CASE k < i
    <3>1. k \in 1..Len(pending) - 1
      BY <1>1, <2>1
    <3> QED
      BY <1>4, <2>1, <3>1
  <2>2. CASE k > i
    <3>1. k - 1 \in 1..Len(pending) - 1 /\ ~(k - 1 < i) /\ (k - 1) + 1 = k
      BY <1>1, <2>2
    <3> QED
      BY <1>4, <3>1
  <2> QED
    BY <1>1, <1>5, <2>1, <2>2
<1>6. ASSUME NEW k \in DOMAIN pending'
      PROVE  \E n \in DOMAIN pending : n # i /\ pending'[k] = pending[n]
  <2>1. k \in 1..Len(pending) /\ k + 1 \in 1..Len(pending)
    BY <1>1, <1>4
  <2> QED
    BY <1>1, <1>4, <2>1
<1>7. ASSUME NEW k \in DOMAIN pending', NEW n \in DOMAIN pending', pending'[k] = pending'[n]
      PROVE  k = n
  <2> DEFINE old(m) == IF m < i THEN m ELSE m + 1
  <2>1. old(k) \in DOMAIN pending /\ old(n) \in DOMAIN pending
    BY <1>1, <1>4
  <2>2. pending[old(k)] = pending[old(n)]
    BY <1>4, <1>7
  <2>3. old(k) = old(n)
    BY <2>1, <2>2 DEF IInv, QueueHoldsPendingJobs
  <2> QED
    BY <1>1, <1>4, <2>3
<1>8. TypeOK'
  BY <1>4 DEF IInv, TypeOK, RemovePending, stores, aging
<1>9. NoLostWakeup'
  BY <1>1 DEF IInv, NoLostWakeup, RemovePending
<1>10. UnsettledJobsAreHeld'
  BY <1>1, <1>2, <1>5 DEF IInv, TypeOK, UnsettledJobsAreHeld, RemovePending, stores
<1>11. QueueHoldsPendingJobs'
  <2>1. \A k \in DOMAIN pending' : pending'[k] # j
    BY <1>1, <1>2, <1>6 DEF IInv, QueueHoldsPendingJobs
  <2> QED
    BY <1>1, <1>2, <1>6, <1>7, <2>1 DEF IInv, QueueHoldsPendingJobs, RemovePending, stores
<1>12. EnqueueControl' /\ WorkerControl'
  BY <1>1, <1>2 DEF IInv, TypeOK, QueueHoldsPendingJobs, EnqueueControl, WorkerControl,
     RemovePending, stores
<1>13. DoneHasBinary' /\ FleetHasBuiltDevicesOnly' /\ FileControl'
  BY DEF IInv, DoneHasBinary, FleetHasBuiltDevicesOnly, FileControl, RemovePending, stores, aging
<1> QED
  BY <1>8, <1>9, <1>10, <1>11, <1>12, <1>13 DEF IInv

\* The worker takes the job at the front; the rest of the queue moves up.
LEMMA PopNextKeepsIInv == ASSUME IInv, PopNext PROVE IInv'
<1>1. /\ pending \in Seq(Jobs) /\ pending # <<>>
      /\ Len(pending) \in Nat \ {0}
      /\ DOMAIN pending = 1..Len(pending)
  BY LenProperties, EmptySeq DEF IInv, TypeOK, PopNext
<1>2. /\ active' = pending[1]
      /\ active' \in Jobs
      /\ 1 \in DOMAIN pending
      /\ pending' \in Seq(Jobs)
      /\ DOMAIN pending' = 1..Len(pending) - 1
      /\ \A i \in 1..Len(pending) - 1 : pending'[i] = pending[i + 1]
  BY <1>1, HeadTailProperties, LenProperties DEF PopNext
<1>3. ASSUME NEW k \in DOMAIN pending, k # 1
      PROVE  \E n \in DOMAIN pending' : pending'[n] = pending[k]
  <2>1. k - 1 \in 1..Len(pending) - 1 /\ (k - 1) + 1 = k
    BY <1>1, <1>3
  <2> QED
    BY <1>2, <2>1
<1>4. ASSUME NEW k \in DOMAIN pending'
      PROVE  k + 1 \in DOMAIN pending /\ k + 1 # 1 /\ pending'[k] = pending[k + 1]
  BY <1>1, <1>2
<1>5. active = NoJob
  BY DEF IInv, WorkerControl, PopNext
<1>6. TypeOK'
  BY <1>2 DEF IInv, TypeOK, PopNext, stores, calls, aging, InRunJob
<1>7. NoLostWakeup'
  BY DEF NoLostWakeup, PopNext
<1>8. UnsettledJobsAreHeld'
  BY <1>2, <1>3, <1>5, JobsAssumption
  DEF IInv, TypeOK, UnsettledJobsAreHeld, PopNext, stores, calls, InRunJob
<1>9. QueueHoldsPendingJobs'
  <2>1. \A k \in DOMAIN pending' : pending'[k] # active'
    BY <1>2, <1>4 DEF IInv, QueueHoldsPendingJobs
  <2>2. \A k, n \in DOMAIN pending' : pending'[k] = pending'[n] => k = n
    <3>1. \A k, n \in DOMAIN pending' : pending'[k] = pending'[n] => k + 1 = n + 1
      BY <1>4 DEF IInv, QueueHoldsPendingJobs
    <3> QED
      BY <1>1, <1>2, <3>1
  <2>3. active' \notin cancelling
    BY <1>2 DEF IInv, QueueHoldsPendingJobs
  <2> QED
    BY <1>4, <2>1, <2>2, <2>3 DEF IInv, QueueHoldsPendingJobs, PopNext, stores, calls
<1>10. WorkerControl'
  BY <1>2, JobsAssumption DEF IInv, QueueHoldsPendingJobs, WorkerControl, PopNext, stores, calls, InRunJob
<1>11. EnqueueControl'
  BY DEF IInv, EnqueueControl, PopNext, stores, calls
<1>12. DoneHasBinary' /\ FleetHasBuiltDevicesOnly' /\ FileControl'
  BY DEF IInv, DoneHasBinary, FleetHasBuiltDevicesOnly, FileControl, PopNext, stores, aging
<1> QED
  BY <1>6, <1>7, <1>8, <1>9, <1>10, <1>11, <1>12 DEF IInv

\* A restart empties everything but the stores, whose stale rows it settles.
LEMMA HubRestartKeepsIInv == ASSUME IInv, HubRestart PROVE IInv'
<1>1. pending' \in Seq(Jobs) /\ DOMAIN pending' = {} /\ pending' = <<>>
  BY EmptyQueue DEF HubRestart
<1>2. TypeOK'
  BY <1>1 DEF IInv, TypeOK, HubRestart, Lifecycle!Statuses, Lifecycle!Terminal
<1>3. NoLostWakeup' /\ QueueHoldsPendingJobs'
  BY <1>1 DEF NoLostWakeup, QueueHoldsPendingJobs, HubRestart
<1>4. UnsettledJobsAreHeld'
  BY DEF IInv, TypeOK, UnsettledJobsAreHeld, HubRestart
<1>5. EnqueueControl' /\ WorkerControl'
  BY DEF IInv, TypeOK, EnqueueControl, WorkerControl, HubRestart, InRunJob
<1>6. DoneHasBinary' /\ FleetHasBuiltDevicesOnly' /\ FileControl'
  BY DEF IInv, TypeOK, DoneHasBinary, FleetHasBuiltDevicesOnly, FileControl, HubRestart,
     Terminal, Lifecycle!Terminal
<1> QED
  BY <1>2, <1>3, <1>4, <1>5, <1>6 DEF IInv

\* The Enqueue handler keeps the invariant.
LEMMA EnqueueKeepsIInv ==
    ASSUME IInv, NEW j \in Jobs, CreateRow(j) \/ AppendJob(j) \/ Notify(j)
    PROVE  IInv'
<1> USE JobsAssumption, DevicesAssumption
    DEF IInv, TypeOK, NoLostWakeup, UnsettledJobsAreHeld, QueueHoldsPendingJobs,
        DoneHasBinary, FleetHasBuiltDevicesOnly, WorkerControl, EnqueueControl, FileControl,
        InRunJob, Terminal, Lifecycle!Statuses, Lifecycle!Terminal,
        stores, queue, calls, aging, SetStatus
<1>1. CASE CreateRow(j)
  BY <1>1 DEF CreateRow
<1>2. CASE AppendJob(j)
  BY <1>2, AppendJobKeepsIInv
<1>3. CASE Notify(j)
  BY <1>3 DEF Notify
<1> QED
  BY <1>1, <1>2, <1>3

\* The Cancel handler, and the deadline that acts like one, keep the invariant.
LEMMA CancelKeepsIInv ==
    ASSUME IInv,
           \/ Deadline
           \/ \E j \in Jobs : RemovePending(j) \/ MarkCancelled(j) \/ CancelActive(j)
    PROVE  IInv'
<1> USE JobsAssumption, DevicesAssumption
    DEF IInv, TypeOK, NoLostWakeup, UnsettledJobsAreHeld, QueueHoldsPendingJobs,
        DoneHasBinary, FleetHasBuiltDevicesOnly, WorkerControl, EnqueueControl, FileControl,
        InRunJob, Terminal, Lifecycle!Statuses, Lifecycle!Terminal,
        stores, queue, calls, aging, SetStatus
<1>1. CASE Deadline
  BY <1>1 DEF Deadline
<1>2. ASSUME NEW j \in Jobs, RemovePending(j)
      PROVE  IInv'
  BY <1>2, RemovePendingKeepsIInv
<1>3. ASSUME NEW j \in Jobs, MarkCancelled(j)
      PROVE  IInv'
  BY <1>3 DEF MarkCancelled
<1>4. ASSUME NEW j \in Jobs, CancelActive(j)
      PROVE  IInv'
  BY <1>4 DEF CancelActive
<1> QED
  BY <1>1, <1>2, <1>3, <1>4

\* The worker goroutine keeps the invariant.
LEMMA WorkerKeepsIInv == ASSUME IInv, Worker PROVE IInv'
<1> USE JobsAssumption, DevicesAssumption
    DEF IInv, TypeOK, NoLostWakeup, UnsettledJobsAreHeld, QueueHoldsPendingJobs,
        DoneHasBinary, FleetHasBuiltDevicesOnly, WorkerControl, EnqueueControl, FileControl,
        InRunJob, Terminal, Lifecycle!Statuses, Lifecycle!Terminal,
        stores, queue, calls, aging, SetStatus
<1>1. CASE WakeUp
  <2>0. pending' = pending /\ DOMAIN pending' = DOMAIN pending
    BY <1>1 DEF WakeUp
  <2>1. TypeOK' /\ NoLostWakeup'
    BY <1>1 DEF WakeUp
  <2>4. UnsettledJobsAreHeld'
    BY <1>1 DEF WakeUp
  <2>5. QueueHoldsPendingJobs'
    BY <1>1 DEF WakeUp
  <2>2. DoneHasBinary' /\ FleetHasBuiltDevicesOnly' /\ WorkerControl'
    BY <1>1 DEF WakeUp
  <2>3. EnqueueControl' /\ FileControl'
    BY <1>1 DEF WakeUp
  <2> QED
    BY <2>1, <2>2, <2>3, <2>4, <2>5
<1>2. CASE PopNext
  BY <1>2, PopNextKeepsIInv
<1>3. CASE Drained
  BY <1>3 DEF Drained
<1>4. CASE Begin
  BY <1>4 DEF Begin
<1>5. CASE Build
  BY <1>5 DEF Build
<1>6. CASE CompileReturns
  BY <1>6 DEF CompileReturns
<1>7. CASE ReadBinary
  BY <1>7 DEF ReadBinary
<1>8. CASE SaveBinary
  BY <1>8 DEF SaveBinary
<1>9. CASE RegisterDevice
  BY <1>9 DEF RegisterDevice
<1>10. CASE Commit
  BY <1>10 DEF Commit, Settle
<1>11. CASE FailJob
  BY <1>11 DEF FailJob, Settle
<1>12. CASE AbortJob
  BY <1>12 DEF AbortJob, Settle
<1>13. CASE ClearActive
  BY <1>13 DEF ClearActive
<1> QED
  BY <1>1, <1>2, <1>3, <1>4, <1>5, <1>6, <1>7, <1>8, <1>9, <1>10, <1>11, <1>12, <1>13
  DEF Worker

\* The sweep, the clock, a user's deletion and a restart keep the invariant.
LEMMA SurroundingsKeepIInv ==
    ASSUME IInv,
           \/ SweepRows \/ SweepFiles \/ HubRestart
           \/ \E j \in Jobs : RowAges(j) \/ FileAges(j)
           \/ \E d \in Devices : RemoveDevice(d)
    PROVE  IInv'
<1> USE JobsAssumption, DevicesAssumption
    DEF IInv, TypeOK, NoLostWakeup, UnsettledJobsAreHeld, QueueHoldsPendingJobs,
        DoneHasBinary, FleetHasBuiltDevicesOnly, WorkerControl, EnqueueControl, FileControl,
        InRunJob, Terminal, Lifecycle!Statuses, Lifecycle!Terminal,
        stores, queue, calls, aging, SetStatus
<1>1. CASE SweepRows
  BY <1>1 DEF SweepRows
<1>2. CASE SweepFiles
  <2>0. pending' = pending /\ DOMAIN pending' = DOMAIN pending
    BY <1>2 DEF SweepFiles
  <2>1. TypeOK' /\ NoLostWakeup'
    BY <1>2 DEF SweepFiles
  <2>4. UnsettledJobsAreHeld'
    BY <1>2 DEF SweepFiles
  <2>5. QueueHoldsPendingJobs'
    BY <1>2 DEF SweepFiles
  <2>2. DoneHasBinary' /\ FleetHasBuiltDevicesOnly'
    BY <1>2 DEF SweepFiles
  <2>3. WorkerControl' /\ EnqueueControl' /\ FileControl'
    BY <1>2 DEF SweepFiles
  <2> QED
    BY <2>1, <2>2, <2>3, <2>4, <2>5
<1>3. CASE HubRestart
  BY <1>3, HubRestartKeepsIInv
<1>4. ASSUME NEW j \in Jobs, RowAges(j)
      PROVE  IInv'
  BY <1>4 DEF RowAges
<1>5. ASSUME NEW j \in Jobs, FileAges(j)
      PROVE  IInv'
  BY <1>5 DEF FileAges
<1>6. ASSUME NEW d \in Devices, RemoveDevice(d)
      PROVE  IInv'
  BY <1>6 DEF RemoveDevice
<1> QED
  BY <1>1, <1>2, <1>3, <1>4, <1>5, <1>6

LEMMA NextKeepsIInv == IInv /\ [Next]_vars => IInv'
<1> SUFFICES ASSUME IInv, [Next]_vars
             PROVE  IInv'
  OBVIOUS
<1>1. CASE UNCHANGED vars
  BY <1>1 DEF vars, stores, queue, calls, aging, IInv, TypeOK, NoLostWakeup,
     UnsettledJobsAreHeld, QueueHoldsPendingJobs, DoneHasBinary, FleetHasBuiltDevicesOnly,
     WorkerControl, EnqueueControl, FileControl
<1>2. CASE Next
  BY <1>2, EnqueueKeepsIInv, CancelKeepsIInv, WorkerKeepsIInv, SurroundingsKeepIInv DEF Next
<1> QED
  BY <1>1, <1>2

-----------------------------------------------------------------------------
(* The theorems.                                                            *)

\* IInv, the inductive invariant, holds in every reachable state.
THEOREM Invariance == Spec => []IInv
BY InitIInv, NextKeepsIInv, PTL DEF Spec

\* Every variable keeps its type.
THEOREM TypeCorrect == Spec => []TypeOK
<1>1. IInv => TypeOK
  BY DEF IInv
<1> QED
  BY <1>1, Invariance, PTL

\* A non-empty q.pending never waits on a sleeping worker that nobody is going
\* to wake: the capacity-1 notify channel and the inner loop lose no job.
THEOREM NoWakeupIsLost == Spec => []NoLostWakeup
<1>1. IInv => NoLostWakeup
  BY DEF IInv
<1> QED
  BY <1>1, Invariance, PTL

\* A row says pending or running only while a goroutine of this process holds
\* the job, whatever crashes came before.
THEOREM NoOrphanRow == Spec => [](UnsettledJobsAreHeld /\ QueueHoldsPendingJobs)
<1>1. IInv => UnsettledJobsAreHeld /\ QueueHoldsPendingJobs
  BY DEF IInv
<1> QED
  BY <1>1, Invariance, PTL

\* A done job has its binary and the fleet lists only devices built once,
\* across crashes and sweeps.
THEOREM BinariesAreKept == Spec => [](DoneHasBinary /\ FleetHasBuiltDevicesOnly)
<1>1. IInv => DoneHasBinary /\ FleetHasBuiltDevicesOnly
  BY DEF IInv
<1> QED
  BY <1>1, Invariance, PTL

\* One step of the queue is one step of a job's promised life, or none.
LEMMA StepSimulation == IInv /\ [Next]_vars => [Lifecycle!Next]_status
<1> SUFFICES ASSUME IInv, Next
             PROVE  Lifecycle!Next \/ UNCHANGED status
  BY DEF vars, stores
<1>1. ASSUME NEW j \in Jobs, CreateRow(j)
      PROVE  Lifecycle!Submit(j)
  BY <1>1 DEF IInv, EnqueueControl, CreateRow, SetStatus, Lifecycle!Submit, Lifecycle!Move
<1>2. ASSUME NEW j \in Jobs, MarkCancelled(j)
      PROVE  Lifecycle!Withdraw(j)
  BY <1>2 DEF IInv, QueueHoldsPendingJobs, MarkCancelled, SetStatus,
     Lifecycle!Withdraw, Lifecycle!Move
<1>3. CASE Begin
  <2>1. active \in Jobs /\ status[active] = "pending"
    BY <1>3 DEF IInv, TypeOK, WorkerControl, Begin
  <2>2. \A k \in Jobs : status[k] # "running"
    BY <1>3 DEF IInv, UnsettledJobsAreHeld, Begin
  <2>3. Lifecycle!Start(active)
    BY <1>3, <2>1, <2>2 DEF Begin, SetStatus, Lifecycle!Start, Lifecycle!Move
  <2> QED
    BY <2>1, <2>3 DEF Lifecycle!Next
<1>4. ASSUME NEW pc \in {"commit", "fail", "abort"}, NEW s \in Terminal, Settle(pc, s)
      PROVE  Lifecycle!Next
  <2>1. active \in Jobs /\ status[active] = "running"
    BY <1>4 DEF IInv, TypeOK, WorkerControl, Settle, InRunJob
  <2>2. Lifecycle!Finish(active)
    BY <1>4, <2>1 DEF Settle, SetStatus, Terminal, Lifecycle!Finish, Lifecycle!Move
  <2> QED
    BY <2>1, <2>2 DEF Lifecycle!Next
<1>5. CASE SweepRows
  <2> DEFINE S == {j \in Jobs : j \in rowOld /\ status[j] \in Lifecycle!Terminal}
  <2>1. S \in SUBSET {j \in Jobs : status[j] \in Lifecycle!Terminal}
    OBVIOUS
  <2>2. status' = [j \in Jobs |-> IF j \in S THEN "purged" ELSE status[j]]
    BY <1>5 DEF SweepRows, Terminal
  <2>3. Lifecycle!Purge
    BY <2>1, <2>2 DEF Lifecycle!Purge
  <2> QED
    BY <2>3 DEF Lifecycle!Next
<1>6. CASE HubRestart
  BY <1>6 DEF HubRestart, Lifecycle!Restart, Lifecycle!Next
<1>7. CASE Worker
  <2>1. CASE Commit
    BY <1>4, <2>1 DEF Commit, Terminal, Lifecycle!Terminal
  <2>2. CASE FailJob
    BY <1>4, <2>2 DEF FailJob, Terminal, Lifecycle!Terminal
  <2>3. CASE AbortJob
    BY <1>4, <2>3 DEF AbortJob, Terminal, Lifecycle!Terminal
  <2>4. CASE WakeUp \/ PopNext \/ Drained \/ Build \/ CompileReturns \/ ReadBinary
             \/ SaveBinary \/ RegisterDevice \/ ClearActive
    BY <2>4 DEF WakeUp, PopNext, Drained, Build, CompileReturns, ReadBinary, SaveBinary,
       RegisterDevice, ClearActive, stores
  <2> QED
    BY <1>3, <1>7, <2>1, <2>2, <2>3, <2>4 DEF Worker
<1>8. CASE \/ \E j \in Jobs : \/ AppendJob(j) \/ Notify(j) \/ RemovePending(j)
                              \/ CancelActive(j) \/ RowAges(j) \/ FileAges(j)
           \/ \E d \in Devices : RemoveDevice(d)
           \/ Deadline \/ SweepFiles
  BY <1>8 DEF AppendJob, Notify, RemovePending, CancelActive, RowAges, FileAges,
     RemoveDevice, Deadline, SweepFiles, stores
<1> QED
  BY <1>1, <1>2, <1>5, <1>6, <1>7, <1>8 DEF Next, Lifecycle!Next

\* The queue implements the life of a job that the design promises: rows move
\* along its state machine only, and never two of them run at once.
THEOREM Refinement == Spec => ImplementsLifecycle
<1>1. Init => Lifecycle!Init
  BY DEF Init, Lifecycle!Init
<1> QED
  BY <1>1, StepSimulation, Invariance, PTL DEF Spec, ImplementsLifecycle, Lifecycle!Spec
=============================================================================
