----------------------------- MODULE JobStream ------------------------------
(***************************************************************************)
(* The SSE fan-out of one compile job (Subscribe, broadcast and            *)
(* closeSubscribers of internal/esphome/queue.go, streamJob of             *)
(* internal/api/jobs.go).  Two writers announce events about the job: its  *)
(* Enqueue call ("enq", the position) and whoever carries the job to its   *)
(* end ("fin": the worker, or the Cancel call that took it out of the      *)
(* queue; CompileQueue shows there is exactly one).  Each browser tab is a *)
(* Client with its own buffered channel.                                   *)
(*                                                                         *)
(* A step is one critical section of subsMu, one SQL statement, or one     *)
(* operation on a channel.                                                 *)
(***************************************************************************)
EXTENDS Naturals, Sequences, SequencesExt

CONSTANTS
    Clients,   \* calls of GET /api/jobs/{id}/stream
    Cap,       \* capacity of a subscriber channel: 128 in the code
    MaxLines,  \* bound: lines the compile prints
    Outcomes   \* bound: the ways the job may end ("done" and "failed" take the
               \* same path through every line modelled here)

Terminal == {"done", "failed", "cancelled"}

ASSUME StreamAssumption ==
    Cap \in Nat \ {0} /\ MaxLines \in Nat /\ Outcomes \subseteq Terminal

VARIABLES
    row,       \* esphome_jobs.status of the job
    dbLog,     \* number of lines in esphome_jobs.log
    fpc,       \* control point of "fin"; "new" until Enqueue has appended the job
    subs,      \* q.subs[id], a sequence of clients
    outbox,    \* writer -> events it still has to broadcast
    targets,   \* writer -> rest of the list copied by the broadcast under way
    toClose,   \* rest of the list closeSubscribers took
    panicked,  \* writers that hit a closed channel
    cpc,       \* client -> control point of its handler
    chan,      \* client -> contents of its channel
    closed,    \* client -> its channel is closed
    dropped    \* client -> an event was dropped because its channel was full

job      == <<row, dbLog, fpc>>
writing  == <<outbox, targets, toClose, panicked>>
channels == <<chan, closed, dropped>>
vars     == <<job, subs, writing, cpc, channels>>

Writers == {"enq", "fin"}

\* An event as the channel carries it: its type and its data.
LogLine == <<"log", "text">>
Status(s) == <<"status", s>>
Position == <<"position", "1">>
Done(s) == <<"done", s>>

\* Mutant: a cancelled job is announced by its status alone.
Farewell_Bare(s) == IF s = "cancelled" THEN <<Status(s)>> ELSE <<Done(s)>>

\* What is announced when the row is settled as s.
Farewell(s) == IF s = "cancelled" THEN <<Status(s), Done(s)>> ELSE <<Done(s)>>

\* What Subscribe puts into a fresh channel on the strength of its first read.
Replay ==
    [n \in 1..dbLog |-> LogLine] \o <<Status(row)>>
        \o (IF row \in Terminal THEN Farewell(row) ELSE <<>>)

Events ==
    {LogLine, Position}
        \cup {Status(s) : s \in {"pending", "running"} \cup Terminal}
        \cup {Done(s) : s \in Terminal}

TypeOK ==
    /\ row \in {"pending", "running"} \cup Terminal
    /\ dbLog \in 0..MaxLines
    /\ fpc \in {"new", "queued", "running", "settled", "closing", "end"}
    /\ subs \in Seq(Clients)
    /\ outbox \in [Writers -> Seq(Events)]
    /\ targets \in [Writers -> Seq(Clients)]
    /\ toClose \in Seq(Clients)
    /\ panicked \subseteq Writers
    /\ cpc \in [Clients -> {"idle", "attaching", "stuck", "reading", "gone", "silent"}]
    /\ chan \in [Clients -> Seq(Events)]
    /\ \A c \in Clients : Len(chan[c]) <= Cap
    /\ closed \in [Clients -> BOOLEAN]
    /\ dropped \in [Clients -> BOOLEAN]

Init ==
    /\ row = "pending" /\ dbLog = 0 /\ fpc = "new"
    /\ subs = <<>>
    /\ outbox = [w \in Writers |-> <<>>]
    /\ targets = [w \in Writers |-> <<>>]
    /\ toClose = <<>> /\ panicked = {}
    /\ cpc = [c \in Clients |-> "idle"]
    /\ chan = [c \in Clients |-> <<>>]
    /\ closed = [c \in Clients |-> FALSE]
    /\ dropped = [c \in Clients |-> FALSE]

-----------------------------------------------------------------------------
(* broadcast: copy the list under RLock, then send to each copy without    *)
(* the lock and without blocking.                                          *)

Announce(w, evs) == outbox' = [outbox EXCEPT ![w] = evs]

CopySubs(w) ==
    /\ outbox[w] # <<>> /\ targets[w] = <<>>
    /\ targets' = [targets EXCEPT ![w] = subs]
    /\ outbox' = IF subs = <<>> THEN [outbox EXCEPT ![w] = Tail(@)] ELSE outbox
    /\ UNCHANGED <<job, subs, toClose, panicked, cpc, channels>>

\* On to the next copy; after the last one, to the next event.
NextTarget(w) ==
    /\ targets' = [targets EXCEPT ![w] = Tail(@)]
    /\ outbox' = IF Len(targets[w]) = 1 THEN [outbox EXCEPT ![w] = Tail(@)] ELSE outbox

\* Mutant: a full buffer does not stop the send.
Send_Unbounded(w) ==
    /\ targets[w] # <<>> /\ w \notin panicked
    /\ LET c == Head(targets[w])
       IN /\ ~closed[c]
          /\ NextTarget(w)
          /\ chan' = [chan EXCEPT ![c] = Append(@, Head(outbox[w]))]
    /\ UNCHANGED <<job, subs, toClose, panicked, cpc, closed, dropped>>

\* A full channel loses the event.  What is in a channel whose reader has left
\* can no longer be seen and is not recorded.
Send(w) ==
    /\ targets[w] # <<>> /\ w \notin panicked
    /\ LET c == Head(targets[w])
           fits == Len(chan[c]) < Cap
       IN /\ ~closed[c]
          /\ NextTarget(w)
          /\ chan' = IF fits /\ cpc[c] = "reading"
                     THEN [chan EXCEPT ![c] = Append(@, Head(outbox[w]))] ELSE chan
          /\ dropped' = IF fits \/ cpc[c] # "reading" THEN dropped
                        ELSE [dropped EXCEPT ![c] = TRUE]
    /\ UNCHANGED <<job, subs, toClose, panicked, cpc, closed>>

\* A send on a closed channel panics: the goroutine is lost.
SendPanics(w) ==
    /\ targets[w] # <<>> /\ w \notin panicked
    /\ closed[Head(targets[w])]
    /\ panicked' = panicked \cup {w}
    /\ UNCHANGED <<job, subs, outbox, targets, toClose, cpc, channels>>

Idle(w) == outbox[w] = <<>> /\ w \notin panicked

-----------------------------------------------------------------------------
(* The writers.                                                            *)

\* The rest of a writer's action: neither the list nor a channel is touched.
Announces(w, evs) ==
    /\ Announce(w, evs)
    /\ UNCHANGED <<subs, targets, toClose, panicked, cpc, channels>>

AppendJob ==
    /\ fpc = "new"
    /\ fpc' = "queued"
    /\ Announces("enq", <<Position>>)
    /\ UNCHANGED <<row, dbLog>>

StartRun ==
    /\ fpc = "queued"
    /\ row' = "running" /\ fpc' = "running"
    /\ Announces("fin", <<Status("running")>>)
    /\ UNCHANGED dbLog

\* jobLogWriter.Write: the line goes to the database, then to the subscribers.
WriteLine ==
    /\ fpc = "running" /\ Idle("fin") /\ dbLog < MaxLines
    /\ dbLog' = dbLog + 1
    /\ Announces("fin", <<LogLine>>)
    /\ UNCHANGED <<row, fpc>>

\* Mutant: only the failure paths write the row; the success path forgets it.
SettleRow_Unwritten(s) ==
    /\ Idle("fin") /\ fpc = "running"
    /\ fpc' = "settled"
    /\ row' = IF s = "done" THEN row ELSE s
    /\ Announces("fin", Farewell(s))
    /\ UNCHANGED dbLog

\* runJob ends, failJob, or Cancel of a job still queued.
SettleRow(s) ==
    /\ Idle("fin")
    /\ fpc = "running" \/ (fpc = "queued" /\ s = "cancelled")
    /\ row' = s /\ fpc' = "settled"
    /\ Announces("fin", Farewell(s))
    /\ UNCHANGED dbLog

\* Mutant: the list is read but stays in the map.
TakeSubs_Kept ==
    /\ fpc = "settled" /\ Idle("fin")
    /\ fpc' = IF subs = <<>> THEN "end" ELSE "closing"
    /\ toClose' = subs
    /\ UNCHANGED <<row, dbLog, subs, outbox, targets, panicked, cpc, channels>>

\* Mutant: the channels are closed before the last events are sent.
TakeSubs_Early ==
    /\ fpc = "settled"
    /\ fpc' = IF subs = <<>> THEN "end" ELSE "closing"
    /\ toClose' = subs /\ subs' = <<>>
    /\ UNCHANGED <<row, dbLog, outbox, targets, panicked, cpc, channels>>

\* closeSubscribers: take the list under the lock, close after the unlock.
TakeSubs ==
    /\ fpc = "settled" /\ Idle("fin")
    /\ fpc' = IF subs = <<>> THEN "end" ELSE "closing"
    /\ toClose' = subs /\ subs' = <<>>
    /\ UNCHANGED <<row, dbLog, outbox, targets, panicked, cpc, channels>>

\* Closing a closed channel panics too.
CloseOne ==
    /\ fpc = "closing" /\ "fin" \notin panicked
    /\ IF closed[Head(toClose)]
       THEN panicked' = panicked \cup {"fin"} /\ UNCHANGED <<toClose, closed, fpc>>
       ELSE /\ closed' = [closed EXCEPT ![Head(toClose)] = TRUE]
            /\ toClose' = Tail(toClose)
            /\ fpc' = IF Len(toClose) = 1 THEN "end" ELSE fpc
            /\ UNCHANGED panicked
    /\ UNCHANGED <<row, dbLog, subs, outbox, targets, cpc, chan, dropped>>

-----------------------------------------------------------------------------
(* Subscribe and the loop of streamJob.  The sends of Subscribe wait for   *)
(* room, but nobody else knows the channel yet: a replay that fits is one  *)
(* step, one that does not leaves the handler stuck for good.              *)

Goto(c, pc) == cpc' = [cpc EXCEPT ![c] = pc]

\* The first GetJob, the replay, and the end of the stream if the row has one.
GetJob(c) ==
    /\ cpc[c] = "idle"
    /\ IF Len(Replay) > Cap
       THEN Goto(c, "stuck") /\ UNCHANGED <<chan, closed>>
       ELSE /\ chan' = [chan EXCEPT ![c] = Replay]
            /\ closed' = [closed EXCEPT ![c] = row \in Terminal]
            /\ Goto(c, IF row \in Terminal THEN "reading" ELSE "attaching")
    /\ UNCHANGED <<job, subs, writing, dropped>>

\* Mutant: registers on the strength of the first read.
Attach_Unchecked(c) ==
    /\ cpc[c] = "attaching"
    /\ subs' = Append(subs, c)
    /\ Goto(c, "reading")
    /\ UNCHANGED <<job, writing, channels>>

\* Under subsMu the row is read again: settled meanwhile, or register.
Attach(c) ==
    /\ cpc[c] = "attaching"
    /\ \/ /\ row \in Terminal /\ Len(chan[c]) < Cap
          /\ chan' = [chan EXCEPT ![c] = Append(@, Done(row))]
          /\ closed' = [closed EXCEPT ![c] = TRUE]
          /\ Goto(c, "reading")
          /\ UNCHANGED subs
       \/ /\ row \in Terminal /\ Len(chan[c]) = Cap
          /\ Goto(c, "stuck")
          /\ UNCHANGED <<subs, chan, closed>>
       \/ /\ row \notin Terminal
          /\ subs' = Append(subs, c)
          /\ Goto(c, "reading")
          /\ UNCHANGED <<chan, closed>>
    /\ UNCHANGED <<job, writing, dropped>>

\* The handler returns, and its deferred cleanup takes the channel off the list
\* if it is still there.  Nothing can be told about the channel any more.
Depart(c, pc) ==
    /\ Goto(c, pc)
    /\ \/ \E i \in DOMAIN subs : subs[i] = c /\ subs' = RemoveAt(subs, i)
       \/ (\A i \in DOMAIN subs : subs[i] # c) /\ UNCHANGED subs
    /\ chan' = [chan EXCEPT ![c] = <<>>]
    /\ dropped' = [dropped EXCEPT ![c] = @ /\ pc = "silent"]

\* One event is written to the response; after "done" the handler returns.
Deliver(c) ==
    /\ cpc[c] = "reading" /\ chan[c] # <<>>
    /\ IF Head(chan[c])[1] = "done"
       THEN Depart(c, "gone")
       ELSE /\ chan' = [chan EXCEPT ![c] = Tail(@)]
            /\ UNCHANGED <<subs, cpc, dropped>>
    /\ UNCHANGED <<job, writing, closed>>

\* The channel is drained and closed: the handler returns without a "done".
EndOfChannel(c) ==
    /\ cpc[c] = "reading" /\ chan[c] = <<>> /\ closed[c]
    /\ Depart(c, "silent")
    /\ UNCHANGED <<job, writing, closed>>

\* The browser goes away.
Disconnect(c) ==
    /\ cpc[c] = "reading"
    /\ Depart(c, "gone")
    /\ UNCHANGED <<job, writing, closed>>

Fin ==
    \/ StartRun \/ WriteLine \/ (\E s \in Outcomes : SettleRow(s))
    \/ TakeSubs \/ CloseOne

Writer(w) == CopySubs(w) \/ Send(w) \/ SendPanics(w)

Handler(c) == Attach(c) \/ Deliver(c) \/ EndOfChannel(c)

Next ==
    \/ AppendJob \/ Fin
    \/ \E w \in Writers : Writer(w)
    \/ \E c \in Clients : GetJob(c) \/ Handler(c) \/ Disconnect(c)

Spec == Init /\ [][Next]_vars

\* Goroutines run; the job is carried to its end (CompileQueue, EveryJobSettles).
FairSpec ==
    /\ Spec
    /\ WF_vars(AppendJob) /\ WF_vars(Fin)
    /\ \A w \in Writers : WF_vars(Writer(w))
    /\ \A c \in Clients : WF_vars(Handler(c))

-----------------------------------------------------------------------------
(* Properties.                                                             *)

\* The goroutine that carries a job to its end never sends on, nor closes, a
\* channel that is already closed.  For the worker this is the life of the
\* hub: it runs outside the HTTP recoverer and a panic would end the process.
FinisherNeverPanics == "fin" \notin panicked

\* No stream is left behind: a channel on the list will still be closed, and
\* once closeSubscribers is over every handler that reads has a closed channel.
NoOrphanStream ==
    /\ subs # <<>> => fpc \notin {"closing", "end"}
    /\ fpc = "end" => \A c \in Clients : cpc[c] = "reading" => closed[c]

\* A "done" event in a channel tells what the row says, and the row never
\* changes afterwards: the stream cannot announce an end the database denies.
DoneMatchesRow ==
    \A c \in Clients : \A i \in DOMAIN chan[c] :
        chan[c][i][1] = "done" => chan[c][i][2] = row

\* A stream ends without a "done" event only for a client so slow that an
\* event had to be dropped.
SilentEndMeansOverflow == \A c \in Clients : cpc[c] = "silent" => dropped[c]

\* Every stream whose subscription succeeded ends.
StreamEnds == \A c \in Clients : cpc[c] = "reading" ~> cpc[c] \in {"gone", "silent"}

\* Design doc, "Concurrent SSE subscribers: safe": no writer ever sends on a
\* closed channel, the Enqueue handler included.
SubscribersAreSafe == panicked = {}
=============================================================================
