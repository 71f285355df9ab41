------------------------------- MODULE WebFlash -------------------------------
(***************************************************************************)
(* The sessions of browser flashing (internal/api/webflash.go).  Preparing *)
(* one draws a key, builds the NVS image and keeps it in memory under a    *)
(* token together with the firmware version; the browser then fetches the  *)
(* manifest and its parts.  Sessions over 30 minutes old are collected     *)
(* every five minutes; a restart loses them all.                           *)
(*                                                                         *)
(* Every access is under sessionMu.  What the browser does with the parts  *)
(* is Provisioning!BrowserFlash.                                           *)
(***************************************************************************)
EXTENDS Naturals

CONSTANTS
    Tokens,     \* sessions that may be prepared
    Versions,   \* firmware versions
    NoVersion   \* nothing announced, nothing fetched

ASSUME WebAssumption == NoVersion \notin Versions

VARIABLES
    session,    \* of each token: "none", "live", "old" (over 30 minutes),
                \* "collected" or "lost"
    sessionFw,  \* the version it was prepared with
    page        \* the browser: its step, the version announced, the one fetched

webVars == <<session, sessionFw, page>>

WebTypeOK ==
    /\ session \in [Tokens -> {"none", "live", "old", "collected", "lost"}]
    /\ sessionFw \in [Tokens -> Versions \cup {NoVersion}]
    /\ page \in [Tokens -> [pc : {"idle", "manifest", "image", "nvs", "complete", "refused", "failed"},
                            label : Versions \cup {NoVersion},
                            fw : Versions \cup {NoVersion}]]

WebInit ==
    /\ session = [t \in Tokens |-> "none"]
    /\ sessionFw = [t \in Tokens |-> NoVersion]
    /\ page = [t \in Tokens |-> [pc |-> "idle", label |-> NoVersion, fw |-> NoVersion]]

Known(t) == session[t] \in {"live", "old"}

\* Template and version (the one asked for, or the latest) were found, key,
\* credentials and image were made.
Prepare(t) ==
    /\ session[t] = "none"
    /\ session' = [session EXCEPT ![t] = "live"]
    /\ \E v \in Versions : sessionFw' = [sessionFw EXCEPT ![t] = v]
    /\ page' = [page EXCEPT ![t].pc = "manifest"]

Turns30(t) ==
    /\ session[t] = "live"
    /\ session' = [session EXCEPT ![t] = "old"]
    /\ UNCHANGED <<sessionFw, page>>

CollectSessions ==
    /\ \E t \in Tokens : session[t] = "old"
    /\ session' = [t \in Tokens |-> IF session[t] = "old" THEN "collected" ELSE session[t]]
    /\ UNCHANGED <<sessionFw, page>>

\* A request of the page in step pc that finds its session.
Served(t, pc, next) ==
    /\ page[t].pc = pc /\ Known(t)
    /\ page' = [page EXCEPT ![t] = next]
    /\ UNCHANGED <<session, sessionFw>>

FetchManifest(t) ==
    Served(t, "manifest", [page[t] EXCEPT !.pc = "image", !.label = sessionFw[t]])

\* Mutant: the version that is the latest by now, as /firmware.bin serves it.
FetchFirmware_Latest(t) ==
    \E latest \in Versions :
        Served(t, "image", [page[t] EXCEPT !.pc = "nvs", !.fw = latest])

FetchFirmware(t) == Served(t, "image", [page[t] EXCEPT !.pc = "nvs", !.fw = sessionFw[t]])

\* The version was deleted from the registry meanwhile.
FirmwareGone(t) == Served(t, "image", [page[t] EXCEPT !.pc = "failed"])

FetchNVS(t) == Served(t, "nvs", [page[t] EXCEPT !.pc = "complete"])

\* "invalid or expired token".
Refuse(t) ==
    /\ page[t].pc \in {"manifest", "image", "nvs"} /\ ~Known(t)
    /\ page' = [page EXCEPT ![t].pc = "refused"]
    /\ UNCHANGED <<session, sessionFw>>

WebRestart ==
    /\ session' = [t \in Tokens |-> IF Known(t) THEN "lost" ELSE session[t]]
    /\ UNCHANGED <<sessionFw, page>>

WebNext ==
    \/ CollectSessions
    \/ \E t \in Tokens : \/ Prepare(t) \/ Turns30(t) \/ Refuse(t)
                         \/ FetchManifest(t) \/ FetchFirmware(t)
                         \/ FirmwareGone(t) \/ FetchNVS(t)
=============================================================================
