-------------------------------- MODULE Light --------------------------------
(***************************************************************************)
(* The light of a device: two half-bridges of a DRV8833, AIN1 for the warm *)
(* and AIN2 for the cool LEDs, driven in opposition (firmware/main/        *)
(* drv8833.cpp).  Two tasks set it without a lock and each from a state of *)
(* its own: Matter's attribute callback (matter_app.cpp) and the serial    *)
(* console (console_cmd.cpp).                                              *)
(*                                                                         *)
(* A channel is set by one step (set_ch), so a call takes two, between     *)
(* which the other task may run.                                           *)
(***************************************************************************)
EXTENDS Integers

CONSTANTS
    Levels,     \* Matter levels used, of 0..254
    CTs,        \* colour temperatures used, in mireds
    Gamma,      \* the float curve of level_to_duty between 0 and 254
    RawDuties   \* duties given to led_raw

MaxDuty == 2047

Period == 2^11      \* counts of the PWM timer

ASSUME LightAssumption ==
    /\ Levels \subseteq 0..254 /\ CTs \subseteq Nat
    /\ Gamma \in [1..253 -> 0..MaxDuty]
    /\ RawDuties \subseteq 0..1023

VARIABLES
    pins,       \* the channels that drv8833_init routed to a GPIO
    ch,         \* duty and hpoint of each channel
    light,      \* the state each task keeps: on, level, colour temperature
    drive,      \* the call a task is in: the channel it sets next (0: none), its target
    effect,     \* the console's running effect: its kind, fade's end and last frame
    \* history
    last,       \* who made the last call: a task, "raw" or nobody yet
    raced       \* that call overlapped one of the other task

lightVars == <<pins, ch, light, drive, effect, last, raced>>

Tasks == {"matter", "console"}

Latch(d, h) == [duty |-> d, hpoint |-> h]

State(on, l, c) == [on |-> on, lvl |-> l, ct |-> c]

Idle == [at |-> 0, to |-> <<Latch(0, 0), Latch(0, 0)>>]

NoEffect == [kind |-> "none", end |-> 0, at |-> -1]

-----------------------------------------------------------------------------
(* drv8833.cpp.                                                            *)

LevelToDuty(l) == IF l = 0 THEN 0 ELSE IF l >= 254 THEN MaxDuty ELSE Gamma[l]

Clamp(c) == IF c < 153 THEN 153 ELSE IF c > 500 THEN 500 ELSE c

Warm(budget, c) == (budget * (Clamp(c) - 153)) \div 347

\* Warm first, cool from where warm stops; both channels off when the light is.
Split(s) ==
    LET budget == LevelToDuty(s.lvl)
        warm   == Warm(budget, s.ct)
    IN  IF s.on THEN <<Latch(warm, 0), Latch(budget - warm, warm)>>
        ELSE <<Latch(0, 0), Latch(0, 0)>>

\* Both half-bridges on at once: the motor driver brakes.  A pulse begins at its
\* hpoint and runs on into the next period when it outlasts its own.
Overlap(c) ==
    /\ c[1].duty > 0 /\ c[2].duty > 0
    /\ \/ (c[2].hpoint - c[1].hpoint) % Period < c[1].duty
       \/ (c[1].hpoint - c[2].hpoint) % Period < c[2].duty

\* Task t enters drv8833_set or drv8833_set_duty.
Enter(t, to, who) ==
    /\ drive[t].at = 0
    /\ drive' = [drive EXCEPT ![t] = [at |-> 1, to |-> to]]
    /\ last' = who
    /\ raced' = \E u \in Tasks \ {t} : drive[u].at # 0
    /\ UNCHANGED <<pins, ch>>

Set(t, s) == Enter(t, Split(s), t)

\* Mutant: only the duty is set; the pulse starts where the last one did.
SetCh_KeepsHpoint(t) ==
    /\ drive[t].at # 0
    /\ LET k == drive[t].at IN
       /\ ch' = IF k \in pins THEN [ch EXCEPT ![k].duty = drive[t].to[k].duty] ELSE ch
       /\ drive' = [drive EXCEPT ![t] = IF k = 1 THEN [@ EXCEPT !.at = 2] ELSE Idle]
    /\ UNCHANGED <<pins, light, effect, last, raced>>

\* A channel without a GPIO drives nothing.
SetCh(t) ==
    /\ drive[t].at # 0
    /\ LET k == drive[t].at IN
       /\ ch' = IF k \in pins THEN [ch EXCEPT ![k] = drive[t].to[k]] ELSE ch
       /\ drive' = [drive EXCEPT ![t] = IF k = 1 THEN [@ EXCEPT !.at = 2] ELSE Idle]
    /\ UNCHANGED <<pins, light, effect, last, raced>>

Dark == <<Latch(0, 0), Latch(0, 0)>>

\* The tasks' states after a start.
Fresh == [t \in Tasks |-> State(FALSE, IF t = "matter" THEN 64 ELSE 128, 370)]

InitLight ==
    /\ pins = {} /\ ch = Dark /\ light = Fresh
    /\ drive = [t \in Tasks |-> Idle] /\ effect = NoEffect
    /\ last = "none" /\ raced = FALSE

\* drv8833_init with the pins p, after a reset (or the reset itself: no pins).
ResetLight(p) ==
    /\ pins' = p /\ ch' = Dark /\ light' = Fresh
    /\ drive' = [t \in Tasks |-> Idle] /\ effect' = NoEffect
    /\ last' = "none" /\ raced' = FALSE

LightTypeOK ==
    /\ pins \subseteq {1, 2}
    /\ ch \in [{1, 2} -> [duty : 0..MaxDuty, hpoint : 0..MaxDuty]]
    /\ light \in [Tasks -> [on : BOOLEAN, lvl : 0..254, ct : Nat]]
    /\ drive \in [Tasks -> [at : 0..2, to : [{1, 2} -> [duty : 0..MaxDuty, hpoint : 0..MaxDuty]]]]
    /\ effect \in [kind : {"none", "fade", "blink", "pulse", "sweep"}, end : 0..254, at : -1..254]
    /\ last \in Tasks \cup {"none", "raw"}
    /\ raced \in BOOLEAN

-----------------------------------------------------------------------------
(* The callback before an attribute is written: it takes over the one it   *)
(* knows, or none, and applies.                                            *)

Apply(t, s) ==
    /\ light' = [light EXCEPT ![t] = s]
    /\ Set(t, s)
    /\ UNCHANGED effect

AttributeUpdate ==
    LET s == light["matter"] IN
    \/ Apply("matter", s)
    \/ \E on \in BOOLEAN : Apply("matter", [s EXCEPT !.on = on])
    \/ \E l \in Levels : Apply("matter", [s EXCEPT !.lvl = l])
    \/ \E c \in CTs : Apply("matter", [s EXCEPT !.ct = c])

-----------------------------------------------------------------------------
(* The console's commands, one at a time.                                  *)

Prompt == effect = NoEffect /\ drive["console"].at = 0

LedCommand ==
    /\ Prompt
    /\ LET s == light["console"] IN
       \/ \E on \in BOOLEAN : Apply("console", [s EXCEPT !.on = on])
       \/ \E l \in Levels : Apply("console", [s EXCEPT !.lvl = l])
       \/ \E c \in CTs \cap (153..500) : Apply("console", [s EXCEPT !.ct = c])

LedRaw ==
    /\ Prompt
    /\ \E a \in RawDuties, b \in RawDuties : Enter("console", <<Latch(a, 0), Latch(b, 0)>>, "raw")
    /\ UNCHANGED <<light, effect>>

StartEffect(kind, end) ==
    /\ Prompt
    /\ effect' = [kind |-> kind, end |-> end, at |-> -1]
    /\ UNCHANGED <<pins, ch, light, drive, last, raced>>

\* led_fade rises from 0 to its level; blink switches on and off; pulse dims
\* up to the level; sweep runs through the colour temperatures.
Frame ==
    LET s == light["console"] IN
    \/ /\ effect.kind = "fade"
       /\ \E l \in Levels :
            /\ l > effect.at /\ l <= effect.end
            /\ Set("console", State(TRUE, l, s.ct))
            /\ effect' = [effect EXCEPT !.at = l]
       /\ UNCHANGED light
    \/ /\ \/ effect.kind = "blink" /\ \E on \in BOOLEAN : Set("console", [s EXCEPT !.on = on])
          \/ effect.kind = "pulse" /\ \E l \in Levels :
                l <= s.lvl /\ Set("console", State(TRUE, l, s.ct))
          \/ effect.kind = "sweep" /\ \E c \in CTs \cap (200..450) :
                Set("console", State(TRUE, s.lvl, c))
       /\ UNCHANGED <<light, effect>>

\* Mutant: the effect ends without the state it left.
EndFade_Forgets ==
    /\ effect.kind = "fade" /\ effect.at = effect.end /\ drive["console"].at = 0
    /\ effect' = NoEffect
    /\ UNCHANGED <<pins, ch, light, drive, last, raced>>

\* fade keeps what its last frame showed, without another call.
EndFade ==
    /\ effect.kind = "fade" /\ effect.at = effect.end /\ drive["console"].at = 0
    /\ effect' = NoEffect
    /\ light' = [light EXCEPT !["console"].on = TRUE, !["console"].lvl = effect.end]
    /\ UNCHANGED <<pins, ch, drive, last, raced>>

\* The others restore the state by a call.
EndEffect ==
    /\ effect.kind \in {"blink", "pulse", "sweep"}
    /\ effect' = NoEffect
    /\ Set("console", light["console"])
    /\ UNCHANGED light

Console ==
    \/ LedCommand \/ LedRaw
    \/ \E l \in Levels : StartEffect("fade", l)
    \/ \E k \in {"blink", "pulse", "sweep"} : StartEffect(k, 0)
    \/ Frame \/ EndFade \/ EndEffect

-----------------------------------------------------------------------------
(* Properties.                                                             *)

Settled == \A t \in Tasks : drive[t].at = 0

\* Once its last call is over the light shows the state of the task that made
\* it: Matter's, or the console's with any effect it ran ended; unless that
\* call overlapped one of the other task, which may leave one channel of each,
\* or was led_raw.  What a state looks like is the driver's arithmetic, both sides
\* in proportion; drv8833.h:28 and firmware/BUILD.md:76 describe another
\* one, with a threshold at 326 mireds and one side at a time.
ShowsLastCaller ==
    /\ Settled
    /\ last \in Tasks /\ ~raced
    /\ last = "console" => effect = NoEffect
    => \A k \in pins : ch[k] = Split(light[last])[k]

\* The half-bridges brake only after led_raw, or after two calls that overlapped:
\* whatever was on the channels before, a frame of an effect, another split or
\* raw duties, a call that ran alone leaves no trace of it.  Two calls that did
\* overlap can leave overlapping pulses, although drv8833.cpp:106 has it
\* "guaranteed no overlap, no brake state": the driver has no lock.
BrakeNeedsRace == Settled /\ last \in Tasks /\ ~raced => ~Overlap(ch)
=============================================================================
