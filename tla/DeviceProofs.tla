----------------------------- MODULE DeviceProofs -----------------------------
(***************************************************************************)
(* For every gamma curve, set of levels and colour temperatures: once the  *)
(* last call is over the light shows the state of the task that made it,   *)
(* and the half-bridges do not brake, unless two calls overlapped.  With   *)
(* BootProofs: what the safety properties of Boot say of a whole device.   *)
(***************************************************************************)
EXTENDS Device, BootProofs

Settings == [on : BOOLEAN, lvl : 0..254, ct : Nat]

Latches == [duty : 0..MaxDuty, hpoint : 0..MaxDuty]

\* The warm share is at most the whole.
LEMMA WarmIsAShare ==
  ASSUME NEW b \in Nat, NEW c \in Nat
  PROVE  Warm(b, c) \in 0..b
  <1> DEFINE x == Clamp(c) - 153
  <1>1. x \in 0..347
    BY DEF Clamp
  <1>2. b * x \in Nat /\ b * x <= b * 347
    <2> HIDE DEF x
    <2> QED BY <1>1
  <1>3. ASSUME NEW n \in Nat, n <= b * 347
        PROVE  n \div 347 \in 0..b
    BY <1>3
  <1> QED
    BY <1>2, <1>3 DEF Warm

LEMMA DutyInRange ==
  ASSUME NEW l \in 0..254
  PROVE  LevelToDuty(l) \in 0..MaxDuty
  <1>1. CASE l = 0
    BY <1>1 DEF LevelToDuty, MaxDuty
  <1>2. CASE l >= 254
    BY <1>2 DEF LevelToDuty, MaxDuty
  <1>3. CASE l # 0 /\ ~(l >= 254)
    <2>1. l \in 1..253
      BY <1>3
    <2>2. Gamma[l] \in 0..MaxDuty
      BY <2>1, LightAssumption
    <2> QED
      BY <1>3, <2>2 DEF LevelToDuty
  <1> QED
    BY <1>1, <1>2, <1>3

LEMMA SettingFields ==
  ASSUME NEW s \in Settings
  PROVE  s.on \in BOOLEAN /\ s.lvl \in 0..254 /\ s.ct \in Nat
  BY DEF Settings

LEMMA TwoLatches ==
  ASSUME NEW b \in 0..MaxDuty, NEW w \in 0..b
  PROVE  <<Latch(w, 0), Latch(b - w, w)>> \in [{1, 2} -> Latches]
  <1>0. b \in Nat /\ b <= 2047 /\ w \in Nat /\ w <= b
    BY DEF MaxDuty
  <1>1. w \in 0..MaxDuty /\ b - w \in 0..MaxDuty /\ 0 \in 0..MaxDuty
    BY <1>0 DEF MaxDuty
  <1>2. Latch(w, 0) \in Latches /\ Latch(b - w, w) \in Latches
    BY <1>1 DEF Latch, Latches
  <1> QED
    BY <1>2

\* The two parts of the period that Split asks for.
LEMMA SplitParts ==
  ASSUME NEW s \in Settings
  PROVE  \E b \in 0..MaxDuty : \E w \in 0..b :
            Split(s) = <<Latch(w, 0), Latch(b - w, w)>>
  <1>1. CASE s.on
    <2>1. LevelToDuty(s.lvl) \in 0..MaxDuty
      BY DutyInRange, SettingFields
    <2>2. \A d \in 0..MaxDuty : d \in Nat
      BY DEF MaxDuty
    <2>3. LevelToDuty(s.lvl) \in Nat /\ s.ct \in Nat
      BY <2>1, <2>2, SettingFields
    <2>4. Warm(LevelToDuty(s.lvl), s.ct) \in 0..LevelToDuty(s.lvl)
      BY <2>3, WarmIsAShare
    <2> QED
      BY <1>1, <2>1, <2>4 DEF Split
  <1>2. CASE ~s.on
    <2>1. Split(s) = <<Latch(0, 0), Latch(0 - 0, 0)>>
      BY <1>2 DEF Split
    <2>2. 0 \in 0..MaxDuty /\ 0 \in 0..0
      BY DEF MaxDuty
    <2> QED
      BY <2>1, <2>2
  <1> QED
    BY <1>1, <1>2

LEMMA SplitType ==
  ASSUME NEW s \in Settings
  PROVE  Split(s) \in [{1, 2} -> Latches]
  BY SplitParts, TwoLatches

\* The second part begins where the first one stops, and both end within the
\* period: the curve never asks for more than MaxDuty.
LEMMA SplitIsApart ==
  ASSUME NEW s \in Settings
  PROVE  ~Overlap(Split(s))
  <1>1. PICK b \in 0..MaxDuty : \E w \in 0..b :
           Split(s) = <<Latch(w, 0), Latch(b - w, w)>>
    BY SplitParts
  <1>2. PICK w \in 0..b : Split(s) = <<Latch(w, 0), Latch(b - w, w)>>
    BY <1>1
  <1>3. /\ Split(s)[1].hpoint = 0 /\ Split(s)[1].duty = w
        /\ Split(s)[2].hpoint = w /\ Split(s)[2].duty = b - w
    BY <1>2 DEF Latch
  <1>4. /\ b \in 0..2047 /\ w \in 0..2047 /\ w <= b
        /\ Period = 2048
    BY DEF MaxDuty, Period
  <1>5. (w - 0) % 2048 = w
    BY <1>4
  <1>6. w > 0 => (0 - w) % 2048 = 2048 - w
    BY <1>4
  <1> QED
    BY <1>3, <1>4, <1>5, <1>6 DEF Overlap

-----------------------------------------------------------------------------
(* The light shows its last caller.                                        *)

\* The task that is in the last call.
Owner == IF last = "raw" THEN "console" ELSE last

\* Unless the last call overlapped another one nobody else is in a call.
Lone == ~raced => \A t \in Tasks : drive[t].at # 0 => t = Owner

\* What the last caller asked for: its state, or the frame of a fade.
Wanted == IF last = "console" /\ effect.kind = "fade"
          THEN State(TRUE, effect.at, light["console"].ct) ELSE light[last]

\* The console's effect is none, or a fade that has shown a frame.
Steady == last = "console" => effect.kind = "none" \/ (effect.kind = "fade" /\ effect.at # -1)

\* The channels the last call has set so far show the split of x, those it has
\* still to set will.
Carries(x) ==
    /\ drive[last].at # 0 => drive[last].to = Split(x)
    /\ drive[last].at # 1 =>
          \A k \in pins : (drive[last].at = 2 => k = 1) => ch[k] = Split(x)[k]

Tracks == last \in Tasks /\ ~raced /\ Steady => Carries(Wanted)

\* The same in the middle of an effect, for whatever its last frame was.
OneSetting == last \in Tasks /\ ~raced => \E x \in Settings : Carries(x)

\* A channel that was not routed drives nothing.
Unrouted == \A k \in {1, 2} \ pins : ch[k].duty = 0

LightInv == LightTypeOK /\ Lone /\ Tracks /\ OneSetting /\ Unrouted

LEMMA LightFields ==
  ASSUME LightTypeOK
  PROVE  /\ light \in [Tasks -> Settings]
         /\ ch \in [{1, 2} -> Latches]
         /\ drive \in [Tasks -> [at : 0..2, to : [{1, 2} -> Latches]]]
  BY DEF LightTypeOK, Settings, Latches

LEMMA WantedIsASetting ==
  ASSUME LightTypeOK, last \in Tasks, Steady
  PROVE  Wanted \in Settings
  <1>1. light[last] \in Settings
    BY LightFields
  <1>2. last = "console" /\ effect.kind = "fade" =>
           effect.at \in 0..254 /\ light["console"].ct \in Nat
    BY <1>1, SettingFields DEF Steady, LightTypeOK
  <1> QED
    BY <1>1, <1>2 DEF Wanted, State, Settings

LEMMA InitLightInv ==
  ASSUME InitLight
  PROVE  LightInv
  <1>1. /\ Latch(0, 0) \in Latches
        /\ Dark \in [{1, 2} -> Latches]
    BY DEF Dark, Latch, Latches, MaxDuty
  <1>2. /\ drive = [t \in Tasks |-> [at |-> 0, to |-> Dark]]
        /\ light = [t \in Tasks |-> [on |-> FALSE, lvl |-> IF t = "matter" THEN 64 ELSE 128, ct |-> 370]]
        /\ effect = [kind |-> "none", end |-> 0, at |-> -1]
        /\ pins = {} /\ ch = Dark /\ last = "none" /\ raced = FALSE
    BY DEF InitLight, Idle, Dark, Fresh, State, NoEffect
  <1>3. drive \in [Tasks -> [at : 0..2, to : [{1, 2} -> Latches]]]
    BY <1>1, <1>2
  <1>4. light \in [Tasks -> [on : BOOLEAN, lvl : 0..254, ct : Nat]]
    BY <1>2
  <1>5. effect \in [kind : {"none", "fade", "blink", "pulse", "sweep"}, end : 0..254, at : -1..254]
    BY <1>2
  <1>6. LightTypeOK
    BY <1>1, <1>2, <1>3, <1>4, <1>5 DEF LightTypeOK, Latches
  <1>7. Lone /\ Tracks /\ OneSetting
    BY <1>2 DEF Lone, Tracks, OneSetting, Tasks
  <1>8. Unrouted
    BY <1>2 DEF Unrouted, Dark, Latch
  <1> QED
    BY <1>6, <1>7, <1>8 DEF LightInv

\* The state that a reset or a start leaves is an initial one but for the pins.
LEMMA ResetKeepsLightInv ==
  ASSUME NEW p \in SUBSET {1, 2}, ResetLight(p)
  PROVE  LightInv'
  <1>1. /\ Latch(0, 0) \in Latches
        /\ Dark \in [{1, 2} -> Latches]
    BY DEF Dark, Latch, Latches, MaxDuty
  <1>2. /\ drive' = [t \in Tasks |-> [at |-> 0, to |-> Dark]]
        /\ light' = [t \in Tasks |-> [on |-> FALSE, lvl |-> IF t = "matter" THEN 64 ELSE 128, ct |-> 370]]
        /\ effect' = [kind |-> "none", end |-> 0, at |-> -1]
        /\ pins' = p /\ ch' = Dark /\ last' = "none" /\ raced' = FALSE
    BY DEF ResetLight, Idle, Dark, Fresh, State, NoEffect
  <1>3. drive' \in [Tasks -> [at : 0..2, to : [{1, 2} -> Latches]]]
    BY <1>1, <1>2
  <1>4. light' \in [Tasks -> [on : BOOLEAN, lvl : 0..254, ct : Nat]]
    BY <1>2
  <1>5. effect' \in [kind : {"none", "fade", "blink", "pulse", "sweep"}, end : 0..254, at : -1..254]
    BY <1>2
  <1>6. LightTypeOK'
    BY <1>1, <1>2, <1>3, <1>4, <1>5 DEF LightTypeOK, Latches
  <1>7. Lone' /\ Tracks' /\ OneSetting'
    BY <1>2 DEF Lone, Tracks, OneSetting, Tasks
  <1>8. Unrouted'
    BY <1>2 DEF Unrouted, Dark, Latch
  <1> QED
    BY <1>6, <1>7, <1>8 DEF LightInv

\* The values of effect.
Effects == [kind : {"none", "fade", "blink", "pulse", "sweep"}, end : 0..254, at : -1..254]

\* What a call that begins leaves, whoever makes it and whatever it asks for.
LEMMA EnterFacts ==
  ASSUME LightTypeOK, NEW t \in Tasks, NEW to \in [{1, 2} -> Latches],
         NEW who \in Tasks \cup {"raw"}, t = IF who = "raw" THEN "console" ELSE who,
         Enter(t, to, who)
  PROVE  /\ drive' \in [Tasks -> [at : 0..2, to : [{1, 2} -> Latches]]]
         /\ drive'[t].at = 1 /\ drive'[t].to = to
         /\ pins' = pins /\ ch' = ch /\ last' = who /\ raced' \in BOOLEAN
         /\ Lone'
  <1>1. drive \in [Tasks -> [at : 0..2, to : [{1, 2} -> Latches]]]
    BY LightFields
  <1>2. drive' = [drive EXCEPT ![t] = [at |-> 1, to |-> to]]
    BY DEF Enter
  <1>3. [at |-> 1, to |-> to] \in [at : 0..2, to : [{1, 2} -> Latches]]
    OBVIOUS
  <1>4. drive' \in [Tasks -> [at : 0..2, to : [{1, 2} -> Latches]]]
    BY <1>1, <1>2, <1>3
  <1>5. drive'[t] = [at |-> 1, to |-> to] /\ \A u \in Tasks \ {t} : drive'[u] = drive[u]
    BY <1>1, <1>2
  <1>6. /\ pins' = pins /\ ch' = ch /\ last' = who
        /\ raced' = \E u \in Tasks \ {t} : drive[u].at # 0
    BY DEF Enter
  <1>7. Lone'
    <2>1. SUFFICES ASSUME ~raced', NEW u \in Tasks, drive'[u].at # 0
                   PROVE  u = Owner'
      BY DEF Lone
    <2>2. u = t
      BY <2>1, <1>5, <1>6
    <2> QED
      BY <2>2, <1>6 DEF Owner
  <1> QED
    BY <1>4, <1>5, <1>6, <1>7

\* A call for a state s, which is what its task then wants, keeps the invariant.
LEMMA CallKeepsLightInv ==
  ASSUME LightTypeOK, Unrouted, NEW t \in Tasks, NEW s \in Settings, Set(t, s),
         light' \in [Tasks -> Settings], effect' \in Effects,
         (t = "console" => Steady') => Wanted' = s
  PROVE  LightInv'
  <1>1. Split(s) \in [{1, 2} -> Latches]
    BY SplitType
  <1>2. Enter(t, Split(s), t) /\ t # "raw"
    BY DEF Set, Tasks
  <1>3. /\ drive' \in [Tasks -> [at : 0..2, to : [{1, 2} -> Latches]]]
        /\ drive'[t].at = 1 /\ drive'[t].to = Split(s)
        /\ pins' = pins /\ ch' = ch /\ last' = t /\ raced' \in BOOLEAN
        /\ Lone'
    BY <1>1, <1>2, EnterFacts
  <1>4. LightTypeOK'
    BY <1>3 DEF LightTypeOK, Settings, Latches, Effects
  <1>5. drive'[last'].at = 1 /\ drive'[last'].to = Split(s)
    BY <1>3
  <1>6. Tracks'
    BY <1>3, <1>5 DEF Tracks, Carries
  <1>7. OneSetting'
    BY <1>5 DEF OneSetting, Carries
  <1>8. Unrouted'
    BY <1>3 DEF Unrouted
  <1> QED
    BY <1>3, <1>4, <1>6, <1>7, <1>8 DEF LightInv

LEMMA SetChKeepsLightInv ==
  ASSUME LightInv, NEW t \in Tasks, SetCh(t)
  PROVE  LightInv'
  <1> DEFINE k == drive[t].at
  <1>1. /\ drive \in [Tasks -> [at : 0..2, to : [{1, 2} -> Latches]]]
        /\ ch \in [{1, 2} -> Latches] /\ pins \subseteq {1, 2}
    BY LightFields DEF LightInv, LightTypeOK
  <1>2. k \in {1, 2} /\ drive[t].to \in [{1, 2} -> Latches]
    BY <1>1 DEF SetCh
  <1>3. /\ ch' = IF k \in pins THEN [ch EXCEPT ![k] = drive[t].to[k]] ELSE ch
        /\ drive' = [drive EXCEPT ![t] = IF k = 1 THEN [@ EXCEPT !.at = 2] ELSE Idle]
        /\ UNCHANGED <<pins, light, effect, last, raced>>
    BY DEF SetCh
  <1>4. Idle \in [at : 0..2, to : [{1, 2} -> Latches]] /\ Idle.at = 0
    BY DEF Idle, Latch, Latches, MaxDuty
  <1>5. ch' \in [{1, 2} -> Latches]
    BY <1>1, <1>2, <1>3
  <1>6. drive' \in [Tasks -> [at : 0..2, to : [{1, 2} -> Latches]]]
    BY <1>1, <1>3, <1>4
  <1>7. LightTypeOK'
    BY <1>3, <1>5, <1>6 DEF LightInv, LightTypeOK, Latches
  <1>8. \A u \in Tasks \ {t} : drive'[u] = drive[u]
    BY <1>1, <1>3
  <1>9. k = 1 => drive'[t].at = 2 /\ drive'[t].to = drive[t].to
    BY <1>1, <1>3
  <1>10. k = 2 => drive'[t].at = 0
    BY <1>1, <1>3, <1>4
  <1>11. Lone'
    BY <1>2, <1>3, <1>8 DEF Lone, Owner, LightInv
  <1>12. ASSUME last \in Tasks, ~raced, NEW x \in Settings, Carries(x)
         PROVE  /\ drive'[last].at # 0 => drive'[last].to = Split(x)
                /\ drive'[last].at # 1 =>
                     \A j \in pins : (drive'[last].at = 2 => j = 1) => ch'[j] = Split(x)[j]
    <2>1. t = last
      BY <1>12, <1>2 DEF LightInv, Lone, Owner, Tasks
    <2>2. /\ drive[t].to = Split(x)
          /\ k = 2 => \A j \in pins : j = 1 => ch[j] = Split(x)[j]
      BY <1>12, <2>1, <1>2 DEF Carries
    <2>3. CASE k = 1
      BY <2>1, <2>2, <2>3, <1>1, <1>3, <1>9
    <2>4. CASE k = 2
      BY <2>1, <2>2, <2>4, <1>1, <1>3, <1>10
    <2> QED
      BY <1>2, <2>3, <2>4
  <1>13. Tracks'
    <2>1. SUFFICES ASSUME last \in Tasks, ~raced, Steady
                   PROVE  Carries(Wanted)'
      BY <1>3 DEF Tracks, Steady, Wanted
    <2>2. Carries(Wanted) /\ Wanted' = Wanted /\ last' = last /\ pins' = pins
      BY <2>1, <1>3 DEF LightInv, Tracks, Wanted
    <2>3. Wanted \in Settings
      BY <2>1, WantedIsASetting DEF LightInv
    <2> QED
      BY <2>1, <2>2, <2>3, <1>12 DEF Carries
  <1>14. OneSetting'
    <2>1. SUFFICES ASSUME last \in Tasks, ~raced
                   PROVE  OneSetting'
      BY <1>3 DEF OneSetting
    <2>2. PICK x \in Settings : Carries(x)
      BY <2>1 DEF LightInv, OneSetting
    <2>3. Carries(x)'
      BY <2>1, <2>2, <1>3, <1>12 DEF Carries
    <2> QED
      BY <2>3 DEF OneSetting
  <1>15. Unrouted'
    BY <1>1, <1>2, <1>3 DEF LightInv, Unrouted
  <1> QED
    BY <1>7, <1>11, <1>13, <1>14, <1>15 DEF LightInv

\* The call of a task for its own new state, when no effect runs in the console.
LEMMA ApplyKeepsLightInv ==
  ASSUME LightTypeOK, Unrouted, NEW t \in Tasks, NEW s \in Settings, Apply(t, s),
         t = "console" => effect = NoEffect
  PROVE  LightInv'
  <1>1. light' = [light EXCEPT ![t] = s] /\ Set(t, s) /\ effect' = effect
    BY DEF Apply
  <1>2. light' \in [Tasks -> Settings] /\ light'[t] = s
    BY <1>1, LightFields
  <1>3. effect' \in Effects
    BY <1>1 DEF LightTypeOK, Effects
  <1>4. last' = t
    BY <1>1 DEF Set, Enter
  <1>5. Wanted' = s
    <2>1. CASE t = "console"
      <3>1. effect'.kind = "none"
        BY <1>1, <2>1 DEF NoEffect
      <3> QED
        BY <1>2, <1>4, <3>1 DEF Wanted
    <2>2. CASE t # "console"
      BY <1>2, <1>4, <2>2 DEF Wanted
    <2> QED
      BY <2>1, <2>2
  <1> QED
    BY <1>1, <1>2, <1>3, <1>5, CallKeepsLightInv

LEMMA AttributeUpdateKeepsLightInv ==
  ASSUME LightInv, AttributeUpdate
  PROVE  LightInv'
  <1>1. PICK s \in Settings : Apply("matter", s)
    <2>1. light["matter"] \in Settings
      BY LightFields DEF LightInv, Tasks
    <2>2. ASSUME NEW on \in BOOLEAN
          PROVE  [light["matter"] EXCEPT !.on = on] \in Settings
      BY <2>1 DEF Settings
    <2>3. ASSUME NEW l \in Levels
          PROVE  [light["matter"] EXCEPT !.lvl = l] \in Settings
      BY <2>1, LightAssumption DEF Settings
    <2>4. ASSUME NEW c \in CTs
          PROVE  [light["matter"] EXCEPT !.ct = c] \in Settings
      BY <2>1, LightAssumption DEF Settings
    <2> QED
      BY <2>1, <2>2, <2>3, <2>4 DEF AttributeUpdate
  <1> QED
    BY <1>1, ApplyKeepsLightInv DEF LightInv, Tasks

LEMMA LedCommandKeepsLightInv ==
  ASSUME LightInv, LedCommand
  PROVE  LightInv'
  <1>1. PICK s \in Settings : Apply("console", s)
    <2>1. light["console"] \in Settings
      BY LightFields DEF LightInv, Tasks
    <2>2. ASSUME NEW on \in BOOLEAN
          PROVE  [light["console"] EXCEPT !.on = on] \in Settings
      BY <2>1 DEF Settings
    <2>3. ASSUME NEW l \in Levels
          PROVE  [light["console"] EXCEPT !.lvl = l] \in Settings
      BY <2>1, LightAssumption DEF Settings
    <2>4. ASSUME NEW c \in CTs \cap (153..500)
          PROVE  [light["console"] EXCEPT !.ct = c] \in Settings
      BY <2>1, LightAssumption DEF Settings
    <2> QED
      BY <2>1, <2>2, <2>3, <2>4 DEF LedCommand
  <1> QED
    BY <1>1, ApplyKeepsLightInv DEF LightInv, Tasks, LedCommand, Prompt

LEMMA LedRawKeepsLightInv ==
  ASSUME LightInv, LedRaw
  PROVE  LightInv'
  <1>1. PICK a \in RawDuties, b \in RawDuties :
           Enter("console", <<Latch(a, 0), Latch(b, 0)>>, "raw")
    BY DEF LedRaw
  <1>2. a \in 0..MaxDuty /\ b \in 0..MaxDuty /\ 0 \in 0..MaxDuty
    <2>1. a \in 0..1023 /\ b \in 0..1023
      BY LightAssumption
    <2> QED
      BY <2>1 DEF MaxDuty
  <1>3. <<Latch(a, 0), Latch(b, 0)>> \in [{1, 2} -> Latches]
    BY <1>2 DEF Latch, Latches
  <1>4. "console" \in Tasks /\ LightTypeOK /\ light' = light /\ effect' = effect
    BY DEF Tasks, LedRaw, LightInv
  <1>5. /\ drive' \in [Tasks -> [at : 0..2, to : [{1, 2} -> Latches]]]
        /\ pins' = pins /\ ch' = ch /\ last' = "raw" /\ raced' \in BOOLEAN
        /\ Lone'
    BY <1>1, <1>3, <1>4, EnterFacts
  <1>6. LightTypeOK'
    BY <1>4, <1>5 DEF LightTypeOK, Latches
  <1>7. Tracks' /\ OneSetting'
    BY <1>5 DEF Tracks, OneSetting, Tasks
  <1>8. Unrouted'
    BY <1>5 DEF LightInv, Unrouted
  <1> QED
    BY <1>5, <1>6, <1>7, <1>8 DEF LightInv

LEMMA StartEffectKeepsLightInv ==
  ASSUME LightInv, NEW k \in {"fade", "blink", "pulse", "sweep"}, NEW e \in 0..254,
         StartEffect(k, e)
  PROVE  LightInv'
  <1>1. /\ effect' = [kind |-> k, end |-> e, at |-> -1]
        /\ UNCHANGED <<pins, ch, light, drive, last, raced>>
        /\ effect.kind = "none"
    BY DEF StartEffect, Prompt, NoEffect
  <1>2. effect' \in Effects
    BY <1>1 DEF Effects
  <1>3. LightTypeOK'
    BY <1>1, <1>2 DEF LightInv, LightTypeOK, Effects
  <1>4. Lone'
    BY <1>1 DEF LightInv, Lone, Owner
  <1>5. Tracks'
    <2>1. CASE last = "console"
      BY <1>1, <2>1 DEF Tracks, Steady
    <2>2. CASE last # "console"
      <3>1. Wanted' = Wanted /\ Steady
        BY <1>1, <2>2 DEF Wanted, Steady
      <3> QED
        BY <1>1, <3>1 DEF LightInv, Tracks, Carries
    <2> QED
      BY <2>1, <2>2
  <1>6. OneSetting' /\ Unrouted'
    BY <1>1 DEF LightInv, OneSetting, Carries, Unrouted
  <1> QED
    BY <1>3, <1>4, <1>5, <1>6 DEF LightInv

LEMMA FrameKeepsLightInv ==
  ASSUME LightInv, Frame
  PROVE  LightInv'
  <1> DEFINE s == light["console"]
  <1>1. /\ s \in Settings /\ light \in [Tasks -> Settings]
        /\ LightTypeOK /\ Unrouted /\ effect \in Effects /\ "console" \in Tasks
    BY LightFields DEF LightInv, LightTypeOK, Effects, Tasks
  <1>2. s.on \in BOOLEAN /\ s.lvl \in 0..254 /\ s.ct \in Nat
    BY <1>1, SettingFields
  <1>3. light' = light
    BY DEF Frame
  <1>4. ASSUME effect.kind = "fade",
               NEW l \in Levels, Set("console", State(TRUE, l, s.ct)),
               effect' = [effect EXCEPT !.at = l]
        PROVE  LightInv'
    <2>1. l \in 0..254 /\ State(TRUE, l, s.ct) \in Settings
      BY <1>2, LightAssumption DEF State, Settings
    <2>2. effect' \in Effects /\ effect'.kind = "fade" /\ effect'.at = l
      BY <1>1, <1>4, <2>1 DEF Effects
    <2>3. last' = "console"
      BY <1>4 DEF Set, Enter
    <2>4. Wanted' = State(TRUE, l, s.ct)
      BY <1>3, <2>2, <2>3 DEF Wanted
    <2> QED
      BY <1>1, <1>3, <1>4, <2>1, <2>2, <2>4, CallKeepsLightInv
  <1>5. ASSUME effect.kind \in {"blink", "pulse", "sweep"}, effect' = effect,
               NEW w \in Settings, Set("console", w)
        PROVE  LightInv'
    <2>1. last' = "console"
      BY <1>5 DEF Set, Enter
    <2>2. ~Steady'
      BY <1>5, <2>1 DEF Steady
    <2> QED
      BY <1>1, <1>3, <1>5, <2>2, CallKeepsLightInv
  <1>6. ASSUME NEW on \in BOOLEAN
        PROVE  [s EXCEPT !.on = on] \in Settings
    BY <1>1 DEF Settings
  <1>7. ASSUME NEW l \in Levels
        PROVE  State(TRUE, l, s.ct) \in Settings
    BY <1>2, LightAssumption DEF State, Settings
  <1>8. ASSUME NEW c \in CTs \cap (200..450)
        PROVE  State(TRUE, s.lvl, c) \in Settings
    BY <1>2, LightAssumption DEF State, Settings
  <1>9. CASE effect.kind = "fade"
    BY <1>4, <1>9 DEF Frame
  <1>10. CASE effect.kind # "fade"
    BY <1>5, <1>6, <1>7, <1>8, <1>10 DEF Frame
  <1> QED
    BY <1>9, <1>10

LEMMA EndFadeKeepsLightInv ==
  ASSUME LightInv, EndFade
  PROVE  LightInv'
  <1> DEFINE s == light["console"]
  <1>1. /\ s \in Settings /\ light \in [Tasks -> Settings]
        /\ effect \in Effects /\ "console" \in Tasks
    BY LightFields DEF LightInv, LightTypeOK, Effects, Tasks
  <1>2. /\ effect.kind = "fade" /\ effect.at = effect.end /\ effect.end \in 0..254
        /\ effect' = NoEffect
        /\ light' = [light EXCEPT !["console"].on = TRUE, !["console"].lvl = effect.end]
        /\ UNCHANGED <<pins, ch, drive, last, raced>>
    BY <1>1 DEF EndFade, Effects
  <1>3. light'["console"] = State(TRUE, effect.at, s.ct)
    BY <1>1, <1>2 DEF State, Settings
  <1>4. light' \in [Tasks -> Settings] /\ \A u \in Tasks \ {"console"} : light'[u] = light[u]
    BY <1>1, <1>2 DEF Settings
  <1>5. NoEffect \in Effects /\ NoEffect.kind = "none"
    BY DEF NoEffect, Effects
  <1>6. LightTypeOK'
    BY <1>2, <1>4, <1>5 DEF LightInv, LightTypeOK, Effects, Settings
  <1>7. Lone'
    BY <1>2 DEF LightInv, Lone, Owner
  <1>8. Tracks'
    <2>1. SUFFICES ASSUME last \in Tasks PROVE Tracks'
      BY <1>2 DEF Tracks
    <2>2. Steady
      BY <1>2 DEF Steady
    <2>3. Wanted' = Wanted
      <3>1. CASE last = "console"
        BY <1>2, <1>3, <1>5, <3>1 DEF Wanted
      <3>2. CASE last # "console"
        BY <1>2, <1>4, <2>1, <3>2 DEF Wanted
      <3> QED
        BY <3>1, <3>2
    <2> QED
      BY <1>2, <2>2, <2>3 DEF LightInv, Tracks, Carries
  <1>9. OneSetting' /\ Unrouted'
    BY <1>2 DEF LightInv, OneSetting, Carries, Unrouted
  <1> QED
    BY <1>6, <1>7, <1>8, <1>9 DEF LightInv

LEMMA EndEffectKeepsLightInv ==
  ASSUME LightInv, EndEffect
  PROVE  LightInv'
  <1>1. /\ light \in [Tasks -> Settings] /\ "console" \in Tasks /\ LightTypeOK /\ Unrouted
        /\ Set("console", light["console"]) /\ light' = light /\ effect' = NoEffect
    BY LightFields DEF LightInv, EndEffect, Tasks
  <1>2. NoEffect \in Effects /\ NoEffect.kind = "none"
    BY DEF NoEffect, Effects
  <1>3. last' = "console"
    BY <1>1 DEF Set, Enter
  <1>4. Wanted' = light["console"]
    BY <1>1, <1>2, <1>3 DEF Wanted
  <1> QED
    BY <1>1, <1>2, <1>4, CallKeepsLightInv

LEMMA ConsoleKeepsLightInv ==
  ASSUME LightInv, Console
  PROVE  LightInv'
  <1>1. CASE LedCommand \/ LedRaw
    BY <1>1, LedCommandKeepsLightInv, LedRawKeepsLightInv
  <1>2. CASE \E l \in Levels : StartEffect("fade", l)
    <2>1. PICK l \in Levels : StartEffect("fade", l)
      BY <1>2
    <2>2. l \in 0..254 /\ "fade" \in {"fade", "blink", "pulse", "sweep"}
      BY LightAssumption
    <2> QED
      BY <2>1, <2>2, StartEffectKeepsLightInv
  <1>3. CASE \E k \in {"blink", "pulse", "sweep"} : StartEffect(k, 0)
    <2>1. PICK k \in {"fade", "blink", "pulse", "sweep"} : StartEffect(k, 0)
      BY <1>3
    <2>2. 0 \in 0..254
      OBVIOUS
    <2> QED
      BY <2>1, <2>2, StartEffectKeepsLightInv
  <1>4. CASE Frame \/ EndFade \/ EndEffect
    BY <1>4, FrameKeepsLightInv, EndFadeKeepsLightInv, EndEffectKeepsLightInv
  <1> QED
    BY <1>1, <1>2, <1>3, <1>4 DEF Console

LEMMA StutterKeepsLightInv ==
  ASSUME LightInv, UNCHANGED lightVars
  PROVE  LightInv'
  <1>1. UNCHANGED <<pins, ch, light, drive, effect, last, raced>>
    BY DEF lightVars
  <1>2. LightTypeOK'
    BY <1>1 DEF LightInv, LightTypeOK
  <1>3. Lone' /\ Tracks'
    BY <1>1 DEF LightInv, Lone, Owner, Tracks, Steady, Wanted, Carries
  <1>4. OneSetting' /\ Unrouted'
    BY <1>1 DEF LightInv, OneSetting, Carries, Unrouted
  <1> QED
    BY <1>2, <1>3, <1>4 DEF LightInv

-----------------------------------------------------------------------------
(* The whole device.                                                       *)

DeviceInv == BootInv /\ LightInv

LEMMA InitDeviceInv ==
  ASSUME DeviceInit
  PROVE  DeviceInv
  BY InitBootInv, InitLightInv DEF DeviceInit, DeviceInv

LEMMA StepKeepsDeviceInv ==
  ASSUME DeviceInv, [DeviceNext]_deviceVars
  PROVE  DeviceInv'
  <1>1. BootInv /\ LightInv /\ cfg \in Configuration
    BY DEF DeviceInv, BootInv, BootTypeOK
  <1>2. CASE PowerOn
    <2>1. Start /\ ResetLight(cfg'.pins)
      BY <1>2 DEF PowerOn
    <2>2. BootInv'
      BY <1>1, <2>1, StartKeepsBootInv
    <2>3. cfg'.pins \in SUBSET {1, 2}
      BY <2>2 DEF BootInv, BootTypeOK, Configuration
    <2> QED
      BY <2>1, <2>2, <2>3, ResetKeepsLightInv DEF DeviceInv
  <1>3. CASE MatterTask
    BY <1>1, <1>3, AttributeUpdateKeepsLightInv, StutterKeepsBootInv DEF MatterTask, DeviceInv
  <1>4. CASE ConsoleTask
    <2>1. CASE Console /\ UNCHANGED bootVars
      BY <1>1, <2>1, ConsoleKeepsLightInv, StutterKeepsBootInv DEF DeviceInv
    <2>2. CASE (TestDisconnect \/ TestConnect) /\ UNCHANGED lightVars
      BY <1>1, <2>2, TestKeepsBootInv, StutterKeepsLightInv DEF DeviceInv
    <2> QED
      BY <1>4, <2>1, <2>2 DEF ConsoleTask
  <1>5. CASE LightStep
    <2>1. PICK t \in Tasks : SetCh(t) /\ UNCHANGED bootVars
      BY <1>5 DEF LightStep
    <2> QED
      BY <1>1, <2>1, SetChKeepsLightInv, StutterKeepsBootInv DEF DeviceInv
  <1>6. CASE WifiStep
    BY <1>1, <1>6, AppMainKeepsBootInv, WifiKeepsBootInv, StutterKeepsLightInv
    DEF WifiStep, DeviceInv
  <1>7. CASE FactoryReset \/ Restart
    <2>1. PICK n \in {cfg, Erased} : Reset(n) /\ ResetLight({})
      BY <1>7 DEF FactoryReset, Restart
    <2>2. n \in Configuration
      <3>1. Erased \in Configuration
        BY DEF Erased, Configuration
      <3> QED
        BY <1>1, <2>1, <3>1
    <2>3. BootInv'
      BY <1>1, <2>1, <2>2, ResetKeepsBootInv
    <2>4. LightInv'
      <3>1. {} \in SUBSET {1, 2}
        OBVIOUS
      <3> QED
        BY <2>1, <3>1, ResetKeepsLightInv
    <2> QED
      BY <2>3, <2>4 DEF DeviceInv
  <1>8. CASE UNCHANGED deviceVars
    BY <1>1, <1>8, StutterKeepsBootInv, StutterKeepsLightInv DEF DeviceInv, deviceVars
  <1> QED
    BY <1>2, <1>3, <1>4, <1>5, <1>6, <1>7, <1>8 DEF DeviceNext

LEMMA TracksImpliesShows ==
  ASSUME LightInv
  PROVE  ShowsLastCaller
  <1>1. SUFFICES ASSUME \A t \in Tasks : drive[t].at = 0,
                        last \in Tasks, ~raced, last = "console" => effect = NoEffect,
                        NEW k \in pins
                 PROVE  ch[k] = Split(light[last])[k]
    BY DEF ShowsLastCaller, Settled
  <1>2. NoEffect.kind = "none"
    BY DEF NoEffect
  <1>3. Steady /\ Wanted = light[last]
    BY <1>1, <1>2 DEF Steady, Wanted
  <1> QED
    BY <1>1, <1>3 DEF LightInv, Tracks, Carries

\* Both channels show parts of one split, or one of them is not routed.
LEMMA LoneCallDoesNotBrake ==
  ASSUME LightInv
  PROVE  BrakeNeedsRace
  <1>1. SUFFICES ASSUME \A t \in Tasks : drive[t].at = 0, last \in Tasks, ~raced
                 PROVE  ~Overlap(ch)
    BY DEF BrakeNeedsRace, Settled
  <1>2. PICK x \in Settings : Carries(x)
    BY <1>1 DEF LightInv, OneSetting
  <1>3. \A k \in pins : ch[k] = Split(x)[k]
    BY <1>1, <1>2 DEF Carries
  <1>4. CASE {1, 2} \subseteq pins
    <2>1. ~Overlap(Split(x))
      BY SplitIsApart
    <2> QED
      BY <1>3, <1>4, <2>1 DEF Overlap
  <1>5. CASE ~({1, 2} \subseteq pins)
    <2>1. ch[1].duty = 0 \/ ch[2].duty = 0
      BY <1>5 DEF LightInv, Unrouted
    <2> QED
      BY <2>1 DEF Overlap
  <1> QED
    BY <1>4, <1>5

\* The inductive invariant: the connection attempts and the last caller.
THEOREM Invariance == DeviceSpec => []DeviceInv
  <1> QED
    BY InitDeviceInv, StepKeepsDeviceInv, PTL DEF DeviceSpec

\* The variables of boot, WiFi and light keep their types.
THEOREM TypeCorrect == DeviceSpec => []DeviceTypeOK
  <1>1. DeviceInv => DeviceTypeOK
    BY DEF DeviceInv, BootInv, LightInv, DeviceTypeOK
  <1> QED
    BY <1>1, Invariance, PTL

\* Two tasks and two half-bridges: once the last call is over the light shows
\* the state of the task that made it, unless that call overlapped another one.
THEOREM LightShowsLastCaller == DeviceSpec => []ShowsLastCaller
  <1>1. DeviceInv => ShowsLastCaller
    BY TracksImpliesShows DEF DeviceInv
  <1> QED
    BY <1>1, Invariance, PTL

\* drv8833.cpp: "guaranteed no overlap, no brake state".  It holds, for every
\* curve, level and colour temperature, whenever the last call ran alone.
THEOREM LoneCallNeverBrakes == DeviceSpec => []BrakeNeedsRace
  <1>1. DeviceInv => BrakeNeedsRace
    BY LoneCallDoesNotBrake DEF DeviceInv
  <1> QED
    BY <1>1, Invariance, PTL

\* app_main.cpp's retries: no order of events, console commands and resets
\* leaves the radio silent with retries to spare.
THEOREM SilenceIsGivingUp == DeviceSpec => []SilentMeansGaveUp
  <1>1. DeviceInv => SilentMeansGaveUp
    BY BootInvShows DEF DeviceInv
  <1> QED
    BY <1>1, Invariance, PTL

\* A verdict of app_main that the retries are used up is final: the device never
\* has an address without Matter because of it, unless wifi_test gave it one.
THEOREM VerdictIsFinal == DeviceSpec => []OnlineWithoutMatter
  <1>1. DeviceInv => OnlineWithoutMatter
    BY BootInvShows DEF DeviceInv
  <1> QED
    BY <1>1, Invariance, PTL
=============================================================================
