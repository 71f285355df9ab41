-------------------------- MODULE ProvisioningProofs --------------------------
(***************************************************************************)
(* For any number of chips, flash requests, names and browser sessions:    *)
(* what the table of devices says of the chips.                            *)
(*                                                                         *)
(* The heart is the life of a key.  It is on no chip before its attempt    *)
(* writes, then on the one chip on the port, and in the table only when    *)
(* the attempt is over, from when on nobody writes it any more.            *)
(***************************************************************************)
EXTENDS Provisioning, TLAPS

\* The key of attempt k of request r is still to be drawn, or in use.
Unused(r, k)   == k > call[r].i \/ (k = call[r].i /\ call[r].pc \in {"new", "chip", "image"})
Unsettled(r, k) == k > call[r].i \/ (k = call[r].i /\ call[r].pc # "over")

Fresh ==
    \A r \in Requests : \A k \in 1..Names[r] :
        /\ Unused(r, k) => \A d \in Chips : writer[d] # <<r, k>>
        /\ Unsettled(r, k) => \A c \in Registered : devices[c].bundle # <<r, k>>

\* No chip holds a key before it is written.
Unwritten(r, k) ==
    k > call[r].i \/ (k = call[r].i /\ call[r].pc \in {"new", "chip", "image", "nvs"})

Virgin ==
    \A r \in Requests : \A k \in 1..Names[r] :
        Unwritten(r, k) => \A d \in Chips : nvs[d] # <<r, k>>

\* While an attempt works nobody but the chip on the port has its key, and that
\* one holds it once the NVS partition is written.
OnPort ==
    \A r \in Requests :
        /\ call[r].pc \in {"image", "nvs", "insert"} => call[r].id \in Chips
        /\ call[r].pc \in {"nvs", "insert"} =>
              \A d \in Chips : writer[d] = Current(r) => d = plugged
        /\ call[r].pc = "insert" /\ writer[plugged] = Current(r) => nvs[plugged] = Current(r)

\* The hub registers no chip that a browser flashed.
NoTokenRow == \A c \in Registered : devices[c].bundle \notin Tokens

\* A report that is still to be written was signed with the key of the row.
SignedByRow ==
    msg # Nothing /\ ~msg.moot => devices[msg.id] # NoRow /\ devices[msg.id].bundle = msg.key

\* The sessions of web flashing against what the page has of them.
Session ==
    \A t \in Tokens :
        /\ page[t].pc # "idle" => session[t] # "none" /\ sessionFw[t] \in Versions
        /\ page[t].pc \in {"image", "nvs", "complete"} => page[t].label = sessionFw[t]
        /\ page[t].pc \in {"nvs", "complete"} => page[t].fw = sessionFw[t]

\* Only a page that has all parts has installed them.
Installed ==
    \A c \in Chips :
        nvs[c] \in Tokens /\ writer[c] = nvs[c] =>
            /\ page[nvs[c]].pc = "complete"
            /\ image[c] = [at |-> "slot", fw |-> sessionFw[nvs[c]]]

IInv ==
    /\ ProvTypeOK /\ Fresh /\ OnPort /\ NoTokenRow /\ RowMatchesChip /\ OkMeansEnrolled
    /\ SignedByRow /\ ReportedVersionIsOwn /\ Session /\ Installed /\ Virgin /\ KeysAreApart

-----------------------------------------------------------------------------
(* Attempts and the steps of a request.                                     *)

LEMMA CurrentFacts ==
    ASSUME ProvTypeOK, NEW r \in Requests
    PROVE  /\ call[r].i \in 1..Names[r] /\ Names[r] \in Nat
           /\ call[r].pc \in Steps /\ call[r].id \in Chips \cup {Nothing}
           /\ Current(r) = <<r, call[r].i>>
           /\ Current(r) \in Attempts /\ Current(r) \in Bundles /\ Current(r) \notin Tokens
           /\ Current(r) # Nothing
<1>1. call[r].i \in 1..Names[r] /\ Names[r] \in Nat
  BY ProvAssumption DEF ProvTypeOK
<1>2. call[r].pc \in Steps /\ call[r].id \in Chips \cup {Nothing}
  BY DEF ProvTypeOK
<1>3. <<r, call[r].i>> \in {r} \X (1..Names[r])
  BY <1>1
<1>4. <<r, call[r].i>> \in Attempts
  BY <1>3 DEF Attempts
<1> QED
  BY <1>1, <1>2, <1>4, ProvAssumption, FreshKeys DEF Current

LEMMA AttemptForm ==
    ASSUME NEW a \in Attempts
    PROVE  \E r \in Requests : \E k \in 1..Names[r] : a = <<r, k>>
<1>1. PICK r \in Requests : a \in {r} \X (1..Names[r])
  BY DEF Attempts
<1>2. PICK k \in 1..Names[r] : a = <<r, k>>
  BY <1>1
<1> QED
  BY <1>2

\* A request moves on within its attempt.
LEMMA AdvanceFacts ==
    ASSUME ProvTypeOK, NEW r \in Requests, NEW pc \in Steps, Advance(r, pc)
    PROVE  /\ call' \in [Requests -> [pc : Steps, i : Nat, id : Chips \cup {Nothing}]]
           /\ \A q \in Requests : call'[q].i = call[q].i /\ call'[q].i \in 1..Names[q]
           /\ call'[r].pc = pc /\ call'[r].id = call[r].id
           /\ \A q \in Requests : q # r => call'[q] = call[q]
           /\ \A q \in Requests : Current(q)' = Current(q)
<1>1. call' = [call EXCEPT ![r] = [call[r] EXCEPT !.pc = pc]]
  BY DEF Advance
<1>2. [call[r] EXCEPT !.pc = pc] \in [pc : Steps, i : Nat, id : Chips \cup {Nothing}]
  BY DEF ProvTypeOK
<1>3. /\ [call[r] EXCEPT !.pc = pc].pc = pc
      /\ [call[r] EXCEPT !.pc = pc].i = call[r].i
      /\ [call[r] EXCEPT !.pc = pc].id = call[r].id
  BY DEF ProvTypeOK
<1>4. /\ call' \in [Requests -> [pc : Steps, i : Nat, id : Chips \cup {Nothing}]]
      /\ call'[r] = [call[r] EXCEPT !.pc = pc]
      /\ \A q \in Requests : q # r => call'[q] = call[q]
  BY <1>1, <1>2 DEF ProvTypeOK
<1>5. \A q \in Requests : call'[q].i = call[q].i
  BY <1>3, <1>4
<1>6. \A q \in Requests : call[q].i \in 1..Names[q]
  BY DEF ProvTypeOK
<1> QED
  BY <1>3, <1>4, <1>5, <1>6 DEF Current

LEMMA InitIInv == ProvInit => IInv
<1> SUFFICES ASSUME ProvInit PROVE IInv
  OBVIOUS
<1> USE DEF ProvInit, WebInit
<1>1. /\ \A c \in Chips : OldFleet[c] \in Rows \cup {NoRow}
      /\ \A c \in Chips : OldFleet[c] # NoRow => OldFleet[c].bundle \in Bundles
      /\ \A c \in Chips : OldFleet[c] # NoRow =>
            OldFleet[c].bundle \notin Attempts /\ OldFleet[c].bundle \notin Tokens
  BY DevicesAssumption, FreshKeys DEF Rows
<1>2. \A c \in Chips : /\ writer[c] = nvs[c]
                       /\ nvs[c] = IF OldFleet[c] = NoRow THEN Nothing ELSE OldFleet[c].bundle
                       /\ nvs[c] \notin Attempts /\ nvs[c] \notin Tokens
                       /\ nvs[c] \in Bundles \cup {Nothing}
  BY <1>1, ProvAssumption
<1>3. ProvTypeOK
  <2>1. devices \in [Chips -> Rows \cup {NoRow}] /\ plugged \in Chips
    BY DevicesAssumption
  <2>2. image \in [Chips -> Images]
    <3>1. Torn \in Images /\ [at |-> "base", fw |-> OldVersion] \in Images
      BY ProvAssumption DEF Torn, Images
    <3> QED
      BY <3>1
  <2>3. nvs \in [Chips -> Bundles \cup {Nothing}] /\ writer \in [Chips -> Bundles \cup {Nothing}]
    BY <1>2
  <2>4. /\ call \in [Requests -> [pc : Steps, i : Nat, id : Chips \cup {Nothing}]]
        /\ \A r \in Requests : call[r].i \in 1..Names[r]
    BY ProvAssumption DEF Steps
  <2>5. result \in [Attempts -> {"none", "ok", "failed", "gone"}]
    OBVIOUS
  <2>6. msg \in [id : Chips, key : Bundles, moot : BOOLEAN] \cup {Nothing}
    OBVIOUS
  <2>7. WebTypeOK
    BY DEF WebTypeOK
  <2> QED
    BY <2>1, <2>2, <2>3, <2>4, <2>5, <2>6, <2>7 DEF ProvTypeOK
<1>4. Fresh
  <2>1. ASSUME NEW r \in Requests, NEW k \in 1..Names[r] PROVE <<r, k>> \in Attempts
    <3>1. <<r, k>> \in {r} \X (1..Names[r])
      OBVIOUS
    <3> QED
      BY <3>1 DEF Attempts
  <2>2. \A d \in Chips : writer[d] \notin Attempts
    BY <1>2
  <2>3. \A c \in Registered : devices[c].bundle \notin Attempts
    BY <1>1 DEF Registered
  <2> QED
    BY <2>1, <2>2, <2>3 DEF Fresh
<1>5. OnPort
  BY DEF OnPort
<1>6. NoTokenRow /\ RowMatchesChip /\ ReportedVersionIsOwn
  BY <1>1, <1>2, FreshKeys DEF NoTokenRow, RowMatchesChip, ReportedVersionIsOwn, Registered
<1>7. OkMeansEnrolled /\ SignedByRow
  BY DEF OkMeansEnrolled, SignedByRow
<1>8. Session
  BY DEF Session
<1>9. Installed
  BY <1>2 DEF Installed
<1>10. Virgin
  <2>1. ASSUME NEW r \in Requests, NEW k \in 1..Names[r] PROVE <<r, k>> \in Attempts
    <3>1. <<r, k>> \in {r} \X (1..Names[r])
      OBVIOUS
    <3> QED
      BY <3>1 DEF Attempts
  <2> QED
    BY <1>2, <2>1 DEF Virgin
<1>11. KeysAreApart
  BY <1>2, FreshKeys DEF KeysAreApart, Registered
<1> QED
  BY <1>3, <1>4, <1>5, <1>6, <1>7, <1>8, <1>9, <1>10, <1>11 DEF IInv

-----------------------------------------------------------------------------
(* runFlash.                                                                *)

\* What does not depend on the requests and the port.
LEMMA TableAndPageFrame ==
    ASSUME IInv, UNCHANGED <<devices, msg, webVars>>
    PROVE  NoTokenRow' /\ SignedByRow' /\ ReportedVersionIsOwn' /\ Session'
  BY DEF IInv, NoTokenRow, SignedByRow, ReportedVersionIsOwn, Session, Registered, webVars

\* The table and the results.
LEMMA EnrolledFrame ==
    ASSUME OkMeansEnrolled, UNCHANGED devices,
           \A a \in Attempts : result'[a] = "ok" => result[a] = "ok"
    PROVE  OkMeansEnrolled'
  BY DEF OkMeansEnrolled, Registered

\* A key that no chip holds, or that of a browser session, comes onto a chip.
LEMMA ApartFrame ==
    ASSUME ProvTypeOK, KeysAreApart, UNCHANGED devices,
           NEW c \in Chips, NEW b, nvs' = nvs \/ nvs' = [nvs EXCEPT ![c] = b],
           b \in Tokens \cup {Nothing} \/ \A d \in Chips : nvs[d] # b
    PROVE  KeysAreApart'
<1>1. \A d \in Chips : nvs'[d] = nvs[d] \/ (d = c /\ nvs'[d] = b)
  BY DEF ProvTypeOK
<1>2. \A d \in Chips : d # c => nvs'[d] = nvs[d]
  BY DEF ProvTypeOK
<1> QED
  BY <1>1, <1>2 DEF KeysAreApart, Registered

\* A step that writes to no chip.
LEMMA MovedOnKeepsIInv ==
    ASSUME IInv, NEW r \in Requests, NEW pc \in {"chip", "over"}, Advance(r, pc),
           pc = "chip" => call[r].pc = "new",
           UNCHANGED <<devices, usb, msg, webVars>>,
           result' = result \/ result' = [result EXCEPT ![Current(r)] = "failed"]
    PROVE  IInv'
<1> USE DEF IInv, usb
<1>1. pc \in Steps
  BY DEF Steps
<1>2. /\ call' \in [Requests -> [pc : Steps, i : Nat, id : Chips \cup {Nothing}]]
      /\ \A q \in Requests : call'[q].i = call[q].i /\ call'[q].i \in 1..Names[q]
      /\ call'[r].pc = pc /\ call'[r].id = call[r].id
      /\ \A q \in Requests : q # r => call'[q] = call[q]
      /\ \A q \in Requests : Current(q)' = Current(q)
  BY <1>1, AdvanceFacts
<1>3. ProvTypeOK'
  <2>1. result' \in [Attempts -> {"none", "ok", "failed", "gone"}]
    BY DEF ProvTypeOK
  <2> QED
    BY <1>2, <2>1 DEF ProvTypeOK, WebTypeOK, webVars
<1>4. Fresh'
  <2>1. \A q \in Requests : \A k \in 1..Names[q] :
           /\ Unused(q, k)' => Unused(q, k)
           /\ Unsettled(q, k)' => Unsettled(q, k)
    BY <1>2 DEF Unused, Unsettled
  <2> QED
    BY <2>1 DEF Fresh, Registered
<1>5. OnPort'
  BY <1>2 DEF OnPort
<1>6. OkMeansEnrolled'
  <2>1. \A a \in Attempts : result'[a] = "ok" => result[a] = "ok"
    BY DEF ProvTypeOK
  <2> QED
    BY <2>1, EnrolledFrame
<1>7. RowMatchesChip' /\ Installed' /\ KeysAreApart'
  BY DEF RowMatchesChip, Installed, KeysAreApart, Registered, webVars
<1>8. Virgin'
  <2>1. \A q \in Requests : \A k \in 1..Names[q] : Unwritten(q, k)' => Unwritten(q, k)
    BY <1>2 DEF Unwritten
  <2> QED
    BY <2>1 DEF Virgin
<1> QED
  BY <1>3, <1>4, <1>5, <1>6, <1>7, <1>8, TableAndPageFrame

\* A run of esptool that wrote, whole or torn, on the chip now on the port.
LEMMA WroteKeepsIInv ==
    ASSUME IInv, NEW r \in Requests, call[r].pc \in {"image", "nvs"},
           NEW pc \in {"nvs", "insert", "over"}, Advance(r, pc), Wrote(r),
           NEW m \in Images, image' = image \/ image' = [image EXCEPT ![plugged] = m],
           NEW b \in {Nothing, Current(r)}, nvs' = nvs \/ nvs' = [nvs EXCEPT ![plugged] = b],
           pc = "insert" => nvs' = [nvs EXCEPT ![plugged] = Current(r)],
           b = Current(r) => call[r].pc = "nvs" /\ pc # "nvs",
           UNCHANGED <<devices, plugged, msg, webVars>>,
           result' = result \/ result' = [result EXCEPT ![Current(r)] = "failed"]
    PROVE  IInv'
<1> USE DEF IInv
<1>0. /\ plugged \in Chips /\ Current(r) = <<r, call[r].i>> /\ call[r].i \in 1..Names[r]
      /\ Current(r) \in Attempts /\ Current(r) \in Bundles /\ Current(r) \notin Tokens
      /\ \A q \in Requests : Current(q) = <<q, call[q].i>>
  BY CurrentFacts DEF ProvTypeOK
<1>1. pc \in Steps
  BY DEF Steps
<1>2. /\ call' \in [Requests -> [pc : Steps, i : Nat, id : Chips \cup {Nothing}]]
      /\ \A q \in Requests : call'[q].i = call[q].i /\ call'[q].i \in 1..Names[q]
      /\ call'[r].pc = pc /\ call'[r].id = call[r].id
      /\ \A q \in Requests : q # r => call'[q] = call[q]
      /\ \A q \in Requests : Current(q)' = Current(q)
  BY <1>1, AdvanceFacts
<1>3. /\ writer' \in [Chips -> Bundles \cup {Nothing}]
      /\ nvs' \in [Chips -> Bundles \cup {Nothing}] /\ image' \in [Chips -> Images]
  <2>1. writer' \in [Chips -> Bundles \cup {Nothing}]
    BY <1>0 DEF ProvTypeOK, Wrote
  <2>2. nvs' \in [Chips -> Bundles \cup {Nothing}]
    BY <1>0 DEF ProvTypeOK
  <2>3. image' \in [Chips -> Images]
    BY DEF ProvTypeOK
  <2> QED
    BY <2>1, <2>2, <2>3
<1>4. /\ writer'[plugged] = Current(r)
      /\ \A d \in Chips : d # plugged =>
            writer'[d] = writer[d] /\ nvs'[d] = nvs[d] /\ image'[d] = image[d]
      /\ pc = "insert" => nvs'[plugged] = Current(r)
  BY <1>0 DEF ProvTypeOK, Wrote
<1>5. ProvTypeOK'
  <2>1. result' \in [Attempts -> {"none", "ok", "failed", "gone"}]
    BY DEF ProvTypeOK
  <2> QED
    BY <1>2, <1>3, <2>1 DEF ProvTypeOK, WebTypeOK, webVars
<1>6. Fresh'
  <2>1. \A q \in Requests : \A k \in 1..Names[q] :
           /\ Unused(q, k)' => Unused(q, k) /\ <<q, k>> # Current(r)
           /\ Unsettled(q, k)' => Unsettled(q, k)
    BY <1>0, <1>2 DEF Unused, Unsettled
  <2>2. ASSUME NEW q \in Requests, NEW k \in 1..Names[q], Unused(q, k)', NEW d \in Chips
        PROVE  writer'[d] # <<q, k>>
    <3>1. Unused(q, k) /\ <<q, k>> # Current(r)
      BY <2>1, <2>2
    <3>2. writer[d] # <<q, k>>
      BY <3>1 DEF Fresh
    <3>3. writer'[d] = Current(r) \/ writer'[d] = writer[d]
      BY <1>4
    <3> QED
      BY <3>1, <3>2, <3>3
  <2>3. ASSUME NEW q \in Requests, NEW k \in 1..Names[q], Unsettled(q, k)',
               NEW c \in Registered'
        PROVE  devices'[c].bundle # <<q, k>>
    <3>1. c \in Registered /\ devices'[c] = devices[c]
      BY DEF Registered
    <3>2. Unsettled(q, k)
      BY <2>1, <2>3
    <3>3. devices[c].bundle # <<q, k>>
      BY <3>1, <3>2 DEF Fresh
    <3> QED
      BY <3>1, <3>3
  <2> QED
    BY <2>2, <2>3 DEF Fresh, Unused, Unsettled
<1>7. OnPort'
  <2>1. \A q \in Requests : q # r => Current(q) # Current(r)
    BY <1>0
  <2>2. ASSUME call[r].pc = "image", NEW d \in Chips PROVE writer[d] # Current(r)
    BY <1>0, <2>2 DEF Fresh, Unused
  <2>3. ASSUME NEW d \in Chips, writer'[d] = Current(r) PROVE d = plugged
    BY <1>4, <2>2, <2>3 DEF OnPort
  <2>4. ASSUME NEW q \in Requests, q # r, call[q].pc \in {"nvs", "insert"},
               NEW d \in Chips, writer'[d] = Current(q)
        PROVE  d = plugged
    BY <1>4, <2>1, <2>4 DEF OnPort
  <2>5. ASSUME NEW q \in Requests, q # r PROVE writer'[plugged] # Current(q)
    BY <1>4, <2>1, <2>5
  <2> QED
    BY <1>2, <1>4, <2>3, <2>4, <2>5 DEF OnPort
<1>8. RowMatchesChip'
  <2>1. \A c \in Registered : devices[c].bundle # Current(r)
    BY <1>0 DEF Fresh, Unsettled
  <2> QED
    BY <1>4, <2>1 DEF RowMatchesChip, Registered
<1>9. OkMeansEnrolled'
  <2>1. \A a \in Attempts : result'[a] = "ok" => result[a] = "ok"
    BY DEF ProvTypeOK
  <2> QED
    BY <2>1, EnrolledFrame
<1>10. Installed'
  BY <1>0, <1>4 DEF Installed, webVars
<1>11. Virgin'
  <2>1. \A q \in Requests : \A k \in 1..Names[q] :
           Unwritten(q, k)' => Unwritten(q, k) /\ (<<q, k>> = Current(r) => b # Current(r))
    BY <1>0, <1>2 DEF Unwritten
  <2>2. ASSUME NEW q \in Requests, NEW k \in 1..Names[q] PROVE <<q, k>> # Nothing
    <3>1. <<q, k>> \in {q} \X (1..Names[q])
      OBVIOUS
    <3>2. <<q, k>> \in Attempts
      BY <3>1 DEF Attempts
    <3> QED
      BY <3>2, ProvAssumption
  <2>3. \A d \in Chips : nvs'[d] = nvs[d] \/ nvs'[d] = b
    BY DEF ProvTypeOK
  <2>4. ASSUME NEW q \in Requests, NEW k \in 1..Names[q], Unwritten(q, k)', NEW d \in Chips
        PROVE  nvs'[d] # <<q, k>>
    <3>1. Unwritten(q, k) /\ (<<q, k>> = Current(r) => b # Current(r))
      BY <2>1, <2>4
    <3>2. nvs[d] # <<q, k>>
      BY <3>1 DEF Virgin
    <3>3. b # <<q, k>>
      BY <2>2, <3>1
    <3> QED
      BY <2>3, <3>2, <3>3
  <2> QED
    BY <2>4 DEF Virgin, Unwritten
<1>12. KeysAreApart'
  <2>1. b = Nothing \/ \A d \in Chips : nvs[d] # b
    BY <1>0 DEF Virgin, Unwritten
  <2> QED
    BY <1>0, <2>1, ApartFrame
<1> QED
  BY <1>5, <1>6, <1>7, <1>8, <1>9, <1>10, <1>11, <1>12, TableAndPageFrame

LEMMA StartFlashKeepsIInv == ASSUME IInv, NEW r \in Requests, StartFlash(r) PROVE IInv'
  BY MovedOnKeepsIInv DEF StartFlash

LEMMA ReadChipKeepsIInv == ASSUME IInv, NEW r \in Requests, ReadChip(r) PROVE IInv'
<1>1. CASE GiveUp(r)
  BY <1>1, MovedOnKeepsIInv DEF ReadChip, GiveUp
<1>2. CASE /\ call' = [call EXCEPT ![r].pc = "image", ![r].id = plugged]
           /\ UNCHANGED result
  <2> USE DEF IInv, usb, ReadChip
  <2> DEFINE new == [call[r] EXCEPT !.pc = "image", !.id = plugged]
  <2>1. /\ new \in [pc : Steps, i : Nat, id : Chips \cup {Nothing}]
        /\ new.pc = "image" /\ new.i = call[r].i /\ new.id = plugged
    BY DEF ProvTypeOK, Steps
  <2>2. call' = [call EXCEPT ![r] = new]
    BY <1>2
  <2> HIDE DEF new
  <2>3. /\ call' \in [Requests -> [pc : Steps, i : Nat, id : Chips \cup {Nothing}]]
        /\ call'[r].pc = "image" /\ call'[r].i = call[r].i /\ call'[r].id \in Chips
        /\ \A q \in Requests : q # r => call'[q] = call[q]
    BY <2>1, <2>2 DEF ProvTypeOK
  <2>4. \A q \in Requests : /\ call'[q].i = call[q].i /\ call'[q].i \in 1..Names[q]
                            /\ Current(q)' = Current(q)
    BY <2>3 DEF ProvTypeOK, Current
  <2>5. ProvTypeOK'
    BY <1>2, <2>3, <2>4 DEF ProvTypeOK, WebTypeOK, webVars
  <2>6. Fresh'
    <3>1. \A q \in Requests : \A k \in 1..Names[q] :
             /\ Unused(q, k)' => Unused(q, k)
             /\ Unsettled(q, k)' => Unsettled(q, k)
      BY <2>3, <2>4 DEF Unused, Unsettled
    <3> QED
      BY <3>1 DEF Fresh, Registered
  <2>7. OnPort'
    BY <2>3, <2>4 DEF OnPort
  <2>8. OkMeansEnrolled' /\ RowMatchesChip' /\ Installed' /\ KeysAreApart'
    BY <1>2 DEF OkMeansEnrolled, RowMatchesChip, Installed, KeysAreApart, Registered, webVars
  <2>9. Virgin'
    <3>1. \A q \in Requests : \A k \in 1..Names[q] : Unwritten(q, k)' => Unwritten(q, k)
      BY <2>3, <2>4 DEF Unwritten
    <3> QED
      BY <3>1 DEF Virgin
  <2> QED
    BY <2>5, <2>6, <2>7, <2>8, <2>9, TableAndPageFrame
<1> QED
  BY <1>1, <1>2 DEF ReadChip

LEMMA ImageFacts ==
    Torn \in Images /\ \A r \in Requests : [at |-> "base", fw |-> FwOf[r]] \in Images
  BY ProvAssumption DEF Images, Torn

LEMMA WriteImageKeepsIInv == ASSUME IInv, NEW r \in Requests, WriteImage(r) PROVE IInv'
<1>1. CASE /\ Advance(r, "nvs")
           /\ image' = [image EXCEPT ![plugged] = [at |-> "base", fw |-> FwOf[r]]]
           /\ nvs' = [nvs EXCEPT ![plugged] = Nothing]
           /\ Wrote(r) /\ UNCHANGED result
  <2>1. [at |-> "base", fw |-> FwOf[r]] \in Images
    BY ImageFacts
  <2>2. Current(r) # Nothing
    BY CurrentFacts DEF IInv
  <2> QED
    BY <1>1, <2>1, <2>2, WroteKeepsIInv DEF WriteImage
<1>2. CASE /\ GiveUp(r)
           /\ image' = [image EXCEPT ![plugged] = Torn]
           /\ nvs' \in {nvs, [nvs EXCEPT ![plugged] = Nothing]}
           /\ Wrote(r)
  <2>1. Current(r) # Nothing
    BY CurrentFacts DEF IInv
  <2> QED
    BY <1>2, <2>1, ImageFacts, WroteKeepsIInv DEF WriteImage, GiveUp
<1>3. CASE GiveUp(r) /\ UNCHANGED <<image, nvs, writer>>
  BY <1>3, MovedOnKeepsIInv DEF WriteImage, GiveUp, usb
<1> QED
  BY <1>1, <1>2, <1>3 DEF WriteImage

LEMMA WriteNVSKeepsIInv == ASSUME IInv, NEW r \in Requests, WriteNVS(r) PROVE IInv'
<1>1. CASE /\ Advance(r, "insert")
           /\ nvs' = [nvs EXCEPT ![plugged] = Current(r)]
           /\ Wrote(r) /\ UNCHANGED result
  BY <1>1, ImageFacts, WroteKeepsIInv DEF WriteNVS
<1>2. CASE /\ GiveUp(r)
           /\ \E b \in {Nothing, Current(r)} : nvs' = [nvs EXCEPT ![plugged] = b]
           /\ Wrote(r)
  BY <1>2, ImageFacts, WroteKeepsIInv DEF WriteNVS, GiveUp
<1>3. CASE GiveUp(r) /\ UNCHANGED <<nvs, writer>>
  BY <1>3, MovedOnKeepsIInv DEF WriteNVS, GiveUp, usb
<1> QED
  BY <1>1, <1>2, <1>3 DEF WriteNVS

\* Only now the key of the attempt comes into the table: if anybody's writes it
\* is the chip's on the port, which holds it.
LEMMA RegisterKeepsIInv == ASSUME IInv, NEW r \in Requests, Register(r) PROVE IInv'
<1>1. CASE devices[call[r].id] # NoRow /\ GiveUp(r) /\ UNCHANGED devices
  BY <1>1, MovedOnKeepsIInv DEF Register, GiveUp
<1>2. CASE CreateDevice(call[r].id, Current(r)) /\ Succeed(r)
  <2> DEFINE c == call[r].id
             a == Current(r)
             row == [bundle |-> a, by |-> a]
             pc == IF call[r].i < Names[r] THEN "chip" ELSE "over"
             i == IF call[r].i < Names[r] THEN call[r].i + 1 ELSE call[r].i
             new == [call[r] EXCEPT !.pc = pc, !.i = i]
  <2> USE DEF IInv
  <2>1. /\ a = <<r, call[r].i>> /\ a \in Attempts /\ a \in Bundles /\ a \notin Tokens
        /\ call[r].i \in 1..Names[r] /\ Names[r] \in Nat
        /\ call[r].pc = "insert" /\ devices[c] = NoRow
    BY <1>2, CurrentFacts DEF Register, CreateDevice
  <2>2. /\ row \in Rows /\ row # NoRow /\ row.bundle = a /\ row.by = a
    BY <2>1, DevicesAssumption DEF Rows
  <2>3. /\ new \in [pc : Steps, i : Nat, id : Chips \cup {Nothing}]
        /\ new.pc = pc /\ new.i = i
    <3>1. i \in Nat /\ pc \in Steps
      BY <2>1 DEF Steps
    <3> HIDE DEF i, pc
    <3> QED
      BY <3>1 DEF ProvTypeOK
  <2>4. /\ devices' = [devices EXCEPT ![c] = row]
        /\ result' = [result EXCEPT ![a] = "ok"]
        /\ call' = [call EXCEPT ![r] = new]
        /\ UNCHANGED <<plugged, image, nvs, writer, msg, webVars>>
    BY <1>2 DEF Register, CreateDevice, Succeed, usb
  <2>5. i \in 1..Names[r] /\ (pc = "chip" => i = call[r].i + 1) /\ (pc # "chip" => i = call[r].i)
        /\ pc \in {"chip", "over"}
    BY <2>1
  <2> HIDE DEF a, row, pc, i, new, c
  <2>6. /\ call' \in [Requests -> [pc : Steps, i : Nat, id : Chips \cup {Nothing}]]
        /\ call'[r].pc = pc /\ call'[r].i = i
        /\ \A q \in Requests : q # r => call'[q] = call[q]
    BY <2>3, <2>4 DEF ProvTypeOK
  <2>7. /\ \A d \in Chips : d # c => devices'[d] = devices[d]
        /\ \A d \in Chips : d = c => devices'[d] = row
    BY <2>4 DEF ProvTypeOK
  <2>8. /\ \A d \in Registered : d \in Registered' /\ d # c /\ devices'[d] = devices[d]
        /\ \A d \in Registered' : d \in Registered \/ d = c
    BY <2>1, <2>2, <2>7 DEF Registered
  <2>9. ProvTypeOK'
    <3>1. devices' \in [Chips -> Rows \cup {NoRow}]
      BY <2>2, <2>4 DEF ProvTypeOK
    <3>2. result' \in [Attempts -> {"none", "ok", "failed", "gone"}]
      BY <2>4 DEF ProvTypeOK
    <3>3. \A q \in Requests : call'[q].i \in 1..Names[q]
      BY <2>5, <2>6 DEF ProvTypeOK
    <3> QED
      BY <2>4, <2>6, <3>1, <3>2, <3>3 DEF ProvTypeOK, WebTypeOK, webVars
  <2>10. ASSUME NEW q \in Requests, NEW k \in 1..Names[q]
         PROVE  /\ Unused(q, k)' => Unused(q, k)
                /\ Unsettled(q, k)' => Unsettled(q, k) /\ <<q, k>> # a
    <3>1. CASE q = r
      BY <2>1, <2>5, <2>6, <3>1 DEF Unused, Unsettled
    <3>2. CASE q # r
      BY <2>1, <2>6, <3>2 DEF Unused, Unsettled
    <3> QED
      BY <3>1, <3>2
  <2>11. Fresh'
    <3>1. ASSUME NEW q \in Requests, NEW k \in 1..Names[q], Unused(q, k)', NEW d \in Chips
          PROVE  writer'[d] # <<q, k>>
      BY <2>4, <2>10, <3>1 DEF Fresh
    <3>2. ASSUME NEW q \in Requests, NEW k \in 1..Names[q], Unsettled(q, k)', NEW d \in Registered'
          PROVE  devices'[d].bundle # <<q, k>>
      <4>1. CASE d = c
        BY <2>2, <2>7, <2>10, <3>2, <4>1 DEF Registered
      <4>2. CASE d # c
        BY <2>8, <2>10, <3>2, <4>2 DEF Fresh
      <4> QED
        BY <4>1, <4>2
    <3> QED
      BY <3>1, <3>2 DEF Fresh, Unused, Unsettled
  <2>12. OnPort'
    BY <2>4, <2>5, <2>6 DEF OnPort, Current
  <2>13. NoTokenRow' /\ ReportedVersionIsOwn'
    BY <2>1, <2>2, <2>7, <2>8 DEF NoTokenRow, ReportedVersionIsOwn, Registered
  <2>14. RowMatchesChip'
    <3>1. writer[c] = a => nvs[c] = a \/ c \notin Chips
      BY <2>1 DEF OnPort, a
    <3> QED
      BY <2>2, <2>4, <2>7, <2>8, <3>1 DEF RowMatchesChip, Registered
  <2>15. OkMeansEnrolled'
    <3> SUFFICES ASSUME NEW x \in Attempts, result'[x] = "ok"
                 PROVE  \E d \in Registered' : devices'[d].bundle = x
      BY DEF OkMeansEnrolled
    <3>1. CASE x = a
      <4>1. c \in Chips
        BY <2>1 DEF OnPort, c
      <4> QED
        BY <2>2, <2>7, <3>1, <4>1 DEF Registered
    <3>2. CASE x # a
      <4>1. result[x] = "ok"
        BY <2>4, <3>2 DEF ProvTypeOK
      <4>2. PICK d \in Registered : devices[d].bundle = x
        BY <4>1 DEF OkMeansEnrolled
      <4> QED
        BY <2>8, <4>2
    <3> QED
      BY <3>1, <3>2
  <2>16. SignedByRow'
    BY <2>1, <2>4, <2>7 DEF SignedByRow, ProvTypeOK
  <2>17. Session' /\ Installed'
    BY <2>4 DEF Session, Installed, webVars
  <2>18. Virgin'
    <3>1. ASSUME NEW q \in Requests, NEW k \in 1..Names[q] PROVE Unwritten(q, k)' => Unwritten(q, k)
      <4>1. CASE q = r
        BY <2>1, <2>5, <2>6, <4>1 DEF Unwritten
      <4>2. CASE q # r
        BY <2>6, <4>2 DEF Unwritten
      <4> QED
        BY <4>1, <4>2
    <3> QED
      BY <2>4, <3>1 DEF Virgin
  <2>19. KeysAreApart'
    <3>1. \A d \in Registered : devices[d].bundle # a
      BY <2>1 DEF Fresh, Unsettled
    <3> QED
      BY <2>2, <2>4, <2>7, <2>8, <3>1 DEF KeysAreApart
  <2> QED
    BY <2>9, <2>11, <2>12, <2>13, <2>14, <2>15, <2>16, <2>17, <2>18, <2>19
<1> QED
  BY <1>1, <1>2 DEF Register

-----------------------------------------------------------------------------
(* The user, the browser and the devices.                                   *)

LEMMA PlugInKeepsIInv == ASSUME IInv, NEW c \in Chips, PlugIn(c) PROVE IInv'
<1> USE DEF IInv
<1>1. /\ plugged' = c
      /\ writer' \in [Chips -> Bundles \cup {Nothing}]
      /\ \A d \in Chips :
            writer'[d] = IF \E r \in Requests : writer[d] = Current(r) /\ call[r].pc \in {"nvs", "insert"}
                         THEN Nothing ELSE writer[d]
      /\ UNCHANGED <<devices, image, nvs, call, result, msg, webVars>>
  BY DEF PlugIn, runs, ProvTypeOK
<1>2. \A d \in Chips : writer'[d] = writer[d] \/ writer'[d] = Nothing
  BY <1>1
<1>3. ProvTypeOK'
  BY <1>1 DEF ProvTypeOK, WebTypeOK, webVars
<1>4. \A r \in Requests : \A k \in 1..Names[r] : <<r, k>> # Nothing
  <2>1. ASSUME NEW r \in Requests, NEW k \in 1..Names[r] PROVE <<r, k>> \in Bundles
    <3>1. <<r, k>> \in {r} \X (1..Names[r])
      OBVIOUS
    <3> QED
      BY <3>1, ProvAssumption DEF Attempts
  <2> QED
    BY <2>1, ProvAssumption
<1>5. Fresh'
  <2>1. \A q \in Requests : \A k \in 1..Names[q] :
           (Unused(q, k)' <=> Unused(q, k)) /\ (Unsettled(q, k)' <=> Unsettled(q, k))
    BY <1>1 DEF Unused, Unsettled
  <2> QED
    BY <1>1, <1>2, <1>4, <2>1 DEF Fresh, Registered
<1>6. OnPort'
  <2>1. \A r \in Requests : Current(r)' = Current(r) /\ Current(r) # Nothing
    BY <1>1, CurrentFacts DEF Current
  <2>2. ASSUME NEW r \in Requests, call[r].pc \in {"nvs", "insert"}, NEW d \in Chips
        PROVE  writer'[d] # Current(r)
    BY <1>1, <2>1, <2>2
  <2>3. plugged' \in Chips
    BY <1>1
  <2> QED
    BY <1>1, <2>1, <2>2, <2>3 DEF OnPort
<1>7. RowMatchesChip'
  <2>1. \A d \in Registered : devices[d].bundle # Nothing
    BY ProvAssumption DEF ProvTypeOK, Registered, Rows
  <2> QED
    BY <1>1, <1>2, <2>1 DEF RowMatchesChip, Registered
<1>8. OkMeansEnrolled'
  BY <1>1 DEF OkMeansEnrolled, Registered
<1>9. Installed'
  <2>1. Nothing \notin Tokens
    BY ProvAssumption
  <2> QED
    BY <1>1, <1>2, <2>1 DEF Installed, webVars
<1>10. Virgin' /\ KeysAreApart'
  BY <1>1 DEF Virgin, Unwritten, KeysAreApart, Registered
<1> QED
  BY <1>1, <1>3, <1>5, <1>6, <1>7, <1>8, <1>9, <1>10, TableAndPageFrame

\* The row goes, and with it the claims that rest on it.
LEMMA RemoveDeviceKeepsIInv == ASSUME IInv, NEW c \in Chips, RemoveDevice(c) PROVE IInv'
<1> USE DEF IInv
<1>1. /\ devices[c] # NoRow /\ devices' = [devices EXCEPT ![c] = NoRow]
      /\ result' = [a \in Attempts |-> IF a = devices[c].bundle THEN "gone" ELSE result[a]]
      /\ msg' = IF msg # Nothing /\ msg.id = c THEN [msg EXCEPT !.moot = TRUE] ELSE msg
      /\ UNCHANGED <<plugged, image, nvs, writer, call, webVars>>
  BY DEF RemoveDevice, DeleteDevice, usb
<1>2. /\ \A d \in Chips : d # c => devices'[d] = devices[d]
      /\ devices'[c] = NoRow
      /\ devices' \in [Chips -> Rows \cup {NoRow}]
  BY <1>1 DEF ProvTypeOK
<1>3. /\ \A d \in Registered' : d \in Registered /\ d # c /\ devices'[d] = devices[d]
      /\ \A d \in Registered : d # c => d \in Registered'
  BY <1>2 DEF Registered
<1>4. /\ msg' \in [id : Chips, key : Bundles, moot : BOOLEAN] \cup {Nothing}
      /\ msg' # Nothing /\ ~msg'.moot => msg' = msg /\ msg.id # c
  <2>1. CASE msg # Nothing /\ msg.id = c
    <3>1. msg \in [id : Chips, key : Bundles, moot : BOOLEAN]
      BY <2>1 DEF ProvTypeOK
    <3>2. /\ [msg EXCEPT !.moot = TRUE] \in [id : Chips, key : Bundles, moot : BOOLEAN]
          /\ [msg EXCEPT !.moot = TRUE].moot
      BY <3>1
    <3>3. msg' = [msg EXCEPT !.moot = TRUE]
      BY <1>1, <2>1
    <3> QED
      BY <3>2, <3>3
  <2>2. CASE ~(msg # Nothing /\ msg.id = c)
    BY <1>1, <2>2 DEF ProvTypeOK
  <2> QED
    BY <2>1, <2>2
<1>5. ProvTypeOK'
  <2>1. result' \in [Attempts -> {"none", "ok", "failed", "gone"}]
    BY <1>1 DEF ProvTypeOK
  <2> QED
    BY <1>1, <1>2, <1>4, <2>1 DEF ProvTypeOK, WebTypeOK, webVars
<1>6. Fresh'
  <2>1. \A q \in Requests : \A k \in 1..Names[q] :
           (Unused(q, k)' <=> Unused(q, k)) /\ (Unsettled(q, k)' <=> Unsettled(q, k))
    BY <1>1 DEF Unused, Unsettled
  <2> QED
    BY <1>1, <1>3, <2>1 DEF Fresh
<1>7. OnPort'
  BY <1>1 DEF OnPort, Current
<1>8. NoTokenRow' /\ RowMatchesChip' /\ ReportedVersionIsOwn'
  BY <1>1, <1>3 DEF NoTokenRow, RowMatchesChip, ReportedVersionIsOwn
<1>9. OkMeansEnrolled'
  <2> SUFFICES ASSUME NEW a \in Attempts, result'[a] = "ok"
               PROVE  \E d \in Registered' : devices'[d].bundle = a
    BY DEF OkMeansEnrolled
  <2>1. a # devices[c].bundle /\ result[a] = "ok"
    BY <1>1
  <2>2. PICK d \in Registered : devices[d].bundle = a
    BY <2>1 DEF OkMeansEnrolled
  <2> QED
    BY <1>2, <1>3, <2>1, <2>2
<1>10. SignedByRow'
  BY <1>2, <1>4 DEF SignedByRow, ProvTypeOK
<1>11. Session' /\ Installed'
  BY <1>1 DEF Session, Installed, webVars
<1>12. Virgin' /\ KeysAreApart'
  BY <1>1, <1>3 DEF Virgin, Unwritten, KeysAreApart
<1> QED
  BY <1>5, <1>6, <1>7, <1>8, <1>9, <1>10, <1>11, <1>12

\* The browser writes the key of its session, which no row has.
LEMMA BrowserFlashKeepsIInv ==
    ASSUME IInv, NEW c \in Chips, NEW t \in Tokens, BrowserFlash(c, t) PROVE IInv'
<1> USE DEF IInv
<1> DEFINE m == [at |-> "slot", fw |-> page[t].fw]
<1>1. /\ writer' = [writer EXCEPT ![c] = t]
      /\ UNCHANGED <<devices, plugged, call, result, msg, webVars>>
      /\ \/ image' = [image EXCEPT ![c] = m] /\ nvs' = [nvs EXCEPT ![c] = t]
         \/ image' = [image EXCEPT ![c] = Torn] /\ nvs' = [nvs EXCEPT ![c] = Nothing]
      /\ page[t].pc = "complete"
  BY DEF BrowserFlash, runs
<1>2. t \in Bundles /\ t \notin Attempts /\ Nothing \notin Tokens
  BY ProvAssumption, FreshKeys
<1>3. page[t].fw = sessionFw[t] /\ page[t].label = sessionFw[t]
  BY <1>1 DEF Session
<1>4. image' \in [Chips -> Images]
  <2>1. sessionFw[t] \in Versions
    BY <1>1 DEF Session, ProvTypeOK, WebTypeOK
  <2>2. m \in Images
    BY <1>3, <2>1 DEF Images
  <2> HIDE DEF m
  <2> QED
    BY <1>1, <2>2, ImageFacts DEF ProvTypeOK
<1>5. nvs' \in [Chips -> Bundles \cup {Nothing}] /\ writer' \in [Chips -> Bundles \cup {Nothing}]
  BY <1>1, <1>2 DEF ProvTypeOK
<1>6. /\ writer'[c] = t
      /\ \A d \in Chips : d # c => writer'[d] = writer[d] /\ nvs'[d] = nvs[d] /\ image'[d] = image[d]
      /\ \/ image'[c] = m /\ nvs'[c] = t
         \/ nvs'[c] = Nothing
  BY <1>1 DEF ProvTypeOK
<1> HIDE DEF m
<1>7. ProvTypeOK'
  BY <1>1, <1>4, <1>5 DEF ProvTypeOK, WebTypeOK, webVars
<1>8. \A q \in Requests : \A k \in 1..Names[q] : <<q, k>> # t
  <2>1. ASSUME NEW r \in Requests, NEW k \in 1..Names[r] PROVE <<r, k>> \in Attempts
    <3>1. <<r, k>> \in {r} \X (1..Names[r])
      OBVIOUS
    <3> QED
      BY <3>1 DEF Attempts
  <2> QED
    BY <1>2, <2>1
<1>9. Fresh'
  <2>1. \A q \in Requests : \A k \in 1..Names[q] :
           (Unused(q, k)' <=> Unused(q, k)) /\ (Unsettled(q, k)' <=> Unsettled(q, k))
    BY <1>1 DEF Unused, Unsettled
  <2>2. ASSUME NEW q \in Requests, NEW k \in 1..Names[q], Unused(q, k)', NEW d \in Chips
        PROVE  writer'[d] # <<q, k>>
    BY <1>6, <1>8, <2>1, <2>2 DEF Fresh
  <2>3. ASSUME NEW q \in Requests, NEW k \in 1..Names[q], Unsettled(q, k)', NEW d \in Registered'
        PROVE  devices'[d].bundle # <<q, k>>
    BY <1>1, <2>1, <2>3 DEF Fresh, Registered
  <2> QED
    BY <2>2, <2>3 DEF Fresh, Unused, Unsettled
<1>10. OnPort'
  <2>1. ASSUME NEW q \in Requests PROVE Current(q)' = Current(q) /\ Current(q) # t
    <3>1. Current(q)' = Current(q)
      BY <1>1 DEF Current
    <3>2. Current(q) = <<q, call[q].i>> /\ call[q].i \in 1..Names[q]
      BY CurrentFacts
    <3> QED
      BY <3>1, <3>2, <1>8
  <2>2. ASSUME NEW q \in Requests, NEW d \in Chips, writer'[d] = Current(q)
        PROVE  writer[d] = Current(q) /\ nvs'[d] = nvs[d]
    BY <1>6, <2>1, <2>2
  <2>3. plugged \in Chips
    BY DEF ProvTypeOK
  <2> QED
    BY <1>1, <2>1, <2>2, <2>3 DEF OnPort
<1>11. RowMatchesChip'
  BY <1>1, <1>6 DEF RowMatchesChip, NoTokenRow, Registered
<1>12. OkMeansEnrolled'
  BY <1>1 DEF OkMeansEnrolled, Registered
<1>13. Installed'
  BY <1>1, <1>2, <1>3, <1>6 DEF Installed, webVars, m
<1>14. Virgin'
  <2>1. ASSUME NEW q \in Requests, NEW k \in 1..Names[q] PROVE <<q, k>> # Nothing
    <3>1. <<q, k>> \in {q} \X (1..Names[q])
      OBVIOUS
    <3>2. <<q, k>> \in Attempts
      BY <3>1 DEF Attempts
    <3> QED
      BY <3>2, ProvAssumption
  <2>2. \A q \in Requests : \A k \in 1..Names[q] : Unwritten(q, k)' => Unwritten(q, k)
    BY <1>1 DEF Unwritten
  <2>3. ASSUME NEW q \in Requests, NEW k \in 1..Names[q], Unwritten(q, k)', NEW d \in Chips
        PROVE  nvs'[d] # <<q, k>>
    <3>1. nvs[d] # <<q, k>>
      BY <2>2, <2>3 DEF Virgin
    <3> QED
      BY <1>6, <1>8, <2>1, <3>1
  <2> QED
    BY <2>3 DEF Virgin, Unwritten
<1>15. KeysAreApart'
  BY <1>1, ApartFrame
<1> QED
  BY <1>1, <1>7, <1>9, <1>10, <1>11, <1>12, <1>13, <1>14, <1>15, TableAndPageFrame

\* What reads neither the chips nor the requests.
LEMMA ChipFrame ==
    ASSUME Fresh, OnPort, NoTokenRow, RowMatchesChip, OkMeansEnrolled, Virgin, KeysAreApart,
           UNCHANGED <<usb, runs>>,
           Registered' = Registered, \A d \in Registered : devices'[d].bundle = devices[d].bundle
    PROVE  /\ Fresh' /\ OnPort' /\ NoTokenRow' /\ RowMatchesChip' /\ OkMeansEnrolled'
           /\ Virgin' /\ KeysAreApart'
<1> USE DEF usb, runs
<1>1. Fresh'
  <2>1. \A q \in Requests : \A k \in 1..Names[q] :
           (Unused(q, k)' <=> Unused(q, k)) /\ (Unsettled(q, k)' <=> Unsettled(q, k))
    BY DEF Unused, Unsettled
  <2> QED
    BY <2>1 DEF Fresh
<1>2. OnPort'
  BY DEF OnPort, Current
<1>3. NoTokenRow' /\ RowMatchesChip' /\ OkMeansEnrolled'
  BY DEF NoTokenRow, RowMatchesChip, OkMeansEnrolled
<1>4. Virgin' /\ KeysAreApart'
  BY DEF Virgin, Unwritten, KeysAreApart
<1> QED
  BY <1>1, <1>2, <1>3, <1>4

LEMMA AuthenticateKeepsIInv ==
    ASSUME IInv, NEW c \in Chips, NEW b \in Bundles, Authenticate(c, b) PROVE IInv'
<1> USE DEF IInv, Authenticate
<1>1. /\ msg' \in [id : Chips, key : Bundles, moot : BOOLEAN]
      /\ msg'.id = c /\ msg'.key = b
  OBVIOUS
<1>2. ProvTypeOK'
  BY <1>1 DEF ProvTypeOK, usb, runs, WebTypeOK, webVars
<1>3. Fresh' /\ OnPort' /\ NoTokenRow' /\ RowMatchesChip' /\ OkMeansEnrolled' /\ Virgin' /\ KeysAreApart'
  BY ChipFrame DEF Registered
<1>4. SignedByRow'
  BY <1>1 DEF SignedByRow
<1>5. ReportedVersionIsOwn' /\ Session' /\ Installed'
  BY DEF ReportedVersionIsOwn, Session, Installed, Registered, webVars, usb
<1> QED
  BY <1>2, <1>3, <1>4, <1>5

\* The version is written by id: the row may be another one by now, but then
\* the report is moot.
LEMMA HandleCheckKeepsIInv == ASSUME IInv, HandleCheck PROVE IInv'
<1> USE DEF IInv
<1> DEFINE c == msg.id
           by == IF msg.moot THEN Nothing ELSE msg.key
           row == [devices[c] EXCEPT !.by = by]
<1>1. /\ msg \in [id : Chips, key : Bundles, moot : BOOLEAN]
      /\ c \in Chips /\ by \in Bundles \cup {Nothing} /\ msg' = Nothing
      /\ msg # Nothing
      /\ UNCHANGED <<usb, runs, webVars>>
  BY DEF HandleCheck, ProvTypeOK
<1>2. devices' = [devices EXCEPT ![c] = IF devices[c] = NoRow THEN NoRow ELSE row]
  BY DEF HandleCheck, UpdateDeviceFWVersion
<1>3. devices[c] # NoRow =>
          row \in Rows /\ row # NoRow /\ row.bundle = devices[c].bundle /\ row.by = by
  <2> HIDE DEF by
  <2>1. devices[c] # NoRow => devices[c] \in Rows
    BY <1>1 DEF ProvTypeOK
  <2>2. devices[c] # NoRow =>
           row \in Rows /\ row.bundle = devices[c].bundle /\ row.by = by
    BY <1>1, <2>1 DEF Rows
  <2> QED
    BY <2>2, DevicesAssumption
<1>4. devices[c] # NoRow => by \in {devices[c].bundle, Nothing}
  BY <1>1 DEF SignedByRow
<1> HIDE DEF c, by, row
<1>5. /\ devices' \in [Chips -> Rows \cup {NoRow}]
      /\ \A d \in Chips : d # c => devices'[d] = devices[d]
      /\ devices'[c] = IF devices[c] = NoRow THEN NoRow ELSE row
  BY <1>1, <1>2, <1>3 DEF ProvTypeOK
<1>6. Registered' = Registered /\ \A d \in Registered : devices'[d].bundle = devices[d].bundle
  BY <1>1, <1>3, <1>5 DEF Registered
<1>7. ProvTypeOK'
  BY <1>1, <1>5 DEF ProvTypeOK, usb, runs, WebTypeOK, webVars
<1>8. Fresh' /\ OnPort' /\ NoTokenRow' /\ RowMatchesChip' /\ OkMeansEnrolled' /\ Virgin' /\ KeysAreApart'
  BY <1>1, <1>6, ChipFrame
<1>9. SignedByRow'
  BY <1>1 DEF SignedByRow
<1>10. ReportedVersionIsOwn'
  BY <1>3, <1>4, <1>5, <1>6 DEF ReportedVersionIsOwn, Registered
<1>11. Session' /\ Installed'
  BY <1>1 DEF Session, Installed, webVars, usb
<1> QED
  BY <1>7, <1>8, <1>9, <1>10, <1>11

LEMMA HubRestartKeepsIInv == ASSUME IInv, HubRestart PROVE IInv'
<1> USE DEF IInv
<1>1. /\ msg' = Nothing /\ UNCHANGED <<devices, plugged, image, nvs, writer, result>>
      /\ UNCHANGED <<sessionFw, page>>
      /\ session' = [t \in Tokens |-> IF Known(t) THEN "lost" ELSE session[t]]
  BY DEF HubRestart, WebRestart, usb
<1>2. ASSUME NEW r \in Requests
      PROVE  /\ call'[r] \in [pc : Steps, i : Nat, id : Chips \cup {Nothing}]
             /\ call'[r].i = call[r].i
             /\ call'[r].pc = call[r].pc \/ call'[r].pc = "over"
             /\ call'[r].id = call[r].id
  <2>1. call[r] \in [pc : Steps, i : Nat, id : Chips \cup {Nothing}]
    BY DEF ProvTypeOK
  <2>2. /\ [call[r] EXCEPT !.pc = "over"] \in [pc : Steps, i : Nat, id : Chips \cup {Nothing}]
        /\ [call[r] EXCEPT !.pc = "over"].pc = "over"
        /\ [call[r] EXCEPT !.pc = "over"].i = call[r].i
        /\ [call[r] EXCEPT !.pc = "over"].id = call[r].id
    BY <2>1 DEF Steps
  <2>3. call'[r] = call[r] \/ call'[r] = [call[r] EXCEPT !.pc = "over"]
    BY DEF HubRestart
  <2> QED
    BY <2>1, <2>2, <2>3
<1>3. call' \in [Requests -> [pc : Steps, i : Nat, id : Chips \cup {Nothing}]]
  BY <1>2 DEF HubRestart
<1>4. ASSUME NEW t \in Tokens
      PROVE  /\ session'[t] \in {session[t], "lost"}
             /\ session'[t] \in {"none", "live", "old", "collected", "lost"}
             /\ session'[t] = "lost" <=> Known(t) \/ session[t] = "lost"
  BY <1>1 DEF ProvTypeOK, WebTypeOK, Known
<1>5. ProvTypeOK'
  <2>1. WebTypeOK'
    BY <1>1, <1>4 DEF ProvTypeOK, WebTypeOK
  <2>2. \A r \in Requests : call'[r].i \in 1..Names[r]
    BY <1>2 DEF ProvTypeOK
  <2> QED
    BY <1>1, <1>3, <2>1, <2>2 DEF ProvTypeOK
<1>6. Fresh'
  <2>1. \A q \in Requests : \A k \in 1..Names[q] :
           (Unused(q, k)' => Unused(q, k)) /\ (Unsettled(q, k)' => Unsettled(q, k))
    BY <1>2 DEF Unused, Unsettled
  <2> QED
    BY <1>1, <2>1 DEF Fresh, Registered
<1>7. OnPort'
  <2>1. \A r \in Requests : Current(r)' = Current(r)
    BY <1>2 DEF Current
  <2> QED
    BY <1>1, <1>2, <2>1 DEF OnPort
<1>8. NoTokenRow' /\ RowMatchesChip' /\ OkMeansEnrolled' /\ ReportedVersionIsOwn' /\ SignedByRow'
  BY <1>1 DEF NoTokenRow, RowMatchesChip, OkMeansEnrolled, ReportedVersionIsOwn, SignedByRow,
     Registered
<1>9. Session' /\ Installed'
  BY <1>1, <1>4 DEF Session, Installed, Known
<1>10. Virgin' /\ KeysAreApart'
  <2>1. \A q \in Requests : \A k \in 1..Names[q] : Unwritten(q, k)' => Unwritten(q, k)
    BY <1>2 DEF Unwritten
  <2> QED
    BY <1>1, <2>1 DEF Virgin, KeysAreApart, Registered
<1> QED
  BY <1>5, <1>6, <1>7, <1>8, <1>9, <1>10

-----------------------------------------------------------------------------
(* Web sessions.                                                            *)

\* Of the chips only Installed speaks of a session: it is over by then.
LEMMA WebFrame ==
    ASSUME IInv, UNCHANGED <<devices, usb, runs, msg>>,
           WebTypeOK', Session',
           \A t \in Tokens : page[t].pc = "complete" =>
               page'[t].pc = "complete" /\ sessionFw'[t] = sessionFw[t]
    PROVE  IInv'
<1> USE DEF IInv, usb, runs
<1>1. ProvTypeOK'
  BY DEF ProvTypeOK
<1>2. Fresh' /\ OnPort' /\ NoTokenRow' /\ RowMatchesChip' /\ OkMeansEnrolled' /\ Virgin' /\ KeysAreApart'
  BY ChipFrame DEF Registered
<1>3. SignedByRow' /\ ReportedVersionIsOwn' /\ Installed'
  BY DEF SignedByRow, ReportedVersionIsOwn, Installed, Registered
<1> QED
  BY <1>1, <1>2, <1>3

LEMMA PrepareKeepsSession ==
    ASSUME WebTypeOK, Session, NEW t \in Tokens, Prepare(t)
    PROVE  /\ WebTypeOK' /\ Session'
           /\ \A u \in Tokens : page[u].pc = "complete" =>
                 page'[u].pc = "complete" /\ sessionFw'[u] = sessionFw[u]
<1> DEFINE new == [page[t] EXCEPT !.pc = "manifest"]
<1>1. PICK v \in Versions : sessionFw' = [sessionFw EXCEPT ![t] = v]
  BY DEF Prepare
<1>2. page[t].pc = "idle"
  BY DEF Session, Prepare, WebTypeOK
<1>3. /\ new \in [pc : {"idle", "manifest", "image", "nvs", "complete", "refused", "failed"},
                  label : Versions \cup {NoVersion}, fw : Versions \cup {NoVersion}]
      /\ new.pc = "manifest"
  BY DEF WebTypeOK
<1>4. page' = [page EXCEPT ![t] = new] /\ session' = [session EXCEPT ![t] = "live"]
  BY DEF Prepare
<1> HIDE DEF new
<1>5. WebTypeOK'
  BY <1>1, <1>3, <1>4 DEF WebTypeOK
<1>6. /\ page'[t].pc = "manifest" /\ session'[t] = "live" /\ sessionFw'[t] = v
      /\ \A u \in Tokens : u # t =>
            page'[u] = page[u] /\ session'[u] = session[u] /\ sessionFw'[u] = sessionFw[u]
  BY <1>1, <1>3, <1>4 DEF WebTypeOK
<1>7. Session'
  BY <1>4, <1>6 DEF Session
<1> QED
  BY <1>2, <1>5, <1>6, <1>7

\* Time passes for a session, or the collector comes.
LEMMA AgeingKeepsSession ==
    ASSUME WebTypeOK, Session,
           CollectSessions \/ \E t \in Tokens : Turns30(t)
    PROVE  /\ WebTypeOK' /\ Session'
           /\ UNCHANGED <<page, sessionFw>>
<1>1. /\ UNCHANGED <<page, sessionFw>>
      /\ session' \in [Tokens -> {"none", "live", "old", "collected", "lost"}]
  BY DEF CollectSessions, Turns30, WebTypeOK
<1>2. \A t \in Tokens : session[t] # "none" => session'[t] # "none"
  BY DEF CollectSessions, Turns30, WebTypeOK
<1> QED
  BY <1>1, <1>2 DEF WebTypeOK, Session

\* A request of a page.
LEMMA PageStepKeepsSession ==
    ASSUME WebTypeOK, Session, NEW t \in Tokens,
           \/ FetchManifest(t) \/ FetchFirmware(t) \/ FirmwareGone(t)
           \/ FetchNVS(t) \/ Refuse(t)
    PROVE  /\ WebTypeOK' /\ Session'
           /\ sessionFw' = sessionFw
           /\ \A u \in Tokens : page[u].pc = "complete" => page'[u].pc = "complete"
<1> DEFINE Pages == [pc : {"idle", "manifest", "image", "nvs", "complete", "refused", "failed"},
                     label : Versions \cup {NoVersion}, fw : Versions \cup {NoVersion}]
           f == sessionFw[t]
<1>1. /\ UNCHANGED <<session, sessionFw>>
      /\ page[t] \in Pages /\ f \in Versions \cup {NoVersion}
      /\ page[t].pc \in {"manifest", "image", "nvs"}
  BY DEF FetchManifest, FetchFirmware, FirmwareGone, FetchNVS, Refuse, Served, WebTypeOK
<1>2. PICK new \in Pages :
         /\ page' = [page EXCEPT ![t] = new]
         /\ \/ new.pc = "image" /\ new.label = f
            \/ new.pc = "nvs" /\ page[t].pc = "image" /\ new.fw = f /\ new.label = page[t].label
            \/ new.pc = "complete" /\ page[t].pc = "nvs"
                  /\ new.fw = page[t].fw /\ new.label = page[t].label
            \/ new.pc = "failed"
            \/ new.pc = "refused" /\ ~Known(t)
  <2>1. CASE FetchManifest(t)
    <3>1. page' = [page EXCEPT ![t] = [page[t] EXCEPT !.pc = "image", !.label = f]]
      BY <2>1 DEF FetchManifest, Served
    <3>2. /\ [page[t] EXCEPT !.pc = "image", !.label = f] \in Pages
          /\ [page[t] EXCEPT !.pc = "image", !.label = f].pc = "image"
          /\ [page[t] EXCEPT !.pc = "image", !.label = f].label = f
      BY <1>1
    <3> QED
      BY <3>1, <3>2
  <2>2. CASE FetchFirmware(t)
    <3>1. page' = [page EXCEPT ![t] = [page[t] EXCEPT !.pc = "nvs", !.fw = f]] /\ page[t].pc = "image"
      BY <2>2 DEF FetchFirmware, Served
    <3>2. /\ [page[t] EXCEPT !.pc = "nvs", !.fw = f] \in Pages
          /\ [page[t] EXCEPT !.pc = "nvs", !.fw = f].pc = "nvs"
          /\ [page[t] EXCEPT !.pc = "nvs", !.fw = f].fw = f
          /\ [page[t] EXCEPT !.pc = "nvs", !.fw = f].label = page[t].label
      BY <1>1
    <3> QED
      BY <3>1, <3>2
  <2>3. CASE FirmwareGone(t)
    <3>1. page' = [page EXCEPT ![t] = [page[t] EXCEPT !.pc = "failed"]]
      BY <2>3 DEF FirmwareGone, Served
    <3>2. /\ [page[t] EXCEPT !.pc = "failed"] \in Pages
          /\ [page[t] EXCEPT !.pc = "failed"].pc = "failed"
      BY <1>1
    <3> QED
      BY <3>1, <3>2
  <2>4. CASE FetchNVS(t)
    <3>1. page' = [page EXCEPT ![t] = [page[t] EXCEPT !.pc = "complete"]] /\ page[t].pc = "nvs"
      BY <2>4 DEF FetchNVS, Served
    <3>2. /\ [page[t] EXCEPT !.pc = "complete"] \in Pages
          /\ [page[t] EXCEPT !.pc = "complete"].pc = "complete"
          /\ [page[t] EXCEPT !.pc = "complete"].fw = page[t].fw
          /\ [page[t] EXCEPT !.pc = "complete"].label = page[t].label
      BY <1>1
    <3> QED
      BY <3>1, <3>2
  <2>5. CASE Refuse(t)
    <3>1. page' = [page EXCEPT ![t] = [page[t] EXCEPT !.pc = "refused"]] /\ ~Known(t)
      BY <2>5 DEF Refuse
    <3>2. /\ [page[t] EXCEPT !.pc = "refused"] \in Pages
          /\ [page[t] EXCEPT !.pc = "refused"].pc = "refused"
      BY <1>1
    <3> QED
      BY <3>1, <3>2
  <2> QED
    BY <2>1, <2>2, <2>3, <2>4, <2>5
<1>3. session[t] # "none" /\ f \in Versions
  BY <1>1 DEF Session
<1>4. page'[t] = new /\ \A u \in Tokens : u # t => page'[u] = page[u]
  BY <1>2 DEF WebTypeOK
<1>5. WebTypeOK'
  BY <1>1, <1>2 DEF WebTypeOK
<1>6. page[t].pc \in {"image", "nvs"} => page[t].label = f
  BY DEF Session
<1>7. page[t].pc = "nvs" => page[t].fw = f
  BY DEF Session
<1> HIDE DEF Pages
<1>8. Session'
  <2> SUFFICES ASSUME NEW u \in Tokens
               PROVE  /\ page'[u].pc # "idle" => session[u] # "none" /\ sessionFw[u] \in Versions
                      /\ page'[u].pc \in {"image", "nvs", "complete"} => page'[u].label = sessionFw[u]
                      /\ page'[u].pc \in {"nvs", "complete"} => page'[u].fw = sessionFw[u]
    BY <1>1 DEF Session
  <2>1. CASE u = t
    BY <1>2, <1>3, <1>4, <1>6, <1>7, <2>1 DEF Session
  <2>2. CASE u # t
    BY <1>4, <2>2 DEF Session
  <2> QED
    BY <2>1, <2>2
<1> QED
  BY <1>1, <1>4, <1>5, <1>8

LEMMA WebHandlersKeepIInv == ASSUME IInv, WebHandlers PROVE IInv'
<1>1. /\ WebTypeOK /\ Session
      /\ WebNext /\ UNCHANGED <<devices, usb, runs, msg>>
  BY DEF IInv, ProvTypeOK, WebHandlers
<1>2. CASE CollectSessions \/ \E t \in Tokens : Turns30(t)
  <2>1. WebTypeOK' /\ Session' /\ UNCHANGED <<page, sessionFw>>
    BY <1>1, <1>2, AgeingKeepsSession
  <2> QED
    BY <1>1, <2>1, WebFrame
<1>3. ASSUME NEW t \in Tokens, Prepare(t) PROVE IInv'
  <2>1. /\ WebTypeOK' /\ Session'
        /\ \A u \in Tokens : page[u].pc = "complete" =>
              page'[u].pc = "complete" /\ sessionFw'[u] = sessionFw[u]
    BY <1>1, <1>3, PrepareKeepsSession
  <2> QED
    BY <1>1, <2>1, WebFrame
<1>4. ASSUME NEW t \in Tokens,
             \/ FetchManifest(t) \/ FetchFirmware(t) \/ FirmwareGone(t)
             \/ FetchNVS(t) \/ Refuse(t)
      PROVE  IInv'
  <2>1. /\ WebTypeOK' /\ Session' /\ sessionFw' = sessionFw
        /\ \A u \in Tokens : page[u].pc = "complete" => page'[u].pc = "complete"
    BY <1>1, <1>4, PageStepKeepsSession
  <2> QED
    BY <1>1, <2>1, WebFrame
<1> QED
  BY <1>1, <1>2, <1>3, <1>4 DEF WebNext

-----------------------------------------------------------------------------
(* The theorems.                                                            *)

LEMMA NextKeepsIInv == ASSUME IInv, [ProvNext]_provVars PROVE IInv'
<1>1. CASE UNCHANGED provVars
  <2>1. WebTypeOK' /\ Session' /\ UNCHANGED <<page, sessionFw>>
    BY <1>1 DEF IInv, ProvTypeOK, WebTypeOK, Session, provVars, webVars
  <2> QED
    BY <1>1, <2>1, WebFrame DEF provVars
<1>2. ASSUME NEW r \in Requests, Flashing(r) PROVE IInv'
  BY <1>2, StartFlashKeepsIInv, ReadChipKeepsIInv, WriteImageKeepsIInv, WriteNVSKeepsIInv,
     RegisterKeepsIInv DEF Flashing
<1>3. ASSUME NEW c \in Chips, PlugIn(c) \/ RemoveDevice(c) PROVE IInv'
  BY <1>3, PlugInKeepsIInv, RemoveDeviceKeepsIInv
<1>4. ASSUME NEW c \in Chips, NEW t \in Tokens, BrowserFlash(c, t) PROVE IInv'
  BY <1>4, BrowserFlashKeepsIInv
<1>5. ASSUME NEW c \in Chips, NEW b \in Bundles, Authenticate(c, b) PROVE IInv'
  BY <1>5, AuthenticateKeepsIInv
<1>6. CASE HandleCheck \/ HubRestart \/ WebHandlers
  BY <1>6, HandleCheckKeepsIInv, HubRestartKeepsIInv, WebHandlersKeepIInv
<1> QED
  BY <1>1, <1>2, <1>3, <1>4, <1>5, <1>6 DEF ProvNext

\* Every reachable state satisfies the inductive invariant.
THEOREM Invariance == ProvSpec => []IInv
  BY InitIInv, NextKeepsIInv, PTL DEF ProvSpec

\* The state keeps its types; the loop over the names of a request never goes
\* past its last one (runFlash).
THEOREM TypeCorrect == ProvSpec => []ProvTypeOK
<1>1. IInv => ProvTypeOK
  BY DEF IInv
<1> QED
  BY <1>1, Invariance, PTL

\* A row is never ahead of its chip: a chip nobody else wrote to since the
\* attempt that registered it, and that stayed on the port during the attempt,
\* holds the key of its row (FlashDevice writes the NVS partition before
\* CreateDevice).
THEOREM RowMatchesItsChip == ProvSpec => []RowMatchesChip
<1>1. IInv => RowMatchesChip
  BY DEF IInv
<1> QED
  BY <1>1, Invariance, PTL

\* An attempt reported "ok" has its row in the table until a user deletes it:
\* nothing else takes or replaces a row (FlashDevice, CreateDevice,
\* DeleteDevice).
THEOREM OkIsEnrolled == ProvSpec => []OkMeansEnrolled
<1>1. IInv => OkMeansEnrolled
  BY DEF IInv
<1> QED
  BY <1>1, Invariance, PTL

\* Neither two rows nor two chips share a key, except the chips that got the
\* parts of one browser session (FlashDevice draws the key of each name anew,
\* and writes it to the chip on the port once).
THEOREM KeysStayApart == ProvSpec => []KeysAreApart
<1>1. IInv => KeysAreApart
  BY DEF IInv
<1> QED
  BY <1>1, Invariance, PTL

\* The version a row shows was reported under the row's own key, or is that of
\* the flashing, or of a report that a deletion overtook (handleCheck,
\* UpdateDeviceFWVersion).
THEOREM VersionIsOwn == ProvSpec => []ReportedVersionIsOwn
<1>1. IInv => ReportedVersionIsOwn
  BY DEF IInv
<1> QED
  BY <1>1, Invariance, PTL

\* A chip flashed by a browser runs the version of its session, the one its
\* manifest announced (webFlashManifest, webFlashFirmware).
THEOREM InstalledIsPrepared == ProvSpec => []InstalledAsPrepared
<1>1. IInv => InstalledAsPrepared
  <2> SUFFICES ASSUME IInv, NEW c \in Chips, nvs[c] \in Tokens, writer[c] = nvs[c]
               PROVE  /\ image[c] = [at |-> "slot", fw |-> sessionFw[nvs[c]]]
                      /\ image[c].fw = page[nvs[c]].label
    BY DEF InstalledAsPrepared
  <2>1. page[nvs[c]].pc = "complete" /\ image[c] = [at |-> "slot", fw |-> sessionFw[nvs[c]]]
    BY DEF IInv, Installed
  <2>2. page[nvs[c]].label = sessionFw[nvs[c]]
    BY <2>1 DEF IInv, Session
  <2> QED
    BY <2>1, <2>2
<1> QED
  BY <1>1, Invariance, PTL
=============================================================================
