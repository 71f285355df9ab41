------------------------------ MODULE BootProofs ------------------------------
(***************************************************************************)
(* The chain of connection attempts of Boot, for every number of retries,  *)
(* configuration and bound on the events: what its steps keep.  The        *)
(* theorems about the device are DeviceProofs'.                            *)
(***************************************************************************)
EXTENDS Boot, SequenceTheorems, TLAPS

\* The handler's counter against the disconnections since the last address.
Counted == retries = IF drops > WIFI_MAX_RETRIES THEN WIFI_MAX_RETRIES ELSE drops

\* Before the radio is on nothing has happened.
Silence ==
    /\ boot \in {"off", "started"} => link = "off"
    /\ link = "off" => events = <<>> /\ drops = 0 /\ bits = {}
    /\ testing => tested
    /\ tested => link # "off"

\* An idle station has an event waiting that connects it again, behind whatever
\* else waits, or it has used up its retries.
Chain ==
    link = "idle" =>
        IF events = <<>> THEN drops > WIFI_MAX_RETRIES
        ELSE events[Len(events)] \in {"start", "disconnected"}

\* Without wifi_test and Matter's manager every event is answered before the
\* next attempt.
Orderly ==
    ~tested /\ boot # "matter" =>
        /\ link \in {"connecting", "associated"} => events = <<>>
        /\ link = "up" => events \in {<<>>, <<"ip">>}
        /\ link = "idle" => events \in {<<>>, <<"start">>, <<"disconnected">>, <<"ip", "disconnected">>}
        /\ "fail" \in bits => link = "idle" /\ events = <<>>

\* What the verdict on WiFi was based on.
Verdict ==
    /\ boot = "console" <=> why # "none"
    /\ why = "no ssid" => link = "off"
    /\ why = "gave up" /\ ~tested => "fail" \in bits

BootInv == BootTypeOK /\ Counted /\ Silence /\ Chain /\ Orderly /\ Verdict

LEMMA EventQueues ==
  LET E == {"start", "disconnected", "ip"} IN
  /\ <<>> \in Seq(E) /\ <<"start">> \in Seq(E)
  /\ \A q \in Seq(E) : /\ q # <<>> => Tail(q) \in Seq(E)
                        /\ \A e \in E : Append(q, e) \in Seq(E)
  OBVIOUS

LEMMA ShortQueues ==
  ASSUME NEW a, NEW e
  PROVE  Append(<<>>, e) = <<e>> /\ Append(<<a>>, e) = <<a, e>>
  <1> DEFINE S == {a, e}
  <1>1. <<>> \in Seq(S) /\ <<a>> \in Seq(S) /\ <<e>> \in Seq(S) /\ <<a, e>> \in Seq(S) /\ e \in S
    OBVIOUS
  <1>2. Append(<<>>, e) = <<e>>
    <2>1. Append(<<>>, e) \in Seq(S) /\ Len(Append(<<>>, e)) = 1 /\ Append(<<>>, e)[1] = e
      BY <1>1
    <2>2. Len(<<e>>) = 1 /\ \A i \in 1..1 : Append(<<>>, e)[i] = <<e>>[i]
      BY <2>1
    <2> QED
      BY <1>1, <2>1, <2>2, SeqEqual
  <1>3. Append(<<a>>, e) = <<a, e>>
    <2>1. /\ Append(<<a>>, e) \in Seq(S) /\ Len(Append(<<a>>, e)) = 2
          /\ Append(<<a>>, e)[1] = a /\ Append(<<a>>, e)[2] = e
      BY <1>1
    <2>2. Len(<<a, e>>) = 2 /\ \A i \in 1..2 : Append(<<a>>, e)[i] = <<a, e>>[i]
      <3>1. \A i \in 1..2 : i = 1 \/ i = 2
        OBVIOUS
      <3> QED
        BY <2>1, <3>1
    <2> QED
      BY <1>1, <2>1, <2>2, SeqEqual
  <1> QED
    BY <1>2, <1>3

LEMMA BootInvShows ==
  ASSUME BootInv
  PROVE  SilentMeansGaveUp /\ OnlineWithoutMatter
  <1>1. SilentMeansGaveUp
    BY DEF BootInv, Chain, SilentMeansGaveUp
  <1>2. OnlineWithoutMatter
    BY DEF BootInv, BootTypeOK, Orderly, Verdict, OnlineWithoutMatter
  <1> QED
    BY <1>1, <1>2

LEMMA InitBootInv ==
  ASSUME InitBoot
  PROVE  BootInv
  <1>1. BootTypeOK
    <2>1. cfg \in Configuration /\ 0 \in 0..WIFI_MAX_RETRIES /\ 0 \in 0..(WIFI_MAX_RETRIES + 1)
      BY BootAssumption DEF InitBoot
    <2> QED
      BY <2>1, EventQueues DEF InitBoot, BootTypeOK
  <1>2. Counted /\ Silence /\ Chain /\ Orderly /\ Verdict
    BY BootAssumption DEF InitBoot, Counted, Silence, Chain, Orderly, Verdict
  <1> QED
    BY <1>1, <1>2 DEF BootInv

LEMMA ResetKeepsBootInv ==
  ASSUME BootInv, NEW n \in Configuration, Reset(n)
  PROVE  BootInv'
  <1>1. BootTypeOK'
    <2>1. 0 \in 0..WIFI_MAX_RETRIES /\ 0 \in 0..(WIFI_MAX_RETRIES + 1)
      BY BootAssumption
    <2> QED
      BY <2>1, EventQueues DEF Reset, BootTypeOK
  <1>2. Counted' /\ Silence' /\ Chain' /\ Orderly' /\ Verdict'
    BY BootAssumption DEF Reset, Counted, Silence, Chain, Orderly, Verdict
  <1> QED
    BY <1>1, <1>2 DEF BootInv

LEMMA StartKeepsBootInv ==
  ASSUME BootInv, Start
  PROVE  BootInv'
  <1>1. cfg' \in Configuration
    <2>1. Erased \in Configuration
      BY DEF Erased, Configuration
    <2> QED
      BY <2>1 DEF BootInv, BootTypeOK, Start
  <1>2. BootTypeOK'
    BY <1>1 DEF BootInv, BootTypeOK, Start
  <1>3. link = "off" /\ link' = "off"
    BY DEF BootInv, Silence, Start
  <1>4. Counted' /\ Silence' /\ Chain' /\ Orderly' /\ Verdict'
    BY <1>3 DEF BootInv, Start, Counted, Silence, Chain, Orderly, Verdict
  <1> QED
    BY <1>2, <1>4 DEF BootInv

LEMMA StartWifiKeepsBootInv ==
  ASSUME BootInv, StartWifi
  PROVE  BootInv'
  <1>1. link = "off" /\ drops = 0 /\ ~tested /\ ~testing
    BY DEF BootInv, Silence, StartWifi
  <1>2. BootTypeOK'
    <2>1. 0 \in 0..WIFI_MAX_RETRIES
      BY BootAssumption
    <2> QED
      BY <2>1, EventQueues DEF BootInv, BootTypeOK, StartWifi
  <1>3. Counted' /\ Silence'
    BY <1>1, BootAssumption DEF BootInv, StartWifi, Counted, Silence
  <1>4. Chain'
    BY DEF StartWifi, Chain
  <1>5. Orderly' /\ Verdict'
    BY <1>1 DEF BootInv, StartWifi, Orderly, Verdict
  <1> QED
    BY <1>2, <1>3, <1>4, <1>5 DEF BootInv

LEMMA AppMainKeepsBootInv ==
  ASSUME BootInv, AppMain
  PROVE  BootInv'
  <1>1. CASE StartWifi
    BY <1>1, StartWifiKeepsBootInv
  <1>2. CASE Wait \/ Timeout \/ StartMatter
    <2>1. /\ UNCHANGED <<cfg, link, events, retries, bits, testing, tested, drops>>
          /\ boot \in {"starting", "wait", "address"}
          /\ boot' \in {"wait", "address", "matter", "console"}
          /\ boot' = "console" <=> why' # "none"
          /\ why' \in {"none", "gave up", "timeout", "failed"}
          /\ why' = "gave up" => bits # {} /\ "connected" \notin bits
      BY <1>2 DEF BootInv, Verdict, Wait, Timeout, StartMatter, Decide
    <2>2. BootTypeOK'
      BY <2>1 DEF BootInv, BootTypeOK
    <2>3. Counted' /\ Silence' /\ Chain' /\ Orderly'
      BY <2>1 DEF BootInv, Counted, Silence, Chain, Orderly
    <2>4. Verdict'
      BY <2>1 DEF BootInv, BootTypeOK, Verdict
    <2> QED
      BY <2>2, <2>3, <2>4 DEF BootInv
  <1> QED
    BY <1>1, <1>2 DEF AppMain

\* Taking the first event leaves the last one, if there is another.
LEMMA TakeFacts ==
  ASSUME BootTypeOK, NEW e \in {"start", "disconnected", "ip"}, Take(e)
  PROVE  /\ events' \in Seq({"start", "disconnected", "ip"})
         /\ events # <<>>
         /\ events' # <<>> => events'[Len(events')] = events[Len(events)]
         /\ events' = <<>> => events[Len(events)] = e
         /\ \A f \in {"start", "disconnected", "ip"} :
               /\ events = <<f>> => f = e /\ events' = <<>>
               /\ events = <<f, "disconnected">> => f = e /\ events' = <<"disconnected">>
  <1>1. /\ events \in Seq({"start", "disconnected", "ip"}) /\ events # <<>>
        /\ Head(events) = e /\ events' = Tail(events)
    BY DEF BootTypeOK, Take
  <1>2. events' \in Seq({"start", "disconnected", "ip"}) /\ Len(events') = Len(events) - 1
    BY <1>1
  <1>3. events' # <<>> => events'[Len(events')] = events[Len(events)]
    BY <1>1, <1>2
  <1>4. events' = <<>> => events[Len(events)] = e
    <2>1. events' = <<>> => Len(events) = 1
      BY <1>1, <1>2
    <2> QED
      BY <1>1, <2>1
  <1>5. ASSUME NEW f \in {"start", "disconnected", "ip"}
        PROVE  /\ events = <<f>> => f = e /\ events' = <<>>
               /\ events = <<f, "disconnected">> => f = e /\ events' = <<"disconnected">>
    <2>1. Head(<<f>>) = f /\ Tail(<<f>>) = <<>>
      OBVIOUS
    <2>2. Head(<<f, "disconnected">>) = f /\ Tail(<<f, "disconnected">>) = <<"disconnected">>
      OBVIOUS
    <2> QED
      BY <1>1, <2>1, <2>2
  <1> QED
    BY <1>1, <1>2, <1>3, <1>4, <1>5

LEMMA HandleStartKeepsBootInv ==
  ASSUME BootInv, HandleStart
  PROVE  BootInv'
  <1>1. BootTypeOK /\ Take("start") /\ link' = (IF link = "idle" THEN "connecting" ELSE link)
    BY DEF BootInv, HandleStart, Connect
  <1>2. UNCHANGED <<cfg, boot, retries, bits, testing, why, tested, drops>>
    BY DEF HandleStart
  <1>3. /\ events' \in Seq({"start", "disconnected", "ip"}) /\ events # <<>>
        /\ \A f \in {"start", "disconnected", "ip"} :
               /\ events = <<f>> => f = "start" /\ events' = <<>>
               /\ events = <<f, "disconnected">> => f = "start" /\ events' = <<"disconnected">>
    BY <1>1, TakeFacts
  <1>4. BootTypeOK'
    BY <1>1, <1>2, <1>3 DEF BootTypeOK
  <1>5. Counted' /\ Silence' /\ Chain' /\ Verdict'
    BY <1>1, <1>2, <1>3 DEF BootInv, Counted, Silence, Chain, Verdict
  <1>6. Orderly'
    BY <1>1, <1>2, <1>3 DEF BootInv, Orderly, BootTypeOK
  <1> QED
    BY <1>4, <1>5, <1>6 DEF BootInv

\* What setting a bit makes of the verdict.
LEMMA SetBitsFacts ==
  ASSUME BootInv, NEW b \in {"connected", "fail"}, SetBits(b)
  PROVE  /\ bits' = bits \cup {b}
         /\ boot' \in {boot, "address", "console"}
         /\ boot' # boot => boot = "wait"
         /\ boot' = "console" <=> why' # "none"
         /\ why' # why => why' = "gave up" /\ b = "fail"
         /\ why' \in {"none", "no ssid", "gave up", "timeout", "failed"}
  BY DEF BootInv, BootTypeOK, Verdict, SetBits, Decide

LEMMA HandleDisconnectedKeepsBootInv ==
  ASSUME BootInv, HandleDisconnected
  PROVE  BootInv'
  <1>1. BootTypeOK /\ Take("disconnected") /\ UNCHANGED <<cfg, testing, tested>>
    BY DEF BootInv, HandleDisconnected
  <1>2. /\ events' \in Seq({"start", "disconnected", "ip"}) /\ events # <<>>
        /\ events' # <<>> => events'[Len(events')] = events[Len(events)]
        /\ \A f \in {"start", "disconnected", "ip"} :
               /\ events = <<f>> => f = "disconnected" /\ events' = <<>>
               /\ events = <<f, "disconnected">> => f = "disconnected" /\ events' = <<"disconnected">>
    BY <1>1, TakeFacts
  <1>3. /\ drops' = IF drops <= WIFI_MAX_RETRIES THEN drops + 1 ELSE drops
        /\ WIFI_MAX_RETRIES \in Nat /\ drops \in 0..(WIFI_MAX_RETRIES + 1)
        /\ retries \in 0..WIFI_MAX_RETRIES
    BY <1>1, BootAssumption DEF HandleDisconnected, BootTypeOK
  <1>4. CASE retries < WIFI_MAX_RETRIES
    <2>1. /\ link' = (IF link = "idle" THEN "connecting" ELSE link)
          /\ retries' = retries + 1 /\ UNCHANGED <<bits, boot, why>>
      BY <1>4 DEF HandleDisconnected, Connect
    <2>2. drops' \in 0..(WIFI_MAX_RETRIES + 1) /\ retries' \in 0..WIFI_MAX_RETRIES /\ Counted'
      BY <1>3, <1>4, <2>1 DEF BootInv, Counted
    <2>3. BootTypeOK'
      BY <1>1, <1>2, <2>1, <2>2 DEF BootTypeOK
    <2>4. Silence' /\ Chain' /\ Verdict'
      BY <1>1, <1>2, <2>1 DEF BootInv, Silence, Chain, Verdict
    <2>5. Orderly'
      BY <1>1, <1>2, <2>1 DEF BootInv, Orderly, BootTypeOK
    <2> QED
      BY <2>2, <2>3, <2>4, <2>5 DEF BootInv
  <1>5. CASE ~(retries < WIFI_MAX_RETRIES)
    <2>1. SetBits("fail") /\ UNCHANGED <<link, retries>>
      BY <1>5 DEF HandleDisconnected
    <2>2. /\ drops' \in 0..(WIFI_MAX_RETRIES + 1) /\ drops' > WIFI_MAX_RETRIES
          /\ Counted'
      BY <1>3, <1>5, <2>1 DEF BootInv, Counted
    <2>3. /\ bits' = bits \cup {"fail"}
          /\ boot' \in {boot, "address", "console"}
          /\ boot' # boot => boot = "wait"
          /\ boot' = "console" <=> why' # "none"
          /\ why' # why => why' = "gave up"
          /\ why' \in {"none", "no ssid", "gave up", "timeout", "failed"}
      BY <2>1, SetBitsFacts
    <2>4. BootTypeOK'
      BY <1>1, <1>2, <2>1, <2>2, <2>3 DEF BootTypeOK
    <2>5. Silence' /\ Chain' /\ Verdict'
      BY <1>1, <1>2, <2>1, <2>2, <2>3 DEF BootInv, BootTypeOK, Silence, Chain, Verdict
    <2>6. Orderly'
      BY <1>1, <1>2, <2>1, <2>3 DEF BootInv, Orderly, Silence, BootTypeOK
    <2> QED
      BY <2>2, <2>4, <2>5, <2>6 DEF BootInv
  <1> QED
    BY <1>4, <1>5

LEMMA HandleIPKeepsBootInv ==
  ASSUME BootInv, HandleIP
  PROVE  BootInv'
  <1>1. /\ BootTypeOK /\ Take("ip") /\ UNCHANGED <<cfg, link, testing, tested>>
        /\ retries' = 0 /\ drops' = 0 /\ SetBits("connected")
    BY DEF BootInv, HandleIP
  <1>2. /\ events' \in Seq({"start", "disconnected", "ip"}) /\ events # <<>>
        /\ events' # <<>> => events'[Len(events')] = events[Len(events)]
        /\ events' = <<>> => events[Len(events)] = "ip"
        /\ \A f \in {"start", "disconnected", "ip"} :
               /\ events = <<f>> => f = "ip" /\ events' = <<>>
               /\ events = <<f, "disconnected">> => f = "ip" /\ events' = <<"disconnected">>
    BY <1>1, TakeFacts
  <1>3. /\ bits' = bits \cup {"connected"}
        /\ boot' \in {boot, "address", "console"}
        /\ boot' # boot => boot = "wait"
        /\ boot' = "console" <=> why' # "none"
        /\ why' = why
        /\ why' \in {"none", "no ssid", "gave up", "timeout", "failed"}
    BY <1>1, SetBitsFacts
  <1>4. 0 \in 0..WIFI_MAX_RETRIES /\ 0 \in 0..(WIFI_MAX_RETRIES + 1) /\ Counted'
    BY <1>1, BootAssumption DEF Counted
  <1>5. BootTypeOK'
    BY <1>1, <1>2, <1>3, <1>4 DEF BootTypeOK
  <1>6. Silence' /\ Chain' /\ Verdict'
    BY <1>1, <1>2, <1>3 DEF BootInv, BootTypeOK, Silence, Chain, Verdict
  <1>7. Orderly'
    BY <1>1, <1>2, <1>3 DEF BootInv, Orderly, BootTypeOK
  <1> QED
    BY <1>4, <1>5, <1>6, <1>7 DEF BootInv

LEMMA DriverKeepsBootInv ==
  ASSUME BootInv, Driver
  PROVE  BootInv'
  <1>1. BootTypeOK /\ events \in Seq({"start", "disconnected", "ip"})
    BY DEF BootInv, BootTypeOK
  <1>2. UNCHANGED <<cfg, boot, retries, bits, testing, why, tested, drops>>
    BY DEF Driver, Post
  <1>3. \/ link = "connecting" /\ link' = "associated" /\ events' = events
        \/ link = "associated" /\ link' = "up" /\ events' = Append(events, "ip")
        \/ link \in {"connecting", "associated", "up"} /\ link' = "idle" /\ events' = Append(events, "disconnected")
        \/ boot = "matter" /\ link = "idle" /\ link' = "connecting" /\ events' = events
    <2>1. events \o <<>> = events
      BY <1>1
    <2>2. \A e \in {"ip", "disconnected"} : events \o <<e>> = Append(events, e)
      BY <1>1
    <2> QED
      BY <2>1, <2>2 DEF Driver, Post
  <1>4. events' \in Seq({"start", "disconnected", "ip"})
    BY <1>1, <1>3, EventQueues
  <1>5. BootTypeOK'
    BY <1>1, <1>2, <1>3, <1>4 DEF BootTypeOK
  <1>6. Counted' /\ Silence' /\ Verdict'
    BY <1>2, <1>3 DEF BootInv, Counted, Silence, Verdict
  <1>7. link' = "idle" => events' # <<>> /\ events'[Len(events')] = "disconnected"
    BY <1>1, <1>3
  <1>8. Chain'
    BY <1>7 DEF Chain
  <1>9. Orderly'
    <2>1. SUFFICES ASSUME ~tested, boot # "matter" PROVE Orderly'
      BY <1>2 DEF Orderly
    <2>2. /\ link \in {"connecting", "associated"} => events = <<>>
          /\ link = "up" => events \in {<<>>, <<"ip">>}
          /\ "fail" \in bits => link = "idle"
      BY <2>1 DEF BootInv, Orderly
    <2>3. /\ Append(<<>>, "ip") = <<"ip">>
          /\ Append(<<>>, "disconnected") = <<"disconnected">>
          /\ Append(<<"ip">>, "disconnected") = <<"ip", "disconnected">>
      BY ShortQueues
    <2> QED
      BY <1>2, <1>3, <2>1, <2>2, <2>3 DEF Orderly
  <1> QED
    BY <1>5, <1>6, <1>8, <1>9 DEF BootInv

LEMMA WifiKeepsBootInv ==
  ASSUME BootInv, Wifi
  PROVE  BootInv'
  BY HandleStartKeepsBootInv, HandleDisconnectedKeepsBootInv, HandleIPKeepsBootInv,
     DriverKeepsBootInv DEF Wifi

LEMMA TestKeepsBootInv ==
  ASSUME BootInv, TestDisconnect \/ TestConnect
  PROVE  BootInv'
  <1>1. BootTypeOK /\ events \in Seq({"start", "disconnected", "ip"})
    BY DEF BootInv, BootTypeOK
  <1>2. CASE TestDisconnect
    <2>1. /\ UNCHANGED <<cfg, boot, retries, bits, why, drops>>
          /\ testing' = TRUE /\ tested' = TRUE /\ link # "off" /\ link' = "idle"
          /\ \/ link = "idle" /\ events' = events
             \/ events' = Append(events, "disconnected")
      BY <1>2 DEF TestDisconnect
    <2>2. events' \in Seq({"start", "disconnected", "ip"})
      BY <1>1, <2>1, EventQueues
    <2>3. BootTypeOK'
      BY <1>1, <2>1, <2>2 DEF BootTypeOK
    <2>4. Counted' /\ Silence' /\ Orderly' /\ Verdict'
      BY <2>1 DEF BootInv, Counted, Silence, Orderly, Verdict
    <2>5. Chain'
      <3>1. CASE link = "idle" /\ events' = events
        BY <2>1, <3>1 DEF BootInv, Chain
      <3>2. CASE events' = Append(events, "disconnected")
        <4>1. events' # <<>> /\ events'[Len(events')] = "disconnected"
          BY <1>1, <3>2
        <4> QED
          BY <4>1 DEF Chain
      <3> QED
        BY <2>1, <3>1, <3>2
    <2> QED
      BY <2>3, <2>4, <2>5 DEF BootInv
  <1>3. CASE TestConnect
    <2>1. /\ UNCHANGED <<cfg, boot, events, retries, bits, why, tested, drops>>
          /\ testing /\ testing' = FALSE
          /\ link' = IF link = "idle" THEN "connecting" ELSE link
      BY <1>3 DEF TestConnect, Connect
    <2>2. tested /\ link # "off" /\ link' # "off" /\ link' # "idle"
      BY <2>1 DEF BootInv, Silence
    <2>3. BootTypeOK'
      BY <1>1, <2>1 DEF BootTypeOK
    <2>4. Counted' /\ Silence' /\ Chain' /\ Orderly' /\ Verdict'
      BY <2>1, <2>2 DEF BootInv, Counted, Silence, Chain, Orderly, Verdict
    <2> QED
      BY <2>3, <2>4 DEF BootInv
  <1> QED
    BY <1>2, <1>3

LEMMA StutterKeepsBootInv ==
  ASSUME BootInv, UNCHANGED bootVars
  PROVE  BootInv'
  <1>1. UNCHANGED <<cfg, boot, link, events, retries, bits, testing, why, tested, drops>>
    BY DEF bootVars
  <1>2. BootTypeOK'
    BY <1>1 DEF BootInv, BootTypeOK
  <1>3. Counted' /\ Silence' /\ Chain' /\ Orderly' /\ Verdict'
    BY <1>1 DEF BootInv, Counted, Silence, Chain, Orderly, Verdict
  <1> QED
    BY <1>2, <1>3 DEF BootInv
=============================================================================
