--------------------------- MODULE JobStreamProofs ----------------------------
(***************************************************************************)
(* For any number of browser tabs, any capacity of their channels and any  *)
(* length of the log: the goroutine that ends a job never touches a closed *)
(* channel, and no stream is left without an end.                          *)
(*                                                                         *)
(* The argument follows a channel: it is on no list before Subscribe puts  *)
(* it on q.subs, and it leaves the lists before anybody closes it.         *)
(***************************************************************************)
EXTENDS JobStream, SequenceTheorems, TLAPS

Over == fpc \in {"settled", "closing", "end"}

\* The row and the writers against the control point of "fin".
Control ==
    /\ row \in Terminal <=> Over
    /\ fpc = "closing" <=> toClose # <<>>
    /\ fpc \in {"closing", "end"} => subs = <<>>
    /\ \A w \in Writers : targets[w] # <<>> => outbox[w] # <<>>
    /\ "fin" \notin panicked

\* What a writer still has to announce; a settled job ends with "done".
Announced ==
    /\ outbox["enq"] \in {<<>>, <<Position>>}
    /\ fpc = "new" => outbox["enq"] = <<>>
    /\ fpc = "running" => outbox["fin"] \in {<<>>, <<Status("running")>>, <<LogLine>>}
    /\ fpc = "settled" => outbox["fin"] \in {<<>>, <<Done(row)>>, <<Status(row), Done(row)>>}
    /\ fpc \notin {"running", "settled"} => outbox["fin"] = <<>>

\* Only a channel that Subscribe has registered is on a list; none that is
\* closed is on a list "fin" will work through, and none is there twice.
Lists ==
    /\ \A c \in Clients : cpc[c] \in {"idle", "attaching"} =>
          /\ ~closed[c] /\ c \notin ToSet(subs) /\ c \notin ToSet(toClose)
          /\ \A w \in Writers : c \notin ToSet(targets[w])
    /\ \A c \in Clients : closed[c] =>
          c \notin ToSet(subs) /\ c \notin ToSet(toClose) /\ c \notin ToSet(targets["fin"])
    /\ IsInjective(subs) /\ IsInjective(toClose)

\* An open channel that is read from is on a list still to be closed.
Owned ==
    \A c \in Clients : cpc[c] = "reading" /\ ~closed[c] => c \in ToSet(subs) \cup ToSet(toClose)

HasDone(s) == \E i \in DOMAIN s : s[i][1] = "done"

\* "done" has still to be sent to c.
DoneComing(c) ==
    /\ outbox["fin"] # <<>>
    /\ \/ targets["fin"] = <<>>
       \/ Len(outbox["fin"]) = 2
       \/ c \in ToSet(targets["fin"])

\* Nobody who keeps up with the stream misses its end.
Ending ==
    \A c \in Clients : cpc[c] = "reading" /\ ~dropped[c] =>
        /\ closed[c] => HasDone(chan[c])
        /\ c \in ToSet(toClose) => HasDone(chan[c])
        /\ c \in ToSet(subs) /\ fpc = "settled" => HasDone(chan[c]) \/ DoneComing(c)

IInv ==
    /\ TypeOK /\ Control /\ Announced /\ Lists /\ Owned
    /\ DoneMatchesRow /\ Ending /\ SilentEndMeansOverflow

-----------------------------------------------------------------------------
(* Lists of clients: what Append, Tail and RemoveAt do to their members.    *)

LEMMA ListFacts ==
    ASSUME NEW S, NEW s \in Seq(S)
    PROVE  /\ Len(s) \in Nat /\ DOMAIN s = 1..Len(s)
           /\ s = <<>> <=> Len(s) = 0
           /\ s = <<>> => ToSet(s) = {}
           /\ ToSet(s) \subseteq S
           /\ s # <<>> => Head(s) = s[1] /\ Head(s) \in ToSet(s)
<1>1. Len(s) \in Nat /\ DOMAIN s = 1..Len(s)
  BY LenProperties
<1>2. s = <<>> <=> Len(s) = 0
  BY EmptySeq
<1>3. ToSet(s) \subseteq S
  BY <1>1, ElementOfSeq DEF ToSet
<1>4. s # <<>> => Head(s) = s[1] /\ 1 \in 1..Len(s)
  BY <1>1, <1>2
<1> QED
  BY <1>1, <1>2, <1>3, <1>4 DEF ToSet

LEMMA AppendFacts ==
    ASSUME NEW S, NEW s \in Seq(S), NEW c \in S
    PROVE  /\ Append(s, c) \in Seq(S) /\ Append(s, c) # <<>>
           /\ Len(Append(s, c)) = Len(s) + 1
           /\ ToSet(Append(s, c)) = ToSet(s) \cup {c}
           /\ IsInjective(s) /\ c \notin ToSet(s) => IsInjective(Append(s, c))
<1> DEFINE t == Append(s, c)
<1>1. /\ t \in Seq(S) /\ t # <<>> /\ Len(t) = Len(s) + 1 /\ t[Len(s) + 1] = c
      /\ \A i \in 1..Len(s) : t[i] = s[i]
  BY AppendProperties
<1>2. Len(s) \in Nat /\ DOMAIN s = 1..Len(s) /\ DOMAIN t = 1..(Len(s) + 1)
  BY <1>1, LenProperties
<1>3. 1..(Len(s) + 1) = 1..Len(s) \cup {Len(s) + 1}
  BY <1>2
<1> HIDE DEF t
<1>4. ToSet(t) = ToSet(s) \cup {c}
  BY <1>1, <1>2, <1>3 DEF ToSet
<1>5. IsInjective(s) /\ c \notin ToSet(s) => IsInjective(t)
  BY <1>1, <1>2, <1>3 DEF ToSet, IsInjective
<1> QED
  BY <1>1, <1>4, <1>5 DEF t

LEMMA TailFacts ==
    ASSUME NEW S, NEW s \in Seq(S), s # <<>>
    PROVE  /\ Tail(s) \in Seq(S) /\ Len(Tail(s)) = Len(s) - 1
           /\ Tail(s) = <<>> <=> Len(s) = 1
           /\ ToSet(s) = ToSet(Tail(s)) \cup {Head(s)}
           /\ IsInjective(s) => IsInjective(Tail(s)) /\ Head(s) \notin ToSet(Tail(s))
<1> DEFINE t == Tail(s)
<1>1. /\ t \in Seq(S) /\ Len(t) = Len(s) - 1
      /\ \A i \in 1..Len(t) : t[i] = s[i + 1]
  BY HeadTailProperties
<1>2. /\ Len(s) \in Nat /\ Len(s) >= 1 /\ DOMAIN s = 1..Len(s)
      /\ DOMAIN t = 1..(Len(s) - 1) /\ Head(s) = s[1]
  BY <1>1, LenProperties, ListFacts
<1>3. t = <<>> <=> Len(s) = 1
  BY <1>1, <1>2, ListFacts
<1> HIDE DEF t
<1>4. /\ \A i \in 1..(Len(s) - 1) : i + 1 \in 1..Len(s) /\ i + 1 # 1 /\ t[i] = s[i + 1]
      /\ \A i \in 1..Len(s) : i = 1 \/ (i - 1 \in 1..(Len(s) - 1) /\ (i - 1) + 1 = i)
      /\ 1 \in 1..Len(s)
      /\ \A i, k \in 1..(Len(s) - 1) : i + 1 = k + 1 => i = k
  BY <1>1, <1>2
<1>5. \A i \in 1..Len(s) : i = 1 \/ (i - 1 \in 1..(Len(s) - 1) /\ t[i - 1] = s[i])
  BY <1>4
<1>6. ToSet(s) = ToSet(t) \cup {s[1]}
  <2>1. \A x \in ToSet(s) : x \in ToSet(t) \cup {s[1]}
    BY <1>2, <1>5 DEF ToSet
  <2>2. \A x \in ToSet(t) \cup {s[1]} : x \in ToSet(s)
    BY <1>2, <1>4 DEF ToSet
  <2> QED
    BY <2>1, <2>2
<1>7. ASSUME IsInjective(s) PROVE IsInjective(t)
  <2> SUFFICES ASSUME NEW a \in 1..(Len(s) - 1), NEW b \in 1..(Len(s) - 1), t[a] = t[b]
               PROVE  a = b
    BY <1>2 DEF IsInjective
  <2>1. s[a + 1] = s[b + 1]
    BY <1>4
  <2>2. a + 1 = b + 1
    BY <1>2, <1>4, <1>7, <2>1 DEF IsInjective
  <2> QED
    BY <1>4, <2>2
<1>8. IsInjective(s) => s[1] \notin ToSet(t)
  BY <1>2, <1>4 DEF IsInjective, ToSet
<1> QED
  BY <1>1, <1>2, <1>3, <1>6, <1>7, <1>8 DEF t

LEMMA RemoveAtFacts ==
    ASSUME NEW S, NEW s \in Seq(S), NEW i \in DOMAIN s, IsInjective(s)
    PROVE  /\ RemoveAt(s, i) \in Seq(S)
           /\ IsInjective(RemoveAt(s, i))
           /\ ToSet(RemoveAt(s, i)) = ToSet(s) \ {s[i]}
<1> DEFINE l == SubSeq(s, 1, i - 1)
           r == SubSeq(s, i + 1, Len(s))
           t == l \o r
<1>1. Len(s) \in Nat /\ i \in 1..Len(s) /\ DOMAIN s = 1..Len(s)
  BY LenProperties
<1>2. l \in Seq(S) /\ Len(l) = i - 1 /\ \A k \in 1..(i - 1) : l[k] = s[k]
  BY <1>1, SubSeqProperties
<1>3. r \in Seq(S) /\ Len(r) = Len(s) - i /\ \A k \in 1..(Len(s) - i) : r[k] = s[k + i]
  BY <1>1, SubSeqProperties, SMTT(20)
<1> HIDE DEF l, r
<1>4. /\ t \in Seq(S) /\ Len(t) = Len(l) + Len(r)
      /\ \A k \in 1..Len(l) + Len(r) : t[k] = IF k <= Len(l) THEN l[k] ELSE r[k - Len(l)]
  BY <1>2, <1>3, ConcatProperties, Zenon
<1>5. DOMAIN t = 1..(Len(s) - 1)
  <2>1. Len(t) = Len(s) - 1
    BY <1>1, <1>2, <1>3, <1>4
  <2> QED
    BY <1>4, <2>1, LenProperties
<1> HIDE DEF t
<1>6. \A k \in 1..(Len(s) - 1) : t[k] = IF k < i THEN s[k] ELSE s[k + 1]
  <2> TAKE k \in 1..(Len(s) - 1)
  <2>1. k \in 1..Len(l) + Len(r)
    BY <1>1, <1>2, <1>3
  <2>2. t[k] = IF k <= Len(l) THEN l[k] ELSE r[k - Len(l)]
    BY <1>4, <2>1
  <2>3. CASE k < i
    BY <1>1, <1>2, <2>2, <2>3
  <2>4. CASE ~(k < i)
    <3>1. k - Len(l) \in 1..(Len(s) - i) /\ (k - Len(l)) + i = k + 1 /\ ~(k <= Len(l))
      BY <1>1, <1>2, <2>4
    <3> QED
      BY <1>3, <2>2, <2>4, <3>1
  <2> QED
    BY <2>3, <2>4
<1> DEFINE at(k) == IF k < i THEN k ELSE k + 1
<1>7. \A k \in 1..(Len(s) - 1) : at(k) \in 1..Len(s) /\ at(k) # i /\ t[k] = s[at(k)]
  BY <1>1, <1>6
<1>8. \A k, m \in 1..(Len(s) - 1) : at(k) = at(m) => k = m
  BY <1>1
<1>9. \A m \in 1..Len(s) : m # i => \E k \in 1..(Len(s) - 1) : at(k) = m
  <2> TAKE m \in 1..Len(s)
  <2>1. CASE m < i
    BY <1>1, <2>1
  <2>2. CASE m > i
    <3>1. m - 1 \in 1..(Len(s) - 1) /\ at(m - 1) = m
      BY <1>1, <2>2
    <3> QED
      BY <3>1
  <2> QED
    BY <1>1, <2>1, <2>2
<1> HIDE DEF at
<1>10. IsInjective(t)
  BY <1>1, <1>5, <1>7, <1>8 DEF IsInjective
<1>11. ToSet(t) = ToSet(s) \ {s[i]}
  <2>1. \A x \in ToSet(t) : x \in ToSet(s) \ {s[i]}
    BY <1>1, <1>5, <1>7 DEF IsInjective, ToSet
  <2>2. ASSUME NEW x \in ToSet(s) \ {s[i]} PROVE x \in ToSet(t)
    <3>1. PICK m \in 1..Len(s) : s[m] = x /\ m # i
      BY <1>1 DEF ToSet
    <3>2. PICK k \in 1..(Len(s) - 1) : at(k) = m
      BY <1>9, <3>1
    <3>3. t[k] = x
      BY <1>7, <3>1, <3>2
    <3> QED
      BY <1>5, <3>3 DEF ToSet
  <2> QED
    BY <2>1, <2>2
<1> QED
  BY <1>4, <1>10, <1>11 DEF RemoveAt, l, r, t

-----------------------------------------------------------------------------
(* Sequences of events.                                                     *)

LEMMA ShortBoxes ==
    ASSUME NEW a, NEW b
    PROVE  /\ <<a>> # <<>> /\ Len(<<a>>) = 1 /\ Head(<<a>>) = a /\ Tail(<<a>>) = <<>>
           /\ <<a, b>> # <<>> /\ Len(<<a, b>>) = 2 /\ Head(<<a, b>>) = a
           /\ Tail(<<a, b>>) = <<b>>
<1> DEFINE S == {a, b}
<1>1. <<>> \in Seq(S) /\ <<a>> \in Seq(S) /\ <<b>> \in Seq(S) /\ <<a, b>> \in Seq(S)
  OBVIOUS
<1>2. Len(<<a>>) = 1 /\ Len(<<a, b>>) = 2 /\ <<a>> # <<>> /\ <<a, b>> # <<>>
  OBVIOUS
<1>3. Head(<<a>>) = a /\ Head(<<a, b>>) = a
  OBVIOUS
<1>4. Tail(<<a>>) = <<>>
  BY <1>1, <1>2, TailFacts
<1>5. Tail(<<a, b>>) = <<b>>
  <2>1. /\ Tail(<<a, b>>) \in Seq(S) /\ Len(Tail(<<a, b>>)) = 1
        /\ \A i \in 1..1 : Tail(<<a, b>>)[i] = <<a, b>>[i + 1]
    BY <1>1, <1>2, HeadTailProperties
  <2>2. \A i \in 1..1 : Tail(<<a, b>>)[i] = <<b>>[i]
    BY <2>1
  <2> QED
    BY <1>1, <2>1, <2>2, SeqEqual
<1> QED
  BY <1>2, <1>3, <1>4, <1>5

LEMMA EventFacts ==
    /\ LogLine \in Events /\ Position \in Events
    /\ \A s \in {"pending", "running"} \cup Terminal : Status(s) \in Events
    /\ \A s \in Terminal : Done(s) \in Events
    /\ LogLine[1] # "done" /\ Position[1] # "done"
    /\ \A s \in {"pending", "running"} \cup Terminal : Status(s)[1] # "done"
    /\ \A s \in Terminal : Done(s)[1] = "done" /\ Done(s)[2] = s
    /\ \A e \in Events : e[1] = "done" => e[2] \in Terminal
  BY DEF Events, LogLine, Position, Status, Done

\* DoneMatchesRow of one channel.
Match(s, r) == \A i \in DOMAIN s : s[i][1] = "done" => s[i][2] = r

LEMMA EventAppend ==
    ASSUME NEW s \in Seq(Events), NEW e \in Events
    PROVE  /\ HasDone(Append(s, e)) <=> HasDone(s) \/ e[1] = "done"
           /\ \A r : Match(s, r) /\ (e[1] = "done" => e[2] = r) => Match(Append(s, e), r)
<1> DEFINE t == Append(s, e)
<1>1. /\ t \in Seq(Events) /\ Len(t) = Len(s) + 1 /\ t[Len(s) + 1] = e
      /\ \A i \in 1..Len(s) : t[i] = s[i]
  BY AppendProperties
<1>2. Len(s) \in Nat /\ DOMAIN s = 1..Len(s) /\ DOMAIN t = 1..(Len(s) + 1)
  BY <1>1, LenProperties
<1>3. 1..(Len(s) + 1) = 1..Len(s) \cup {Len(s) + 1}
  BY <1>2
<1> HIDE DEF t
<1>4. HasDone(t) <=> HasDone(s) \/ e[1] = "done"
  BY <1>1, <1>2, <1>3 DEF HasDone
<1>5. \A r : Match(s, r) /\ (e[1] = "done" => e[2] = r) => Match(t, r)
  BY <1>1, <1>2, <1>3 DEF Match
<1> QED
  BY <1>4, <1>5 DEF t

LEMMA EventTail ==
    ASSUME NEW s \in Seq(Events), s # <<>>
    PROVE  /\ HasDone(s) /\ Head(s)[1] # "done" => HasDone(Tail(s))
           /\ \A r : Match(s, r) => Match(Tail(s), r)
<1> DEFINE t == Tail(s)
<1>1. /\ t \in Seq(Events) /\ Len(t) = Len(s) - 1
      /\ \A i \in 1..Len(t) : t[i] = s[i + 1]
  BY HeadTailProperties
<1>2. /\ Len(s) \in Nat /\ Len(s) >= 1 /\ DOMAIN s = 1..Len(s)
      /\ DOMAIN t = 1..(Len(s) - 1) /\ Head(s) = s[1]
  BY <1>1, LenProperties, ListFacts
<1> HIDE DEF t
<1>3. /\ \A i \in 1..(Len(s) - 1) : i + 1 \in 1..Len(s) /\ t[i] = s[i + 1]
      /\ \A i \in 1..Len(s) : i = 1 \/ (i - 1 \in 1..(Len(s) - 1) /\ (i - 1) + 1 = i)
  BY <1>1, <1>2
<1>4. \A i \in 1..Len(s) : i = 1 \/ (i - 1 \in 1..(Len(s) - 1) /\ t[i - 1] = s[i])
  BY <1>3
<1>5. HasDone(s) /\ Head(s)[1] # "done" => HasDone(t)
  BY <1>2, <1>4 DEF HasDone
<1>6. \A r : Match(s, r) => Match(t, r)
  BY <1>2, <1>3 DEF Match
<1> QED
  BY <1>5, <1>6 DEF t

LEMMA EventConcat ==
    ASSUME NEW s \in Seq(Events), NEW t \in Seq(Events)
    PROVE  /\ s \o t \in Seq(Events)
           /\ HasDone(t) => HasDone(s \o t)
           /\ \A r : Match(s, r) /\ Match(t, r) => Match(s \o t, r)
<1> DEFINE u == s \o t
<1>1. /\ u \in Seq(Events) /\ Len(u) = Len(s) + Len(t)
      /\ \A i \in 1..Len(s) + Len(t) : u[i] = IF i <= Len(s) THEN s[i] ELSE t[i - Len(s)]
  BY ConcatProperties
<1>2. /\ Len(s) \in Nat /\ DOMAIN s = 1..Len(s)
      /\ Len(t) \in Nat /\ DOMAIN t = 1..Len(t)
      /\ DOMAIN u = 1..(Len(s) + Len(t))
  BY <1>1, LenProperties
<1> HIDE DEF u
<1>3. \A i \in 1..Len(t) : /\ i + Len(s) \in 1..(Len(s) + Len(t))
                           /\ ~(i + Len(s) <= Len(s)) /\ (i + Len(s)) - Len(s) = i
  BY <1>2
<1>4. \A i \in 1..Len(t) : u[i + Len(s)] = t[i]
  BY <1>1, <1>3
<1>5. HasDone(t) => HasDone(u)
  BY <1>2, <1>3, <1>4 DEF HasDone
<1>6. \A i \in 1..(Len(s) + Len(t)) :
         \/ i \in 1..Len(s) /\ u[i] = s[i]
         \/ i - Len(s) \in 1..Len(t) /\ u[i] = t[i - Len(s)]
  BY <1>1, <1>2
<1>7. \A r : Match(s, r) /\ Match(t, r) => Match(u, r)
  BY <1>2, <1>6 DEF Match
<1> QED
  BY <1>1, <1>5, <1>7 DEF u

\* Subscribe's replay tells the row, and ends with "done" if the row is settled.
LEMMA ReplayFacts ==
    ASSUME TypeOK
    PROVE  /\ Replay \in Seq(Events)
           /\ Match(Replay, row)
           /\ row \in Terminal => HasDone(Replay)
<1> DEFINE log == [n \in 1..dbLog |-> LogLine]
           last == IF row \in Terminal THEN Farewell(row) ELSE <<>>
<1>1. dbLog \in Nat /\ row \in {"pending", "running"} \cup Terminal
  BY StreamAssumption DEF TypeOK
<1>2. log \in Seq(Events) /\ Match(log, row)
  <2>1. log \in Seq(Events)
    BY <1>1, EventFacts
  <2>2. DOMAIN log = 1..dbLog /\ \A n \in 1..dbLog : log[n] = LogLine
    OBVIOUS
  <2> QED
    BY <2>1, <2>2, EventFacts DEF Match
<1>3. <<Status(row)>> \in Seq(Events) /\ Match(<<Status(row)>>, row)
  <2>1. DOMAIN <<Status(row)>> = {1} /\ <<Status(row)>>[1] = Status(row)
    OBVIOUS
  <2> QED
    BY <1>1, <2>1, EventFacts DEF Match
<1>4. last \in Seq(Events) /\ Match(last, row) /\ (row \in Terminal => HasDone(last))
  <2>1. CASE row \notin Terminal
    BY <2>1 DEF Match
  <2>2. CASE row = "cancelled"
    <3>1. last = <<Status(row), Done(row)>>
      BY <2>2 DEF Farewell, Terminal
    <3>2. /\ DOMAIN <<Status(row), Done(row)>> = {1, 2}
          /\ <<Status(row), Done(row)>>[1] = Status(row)
          /\ <<Status(row), Done(row)>>[2] = Done(row)
      OBVIOUS
    <3>3. row \in Terminal
      BY <2>2 DEF Terminal
    <3>4. Status(row) \in Events /\ Done(row) \in Events
      BY <3>3, EventFacts
    <3>5. Status(row)[1] # "done" /\ Done(row)[1] = "done" /\ Done(row)[2] = row
      BY <3>3, EventFacts
    <3> HIDE DEF last
    <3>6. last \in Seq(Events)
      BY <3>1, <3>4
    <3>7. Match(last, row) /\ HasDone(last)
      BY <3>1, <3>2, <3>5 DEF Match, HasDone
    <3> QED
      BY <3>6, <3>7
  <2>3. CASE row \in Terminal /\ row # "cancelled"
    <3>1. last = <<Done(row)>>
      BY <2>3 DEF Farewell
    <3>2. DOMAIN <<Done(row)>> = {1} /\ <<Done(row)>>[1] = Done(row)
      OBVIOUS
    <3> HIDE DEF last
    <3> QED
      BY <2>3, <3>1, <3>2, EventFacts DEF Match, HasDone
  <2> QED
    BY <2>1, <2>2, <2>3
<1>5. Replay = (log \o <<Status(row)>>) \o last
  BY DEF Replay
<1> HIDE DEF log, last
<1>6. log \o <<Status(row)>> \in Seq(Events) /\ Match(log \o <<Status(row)>>, row)
  BY <1>2, <1>3, EventConcat
<1> QED
  BY <1>4, <1>5, <1>6, EventConcat

-----------------------------------------------------------------------------
(* Init and the steps of the writers.                                       *)

LEMMA InitIInv == Init => IInv
<1> SUFFICES ASSUME Init PROVE IInv
  OBVIOUS
<1>1. <<>> \in Seq(Clients) /\ <<>> \in Seq(Events) /\ Len(<<>>) = 0 /\ DOMAIN <<>> = {}
  OBVIOUS
<1>2. ToSet(<<>>) = {} /\ IsInjective(<<>>)
  BY <1>1 DEF ToSet, IsInjective
<1>3. TypeOK
  BY <1>1, StreamAssumption DEF Init, TypeOK
<1>4. Control /\ Announced /\ Owned
  BY DEF Init, Control, Announced, Owned, Over, Terminal, Writers
<1>5. Lists
  BY <1>2 DEF Init, Lists, Writers
<1>6. DoneMatchesRow /\ Ending /\ SilentEndMeansOverflow
  BY <1>1 DEF Init, DoneMatchesRow, Ending, SilentEndMeansOverflow
<1> QED
  BY <1>3, <1>4, <1>5, <1>6 DEF IInv

\* DoneMatchesRow, channel by channel.
LEMMA MatchAll == DoneMatchesRow <=> \A c \in Clients : Match(chan[c], row)
  BY DEF DoneMatchesRow, Match

\* While the row is open no channel carries a "done": the row may still change.
LEMMA NoDoneYet ==
    ASSUME IInv, row \notin Terminal, NEW c \in Clients, NEW r
    PROVE  Match(chan[c], r) /\ ~HasDone(chan[c])
<1>1. chan[c] \in Seq(Events) /\ \A i \in DOMAIN chan[c] : chan[c][i] \in Events
  BY LenProperties, ElementOfSeq DEF IInv, TypeOK
<1>2. \A i \in DOMAIN chan[c] : chan[c][i][1] # "done"
  BY <1>1, EventFacts DEF IInv, DoneMatchesRow
<1> QED
  BY <1>2 DEF Match, HasDone

LEMMA AppendJobKeepsIInv == ASSUME IInv, AppendJob PROVE IInv'
<1> USE DEF IInv, AppendJob, Announces, Announce, channels
<1>1. <<Position>> \in Seq(Events)
  BY EventFacts
<1>2. TypeOK'
  BY <1>1 DEF TypeOK, Writers
<1>3. Control' /\ Announced'
  BY DEF Control, Announced, Over, Writers, TypeOK
<1>4. Lists' /\ Owned' /\ DoneMatchesRow' /\ SilentEndMeansOverflow'
  BY DEF Lists, Owned, DoneMatchesRow, SilentEndMeansOverflow
<1>5. Ending'
  BY DEF Ending, HasDone
<1> QED
  BY <1>2, <1>3, <1>4, <1>5

LEMMA StartRunKeepsIInv == ASSUME IInv, StartRun PROVE IInv'
<1> USE DEF IInv, StartRun, Announces, Announce, channels
<1>1. <<Status("running")>> \in Seq(Events)
  BY EventFacts
<1>2. TypeOK'
  BY <1>1 DEF TypeOK, Writers
<1>3. row \notin Terminal /\ "running" \notin Terminal
  BY DEF Control, Over, Terminal
<1>4. Control' /\ Announced'
  BY <1>3 DEF Control, Announced, Over, Writers, TypeOK
<1>5. Lists' /\ Owned' /\ SilentEndMeansOverflow'
  BY DEF Lists, Owned, SilentEndMeansOverflow
<1>6. Ending'
  BY DEF Ending, HasDone
<1>7. \A c \in Clients : Match(chan[c], row')
  BY <1>3, NoDoneYet
<1>8. DoneMatchesRow'
  BY <1>7 DEF DoneMatchesRow, Match
<1> QED
  BY <1>2, <1>4, <1>5, <1>6, <1>8

LEMMA WriteLineKeepsIInv == ASSUME IInv, WriteLine PROVE IInv'
<1> USE DEF IInv, WriteLine, Announces, Announce, channels
<1>1. <<LogLine>> \in Seq(Events)
  BY EventFacts
<1>2. TypeOK'
  BY <1>1, StreamAssumption DEF TypeOK, Writers
<1>3. Control' /\ Announced'
  BY DEF Control, Announced, Over, Writers, TypeOK
<1>4. Lists' /\ Owned' /\ DoneMatchesRow' /\ SilentEndMeansOverflow'
  BY DEF Lists, Owned, DoneMatchesRow, SilentEndMeansOverflow
<1>5. Ending'
  BY DEF Ending, HasDone
<1> QED
  BY <1>2, <1>3, <1>4, <1>5

\* The row is settled before anything is announced, and from then on "done" is
\* on its way to every channel registered.
LEMMA SettleRowKeepsIInv == ASSUME IInv, NEW s \in Outcomes, SettleRow(s) PROVE IInv'
<1> USE DEF IInv, SettleRow, Announces, Announce, channels, Idle
<1>1. s \in Terminal /\ row' = s /\ row \notin Terminal
  BY StreamAssumption DEF Control, Over
<1>2. /\ Farewell(s) \in {<<Done(s)>>, <<Status(s), Done(s)>>}
      /\ Farewell(s) \in Seq(Events) /\ Farewell(s) # <<>>
  BY <1>1, EventFacts DEF Farewell
<1>3. TypeOK'
  BY <1>1, <1>2 DEF TypeOK, Writers
<1>4. outbox'["fin"] = Farewell(s) /\ outbox'["enq"] = outbox["enq"] /\ targets["fin"] = <<>>
  BY DEF TypeOK, Writers, Control
<1>5. Control'
  BY <1>1, <1>2, <1>4 DEF Control, Over, Writers
<1>6. Announced'
  BY <1>1, <1>2, <1>4 DEF Announced
<1>7. Lists' /\ Owned' /\ SilentEndMeansOverflow'
  BY DEF Lists, Owned, SilentEndMeansOverflow
<1>8. Ending'
  BY <1>2, <1>4 DEF Ending, HasDone, DoneComing
<1>9. \A c \in Clients : Match(chan[c], row')
  BY <1>1, NoDoneYet
<1>10. DoneMatchesRow'
  BY <1>9 DEF DoneMatchesRow, Match
<1> QED
  BY <1>3, <1>5, <1>6, <1>7, <1>8, <1>10

\* Nothing is left to announce, so whoever is on the list has its "done".
LEMMA TakeSubsKeepsIInv == ASSUME IInv, TakeSubs PROVE IInv'
<1> USE DEF IInv, TakeSubs, channels, Idle
<1>1. <<>> \in Seq(Clients) /\ ToSet(<<>>) = {} /\ IsInjective(<<>>)
  BY DEF ToSet, IsInjective
<1>2. TypeOK'
  BY <1>1 DEF TypeOK
<1>3. targets["fin"] = <<>> /\ toClose = <<>>
  BY DEF Control, Writers
<1>4. Control' /\ Announced'
  BY <1>3 DEF Control, Announced, Over
<1>5. Lists'
  BY <1>1 DEF Lists
<1>6. Owned'
  BY <1>1, <1>3 DEF Owned
<1>7. DoneMatchesRow' /\ SilentEndMeansOverflow'
  BY DEF DoneMatchesRow, SilentEndMeansOverflow
<1>8. Ending'
  BY <1>1 DEF Ending, DoneComing, HasDone
<1> QED
  BY <1>2, <1>4, <1>5, <1>6, <1>7, <1>8

LEMMA CloseOneKeepsIInv == ASSUME IInv, CloseOne PROVE IInv'
<1> USE DEF IInv, CloseOne
<1> DEFINE h == Head(toClose)
<1>1. toClose \in Seq(Clients) /\ toClose # <<>> /\ targets["fin"] = <<>> /\ subs = <<>>
  BY DEF TypeOK, Control, Announced, Writers
<1>2. h \in ToSet(toClose) /\ h \in Clients
  BY <1>1, ListFacts
<1>3. ~closed[h]
  BY <1>2 DEF Lists
<1>4. /\ closed' = [closed EXCEPT ![h] = TRUE]
      /\ toClose' = Tail(toClose)
      /\ fpc' = IF Len(toClose) = 1 THEN "end" ELSE fpc
      /\ UNCHANGED panicked
      /\ UNCHANGED <<row, dbLog, subs, outbox, targets, cpc, chan, dropped>>
  BY <1>3
<1>5. /\ Tail(toClose) \in Seq(Clients)
      /\ Tail(toClose) = <<>> <=> Len(toClose) = 1
      /\ ToSet(toClose) = ToSet(Tail(toClose)) \cup {h}
      /\ IsInjective(Tail(toClose)) /\ h \notin ToSet(Tail(toClose))
  BY <1>1, TailFacts DEF Lists
<1>6. \A c \in Clients : closed'[c] <=> (closed[c] \/ c = h)
  BY <1>2, <1>4 DEF TypeOK
<1>7. ToSet(subs) = {} /\ ToSet(targets["fin"]) = {}
  BY <1>1 DEF ToSet
<1> HIDE DEF h
<1>8. TypeOK'
  BY <1>2, <1>4, <1>5 DEF TypeOK
<1>9. Control' /\ Announced'
  BY <1>1, <1>4, <1>5 DEF Control, Announced, Over
<1>10. Lists'
  BY <1>4, <1>5, <1>6, <1>7 DEF Lists
<1>11. Owned'
  BY <1>4, <1>5, <1>6 DEF Owned
<1>12. DoneMatchesRow' /\ SilentEndMeansOverflow'
  BY <1>4 DEF DoneMatchesRow, SilentEndMeansOverflow
<1>13. Ending'
  BY <1>2, <1>4, <1>5, <1>6, <1>7 DEF Ending, HasDone
<1> QED
  BY <1>8, <1>9, <1>10, <1>11, <1>12, <1>13

-----------------------------------------------------------------------------
(* broadcast.                                                               *)

\* What is left of an announcement once its first event has gone round.
LEMMA OutboxFacts ==
    ASSUME Announced, NEW w \in Writers, outbox[w] # <<>>
    PROVE  \/ /\ Len(outbox[w]) = 1 /\ Tail(outbox[w]) = <<>>
              /\ w = "fin" /\ fpc = "settled" => outbox[w] = <<Done(row)>>
           \/ /\ w = "fin" /\ fpc = "settled" /\ outbox[w] = <<Status(row), Done(row)>>
              /\ Len(outbox[w]) = 2 /\ Tail(outbox[w]) = <<Done(row)>>
<1>1. CASE w = "enq"
  <2>1. outbox[w] = <<Position>>
    BY <1>1 DEF Announced
  <2> QED
    BY <1>1, <2>1, ShortBoxes
<1>2. CASE w = "fin" /\ fpc = "settled"
  <2>1. outbox[w] = <<Done(row)>> \/ outbox[w] = <<Status(row), Done(row)>>
    BY <1>2 DEF Announced
  <2>2. Len(<<Done(row)>>) = 1 /\ Tail(<<Done(row)>>) = <<>>
    BY ShortBoxes
  <2>3. /\ Len(<<Status(row), Done(row)>>) = 2
        /\ Tail(<<Status(row), Done(row)>>) = <<Done(row)>>
    BY ShortBoxes
  <2> QED
    BY <1>2, <2>1, <2>2, <2>3
<1>3. CASE w = "fin" /\ fpc # "settled"
  <2>1. outbox[w] = <<Status("running")>> \/ outbox[w] = <<LogLine>>
    BY <1>3 DEF Announced
  <2> QED
    BY <1>3, <2>1, ShortBoxes
<1> QED
  BY <1>1, <1>2, <1>3 DEF Writers

LEMMA ShorterOutbox ==
    ASSUME Announced, NEW w \in Writers, outbox[w] # <<>>, UNCHANGED <<fpc, row>>,
           outbox'[w] \in {outbox[w], Tail(outbox[w])},
           \A v \in Writers : v # w => outbox'[v] = outbox[v]
    PROVE  Announced'
<1>1. outbox'[w] = outbox[w] \/ outbox'[w] = <<>>
      \/ (w = "fin" /\ fpc = "settled" /\ outbox'[w] = <<Done(row)>>)
  BY OutboxFacts
<1>2. CASE w = "enq"
  BY <1>1, <1>2 DEF Announced, Writers
<1>3. CASE w = "fin"
  BY <1>1, <1>3 DEF Announced, Writers
<1> QED
  BY <1>2, <1>3 DEF Writers

LEMMA CopySubsKeepsIInv == ASSUME IInv, NEW w \in Writers, CopySubs(w) PROVE IInv'
<1> USE DEF IInv, CopySubs, job, channels
<1>1. outbox[w] \in Seq(Events) /\ outbox[w] # <<>> /\ targets[w] = <<>>
  BY DEF TypeOK
<1>2. Tail(outbox[w]) \in Seq(Events)
  BY <1>1, TailFacts
<1>3. TypeOK'
  BY <1>2 DEF TypeOK
<1>4. /\ targets'[w] = subs
      /\ \A v \in Writers : v # w => targets'[v] = targets[v] /\ outbox'[v] = outbox[v]
      /\ outbox'[w] = IF subs = <<>> THEN Tail(outbox[w]) ELSE outbox[w]
  BY DEF TypeOK
<1>5. Control'
  BY <1>1, <1>4 DEF Control, Over
<1>6. Announced'
  BY <1>1, <1>4, ShorterOutbox
<1>7. Lists'
  BY <1>4 DEF Lists, Writers
<1>8. Owned' /\ DoneMatchesRow' /\ SilentEndMeansOverflow'
  BY DEF Owned, DoneMatchesRow, SilentEndMeansOverflow
<1>9. Ending'
  <2>1. SUFFICES ASSUME NEW c \in Clients, cpc[c] = "reading", ~dropped[c],
                        c \in ToSet(subs), fpc = "settled", ~HasDone(chan[c])
                 PROVE  DoneComing(c)'
    BY DEF Ending
  <2>2. subs # <<>> /\ DoneComing(c)
    BY <2>1 DEF Ending, ToSet
  <2>3. outbox' = outbox
    BY <2>2
  <2> QED
    BY <1>4, <2>1, <2>2, <2>3 DEF DoneComing, Writers
<1> QED
  BY <1>3, <1>5, <1>6, <1>7, <1>8, <1>9

\* The event goes to one channel; a client loses it only if its channel is full,
\* and the last event of a settled job is its "done".
LEMMA SendKeepsIInv == ASSUME IInv, NEW w \in Writers, Send(w) PROVE IInv'
<1> USE DEF IInv
<1> DEFINE h == Head(targets[w])
           e == Head(outbox[w])
           fits == Len(chan[h]) < Cap
<1>1. targets[w] \in Seq(Clients) /\ targets[w] # <<>>
  BY DEF TypeOK, Send
<1>2. outbox[w] \in Seq(Events) /\ outbox[w] # <<>>
  BY <1>1 DEF TypeOK, Control
<1>3. h \in ToSet(targets[w]) /\ h \in Clients
  BY <1>1, ListFacts
<1>4. e \in Events /\ Tail(outbox[w]) \in Seq(Events)
  BY <1>2, TailFacts, ListFacts
<1>5. /\ Tail(targets[w]) \in Seq(Clients)
      /\ Tail(targets[w]) = <<>> <=> Len(targets[w]) = 1
      /\ ToSet(targets[w]) = ToSet(Tail(targets[w])) \cup {h}
  BY <1>1, TailFacts
<1>6. /\ ~closed[h]
      /\ targets' = [targets EXCEPT ![w] = Tail(@)]
      /\ outbox' = IF Len(targets[w]) = 1 THEN [outbox EXCEPT ![w] = Tail(@)] ELSE outbox
      /\ chan' = IF fits /\ cpc[h] = "reading"
                 THEN [chan EXCEPT ![h] = Append(@, e)] ELSE chan
      /\ dropped' = IF fits \/ cpc[h] # "reading" THEN dropped
                    ELSE [dropped EXCEPT ![h] = TRUE]
      /\ UNCHANGED <<job, subs, toClose, panicked, cpc, closed>>
  BY DEF Send, NextTarget
<1> HIDE DEF h, e
<1>7. /\ targets'[w] = Tail(targets[w])
      /\ \A v \in Writers : v # w => targets'[v] = targets[v] /\ outbox'[v] = outbox[v]
      /\ outbox'[w] = IF Len(targets[w]) = 1 THEN Tail(outbox[w]) ELSE outbox[w]
  BY <1>6 DEF TypeOK
<1>8. /\ chan[h] \in Seq(Events) /\ Len(chan[h]) \in Nat
      /\ Append(chan[h], e) \in Seq(Events) /\ Len(Append(chan[h], e)) = Len(chan[h]) + 1
  BY <1>3, <1>4, AppendFacts, ListFacts DEF TypeOK
<1>9. /\ \A c \in Clients : c # h => chan'[c] = chan[c] /\ dropped'[c] = dropped[c]
      /\ chan'[h] = IF fits /\ cpc[h] = "reading" THEN Append(chan[h], e) ELSE chan[h]
      /\ dropped'[h] = IF fits \/ cpc[h] # "reading" THEN dropped[h] ELSE TRUE
  BY <1>3, <1>6 DEF TypeOK
<1>10. TypeOK'
  <2>1. outbox' \in [Writers -> Seq(Events)] /\ targets' \in [Writers -> Seq(Clients)]
    BY <1>4, <1>5, <1>6 DEF TypeOK
  <2>2. chan' \in [Clients -> Seq(Events)] /\ dropped' \in [Clients -> BOOLEAN]
    BY <1>6, <1>8 DEF TypeOK
  <2>3. \A c \in Clients : Len(chan'[c]) <= Cap
    <3>1. Len(chan[h]) <= Cap /\ Cap \in Nat
      BY <1>3, StreamAssumption DEF TypeOK
    <3>2. Len(chan'[h]) <= Cap
      BY <1>8, <1>9, <3>1
    <3> QED
      BY <1>9, <3>2 DEF TypeOK
  <2> QED
    BY <1>6, <2>1, <2>2, <2>3 DEF TypeOK, job
<1>11. Control'
  BY <1>5, <1>6, <1>7, <1>2 DEF Control, Over, job
<1>12. Announced'
  BY <1>2, <1>6, <1>7, ShorterOutbox DEF job
<1>13. Lists'
  BY <1>5, <1>6, <1>7 DEF Lists, Writers
<1>14. Owned'
  BY <1>6 DEF Owned
<1>15. HasDone(chan[h]) => HasDone(chan'[h])
  BY <1>3, <1>4, <1>8, <1>9, EventAppend
<1>16. e[1] = "done" => e[2] = row
  <2>1. e \in {Position, LogLine, Status("running"), Status(row), Done(row)}
    BY <1>2, ShortBoxes DEF e, Announced, Writers
  <2> QED
    BY <2>1 DEF Position, LogLine, Status, Done
<1>17. DoneMatchesRow'
  <2>1. Match(chan'[h], row)
    BY <1>3, <1>4, <1>8, <1>9, <1>16, EventAppend, MatchAll
  <2>2. \A c \in Clients : Match(chan'[c], row)
    BY <1>9, <2>1, MatchAll
  <2> QED
    BY <1>6, <2>2 DEF DoneMatchesRow, Match, job
<1>18. SilentEndMeansOverflow'
  BY <1>6, <1>9 DEF SilentEndMeansOverflow, TypeOK
<1>19. Ending'
  <2> SUFFICES ASSUME NEW c \in Clients, cpc[c] = "reading", ~dropped'[c]
               PROVE  /\ closed[c] => HasDone(chan'[c])
                      /\ c \in ToSet(toClose) => HasDone(chan'[c])
                      /\ c \in ToSet(subs) /\ fpc = "settled" => HasDone(chan'[c]) \/ DoneComing(c)'
    BY <1>6 DEF Ending, job
  <2>1. ~dropped[c] /\ (HasDone(chan[c]) => HasDone(chan'[c]))
    BY <1>9, <1>15
  <2>0. \/ Len(outbox[w]) = 1 /\ (w = "fin" /\ fpc = "settled" => outbox[w] = <<Done(row)>>)
        \/ Len(outbox[w]) = 2 /\ outbox[w] = <<Status(row), Done(row)>>
    BY <1>2, OutboxFacts
  <2>2. ASSUME c \in ToSet(subs), fpc = "settled", ~HasDone(chan'[c])
        PROVE  DoneComing(c)'
    <3>1. DoneComing(c)
      BY <2>1, <2>2 DEF Ending
    <3>2. CASE w = "enq"
      BY <1>7, <3>1, <3>2 DEF DoneComing, Writers
    <3>3. CASE w = "fin" /\ Len(outbox[w]) = 2
      <4>1. outbox[w] = <<Status(row), Done(row)>>
        BY <2>0, <3>3
      <4>2. /\ outbox'[w] # <<>>
            /\ targets'[w] = <<>> \/ Len(outbox'[w]) = 2
        BY <1>5, <1>7, <4>1, ShortBoxes
      <4> QED
        BY <3>3, <4>2 DEF DoneComing
    <3>4. CASE w = "fin" /\ ~(Len(outbox[w]) = 2)
      <4>1. outbox[w] = <<Done(row)>>
        BY <2>0, <2>2, <3>4
      <4>2. c \in ToSet(targets[w])
        BY <1>1, <3>1, <3>4 DEF DoneComing
      <4>3. e[1] = "done"
        BY <4>1, ShortBoxes DEF e, Done
      <4>4. c # h
        <5> SUFFICES ASSUME c = h PROVE FALSE
          OBVIOUS
        <5>1. fits
          BY <1>9
        <5>2. chan'[c] = Append(chan[c], e)
          BY <1>9, <5>1
        <5> QED
          BY <1>3, <1>4, <1>8, <2>2, <4>3, <5>2, EventAppend
      <4>5. c \in ToSet(Tail(targets[w]))
        BY <1>5, <4>2, <4>4
      <4>6. Tail(targets[w]) # <<>>
        BY <4>5 DEF ToSet
      <4> QED
        BY <1>2, <1>5, <1>7, <3>4, <4>5, <4>6 DEF DoneComing
    <3> QED
      BY <3>2, <3>3, <3>4 DEF Writers
  <2> QED
    BY <2>1, <2>2 DEF Ending
<1> QED
  BY <1>10, <1>11, <1>12, <1>13, <1>14, <1>17, <1>18, <1>19

\* Only the Enqueue call can hit a closed channel.
LEMMA SendPanicsKeepsIInv == ASSUME IInv, NEW w \in Writers, SendPanics(w) PROVE IInv'
<1> USE DEF IInv, SendPanics, job, channels
<1>1. w # "fin"
  <2>1. targets[w] \in Seq(Clients) /\ targets[w] # <<>>
    BY DEF TypeOK
  <2>2. Head(targets[w]) \in ToSet(targets[w]) /\ Head(targets[w]) \in Clients
    BY <2>1, ListFacts
  <2> QED
    BY <2>2 DEF Lists
<1>2. TypeOK' /\ Control' /\ Announced'
  BY <1>1 DEF TypeOK, Control, Announced, Over
<1>3. Lists' /\ Owned' /\ DoneMatchesRow' /\ SilentEndMeansOverflow'
  BY DEF Lists, Owned, DoneMatchesRow, SilentEndMeansOverflow
<1>4. Ending'
  BY DEF Ending, HasDone, DoneComing
<1> QED
  BY <1>2, <1>3, <1>4

-----------------------------------------------------------------------------
(* Subscribe and streamJob.                                                 *)

LEMMA GetJobKeepsIInv == ASSUME IInv, NEW c \in Clients, GetJob(c) PROVE IInv'
<1> USE DEF IInv, GetJob, Goto, job, writing
<1>1. CASE Len(Replay) > Cap
  <2>1. /\ cpc' = [cpc EXCEPT ![c] = "stuck"]
        /\ UNCHANGED <<job, subs, writing, channels>>
    BY <1>1 DEF channels
  <2> HIDE DEF GetJob
  <2>2. TypeOK' /\ Control' /\ Announced'
    BY <2>1 DEF TypeOK, Control, Announced, Over, channels
  <2>3. Lists' /\ Owned' /\ DoneMatchesRow' /\ SilentEndMeansOverflow'
    BY <2>1 DEF TypeOK, Lists, Owned, DoneMatchesRow, SilentEndMeansOverflow, channels
  <2>4. Ending'
    BY <2>1 DEF TypeOK, Ending, HasDone, DoneComing, channels
  <2> QED
    BY <2>2, <2>3, <2>4
<1>2. CASE ~(Len(Replay) > Cap)
  <2> DEFINE rep == Replay
  <2>1. rep \in Seq(Events) /\ Match(rep, row) /\ (row \in Terminal => HasDone(rep))
    BY ReplayFacts
  <2>2. Len(rep) \in Nat /\ Len(rep) <= Cap
    BY <1>2, <2>1, ListFacts, StreamAssumption
  <2>3. /\ chan' = [chan EXCEPT ![c] = rep]
        /\ closed' = [closed EXCEPT ![c] = row \in Terminal]
        /\ cpc' = [cpc EXCEPT ![c] = IF row \in Terminal THEN "reading" ELSE "attaching"]
        /\ UNCHANGED <<job, subs, writing, dropped>>
    BY <1>2
  <2> HIDE DEF rep
  <2>4. /\ chan'[c] = rep /\ (closed'[c] <=> row \in Terminal)
        /\ cpc'[c] = IF row \in Terminal THEN "reading" ELSE "attaching"
        /\ \A d \in Clients : d # c =>
              chan'[d] = chan[d] /\ closed'[d] = closed[d] /\ cpc'[d] = cpc[d]
    BY <2>3 DEF TypeOK
  <2>5. TypeOK'
    <3>1. /\ chan' \in [Clients -> Seq(Events)]
          /\ \A d \in Clients : Len(chan'[d]) <= Cap
      BY <2>1, <2>2, <2>3, <2>4 DEF TypeOK
    <3>2. (row \in Terminal) \in BOOLEAN
      OBVIOUS
    <3>3. closed' \in [Clients -> BOOLEAN]
      BY <2>3, <3>2 DEF TypeOK
    <3> QED
      BY <2>3, <3>1, <3>3 DEF TypeOK
  <2>6. Control' /\ Announced'
    BY <2>3 DEF Control, Announced, Over
  <2>7. c \notin ToSet(subs) /\ c \notin ToSet(toClose)
        /\ \A w \in Writers : c \notin ToSet(targets[w])
    BY DEF Lists
  <2>8. Lists'
    BY <2>3, <2>4, <2>7 DEF Lists, Writers
  <2>9. Owned'
    BY <2>3, <2>4 DEF Owned
  <2>10. DoneMatchesRow'
    <3>1. \A d \in Clients : Match(chan'[d], row)
      BY <2>1, <2>4, MatchAll
    <3> QED
      BY <2>3, <3>1 DEF DoneMatchesRow, Match
  <2>11. SilentEndMeansOverflow'
    BY <2>3, <2>4 DEF SilentEndMeansOverflow
  <2>12. Ending'
    BY <2>1, <2>3, <2>4, <2>7 DEF Ending, DoneComing
  <2> QED
    BY <2>5, <2>6, <2>8, <2>9, <2>10, <2>11, <2>12
<1> QED
  BY <1>1, <1>2

\* The second look at the row: a channel is registered only while the list will
\* still be taken.
LEMMA AttachKeepsIInv == ASSUME IInv, NEW c \in Clients, Attach(c) PROVE IInv'
<1> USE DEF IInv, Goto, job, writing
<1>1. /\ c \notin ToSet(subs) /\ c \notin ToSet(toClose)
      /\ \A w \in Writers : c \notin ToSet(targets[w])
  BY DEF Attach, Lists
<1>2. CASE row \in Terminal /\ Len(chan[c]) < Cap
  <2> DEFINE t == Append(chan[c], Done(row))
  <2>1. /\ chan' = [chan EXCEPT ![c] = t]
        /\ closed' = [closed EXCEPT ![c] = TRUE]
        /\ cpc' = [cpc EXCEPT ![c] = "reading"]
        /\ UNCHANGED <<job, subs, writing, dropped>>
    <3>1. Len(chan[c]) \in Nat
      BY ListFacts DEF TypeOK
    <3> QED
      BY <1>2, <3>1, StreamAssumption DEF Attach
  <2>2. chan[c] \in Seq(Events) /\ Done(row) \in Events
        /\ Done(row)[1] = "done" /\ Done(row)[2] = row
    BY <1>2, EventFacts DEF TypeOK
  <2>3. /\ t \in Seq(Events) /\ Len(t) = Len(chan[c]) + 1 /\ Len(chan[c]) \in Nat
        /\ HasDone(t) /\ Match(t, row)
    BY <2>2, AppendFacts, ListFacts, EventAppend, MatchAll
  <2> HIDE DEF t
  <2>4. /\ chan'[c] = t /\ closed'[c] /\ cpc'[c] = "reading"
        /\ \A d \in Clients : d # c =>
              chan'[d] = chan[d] /\ closed'[d] = closed[d] /\ cpc'[d] = cpc[d]
    BY <2>1 DEF TypeOK
  <2>5. TypeOK'
    <3>1. /\ chan' \in [Clients -> Seq(Events)]
          /\ \A d \in Clients : Len(chan'[d]) <= Cap
      BY <1>2, <2>1, <2>3, <2>4, StreamAssumption DEF TypeOK
    <3> QED
      BY <2>1, <3>1 DEF TypeOK
  <2>6. Control' /\ Announced'
    BY <2>1 DEF Control, Announced, Over
  <2>7. Lists'
    BY <1>1, <2>1, <2>4 DEF Lists, Writers
  <2>8. Owned'
    BY <2>1, <2>4 DEF Owned
  <2>9. DoneMatchesRow'
    <3>1. \A d \in Clients : Match(chan'[d], row)
      BY <2>3, <2>4, MatchAll
    <3> QED
      BY <2>1, <3>1 DEF DoneMatchesRow, Match
  <2>10. SilentEndMeansOverflow'
    BY <2>1, <2>4 DEF SilentEndMeansOverflow
  <2>11. Ending'
    BY <1>1, <2>1, <2>3, <2>4 DEF Ending, DoneComing
  <2> QED
    BY <2>5, <2>6, <2>7, <2>8, <2>9, <2>10, <2>11
<1>3. CASE row \in Terminal /\ Len(chan[c]) = Cap
  <2>1. /\ cpc' = [cpc EXCEPT ![c] = "stuck"]
        /\ UNCHANGED <<job, subs, writing, channels>>
    BY <1>3, StreamAssumption DEF Attach, channels
  <2>2. TypeOK' /\ Control' /\ Announced'
    BY <2>1 DEF TypeOK, Control, Announced, Over, channels
  <2>3. Lists' /\ Owned' /\ DoneMatchesRow' /\ SilentEndMeansOverflow'
    BY <2>1 DEF TypeOK, Lists, Owned, DoneMatchesRow, SilentEndMeansOverflow, channels
  <2>4. Ending'
    BY <2>1 DEF TypeOK, Ending, HasDone, DoneComing, channels
  <2> QED
    BY <2>2, <2>3, <2>4
<1>4. CASE row \notin Terminal
  <2>1. /\ subs' = Append(subs, c)
        /\ cpc' = [cpc EXCEPT ![c] = "reading"]
        /\ UNCHANGED <<job, writing, channels>>
    BY <1>4 DEF Attach, channels
  <2>2. /\ subs' \in Seq(Clients) /\ ToSet(subs') = ToSet(subs) \cup {c} /\ IsInjective(subs')
    BY <1>1, <2>1, AppendFacts DEF TypeOK, Lists
  <2>3. cpc'[c] = "reading" /\ \A d \in Clients : d # c => cpc'[d] = cpc[d]
    BY <2>1 DEF TypeOK
  <2>4. ~Over /\ fpc # "settled" /\ ~closed[c]
    <3>1. ~Over
      BY <1>4 DEF Control
    <3>2. ~closed[c]
      BY DEF Attach, Lists
    <3> QED
      BY <3>1, <3>2 DEF Over
  <2>5. TypeOK'
    BY <2>1, <2>2 DEF TypeOK, channels
  <2>6. Control' /\ Announced'
    BY <2>1, <2>4 DEF Control, Announced, Over
  <2>7. Lists'
    BY <1>1, <2>1, <2>2, <2>3, <2>4 DEF Lists, channels
  <2>8. Owned'
    BY <2>1, <2>2, <2>3 DEF Owned, channels
  <2>9. DoneMatchesRow' /\ SilentEndMeansOverflow'
    BY <2>1, <2>3 DEF DoneMatchesRow, SilentEndMeansOverflow, channels
  <2>10. Ending'
    BY <1>1, <2>1, <2>3, <2>4 DEF Ending, HasDone, DoneComing, channels
  <2> QED
    BY <2>5, <2>6, <2>7, <2>8, <2>9, <2>10
<1> QED
  BY <1>2, <1>3, <1>4 DEF Attach

\* The handler is over: its channel leaves the list, and only the list.
LEMMA DepartKeepsIInv ==
    ASSUME IInv, NEW c \in Clients, NEW pc \in {"gone", "silent"}, cpc[c] = "reading",
           Depart(c, pc), UNCHANGED <<job, writing, closed>>,
           pc = "silent" => dropped[c]
    PROVE  IInv'
<1> USE DEF IInv, job, writing
<1>1. /\ cpc' = [cpc EXCEPT ![c] = pc]
      /\ chan' = [chan EXCEPT ![c] = <<>>]
      /\ dropped' = [dropped EXCEPT ![c] = @ /\ pc = "silent"]
  BY DEF Depart, Goto
<1>2. /\ cpc'[c] = pc /\ chan'[c] = <<>> /\ (dropped'[c] <=> (dropped[c] /\ pc = "silent"))
      /\ \A d \in Clients : d # c =>
            cpc'[d] = cpc[d] /\ chan'[d] = chan[d] /\ dropped'[d] = dropped[d]
  BY <1>1 DEF TypeOK
<1>3. /\ subs' \in Seq(Clients) /\ IsInjective(subs') /\ ToSet(subs') = ToSet(subs) \ {c}
      /\ subs = <<>> => subs' = <<>>
  <2>0. subs \in Seq(Clients) /\ IsInjective(subs)
    BY DEF TypeOK, Lists
  <2>1. CASE \A i \in DOMAIN subs : subs[i] # c
    <3>1. c \notin ToSet(subs)
      BY <2>1 DEF ToSet
    <3>2. subs' = subs
      BY <2>1 DEF Depart
    <3> QED
      BY <2>0, <3>1, <3>2
  <2>2. CASE ~(\A i \in DOMAIN subs : subs[i] # c)
    <3>1. PICK i \in DOMAIN subs : subs[i] = c /\ subs' = RemoveAt(subs, i)
      BY <2>2 DEF Depart
    <3>2. /\ RemoveAt(subs, i) \in Seq(Clients) /\ IsInjective(RemoveAt(subs, i))
          /\ ToSet(RemoveAt(subs, i)) = ToSet(subs) \ {subs[i]}
      BY <2>0, <3>1, RemoveAtFacts
    <3>3. subs # <<>>
      BY <3>1
    <3> QED
      BY <3>1, <3>2, <3>3
  <2> QED
    BY <2>1, <2>2
<1>4. TypeOK'
  <2>1. <<>> \in Seq(Events) /\ Len(<<>>) = 0
    OBVIOUS
  <2>2. \A d \in Clients : Len(chan'[d]) <= Cap
    <3>1. 0 <= Cap
      BY StreamAssumption
    <3>2. Len(chan'[c]) <= Cap
      BY <1>2, <2>1, <3>1
    <3> QED
      BY <1>2, <3>2 DEF TypeOK
  <2>3. (dropped[c] /\ pc = "silent") \in BOOLEAN
    BY DEF TypeOK
  <2>4. dropped' \in [Clients -> BOOLEAN]
    BY <1>1, <2>3 DEF TypeOK
  <2> QED
    BY <1>1, <1>3, <2>1, <2>2, <2>4 DEF TypeOK
<1>5. Control' /\ Announced'
  BY <1>3 DEF Control, Announced, Over
<1>6. Lists'
  BY <1>2, <1>3 DEF Lists
<1>7. Owned'
  BY <1>2, <1>3 DEF Owned
<1>8. DoneMatchesRow'
  <2>1. Match(<<>>, row)
    BY DEF Match
  <2>2. \A d \in Clients : Match(chan'[d], row)
    BY <1>2, <2>1, MatchAll
  <2> QED
    BY <2>2 DEF DoneMatchesRow, Match
<1>9. SilentEndMeansOverflow'
  BY <1>2 DEF SilentEndMeansOverflow
<1>10. Ending'
  BY <1>2, <1>3 DEF Ending, DoneComing
<1> QED
  BY <1>4, <1>5, <1>6, <1>7, <1>8, <1>9, <1>10

LEMMA DeliverKeepsIInv == ASSUME IInv, NEW c \in Clients, Deliver(c) PROVE IInv'
<1>1. CASE Head(chan[c])[1] = "done"
  BY <1>1, DepartKeepsIInv DEF Deliver
<1>2. CASE Head(chan[c])[1] # "done"
  <2> USE DEF IInv, job, writing
  <2>1. /\ chan' = [chan EXCEPT ![c] = Tail(@)]
        /\ UNCHANGED <<job, subs, writing, cpc, closed, dropped>>
    BY <1>2 DEF Deliver
  <2>2. chan[c] \in Seq(Events) /\ chan[c] # <<>>
    BY DEF TypeOK, Deliver
  <2>3. /\ Tail(chan[c]) \in Seq(Events) /\ Len(Tail(chan[c])) = Len(chan[c]) - 1
        /\ Len(chan[c]) \in Nat
        /\ HasDone(chan[c]) => HasDone(Tail(chan[c]))
        /\ Match(Tail(chan[c]), row)
    BY <1>2, <2>2, TailFacts, ListFacts, EventTail, MatchAll
  <2>4. chan'[c] = Tail(chan[c]) /\ \A d \in Clients : d # c => chan'[d] = chan[d]
    BY <2>1 DEF TypeOK
  <2>5. TypeOK'
    <3>1. /\ chan' \in [Clients -> Seq(Events)]
          /\ \A d \in Clients : Len(chan'[d]) <= Cap
      BY <2>1, <2>3, <2>4, StreamAssumption DEF TypeOK
    <3> QED
      BY <2>1, <3>1 DEF TypeOK
  <2>6. Control' /\ Announced' /\ Lists' /\ Owned' /\ SilentEndMeansOverflow'
    BY <2>1 DEF Control, Announced, Over, Lists, Owned, SilentEndMeansOverflow
  <2>7. DoneMatchesRow'
    <3>1. \A d \in Clients : Match(chan'[d], row)
      BY <2>3, <2>4, MatchAll
    <3> QED
      BY <2>1, <3>1 DEF DoneMatchesRow, Match
  <2>8. Ending'
    BY <2>1, <2>3, <2>4 DEF Ending, DoneComing
  <2> QED
    BY <2>5, <2>6, <2>7, <2>8
<1> QED
  BY <1>1, <1>2

\* A drained and closed channel had its "done" dropped.
LEMMA EndOfChannelKeepsIInv == ASSUME IInv, NEW c \in Clients, EndOfChannel(c) PROVE IInv'
<1>1. ~HasDone(chan[c])
  BY DEF EndOfChannel, HasDone
<1>2. dropped[c]
  BY <1>1 DEF EndOfChannel, IInv, Ending
<1> QED
  BY <1>2, DepartKeepsIInv DEF EndOfChannel

-----------------------------------------------------------------------------
(* The theorems.                                                            *)

LEMMA NextKeepsIInv == ASSUME IInv, [Next]_vars PROVE IInv'
<1>1. CASE AppendJob \/ Fin
  BY <1>1, AppendJobKeepsIInv, StartRunKeepsIInv, WriteLineKeepsIInv, SettleRowKeepsIInv,
     TakeSubsKeepsIInv, CloseOneKeepsIInv DEF Fin
<1>2. ASSUME NEW w \in Writers, Writer(w) PROVE IInv'
  BY <1>2, CopySubsKeepsIInv, SendKeepsIInv, SendPanicsKeepsIInv DEF Writer
<1>3. ASSUME NEW c \in Clients, GetJob(c) \/ Handler(c) PROVE IInv'
  BY <1>3, GetJobKeepsIInv, AttachKeepsIInv, DeliverKeepsIInv, EndOfChannelKeepsIInv DEF Handler
<1>4. ASSUME NEW c \in Clients, Disconnect(c) PROVE IInv'
  BY <1>4, DepartKeepsIInv DEF Disconnect
<1>5. CASE UNCHANGED vars
  <2> USE <1>5 DEF vars, job, writing, channels, IInv
  <2>1. TypeOK' /\ Control' /\ Announced' /\ Lists'
    BY DEF TypeOK, Control, Announced, Over, Lists
  <2>2. Owned' /\ DoneMatchesRow' /\ SilentEndMeansOverflow'
    BY DEF Owned, DoneMatchesRow, SilentEndMeansOverflow
  <2>3. Ending'
    BY DEF Ending, HasDone, DoneComing
  <2> QED
    BY <2>1, <2>2, <2>3
<1> QED
  BY <1>1, <1>2, <1>3, <1>4, <1>5 DEF Next

\* The inductive invariant: the lists, the channels and what is still to be
\* announced stay in step, whoever connects or leaves and in whatever order the
\* two writers send.
THEOREM Invariance == Spec => []IInv
<1>1. Init => IInv
  BY InitIInv
<1>2. IInv /\ [Next]_vars => IInv'
  BY NextKeepsIInv
<1> QED
  BY <1>1, <1>2, PTL DEF Spec

\* Every variable has its type; no channel holds more than its capacity.
THEOREM TypeCorrect == Spec => []TypeOK
<1>1. IInv => TypeOK
  BY DEF IInv
<1> QED
  BY <1>1, Invariance, PTL

\* The worker, which runs outside the HTTP recoverer, never sends on a closed
\* channel and never closes one twice: no interleaving of Subscribe, cleanup,
\* broadcast and closeSubscribers ends the hub.
THEOREM FinisherIsSafe == Spec => []FinisherNeverPanics
<1>1. IInv => FinisherNeverPanics
  BY DEF IInv, Control, FinisherNeverPanics
<1> QED
  BY <1>1, Invariance, PTL

\* Subscribe's second look at the row under subsMu is enough: nobody registers
\* on a list that closeSubscribers has already taken.
THEOREM NoStreamIsOrphaned == Spec => []NoOrphanStream
<1>1. ASSUME IInv PROVE NoOrphanStream
  <2>1. subs # <<>> => fpc \notin {"closing", "end"}
    BY <1>1 DEF IInv, Control
  <2>2. ASSUME fpc = "end", NEW c \in Clients, cpc[c] = "reading" PROVE closed[c]
    <3>1. subs = <<>> /\ toClose = <<>>
      BY <1>1, <2>2 DEF IInv, Control
    <3>2. ToSet(subs) = {} /\ ToSet(toClose) = {}
      BY <3>1 DEF ToSet
    <3> QED
      BY <1>1, <2>2, <3>2 DEF IInv, Owned
  <2> QED
    BY <2>1, <2>2 DEF NoOrphanStream
<1> QED
  BY <1>1, Invariance, PTL

\* The row is written before "done" is sent, on every path: a browser is never
\* told an end that the database does not have.
THEOREM DoneTellsTheRow == Spec => []DoneMatchesRow
<1>1. IInv => DoneMatchesRow
  BY DEF IInv
<1> QED
  BY <1>1, Invariance, PTL

\* A browser that misses the end of the stream was too slow for its channel; no
\* interleaving alone loses the "done".
THEOREM SilenceIsOverflow == Spec => []SilentEndMeansOverflow
<1>1. IInv => SilentEndMeansOverflow
  BY DEF IInv
<1> QED
  BY <1>1, Invariance, PTL
=============================================================================
