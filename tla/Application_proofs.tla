------------------------- MODULE Application_proofs -------------------------
(***************************************************************************)
(* Proofs about Application, for any documents, any number of clients, any *)
(* length of a command and of the readiness deadline, any free ports.      *)
(***************************************************************************)
EXTENDS Application, Configuration_proofs, SequenceTheorems, FiniteSetTheorems, TLAPS

-----------------------------------------------------------------------------
(* The inductive invariant, in layers: each is preserved given those before. *)

Starting == {"initialize", "dead", "telemetry", "radios", "gateway"}
Stops == {"stop_gateway", "stop_flag", "stop_check", "wait", "stop_sse",
          "stop_bus", "returned"}
Beating == {"arm", "beat", "beaten"}

\* Nothing runs before there is a configuration, nothing is posted before the
\* hub is started, and before the gateway's turn only what the hub has posted.
BootOK ==
    /\ main \in {"initialize", "dead"} => loop = "idle"
    /\ main \in {"initialize", "dead", "telemetry"} =>
          queue = <<"poll">> /\ handler = "none" /\ beat = Off /\ recheck = Off
    /\ main \in Starting =>
          /\ rest = "off" /\ ready = "unknown" /\ round = 1 /\ recheck = Off
          /\ handler \notin {"announce", "command"}
          /\ \A i \in DOMAIN queue :
                queue[i] \in {"poll", "open_sse", "schedule", "beat"}
    /\ main \notin Starting \ {"gateway"} <=> connected

\* The second stop() finds the thread of the io_context ended, between two
\* handlers.
RoundOK ==
    /\ round = 2 => loop = "ended" /\ handler = "none" /\ main \in Stops \cup {"gone"}
    /\ main = "gone" => round = 2

\* The gateway stays closed, and the flag set.
ClosedOK ==
    /\ main \in (Stops \cup {"gone"}) \ {"stop_gateway"} => rest = "closed"
    /\ main \in (Stops \cup {"gone"}) \ {"stop_gateway", "stop_flag"} => stopped
    /\ round = 2 => rest = "closed" /\ stopped

\* What the thread may still come to once a stop has been waited for.
Harmless == {"poll", "beat", "check"}

\* The cancellation is what stop() waits for, and nothing but that comes
\* behind it.
WaitOK ==
    /\ main = "wait" =>
          \A i, j \in DOMAIN queue :
             queue[i] = "cancel" /\ i < j => queue[j] \in Harmless
    /\ main # "wait" => \A i \in DOMAIN queue : queue[i] # "cancel"

\* So behind it the thread has a heartbeat that reads the flag, and readiness
\* checks, which fail.
AfterOK ==
    main \in {"stop_sse", "stop_bus", "returned", "gone"} =>
        \/ loop = "ended"
        \/ /\ beat = Off /\ handler = "none"
           /\ \A i \in DOMAIN queue : queue[i] \in Harmless

BusOK ==
    /\ bus = "closed" => main \in {"returned", "gone"} \/ round = 2
    /\ ~late

StopOK == RoundOK /\ ClosedOK /\ WaitOK /\ AfterOK /\ BusOK

\* The heartbeat is at one of its places at most.
BeatOK ==
    /\ \A i, j \in DOMAIN queue :
          queue[i] \in {"schedule", "beat"} /\ queue[j] \in {"schedule", "beat"}
             => i = j
    /\ \A i \in DOMAIN queue :
          queue[i] \in {"schedule", "beat"} => beat = Off /\ handler \notin Beating
    /\ beat # Off => handler \notin Beating

\* So is the readiness check, until it is decided.
CheckOK ==
    /\ \A i, j \in DOMAIN queue :
          queue[i] = "check" /\ queue[j] = "check" => i = j
    /\ \A i \in DOMAIN queue :
          queue[i] = "check" =>
             recheck = Off /\ handler # "announce" /\ ready = "pending"
    /\ recheck # Off => handler # "announce" /\ ready = "pending"
    /\ handler = "announce" => ready = "pending"

\* A server that listens does so until it is stopped, on the port it was told,
\* unless that is any, and not on the port of the other.
PortsOK ==
    /\ main = "serving" /\ (ready = "published" \/ handler = "announce") => Listening
    /\ rest = "listening" /\ Config.network.command_port # 0 =>
          restPort = Config.network.command_port
    /\ sse = "listening" /\ SsePort(Config) # 0 => ssePort = SsePort(Config)
    /\ Listening => restPort # ssePort

\* A command has come through a listening gateway.
CommandOK ==
    handler = "command" \/ (\E i \in DOMAIN queue : queue[i] = "command") =>
        /\ main \notin Starting
        /\ main = "serving" => rest = "listening"

-----------------------------------------------------------------------------
(* Lemmas about the queue.                                                 *)

\* The document is the same for the whole life of the process.
LEMMA FileKept ==
    ASSUME [Next]_vars
    PROVE  file' = file /\ Config' = Config /\ Interval' = Interval
<1> USE DEF vars, mainVars, runVars
<1>1. file' = file
  <2>1. CASE Start
    BY <2>1 DEF Start, Initialize, StartTelemetry, ConnectRadios, StartGateway
  <2>2. CASE Handle
    BY <2>2 DEF Handle, OpenSse, OpenRest, Schedule, Arm, Beat, BeatWaits,
                PublishHeartbeat, Check, PublishReady, Command, CommandEnds, Cancel
  <2>3. CASE Stop
    BY <2>3 DEF Stop, StopGateway, StopFlag, StopCheck, StopSse, StopBus,
                RunReturns, Exit
  <2>4. CASE RunnerStarts \/ Poll \/ Tick \/ StopBegins
    BY <2>4 DEF RunnerStarts, Poll, Tick, StopBegins
  <2> QED BY <2>1, <2>2, <2>3, <2>4 DEF Next
<1> QED BY <1>1 DEF Config, Interval

\* What is left when a handler has been taken.
LEMMA Taken ==
    ASSUME queue \in Seq(Posted), NEW h, Takes(h)
    PROVE  /\ queue' \in Seq(Posted) /\ h \in Posted
           /\ loop = "running" /\ handler = "none"
           /\ ~(stopper = "inside" /\ Stopping)
           /\ 1 \in DOMAIN queue /\ queue[1] = h
           /\ Len(queue') = Len(queue) - 1
           /\ \A i \in DOMAIN queue' : i + 1 \in DOMAIN queue /\ queue'[i] = queue[i + 1]
           /\ \A i \in DOMAIN queue' : i \in Nat /\ i # 0
           /\ \A i \in DOMAIN queue :
                 i = 1 \/ (i - 1 \in DOMAIN queue' /\ queue'[i - 1] = queue[i])
<1> USE DEF Takes, Between, Turning
<1>1. queue # <<>> /\ queue' = Tail(queue) /\ Head(queue) = h
  OBVIOUS
<1>2. /\ queue' \in Seq(Posted) /\ Len(queue') = Len(queue) - 1
      /\ \A i \in 1..Len(queue') : queue'[i] = queue[i + 1]
  BY <1>1, HeadTailProperties
<1>3. Len(queue) \in Nat /\ Len(queue) >= 1 /\ h = queue[1] /\ h \in Posted
  BY <1>1, HeadTailProperties, EmptySeq, LenProperties
<1>4. DOMAIN queue = 1..Len(queue) /\ DOMAIN queue' = 1..Len(queue')
  BY <1>2, LenProperties
<1> QED BY <1>2, <1>3, <1>4

\* Nothing is left that was not there before.
LEMMA TakenOut ==
    ASSUME queue \in Seq(Posted), NEW h, Takes(h)
    PROVE  /\ queue' \in Seq(Posted) /\ h \in Posted
           /\ loop = "running" /\ handler = "none"
           /\ 1 \in DOMAIN queue /\ queue[1] = h
           /\ \A i \in DOMAIN queue' : \E j \in DOMAIN queue : queue'[i] = queue[j]
BY Taken

\* Two handlers are posted behind the others.
LEMMA PostedBehind ==
    ASSUME queue \in Seq(Posted), NEW g \in Posted, NEW h \in Posted,
           queue' = queue \o <<g, h>>
    PROVE  /\ queue' \in Seq(Posted)
           /\ \A i \in DOMAIN queue' :
                 \/ i \in DOMAIN queue /\ queue'[i] = queue[i]
                 \/ i = Len(queue) + 1 /\ queue'[i] = g
                 \/ i = Len(queue) + 2 /\ queue'[i] = h
           /\ \A i \in DOMAIN queue :
                 i \in 1..Len(queue) /\ i \in DOMAIN queue' /\ queue'[i] = queue[i]
<1>1. <<g, h>> \in Seq(Posted) /\ Len(<<g, h>>) = 2
  OBVIOUS
<1>2. /\ queue' \in Seq(Posted) /\ Len(queue') = Len(queue) + 2
      /\ \A i \in 1..Len(queue') :
            queue'[i] = IF i <= Len(queue) THEN queue[i]
                        ELSE <<g, h>>[i - Len(queue)]
  BY <1>1, ConcatProperties
<1>3. /\ Len(queue) \in Nat
      /\ DOMAIN queue = 1..Len(queue) /\ DOMAIN queue' = 1..Len(queue')
  BY <1>2, LenProperties
<1> QED BY <1>2, <1>3

\* A heartbeat that is posted again leaves the others in their order.
LEMMA Requeued ==
    ASSUME queue \in Seq(Posted), BeatWaits
    PROVE  /\ queue' \in Seq(Posted) /\ Len(queue') = Len(queue)
           /\ loop = "running" /\ handler = "none" /\ main = "wait"
           /\ 1 \in DOMAIN queue /\ queue[1] = "beat"
           /\ \A i \in DOMAIN queue' :
                 \/ i + 1 \in DOMAIN queue /\ queue'[i] = queue[i + 1] /\ i \in Nat /\ i # 0
                 \/ i = Len(queue) /\ queue'[i] = "beat"
<1>1. /\ queue # <<>> /\ Head(queue) = "beat"
      /\ queue' = Append(Tail(queue), "beat")
      /\ loop = "running" /\ handler = "none" /\ main = "wait"
  BY DEF BeatWaits, Between, Turning
<1>2. /\ Tail(queue) \in Seq(Posted) /\ Len(Tail(queue)) = Len(queue) - 1
      /\ \A i \in 1..Len(Tail(queue)) : Tail(queue)[i] = queue[i + 1]
  BY <1>1, HeadTailProperties
<1>3. /\ queue' \in Seq(Posted) /\ Len(queue') = Len(Tail(queue)) + 1
      /\ \A i \in 1..Len(Tail(queue)) : queue'[i] = Tail(queue)[i]
      /\ queue'[Len(Tail(queue)) + 1] = "beat"
  BY <1>1, <1>2, AppendProperties DEF Posted
<1>4. Len(queue) \in Nat /\ Len(queue) >= 1 /\ queue[1] = "beat"
  BY <1>1, EmptySeq, LenProperties
<1>5. DOMAIN queue = 1..Len(queue) /\ DOMAIN queue' = 1..Len(queue')
  BY <1>3, LenProperties
<1> QED BY <1>1, <1>2, <1>3, <1>4, <1>5

\* What has expired, a heartbeat before a check.
LEMMA WhatIsDue ==
    /\ Due \in Seq(Posted) /\ Len(Due) \in {0, 1, 2}
    /\ \A k \in 1..Len(Due) :
          \/ Due[k] = "beat" /\ beat = 0 /\ k = 1
          \/ Due[k] = "check" /\ recheck = 0 /\ k = Len(Due)
    /\ beat = 0 => Len(Due) > 0 /\ Due[1] = "beat"
<2>1. CASE beat = 0 /\ recheck = 0
  <3> DEFINE b == <<"beat">>  c == <<"check">>
  <3>1. Due = b \o c
    BY <2>1 DEF Due
  <3>2. b \in Seq(Posted) /\ c \in Seq(Posted) /\ Len(b) = 1 /\ Len(c) = 1
    BY DEF Posted
  <3>3. /\ Due \in Seq(Posted) /\ Len(Due) = 2
        /\ \A k \in 1..2 : Due[k] = IF k <= 1 THEN b[k] ELSE c[k - 1]
    <4> HIDE DEF b, c
    <4> QED BY <3>1, <3>2, ConcatProperties
  <3> QED BY <3>3, <2>1
<2>2. CASE beat = 0 /\ recheck # 0
  <3>1. Due = <<"beat">>
    BY <2>2 DEF Due
  <3> QED BY <3>1, <2>2 DEF Posted
<2>3. CASE beat # 0 /\ recheck = 0
  <3>1. Due = <<"check">>
    BY <2>3 DEF Due
  <3> QED BY <3>1, <2>3 DEF Posted
<2>4. CASE beat # 0 /\ recheck # 0
  <3>1. Due = <<>>
    BY <2>4 DEF Due
  <3> QED BY <3>1, <2>4 DEF Posted
<2> QED BY <2>1, <2>2, <2>3, <2>4

\* What a poll finds goes behind what was posted: commands, then what is due,
\* and the mark of the next round.
LEMMA Polled ==
    ASSUME TypeOK, Poll
    PROVE  /\ queue' \in Seq(Posted)
           /\ loop = "running" /\ handler = "none"
           /\ ~(stopper = "inside" /\ Stopping)
           /\ Len(queue) \in Nat \ {0} /\ 1 \in DOMAIN queue /\ queue[1] = "poll"
           /\ \E n \in 0..Clients :
                 /\ n > 0 => rest = "listening"
                 /\ Len(queue') \in Nat /\ Len(queue') >= Len(queue) + n
                 /\ \A i \in DOMAIN queue' :
                       \/ /\ 0 < i /\ i < Len(queue)
                          /\ i + 1 \in DOMAIN queue /\ queue'[i] = queue[i + 1]
                       \/ /\ Len(queue) <= i /\ i < Len(queue) + n
                          /\ queue'[i] = "command"
                       \/ i = Len(queue) + n /\ queue'[i] = "beat" /\ beat = 0
                       \/ /\ Len(queue) + n <= i /\ i = Len(queue') - 1
                          /\ queue'[i] = "check" /\ recheck = 0
                       \/ i = Len(queue') /\ queue'[i] = "poll"
                 /\ beat = 0 => Len(queue) + n \in DOMAIN queue'
                                /\ queue'[Len(queue) + n] = "beat"
<1>1. PICK n \in 0..(IF rest = "listening" THEN Clients ELSE 0) :
         queue' = Tail(queue) \o [i \in 1..n |-> "command"] \o Due \o <<"poll">>
  BY DEF Poll
<1>2. n \in Nat /\ n \in 0..Clients /\ (n > 0 => rest = "listening")
  BY ApplicationAssumption
<1> DEFINE some == [i \in 1..n |-> "command"]  rest_ == Tail(queue)
<1>3. some \in Seq(Posted) /\ Len(some) = n /\ \A i \in 1..n : some[i] = "command"
  <2>1. some \in [1..n -> Posted]
    BY DEF Posted
  <2>2. some \in Seq(Posted)
    BY <2>1, <1>2, SeqDef
  <2>3. DOMAIN some = 1..n /\ \A i \in 1..n : some[i] = "command"
    OBVIOUS
  <2> HIDE DEF some
  <2> QED BY <2>2, <2>3, <1>2, LenProperties
<1>4. /\ queue \in Seq(Posted) /\ queue # <<>> /\ Head(queue) = "poll"
      /\ loop = "running" /\ handler = "none" /\ ~(stopper = "inside" /\ Stopping)
  BY DEF TypeOK, Poll, Between, Turning
<1>5. /\ Len(queue) \in Nat \ {0} /\ queue[1] = "poll"
      /\ DOMAIN queue = 1..Len(queue)
  BY <1>4, EmptySeq, LenProperties
<1>6. /\ rest_ \in Seq(Posted) /\ Len(rest_) = Len(queue) - 1
      /\ \A i \in 1..Len(rest_) : rest_[i] = queue[i + 1]
  BY <1>4, HeadTailProperties
<1>7. queue' = ((rest_ \o some) \o Due) \o <<"poll">>
  BY <1>1
<1> HIDE DEF some, rest_
<1> DEFINE met == rest_ \o some   all == met \o Due   mark == <<"poll">>
           old == Len(queue) - 1
<1>8. /\ met \in Seq(Posted) /\ Len(met) = Len(rest_) + Len(some)
      /\ \A i \in 1..(Len(rest_) + Len(some)) :
            met[i] = IF i <= Len(rest_) THEN rest_[i] ELSE some[i - Len(rest_)]
  <2> HIDE DEF Posted
  <2> QED BY <1>3, <1>6, ConcatProperties
<1>9. /\ Due \in Seq(Posted) /\ Len(Due) \in {0, 1, 2}
      /\ mark \in Seq(Posted) /\ Len(mark) = 1 /\ mark[1] = "poll"
  BY WhatIsDue DEF Posted
<1>9a. /\ met \in Seq(Posted) /\ Len(met) = old + n /\ old \in Nat
       /\ \A i \in 1..(old + n) : met[i] = IF i <= old THEN rest_[i] ELSE some[i - old]
  <2>1. Len(rest_) = old /\ Len(some) = n /\ old \in Nat
    BY <1>3, <1>5, <1>6
  <2> HIDE DEF met, old
  <2> QED BY <1>8, <2>1
<1> HIDE DEF met
<1>9b. /\ all \in Seq(Posted) /\ Len(all) = old + n + Len(Due)
       /\ \A i \in 1..(old + n + Len(Due)) :
             all[i] = IF i <= old + n THEN met[i] ELSE Due[i - (old + n)]
  <2> HIDE DEF old, mark, Posted
  <2>1. /\ all \in Seq(Posted) /\ Len(all) = Len(met) + Len(Due)
        /\ \A i \in 1..(Len(met) + Len(Due)) :
              all[i] = IF i <= Len(met) THEN met[i] ELSE Due[i - Len(met)]
    BY <1>9, <1>9a, ConcatProperties
  <2> HIDE DEF all
  <2> QED BY <1>9a, <2>1
<1>9c. queue' = all \o mark
  BY <1>7 DEF met
<1> HIDE DEF all, mark
<1>10. /\ queue' \in Seq(Posted) /\ Len(queue') = Len(all) + 1
       /\ \A i \in 1..(Len(all) + 1) :
             queue'[i] = IF i <= Len(all) THEN all[i] ELSE mark[i - Len(all)]
  <2>1. /\ queue' \in Seq(Posted) /\ Len(queue') = Len(all) + Len(mark)
        /\ \A i \in 1..(Len(all) + Len(mark)) :
              queue'[i] = IF i <= Len(all) THEN all[i] ELSE mark[i - Len(all)]
    <3>1. all \in Seq(Posted) /\ mark \in Seq(Posted)
      BY <1>9, <1>9b
    <3> HIDE DEF Posted
    <3> QED BY <1>9c, <3>1, ConcatProperties
  <2> QED BY <1>9, <2>1
<1> HIDE DEF old
<1>11. /\ DOMAIN queue' = 1..Len(queue') /\ Len(queue') \in Nat
       /\ Len(queue') = old + n + Len(Due) + 1
       /\ Len(all) = old + n + Len(Due) /\ Len(Due) \in Nat /\ old \in Nat
  BY <1>2, <1>9, <1>9a, <1>9b, <1>10, LenProperties
<1>12. \A i \in 1..(old + n) :
          queue'[i] = IF i <= old THEN queue[i + 1] ELSE "command"
  <2> TAKE i \in 1..(old + n)
  <2>1. i \in 1..Len(all) /\ i \in 1..(Len(all) + 1) /\ i \in 1..(old + n + Len(Due))
    BY <1>2, <1>11
  <2>2. queue'[i] = all[i]
    BY <1>10, <1>11, <2>1
  <2>3. all[i] = met[i]
    BY <1>2, <1>9b, <1>11, <2>1
  <2>4. CASE i <= old
    <3>1. i \in 1..Len(rest_)
      BY <1>2, <1>6, <1>11, <2>4 DEF old
    <3> QED BY <1>6, <1>9a, <2>2, <2>3, <2>4, <3>1
  <2>5. CASE ~(i <= old)
    <3>1. i - old \in 1..n
      BY <1>2, <1>11, <2>5
    <3> QED BY <1>3, <1>9a, <2>2, <2>3, <2>5, <3>1
  <2> QED BY <2>4, <2>5
<1>13. \A k \in 1..Len(Due) : queue'[old + n + k] = Due[k]
  <2> TAKE k \in 1..Len(Due)
  <2> DEFINE i == old + n + k
  <2>1. /\ i \in 1..Len(all) /\ i \in 1..(Len(all) + 1) /\ i \in 1..(old + n + Len(Due))
        /\ ~(i <= old + n) /\ i - (old + n) = k
    BY <1>2, <1>11
  <2> HIDE DEF i
  <2>2. queue'[i] = all[i]
    BY <1>10, <1>11, <2>1
  <2>3. all[i] = Due[k]
    BY <1>9b, <2>1
  <2> QED BY <2>2, <2>3 DEF i
<1>13a. queue'[Len(queue')] = "poll"
  <2>1. Len(all) + 1 \in 1..(Len(all) + 1) /\ ~(Len(all) + 1 <= Len(all))
        /\ Len(all) + 1 - Len(all) = 1
    BY <1>2, <1>11
  <2> QED BY <1>9, <1>10, <2>1
<1>14. ASSUME NEW i \in DOMAIN queue'
       PROVE  \/ /\ 0 < i /\ i < Len(queue)
                 /\ i + 1 \in DOMAIN queue /\ queue'[i] = queue[i + 1]
              \/ /\ Len(queue) <= i /\ i < Len(queue) + n
                 /\ queue'[i] = "command"
              \/ i = Len(queue) + n /\ queue'[i] = "beat" /\ beat = 0
              \/ /\ Len(queue) + n <= i /\ i = Len(queue') - 1
                 /\ queue'[i] = "check" /\ recheck = 0
              \/ i = Len(queue') /\ queue'[i] = "poll"
  <2>0. i \in 1..Len(queue') /\ Len(queue) = old + 1
    BY <1>5, <1>11 DEF old
  <2>1. CASE i <= old
    <3>1. queue'[i] = queue[i + 1] /\ i + 1 \in 1..Len(queue)
      BY <1>2, <1>5, <1>11, <1>12, <2>0, <2>1
    <3> QED BY <1>5, <1>11, <2>0, <2>1, <3>1
  <2>2. CASE old < i /\ i <= old + n
    <3>1. queue'[i] = "command"
      BY <1>2, <1>11, <1>12, <2>0, <2>2
    <3> QED BY <1>2, <1>11, <2>0, <2>2, <3>1
  <2>3. CASE old + n < i /\ i <= old + n + Len(Due)
    <3> DEFINE k == i - (old + n)
    <3>1. k \in 1..Len(Due) /\ old + n + k = i
      BY <1>2, <1>11, <2>0, <2>3
    <3> HIDE DEF k
    <3>2. queue'[i] = Due[k]
      BY <1>13, <3>1
    <3>3. \/ Due[k] = "beat" /\ beat = 0 /\ k = 1
          \/ Due[k] = "check" /\ recheck = 0 /\ k = Len(Due)
      BY <3>1, WhatIsDue
    <3>4. k = 1 => i = Len(queue) + n
      BY <1>2, <1>11, <2>0, <3>1
    <3>5. k = Len(Due) => Len(queue) + n <= i /\ i = Len(queue') - 1
      BY <1>2, <1>11, <2>0, <2>3, <3>1
    <3> QED BY <3>2, <3>3, <3>4, <3>5
  <2>4. CASE i = Len(queue')
    BY <1>13a, <2>4
  <2> QED BY <1>2, <1>11, <2>0, <2>1, <2>2, <2>3, <2>4
<1>15. beat = 0 => Len(queue) + n \in DOMAIN queue' /\ queue'[Len(queue) + n] = "beat"
  <2> SUFFICES ASSUME beat = 0
               PROVE  Len(queue) + n \in DOMAIN queue' /\ queue'[Len(queue) + n] = "beat"
    OBVIOUS
  <2>1. Len(Due) > 0 /\ Due[1] = "beat"
    BY WhatIsDue
  <2>2. 1 \in 1..Len(Due) /\ old + n + 1 = Len(queue) + n
    BY <1>2, <1>5, <1>11, <2>1 DEF old
  <2>3. queue'[Len(queue) + n] = "beat"
    BY <1>13, <2>1, <2>2
  <2> QED BY <1>2, <1>11, <2>1, <2>2, <2>3
<1>16. 1 \in DOMAIN queue /\ Len(queue') >= Len(queue) + n
  BY <1>2, <1>5, <1>11 DEF old
<1> QED BY <1>2, <1>4, <1>5, <1>10, <1>11, <1>14, <1>15, <1>16

-----------------------------------------------------------------------------
(* Lemmas about ports.                                                     *)

\* A document that is accepted asks for ports there are.
LEMMA PortsAreAsked ==
    ASSUME TypeOK, main \notin {"initialize", "dead"}
    PROVE  /\ Config.network.command_port \in 0..(PortSpace - 1)
           /\ SsePort(Config) \in 0..(PortSpace - 1)
<1>1. Valid(file) /\ file \in Files
  BY DEF TypeOK
<1>2. /\ Config.network.command_port \in 0..(PortSpace - 1)
      /\ Config.telemetry.sse_port \in 0..(PortSpace - 1)
  BY <1>1, ApplicationAssumption DEF Config
<1>3. \A n \in Nat, c \in Nat : n > 0 => (c + 1) % n \in 0..(n - 1)
  OBVIOUS
<1>4. (Config.network.command_port + 1) % PortSpace \in 0..(PortSpace - 1)
  <2>1. PortSpace \in Nat /\ PortSpace > 0
    BY DEF PortSpace
  <2> QED BY <1>2, <1>3, <2>1
<1> QED BY <1>2, <1>4 DEF SsePort

\* A server gets the port it asked for, or for 0 one that is not 0, and never
\* the one of the other.
LEMMA BoundPort ==
    ASSUME NEW asked \in 0..(PortSpace - 1), NEW other, NEW port,
           NEW bound \in Bindable(asked, other, port)
    PROVE  /\ bound \in 1..(PortSpace - 1)
           /\ asked # 0 => bound = asked
           /\ other = "listening" => bound # port
<1>1. bound \in IF asked = 0 THEN FreePorts ELSE {asked}
  BY DEF Bindable
<1>2. other = "listening" => bound # port
  BY DEF Bindable
<1>3. FreePorts \subseteq 1..(PortSpace - 1)
  BY ApplicationAssumption
<1>4. CASE asked = 0
  BY <1>1, <1>2, <1>3, <1>4
<1>5. CASE asked # 0
  <2>1. asked \in 1..(PortSpace - 1) /\ bound = asked
    BY <1>1, <1>5
  <2> QED BY <1>2, <2>1
<1> QED BY <1>4, <1>5

-----------------------------------------------------------------------------
(* Types, and what has not been started yet.                               *)
LEMMA InitFirst == Init => TypeOK /\ BootOK
<1> SUFFICES ASSUME Init PROVE TypeOK /\ BootOK
  OBVIOUS
<1>1. TypeOK
  <2>1. queue \in Seq(Posted)
    BY DEF Init, Posted
  <2>2. 0 \in 0..Busy /\ 0 \in 0..(PortSpace - 1)
    <3>1. PortSpace - 1 >= 0 /\ PortSpace - 1 \in Nat
      BY DEF PortSpace
    <3>2. \A n \in Nat : 0 \in 0..n
      OBVIOUS
    <3> QED BY <3>1, <3>2, ApplicationAssumption
  <2> QED BY <2>1, <2>2 DEF Init, TypeOK, MainPoints, Servers
<1>2. BootOK
  BY DEF Init, BootOK, Starting
<1> QED BY <1>1, <1>2

\* Every step keeps the types.
LEMMA FirstKept ==
    ASSUME TypeOK, BootOK, [Next]_vars
    PROVE  TypeOK' /\ BootOK'
<1> USE DEF mainVars, runVars, loopVars, timerVars, hubVars
<1>1. file' = file /\ Config' = Config /\ Interval' = Interval
  BY FileKept
<1>2. main \notin {"initialize", "dead"} => Interval \in Nat \ {0}
  BY ApplicationAssumption DEF TypeOK, Interval, Config
<1>3. /\ queue \in Seq(Posted) /\ Off = -1 /\ Busy \in Nat /\ Patience \in Nat
      /\ loop # "idle" => main \notin {"initialize", "dead"}
  BY ApplicationAssumption DEF TypeOK, BootOK, Off
<1>4. CASE UNCHANGED vars
  <2>1. TypeOK'
    BY <1>1, <1>4 DEF vars, TypeOK
  <2>2. BootOK'
    BY <1>4 DEF vars, BootOK
  <2> QED BY <2>1, <2>2
<1>5. CASE Initialize
  BY <1>1, <1>5 DEF Initialize, TypeOK, BootOK, MainPoints, Starting
<1>6. CASE StartTelemetry
  <2>1. queue' \in Seq(Posted)
    BY <1>3, <1>6, PostedBehind DEF StartTelemetry, Posted
  <2>2. main = "telemetry" /\ queue = <<"poll">>
    BY <1>6 DEF StartTelemetry, BootOK
  <2>3. \A i \in DOMAIN queue' : queue'[i] \in {"poll", "open_sse", "schedule"}
    <3>1. \A i \in DOMAIN queue : queue[i] = "poll"
      BY <2>2
    <3>2. "open_sse" \in Posted /\ "schedule" \in Posted
      BY DEF Posted
    <3>3. queue' = queue \o <<"open_sse", "schedule">>
      BY <1>6 DEF StartTelemetry
    <3> QED BY <1>3, <3>1, <3>2, <3>3, PostedBehind
  <2> QED BY <1>1, <1>6, <2>1, <2>3 DEF StartTelemetry, TypeOK, BootOK, MainPoints,
            Starting, Servers
<1>7. CASE ConnectRadios
  BY <1>1, <1>7 DEF ConnectRadios, TypeOK, BootOK, MainPoints, Starting
<1>8. CASE StartGateway
  <2>1. queue' \in Seq(Posted)
    BY <1>3, <1>8, PostedBehind DEF StartGateway, Posted
  <2>2. TypeOK'
    BY <1>1, <1>3, <1>8, <2>1 DEF StartGateway, TypeOK, MainPoints, Servers
  <2>3. BootOK'
    BY <1>8 DEF StartGateway, BootOK, Starting
  <2> QED BY <2>2, <2>3
<1>9. CASE RunnerStarts
  BY <1>1, <1>9 DEF RunnerStarts, TypeOK, BootOK
<1>10. CASE Handle
  <2>0. main \notin {"initialize", "dead"}
    BY <1>3, <1>10 DEF Handle, OpenSse, OpenRest, Schedule, Arm, Beat, BeatWaits,
       PublishHeartbeat, Check, PublishReady, Command, CommandEnds, Cancel,
       Takes, Between, Turning
  <2>1. CASE OpenSse
    <3>1. SsePort(Config) \in 0..(PortSpace - 1)
      BY <2>0, PortsAreAsked
    <3>2. ssePort' \in 0..(PortSpace - 1) /\ sse' \in Servers
      BY <2>1, <3>1, BoundPort DEF OpenSse, TypeOK, Servers
    <3>3. Takes("open_sse")
      BY <2>1 DEF OpenSse
    <3>4. /\ queue' \in Seq(Posted)
          /\ \A i \in DOMAIN queue' : \E j \in DOMAIN queue : queue'[i] = queue[j]
      BY <1>3, <3>3, TakenOut
    <3>5. UNCHANGED <<stopper, main, round, connected, restPort, loop, handler,
                      left, timerVars, stopped, bus, gap, late, rest, ready>>
      BY <2>1 DEF OpenSse
    <3>6. TypeOK'
      BY <1>1, <3>2, <3>4, <3>5 DEF TypeOK
    <3>7. main # "telemetry"
      BY <1>3, <3>3, TakenOut DEF BootOK
    <3>8. BootOK'
      BY <2>0, <3>4, <3>5, <3>7 DEF BootOK
    <3> QED BY <3>6, <3>8
  <2>2. CASE OpenRest
    <3>1. Config.network.command_port \in 0..(PortSpace - 1)
      BY <2>0, PortsAreAsked
    <3>2. restPort' \in 0..(PortSpace - 1) /\ rest' \in Servers
      BY <2>2, <3>1, BoundPort DEF OpenRest, TypeOK, Servers
    <3>3. Takes("open_rest")
      BY <2>2 DEF OpenRest
    <3>4. /\ queue' \in Seq(Posted)
          /\ \A i \in DOMAIN queue' : \E j \in DOMAIN queue : queue'[i] = queue[j]
      BY <1>3, <3>3, TakenOut
    <3>5. UNCHANGED <<stopper, main, round, connected, ssePort, loop, handler,
                      left, timerVars, hubVars, ready>>
      BY <2>2 DEF OpenRest
    <3>6. TypeOK'
      BY <1>1, <3>2, <3>4, <3>5 DEF TypeOK
    <3>7. main \notin Starting
      BY <1>3, <2>0, <3>3, TakenOut DEF BootOK
    <3>8. BootOK'
      BY <3>5, <3>7 DEF BootOK, Starting
    <3> QED BY <3>6, <3>8
  <2>3. CASE Schedule
    <3>1. CASE Takes("schedule")
      BY <1>1, <1>3, <2>0, <2>3, <3>1, TakenOut DEF Schedule, TypeOK, BootOK
    <3>2. CASE handler = "beaten" /\ UNCHANGED queue
      BY <1>1, <1>3, <2>0, <2>3, <3>2 DEF Schedule, TypeOK, BootOK
    <3> QED BY <2>3, <3>1, <3>2 DEF Schedule
  <2>4. CASE Arm
    BY <1>1, <1>2, <1>3, <2>0, <2>4 DEF Arm, TypeOK, BootOK
  <2>5. CASE Beat
    BY <1>1, <1>3, <2>0, <2>5, TakenOut DEF Beat, TypeOK, BootOK
  <2>5a. CASE BeatWaits
    BY <1>1, <1>3, <2>5a, Requeued DEF BeatWaits, TypeOK, BootOK, Starting
  <2>6. CASE PublishHeartbeat
    BY <1>1, <2>0, <2>6 DEF PublishHeartbeat, Publish, TypeOK, BootOK
  <2>7. CASE Check
    <3>1. /\ queue' \in Seq(Posted) /\ main \notin Starting
      BY <1>3, <2>7, TakenOut DEF Check, BootOK
    <3>2. /\ handler' \in {"announce", handler} /\ ready' \in {"gave_up", ready}
          /\ recheck' \in {1, recheck}
          /\ UNCHANGED <<mainVars, loop, left, beat, deadline, hubVars, rest>>
      BY <2>7 DEF Check
    <3>3. TypeOK'
      BY <1>1, <3>1, <3>2 DEF TypeOK
    <3>4. BootOK'
      BY <3>1, <3>2, <2>0 DEF BootOK, Starting
    <3> QED BY <3>3, <3>4
  <2>8. CASE PublishReady
    BY <1>1, <2>0, <2>8 DEF PublishReady, Publish, TypeOK, BootOK
  <2>9. CASE Command
    BY <1>1, <1>3, <2>0, <2>9, TakenOut DEF Command, TypeOK, BootOK
  <2>10. CASE CommandEnds
    BY <1>1, <2>0, <2>10 DEF CommandEnds, Publish, TypeOK, BootOK
  <2>11. CASE Cancel
    BY <1>1, <1>3, <2>0, <2>11, TakenOut
       DEF Cancel, TypeOK, BootOK, MainPoints, Starting
  <2> QED BY <1>10, <2>1, <2>2, <2>3, <2>4, <2>5, <2>5a, <2>6, <2>7, <2>8, <2>9,
             <2>10, <2>11 DEF Handle
<1>11. CASE Poll
  <2>1. TypeOK'
    <3>1. queue' \in Seq(Posted)
      BY <1>11, Polled
    <3>2. beat' \in {Off, beat} /\ recheck' \in {Off, recheck}
      BY <1>11 DEF Poll
    <3>3. UNCHANGED <<mainVars, loop, handler, left, deadline, hubVars, rest, ready>>
      BY <1>11 DEF Poll
    <3> QED BY <1>1, <3>1, <3>2, <3>3 DEF TypeOK
  <2>2. main \notin {"initialize", "dead"}
    BY <1>3, <1>11, Polled
  <2>3. main \in Starting =>
           \A i \in DOMAIN queue' :
              queue'[i] \in {"poll", "open_sse", "schedule", "beat"}
    <3> SUFFICES ASSUME main \in Starting, NEW i \in DOMAIN queue'
                 PROVE  queue'[i] \in {"poll", "open_sse", "schedule", "beat"}
      OBVIOUS
    <3>1. rest = "off" /\ recheck = Off /\ Off # 0
      BY DEF BootOK, Off
    <3>2. PICK n \in 0..Clients :
             /\ n > 0 => rest = "listening"
             /\ \/ i + 1 \in DOMAIN queue /\ queue'[i] = queue[i + 1]
                \/ Len(queue) <= i /\ i < Len(queue) + n
                \/ queue'[i] = "beat"
                \/ recheck = 0
                \/ queue'[i] = "poll"
      BY <1>11, Polled
    <3>3. n = 0
      BY <3>1, <3>2, ApplicationAssumption
    <3>4. ~(Len(queue) <= i /\ i < Len(queue) + n)
      <4>1. i \in Nat /\ Len(queue) \in Nat
        BY <1>11, Polled, LenProperties
      <4> QED BY <3>3, <4>1
    <3> QED BY <3>1, <3>2, <3>4 DEF BootOK
  <2>4. main = "telemetry" => queue' = queue /\ FALSE
    <3> SUFFICES ASSUME main = "telemetry" PROVE FALSE
      OBVIOUS
    <3>1. queue = <<"poll">> /\ Due = <<>> /\ rest = "off"
      BY DEF BootOK, Starting, Due, Off
    <3>2. Tail(queue) = <<>>
      BY <3>1
    <3> QED BY <1>11, <3>1, <3>2, ApplicationAssumption DEF Poll
  <2>5. handler' = handler /\ UNCHANGED <<main, loop, rest, ready, round, connected>>
        /\ beat' \in {Off, beat} /\ recheck' \in {Off, recheck}
    BY <1>11 DEF Poll
  <2>6. BootOK'
    BY <2>2, <2>3, <2>4, <2>5 DEF BootOK
  <2> QED BY <2>1, <2>6
<1>12. CASE Tick
  <2>1. /\ beat' \in {Off} \cup 0..Interval
        /\ main \in {"initialize", "dead", "telemetry"} => beat' = Off
    BY <1>2, <1>3, <1>12 DEF Tick, Down, TypeOK, BootOK
  <2>2. /\ recheck' \in {Off, 0, 1}
        /\ main \in Starting \cup {"initialize", "dead", "telemetry"} => recheck' = Off
    BY <1>3, <1>12 DEF Tick, Down, TypeOK, BootOK
  <2>3. deadline' \in {Off} \cup 0..Patience
    BY <1>3, <1>12 DEF Tick, Down, TypeOK
  <2>4. left' \in 0..Busy
    BY <1>3, <1>12 DEF Tick, Down, TypeOK
  <2>5. gap' \in Nat \cup {Off}
    BY <1>3, <1>12 DEF Tick, TypeOK
  <2>6. TypeOK'
    BY <1>1, <1>12, <2>1, <2>2, <2>3, <2>4, <2>5 DEF Tick, TypeOK
  <2>7. BootOK'
    BY <1>12, <2>1, <2>2 DEF Tick, BootOK
  <2> QED BY <2>6, <2>7
<1>13. CASE StopBegins
  BY <1>1, <1>13 DEF StopBegins, TypeOK, BootOK, MainPoints, Starting
<1>14. CASE StopGateway
  BY <1>1, <1>14 DEF StopGateway, TypeOK, BootOK, MainPoints, Starting, Servers
<1>15. CASE StopFlag
  BY <1>1, <1>15 DEF StopFlag, TypeOK, BootOK, MainPoints, Starting
<1>16. CASE StopCheck
  <2>1. queue' \in Seq(Posted)
    BY <1>3, <1>16, AppendProperties DEF StopCheck, Posted
  <2> QED BY <1>1, <1>16, <2>1 DEF StopCheck, TypeOK, BootOK, MainPoints, Starting
<1>17. CASE StopSse
  BY <1>1, <1>17 DEF StopSse, TypeOK, BootOK, MainPoints, Starting, Servers
<1>18. CASE StopBus
  BY <1>1, <1>18 DEF StopBus, TypeOK, BootOK, MainPoints, Starting
<1>19. CASE RunReturns
  BY <1>1, <1>19 DEF RunReturns, TypeOK, BootOK, MainPoints, Starting
<1>20. CASE Exit
  BY <1>1, <1>20 DEF Exit, TypeOK, BootOK, MainPoints, Starting
<1> QED BY <1>4, <1>5, <1>6, <1>7, <1>8, <1>9, <1>10, <1>11, <1>12, <1>13, <1>14,
           <1>15, <1>16, <1>17, <1>18, <1>19, <1>20 DEF Next, Start, Stop

\* Both hold from the start to the end of every process.
LEMMA FirstLayer == Spec => [](TypeOK /\ BootOK)
<1>1. TypeOK /\ BootOK /\ [Next]_vars => (TypeOK /\ BootOK)'
  BY FirstKept
<1> QED BY <1>1, InitFirst, PTL DEF Spec

\* The state of a process has the types the code gives it, a timer is never
\* armed beyond its period, and a process whose document was refused never
\* gets to start(): for every document, client and duration.
THEOREM TypeCorrect == Spec => []TypeOK
BY FirstLayer, PTL

-----------------------------------------------------------------------------
(* Stopping.                                                               *)

\* A handler runs on the thread of the io_context, which goes on, and of the
\* main thread it can only let the waiting stop() go on.
LEMMA HandleFrame ==
    ASSUME Handle
    PROVE  /\ loop = "running" /\ ~(stopper = "inside" /\ Stopping)
           /\ UNCHANGED <<loop, round, bus, connected>>
           /\ main' = main \/ (main = "wait" /\ main' = "stop_sse")
<1> USE DEF mainVars, runVars, loopVars, timerVars, hubVars, Takes, Between, Turning
<1>1. CASE OpenSse \/ OpenRest
  BY <1>1 DEF OpenSse, OpenRest
<1>2. CASE Schedule \/ Arm \/ Beat \/ BeatWaits \/ PublishHeartbeat
  BY <1>2 DEF Schedule, Arm, Beat, BeatWaits, PublishHeartbeat
<1>3. CASE Check \/ PublishReady \/ Command \/ CommandEnds
  BY <1>3 DEF Check, PublishReady, Command, CommandEnds
<1>4. CASE Cancel
  BY <1>4 DEF Cancel
<1> QED BY <1>1, <1>2, <1>3, <1>4 DEF Handle

LEMMA RoundKept ==
    ASSUME TypeOK, BootOK, RoundOK, [Next]_vars
    PROVE  RoundOK'
<1> USE DEF mainVars, runVars, loopVars, timerVars, hubVars
<1>1. round \in {1, 2}
  BY DEF TypeOK
<1>2. CASE UNCHANGED vars \/ RunnerStarts \/ Poll \/ Tick \/ StopBegins
  BY <1>1, <1>2 DEF vars, RunnerStarts, Poll, Between, Turning, Tick, StopBegins,
     RoundOK, Stops
<1>3. CASE Start
  BY <1>1, <1>3 DEF Start, Initialize, StartTelemetry, ConnectRadios, StartGateway,
     BootOK, RoundOK, Starting
<1>4. CASE Handle
  BY <1>1, <1>4, HandleFrame DEF RoundOK
<1>5. CASE Stop
  BY <1>1, <1>5 DEF Stop, StopGateway, StopFlag, StopCheck, StopSse, StopBus,
     RunReturns, Exit, RoundOK, Stops
<1> QED BY <1>2, <1>3, <1>4, <1>5 DEF Next

LEMMA ClosedKept ==
    ASSUME TypeOK, BootOK, RoundOK, ClosedOK, [Next]_vars
    PROVE  ClosedOK'
<1> USE DEF mainVars, runVars, loopVars, timerVars, hubVars
<1>1. round \in {1, 2}
  BY DEF TypeOK
<1>2. CASE UNCHANGED vars \/ RunnerStarts \/ Poll \/ Tick \/ StopBegins
  BY <1>2 DEF vars, RunnerStarts, Poll, Tick, StopBegins, ClosedOK, Stops
<1>3. CASE Start
  BY <1>1, <1>3 DEF Start, Initialize, StartTelemetry, ConnectRadios, StartGateway,
     BootOK, ClosedOK, Starting, Stops
<1>4. CASE Handle
  <2>1. /\ rest' = rest \/ rest # "closed"
        /\ stopped' = stopped
    BY <1>4 DEF Handle, OpenSse, OpenRest, Schedule, Arm, Beat, BeatWaits,
       PublishHeartbeat, Check, PublishReady, Command, CommandEnds, Cancel
  <2>2. main = "wait" => rest = "closed" /\ stopped
    BY DEF ClosedOK, Stops
  <2> QED BY <1>4, <2>1, <2>2, HandleFrame DEF ClosedOK
<1>5. CASE Stop
  BY <1>1, <1>5 DEF Stop, StopGateway, StopFlag, StopCheck, StopSse, StopBus,
     RunReturns, Exit, ClosedOK, Stops
<1> QED BY <1>2, <1>3, <1>4, <1>5 DEF Next

LEMMA WaitKept ==
    ASSUME TypeOK, BootOK, RoundOK, ClosedOK, WaitOK, [Next]_vars
    PROVE  WaitOK'
<1> USE DEF mainVars, runVars, loopVars, timerVars, hubVars
<1>1. queue \in Seq(Posted) /\ DOMAIN queue = 1..Len(queue) /\ Len(queue) \in Nat
  BY LenProperties DEF TypeOK
<1>2. CASE main' = main /\ queue' = queue
  BY <1>2 DEF WaitOK
<1>3. CASE queue' = queue /\ main # "wait" /\ main' # "wait"
  BY <1>3 DEF WaitOK
<1>4. CASE StartTelemetry \/ StartGateway
  <2>1. main # "wait" /\ main' # "wait"
    BY <1>4 DEF StartTelemetry, StartGateway
  <2>2. PICK g \in Posted, h \in Posted :
           queue' = queue \o <<g, h>> /\ g # "cancel" /\ h # "cancel"
    BY <1>4 DEF StartTelemetry, StartGateway, Posted
  <2>3. \A i \in DOMAIN queue' : queue'[i] # "cancel"
    BY <1>1, <2>1, <2>2, PostedBehind DEF WaitOK
  <2> QED BY <2>1, <2>3 DEF WaitOK
<1>5. CASE \E h : Takes(h) /\ main' = main
  <2>1. PICK h : Takes(h) /\ main' = main
    BY <1>5
  <2>2. \A i \in DOMAIN queue' :
           i + 1 \in DOMAIN queue /\ queue'[i] = queue[i + 1] /\ i \in Nat
    BY <1>1, <2>1, Taken
  <2>3. main = "wait" =>
           \A i, j \in DOMAIN queue' :
              queue'[i] = "cancel" /\ i < j => queue'[j] \in Harmless
    <3> SUFFICES ASSUME main = "wait", NEW i \in DOMAIN queue', NEW j \in DOMAIN queue',
                        queue'[i] = "cancel", i < j
                 PROVE  queue'[j] \in Harmless
      OBVIOUS
    <3>1. i + 1 < j + 1
      BY <2>2
    <3> QED BY <2>2, <3>1 DEF WaitOK
  <2>4. main # "wait" => \A i \in DOMAIN queue' : queue'[i] # "cancel"
    BY <2>2 DEF WaitOK
  <2> QED BY <2>1, <2>3, <2>4 DEF WaitOK
<1>6. CASE Cancel
  <2>1. Takes("cancel")
    BY <1>6 DEF Cancel
  <2>2. \A i \in DOMAIN queue' :
           i + 1 \in DOMAIN queue /\ queue'[i] = queue[i + 1] /\ 1 < i + 1
    <3> TAKE i \in DOMAIN queue'
    <3>1. /\ i + 1 \in DOMAIN queue /\ queue'[i] = queue[i + 1]
          /\ i \in Nat /\ i # 0
      BY <1>1, <2>1, Taken
    <3>2. 1 < i + 1
      BY <3>1
    <3> QED BY <3>1, <3>2
  <2>3. main = "wait" /\ 1 \in DOMAIN queue /\ queue[1] = "cancel"
    BY <1>1, <2>1, Taken DEF WaitOK
  <2>4. main' = "stop_sse" /\ \A i \in DOMAIN queue' : queue'[i] \in Harmless
    BY <1>6, <2>2, <2>3 DEF Cancel, WaitOK
  <2> QED BY <2>4 DEF WaitOK, Harmless
<1>7. CASE Poll
  <2>1. main' = main
    BY <1>7 DEF Poll
  <2>2. PICK n \in 0..Clients :
           /\ n > 0 => rest = "listening"
           /\ \A i \in DOMAIN queue' :
                 \/ /\ 0 < i /\ i < Len(queue)
                    /\ i + 1 \in DOMAIN queue /\ queue'[i] = queue[i + 1]
                 \/ /\ Len(queue) <= i /\ i < Len(queue) + n
                    /\ queue'[i] = "command"
                 \/ queue'[i] \in Harmless
    BY <1>7, Polled DEF Harmless
  <2>3. \A i \in DOMAIN queue' : i \in Nat
    BY <1>7, Polled, LenProperties
  <2>4. CASE main = "wait"
    <3>1. n = 0
      BY <2>2, <2>4, ApplicationAssumption DEF ClosedOK, Stops
    <3>2. \A i \in DOMAIN queue' :
             \/ i + 1 \in DOMAIN queue /\ queue'[i] = queue[i + 1]
             \/ queue'[i] \in Harmless
      BY <1>1, <2>2, <2>3, <3>1
    <3> SUFFICES ASSUME NEW i \in DOMAIN queue', NEW j \in DOMAIN queue',
                        queue'[i] = "cancel", i < j
                 PROVE  queue'[j] \in Harmless
      BY <2>1, <2>4 DEF WaitOK
    <3>3. i + 1 \in DOMAIN queue /\ queue[i + 1] = "cancel" /\ i + 1 < j + 1
      BY <2>3, <3>2 DEF Harmless
    <3> QED BY <2>4, <3>2, <3>3 DEF WaitOK
  <2>5. CASE main # "wait"
    BY <2>1, <2>2, <2>5 DEF WaitOK, Harmless
  <2> QED BY <2>4, <2>5
<1>8. CASE StopCheck
  <2>1. CASE main' = "stop_sse" /\ queue' = queue
    BY <1>8, <2>1 DEF StopCheck, WaitOK
  <2>2. CASE main' = "wait" /\ queue' = Append(queue, "cancel")
    <3>1. main # "wait"
      BY <1>8 DEF StopCheck
    <3>2. /\ Len(queue') = Len(queue) + 1 /\ queue' \in Seq(Posted)
          /\ \A i \in 1..Len(queue) : queue'[i] = queue[i]
      BY <1>1, <2>2, AppendProperties DEF Posted
    <3>3. DOMAIN queue' = 1..Len(queue')
      BY <3>2, LenProperties
    <3>4. \A i \in DOMAIN queue' : queue'[i] = "cancel" => i = Len(queue')
      BY <1>1, <3>1, <3>2, <3>3 DEF WaitOK
    <3>5. \A i, j \in DOMAIN queue' : queue'[i] = "cancel" => ~(i < j)
      BY <1>1, <3>2, <3>3, <3>4
    <3> QED BY <2>2, <3>5 DEF WaitOK
  <2> QED BY <1>8, <2>1, <2>2 DEF StopCheck
<1>9. CASE BeatWaits
  <2>1. main = "wait" /\ main' = main
    BY <1>9 DEF BeatWaits
  <2>2. \A i \in DOMAIN queue' :
           \/ i + 1 \in DOMAIN queue /\ queue'[i] = queue[i + 1] /\ i \in Nat
           \/ queue'[i] = "beat" /\ i = Len(queue')
    BY <1>1, <1>9, Requeued
  <2>3. DOMAIN queue' = 1..Len(queue') /\ Len(queue') \in Nat
    BY <1>1, <1>9, Requeued, LenProperties
  <2> SUFFICES ASSUME NEW i \in DOMAIN queue', NEW j \in DOMAIN queue',
                      queue'[i] = "cancel", i < j
               PROVE  queue'[j] \in Harmless
    BY <2>1 DEF WaitOK
  <2>4. i + 1 \in DOMAIN queue /\ queue[i + 1] = "cancel" /\ i + 1 < j + 1
    BY <2>2, <2>3
  <2> QED BY <2>1, <2>2, <2>4 DEF WaitOK, Harmless
<1>10. CASE Handle /\ ~Cancel /\ ~BeatWaits
  BY <1>2, <1>5, <1>10 DEF Handle, OpenSse, OpenRest, Schedule, Arm, Beat,
     PublishHeartbeat, Check, PublishReady, Command, CommandEnds
<1>11. CASE Stop /\ ~StopCheck
  BY <1>3, <1>11 DEF Stop, StopGateway, StopFlag, StopSse, StopBus, RunReturns, Exit
<1>12. CASE UNCHANGED vars \/ RunnerStarts \/ Tick
  BY <1>2, <1>12 DEF vars, RunnerStarts, Tick
<1>13. CASE StopBegins \/ Initialize \/ ConnectRadios
  BY <1>3, <1>13 DEF StopBegins, Initialize, ConnectRadios
<1> QED BY <1>4, <1>6, <1>7, <1>8, <1>9, <1>10, <1>11, <1>12, <1>13 DEF Next, Start

LEMMA AfterKept ==
    ASSUME TypeOK, BootOK, RoundOK, ClosedOK, WaitOK, AfterOK, [Next]_vars
    PROVE  AfterOK'
<1> USE DEF mainVars, runVars, loopVars, timerVars, hubVars
<1> DEFINE After == {"stop_sse", "stop_bus", "returned", "gone"}
<1>1. /\ queue \in Seq(Posted) /\ DOMAIN queue = 1..Len(queue) /\ Len(queue) \in Nat
      /\ Off = -1
  BY LenProperties DEF TypeOK, Off
<1>2. CASE UNCHANGED <<loop, queue, handler, beat>> /\ (main' \in After => main \in After)
  BY <1>2 DEF AfterOK
<1>3. CASE main' \notin After
  BY <1>3 DEF AfterOK
<1>4. CASE Handle /\ main \in After
  <2>1. /\ main' = main /\ loop = "running" /\ loop' = loop
        /\ beat = Off /\ handler = "none" /\ rest = "closed" /\ stopped
        /\ \A i \in DOMAIN queue : queue[i] \in Harmless
    BY <1>4, HandleFrame DEF AfterOK, ClosedOK, Stops
  <2>2. \A h : Takes(h) => h \in Harmless
    BY <1>1, <2>1, Taken
  <2>3. /\ ~Takes("open_sse") /\ ~Takes("open_rest") /\ ~Takes("schedule")
        /\ ~Takes("command") /\ ~Takes("cancel")
    BY <2>2 DEF Harmless
  <2>3a. ~Arm /\ ~PublishHeartbeat /\ ~PublishReady /\ ~CommandEnds /\ ~BeatWaits
    BY <1>4, <2>1 DEF Arm, PublishHeartbeat, PublishReady, CommandEnds, BeatWaits
  <2>3b. ~OpenSse /\ ~OpenRest /\ ~Schedule /\ ~Command /\ ~Cancel
    BY <2>1, <2>3 DEF OpenSse, OpenRest, Schedule, Command, Cancel
  <2>3c. Check \/ Beat
    BY <1>4, <2>3a, <2>3b DEF Handle
  <2>4. handler' = handler /\ beat' = beat
    BY <2>1, <2>3c DEF Check, Beat, Listening
  <2>5. \A i \in DOMAIN queue' : queue'[i] \in Harmless
    BY <1>1, <2>1, <2>3c, Taken DEF Check, Beat
  <2> QED BY <2>1, <2>4, <2>5 DEF AfterOK
<1>5. CASE Cancel
  <2>1. Takes("cancel")
    BY <1>5 DEF Cancel
  <2>2. \A i \in DOMAIN queue' :
           i + 1 \in DOMAIN queue /\ queue'[i] = queue[i + 1] /\ 1 < i + 1
    <3> TAKE i \in DOMAIN queue'
    <3>1. /\ i + 1 \in DOMAIN queue /\ queue'[i] = queue[i + 1]
          /\ i \in Nat /\ i # 0
      BY <1>1, <2>1, Taken
    <3>2. 1 < i + 1
      BY <3>1
    <3> QED BY <3>1, <3>2
  <2>3. main = "wait" /\ 1 \in DOMAIN queue /\ queue[1] = "cancel"
    BY <1>1, <2>1, Taken DEF WaitOK
  <2>4. \A i \in DOMAIN queue' : queue'[i] \in Harmless
    BY <2>2, <2>3 DEF WaitOK
  <2>5. handler' = "none" /\ beat' = Off
    BY <1>1, <1>5, <2>1, Taken DEF Cancel
  <2> QED BY <2>4, <2>5 DEF AfterOK
<1>6. CASE Handle /\ ~Cancel /\ main \notin After
  <2>1. main' = main
    BY <1>6 DEF Handle, OpenSse, OpenRest, Schedule, Arm, Beat, BeatWaits,
       PublishHeartbeat, Check, PublishReady, Command, CommandEnds
  <2> QED BY <1>3, <1>6, <2>1
<1>7. CASE Poll
  <2>1. CASE main \in After
    <3>1. /\ main' = main /\ loop = "running" /\ handler' = "none"
          /\ beat = Off /\ rest = "closed" /\ beat' = Off
          /\ \A i \in DOMAIN queue : queue[i] \in Harmless
      BY <1>1, <1>7, <2>1, Polled DEF Poll, AfterOK, ClosedOK, Stops
    <3>2. PICK n \in 0..Clients :
             /\ n > 0 => rest = "listening"
             /\ \A i \in DOMAIN queue' :
                   \/ i + 1 \in DOMAIN queue /\ queue'[i] = queue[i + 1]
                   \/ Len(queue) <= i /\ i < Len(queue) + n
                   \/ queue'[i] \in Harmless
      BY <1>7, Polled DEF Harmless
    <3>3. n = 0 /\ \A i \in DOMAIN queue' : i \in Nat
      BY <1>7, <3>1, <3>2, Polled, LenProperties, ApplicationAssumption
    <3>4. \A i \in DOMAIN queue' : queue'[i] \in Harmless
      BY <1>1, <3>1, <3>2, <3>3
    <3> QED BY <3>1, <3>4 DEF AfterOK
  <2> QED BY <1>3, <1>7, <2>1 DEF Poll
<1>8. CASE Tick
  <2>1. UNCHANGED <<main, loop, queue, handler>>
    BY <1>8 DEF Tick
  <2>2. beat = Off => beat' = Off
    BY <1>1, <1>8 DEF Tick, Down
  <2> QED BY <2>1, <2>2 DEF AfterOK
<1>9. CASE StopCheck
  BY <1>9 DEF StopCheck, AfterOK
<1>10. CASE StopSse \/ StopBus \/ Exit
  BY <1>2, <1>10 DEF StopSse, StopBus, Exit
<1>11. CASE StopGateway \/ StopFlag \/ RunReturns \/ StopBegins \/ Start
  BY <1>3, <1>11 DEF StopGateway, StopFlag, RunReturns, StopBegins, Start,
     Initialize, StartTelemetry, ConnectRadios, StartGateway
<1>12. CASE RunnerStarts
  <2>1. UNCHANGED <<main, queue, handler, beat>> /\ loop # "ended"
    BY <1>12 DEF RunnerStarts
  <2> QED BY <2>1 DEF AfterOK
<1>13. CASE UNCHANGED vars
  BY <1>2, <1>13 DEF vars
<1> QED BY <1>4, <1>5, <1>6, <1>7, <1>8, <1>9, <1>10, <1>11, <1>12, <1>13 DEF Next, Stop

LEMMA BusKept ==
    ASSUME TypeOK, BootOK, RoundOK, AfterOK, BusOK, [Next]_vars
    PROVE  BusOK'
<1> USE DEF mainVars, runVars, loopVars, timerVars, hubVars
<1>1. round \in {1, 2}
  BY DEF TypeOK
<1>2. CASE UNCHANGED vars \/ RunnerStarts \/ Poll \/ Tick \/ StopBegins
  BY <1>1, <1>2 DEF vars, RunnerStarts, Poll, Tick, StopBegins, BusOK
<1>3. CASE Start
  BY <1>1, <1>3 DEF Start, Initialize, StartTelemetry, ConnectRadios, StartGateway,
     BusOK, BootOK, Starting
<1>4. CASE Handle
  <2>1. loop = "running" /\ bus' = bus /\ round' = round
        /\ (main' = main \/ main = "wait")
    BY <1>4, HandleFrame
  <2>2. bus = "closed" => handler = "none" /\ main \in {"returned", "gone"}
    BY <1>1, <2>1 DEF BusOK, RoundOK, AfterOK
  <2>3. ~late'
    BY <1>4, <2>2 DEF Handle, OpenSse, OpenRest, Schedule, Arm, Beat, BeatWaits,
       PublishHeartbeat, Check, PublishReady, Command, CommandEnds, Cancel, Publish,
       BusOK
  <2> QED BY <2>1, <2>2, <2>3 DEF BusOK
<1>5. CASE Stop
  BY <1>1, <1>5 DEF Stop, StopGateway, StopFlag, StopCheck, StopSse, StopBus,
     RunReturns, Exit, BusOK
<1> QED BY <1>2, <1>3, <1>4, <1>5 DEF Next

\* What stop() relies on holds of every process at every time.
LEMMA Stopped == Spec => []StopOK
<1>1. Init => StopOK
  BY DEF Init, StopOK, RoundOK, ClosedOK, WaitOK, AfterOK, BusOK, Stops
<1>2. TypeOK /\ BootOK /\ StopOK /\ [Next]_vars => StopOK'
  BY RoundKept, ClosedKept, WaitKept, AfterKept, BusKept DEF StopOK
<1> QED BY <1>1, <1>2, FirstLayer, PTL DEF Spec

\* Once the timer of the heartbeat has been cancelled the hub is silent, however
\* many handlers, polls and second calls of stop() there are: of what could run
\* in it at most a heartbeat that had expired is left, which the flag stops, and
\* the hub is not destroyed before the thread has ended.
THEOREM SilentAfterStop == Spec => []HubIsSilent
<1>1. StopOK => HubIsSilent
  BY DEF StopOK, RoundOK, ClosedOK, AfterOK, HubIsSilent, Harmless, Stops
<1> QED BY <1>1, Stopped, PTL

\* Nothing is ever published to a bus that has been stopped.
THEOREM NothingLate == Spec => []NothingPublishedLate
<1>1. StopOK => NothingPublishedLate
  BY DEF StopOK, BusOK, NothingPublishedLate
<1> QED BY <1>1, Stopped, PTL

-----------------------------------------------------------------------------
(* One heartbeat, one readiness check.                                     *)

\* Steps that take a handler off the queue and post none.
LEMMA HandleTakes ==
    ASSUME Handle
    PROVE  \/ UNCHANGED queue
           \/ \E h \in {"open_sse", "open_rest", "schedule", "beat", "check",
                       "command", "cancel"} : Takes(h)
           \/ BeatWaits
BY DEF Handle, OpenSse, OpenRest, Schedule, Arm, Beat, PublishHeartbeat, Check,
   PublishReady, Command, CommandEnds, Cancel

\* Time does not arm or expire a timer.
LEMMA TickKeepsTimers ==
    ASSUME TypeOK, BootOK, Tick
    PROVE  /\ beat = Off <=> beat' = Off
           /\ recheck = Off <=> recheck' = Off
           /\ UNCHANGED <<main, loop, queue, handler, ready, rest, sse, file>>
<1>1. main \notin {"initialize", "dead"} => Interval \in Nat
  BY ApplicationAssumption DEF TypeOK, Interval, Config
<1>2. beat \in {Off} \cup Nat /\ recheck \in {Off} \cup Nat /\ Off = -1
  BY <1>1 DEF TypeOK, BootOK, Off
<1>3. beat' = Down(beat) /\ recheck' = Down(recheck)
  BY DEF Tick
<1>4. UNCHANGED <<main, loop, queue, handler, ready, rest, sse, file>>
  BY DEF Tick, mainVars, runVars
<1> QED BY <1>2, <1>3, <1>4 DEF Down

\* What stop() posts behind the others.
LEMMA CancelBehind ==
    ASSUME queue \in Seq(Posted), StopCheck
    PROVE  \A i \in DOMAIN queue' :
              \/ i \in DOMAIN queue /\ queue'[i] = queue[i]
              \/ queue'[i] = "cancel"
<1>1. CASE queue' = queue
  BY <1>1
<1>2. CASE queue' = Append(queue, "cancel")
  <2>1. /\ Len(queue') = Len(queue) + 1 /\ queue' \in Seq(Posted)
        /\ queue'[Len(queue) + 1] = "cancel"
        /\ \A i \in 1..Len(queue) : queue'[i] = queue[i]
    BY <1>2, AppendProperties DEF Posted
  <2>2. /\ DOMAIN queue = 1..Len(queue) /\ Len(queue) \in Nat
        /\ DOMAIN queue' = 1..Len(queue')
    BY <2>1, LenProperties
  <2> QED BY <2>1, <2>2
<1> QED BY <1>1, <1>2 DEF StopCheck

LEMMA BeatKept ==
    ASSUME TypeOK, BootOK, BeatOK, [Next]_vars
    PROVE  BeatOK'
<1> USE DEF mainVars, runVars, loopVars, timerVars, hubVars
<1> DEFINE Again(q, i) == q[i] \in {"schedule", "beat"}
<1>1. queue \in Seq(Posted) /\ DOMAIN queue = 1..Len(queue) /\ Len(queue) \in Nat
  BY LenProperties DEF TypeOK
<1>2. CASE UNCHANGED <<queue, beat>> /\ (handler' \in Beating => handler \in Beating)
  BY <1>2 DEF BeatOK
<1>3. CASE StartTelemetry
  <2>1. queue = <<"poll">> /\ beat' = Off /\ handler' = "none"
    BY <1>3 DEF StartTelemetry, BootOK
  <2>2. \A i \in DOMAIN queue' : Again(queue', i) => i = Len(queue) + 2
    <3>1. \A i \in DOMAIN queue : queue[i] = "poll"
      BY <2>1
    <3>2. "open_sse" \in Posted /\ "schedule" \in Posted
      BY DEF Posted
    <3>3. queue' = queue \o <<"open_sse", "schedule">>
      BY <1>3 DEF StartTelemetry
    <3> QED BY <1>1, <3>1, <3>2, <3>3, PostedBehind
  <2> QED BY <2>1, <2>2 DEF BeatOK, Beating
<1>4. CASE StartGateway
  <2>1. \A i \in DOMAIN queue' : Again(queue', i) =>
           i \in DOMAIN queue /\ Again(queue, i)
    <3>1. queue' = queue \o <<"open_rest", "check">>
      BY <1>4 DEF StartGateway
    <3>2. "open_rest" \in Posted /\ "check" \in Posted
      BY DEF Posted
    <3>3. \A i \in DOMAIN queue' :
             \/ i \in DOMAIN queue /\ queue'[i] = queue[i]
             \/ queue'[i] = "open_rest"
             \/ queue'[i] = "check"
      BY <1>1, <3>1, <3>2, PostedBehind
    <3> QED BY <3>3
  <2>2. UNCHANGED <<beat, handler>>
    BY <1>4 DEF StartGateway
  <2> QED BY <2>1, <2>2 DEF BeatOK
<1>5. CASE /\ \E h : Takes(h) /\ h \notin {"schedule", "beat"}
           /\ beat' \in {beat, Off} /\ handler' \notin Beating
  <2>1. \A i \in DOMAIN queue' : Again(queue', i) =>
           i + 1 \in DOMAIN queue /\ Again(queue, i + 1) /\ i \in Nat
    BY <1>1, <1>5, Taken
  <2>2. \A i \in DOMAIN queue' : Again(queue', i) => beat' = Off
    BY <1>5, <2>1 DEF BeatOK
  <2>3. \A i, j \in DOMAIN queue' : Again(queue', i) /\ Again(queue', j) => i = j
    <3> TAKE i, j \in DOMAIN queue'
    <3>1. Again(queue', i) /\ Again(queue', j) => i + 1 = j + 1 /\ i \in Nat /\ j \in Nat
      BY <2>1 DEF BeatOK
    <3> QED BY <3>1
  <2> QED BY <1>5, <2>2, <2>3 DEF BeatOK
<1>6. CASE /\ \E h : Takes(h) /\ h \in {"schedule", "beat"}
           /\ beat' = beat
  <2>1. /\ 1 \in DOMAIN queue /\ Again(queue, 1) /\ beat' = Off
        /\ \A i \in DOMAIN queue' :
              i + 1 \in DOMAIN queue /\ queue'[i] = queue[i + 1] /\ i \in Nat /\ i # 0
    BY <1>1, <1>6, Taken DEF BeatOK
  <2>2. \A i \in DOMAIN queue' : ~Again(queue', i)
    <3> SUFFICES ASSUME NEW i \in DOMAIN queue', Again(queue', i) PROVE FALSE
      OBVIOUS
    <3>1. i + 1 = 1 /\ i \in Nat /\ i # 0
      BY <2>1 DEF BeatOK
    <3> QED BY <3>1
  <2> QED BY <2>1, <2>2 DEF BeatOK
<1>7. CASE Handle
  <2>1. CASE Schedule \/ Beat
    BY <1>2, <1>6, <2>1 DEF Schedule, Beat, Beating
  <2>2. CASE Arm
    <3>1. /\ \A i \in DOMAIN queue : ~Again(queue, i)
          /\ queue' = queue /\ handler' = "none"
      BY <2>2 DEF Arm, BeatOK, Beating
    <3> QED BY <3>1 DEF BeatOK, Beating
  <2>3. CASE PublishHeartbeat \/ PublishReady \/ CommandEnds
    BY <1>2, <2>3 DEF PublishHeartbeat, PublishReady, CommandEnds, Beating
  <2>4. CASE OpenSse \/ OpenRest \/ Check \/ Command \/ Cancel
    <3>1. \E h : Takes(h) /\ h \notin {"schedule", "beat"}
      BY <2>4 DEF OpenSse, OpenRest, Check, Command, Cancel
    <3>2. handler = "none"
      BY <3>1 DEF Takes, Between
    <3>3. handler' \notin Beating
      BY <2>4, <3>2 DEF OpenSse, OpenRest, Check, Command, Cancel, Beating
    <3>4. beat' \in {beat, Off}
      BY <2>4 DEF OpenSse, OpenRest, Check, Command, Cancel
    <3> QED BY <1>5, <3>1, <3>3, <3>4
  <2>5. CASE BeatWaits
    <3>1. /\ 1 \in DOMAIN queue /\ Again(queue, 1) /\ beat' = Off /\ handler' = "none"
          /\ \A i \in DOMAIN queue' :
                \/ i + 1 \in DOMAIN queue /\ queue'[i] = queue[i + 1] /\ i \in Nat /\ i # 0
                \/ i = Len(queue)
      BY <1>1, <2>5, Requeued DEF BeatWaits, BeatOK
    <3>2. \A i \in DOMAIN queue' : Again(queue', i) => i = Len(queue)
      <4> SUFFICES ASSUME NEW i \in DOMAIN queue', Again(queue', i), i # Len(queue)
                   PROVE  FALSE
        OBVIOUS
      <4>1. i + 1 = 1 /\ i \in Nat /\ i # 0
        BY <3>1 DEF BeatOK
      <4> QED BY <4>1
    <3> QED BY <3>1, <3>2 DEF BeatOK, Beating
  <2> QED BY <1>7, <2>1, <2>2, <2>3, <2>4, <2>5 DEF Handle
<1>8. CASE Poll
  <2>1. PICK n \in 0..Clients :
           \A i \in DOMAIN queue' : Again(queue', i) =>
              \/ /\ i + 1 \in DOMAIN queue /\ Again(queue, i + 1)
              \/ i = Len(queue) + n /\ beat = 0
    BY <1>8, Polled
  <2>2. \A i \in DOMAIN queue' : i \in Nat
    BY <1>8, Polled, LenProperties
  <2>3. /\ \A i \in DOMAIN queue : Again(queue, i) => beat = Off
        /\ Off # 0
    BY DEF BeatOK, Off
  <2>4. \A i, j \in DOMAIN queue' : Again(queue', i) /\ Again(queue', j) => i = j
    <3> SUFFICES ASSUME NEW i \in DOMAIN queue', NEW j \in DOMAIN queue',
                        Again(queue', i), Again(queue', j)
                 PROVE  i = j
      OBVIOUS
    <3>1. CASE beat = 0
      BY <2>1, <2>3, <3>1
    <3>2. CASE beat # 0
      <4>1. i + 1 = j + 1
        BY <2>1, <3>2 DEF BeatOK
      <4> QED BY <2>2, <4>1
    <3> QED BY <3>1, <3>2
  <2>5. beat' = (IF beat = 0 THEN Off ELSE beat) /\ handler' = "none"
    BY <1>8, Polled DEF Poll
  <2>6. \A i \in DOMAIN queue' : Again(queue', i) => beat' = Off
    BY <2>1, <2>3, <2>5
  <2> QED BY <2>4, <2>5, <2>6 DEF BeatOK, Beating
<1>9. CASE Tick
  BY <1>9, TickKeepsTimers DEF BeatOK
<1>10. CASE StopCheck
  <2>1. \A i \in DOMAIN queue' : Again(queue', i) =>
           i \in DOMAIN queue /\ Again(queue, i)
    BY <1>1, <1>10, CancelBehind
  <2>2. beat' \in {beat, Off} /\ handler' = handler
    BY <1>10 DEF StopCheck
  <2> QED BY <2>1, <2>2 DEF BeatOK
<1>11. CASE UNCHANGED vars \/ Initialize \/ ConnectRadios \/ RunnerStarts \/ StopBegins
  BY <1>2, <1>11 DEF vars, Initialize, ConnectRadios, RunnerStarts, StopBegins
<1>12. CASE Stop /\ ~StopCheck
  BY <1>2, <1>12 DEF Stop, StopGateway, StopFlag, StopSse, StopBus, RunReturns, Exit
<1> QED BY <1>3, <1>4, <1>7, <1>8, <1>9, <1>10, <1>11, <1>12 DEF Next, Start

\* Every process keeps the places of the heartbeat apart.
LEMMA HeartbeatPlaced == Spec => []BeatOK
<1>1. Init => BeatOK
  BY DEF Init, BeatOK, Beating
<1>2. TypeOK /\ BootOK /\ BeatOK /\ [Next]_vars => BeatOK'
  BY BeatKept
<1> QED BY <1>1, <1>2, FirstLayer, PTL DEF Spec

\* The heartbeat is one thread of control: it is posted, armed, expired or in
\* its handler, at one of these places at a time, in every process.
THEOREM HeartbeatIsOne == Spec => []OneHeartbeat
<1>1. BeatOK => OneHeartbeat
  <2> SUFFICES ASSUME BeatOK PROVE OneHeartbeat
    OBVIOUS
  <2> DEFINE places == {i \in DOMAIN queue : queue[i] \in {"schedule", "beat"}}
  <2>1. CASE places = {}
    <3>1. Cardinality(places) = 0
      BY <2>1, FS_EmptySet
    <3>2. beat = Off \/ handler \notin Beating
      BY DEF BeatOK
    <3> HIDE DEF places
    <3>3. Cardinality(places) + (IF beat # Off THEN 1 ELSE 0)
             + (IF handler \in Beating THEN 1 ELSE 0) <= 1
      BY <3>1, <3>2
    <3> QED BY <3>3 DEF OneHeartbeat, Beating, places
  <2>2. CASE places # {}
    <3>1. PICK i \in DOMAIN queue : queue[i] \in {"schedule", "beat"}
      BY <2>2
    <3>2. places = {i} /\ beat = Off /\ handler \notin Beating
      BY <3>1 DEF BeatOK
    <3>3. Cardinality(places) = 1
      BY <3>2, FS_Singleton
    <3> HIDE DEF places
    <3>4. Cardinality(places) + (IF beat # Off THEN 1 ELSE 0)
             + (IF handler \in Beating THEN 1 ELSE 0) <= 1
      BY <3>2, <3>3
    <3> QED BY <3>4 DEF OneHeartbeat, Beating, places
  <2> QED BY <2>1, <2>2
<1> QED BY <1>1, HeartbeatPlaced, PTL

LEMMA CheckKept ==
    ASSUME TypeOK, BootOK, CheckOK, [Next]_vars
    PROVE  CheckOK'
<1> USE DEF mainVars, runVars, loopVars, timerVars, hubVars
<1>1. queue \in Seq(Posted) /\ DOMAIN queue = 1..Len(queue) /\ Len(queue) \in Nat
  BY LenProperties DEF TypeOK
<1>2. CASE UNCHANGED <<queue, recheck, ready>> /\ (handler' = "announce" => handler = "announce")
  BY <1>2 DEF CheckOK
<1>3. CASE StartTelemetry
  <2>1. queue = <<"poll">> /\ recheck' = Off /\ handler' = "none"
    BY <1>3 DEF StartTelemetry, BootOK
  <2>2. \A i \in DOMAIN queue' : queue'[i] # "check"
    <3>1. \A i \in DOMAIN queue : queue[i] = "poll"
      BY <2>1
    <3>2. "open_sse" \in Posted /\ "schedule" \in Posted
      BY DEF Posted
    <3>3. queue' = queue \o <<"open_sse", "schedule">>
      BY <1>3 DEF StartTelemetry
    <3> QED BY <1>1, <3>1, <3>2, <3>3, PostedBehind
  <2> QED BY <2>1, <2>2 DEF CheckOK
<1>4. CASE StartGateway
  <2>1. /\ \A i \in DOMAIN queue : queue[i] # "check"
        /\ recheck' = Off /\ handler' # "announce" /\ ready' = "pending"
    BY <1>4 DEF StartGateway, BootOK, Starting
  <2>2. queue' = queue \o <<"open_rest", "check">>
    BY <1>4 DEF StartGateway
  <2>3. "open_rest" \in Posted /\ "check" \in Posted
    BY DEF Posted
  <2>4. \A i \in DOMAIN queue' : queue'[i] = "check" => i = Len(queue) + 2
    BY <1>1, <2>1, <2>2, <2>3, PostedBehind
  <2> QED BY <2>1, <2>4 DEF CheckOK
<1>5. CASE /\ \E h : Takes(h) /\ h # "check"
           /\ UNCHANGED <<recheck, ready>> /\ handler' # "announce"
  <2>1. \A i \in DOMAIN queue' :
           i + 1 \in DOMAIN queue /\ queue'[i] = queue[i + 1] /\ i \in Nat
    BY <1>1, <1>5, Taken
  <2>2. \A i, j \in DOMAIN queue' : queue'[i] = "check" /\ queue'[j] = "check" => i = j
    <3> TAKE i, j \in DOMAIN queue'
    <3>1. queue'[i] = "check" /\ queue'[j] = "check" =>
             i + 1 = j + 1 /\ i \in Nat /\ j \in Nat
      BY <2>1 DEF CheckOK
    <3> QED BY <3>1
  <2>3. \A i \in DOMAIN queue' : queue'[i] = "check" => recheck = Off /\ ready = "pending"
    BY <2>1 DEF CheckOK
  <2> QED BY <1>5, <2>2, <2>3 DEF CheckOK
<1>6. CASE Check
  <2>1. /\ 1 \in DOMAIN queue /\ queue[1] = "check"
        /\ \A i \in DOMAIN queue' :
              i + 1 \in DOMAIN queue /\ queue'[i] = queue[i + 1] /\ i \in Nat /\ i # 0
    BY <1>1, <1>6, Taken DEF Check
  <2>2. recheck = Off /\ ready = "pending" /\ handler = "none"
    BY <1>6, <2>1 DEF CheckOK, Check, Takes, Between
  <2>3. \A i \in DOMAIN queue' : queue'[i] # "check"
    <3> SUFFICES ASSUME NEW i \in DOMAIN queue', queue'[i] = "check" PROVE FALSE
      OBVIOUS
    <3>1. i + 1 = 1 /\ i \in Nat /\ i # 0
      BY <2>1 DEF CheckOK
    <3> QED BY <3>1
  <2>4. \/ handler' = "announce" /\ ready' = "pending" /\ recheck' = Off
        \/ handler' = "none" /\ recheck' = Off
        \/ handler' = "none" /\ ready' = "pending"
    BY <1>6, <2>2 DEF Check
  <2> QED BY <2>3, <2>4 DEF CheckOK
<1>7. CASE PublishReady
  <2>1. /\ \A i \in DOMAIN queue : queue[i] # "check"
        /\ recheck = Off
    BY <1>7 DEF PublishReady, CheckOK
  <2> QED BY <1>7, <2>1 DEF PublishReady, CheckOK
<1>8. CASE Handle /\ ~Check /\ ~PublishReady
  <2>1. CASE OpenSse \/ OpenRest \/ Command \/ Cancel \/ Beat
    <3>1. \E h : Takes(h) /\ h # "check"
      BY <2>1 DEF OpenSse, OpenRest, Command, Cancel, Beat
    <3>2. handler = "none"
      BY <3>1 DEF Takes, Between
    <3>3. handler' # "announce" /\ UNCHANGED <<recheck, ready>>
      BY <2>1, <3>2 DEF OpenSse, OpenRest, Command, Cancel, Beat
    <3> QED BY <1>5, <3>1, <3>3
  <2>2. CASE Schedule
    BY <1>2, <1>5, <2>2 DEF Schedule
  <2>3. CASE Arm \/ PublishHeartbeat \/ CommandEnds
    BY <1>2, <2>3 DEF Arm, PublishHeartbeat, CommandEnds
  <2>4. CASE BeatWaits
    <3>1. /\ handler' = "none" /\ UNCHANGED <<recheck, ready>>
          /\ \A i \in DOMAIN queue' : queue'[i] = "check" =>
                i + 1 \in DOMAIN queue /\ queue[i + 1] = "check" /\ i \in Nat
      BY <1>1, <2>4, Requeued DEF BeatWaits
    <3>2. \A i, j \in DOMAIN queue' :
             queue'[i] = "check" /\ queue'[j] = "check" => i = j
      <4> SUFFICES ASSUME NEW i \in DOMAIN queue', NEW j \in DOMAIN queue',
                          queue'[i] = "check", queue'[j] = "check"
                   PROVE  i = j
        OBVIOUS
      <4>1. i + 1 = j + 1 /\ i \in Nat /\ j \in Nat
        BY <3>1 DEF CheckOK
      <4> QED BY <4>1
    <3> QED BY <3>1, <3>2 DEF CheckOK
  <2> QED BY <1>8, <2>1, <2>2, <2>3, <2>4 DEF Handle
<1>9. CASE Poll
  <2>1. \A i \in DOMAIN queue' : queue'[i] = "check" =>
           \/ i + 1 \in DOMAIN queue /\ queue[i + 1] = "check"
           \/ i = Len(queue') - 1 /\ recheck = 0
    BY <1>9, Polled
  <2>2. \A i \in DOMAIN queue' : i \in Nat
    BY <1>9, Polled, LenProperties
  <2>3. /\ \A i \in DOMAIN queue : queue[i] = "check" => recheck = Off
        /\ Off # 0
    BY DEF CheckOK, Off
  <2>4. \A i, j \in DOMAIN queue' :
           queue'[i] = "check" /\ queue'[j] = "check" => i = j
    <3> SUFFICES ASSUME NEW i \in DOMAIN queue', NEW j \in DOMAIN queue',
                        queue'[i] = "check", queue'[j] = "check"
                 PROVE  i = j
      OBVIOUS
    <3>1. CASE recheck = 0
      BY <2>1, <2>3, <3>1
    <3>2. CASE recheck # 0
      <4>1. i + 1 = j + 1
        BY <2>1, <3>2 DEF CheckOK
      <4> QED BY <2>2, <4>1
    <3> QED BY <3>1, <3>2
  <2>5. /\ recheck' = IF recheck = 0 THEN Off ELSE recheck
        /\ handler' = "none" /\ ready' = ready
    BY <1>9, Polled DEF Poll
  <2>6. \A i \in DOMAIN queue' : queue'[i] = "check" =>
           recheck' = Off /\ ready' = "pending"
    BY <2>1, <2>3, <2>5 DEF CheckOK
  <2>7. recheck' # Off => ready' = "pending"
    BY <2>5 DEF CheckOK
  <2> QED BY <2>4, <2>5, <2>6, <2>7 DEF CheckOK
<1>10. CASE Tick
  BY <1>10, TickKeepsTimers DEF CheckOK
<1>11. CASE StopCheck
  <2>1. \A i \in DOMAIN queue' : queue'[i] = "check" =>
           i \in DOMAIN queue /\ queue[i] = "check"
    BY <1>1, <1>11, CancelBehind
  <2>2. UNCHANGED <<recheck, ready, handler>>
    BY <1>11 DEF StopCheck
  <2> QED BY <2>1, <2>2 DEF CheckOK
<1>12. CASE UNCHANGED vars \/ Initialize \/ ConnectRadios \/ RunnerStarts \/ StopBegins
  BY <1>2, <1>12 DEF vars, Initialize, ConnectRadios, RunnerStarts, StopBegins
<1>13. CASE Stop /\ ~StopCheck
  BY <1>2, <1>13 DEF Stop, StopGateway, StopFlag, StopSse, StopBus, RunReturns, Exit
<1> QED BY <1>3, <1>4, <1>6, <1>7, <1>8, <1>9, <1>10, <1>11, <1>12, <1>13
     DEF Next, Start

LEMMA PortsKept ==
    ASSUME TypeOK, BootOK, PortsOK, [Next]_vars
    PROVE  PortsOK'
<1> USE DEF mainVars, runVars, loopVars, timerVars, hubVars
<1>1. Config' = Config
  BY FileKept
<1>2. CASE /\ UNCHANGED <<sse, rest, restPort, ssePort>>
           /\ main' = "serving" => main = "serving"
           /\ ready' = "published" => ready = "published" \/ handler = "announce"
           /\ handler' = "announce" => handler = "announce" \/ Listening
  BY <1>1, <1>2 DEF PortsOK, Listening
<1>3. CASE Start
  BY <1>1, <1>3 DEF Start, Initialize, StartTelemetry, ConnectRadios, StartGateway,
     PortsOK, Listening, BootOK, Starting
<1>4. CASE OpenSse
  <2>1. /\ UNCHANGED <<rest, restPort, main, ready>>
        /\ handler = "none" /\ handler' = "none"
        /\ \/ UNCHANGED <<sse, ssePort>>
           \/ sse = "opening" /\ sse' = "failed"
           \/ /\ sse = "opening" /\ sse' = "listening"
              /\ ssePort' \in Bindable(SsePort(Config), rest, restPort)
    BY <1>4 DEF OpenSse, Takes, Between
  <2>2. CASE UNCHANGED <<sse, ssePort>>
    BY <1>2, <2>1, <2>2
  <2>3. CASE sse = "opening" /\ sse' = "failed"
    BY <1>1, <2>1, <2>3 DEF PortsOK, Listening
  <2>4. CASE /\ sse = "opening" /\ sse' = "listening"
             /\ ssePort' \in Bindable(SsePort(Config), rest, restPort)
    <3>1. main \notin {"initialize", "dead"}
      BY <1>4 DEF OpenSse, Takes, Between, Turning, BootOK
    <3>2. /\ SsePort(Config) # 0 => ssePort' = SsePort(Config)
          /\ rest = "listening" => ssePort' # restPort
      BY <2>4, <3>1, PortsAreAsked, BoundPort
    <3> QED BY <1>1, <2>1, <2>4, <3>2 DEF PortsOK, Listening
  <2> QED BY <2>1, <2>2, <2>3, <2>4
<1>5. CASE OpenRest
  <2>1. /\ UNCHANGED <<sse, ssePort, main, ready>>
        /\ handler = "none" /\ handler' = "none"
        /\ \/ UNCHANGED <<rest, restPort>>
           \/ rest = "opening" /\ rest' = "failed"
           \/ /\ rest = "opening" /\ rest' = "listening"
              /\ restPort' \in Bindable(Config.network.command_port, sse, ssePort)
    BY <1>5 DEF OpenRest, Takes, Between
  <2>2. CASE UNCHANGED <<rest, restPort>>
    BY <1>2, <2>1, <2>2
  <2>3. CASE rest = "opening" /\ rest' = "failed"
    BY <1>1, <2>1, <2>3 DEF PortsOK, Listening
  <2>4. CASE /\ rest = "opening" /\ rest' = "listening"
             /\ restPort' \in Bindable(Config.network.command_port, sse, ssePort)
    <3>1. main \notin {"initialize", "dead"}
      BY <1>5 DEF OpenRest, Takes, Between, Turning, BootOK
    <3>2. /\ Config.network.command_port # 0 =>
                restPort' = Config.network.command_port
          /\ sse = "listening" => restPort' # ssePort
      BY <2>4, <3>1, PortsAreAsked, BoundPort
    <3> QED BY <1>1, <2>1, <2>4, <3>2 DEF PortsOK, Listening
  <2> QED BY <2>1, <2>2, <2>3, <2>4
<1>6. CASE Handle /\ ~OpenSse /\ ~OpenRest
  <2>1. CASE Schedule \/ Arm \/ Beat \/ BeatWaits \/ PublishHeartbeat \/ Check
    BY <1>2, <2>1 DEF Schedule, Arm, Beat, BeatWaits, PublishHeartbeat, Check
  <2>2. CASE PublishReady \/ Command \/ CommandEnds \/ Cancel
    BY <1>2, <2>2 DEF PublishReady, Command, CommandEnds, Cancel
  <2> QED BY <1>6, <2>1, <2>2 DEF Handle
<1>7. CASE Tick
  BY <1>2, <1>7 DEF Tick
<1>8. CASE UNCHANGED vars \/ RunnerStarts \/ StopBegins \/ Poll
  BY <1>2, <1>8 DEF vars, RunnerStarts, StopBegins, Poll
<1>9. CASE StopFlag \/ StopCheck \/ StopBus \/ RunReturns \/ Exit
  BY <1>2, <1>9 DEF StopFlag, StopCheck, StopBus, RunReturns, Exit
<1>10. CASE StopGateway \/ StopSse
  BY <1>1, <1>10 DEF StopGateway, StopSse, PortsOK, Listening
<1> QED BY <1>3, <1>4, <1>5, <1>6, <1>7, <1>8, <1>9, <1>10 DEF Next, Stop

LEMMA CommandKept ==
    ASSUME TypeOK, BootOK, CommandOK, [Next]_vars
    PROVE  CommandOK'
<1> USE DEF mainVars, runVars, loopVars, timerVars, hubVars
<1> DEFINE Under == handler = "command" \/ (\E i \in DOMAIN queue : queue[i] = "command")
<1>1. queue \in Seq(Posted) /\ DOMAIN queue = 1..Len(queue) /\ Len(queue) \in Nat
  BY LenProperties DEF TypeOK
<1>2. CASE Start
  <2>1. main \in Starting /\ handler' # "command"
    BY <1>2 DEF Start, Initialize, StartTelemetry, ConnectRadios, StartGateway,
       BootOK, Starting
  <2>2. \A i \in DOMAIN queue : queue[i] # "command"
    BY <2>1 DEF BootOK
  <2>3. CASE queue' = queue
    BY <2>1, <2>2, <2>3 DEF CommandOK
  <2>4. CASE \E g, h \in Posted \ {"command"} : queue' = queue \o <<g, h>>
    <3>1. \A i \in DOMAIN queue' : queue'[i] # "command"
      BY <1>1, <2>2, <2>4, PostedBehind
    <3> QED BY <2>1, <3>1 DEF CommandOK
  <2> QED BY <1>2, <2>3, <2>4
       DEF Start, Initialize, StartTelemetry, ConnectRadios, StartGateway, Posted
<1>3. CASE /\ Under' => Under
           /\ main \notin Starting => main' \notin Starting
           /\ main' = "serving" => main = "serving"
           /\ main = "serving" /\ rest = "listening" => rest' = "listening"
  BY <1>3 DEF CommandOK
<1>4. CASE Handle
  <2>1. \A h : Takes(h) =>
           \A i \in DOMAIN queue' :
              i + 1 \in DOMAIN queue /\ queue'[i] = queue[i + 1]
    BY <1>1, Taken
  <2>2. (\E i \in DOMAIN queue' : queue'[i] = "command") =>
           \E i \in DOMAIN queue : queue[i] = "command"
    BY <1>1, <1>4, <2>1, HandleTakes, Requeued
  <2>3. Takes("command") => \E i \in DOMAIN queue : queue[i] = "command"
    BY <1>1, Taken
  <2>4. handler' = "command" => handler = "command" \/ Takes("command")
    BY <1>4 DEF Handle, OpenSse, OpenRest, Schedule, Arm, Beat, BeatWaits,
       PublishHeartbeat, Check, PublishReady, Command, CommandEnds, Cancel
  <2>5. Under' => Under
    BY <2>2, <2>3, <2>4
  <2>6. rest = "listening" => rest' = "listening"
    BY <1>4 DEF Handle, OpenSse, OpenRest, Schedule, Arm, Beat, BeatWaits,
       PublishHeartbeat, Check, PublishReady, Command, CommandEnds, Cancel
  <2>7. main' \in {main, "stop_sse"}
    BY <1>4, HandleFrame
  <2> HIDE DEF Under
  <2> QED BY <1>3, <2>5, <2>6, <2>7 DEF Starting
<1>5. CASE Poll
  <2>1. Under' => Under \/ rest = "listening"
    <3> SUFFICES ASSUME NEW i \in DOMAIN queue', queue'[i] = "command",
                        rest # "listening"
                 PROVE  \E j \in DOMAIN queue : queue[j] = "command"
      BY <1>5 DEF Poll
    <3>1. PICK n \in 0..Clients :
             /\ n > 0 => rest = "listening"
             /\ \/ i + 1 \in DOMAIN queue /\ queue'[i] = queue[i + 1]
                \/ Len(queue) <= i /\ i < Len(queue) + n
      BY <1>5, Polled
    <3>2. n = 0 /\ i \in Nat
      BY <1>5, <3>1, Polled, LenProperties, ApplicationAssumption
    <3> QED BY <1>1, <3>1, <3>2
  <2>2. UNCHANGED <<main, rest>>
    BY <1>5 DEF Poll
  <2>3. main \in Starting => rest = "off"
    BY DEF BootOK
  <2> QED BY <2>1, <2>2, <2>3 DEF CommandOK
<1>6. CASE Tick
  BY <1>3, <1>6, TickKeepsTimers
<1>7. CASE StopCheck
  <2>1. \A i \in DOMAIN queue' : queue'[i] = "command" =>
           i \in DOMAIN queue /\ queue[i] = "command"
    BY <1>1, <1>7, CancelBehind
  <2>2. main' \notin Starting \cup {"serving"} /\ main \notin Starting /\ handler' = handler
    BY <1>7 DEF StopCheck, Starting
  <2> QED BY <2>1, <2>2 DEF CommandOK
<1>8. CASE Stop /\ ~StopCheck
  <2>1. UNCHANGED <<queue, handler>> /\ main' \notin Starting \cup {"serving"}
    BY <1>8 DEF Stop, StopGateway, StopFlag, StopSse, StopBus, RunReturns, Exit, Starting
  <2> QED BY <2>1 DEF CommandOK
<1>9. CASE UNCHANGED vars \/ RunnerStarts
  BY <1>3, <1>9 DEF vars, RunnerStarts
<1>10. CASE StopBegins
  <2>1. UNCHANGED <<queue, handler>> /\ main' = "stop_gateway"
    BY <1>10 DEF StopBegins
  <2> QED BY <2>1 DEF CommandOK, Starting
<1> QED BY <1>2, <1>4, <1>5, <1>6, <1>7, <1>8, <1>9, <1>10 DEF Next

\* Commands and the readiness check are where the servers let them be.
LEMMA Served == Spec => [](CheckOK /\ PortsOK /\ CommandOK)
<1>1. Init => CheckOK /\ PortsOK /\ CommandOK
  BY DEF Init, CheckOK, PortsOK, CommandOK, Listening
<1>2. TypeOK /\ BootOK /\ CheckOK /\ PortsOK /\ CommandOK /\ [Next]_vars
         => (CheckOK /\ PortsOK /\ CommandOK)'
  BY CheckKept, PortsKept, CommandKept
<1> QED BY <1>1, <1>2, FirstLayer, PTL DEF Spec

-----------------------------------------------------------------------------
(* What is told and promised outside.                                      *)

\* Only the last port has none behind it.
LEMMA LastPort ==
    ASSUME NEW n \in Nat, n > 0, NEW c \in 0..(n - 1)
    PROVE  (c + 1) % n = 0 => c = n - 1
<1> DEFINE x == c + 1
<1>1. x \in Int /\ 0 < x /\ x <= n /\ c = x - 1
  OBVIOUS
<1> HIDE DEF x
<1>2. x < n => x % n = x
  BY <1>1
<1>3. x % n = 0 => c = n - 1
  BY <1>1, <1>2
<1> QED BY <1>3 DEF x

\* ready tells the truth: both servers listen, on two ports, and each can be
\* reached on the one discovery tells peers, for every document that does not
\* ask for any port - by command_port 0, or by the last port and none for the
\* event stream.
THEOREM ReadyIsTrue == Spec => []ReadyOnAnnouncedPorts
<1>1. TypeOK /\ PortsOK => ReadyOnAnnouncedPorts
  <2> DEFINE c == Config.network.command_port
             s == Config.telemetry.sse_port
  <2> SUFFICES ASSUME TypeOK, PortsOK, main = "serving", ready = "published"
               PROVE  /\ Listening /\ restPort # ssePort
                      /\ c # 0 => Announced(Config).rest = restPort
                      /\ c # PortSpace - 1 \/ s # 0 => Announced(Config).sse = ssePort
    BY DEF ReadyOnAnnouncedPorts
  <2>1. /\ Listening /\ restPort # ssePort
        /\ c # 0 => restPort = c
        /\ SsePort(Config) # 0 => ssePort = SsePort(Config)
    BY DEF PortsOK, Listening
  <2>2. Announced(Config).rest = c /\ Announced(Config).sse = SsePort(Config)
    BY DEF Announced, SsePort
  <2>3. c \in 0..(PortSpace - 1) /\ s \in 0..(PortSpace - 1)
    BY ApplicationAssumption DEF TypeOK, Config
  <2>4. SsePort(Config) = 0 => c = PortSpace - 1 /\ s = 0
    <3>1. SsePort(Config) = IF s > 0 THEN s ELSE (c + 1) % PortSpace
      BY DEF SsePort
    <3> HIDE DEF c, s
    <3>2. PortSpace \in Nat /\ PortSpace > 0
      BY DEF PortSpace
    <3>3. (c + 1) % PortSpace = 0 => c = PortSpace - 1
      BY <2>3, <3>2, LastPort
    <3>4. s > 0 \/ s = 0
      BY <2>3, <3>2
    <3>5. s > 0 => s # 0
      OBVIOUS
    <3> QED BY <3>1, <3>3, <3>4, <3>5
  <2> HIDE DEF c, s
  <2> QED BY <2>1, <2>2, <2>4
<1> QED BY <1>1, FirstLayer, Served, PTL

\* Whatever the security section says, the token given out for development
\* opens what it is given out for: gateway, authenticator and event stream
\* agree on the secret.
THEOREM DevTokenIsGood == Spec => []DevTokenOpens
<1>1. DevTokenOpens
  BY DEF DevTokenOpens, DevToken, NoToken, StreamOpens, SseSecret, Authorize,
     Anonymous, RoleAllowed, RoleOf, Suffices
<1> QED BY <1>1, PTL

\* Whatever the secret and the roles list are, a higher scope opens all that a
\* lower one does: the list never lets in the lower and keeps out the higher.
THEOREM AccessOrdered == Spec => []ScopesAreOrdered
<1>1. ScopesAreOrdered
  <2>1. \A scope, level :
           Grants(scope, level) <=>
              /\ RoleAllowed(Security, RoleOf(level))
              /\ IF Security.token_secret = "" THEN Security.dev_access
                 ELSE Suffices(scope, level)
    BY DEF Grants, Authorize, Anonymous
  <2>2. \A s \in Scopes, t \in Scopes, level \in {"telemetry", "control"} :
           (s = "viewer" \/ t = "admin" \/ s = t) /\ Suffices(s, level)
              => Suffices(t, level)
    BY DEF Suffices, Scopes
  <2> QED BY <2>1, <2>2 DEF ScopesAreOrdered
<1> QED BY <1>1, PTL

\* Whatever list of radios the document has, what is served is each supported
\* id once, with the limits of its first entry, which an adapter can work with.
THEOREM RadiosServed == Spec => []RadiosAsConfigured
<1>1. TypeOK => RadiosAsConfigured
  <2> SUFFICES ASSUME TypeOK, main = "serving"
               PROVE  LET entries == Config.radios
                          First(id) == CHOOSE i \in DOMAIN entries :
                              /\ entries[i].adapter = "silvus" /\ entries[i].id = id
                              /\ \A j \in 1..(i - 1) :
                                    entries[j].adapter = "silvus" => entries[j].id # id
                          catalog == Catalog(Config)
                      IN /\ DOMAIN catalog =
                               {e.id : e \in {x \in ToSet(entries) : x.adapter = "silvus"}}
                         /\ \A id \in DOMAIN catalog :
                               /\ catalog[id] = RangeOf(entries[First(id)])
                               /\ 0 <= catalog[id][1] /\ catalog[id][1] <= catalog[id][2]
                               /\ catalog[id][2] <= MaxDbm
    BY DEF RadiosAsConfigured
  <2> DEFINE entries == Config.radios
             catalog == Catalog(Config)
             IsFor(id, i) ==
                /\ entries[i].adapter = "silvus" /\ entries[i].id = id
                /\ \A j \in 1..(i - 1) :
                      entries[j].adapter = "silvus" => entries[j].id # id
  <2>1. /\ Valid(file) /\ entries = file.radios /\ Entries(entries)
        /\ Config = Parse(file) /\ DOMAIN entries = 1..Len(entries)
    BY ApplicationAssumption DEF TypeOK, Config, Parse, Entries
  <2>2. Fits(entries, catalog)
    BY <2>1, CatalogOfDocument
  <2> HIDE DEF entries, catalog
  <2>3. DOMAIN catalog = {e.id : e \in {x \in ToSet(entries) : x.adapter = "silvus"}}
    BY <2>1, <2>2 DEF Fits, Supported, ToSet
  <2>4. ASSUME NEW id \in DOMAIN catalog
        PROVE  catalog[id] = RangeOf(entries[CHOOSE i \in DOMAIN entries : IsFor(id, i)])
    <3>1. PICK i \in DOMAIN entries : /\ IsFirst(entries, i) /\ entries[i].id = id
                                     /\ catalog[id] = RangeOf(entries[i])
      BY <2>2 DEF Fits
    <3>2. \A k \in DOMAIN entries :
             IsFor(id, k) <=> IsFirst(entries, k) /\ entries[k].id = id
      BY DEF IsFirst
    <3> HIDE DEF IsFor
    <3> DEFINE first == CHOOSE k \in DOMAIN entries : IsFor(id, k)
    <3>3. first \in DOMAIN entries /\ IsFor(id, first)
      BY <3>1, <3>2
    <3> HIDE DEF first
    <3>4. first = i
      BY <2>1, <3>1, <3>2, <3>3, FirstIsOne
    <3> QED BY <3>1, <3>4 DEF first
  <2> QED BY <2>2, <2>3, <2>4 DEF Fits, entries, catalog
<1> QED BY <1>1, FirstLayer, PTL

\* The phases, by the point the main thread is at.
LEMMA PhaseIs ==
    /\ main \in {"dead", "gone"} => Phase = "ended"
    /\ main \in Stops => Phase = "closing"
    /\ main \in Starting \ {"dead"} => Phase = "starting"
    /\ main = "serving" /\ ready = "published" => Phase = "serving"
    /\ main = "serving" /\ ready # "published" =>
          Phase = IF rest = "listening" THEN "listening" ELSE "starting"
<1>1. CASE main \in {"dead", "gone"}
  BY <1>1 DEF Phase, Stops, Stopping, Starting
<1>2. CASE main \in Stops
  BY <1>2 DEF Phase, Stops, Stopping, Starting
<1>3. CASE main \in Starting \ {"dead"}
  BY <1>3 DEF Phase, Stops, Stopping, Starting
<1>4. CASE main = "serving"
  BY <1>4 DEF Phase, Stops, Stopping, Starting
<1> QED BY <1>1, <1>2, <1>3, <1>4

LEMMA PhaseIsNext ==
    /\ main' \in {"dead", "gone"} => Phase' = "ended"
    /\ main' \in Stops => Phase' = "closing"
    /\ main' \in Starting \ {"dead"} => Phase' = "starting"
    /\ main' = "serving" /\ ready' = "published" => Phase' = "serving"
    /\ main' = "serving" /\ ready' # "published" =>
          Phase' = IF rest' = "listening" THEN "listening" ELSE "starting"
<1>1. CASE main' \in {"dead", "gone"}
  BY <1>1 DEF Phase, Stops, Stopping, Starting
<1>2. CASE main' \in Stops
  BY <1>2 DEF Phase, Stops, Stopping, Starting
<1>3. CASE main' \in Starting \ {"dead"}
  BY <1>3 DEF Phase, Stops, Stopping, Starting
<1>4. CASE main' = "serving"
  BY <1>4 DEF Phase, Stops, Stopping, Starting
<1> QED BY <1>1, <1>2, <1>3, <1>4

\* Every step of the process is a step of its life, or none.
LEMMA LifeStep ==
    ASSUME TypeOK, BootOK, StopOK, CheckOK, PortsOK, CommandOK, [Next]_vars
    PROVE  [Life!Next]_Life!lifeVars
<1> USE DEF mainVars, runVars, loopVars, timerVars, hubVars
<1>1. CASE UNCHANGED <<Phase, connected>> /\ (handler' = "command" <=> handler = "command")
  BY <1>1 DEF Life!lifeVars
<1>2. CASE UNCHANGED <<main, rest, ready, connected>>
           /\ (handler' = "command" <=> handler = "command")
  BY <1>1, <1>2 DEF Phase, Stopping
<1>3. CASE UNCHANGED vars \/ RunnerStarts \/ Poll \/ Tick
  BY <1>2, <1>3 DEF vars, RunnerStarts, Poll, Tick
<1>4. CASE Start
  <2>1. /\ main \in Starting \ {"dead"} /\ handler' = handler /\ handler # "command"
        /\ Phase = "starting"
    BY <1>4, PhaseIs DEF Start, Initialize, StartTelemetry, ConnectRadios,
       StartGateway, BootOK, Starting
  <2>2. CASE Initialize /\ main' = "telemetry"
    <3>1. UNCHANGED <<Phase, connected>>
      BY <2>1, <2>2, PhaseIsNext DEF Initialize, Starting
    <3> QED BY <1>1, <2>1, <3>1
  <2>3. CASE Initialize /\ main' = "dead"
    <3>1. /\ Phase' = "ended" /\ connected' = connected /\ ~connected
          /\ UNCHANGED handler
      BY <2>1, <2>3, PhaseIsNext DEF Initialize, BootOK, Starting
    <3> QED BY <2>1, <3>1 DEF Life!Next, Life!End
  <2>4. CASE StartTelemetry
    <3>1. UNCHANGED <<Phase, connected>>
      BY <2>1, <2>4, PhaseIsNext DEF StartTelemetry, Starting
    <3> QED BY <1>1, <2>1, <3>1
  <2>5. CASE ConnectRadios
    <3>1. UNCHANGED Phase /\ connected'
      BY <2>1, <2>5, PhaseIsNext DEF ConnectRadios, Starting
    <3> QED BY <2>1, <3>1 DEF Life!Next, Life!Connect
  <2>6. CASE StartGateway
    <3>1. UNCHANGED <<Phase, connected>>
      BY <2>1, <2>6, PhaseIsNext DEF StartGateway
    <3> QED BY <1>1, <2>1, <3>1
  <2> QED BY <1>4, <2>2, <2>3, <2>4, <2>5, <2>6 DEF Start, Initialize
<1>5. CASE OpenRest
  <2>1. /\ UNCHANGED <<main, ready, connected, handler>>
        /\ rest' # rest => rest = "opening"
    BY <1>5 DEF OpenRest
  <2>2. CASE rest' = rest
    BY <1>2, <2>1, <2>2
  <2>3. CASE rest = "opening" /\ main # "serving"
    <3>1. UNCHANGED Phase
      BY <2>1, <2>3 DEF Phase, Stopping
    <3> QED BY <1>1, <2>1, <3>1
  <2>4. CASE rest = "opening" /\ main = "serving"
    <3>1. ready # "published" /\ connected /\ Phase = "starting"
      BY <2>4, PhaseIs DEF PortsOK, Listening, BootOK, Starting
    <3>2. Phase' \in {"starting", "listening"}
      BY <2>1, <2>4, <3>1, PhaseIsNext
    <3>3. CASE Phase' = "starting"
      BY <1>1, <2>1, <3>1, <3>3
    <3>4. CASE Phase' = "listening"
      BY <2>1, <3>1, <3>4 DEF Life!Next, Life!Open
    <3> QED BY <3>2, <3>3, <3>4
  <2> QED BY <2>1, <2>2, <2>3, <2>4
<1>6. CASE Check
  <2>1. /\ UNCHANGED <<main, rest, connected>> /\ handler = "none"
        /\ handler' # "command"
        /\ ready' # ready => ready' = "gave_up"
    BY <1>6 DEF Check, Takes, Between
  <2>2. ready = "pending"
    BY <1>6, Taken DEF Check, CheckOK, TypeOK
  <2>3. UNCHANGED Phase
    BY <2>1, <2>2 DEF Phase, Stopping
  <2> QED BY <1>1, <2>1, <2>3
<1>7. CASE PublishReady
  <2>1. /\ UNCHANGED <<main, rest, connected>> /\ handler = "announce"
        /\ handler' = "none" /\ ready' = "published" /\ ready = "pending"
    BY <1>7 DEF PublishReady, CheckOK
  <2>2. CASE main = "serving"
    <3>1. Phase = "listening" /\ Phase' = "serving"
      BY <2>1, <2>2, PhaseIs, PhaseIsNext DEF PortsOK, Listening
    <3> QED BY <2>1, <3>1 DEF Life!Next, Life!Announce
  <2>3. CASE main # "serving"
    <3>1. UNCHANGED Phase
      BY <2>1, <2>3 DEF Phase, Stopping
    <3> QED BY <1>1, <2>1, <3>1
  <2> QED BY <2>2, <2>3
<1>8. CASE Command
  <2>1. /\ UNCHANGED <<main, rest, ready, connected>>
        /\ handler = "none" /\ handler' = "command" /\ loop = "running"
    BY <1>8 DEF Command, Takes, Between, Turning
  <2>2. main \notin Starting /\ (main = "serving" => rest = "listening")
    BY <1>8, Taken DEF Command, CommandOK, TypeOK
  <2>3. main # "gone"
    BY <2>1 DEF StopOK, RoundOK
  <2>4. main \in Stops \cup {"serving"}
    BY <2>2, <2>3 DEF TypeOK, MainPoints, Starting, Stops
  <2>5. Phase \in {"listening", "serving", "closing"}
    BY <2>2, <2>4, PhaseIs
  <2>6. UNCHANGED Phase
    BY <2>1 DEF Phase, Stopping
  <2> QED BY <2>1, <2>5, <2>6 DEF Life!Next, Life!Accept
<1>9. CASE CommandEnds
  <2>1. UNCHANGED <<main, rest, ready, connected>> /\ handler' = "none"
    BY <1>9 DEF CommandEnds
  <2>2. UNCHANGED Phase
    BY <2>1 DEF Phase, Stopping
  <2> QED BY <2>1, <2>2 DEF Life!Next, Life!Answer
<1>10. CASE Cancel
  <2>1. /\ UNCHANGED <<rest, ready, connected, handler>>
        /\ main' = main \/ (main = "wait" /\ main' = "stop_sse")
    BY <1>10 DEF Cancel
  <2>2. UNCHANGED Phase
    BY <2>1, PhaseIs, PhaseIsNext DEF Phase, Stopping, Stops
  <2> QED BY <1>1, <2>1, <2>2
<1>11. CASE OpenSse \/ Schedule \/ Arm \/ Beat \/ BeatWaits \/ PublishHeartbeat
  <2>1. /\ UNCHANGED <<main, rest, ready, connected>>
        /\ handler # "command" /\ handler' # "command"
    BY <1>11 DEF OpenSse, Schedule, Arm, Beat, BeatWaits, PublishHeartbeat, Takes,
       Between
  <2> QED BY <1>2, <2>1
<1>12. CASE StopBegins
  <2>1. /\ main = "serving" /\ main' = "stop_gateway"
        /\ UNCHANGED <<connected, handler>>
    BY <1>12 DEF StopBegins
  <2>2. connected /\ Phase' = "closing" /\ Phase \in {"starting", "listening", "serving"}
    BY <2>1, PhaseIs, PhaseIsNext DEF BootOK, Starting, Stops
  <2> QED BY <2>1, <2>2 DEF Life!Next, Life!Close
<1>13. CASE Stop /\ ~Exit
  <2>1. /\ main \in Stops /\ main' \in Stops /\ UNCHANGED <<connected, handler>>
    BY <1>13 DEF Stop, StopGateway, StopFlag, StopCheck, StopSse, StopBus,
       RunReturns, Stops
  <2>2. UNCHANGED Phase
    BY <2>1, PhaseIs, PhaseIsNext
  <2> QED BY <1>1, <2>1, <2>2
<1>14. CASE Exit
  <2>1. /\ Phase = "closing" /\ Phase' = "ended" /\ handler = "none"
        /\ UNCHANGED <<connected, handler>>
    BY <1>14, PhaseIs, PhaseIsNext DEF Exit, Stops, StopOK, RoundOK
  <2> QED BY <2>1 DEF Life!Next, Life!End
<1> QED BY <1>3, <1>4, <1>5, <1>6, <1>7, <1>8, <1>9, <1>10, <1>11, <1>12, <1>13,
           <1>14 DEF Next, Handle, Stop

\* The process has the life RadioService takes for granted: radios connected
\* before the gateway listens, ready once and not in the middle of a command,
\* no command but through an open gateway, one at a time, none under way at
\* the end.
THEOREM LifeKept == Spec => LifePromise
<1>1. Init => Life!Init
  BY PhaseIs DEF Init, Life!Init, Starting
<1>2. TypeOK /\ BootOK /\ StopOK /\ CheckOK /\ PortsOK /\ CommandOK /\ [Next]_vars
         => [Life!Next]_Life!lifeVars
  BY LifeStep
<1> QED BY <1>1, <1>2, FirstLayer, Stopped, Served, PTL DEF Spec, LifePromise, Life!Spec
-----------------------------------------------------------------------------
(* The heartbeat and the commands that hold it up.                         *)

\* The thread's time for k commands.
Work(k) == k * Busy

Expired == handler = "beat" \/ \E i \in DOMAIN queue : queue[i] = "beat"

\* In the queue k commands wait, one behind the other.
InARow(k) ==
    \E m \in Nat :
       /\ m + k <= Len(queue)
       /\ \A i \in DOMAIN queue : queue[i] = "command" <=> m < i /\ i <= m + k

\* Of the clients k have a command waiting, and one may have its command on the
\* thread.
CommandsWait(k) ==
    /\ k + (IF handler = "command" THEN 1 ELSE 0) <= Clients
    /\ InARow(k)

\* Behind the mark of the round are no commands, no heartbeat that has expired
\* and no other mark: they are run before the next poll.
AheadOfMark ==
    \A i, j \in DOMAIN queue :
       queue[i] \in {"command", "beat", "poll"} /\ queue[j] = "poll" => i <= j

\* The heartbeat is at one of its places.  What is ahead of it there, added to
\* the time gone by, is within one round of all clients while nobody has looked
\* at its timer, and within two once it is posted.
InTime(k) ==
    LET latest == gap + left + Work(k)
    IN /\ loop = "running"
       /\ beat # Off \/ handler \in {"arm", "beaten"} \/ Expired
       /\ handler \in {"arm", "beaten"} => gap = 0
       /\ beat > 0 => gap + beat <= Interval
       /\ beat = 0 => latest <= Interval \/ latest < Interval + Work(Clients)
       /\ Expired => latest <= Interval \/ latest < HeartbeatBound

GapOK ==
    main \notin Stops \cup {"gone"} =>
        /\ ~stopped /\ loop # "ended"
        /\ handler # "command" => left = 0
        /\ AheadOfMark
        /\ \E k \in 0..Clients : CommandsWait(k) /\ (gap # Off => InTime(k))

\* k commands take no longer than those of all clients.
LEMMA Rounds ==
    /\ Clients \in Nat /\ Busy \in Nat /\ Work(0) = 0 /\ Work(Clients) \in Nat
    /\ HeartbeatBound = Interval + 2 * Work(Clients)
    /\ \A k \in 0..Clients :
          /\ Work(k) \in Nat /\ Work(k) <= Work(Clients)
          /\ k > 0 => Work(k - 1) = Work(k) - Busy
          /\ k < Clients => Work(k) <= Work(Clients) - Busy
<1>1. Clients \in Nat /\ Busy \in Nat
  BY ApplicationAssumption
<1>2. \A x, y \in Nat : x * y \in Nat
  OBVIOUS
<1>3. Work(0) = 0 /\ Work(Clients) \in Nat
  BY <1>1, <1>2 DEF Work
<1>4. HeartbeatBound = Interval + 2 * Work(Clients)
  BY <1>1 DEF HeartbeatBound, Work
<1>5. ASSUME NEW k \in 0..Clients
      PROVE  /\ Work(k) \in Nat /\ Work(k) <= Work(Clients)
             /\ k > 0 => Work(k - 1) = Work(k) - Busy
             /\ k < Clients => Work(k) <= Work(Clients) - Busy
  <2>1. k * Busy \in Nat /\ (Clients - k) * Busy \in Nat
    BY <1>1, <1>2
  <2>2. Clients * Busy = k * Busy + (Clients - k) * Busy
    BY <1>1
  <2>3. (k - 1) * Busy = k * Busy - Busy
    BY <1>1
  <2>4. k < Clients =>
           /\ (Clients - k) * Busy = Busy + (Clients - k - 1) * Busy
           /\ (Clients - k - 1) * Busy \in Nat
    BY <1>1, <1>2
  <2> QED BY <1>1, <2>1, <2>2, <2>3, <2>4 DEF Work
<1> QED BY <1>1, <1>3, <1>4, <1>5

\* Taking a handler leaves the others in their row, and one less when it is a
\* command.
LEMMA TakenNext ==
    ASSUME queue \in Seq(Posted), AheadOfMark, NEW k \in 0..Clients, InARow(k),
           NEW h, Takes(h)
    PROVE  /\ AheadOfMark'
           /\ h # "command" => InARow(k)'
           /\ h = "command" => k > 0 /\ k - 1 \in 0..Clients /\ InARow(k - 1)'
           /\ h # "beat" =>
                 ((\E i \in DOMAIN queue' : queue'[i] = "beat")
                     <=> \E i \in DOMAIN queue : queue[i] = "beat")
<1>1. PICK m \in Nat :
         /\ m + k <= Len(queue)
         /\ \A i \in DOMAIN queue : queue[i] = "command" <=> m < i /\ i <= m + k
  BY DEF InARow
<1>2. /\ Clients \in Nat /\ k \in Nat
      /\ Len(queue) \in Nat /\ Len(queue') = Len(queue) - 1 /\ Len(queue) # 0
  <2>1. Len(queue') \in Nat
    BY Taken, LenProperties
  <2> QED BY <2>1, Taken, LenProperties, ApplicationAssumption
<1>3. /\ 1 \in DOMAIN queue /\ queue[1] = h
      /\ \A i \in DOMAIN queue' :
            i + 1 \in DOMAIN queue /\ queue'[i] = queue[i + 1] /\ i \in Nat /\ i # 0
      /\ \A i \in DOMAIN queue :
            i = 1 \/ (i - 1 \in DOMAIN queue' /\ queue'[i - 1] = queue[i])
  BY Taken
<1>4. AheadOfMark'
  <2> SUFFICES ASSUME NEW i \in DOMAIN queue', NEW j \in DOMAIN queue',
                      queue'[i] \in {"command", "beat", "poll"}, queue'[j] = "poll"
               PROVE  i <= j
    BY DEF AheadOfMark
  <2>1. i + 1 <= j + 1
    BY <1>3 DEF AheadOfMark
  <2> QED BY <1>3, <2>1
<1>5. ASSUME h # "command" PROVE InARow(k)'
  <2>1. m > 0 \/ m + k = 0
    BY <1>1, <1>2, <1>3, <1>5
  <2>2. CASE m > 0
    <3>1. \A i \in DOMAIN queue' : queue'[i] = "command" <=> m - 1 < i /\ i <= m - 1 + k
      BY <1>1, <1>2, <1>3, <2>2
    <3>2. m - 1 \in Nat /\ m - 1 + k <= Len(queue')
      BY <1>1, <1>2, <2>2
    <3> QED BY <3>1, <3>2 DEF InARow
  <2>3. CASE m = 0 /\ k = 0
    <3>1. \A i \in DOMAIN queue' : queue'[i] = "command" <=> m < i /\ i <= m + k
      BY <1>1, <1>2, <1>3, <2>3
    <3> QED BY <1>2, <2>3, <3>1 DEF InARow
  <2> QED BY <1>2, <2>1, <2>2, <2>3
<1>6. ASSUME h = "command" PROVE k > 0 /\ k - 1 \in 0..Clients /\ InARow(k - 1)'
  <2>1. m = 0 /\ k > 0
    BY <1>1, <1>2, <1>3, <1>6
  <2>2. \A i \in DOMAIN queue' : queue'[i] = "command" <=> m < i /\ i <= m + (k - 1)
    BY <1>1, <1>2, <1>3, <2>1
  <2>3. m + (k - 1) <= Len(queue')
    BY <1>1, <1>2, <2>1
  <2> QED BY <1>2, <2>1, <2>2, <2>3 DEF InARow
<1>7. h # "beat" =>
         ((\E i \in DOMAIN queue' : queue'[i] = "beat")
             <=> \E i \in DOMAIN queue : queue[i] = "beat")
  BY <1>3
<1> QED BY <1>4, <1>5, <1>6, <1>7

\* So do handlers that are posted behind the rest, before there are commands.
LEMMA PostedAfter ==
    ASSUME queue \in Seq(Posted), AheadOfMark,
           NEW g \in Posted \ {"command", "beat", "poll"},
           NEW h \in Posted \ {"command", "beat", "poll"},
           queue' = queue \o <<g, h>>,
           \A i \in DOMAIN queue : queue[i] # "command"
    PROVE  /\ AheadOfMark' /\ InARow(0)'
           /\ (\E i \in DOMAIN queue' : queue'[i] = "beat")
                 <=> \E i \in DOMAIN queue : queue[i] = "beat"
<1>1. /\ \A i \in DOMAIN queue' :
            \/ i \in DOMAIN queue /\ queue'[i] = queue[i]
            \/ queue'[i] = g
            \/ queue'[i] = h
      /\ \A i \in DOMAIN queue : i \in DOMAIN queue' /\ queue'[i] = queue[i]
      /\ queue' \in Seq(Posted)
  BY PostedBehind
<1>2. AheadOfMark'
  BY <1>1 DEF AheadOfMark
<1>3. \A i \in DOMAIN queue' : queue'[i] # "command" /\ i \in Nat
  BY <1>1, LenProperties
<1>4. \A i \in DOMAIN queue' : queue'[i] = "command" <=> 0 < i /\ i <= 0 + 0
  BY <1>3
<1>5. InARow(0)'
  <2>1. Len(queue') \in Nat /\ 0 + 0 <= Len(queue')
    BY <1>1, LenProperties
  <2>2. \E m \in Nat :
           /\ m + 0 <= Len(queue')
           /\ \A i \in DOMAIN queue' : queue'[i] = "command" <=> m < i /\ i <= m + 0
    <3> WITNESS 0 \in Nat
    <3> QED BY <1>4, <2>1
  <2> QED BY <2>2 DEF InARow
<1> QED BY <1>1, <1>2, <1>5

\* When the mark is reached no command and no heartbeat waits.  What the poll
\* finds is a row again, ahead of the next mark.
LEMMA PolledRow ==
    ASSUME TypeOK, AheadOfMark, Poll
    PROVE  /\ AheadOfMark'
           /\ \A i \in DOMAIN queue : queue[i] # "beat"
           /\ \E n \in 0..Clients : InARow(n)'
           /\ (\E i \in DOMAIN queue' : queue'[i] = "beat") <=> beat = 0
<1>1. /\ Len(queue) \in Nat \ {0} /\ 1 \in DOMAIN queue /\ queue[1] = "poll"
      /\ queue \in Seq(Posted) /\ queue' \in Seq(Posted)
  BY Polled DEF TypeOK
<1>2. \A i \in DOMAIN queue : i \in Nat /\ i >= 1 /\ i <= Len(queue)
  BY <1>1, LenProperties
<1>3. \A i \in DOMAIN queue : queue[i] \in {"command", "beat", "poll"} => i = 1
  BY <1>1, <1>2 DEF AheadOfMark
<1>4. \A i \in DOMAIN queue : queue[i] \notin {"command", "beat"}
  BY <1>1, <1>3
<1>5. PICK n \in 0..Clients :
         /\ Len(queue') \in Nat /\ Len(queue') >= Len(queue) + n
         /\ \A i \in DOMAIN queue' :
               \/ /\ 0 < i /\ i < Len(queue)
                  /\ i + 1 \in DOMAIN queue /\ queue'[i] = queue[i + 1]
               \/ /\ Len(queue) <= i /\ i < Len(queue) + n
                  /\ queue'[i] = "command"
               \/ i = Len(queue) + n /\ queue'[i] = "beat" /\ beat = 0
               \/ /\ Len(queue) + n <= i /\ i = Len(queue') - 1
                  /\ queue'[i] = "check" /\ recheck = 0
               \/ i = Len(queue') /\ queue'[i] = "poll"
         /\ beat = 0 => Len(queue) + n \in DOMAIN queue'
                        /\ queue'[Len(queue) + n] = "beat"
  BY Polled
<1>6. n \in Nat /\ \A i \in DOMAIN queue' : i \in Nat /\ i >= 1 /\ i <= Len(queue')
  BY <1>1, LenProperties, ApplicationAssumption
<1>7. \A i \in DOMAIN queue' :
         0 < i /\ i < Len(queue) /\ i + 1 \in DOMAIN queue /\ queue'[i] = queue[i + 1]
            => queue'[i] \notin {"command", "beat", "poll"}
  BY <1>3, <1>6
<1>8. \A i \in DOMAIN queue' : queue'[i] = "poll" => i = Len(queue')
  BY <1>5, <1>7
<1>9. AheadOfMark'
  BY <1>6, <1>8 DEF AheadOfMark
<1>10. InARow(n)'
  <2>1. \A i \in DOMAIN queue' :
           queue'[i] = "command" <=> Len(queue) - 1 < i /\ i <= Len(queue) - 1 + n
    <3> TAKE i \in DOMAIN queue'
    <3>1. CASE 0 < i /\ i < Len(queue) /\ i + 1 \in DOMAIN queue /\ queue'[i] = queue[i + 1]
      BY <1>1, <1>6, <1>7, <3>1
    <3>2. CASE Len(queue) <= i /\ i < Len(queue) + n /\ queue'[i] = "command"
      BY <1>1, <1>6, <3>2
    <3>3. CASE Len(queue) + n <= i /\ queue'[i] \in {"beat", "check", "poll"}
      BY <1>1, <1>6, <3>3
    <3> QED BY <1>1, <1>5, <1>6, <3>1, <3>2, <3>3
  <2>2. Len(queue) - 1 \in Nat /\ Len(queue) - 1 + n <= Len(queue')
    BY <1>1, <1>5, <1>6
  <2> QED BY <2>1, <2>2 DEF InARow
<1>11. (\E i \in DOMAIN queue' : queue'[i] = "beat") <=> beat = 0
  <2>1. ASSUME NEW i \in DOMAIN queue', queue'[i] = "beat" PROVE beat = 0
    BY <1>5, <1>7, <2>1
  <2>2. beat = 0 => \E i \in DOMAIN queue' : queue'[i] = "beat"
    BY <1>5
  <2> QED BY <2>1, <2>2
<1> QED BY <1>4, <1>9, <1>10, <1>11

\* What is ahead of the heartbeat where it waits is done first, and no more comes.
LEMMA SamePlaces ==
    ASSUME TypeOK, NEW k \in 0..Clients, NEW j \in 0..Clients,
           gap # Off, InTime(k), Interval \in Nat, Interval' = Interval,
           (Expired' <=> Expired), UNCHANGED <<gap, beat, loop>>,
           (handler' \in {"arm", "beaten"} <=> handler \in {"arm", "beaten"}),
           left' \in Nat, left' + Work(j) <= left + Work(k)
    PROVE  InTime(j)'
<1>1. /\ Work(k) \in Nat /\ Work(j) \in Nat /\ Work(Clients) \in Nat /\ gap \in Nat
      /\ HeartbeatBound = Interval + 2 * Work(Clients) /\ left \in Nat
  BY Rounds DEF TypeOK
<1>2. HeartbeatBound' = HeartbeatBound /\ Work(j)' = Work(j) /\ Work(Clients)' = Work(Clients)
  BY DEF HeartbeatBound, Work
<1>3. gap + left' + Work(j) <= gap + left + Work(k)
  BY <1>1
<1>4. \A bound \in Nat :
         /\ gap + left + Work(k) <= bound => gap + left' + Work(j) <= bound
         /\ gap + left + Work(k) < bound => gap + left' + Work(j) < bound
  BY <1>1, <1>3
<1>5. HeartbeatBound \in Nat /\ Interval + Work(Clients) \in Nat
  BY <1>1
<1> HIDE DEF Expired
<1> QED BY <1>2, <1>4, <1>5 DEF InTime

LEMMA GapHandled ==
    ASSUME TypeOK, BootOK, StopOK, BeatOK, GapOK, [Next]_vars, Handle,
           main \notin Stops \cup {"gone"}
    PROVE  GapOK'
<1> USE DEF mainVars, runVars, loopVars, timerVars, hubVars
<1>1. PICK k \in 0..Clients : CommandsWait(k) /\ (gap # Off => InTime(k))
  BY DEF GapOK
<1>2. /\ queue \in Seq(Posted) /\ ~stopped /\ loop = "running"
      /\ handler # "command" => left = 0
      /\ left \in 0..Busy /\ gap \in Nat \cup {Off} /\ Off = -1
      /\ AheadOfMark /\ InARow(k)
  BY <1>1, HandleFrame DEF TypeOK, GapOK, CommandsWait, Off
<1>3. /\ Clients \in Nat /\ Busy \in Nat /\ Work(k) \in Nat /\ Work(Clients) \in Nat
      /\ 0 \in 0..Clients /\ Work(0) = 0
      /\ HeartbeatBound = Interval + 2 * Work(Clients)
  BY Rounds
<1>4. Interval' = Interval /\ Interval \in Nat \ {0}
  BY <1>2, FileKept, ApplicationAssumption
     DEF TypeOK, BootOK, Interval, Config
<1> DEFINE Kept == /\ ~stopped' /\ loop' # "ended"
                   /\ handler' # "command" => left' = 0
                   /\ AheadOfMark'
           Later == \E j \in 0..Clients : CommandsWait(j)' /\ (gap' # Off => InTime(j)')
<1>5. SUFFICES Kept /\ Later
  BY DEF GapOK
<1>6. CASE OpenSse \/ OpenRest \/ Check
  <2>1. PICK h : Takes(h) /\ h \in {"open_sse", "open_rest", "check"}
    BY <1>6 DEF OpenSse, OpenRest, Check
  <2>2. /\ handler = "none" /\ handler' \in {"none", "announce"}
        /\ UNCHANGED <<stopped, loop, left, gap, beat>>
    BY <1>6 DEF OpenSse, OpenRest, Check, Takes, Between
  <2>3. /\ AheadOfMark' /\ InARow(k)'
        /\ (\E i \in DOMAIN queue' : queue'[i] = "beat")
              <=> (\E i \in DOMAIN queue : queue[i] = "beat")
    BY <1>2, <2>1, TakenNext
  <2>4. CommandsWait(k)' /\ (Expired' <=> Expired)
    BY <1>1, <2>2, <2>3 DEF CommandsWait, Expired
  <2>5. gap' # Off => InTime(k)'
    BY <1>1, <1>2, <1>3, <1>4, <2>2, <2>4, SamePlaces
  <2> QED BY <1>2, <2>2, <2>3, <2>4, <2>5
<1>7. CASE Schedule
  <2>1. UNCHANGED <<stopped, loop, left, gap, beat>> /\ handler' = "arm"
    BY <1>2, <1>7 DEF Schedule
  <2>2. CASE Takes("schedule")
    <3>1. /\ beat = Off /\ handler = "none"
          /\ \A i \in DOMAIN queue : queue[i] # "beat"
      BY <1>2, <2>2, Taken DEF BeatOK
    <3>2. gap = Off
      BY <1>1, <3>1 DEF InTime, Expired
    <3>3. AheadOfMark' /\ CommandsWait(k)'
      BY <1>1, <1>2, <2>1, <2>2, <3>1, TakenNext DEF CommandsWait
    <3> QED BY <1>2, <2>1, <3>1, <3>2, <3>3
  <2>3. CASE handler = "beaten" /\ UNCHANGED queue
    <3>1. beat = Off /\ ~Expired
      BY <2>3 DEF BeatOK, Beating, Expired
    <3>2. CommandsWait(k)' /\ AheadOfMark' /\ ~Expired'
      BY <1>1, <1>2, <2>1, <2>3, <3>1 DEF CommandsWait, InARow, AheadOfMark, Expired
    <3>3. gap' # Off => InTime(k)'
      BY <1>1, <1>2, <2>1, <2>3, <3>1, <3>2 DEF InTime
    <3> QED BY <1>2, <2>1, <2>3, <3>2, <3>3
  <2> QED BY <1>7, <2>2, <2>3 DEF Schedule
<1>8. CASE Arm
  <2>1. /\ handler = "arm" /\ handler' = "none" /\ beat' = Interval
        /\ gap' = 0
        /\ UNCHANGED <<stopped, loop, left, queue>>
    BY <1>1, <1>8 DEF Arm, InTime
  <2>2. ~Expired' /\ CommandsWait(k)' /\ AheadOfMark'
    BY <1>1, <1>2, <2>1 DEF BeatOK, Beating, Expired, CommandsWait, InARow, AheadOfMark
  <2>3. InTime(k)'
    BY <1>2, <1>4, <2>1, <2>2 DEF InTime
  <2> QED BY <1>2, <2>1, <2>2, <2>3
<1>9. CASE Beat
  <2>1. /\ Takes("beat") /\ handler = "none" /\ handler' = "beat"
        /\ UNCHANGED <<stopped, loop, left, gap, beat>>
    BY <1>2, <1>9 DEF Beat, Takes, Between
  <2>2. beat = Off /\ Expired
    BY <1>2, <2>1, Taken DEF BeatOK, Expired
  <2>3. AheadOfMark' /\ CommandsWait(k)' /\ Expired'
    BY <1>1, <1>2, <2>1, TakenNext DEF CommandsWait, Expired
  <2>4. gap' # Off => InTime(k)'
    BY <1>1, <1>2, <1>3, <1>4, <2>1, <2>2, <2>3, SamePlaces
  <2> QED BY <1>2, <2>1, <2>3, <2>4
<1>10. CASE PublishHeartbeat
  <2>1. /\ handler = "beat" /\ handler' = "beaten" /\ gap' = 0
        /\ UNCHANGED <<stopped, loop, left, beat, queue>>
    BY <1>10 DEF PublishHeartbeat
  <2>2. beat = Off /\ ~Expired' /\ CommandsWait(k)' /\ AheadOfMark'
    BY <1>1, <1>2, <2>1 DEF BeatOK, Beating, Expired, CommandsWait, InARow, AheadOfMark
  <2>3. InTime(k)'
    BY <1>2, <2>1, <2>2 DEF InTime
  <2> QED BY <1>2, <2>1, <2>2, <2>3
<1>11. CASE PublishReady \/ CommandEnds
  <2>1. /\ handler \in {"announce", "command"} /\ handler' = "none" /\ left = 0
        /\ UNCHANGED <<stopped, loop, left, gap, beat, queue>>
    BY <1>2, <1>11 DEF PublishReady, CommandEnds
  <2>2. (Expired' <=> Expired) /\ CommandsWait(k)' /\ AheadOfMark'
    BY <1>1, <1>2, <1>3, <2>1 DEF Expired, CommandsWait, InARow, AheadOfMark
  <2>3. gap' # Off => InTime(k)'
    BY <1>1, <1>2, <1>3, <1>4, <2>1, <2>2, SamePlaces
  <2> QED BY <1>2, <2>1, <2>2, <2>3
<1>12. CASE Command
  <2>1. /\ Takes("command") /\ handler = "none" /\ handler' = "command"
        /\ left' \in 0..Busy
        /\ UNCHANGED <<stopped, loop, gap, beat>>
    BY <1>12 DEF Command, Takes, Between
  <2>2. /\ k > 0 /\ k - 1 \in 0..Clients /\ AheadOfMark' /\ InARow(k - 1)'
        /\ (\E i \in DOMAIN queue' : queue'[i] = "beat")
              <=> (\E i \in DOMAIN queue : queue[i] = "beat")
    BY <1>2, <2>1, TakenNext
  <2>3. CommandsWait(k - 1)' /\ (Expired' <=> Expired)
    BY <1>1, <1>3, <2>1, <2>2 DEF CommandsWait, Expired
  <2>4. left' \in Nat /\ left' + Work(k - 1) <= left + Work(k)
    BY <1>2, <1>3, <2>1, <2>2, Rounds
  <2>5. gap' # Off => InTime(k - 1)'
    BY <1>1, <1>2, <1>3, <1>4, <2>1, <2>2, <2>3, <2>4, SamePlaces
  <2> QED BY <1>2, <2>1, <2>2, <2>3, <2>5
<1>13. CASE Cancel
  <2>1. Takes("cancel") /\ main # "wait"
    BY <1>13 DEF Cancel, Stops
  <2> QED BY <1>2, <2>1, Taken DEF StopOK, WaitOK
<1>14. CASE BeatWaits
  BY <1>14 DEF BeatWaits, Stops
<1> QED BY <1>6, <1>7, <1>8, <1>9, <1>10, <1>11, <1>12, <1>13, <1>14 DEF Handle

LEMMA GapKept ==
    ASSUME TypeOK, BootOK, StopOK, BeatOK, GapOK, [Next]_vars
    PROVE  GapOK'
<1> USE DEF mainVars, runVars, loopVars, timerVars, hubVars
<1>1. SUFFICES ASSUME main' \notin Stops \cup {"gone"} PROVE GapOK'
  BY DEF GapOK
<1>2. main \notin Stops \cup {"gone"}
  <2>1. CASE Handle
    BY <1>1, <2>1, HandleFrame DEF Stops
  <2>2. CASE Start
    BY <2>2 DEF Start, Initialize, StartTelemetry, ConnectRadios, StartGateway, Stops
  <2>3. CASE Stop
    BY <1>1, <2>3 DEF Stop, StopGateway, StopFlag, StopCheck, StopSse, StopBus,
       RunReturns, Exit, Stops
  <2>4. CASE UNCHANGED vars \/ RunnerStarts \/ Poll \/ Tick \/ StopBegins
    BY <1>1, <2>4 DEF vars, RunnerStarts, Poll, Tick, StopBegins, Stops
  <2> QED BY <2>1, <2>2, <2>3, <2>4 DEF Next
<1>3. PICK k \in 0..Clients : CommandsWait(k) /\ (gap # Off => InTime(k))
  BY <1>2 DEF GapOK
<1>4. /\ queue \in Seq(Posted) /\ DOMAIN queue = 1..Len(queue) /\ Len(queue) \in Nat
      /\ ~stopped /\ loop # "ended"
      /\ handler # "command" => left = 0
      /\ left \in 0..Busy /\ gap \in Nat \cup {Off} /\ Off = -1
      /\ AheadOfMark /\ InARow(k)
  BY <1>2, <1>3, LenProperties DEF TypeOK, GapOK, CommandsWait, Off
<1>5. /\ Clients \in Nat /\ Busy \in Nat /\ Work(k) \in Nat /\ Work(Clients) \in Nat
      /\ 0 \in 0..Clients /\ Work(0) = 0
      /\ HeartbeatBound = Interval + 2 * Work(Clients)
  BY Rounds
<1>6. /\ Interval' = Interval
      /\ main \notin {"initialize", "dead"} =>
            Interval \in Nat \ {0} /\ beat \in {Off} \cup 0..Interval
  BY FileKept, ApplicationAssumption DEF TypeOK, Interval, Config
<1>7. gap # Off => Interval \in Nat \ {0} /\ beat \in {Off} \cup 0..Interval
  BY <1>3, <1>6 DEF InTime, BootOK
<1>8. main \in Starting => \A i \in DOMAIN queue : queue[i] # "command"
  BY DEF BootOK
<1>9. CASE UNCHANGED vars \/ Initialize \/ ConnectRadios \/ StopBegins \/ RunnerStarts
  <2>1. UNCHANGED <<queue, handler, left, beat, gap, stopped>>
    BY <1>9 DEF vars, Initialize, ConnectRadios, StopBegins, RunnerStarts
  <2>2. loop' = loop \/ (loop = "idle" /\ loop' = "running")
    BY <1>1, <1>9 DEF vars, Initialize, ConnectRadios, StopBegins, RunnerStarts, Stops
  <2>3. CommandsWait(k)' /\ AheadOfMark' /\ (Expired' <=> Expired)
    BY <1>3, <1>4, <2>1 DEF CommandsWait, InARow, AheadOfMark, Expired
  <2>4. gap' # Off => InTime(k)'
    <3> SUFFICES ASSUME gap' # Off PROVE InTime(k)'
      OBVIOUS
    <3>1. InTime(k) /\ loop' = loop
      BY <1>3, <2>1, <2>2 DEF InTime
    <3> QED BY <1>4, <1>5, <1>6, <1>7, <2>1, <2>3, <3>1, SamePlaces
  <2> QED BY <1>4, <2>1, <2>2, <2>3, <2>4 DEF GapOK
<1>10. CASE StartTelemetry
  <2>1. queue = <<"poll">> /\ handler = "none" /\ beat = Off /\ main = "telemetry"
    BY <1>10 DEF StartTelemetry, BootOK
  <2>2. gap = Off
    BY <1>3, <1>4, <2>1 DEF InTime, Expired
  <2>3. AheadOfMark' /\ InARow(0)'
    <3>1. \A i \in DOMAIN queue : queue[i] = "poll"
      BY <2>1
    <3>2. "open_sse" \in Posted /\ "schedule" \in Posted
      BY DEF Posted
    <3> QED BY <1>4, <1>10, <3>1, <3>2, PostedAfter DEF StartTelemetry
  <2>4. CommandsWait(0)'
    BY <1>5, <1>10, <2>1, <2>3 DEF StartTelemetry, CommandsWait
  <2> QED BY <1>4, <1>5, <1>10, <2>2, <2>3, <2>4 DEF StartTelemetry, GapOK
<1>11. CASE StartGateway
  <2>1. /\ UNCHANGED <<handler, left, beat, gap, stopped, loop>>
        /\ queue' = queue \o <<"open_rest", "check">> /\ handler # "command"
    BY <1>11 DEF StartGateway, BootOK, Starting
  <2>2. "open_rest" \in Posted /\ "check" \in Posted
    BY DEF Posted
  <2>3. \A i \in DOMAIN queue : queue[i] # "command"
    BY <1>8, <1>11 DEF StartGateway, Starting
  <2>4. /\ AheadOfMark' /\ InARow(0)'
        /\ (\E i \in DOMAIN queue' : queue'[i] = "beat")
              <=> \E i \in DOMAIN queue : queue[i] = "beat"
    BY <1>4, <2>1, <2>2, <2>3, PostedAfter
  <2>5. CommandsWait(0)' /\ (Expired' <=> Expired)
    BY <1>5, <2>1, <2>4 DEF CommandsWait, Expired
  <2>6. gap' # Off => InTime(0)'
    BY <1>3, <1>4, <1>5, <1>6, <1>7, <2>1, <2>5, SamePlaces
  <2> QED BY <1>4, <1>5, <2>1, <2>4, <2>5, <2>6 DEF GapOK
<1>12. CASE Poll
  <2>1. /\ handler = "none" /\ handler' = "none" /\ left = 0
        /\ UNCHANGED <<left, gap, stopped, loop>>
        /\ beat' = IF beat = 0 THEN Off ELSE beat
    BY <1>4, <1>12, Polled DEF Poll
  <2>2. /\ AheadOfMark' /\ ~Expired
        /\ Expired' <=> beat = 0
    BY <1>4, <1>12, <2>1, PolledRow DEF Expired
  <2>3. PICK n \in 0..Clients : CommandsWait(n)'
    <3>1. \E n \in 0..Clients : InARow(n)'
      BY <1>4, <1>12, PolledRow
    <3> QED BY <1>5, <2>1, <3>1 DEF CommandsWait
  <2>4. gap' # Off => InTime(n)'
    <3> SUFFICES ASSUME gap # Off PROVE InTime(n)'
      BY <2>1
    <3>1. /\ Interval \in Nat \ {0} /\ beat \in 0..Interval /\ gap \in Nat
          /\ Work(n) \in Nat /\ Work(n) <= Work(Clients)
          /\ loop = "running"
      <4>1. beat # Off /\ loop = "running"
        BY <1>3, <1>4, <2>1, <2>2 DEF InTime
      <4> QED BY <1>4, <1>7, <4>1, Rounds
    <3>2. /\ HeartbeatBound' = Interval + 2 * Work(Clients) /\ Work(n)' = Work(n)
          /\ Work(Clients)' = Work(Clients)
      BY <1>5, <1>6 DEF HeartbeatBound, Work
    <3>3. CASE beat = 0
      <4>1. Expired' /\ beat' = Off
        BY <2>1, <2>2, <3>3
      <4>2. gap <= Interval \/ gap < Interval + Work(Clients)
        <5>1. gap + Work(k) <= Interval \/ gap + Work(k) < Interval + Work(Clients)
          BY <1>3, <1>5, <2>1, <3>1, <3>3 DEF InTime
        <5> QED BY <1>5, <3>1, <5>1
      <4>3. \/ gap + Work(n) <= Interval
            \/ gap + Work(n) < Interval + 2 * Work(Clients)
        BY <1>5, <3>1, <4>2
      <4> QED BY <1>4, <1>6, <2>1, <3>1, <3>2, <4>1, <4>3 DEF InTime
    <3>4. CASE beat > 0
      <4>1. ~Expired' /\ beat' = beat
        BY <2>1, <2>2, <3>1, <3>4
      <4>2. gap + beat <= Interval
        BY <1>3, <3>4 DEF InTime
      <4> QED BY <1>4, <1>6, <2>1, <3>1, <3>4, <4>1, <4>2 DEF InTime
    <3> QED BY <3>1, <3>3, <3>4
  <2> QED BY <1>4, <2>1, <2>2, <2>3, <2>4 DEF GapOK
<1>13. CASE Tick
  <2>1. UNCHANGED <<queue, handler, stopped, loop>>
    BY <1>13 DEF Tick
  <2>2. /\ left' = Down(left) /\ beat' = Down(beat)
        /\ gap' = IF gap = Off \/ gap > HeartbeatBound THEN gap ELSE gap + 1
    BY <1>13 DEF Tick
  <2>3. /\ handler # "command" => left' = 0
        /\ left' \in Nat
        /\ left > 0 => left' = left - 1
    BY <1>4, <1>5, <2>2 DEF Down
  <2>4. CommandsWait(k)' /\ AheadOfMark' /\ (Expired' <=> Expired)
    BY <1>3, <1>4, <2>1 DEF CommandsWait, InARow, AheadOfMark, Expired
  <2>5. gap' # Off => InTime(k)'
    <3> SUFFICES ASSUME gap # Off PROVE InTime(k)'
      BY <2>2
    <3>1. /\ Interval \in Nat \ {0} /\ beat \in {Off} \cup 0..Interval /\ gap \in Nat
          /\ loop = "running" /\ gap' \in Nat /\ gap' <= gap + 1
          /\ Turning /\ InTime(k)
      <4>1. loop = "running"
        BY <1>3 DEF InTime
      <4>2. ~Stopping
        BY <1>2 DEF Stopping, Stops
      <4>3. gap' \in {gap, gap + 1}
        BY <2>2
      <4> QED BY <1>3, <1>4, <1>7, <4>1, <4>2, <4>3 DEF Turning
    <3>2. /\ HeartbeatBound' = Interval + 2 * Work(Clients) /\ Work(k)' = Work(k)
          /\ Work(Clients)' = Work(Clients)
      BY <1>5, <1>6 DEF HeartbeatBound, Work
    <3>3. \/ handler = "command" /\ left > 0
          \/ handler = "none" /\ queue = <<"poll">> /\ beat # 0
      <4>1. handler # "none" => handler = "command" /\ left > 0
        BY <1>13, <3>1 DEF Tick, Pressing
      <4>2. handler = "none" => queue = <<"poll">> /\ Due = <<>>
        BY <1>13, <3>1 DEF Tick, Pressing, Between
      <4>3. beat = 0 => Due # <<>>
        <5>1. CASE beat = 0 /\ recheck = 0
          BY <5>1 DEF Due
        <5>2. CASE beat = 0 /\ recheck # 0
          BY <5>2 DEF Due
        <5> QED BY <5>1, <5>2
      <4> QED BY <4>1, <4>2, <4>3
    <3>4. /\ beat \in Int /\ beat' \in Int /\ Interval \in Int /\ Off = -1
          /\ gap \in Int /\ gap' \in Int /\ gap' <= gap + 1
          /\ left \in Int /\ left' \in Int /\ left' >= 0 /\ Busy \in Int
          /\ Work(k) \in Int /\ Work(Clients) \in Int /\ 0 <= Work(Clients)
          /\ beat = Off => beat' = Off
          /\ beat = 0 => beat' = 0
          /\ beat > 0 => beat' = beat - 1
          /\ beat = Off \/ beat >= 0
      BY <1>4, <1>5, <2>2, <2>3, <3>1 DEF Down
    <3>5. beat > 0 => gap' + beat' <= Interval
      <4>1. beat > 0 => gap + beat <= Interval
        BY <3>1 DEF InTime
      <4>2. \A g, h, b, i \in Int : h <= g + 1 /\ g + b <= i => h + (b - 1) <= i
        OBVIOUS
      <4>3. beat > 0 => gap' + (beat - 1) <= Interval
        BY <3>4, <4>1, <4>2
      <4> QED BY <3>4, <4>3
    <3>6. CASE handler = "none" /\ queue = <<"poll">> /\ beat # 0
      <4>1. k = 0 /\ ~Expired /\ left' = 0
        <5>1. PICK m \in Nat :
                 /\ m + k <= Len(queue)
                 /\ \A i \in DOMAIN queue : queue[i] = "command" <=> m < i /\ i <= m + k
          BY <1>4 DEF InARow
        <5>2. Len(queue) = 1 /\ 1 \in DOMAIN queue /\ \A i \in DOMAIN queue : queue[i] = "poll"
          BY <3>6
        <5>3. k = 0
          BY <1>5, <5>1, <5>2
        <5> QED BY <2>3, <3>6, <5>2, <5>3 DEF Expired
      <4>2. beat > 0
        BY <1>4, <3>1, <3>6, <4>1 DEF InTime
      <4>3. beat' = 0 => gap' <= Interval
        <5>1. \A h \in Int : h + 0 = h
          OBVIOUS
        <5> QED BY <3>4, <3>5, <4>2, <5>1
      <4>4. beat' >= 0 /\ Work(k) = 0
        BY <1>5, <3>4, <4>1, <4>2
      <4>5. beat' = 0 => gap' + left' + Work(k) <= Interval
        <5>1. gap' + left' + Work(k) = gap'
          BY <3>4, <4>1, <4>4
        <5> QED BY <4>3, <5>1
      <4>6. beat' # Off /\ ~Expired' /\ handler' = "none" /\ loop' = "running"
        BY <2>1, <2>4, <3>1, <3>4, <3>6, <4>1, <4>4
      <4> HIDE DEF Expired
      <4> QED BY <1>6, <3>2, <3>5, <4>2, <4>5, <4>6 DEF InTime
    <3>7. CASE handler = "command" /\ left > 0
      <4>1. k < Clients /\ Work(k) <= Work(Clients) - Busy /\ left' <= Busy - 1
            /\ left' = left - 1
        <5>1. k < Clients
          BY <1>3, <1>5, <3>7 DEF CommandsWait
        <5> QED BY <1>4, <1>5, <2>3, <3>7, <5>1, Rounds
      <4>2. gap' + left' + Work(k) <= gap + left + Work(k)
        BY <3>4, <4>1
      <4>3. beat' = 0 =>
               \/ gap' + left' + Work(k) <= Interval
               \/ gap' + left' + Work(k) < Interval + Work(Clients)
        <5>1. CASE beat > 0
          <6>1. \A h, l, w, r, b, i \in Int :
                   h <= i /\ w <= r - b /\ l <= b - 1 => h + l + w < i + r
            OBVIOUS
          <6>2. beat' = 0 => gap' <= Interval
            <7>1. \A h \in Int : h + 0 = h
              OBVIOUS
            <7> QED BY <3>4, <3>5, <5>1, <7>1
          <6> QED BY <3>4, <4>1, <6>1, <6>2
        <5>2. CASE beat = 0
          <6>1. \/ gap + left + Work(k) <= Interval
                \/ gap + left + Work(k) < Interval + Work(Clients)
            BY <3>1, <5>2 DEF InTime
          <6> QED BY <3>4, <4>2, <6>1
        <5>3. beat' = 0 => beat > 0 \/ beat = 0
          BY <3>4
        <5> QED BY <5>1, <5>2, <5>3
      <4>4. Expired =>
               \/ gap' + left' + Work(k) <= Interval
               \/ gap' + left' + Work(k) < HeartbeatBound
        <5> HIDE DEF Expired
        <5> SUFFICES ASSUME Expired
                     PROVE  \/ gap' + left' + Work(k) <= Interval
                            \/ gap' + left' + Work(k) < HeartbeatBound
          OBVIOUS
        <5>1. \/ gap + left + Work(k) <= Interval
              \/ gap + left + Work(k) < HeartbeatBound
          BY <3>1 DEF InTime
        <5>2. HeartbeatBound \in Int
          BY <1>5, <3>1
        <5> QED BY <3>4, <4>2, <5>1, <5>2
      <4>5. beat # Off \/ Expired
        BY <3>1, <3>7 DEF InTime
      <4>6. beat' > 0 => beat > 0
        BY <3>4
      <4>7. beat # Off => beat' # Off
        BY <3>4
      <4> QED BY <1>5, <1>6, <2>1, <2>4, <3>1, <3>2, <3>5, <3>7,
              <4>3, <4>4, <4>5, <4>6, <4>7 DEF InTime
    <3> QED BY <3>3, <3>6, <3>7
  <2> QED BY <1>4, <2>1, <2>3, <2>4, <2>5 DEF GapOK
<1>14. CASE Handle
  BY <1>2, <1>14, GapHandled
<1>15. CASE Stop
  BY <1>2, <1>15 DEF Stop, StopGateway, StopFlag, StopCheck, StopSse, StopBus,
     RunReturns, Exit, Stops
<1> QED BY <1>9, <1>10, <1>11, <1>12, <1>13, <1>14, <1>15 DEF Next, Start

\* However many clients there are and however long their commands take, a
\* heartbeat is late by less than two rounds of them, in any process that is
\* not being stopped.
THEOREM HeartbeatInTime == Spec => []HeartbeatGap
<1>1. Init => GapOK
  <2> SUFFICES ASSUME Init PROVE GapOK
    OBVIOUS
  <2>1. /\ 0 \in 0..Clients /\ queue = <<"poll">> /\ Len(queue) = 1
        /\ DOMAIN queue = {1} /\ queue[1] = "poll"
    BY Rounds DEF Init
  <2>2. \A i \in DOMAIN queue : queue[i] = "command" <=> 0 < i /\ i <= 0 + 0
    BY <2>1
  <2>3. AheadOfMark /\ InARow(0)
    BY <2>1, <2>2 DEF AheadOfMark, InARow
  <2>4. CommandsWait(0) /\ gap = Off
    BY <2>3, Rounds DEF Init, CommandsWait
  <2> QED BY <2>1, <2>3, <2>4 DEF Init, GapOK
<1>2. TypeOK /\ BootOK /\ StopOK /\ BeatOK /\ GapOK /\ [Next]_vars => GapOK'
  BY GapKept
<1>3. TypeOK /\ BootOK /\ StopOK /\ GapOK => HeartbeatGap
  <2> SUFFICES ASSUME TypeOK, BootOK, StopOK, GapOK, loop = "running", ~Stopping
               PROVE  gap <= Interval \/ gap < HeartbeatBound
    BY DEF HeartbeatGap
  <2>1. main \notin Stops \cup {"gone"}
    BY DEF StopOK, RoundOK, Stopping, Stops
  <2>2. PICK k \in 0..Clients : gap # Off => InTime(k)
    BY <2>1 DEF GapOK
  <2>3. /\ Interval \in Nat \ {0} /\ gap \in Nat \cup {Off} /\ Off = -1
        /\ left \in Nat /\ Work(k) \in Nat /\ Work(Clients) \in Nat
        /\ HeartbeatBound = Interval + 2 * Work(Clients)
        /\ beat \in {Off} \cup 0..Interval
    BY Rounds, ApplicationAssumption DEF TypeOK, BootOK, Interval, Config, Off
  <2>4. CASE gap = Off
    BY <2>3, <2>4
  <2>5. CASE gap # Off
    <3>1. CASE beat > 0
      BY <2>2, <2>3, <2>5, <3>1 DEF InTime
    <3>2. CASE beat = 0
      BY <2>2, <2>3, <2>5, <3>2 DEF InTime
    <3>3. CASE beat = Off
      BY <2>2, <2>3, <2>5, <3>3 DEF InTime
    <3> QED BY <2>3, <3>1, <3>2, <3>3
  <2> QED BY <2>4, <2>5
<1> QED BY <1>1, <1>2, <1>3, FirstLayer, Stopped, HeartbeatPlaced, PTL DEF Spec
====
