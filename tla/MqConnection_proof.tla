-------------------------- MODULE MqConnection_proof --------------------------
(***************************************************************************)
(* Proofs about MqConnection: its types, that what Publish answered true   *)
(* for is with the broker or was delivered, and what can bring a service   *)
(* down.                                                                   *)
(***************************************************************************)
EXTENDS MqConnection, TLAPS

USE MqAssumption DEF Processes, Addresses

Others(g) == /\ pc' \in [Goroutines -> Places]
             /\ \A h \in Goroutines \ {g} : pc'[h] = pc[h]

\* Faults are counted, and stay counted.
Grow == /\ faults' \in [FaultKinds -> Nat]
        /\ \A k \in FaultKinds : faults'[k] = 0 => faults[k] = 0

LEMMA Kinds ==
  "early" \in FaultKinds /\ "open" \in FaultKinds /\ "cut" \in FaultKinds
    /\ "stop" \in FaultKinds /\ "fail" \in FaultKinds /\ "restart" \in FaultKinds
BY DEF FaultKinds

LEMMA FaultType ==
  ASSUME NEW k \in FaultKinds, TypeOK, Fault(k)
  PROVE  Grow /\ faults'[k] # 0
BY DEF Fault, TypeOK, Grow

LEMMA EarlyType ==
  ASSUME NEW early \in BOOLEAN, TypeOK, CountEarly(early)
  PROVE  Grow /\ (early => faults'["early"] # 0)
<1>1. CASE early
  BY <1>1, FaultType, Kinds DEF CountEarly
<1>2. CASE ~ early
  BY <1>2 DEF CountEarly, Grow, TypeOK
<1> QED BY <1>1, <1>2

LEMMA GoroutinesAre ==
  /\ "umain" \in Goroutines /\ "tmain" \in Goroutines /\ "consumer" \in Goroutines
  /\ Requests \subseteq Goroutines
  /\ \A r \in Requests : r # "umain" /\ r # "tmain" /\ r # "consumer" /\ r # NoTask
  /\ ProcessOf("umain") = "upload" /\ ProcessOf("tmain") = "transfer"
  /\ ProcessOf("consumer") = "transfer"
  /\ \A r \in Requests : ProcessOf(r) = "upload"
  /\ \A g \in Goroutines : ProcessOf(g) \in {"upload", "transfer"}
BY DEF Goroutines, ProcessOf

LEMMA PlacesAre ==
  Places = {"check", "open", "notify", "send", "hung", "idle", "flags", "db", "serve",
            "consume", "wait", "work", "rows", "over"}
BY DEF Places, InMq

\* Flags of the processes stay flags.
LEMMA FlagPut ==
  ASSUME NEW f \in [Processes -> BOOLEAN], NEW p \in Processes, NEW b \in BOOLEAN
  PROVE  [f EXCEPT ![p] = b] \in [Processes -> BOOLEAN]
OBVIOUS

LEMMA FlagsTyped ==
  ASSUME TypeOK, NEW p \in Processes
  PROVE  /\ \/ alive' = alive
            \/ alive' = [alive EXCEPT ![p] = FALSE]
            \/ alive' = [alive EXCEPT ![p] = TRUE]
           => alive' \in [Processes -> BOOLEAN]
         /\ \/ dbCli' = [dbCli EXCEPT ![p] = FALSE]
            \/ dbCli' = [dbCli EXCEPT ![p] = TRUE]
           => dbCli' \in [Processes -> BOOLEAN]
<1>1. alive \in [Processes -> BOOLEAN] /\ dbCli \in [Processes -> BOOLEAN]
  BY DEF TypeOK
<1>2. TRUE \in BOOLEAN /\ FALSE \in BOOLEAN
  OBVIOUS
<1> QED BY <1>1, <1>2, FlagPut, Zenon

LEMMA GotoMakes ==
  ASSUME TypeOK, NEW g \in Goroutines, NEW place \in Places, Goto(g, place)
  PROVE  Others(g) /\ pc'[g] = place
BY DEF Goto, TypeOK, Others

(***************************************************************************)
(* The invariant.                                                          *)
(***************************************************************************)
\* Where each goroutine can be.
PlacesFit ==
    /\ pc["umain"] \in {"flags", "db", "check", "open", "notify", "serve"}
    /\ pc["tmain"] \in {"flags", "db", "serve"}
    /\ pc["consumer"] \in {"check", "open", "notify", "send", "hung", "consume", "wait", "work"}
    /\ \A r \in Requests : pc[r] \in {"idle", "check", "open", "send", "hung", "rows", "over"}

\* The upload service starts up in order, and its requests after it.
InOrder ==
    /\ pc["umain"] # "flags" => url["upload"] = "flag"
    /\ pc["umain"] \notin {"flags", "db"} => dbCli["upload"]
    /\ faults["early"] = 0 =>
         \A r \in Requests : pc[r] \notin {"idle", "over"} => pc["umain"] = "serve"

\* Who started in order dials the flag's broker, which runs unless it stopped.
Dialed ==
    /\ faults["early"] = 0 => \A g \in Goroutines : pc[g] = "open" => addr[g] = "flag"
    /\ faults["early"] = 0 =>
         \A p \in Processes : channel[p] # NoChannel => channel[p].broker = "flag"
    /\ faults["stop"] = 0 => "flag" \in up

\* A channel is live until its connection is lost.
Lives == faults["cut"] = 0 /\ faults["stop"] = 0 =>
           \A p \in Processes : channel[p] # NoChannel => channel[p].is = "live"

\* Who goes on with a channel has one, unless a conn.Channel() took it.
HasChannel ==
    /\ faults["open"] = 0 =>
         \A g \in Goroutines : pc[g] \in {"notify", "send"} => channel[ProcessOf(g)] # NoChannel
    /\ faults["open"] = 0 /\ faults["early"] = 0 /\ faults["stop"] = 0 =>
         (pc["consumer"] = "consume" => channel["transfer"] # NoChannel)

Kept == faults["early"] = 0 /\ faults["cut"] = 0 /\ faults["stop"] = 0 =>
          \A r \in Requests : told[r] = "true" => r \in queue["flag"] \cup taken

Down ==
    /\ ~ alive["upload"] =>
         ~ (faults["open"] = 0 /\ faults["cut"] = 0 /\ faults["stop"] = 0)
    /\ ~ alive["transfer"] =>
         ~ (faults["early"] = 0 /\ faults["open"] = 0 /\ faults["cut"] = 0 /\ faults["stop"] = 0)
    /\ \A r \in Requests : told[r] = "panic" => ~ (faults["early"] = 0 /\ faults["open"] = 0)

Inv == PlacesFit /\ InOrder /\ Dialed /\ Lives /\ HasChannel /\ Kept /\ Down

LEMMA NeverMeans ==
  /\ Kept <=> PublishedIsKept
  /\ Down <=> DownOnlyByFault
BY DEF Kept, Down, PublishedIsKept, DownOnlyByFault, Never

(***************************************************************************)
(* What the steps of package mq do.                                        *)
(***************************************************************************)
LEMMA CheckDoes ==
  ASSUME TypeOK, NEW g \in Goroutines, CheckChannel(g)
  PROVE  /\ Others(g) /\ Grow /\ pc[g] = "check"
         /\ UNCHANGED <<process, channel, told, task, broker, taken>>
         /\ addr' \in [Goroutines -> Addresses]
         /\ \/ /\ channel[ProcessOf(g)] # NoChannel /\ addr' = addr
               /\ pc'[g] = IF Publishing(g) THEN "send" ELSE "notify"
            \/ /\ channel[ProcessOf(g)] = NoChannel /\ pc'[g] = "open"
               /\ addr' = [addr EXCEPT ![g] = url[ProcessOf(g)]]
         /\ g = "consumer" /\ url["transfer"] = "config" => faults'["early"] # 0
<1> USE PlacesAre, GoroutinesAre
<1>1. Grow /\ (g = "consumer" /\ url["transfer"] = "config" => faults'["early"] # 0)
  BY EarlyType DEF CheckChannel
<1>2. CASE channel[ProcessOf(g)] # NoChannel
  <2>1. Goto(g, IF Publishing(g) THEN "send" ELSE "notify") /\ UNCHANGED <<told, task, addr>>
    BY <1>2 DEF CheckChannel, MyChannel, Opened
  <2> QED BY <1>1, <1>2, <2>1, GotoMakes DEF CheckChannel, At, TypeOK
<1>3. CASE channel[ProcessOf(g)] = NoChannel
  <2>1. /\ Goto(g, "open") /\ UNCHANGED <<told, task>>
        /\ addr' = [addr EXCEPT ![g] = url[ProcessOf(g)]]
    BY <1>3 DEF CheckChannel, MyChannel
  <2> QED BY <1>1, <1>3, <2>1, GotoMakes DEF CheckChannel, At, TypeOK
<1> QED BY <1>2, <1>3

\* Publish's answer, to a request or to the consumer.
LEMMA AnsweredMakes ==
  ASSUME TypeOK, NEW g \in Goroutines, NEW answer \in {"true", "false"}, Answered(g, answer)
  PROVE  /\ Others(g) /\ task' \in Requests \cup {NoTask}
         /\ told' \in [Requests -> {"nothing", "true", "false", "panic"}]
         /\ g \in Requests => pc'[g] = "rows" /\ told' = [told EXCEPT ![g] = answer]
         /\ g \notin Requests => pc'[g] = "wait" /\ told' = told
<1> USE PlacesAre
<1>1. CASE g \in Requests
  BY <1>1, GotoMakes DEF Answered, TypeOK
<1>2. CASE g \notin Requests
  BY <1>2, GotoMakes DEF Answered, TypeOK
<1> QED BY <1>1, <1>2

LEMMA NotOpenedMakes ==
  ASSUME TypeOK, NEW g \in Goroutines, NotOpened(g)
  PROVE  /\ Others(g) /\ task' \in Requests \cup {NoTask}
         /\ told' \in [Requests -> {"nothing", "true", "false", "panic"}]
         /\ g \in Requests => pc'[g] = "rows" /\ told' = [told EXCEPT ![g] = "false"]
         /\ g \notin Requests => told' = told
         /\ g = "consumer" => pc'[g] \in {"wait", "consume"}
         /\ g \notin Requests \cup {"consumer"} => pc'[g] = "serve"
<1> USE PlacesAre
<1>1. CASE Publishing(g)
  BY <1>1, AnsweredMakes DEF NotOpened, Publishing
<1>2. CASE ~ Publishing(g)
  <2>1. /\ Goto(g, IF g = "consumer" THEN "consume" ELSE "serve")
        /\ UNCHANGED <<told, task>> /\ g \notin Requests
    BY <1>2 DEF NotOpened, Publishing
  <2> QED BY <2>1, GotoMakes DEF TypeOK
<1> QED BY <1>1, <1>2

LEMMA OpenDoes ==
  ASSUME TypeOK, NEW g \in Goroutines, OpenChannel(g)
  PROVE  /\ Others(g) /\ Grow /\ pc[g] = "open"
         /\ UNCHANGED <<process, broker, taken>>
         /\ task' \in Requests \cup {NoTask}
         /\ addr' = [addr EXCEPT ![g] = "config"]
         /\ \/ /\ addr[g] \in up /\ UNCHANGED <<told, task>>
               /\ channel' = [channel EXCEPT ![ProcessOf(g)] =
                                [broker |-> addr[g], is |-> "live", told |-> FALSE]]
               /\ pc'[g] = IF Publishing(g) THEN "send" ELSE "notify"
            \/ /\ \/ /\ addr[g] \notin up /\ channel' = channel
                  \/ /\ channel' = [channel EXCEPT ![ProcessOf(g)] = NoChannel]
                     /\ faults'["open"] # 0
               /\ told' \in [Requests -> {"nothing", "true", "false", "panic"}]
               /\ g \in Requests => pc'[g] = "rows" /\ told' = [told EXCEPT ![g] = "false"]
               /\ g \notin Requests => told' = told
               /\ g = "consumer" => pc'[g] \in {"wait", "consume"}
               /\ g \notin Requests \cup {"consumer"} => pc'[g] = "serve"
<1> USE PlacesAre
<1>1. CASE addr[g] \in up /\ Opened(g)
              /\ SetChannel(g, [broker |-> addr[g], is |-> "live", told |-> FALSE])
              /\ UNCHANGED faults
  <2>1. Goto(g, IF Publishing(g) THEN "send" ELSE "notify") /\ UNCHANGED <<told, task>>
    BY <1>1 DEF Opened
  <2> QED BY <1>1, <2>1, GotoMakes DEF OpenChannel, SetChannel, At, TypeOK, Grow
<1>2. CASE NotOpened(g) /\ SetChannel(g, NoChannel) /\ Fault("open")
  BY <1>2, NotOpenedMakes, FaultType, Kinds DEF OpenChannel, SetChannel, At
<1>3. CASE addr[g] \notin up /\ NotOpened(g) /\ UNCHANGED <<channel, faults>>
  BY <1>3, NotOpenedMakes DEF OpenChannel, At, TypeOK, Grow
<1> QED BY <1>1, <1>2, <1>3 DEF OpenChannel

\* A panic ends the process of a goroutine, or the request alone.
LEMMA PanicMakes ==
  ASSUME TypeOK, NEW g \in Goroutines, Panic(g)
  PROVE  /\ g \in Requests => /\ Others(g) /\ pc'[g] = "over" /\ UNCHANGED alive
                             /\ told' = [told EXCEPT ![g] = "panic"]
         /\ g \notin Requests => /\ alive' = [alive EXCEPT ![ProcessOf(g)] = FALSE]
                                /\ UNCHANGED <<pc, told>>
BY PlacesAre DEF Panic, Others, TypeOK

LEMMA NotifyDoes ==
  ASSUME TypeOK, NEW g \in Goroutines \ Requests, Notify(g)
  PROVE  /\ pc[g] = "notify"
         /\ UNCHANGED <<url, dbCli, addr, task, told, broker, taken, faults>>
         /\ \/ /\ channel[ProcessOf(g)] = NoChannel \/ channel[ProcessOf(g)].is = "closed"
               /\ alive' = [alive EXCEPT ![ProcessOf(g)] = FALSE]
               /\ UNCHANGED <<pc, channel>>
            \/ /\ channel[ProcessOf(g)] # NoChannel
               /\ channel' = [channel EXCEPT ![ProcessOf(g)] =
                                [channel[ProcessOf(g)] EXCEPT !.told = TRUE]]
               /\ Others(g) /\ pc'[g] = (IF g = "consumer" THEN "consume" ELSE "serve")
               /\ UNCHANGED alive
<1> USE PlacesAre
<1>1. CASE channel[ProcessOf(g)] = NoChannel \/ channel[ProcessOf(g)].is = "closed"
  BY <1>1, PanicMakes DEF Notify, MyChannel, At
<1>2. CASE ~ (channel[ProcessOf(g)] = NoChannel \/ channel[ProcessOf(g)].is = "closed")
  <2>1. Goto(g, IF g = "consumer" THEN "consume" ELSE "serve")
    BY <1>2 DEF Notify, MyChannel
  <2>2. Others(g) /\ pc'[g] = (IF g = "consumer" THEN "consume" ELSE "serve")
    BY <2>1, GotoMakes
  <2> QED BY <1>2, <2>2 DEF Notify, MyChannel, SetChannel, At
<1> QED BY <1>1, <1>2

LEMMA SendDoes ==
  ASSUME TypeOK, NEW g \in Goroutines, Send(g)
  PROVE  /\ pc[g] = "send"
         /\ UNCHANGED <<url, dbCli, channel, addr, up, taken, faults>>
         /\ task' \in Requests \cup {NoTask}
         /\ \/ /\ channel[ProcessOf(g)] = NoChannel /\ UNCHANGED queue
               /\ g \in Requests => /\ Others(g) /\ pc'[g] = "over" /\ UNCHANGED alive
                                   /\ told' = [told EXCEPT ![g] = "panic"]
               /\ g \notin Requests => /\ alive' = [alive EXCEPT ![ProcessOf(g)] = FALSE]
                                      /\ UNCHANGED <<pc, told>>
            \/ /\ Others(g) /\ UNCHANGED alive /\ channel[ProcessOf(g)] # NoChannel
               /\ \/ /\ channel[ProcessOf(g)].is = "live"
                     /\ queue' = IF g \in Requests
                                   THEN [queue EXCEPT ![channel[ProcessOf(g)].broker] = @ \cup {g}]
                                   ELSE queue
                     /\ g \in Requests => pc'[g] = "rows" /\ told' = [told EXCEPT ![g] = "true"]
                     /\ g \notin Requests => pc'[g] = "wait" /\ told' = told
                  \/ /\ channel[ProcessOf(g)].is # "live" /\ UNCHANGED queue
                     /\ \/ pc'[g] = "hung" /\ told' = told
                        \/ \E answer \in {"true", "false"} :
                             /\ g \in Requests => pc'[g] = "rows" /\ told' = [told EXCEPT ![g] = answer]
                             /\ g \notin Requests => pc'[g] = "wait" /\ told' = told
<1> USE PlacesAre
<1>1. /\ pc[g] = "send" /\ UNCHANGED <<url, dbCli, channel, addr, up, taken, faults>>
  BY DEF Send, At
<1>2. CASE channel[ProcessOf(g)] = NoChannel /\ Panic(g) /\ UNCHANGED <<queue, task>>
  BY <1>1, <1>2, PanicMakes DEF TypeOK
<1>3. CASE /\ Live(ProcessOf(g)) /\ Answered(g, "true") /\ UNCHANGED alive
           /\ queue' = IF g \in Requests
                         THEN [queue EXCEPT ![channel[ProcessOf(g)].broker] = @ \cup {g}]
                         ELSE queue
  BY <1>1, <1>3, AnsweredMakes DEF Live
<1>4. CASE /\ channel[ProcessOf(g)] # NoChannel /\ channel[ProcessOf(g)].is # "live"
           /\ \E answer \in {"true", "false"} : Answered(g, answer)
           /\ UNCHANGED <<alive, queue>>
  BY <1>1, <1>4, AnsweredMakes
<1>5. CASE /\ channel[ProcessOf(g)] # NoChannel /\ channel[ProcessOf(g)].is # "live"
           /\ Goto(g, "hung") /\ UNCHANGED <<told, task, alive, queue>>
  BY <1>1, <1>5, GotoMakes DEF TypeOK
<1>6. \/ channel[ProcessOf(g)] = NoChannel /\ Panic(g) /\ UNCHANGED <<queue, task>>
      \/ /\ Live(ProcessOf(g)) /\ Answered(g, "true") /\ UNCHANGED alive
         /\ queue' = IF g \in Requests
                       THEN [queue EXCEPT ![channel[ProcessOf(g)].broker] = @ \cup {g}]
                       ELSE queue
      \/ /\ channel[ProcessOf(g)] # NoChannel /\ channel[ProcessOf(g)].is # "live"
         /\ \E answer \in {"true", "false"} : Answered(g, answer)
         /\ UNCHANGED <<alive, queue>>
      \/ /\ channel[ProcessOf(g)] # NoChannel /\ channel[ProcessOf(g)].is # "live"
         /\ Goto(g, "hung") /\ UNCHANGED <<told, task, alive, queue>>
  BY DEF Send, MyChannel
<1> QED BY <1>2, <1>3, <1>4, <1>5, <1>6

(***************************************************************************)
(* The world around.                                                       *)
(***************************************************************************)

\* Connections are lost, and the library notices: a channel keeps its broker.
World == \/ \E b \in Addresses : StopBroker(b) \/ StartBroker(b)
         \/ \E p \in Processes : Cut(p) \/ Notice(p)

LEMMA LostIs ==
  ASSUME NEW c \in Channel \cup {NoChannel}
  PROVE  /\ Lost(c) \in Channel \cup {NoChannel}
         /\ (Lost(c) = NoChannel) <=> (c = NoChannel)
         /\ c # NoChannel => Lost(c).broker = c.broker
BY DEF Lost, Channel

LEMMA WorldDoes ==
  ASSUME TypeOK, World
  PROVE  /\ UNCHANGED <<process, pc, addr, task, told, taken>> /\ Grow
         /\ up' \subseteq Addresses /\ queue' \in [Addresses -> SUBSET Requests]
         /\ channel' \in [Processes -> Channel \cup {NoChannel}]
         /\ \A p \in Processes :
              /\ (channel'[p] = NoChannel) <=> (channel[p] = NoChannel)
              /\ channel[p] # NoChannel => channel'[p].broker = channel[p].broker
              /\ faults'["cut"] = 0 /\ faults'["stop"] = 0
                   /\ channel[p] # NoChannel /\ channel[p].is = "live" => channel'[p].is = "live"
         /\ faults'["stop"] = 0 => up \subseteq up' /\ queue' = queue
<1>1. ASSUME NEW b \in Addresses, StopBroker(b)
      PROVE  /\ Grow /\ faults'["stop"] # 0 /\ up' \subseteq Addresses
             /\ queue' \in [Addresses -> SUBSET Requests]
             /\ channel' \in [Processes -> Channel \cup {NoChannel}]
             /\ \A p \in Processes :
                  /\ (channel'[p] = NoChannel) <=> (channel[p] = NoChannel)
                  /\ channel[p] # NoChannel => channel'[p].broker = channel[p].broker
  <2>1. Grow /\ faults'["stop"] # 0
    BY <1>1, FaultType, Kinds DEF StopBroker
  <2>2. \A p \in Processes : channel'[p] \in {channel[p], Lost(channel[p])}
    BY <1>1 DEF StopBroker, TypeOK
  <2>3. \A p \in Processes :
          /\ channel'[p] \in Channel \cup {NoChannel}
          /\ (channel'[p] = NoChannel) <=> (channel[p] = NoChannel)
          /\ channel[p] # NoChannel => channel'[p].broker = channel[p].broker
    BY <2>2, LostIs DEF TypeOK
  <2>4. channel' \in [Processes -> Channel \cup {NoChannel}]
    BY <1>1, <2>3 DEF StopBroker
  <2> QED BY <1>1, <2>1, <2>3, <2>4 DEF StopBroker, TypeOK
<1>2. ASSUME NEW b \in Addresses, StartBroker(b)
      PROVE  UNCHANGED <<channel, queue, faults>> /\ up \subseteq up' /\ up' \subseteq Addresses
  BY <1>2 DEF StartBroker, TypeOK
<1>3. ASSUME NEW p \in Processes, Cut(p)
      PROVE  /\ Grow /\ faults'["cut"] # 0 /\ UNCHANGED <<up, queue>>
             /\ channel' \in [Processes -> Channel \cup {NoChannel}]
             /\ \A q \in Processes :
                  /\ (channel'[q] = NoChannel) <=> (channel[q] = NoChannel)
                  /\ channel[q] # NoChannel => channel'[q].broker = channel[q].broker
  <2>1. Grow /\ faults'["cut"] # 0
    BY <1>3, FaultType, Kinds DEF Cut
  <2>2. channel' = [channel EXCEPT ![p] = Lost(channel[p])]
    BY <1>3 DEF Cut
  <2>3. \A q \in Processes : channel'[q] \in {channel[q], Lost(channel[q])}
    BY <2>2 DEF TypeOK
  <2>4. \A q \in Processes :
          /\ channel'[q] \in Channel \cup {NoChannel}
          /\ (channel'[q] = NoChannel) <=> (channel[q] = NoChannel)
          /\ channel[q] # NoChannel => channel'[q].broker = channel[q].broker
    BY <2>3, LostIs DEF TypeOK
  <2>5. channel' \in [Processes -> Channel \cup {NoChannel}]
    BY <2>2, <2>4 DEF TypeOK
  <2> QED BY <1>3, <2>1, <2>4, <2>5 DEF Cut, broker
<1>4. ASSUME NEW p \in Processes, Notice(p)
      PROVE  /\ UNCHANGED <<up, queue, faults>>
             /\ channel' \in [Processes -> Channel \cup {NoChannel}]
             /\ \A q \in Processes :
                  /\ (channel'[q] = NoChannel) <=> (channel[q] = NoChannel)
                  /\ channel[q] # NoChannel => channel'[q].broker = channel[q].broker
                  /\ channel[q] # NoChannel /\ channel[q].is = "live" => channel'[q] = channel[q]
  <2>1. /\ channel' = [channel EXCEPT ![p] = [channel[p] EXCEPT !.is = "closed"]]
        /\ channel[p] \in Channel /\ channel[p].is = "lost"
        /\ UNCHANGED <<up, queue, faults>>
    BY <1>4 DEF Notice, TypeOK, broker
  <2>2. /\ [channel[p] EXCEPT !.is = "closed"] \in Channel
        /\ [channel[p] EXCEPT !.is = "closed"].broker = channel[p].broker
    BY <2>1 DEF Channel
  <2> QED BY <2>1, <2>2 DEF TypeOK
<1>5. UNCHANGED <<process, pc, addr, task, told, taken>>
  BY DEF World, StopBroker, StartBroker, Cut, Notice
<1>6. CASE \E b \in Addresses : StopBroker(b)
  BY <1>1, <1>5, <1>6
<1>7. CASE \E b \in Addresses : StartBroker(b)
  BY <1>2, <1>5, <1>7 DEF Grow, TypeOK
<1>8. CASE \E p \in Processes : Cut(p)
  BY <1>3, <1>5, <1>8 DEF TypeOK
<1>9. CASE \E p \in Processes : Notice(p)
  BY <1>4, <1>5, <1>9 DEF Grow, TypeOK
<1> QED BY <1>6, <1>7, <1>8, <1>9 DEF World

(***************************************************************************)
(* Types, with the places of the goroutines.                               *)
(***************************************************************************)
TypeInv == TypeOK /\ PlacesFit

\* What is left alone keeps its type.
LEMMA TypesKept ==
  ASSUME TypeOK
  PROVE  /\ UNCHANGED alive => alive' \in [Processes -> BOOLEAN]
         /\ UNCHANGED url => url' \in [Processes -> Addresses]
         /\ UNCHANGED dbCli => dbCli' \in [Processes -> BOOLEAN]
         /\ UNCHANGED channel => channel' \in [Processes -> Channel \cup {NoChannel}]
         /\ UNCHANGED addr => addr' \in [Goroutines -> Addresses]
         /\ UNCHANGED task => task' \in Requests \cup {NoTask}
         /\ UNCHANGED told => told' \in [Requests -> {"nothing", "true", "false", "panic"}]
         /\ UNCHANGED up => up' \subseteq Addresses
         /\ UNCHANGED queue => queue' \in [Addresses -> SUBSET Requests]
         /\ UNCHANGED taken => taken' \subseteq Requests
         /\ UNCHANGED faults => faults' \in [FaultKinds -> Nat]
BY Zenon DEF TypeOK

\* Where a goroutine goes is a place of its own.
LEMMA PlacesStay ==
  ASSUME TypeOK, PlacesFit, NEW g \in Goroutines, Others(g),
         \/ g = "umain" /\ pc'[g] \in {"db", "check", "open", "notify", "serve"}
         \/ g = "tmain" /\ pc'[g] \in {"db", "serve"}
         \/ g = "consumer" /\ pc'[g] \in {"check", "open", "notify", "send", "hung", "consume",
                                        "wait", "work"}
         \/ g \in Requests /\ pc'[g] \in {"check", "open", "send", "hung", "rows", "over"}
  PROVE  PlacesFit'
BY GoroutinesAre DEF PlacesFit, Others

LEMMA MqTyped ==
  ASSUME TypeInv, NEW g \in Goroutines, MqStep(g)
  PROVE  TypeInv'
<1> USE GoroutinesAre DEF TypeInv
<1>0. g \in Requests \/ g = "umain" \/ g = "tmain" \/ g = "consumer"
  BY DEF Goroutines
<1>1. CASE CheckChannel(g)
  <2>1. PlacesFit'
    BY <1>0, <1>1, CheckDoes, PlacesStay DEF PlacesFit, Publishing
  <2>2. TypeOK'
    BY <1>1, CheckDoes, TypesKept, Zenon DEF TypeOK, Others, Grow, process, broker
  <2> QED BY <2>1, <2>2
<1>2. CASE OpenChannel(g)
  <2>1. PlacesFit'
    BY <1>0, <1>2, OpenDoes, PlacesStay DEF PlacesFit, Publishing
  <2>2. /\ UNCHANGED <<process, broker, taken>> /\ Others(g) /\ Grow
        /\ task' \in Requests \cup {NoTask}
        /\ told' \in [Requests -> {"nothing", "true", "false", "panic"}]
    BY <1>2, OpenDoes DEF TypeOK
  <2>3. addr' \in [Goroutines -> Addresses]
    BY <1>2, OpenDoes DEF TypeOK
  <2>4. channel' \in [Processes -> Channel \cup {NoChannel}]
    <3>1. [broker |-> addr[g], is |-> "live", told |-> FALSE] \in Channel
      BY DEF Channel, TypeOK
    <3>2. \/ channel' = channel
          \/ channel' = [channel EXCEPT ![ProcessOf(g)] = NoChannel]
          \/ channel' = [channel EXCEPT ![ProcessOf(g)] =
                           [broker |-> addr[g], is |-> "live", told |-> FALSE]]
      BY <1>2, OpenDoes
    <3>3. channel \in [Processes -> Channel \cup {NoChannel}] /\ ProcessOf(g) \in Processes
      BY DEF TypeOK
    <3> QED BY <3>1, <3>2, <3>3
  <2> QED BY <2>1, <2>2, <2>3, <2>4 DEF TypeOK, Others, Grow, process, broker
<1>3. CASE Notify(g)
  <2>1. g \notin Requests /\ pc[g] = "notify"
    BY <1>3 DEF Notify, At, PlacesFit
  <2>2. PlacesFit'
    BY <1>0, <1>3, <2>1, NotifyDoes, PlacesStay DEF PlacesFit
  <2>3. channel' \in [Processes -> Channel \cup {NoChannel}]
    <3>1. ASSUME NEW c \in Channel PROVE [c EXCEPT !.told = TRUE] \in Channel
      BY DEF Channel
    <3>2. \/ channel' = channel
          \/ /\ channel[ProcessOf(g)] # NoChannel
             /\ channel' = [channel EXCEPT ![ProcessOf(g)] =
                              [channel[ProcessOf(g)] EXCEPT !.told = TRUE]]
      BY <1>3, <2>1, NotifyDoes
    <3>3. channel[ProcessOf(g)] \in Channel \cup {NoChannel}
      BY DEF TypeOK
    <3> QED BY <3>1, <3>2, <3>3 DEF TypeOK
  <2>4. alive' \in [Processes -> BOOLEAN]
    <3>1. alive' = alive \/ alive' = [alive EXCEPT ![ProcessOf(g)] = FALSE]
      BY <1>3, <2>1, NotifyDoes
    <3> QED BY <3>1, FlagsTyped
  <2>5. pc' \in [Goroutines -> Places]
    BY <1>3, <2>1, NotifyDoes DEF TypeOK, Others
  <2> QED BY <1>3, <2>1, <2>2, <2>3, <2>4, <2>5, NotifyDoes DEF TypeOK, broker
<1>4. CASE Send(g)
  <2>1. PlacesFit'
    BY <1>0, <1>4, SendDoes, PlacesStay DEF PlacesFit
  <2>2. alive' \in [Processes -> BOOLEAN]
    <3>1. alive' = alive \/ alive' = [alive EXCEPT ![ProcessOf(g)] = FALSE]
      BY <1>4, SendDoes
    <3> QED BY <3>1, FlagsTyped
  <2>5. pc' \in [Goroutines -> Places]
    BY <1>4, SendDoes DEF TypeOK, Others
  <2>3. told' \in [Requests -> {"nothing", "true", "false", "panic"}]
    BY <1>4, SendDoes DEF TypeOK
  <2>4. queue' \in [Addresses -> SUBSET Requests]
    <3>1. channel[ProcessOf(g)] # NoChannel => channel[ProcessOf(g)].broker \in Addresses
      BY DEF TypeOK, Channel
    <3> QED BY <1>4, <3>1, SendDoes DEF TypeOK
  <2>6. /\ UNCHANGED <<url, dbCli, channel, addr, up, taken, faults>>
        /\ task' \in Requests \cup {NoTask}
    BY <1>4, SendDoes
  <2> QED BY <2>1, <2>2, <2>3, <2>4, <2>5, <2>6 DEF TypeOK
<1> QED BY <1>1, <1>2, <1>3, <1>4 DEF MqStep

\* The steps outside package mq: start-up, requests, the consumer.
LEMMA ParseDoes ==
  ASSUME TypeOK, NEW g \in {"umain", "tmain"}, ParseFlags(g)
  PROVE  /\ Others(g) /\ pc[g] = "flags" /\ pc'[g] = "db"
         /\ url' = [url EXCEPT ![ProcessOf(g)] = "flag"]
         /\ UNCHANGED <<alive, dbCli, channel, addr, task, told, broker, taken, faults>>
BY GotoMakes, GoroutinesAre, PlacesAre DEF ParseFlags, At

LEMMA InitDbDoes ==
  ASSUME TypeOK, NEW g \in {"umain", "tmain"}, InitDbClient(g)
  PROVE  /\ Others(g) /\ pc[g] = "db" /\ pc'[g] = IF g = "umain" THEN "check" ELSE "serve"
         /\ dbCli' = [dbCli EXCEPT ![ProcessOf(g)] = TRUE]
         /\ UNCHANGED <<alive, url, channel, addr, task, told, broker, taken, faults>>
<1> USE GoroutinesAre, PlacesAre
<1>1. Goto(g, IF g = "umain" THEN "check" ELSE "serve")
  BY DEF InitDbClient
<1> QED BY <1>1, GotoMakes DEF InitDbClient, At

LEMMA StartDoes ==
  ASSUME TypeOK, NEW r \in Requests, StartRequest(r)
  PROVE  /\ Others(r) /\ Grow /\ pc[r] = "idle" /\ pc'[r] = "check"
         /\ pc["umain"] # "serve" => faults'["early"] # 0
         /\ UNCHANGED <<process, channel, addr, task, told, broker, taken>>
<1>1. Grow /\ (pc["umain"] # "serve" => faults'["early"] # 0)
  BY EarlyType DEF StartRequest
<1> QED BY <1>1, GotoMakes, GoroutinesAre, PlacesAre DEF StartRequest, At

LEMMA RowsDoes ==
  ASSUME TypeOK, NEW r \in Requests, WriteRows(r)
  PROVE  /\ Others(r) /\ pc[r] = "rows" /\ pc'[r] = "over" /\ UNCHANGED alive
         /\ UNCHANGED <<url, dbCli, channel, addr, task, broker, taken, faults>>
         /\ \/ told' = told
            \/ ~ dbCli["upload"] /\ told' = [told EXCEPT ![r] = "panic"]
<1> USE GoroutinesAre, PlacesAre
<1>1. CASE dbCli["upload"]
  BY <1>1, GotoMakes DEF WriteRows, At
<1>2. CASE ~ dbCli["upload"]
  BY <1>2, PanicMakes DEF WriteRows, At
<1> QED BY <1>1, <1>2

LEMMA ConsumeDoes ==
  ASSUME TypeOK, Consume
  PROVE  /\ pc["consumer"] = "consume"
         /\ UNCHANGED <<url, dbCli, channel, addr, task, told, broker, taken, faults>>
         /\ \/ /\ Others("consumer") /\ UNCHANGED alive
               /\ pc'["consumer"] \in {"wait", "hung"}
            \/ /\ alive' = [alive EXCEPT !["transfer"] = FALSE] /\ UNCHANGED pc
               /\ ~ Live("transfer")
<1> USE GoroutinesAre, PlacesAre
<1>1. CASE Live("transfer")
  BY <1>1, GotoMakes DEF Consume, At
<1>2. CASE ~ Live("transfer") /\ Panic("consumer")
  BY <1>2, PanicMakes DEF Consume, At
<1>3. CASE ~ Live("transfer") /\ Goto("consumer", "hung") /\ UNCHANGED <<alive, told>>
  BY <1>3, GotoMakes DEF Consume, At
<1> QED BY <1>1, <1>2, <1>3 DEF Consume

LEMMA TakeDoes ==
  ASSUME TypeOK, Take
  PROVE  /\ Others("consumer") /\ pc'["consumer"] = "work"
         /\ UNCHANGED <<process, channel, addr, told, up, faults>>
         /\ \E b \in Addresses, t \in Requests :
              /\ queue' = [queue EXCEPT ![b] = @ \ {t}]
              /\ taken' = taken \cup {t} /\ task' = t
<1> USE GoroutinesAre, PlacesAre
<1>1. channel["transfer"].broker \in Addresses
  BY DEF Take, Live, TypeOK, Channel
<1>2. queue[channel["transfer"].broker] \subseteq Requests
  BY <1>1 DEF TypeOK
<1> QED BY <1>1, <1>2, GotoMakes DEF Take

LEMMA WorkDoes ==
  ASSUME TypeOK, Work
  PROVE  /\ UNCHANGED <<url, dbCli, channel, addr, told, broker, taken>> /\ Grow
         /\ task' \in Requests \cup {NoTask} /\ pc["consumer"] = "work"
         /\ \/ /\ Others("consumer") /\ UNCHANGED alive
               /\ pc'["consumer"] \in {"wait", "check"}
            \/ /\ alive' = [alive EXCEPT !["transfer"] = FALSE] /\ UNCHANGED pc
               /\ faults'["early"] # 0
<1> USE GoroutinesAre, PlacesAre
<1>1. CASE Goto("consumer", "wait") /\ task' = NoTask /\ UNCHANGED <<alive, told, faults>>
  BY <1>1, GotoMakes DEF Work, At, Grow, TypeOK
<1>2. CASE Goto("consumer", "check") /\ Fault("fail") /\ UNCHANGED <<alive, task, told>>
  BY <1>2, GotoMakes, FaultType, Kinds DEF Work, At, TypeOK
<1>3. CASE Panic("consumer") /\ Fault("early") /\ UNCHANGED task
  BY <1>3, PanicMakes, FaultType, Kinds DEF Work, At, TypeOK
<1> QED BY <1>1, <1>2, <1>3 DEF Work

\* A restarted process begins again; requests it had are over.
LEMMA RestartDoes ==
  ASSUME TypeOK, NEW p \in Processes, Restart(p)
  PROVE  /\ Grow /\ UNCHANGED <<addr, told, broker, taken>>
         /\ alive' = [alive EXCEPT ![p] = TRUE]
         /\ url' = [url EXCEPT ![p] = "config"]
         /\ dbCli' = [dbCli EXCEPT ![p] = FALSE]
         /\ channel' = [channel EXCEPT ![p] = NoChannel]
         /\ task' \in Requests \cup {NoTask}
         /\ pc' \in [Goroutines -> Places]
         /\ \A g \in Goroutines : ProcessOf(g) # p => pc'[g] = pc[g]
         /\ \A g \in Goroutines :
              ProcessOf(g) = p => pc'[g] \in {"flags", "idle", "over", "check"}
         /\ p = "upload" => /\ pc'["umain"] = "flags"
                            /\ \A r \in Requests : pc'[r] \in {"idle", "over"}
         /\ p = "transfer" => pc'["tmain"] = "flags" /\ pc'["consumer"] = "check"
<1> USE GoroutinesAre, PlacesAre
<1>1. Grow
  BY FaultType, Kinds DEF Restart
<1>2. pc' = [g \in Goroutines |->
               IF ProcessOf(g) # p THEN pc[g]
               ELSE IF g \in Requests /\ pc[g] # "idle" THEN "over" ELSE First[g]]
  BY DEF Restart
<1>3. /\ First["umain"] = "flags" /\ First["tmain"] = "flags" /\ First["consumer"] = "check"
      /\ \A r \in Requests : First[r] = "idle"
      /\ \A g \in Goroutines : First[g] \in {"flags", "idle", "check"}
  BY DEF First
<1>4. \A g \in Goroutines : pc'[g] \in Places
  BY <1>2, <1>3 DEF TypeOK
<1>5. pc' \in [Goroutines -> Places]
  BY <1>2, <1>4
<1>6. \A g \in Goroutines : ProcessOf(g) # p => pc'[g] = pc[g]
  BY <1>2
<1>7. p = "upload" => /\ pc'["umain"] = "flags"
                      /\ \A r \in Requests : pc'[r] \in {"idle", "over"}
  BY <1>2, <1>3
<1>8. p = "transfer" => pc'["tmain"] = "flags" /\ pc'["consumer"] = "check"
  BY <1>2, <1>3
<1>9. \A g \in Goroutines : ProcessOf(g) = p => pc'[g] \in {"flags", "idle", "over", "check"}
  BY <1>2, <1>3
<1> QED BY <1>1, <1>5, <1>6, <1>7, <1>8, <1>9 DEF Restart, TypeOK

LEMMA OtherTyped ==
  ASSUME TypeInv,
         \/ \E g \in {"umain", "tmain"} : ParseFlags(g) \/ InitDbClient(g)
         \/ \E r \in Requests : StartRequest(r) \/ WriteRows(r)
         \/ Consume \/ Take \/ Work \/ World
         \/ \E p \in Processes : Restart(p)
  PROVE  TypeInv'
<1> USE GoroutinesAre DEF TypeInv
<1>1. ASSUME NEW g \in {"umain", "tmain"}, ParseFlags(g) PROVE TypeInv'
  <2>1. PlacesFit'
    BY <1>1, ParseDoes, PlacesStay
  <2>2. url' \in [Processes -> Addresses]
    BY <1>1, ParseDoes DEF TypeOK
  <2> QED BY <1>1, <2>1, <2>2, ParseDoes, TypesKept, Zenon DEF TypeOK, Others, broker
<1>2. ASSUME NEW g \in {"umain", "tmain"}, InitDbClient(g) PROVE TypeInv'
  <2>1. PlacesFit'
    BY <1>2, InitDbDoes, PlacesStay
  <2>2. dbCli' \in [Processes -> BOOLEAN]
    BY <1>2, InitDbDoes, FlagsTyped
  <2> QED BY <1>2, <2>1, <2>2, InitDbDoes, TypesKept, Zenon DEF TypeOK, Others, broker
<1>3. ASSUME NEW r \in Requests, StartRequest(r) PROVE TypeInv'
  <2>1. PlacesFit'
    BY <1>3, StartDoes, PlacesStay
  <2> QED BY <1>3, <2>1, StartDoes, TypesKept, Zenon DEF TypeOK, Others, Grow, process, broker
<1>4. ASSUME NEW r \in Requests, WriteRows(r) PROVE TypeInv'
  <2>1. PlacesFit'
    BY <1>4, RowsDoes, PlacesStay
  <2>2. alive' \in [Processes -> BOOLEAN]
    BY <1>4, RowsDoes, TypesKept
  <2>3. told' \in [Requests -> {"nothing", "true", "false", "panic"}]
    BY <1>4, RowsDoes DEF TypeOK
  <2> QED BY <1>4, <2>1, <2>2, <2>3, RowsDoes, TypesKept, Zenon DEF TypeOK, Others, broker
<1>5. CASE Consume
  <2>1. PlacesFit'
    BY <1>5, ConsumeDoes, PlacesStay DEF PlacesFit
  <2>2. alive' \in [Processes -> BOOLEAN]
    <3>1. alive' = alive \/ alive' = [alive EXCEPT !["transfer"] = FALSE]
      BY <1>5, ConsumeDoes
    <3> QED BY <3>1, FlagsTyped
  <2>3. pc' \in [Goroutines -> Places]
    BY <1>5, ConsumeDoes DEF TypeOK, Others
  <2> QED BY <1>5, <2>1, <2>2, <2>3, ConsumeDoes, TypesKept, Zenon DEF TypeOK, broker
<1>6. CASE Take
  <2>1. PlacesFit'
    BY <1>6, TakeDoes, PlacesStay
  <2>2. /\ queue' \in [Addresses -> SUBSET Requests] /\ taken' \subseteq Requests
        /\ task' \in Requests
    BY <1>6, TakeDoes DEF TypeOK
  <2> QED BY <1>6, <2>1, <2>2, TakeDoes, TypesKept, Zenon DEF TypeOK, Others, process
<1>7. CASE Work
  <2>1. PlacesFit'
    BY <1>7, WorkDoes, PlacesStay DEF PlacesFit
  <2>2. alive' \in [Processes -> BOOLEAN]
    <3>1. alive' = alive \/ alive' = [alive EXCEPT !["transfer"] = FALSE]
      BY <1>7, WorkDoes
    <3> QED BY <3>1, FlagsTyped
  <2>3. pc' \in [Goroutines -> Places]
    BY <1>7, WorkDoes DEF TypeOK, Others
  <2> QED BY <1>7, <2>1, <2>2, <2>3, WorkDoes, TypesKept, Zenon DEF TypeOK, Grow, broker
<1>8. CASE World
  BY <1>8, WorldDoes DEF TypeOK, PlacesFit, Grow, process
<1>9. ASSUME NEW p \in Processes, Restart(p) PROVE TypeInv'
  <2>1. PlacesFit'
    BY <1>9, RestartDoes DEF PlacesFit
  <2>2. alive' \in [Processes -> BOOLEAN] /\ dbCli' \in [Processes -> BOOLEAN]
    BY <1>9, RestartDoes, FlagsTyped
  <2>3. url' \in [Processes -> Addresses]
    BY <1>9, RestartDoes DEF TypeOK
  <2>4. channel' \in [Processes -> Channel \cup {NoChannel}]
    BY <1>9, RestartDoes DEF TypeOK
  <2> QED BY <1>9, <2>1, <2>2, <2>3, <2>4, RestartDoes, TypesKept, Zenon DEF TypeOK, Grow, broker
<1> QED BY <1>1, <1>2, <1>3, <1>4, <1>5, <1>6, <1>7, <1>8, <1>9

\* A step is one of a goroutine in package mq, or one of the others.
LEMMA StepIs ==
  ASSUME [Next]_vars
  PROVE  \/ UNCHANGED vars
         \/ \E g \in Goroutines : MqStep(g)
         \/ \E g \in {"umain", "tmain"} : ParseFlags(g) \/ InitDbClient(g)
         \/ \E r \in Requests : StartRequest(r) \/ WriteRows(r)
         \/ Consume \/ Take \/ Work \/ World
         \/ \E p \in Processes : Restart(p)
BY GoroutinesAre DEF Next, Running, MainStep, ConsumerStep, RequestStep, World

LEMMA TypesHold == Spec => []TypeInv
<1>1. Init => TypeInv
  BY GoroutinesAre, PlacesAre DEF Init, TypeInv, TypeOK, PlacesFit, First
<1>2. TypeInv /\ [Next]_vars => TypeInv'
  <2> SUFFICES ASSUME TypeInv, [Next]_vars PROVE TypeInv'
    OBVIOUS
  <2>1. CASE UNCHANGED vars
    BY <2>1 DEF vars, process, broker, TypeInv, TypeOK, PlacesFit
  <2> QED BY <2>1, StepIs, MqTyped, OtherTyped
<1> QED BY <1>1, <1>2, PTL DEF Spec

\* The types of the connection: goroutines are where the code can be, and an
\* address is one RabbitURL can have.
THEOREM MqTypes == Spec => []TypeOK
<1>1. TypeInv => TypeOK
  BY DEF TypeInv
<1> QED BY <1>1, TypesHold, PTL

(***************************************************************************)
(* The parts of the invariant, one after the other.                        *)
(***************************************************************************)
LEMMA NotifyOwn ==
  ASSUME TypeInv, NEW g \in Goroutines, Notify(g)
  PROVE  g \in {"umain", "consumer"}
BY GoroutinesAre DEF Notify, At, TypeInv, PlacesFit, Goroutines

\* The upload service starts up in order.
LEMMA OrderStays ==
  ASSUME TypeInv, InOrder, [Next]_vars
  PROVE  InOrder'
<1> USE GoroutinesAre, Kinds DEF TypeInv
<1>1. ASSUME NEW g \in Goroutines, CheckChannel(g) PROVE InOrder'
  BY <1>1, CheckDoes DEF InOrder, PlacesFit, TypeOK, Others, Grow, process, broker
<1>2. ASSUME NEW g \in Goroutines, OpenChannel(g) PROVE InOrder'
  BY <1>2, OpenDoes DEF InOrder, PlacesFit, TypeOK, Others, Grow, process, broker
<1>3. ASSUME NEW g \in Goroutines, Notify(g) PROVE InOrder'
  BY <1>3, NotifyDoes, NotifyOwn DEF InOrder, PlacesFit, TypeOK, Others, broker
<1>4. ASSUME NEW g \in Goroutines, Send(g) PROVE InOrder'
  BY <1>4, SendDoes DEF InOrder, PlacesFit, TypeOK, Others
<1>5. ASSUME NEW g \in {"umain", "tmain"}, ParseFlags(g) PROVE InOrder'
  BY <1>5, ParseDoes DEF InOrder, PlacesFit, TypeOK, Others, broker
<1>6. ASSUME NEW g \in {"umain", "tmain"}, InitDbClient(g) PROVE InOrder'
  BY <1>6, InitDbDoes DEF InOrder, PlacesFit, TypeOK, Others, broker
<1>7. ASSUME NEW r \in Requests, StartRequest(r) PROVE InOrder'
  BY <1>7, StartDoes DEF InOrder, PlacesFit, TypeOK, Others, Grow, process, broker
<1>8. ASSUME NEW r \in Requests, WriteRows(r) PROVE InOrder'
  BY <1>8, RowsDoes DEF InOrder, PlacesFit, TypeOK, Others, broker
<1>9. CASE Consume
  BY <1>9, ConsumeDoes DEF InOrder, PlacesFit, TypeOK, Others, broker
<1>10. CASE Take
  BY <1>10, TakeDoes DEF InOrder, PlacesFit, TypeOK, Others, process
<1>11. CASE Work
  BY <1>11, WorkDoes DEF InOrder, PlacesFit, TypeOK, Others, Grow, broker
<1>12. CASE World
  BY <1>12, WorldDoes DEF InOrder, PlacesFit, TypeOK, Grow, process
<1>13. ASSUME NEW p \in Processes, Restart(p) PROVE InOrder'
  BY <1>13, RestartDoes DEF InOrder, PlacesFit, TypeOK, Grow, broker
<1>14. CASE UNCHANGED vars
  BY <1>14 DEF InOrder, PlacesFit, TypeOK, vars, process, broker
<1> QED BY <1>1, <1>2, <1>3, <1>4, <1>5, <1>6, <1>7,
          <1>8, <1>9, <1>10, <1>11, <1>12, <1>13, <1>14, StepIs DEF MqStep

\* Channels are live.
LEMMA LivesStay ==
  ASSUME TypeInv, Lives, [Next]_vars
  PROVE  Lives'
<1> USE GoroutinesAre, Kinds DEF TypeInv
<1>1. ASSUME NEW g \in Goroutines, CheckChannel(g) PROVE Lives'
  BY <1>1, CheckDoes DEF Lives, TypeOK, Channel, Others, Grow, process, broker
<1>2. ASSUME NEW g \in Goroutines, OpenChannel(g) PROVE Lives'
  BY <1>2, OpenDoes DEF Lives, TypeOK, Channel, Others, Grow, process, broker
<1>3. ASSUME NEW g \in Goroutines, Notify(g) PROVE Lives'
  BY <1>3, NotifyDoes, NotifyOwn DEF Lives, TypeOK, Channel, Others, broker
<1>4. ASSUME NEW g \in Goroutines, Send(g) PROVE Lives'
  BY <1>4, SendDoes DEF Lives, TypeOK, Channel, Others
<1>5. ASSUME NEW g \in {"umain", "tmain"}, ParseFlags(g) PROVE Lives'
  BY <1>5, ParseDoes DEF Lives, TypeOK, Channel, Others, broker
<1>6. ASSUME NEW g \in {"umain", "tmain"}, InitDbClient(g) PROVE Lives'
  BY <1>6, InitDbDoes DEF Lives, TypeOK, Channel, Others, broker
<1>7. ASSUME NEW r \in Requests, StartRequest(r) PROVE Lives'
  BY <1>7, StartDoes DEF Lives, TypeOK, Channel, Others, Grow, process, broker
<1>8. ASSUME NEW r \in Requests, WriteRows(r) PROVE Lives'
  BY <1>8, RowsDoes DEF Lives, TypeOK, Channel, Others, broker
<1>9. CASE Consume
  BY <1>9, ConsumeDoes DEF Lives, TypeOK, Channel, Others, broker
<1>10. CASE Take
  BY <1>10, TakeDoes DEF Lives, TypeOK, Channel, Others, process
<1>11. CASE Work
  BY <1>11, WorkDoes DEF Lives, TypeOK, Channel, Others, Grow, broker
<1>12. CASE World
  BY <1>12, WorldDoes DEF Lives, TypeOK, Channel, Grow, process
<1>13. ASSUME NEW p \in Processes, Restart(p) PROVE Lives'
  BY <1>13, RestartDoes DEF Lives, TypeOK, Channel, Grow, broker
<1>14. CASE UNCHANGED vars
  BY <1>14 DEF Lives, TypeOK, Channel, vars, process, broker
<1> QED BY <1>1, <1>2, <1>3, <1>4, <1>5, <1>6, <1>7,
          <1>8, <1>9, <1>10, <1>11, <1>12, <1>13, <1>14, StepIs DEF MqStep

\* The flag's broker is dialed.
LEMMA DialedStays ==
  ASSUME TypeInv, InOrder, Dialed, [Next]_vars
  PROVE  Dialed'
<1> USE GoroutinesAre, Kinds DEF TypeInv
<1>1. ASSUME NEW g \in Goroutines, CheckChannel(g) PROVE Dialed'
  <2>1. g = "umain" \/ g = "tmain" \/ g = "consumer" \/ g \in Requests
    BY DEF Goroutines
  <2>2. faults'["early"] = 0 => url[ProcessOf(g)] = "flag"
    BY <1>1, <2>1, CheckDoes DEF InOrder, PlacesFit, Grow, TypeOK
  <2> QED BY <1>1, <2>2, CheckDoes DEF Dialed, TypeOK, Others, Grow, process, broker
<1>2. ASSUME NEW g \in Goroutines, OpenChannel(g) PROVE Dialed'
  BY <1>2, OpenDoes DEF InOrder, Dialed, PlacesFit, TypeOK, Channel, Others, Grow, process, broker
<1>3. ASSUME NEW g \in Goroutines, Notify(g) PROVE Dialed'
  BY <1>3, NotifyDoes, NotifyOwn DEF InOrder, Dialed, PlacesFit, TypeOK, Channel, Others, broker
<1>4. ASSUME NEW g \in Goroutines, Send(g) PROVE Dialed'
  BY <1>4, SendDoes DEF InOrder, Dialed, PlacesFit, TypeOK, Channel, Others
<1>5. ASSUME NEW g \in {"umain", "tmain"}, ParseFlags(g) PROVE Dialed'
  BY <1>5, ParseDoes DEF InOrder, Dialed, PlacesFit, TypeOK, Channel, Others, broker
<1>6. ASSUME NEW g \in {"umain", "tmain"}, InitDbClient(g) PROVE Dialed'
  BY <1>6, InitDbDoes DEF InOrder, Dialed, PlacesFit, TypeOK, Channel, Others, broker
<1>7. ASSUME NEW r \in Requests, StartRequest(r) PROVE Dialed'
  BY <1>7, StartDoes DEF InOrder, Dialed, PlacesFit, TypeOK, Channel, Others, Grow, process, broker
<1>8. ASSUME NEW r \in Requests, WriteRows(r) PROVE Dialed'
  BY <1>8, RowsDoes DEF InOrder, Dialed, PlacesFit, TypeOK, Channel, Others, broker
<1>9. CASE Consume
  BY <1>9, ConsumeDoes DEF InOrder, Dialed, PlacesFit, TypeOK, Channel, Others, broker
<1>10. CASE Take
  BY <1>10, TakeDoes DEF InOrder, Dialed, PlacesFit, TypeOK, Channel, Others, process
<1>11. CASE Work
  BY <1>11, WorkDoes DEF InOrder, Dialed, PlacesFit, TypeOK, Channel, Others, Grow, broker
<1>12. CASE World
  BY <1>12, WorldDoes DEF InOrder, Dialed, PlacesFit, TypeOK, Channel, Grow, process
<1>13. ASSUME NEW p \in Processes, Restart(p) PROVE Dialed'
  <2>1. \A q \in Processes : channel'[q] # NoChannel => channel'[q] = channel[q]
    BY <1>13, RestartDoes DEF TypeOK
  <2>2. \A g \in Goroutines : pc'[g] = "open" => pc[g] = "open"
    BY <1>13, RestartDoes
  <2>3. UNCHANGED <<addr, up>> /\ Grow
    BY <1>13, RestartDoes DEF broker
  <2> QED BY <2>1, <2>2, <2>3 DEF Dialed, Grow
<1>14. CASE UNCHANGED vars
  BY <1>14 DEF InOrder, Dialed, PlacesFit, TypeOK, Channel, vars, process, broker
<1> QED BY <1>1, <1>2, <1>3, <1>4, <1>5, <1>6, <1>7,
          <1>8, <1>9, <1>10, <1>11, <1>12, <1>13, <1>14, StepIs DEF MqStep

\* Who goes on with a channel has one.
LEMMA ChannelStays ==
  ASSUME TypeInv, InOrder, Dialed, HasChannel, [Next]_vars
  PROVE  HasChannel'
<1> USE GoroutinesAre, Kinds DEF TypeInv
<1>1. ASSUME NEW g \in Goroutines, CheckChannel(g) PROVE HasChannel'
  BY <1>1, CheckDoes DEF Dialed, HasChannel, PlacesFit, Publishing, TypeOK, Channel, Others, Grow, process, broker
<1>2. ASSUME NEW g \in Goroutines, OpenChannel(g) PROVE HasChannel'
  <2>1. \/ channel' = channel \/ faults'["open"] # 0
        \/ channel' = [channel EXCEPT ![ProcessOf(g)] =
                         [broker |-> addr[g], is |-> "live", told |-> FALSE]]
    BY <1>2, OpenDoes
  <2>2. [broker |-> addr[g], is |-> "live", told |-> FALSE] # NoChannel
    <3>1. addr[g] \in Addresses
      BY DEF TypeOK
    <3>2. [broker |-> addr[g], is |-> "live", told |-> FALSE] \in Channel
      BY <3>1 DEF Channel
    <3> QED BY <3>2, MqAssumption
  <2>3. ASSUME NEW h \in Goroutines, pc'[h] \in {"notify", "send"}, faults'["open"] = 0
        PROVE  channel'[ProcessOf(h)] # NoChannel
    <3>1. CASE h = g
      BY <1>2, <2>2, <2>3, <3>1, OpenDoes DEF TypeOK
    <3>2. CASE h # g
      <4>1. pc[h] \in {"notify", "send"} /\ faults["open"] = 0
        BY <1>2, <2>3, <3>2, OpenDoes DEF Others, Grow
      <4>2. channel[ProcessOf(h)] # NoChannel
        BY <4>1 DEF HasChannel
      <4> QED BY <2>1, <2>2, <2>3, <4>2 DEF TypeOK
    <3> QED BY <3>1, <3>2
  <2>4. ASSUME pc'["consumer"] = "consume", faults'["open"] = 0, faults'["early"] = 0,
               faults'["stop"] = 0
        PROVE  channel'["transfer"] # NoChannel
    <3>1. faults["open"] = 0 /\ faults["early"] = 0 /\ faults["stop"] = 0
      BY <1>2, <2>4, OpenDoes DEF Grow
    <3>2. CASE g = "consumer"
      <4>1. addr[g] \in up
        BY <1>2, <3>1, OpenDoes DEF Dialed
      <4> QED BY <1>2, <2>2, <2>4, <3>2, <4>1, OpenDoes DEF TypeOK
    <3>3. CASE g # "consumer"
      <4>1. pc["consumer"] = "consume"
        BY <1>2, <2>4, <3>3, OpenDoes DEF Others
      <4>2. channel["transfer"] # NoChannel
        BY <3>1, <4>1 DEF HasChannel
      <4> QED BY <2>1, <2>2, <2>4, <4>2 DEF TypeOK
    <3> QED BY <3>2, <3>3
  <2> QED BY <2>3, <2>4 DEF HasChannel
<1>3. ASSUME NEW g \in Goroutines, Notify(g) PROVE HasChannel'
  <2>1. \A p \in Processes : channel[p] # NoChannel => channel'[p] # NoChannel
    <3>1. ASSUME NEW c \in Channel PROVE [c EXCEPT !.told = TRUE] # NoChannel
      BY DEF Channel
    <3>2. \A p \in Processes : channel[p] \in Channel \cup {NoChannel}
      BY DEF TypeOK
    <3> QED BY <1>3, <3>1, <3>2, NotifyDoes, NotifyOwn DEF TypeOK
  <2>2. \A h \in Goroutines : pc'[h] \in {"notify", "send"} => pc[h] \in {"notify", "send"}
    BY <1>3, NotifyDoes, NotifyOwn DEF Others
  <2>3. pc'["consumer"] = "consume" =>
          pc["consumer"] = "consume" \/ channel["transfer"] # NoChannel
    BY <1>3, NotifyDoes, NotifyOwn DEF Others
  <2>4. UNCHANGED faults
    BY <1>3, NotifyDoes, NotifyOwn
  <2> QED BY <2>1, <2>2, <2>3, <2>4 DEF HasChannel
<1>4. ASSUME NEW g \in Goroutines, Send(g) PROVE HasChannel'
  BY <1>4, SendDoes DEF Dialed, HasChannel, PlacesFit, Publishing, TypeOK, Channel, Others
<1>5. ASSUME NEW g \in {"umain", "tmain"}, ParseFlags(g) PROVE HasChannel'
  BY <1>5, ParseDoes DEF Dialed, HasChannel, PlacesFit, Publishing, TypeOK, Channel, Others, broker
<1>6. ASSUME NEW g \in {"umain", "tmain"}, InitDbClient(g) PROVE HasChannel'
  BY <1>6, InitDbDoes DEF Dialed, HasChannel, PlacesFit, Publishing, TypeOK, Channel, Others, broker
<1>7. ASSUME NEW r \in Requests, StartRequest(r) PROVE HasChannel'
  BY <1>7, StartDoes DEF Dialed, HasChannel, PlacesFit, Publishing, TypeOK, Channel, Others, Grow, process, broker
<1>8. ASSUME NEW r \in Requests, WriteRows(r) PROVE HasChannel'
  BY <1>8, RowsDoes DEF Dialed, HasChannel, PlacesFit, Publishing, TypeOK, Channel, Others, broker
<1>9. CASE Consume
  BY <1>9, ConsumeDoes DEF Dialed, HasChannel, PlacesFit, Publishing, TypeOK, Channel, Others, broker
<1>10. CASE Take
  BY <1>10, TakeDoes DEF Dialed, HasChannel, PlacesFit, Publishing, TypeOK, Channel, Others, process
<1>11. CASE Work
  BY <1>11, WorkDoes DEF Dialed, HasChannel, PlacesFit, Publishing, TypeOK, Channel, Others, Grow, broker
<1>12. CASE World
  BY <1>12, WorldDoes DEF Dialed, HasChannel, PlacesFit, Publishing, TypeOK, Channel, Grow, process
<1>13. ASSUME NEW p \in Processes, Restart(p) PROVE HasChannel'
  <2>1. \A g \in Goroutines : pc'[g] \in {"notify", "send", "consume"} =>
          pc'[g] = pc[g] /\ channel'[ProcessOf(g)] = channel[ProcessOf(g)]
    BY <1>13, RestartDoes DEF TypeOK
  <2>2. Grow
    BY <1>13, RestartDoes
  <2> QED BY <2>1, <2>2 DEF HasChannel, Grow
<1>14. CASE UNCHANGED vars
  BY <1>14 DEF Dialed, HasChannel, PlacesFit, Publishing, TypeOK, Channel, vars, process, broker
<1> QED BY <1>1, <1>2, <1>3, <1>4, <1>5, <1>6, <1>7,
          <1>8, <1>9, <1>10, <1>11, <1>12, <1>13, <1>14, StepIs DEF MqStep

\* What Publish answered true for is kept.
LEMMA KeptStays ==
  ASSUME TypeInv, Dialed, Lives, Kept, [Next]_vars
  PROVE  Kept'
<1> USE GoroutinesAre, Kinds DEF TypeInv
<1>1. ASSUME NEW g \in Goroutines, CheckChannel(g) PROVE Kept'
  BY <1>1, CheckDoes DEF Dialed, Lives, Kept, TypeOK, Channel, Others, Grow, process, broker
<1>2. ASSUME NEW g \in Goroutines, OpenChannel(g) PROVE Kept'
  BY <1>2, OpenDoes DEF Dialed, Lives, Kept, TypeOK, Channel, Others, Grow, process, broker
<1>3. ASSUME NEW g \in Goroutines, Notify(g) PROVE Kept'
  BY <1>3, NotifyDoes, NotifyOwn DEF Dialed, Lives, Kept, TypeOK, Channel, Others, broker
<1>4. ASSUME NEW g \in Goroutines, Send(g) PROVE Kept'
  BY <1>4, SendDoes DEF Dialed, Lives, Kept, TypeOK, Channel, Others
<1>5. ASSUME NEW g \in {"umain", "tmain"}, ParseFlags(g) PROVE Kept'
  BY <1>5, ParseDoes DEF Dialed, Lives, Kept, TypeOK, Channel, Others, broker
<1>6. ASSUME NEW g \in {"umain", "tmain"}, InitDbClient(g) PROVE Kept'
  BY <1>6, InitDbDoes DEF Dialed, Lives, Kept, TypeOK, Channel, Others, broker
<1>7. ASSUME NEW r \in Requests, StartRequest(r) PROVE Kept'
  BY <1>7, StartDoes DEF Dialed, Lives, Kept, TypeOK, Channel, Others, Grow, process, broker
<1>8. ASSUME NEW r \in Requests, WriteRows(r) PROVE Kept'
  BY <1>8, RowsDoes DEF Dialed, Lives, Kept, TypeOK, Channel, Others, broker
<1>9. CASE Consume
  BY <1>9, ConsumeDoes DEF Dialed, Lives, Kept, TypeOK, Channel, Others, broker
<1>10. CASE Take
  BY <1>10, TakeDoes DEF Dialed, Lives, Kept, TypeOK, Channel, Others, process
<1>11. CASE Work
  BY <1>11, WorkDoes DEF Dialed, Lives, Kept, TypeOK, Channel, Others, Grow, broker
<1>12. CASE World
  BY <1>12, WorldDoes DEF Dialed, Lives, Kept, TypeOK, Channel, Grow, process
<1>13. ASSUME NEW p \in Processes, Restart(p) PROVE Kept'
  BY <1>13, RestartDoes DEF Dialed, Lives, Kept, TypeOK, Channel, Grow, broker
<1>14. CASE UNCHANGED vars
  BY <1>14 DEF Dialed, Lives, Kept, TypeOK, Channel, vars, process, broker
<1> QED BY <1>1, <1>2, <1>3, <1>4, <1>5, <1>6, <1>7,
          <1>8, <1>9, <1>10, <1>11, <1>12, <1>13, <1>14, StepIs DEF MqStep

\* What brings a service down.
LEMMA DownStays ==
  ASSUME TypeInv, InOrder, Lives, HasChannel, Down, [Next]_vars
  PROVE  Down'
<1> USE GoroutinesAre, Kinds DEF TypeInv
<1>1. ASSUME NEW g \in Goroutines, CheckChannel(g) PROVE Down'
  BY <1>1, CheckDoes DEF InOrder, Lives, HasChannel, Live, Down, PlacesFit, TypeOK, Channel, Others, Grow, process, broker
<1>2. ASSUME NEW g \in Goroutines, OpenChannel(g) PROVE Down'
  BY <1>2, OpenDoes DEF InOrder, Lives, HasChannel, Live, Down, PlacesFit, TypeOK, Channel, Others, Grow, process, broker
<1>3. ASSUME NEW g \in Goroutines, Notify(g) PROVE Down'
  BY <1>3, NotifyDoes, NotifyOwn DEF InOrder, Lives, HasChannel, Live, Down, PlacesFit, TypeOK, Channel, Others, broker
<1>4. ASSUME NEW g \in Goroutines, Send(g) PROVE Down'
  BY <1>4, SendDoes DEF InOrder, Lives, HasChannel, Live, Down, PlacesFit, TypeOK, Channel, Others
<1>5. ASSUME NEW g \in {"umain", "tmain"}, ParseFlags(g) PROVE Down'
  BY <1>5, ParseDoes DEF InOrder, Lives, HasChannel, Live, Down, PlacesFit, TypeOK, Channel, Others, broker
<1>6. ASSUME NEW g \in {"umain", "tmain"}, InitDbClient(g) PROVE Down'
  BY <1>6, InitDbDoes DEF InOrder, Lives, HasChannel, Live, Down, PlacesFit, TypeOK, Channel, Others, broker
<1>7. ASSUME NEW r \in Requests, StartRequest(r) PROVE Down'
  BY <1>7, StartDoes DEF InOrder, Lives, HasChannel, Live, Down, PlacesFit, TypeOK, Channel, Others, Grow, process, broker
<1>8. ASSUME NEW r \in Requests, WriteRows(r) PROVE Down'
  BY <1>8, RowsDoes DEF InOrder, Lives, HasChannel, Live, Down, PlacesFit, TypeOK, Channel, Others, broker
<1>9. CASE Consume
  BY <1>9, ConsumeDoes DEF InOrder, Lives, HasChannel, Live, Down, PlacesFit, TypeOK, Channel, Others, broker
<1>10. CASE Take
  BY <1>10, TakeDoes DEF InOrder, Lives, HasChannel, Live, Down, PlacesFit, TypeOK, Channel, Others, process
<1>11. CASE Work
  BY <1>11, WorkDoes DEF InOrder, Lives, HasChannel, Live, Down, PlacesFit, TypeOK, Channel, Others, Grow, broker
<1>12. CASE World
  BY <1>12, WorldDoes DEF InOrder, Lives, HasChannel, Live, Down, PlacesFit, TypeOK, Channel, Grow, process
<1>13. ASSUME NEW p \in Processes, Restart(p) PROVE Down'
  BY <1>13, RestartDoes DEF InOrder, Lives, HasChannel, Live, Down, PlacesFit, TypeOK, Channel, Grow, broker
<1>14. CASE UNCHANGED vars
  BY <1>14 DEF InOrder, Lives, HasChannel, Live, Down, PlacesFit, TypeOK, Channel, vars, process, broker
<1> QED BY <1>1, <1>2, <1>3, <1>4, <1>5, <1>6, <1>7,
          <1>8, <1>9, <1>10, <1>11, <1>12, <1>13, <1>14, StepIs DEF MqStep

LEMMA InvHolds == Spec => []Inv
<1>1. Init => Inv
  <2> SUFFICES ASSUME Init PROVE Inv
    OBVIOUS
  <2> USE GoroutinesAre DEF Init
  <2>1. /\ pc["umain"] = "flags" /\ pc["tmain"] = "flags" /\ pc["consumer"] = "check"
        /\ \A r \in Requests : pc[r] = "idle"
        /\ \A g \in Goroutines : pc[g] \in {"flags", "check", "idle"}
    BY DEF First, Goroutines
  <2>2. PlacesFit /\ InOrder /\ Dialed
    BY <2>1 DEF PlacesFit, InOrder, Dialed
  <2>3. Lives /\ HasChannel /\ Kept /\ Down
    BY <2>1 DEF Lives, HasChannel, Kept, Down
  <2> QED BY <2>2, <2>3 DEF Inv
<1>2. TypeInv /\ Inv /\ [Next]_vars => Inv'
  <2> SUFFICES ASSUME TypeInv, Inv, [Next]_vars PROVE Inv'
    OBVIOUS
  <2>1. PlacesFit'
    <3>1. CASE UNCHANGED vars
      BY <3>1 DEF vars, TypeInv, PlacesFit
    <3> QED BY <3>1, StepIs, MqTyped, OtherTyped DEF TypeInv
  <2>2. InOrder' /\ Dialed' /\ Lives' /\ HasChannel' /\ Kept' /\ Down'
    BY OrderStays, DialedStays, LivesStay, ChannelStays, KeptStays, DownStays DEF Inv
  <2> QED BY <2>1, <2>2 DEF Inv
<1> QED BY <1>1, <1>2, TypesHold, PTL DEF Spec

\* While connections hold and services start in order, a task whose publication
\* was answered true is with the broker, or was delivered.
THEOREM PublishedSafe == Spec => []PublishedIsKept
<1>1. Inv => PublishedIsKept
  BY NeverMeans DEF Inv
<1> QED BY <1>1, InvHolds, PTL

\* A service goes down, and a request panics, for a failing conn.Channel(), a
\* start out of order or, a service, a lost connection; for nothing else.
THEOREM DownSafe == Spec => []DownOnlyByFault
<1>1. Inv => DownOnlyByFault
  BY NeverMeans DEF Inv
<1> QED BY <1>1, InvHolds, PTL

=============================================================================
