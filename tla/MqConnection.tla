----------------------------- MODULE MqConnection -----------------------------
(***************************************************************************)
(* The connection of the upload and of the transfer service to RabbitMQ:   *)
(* package mq, and the start-up of the two services that use it.           *)
(*                                                                         *)
(* Package mq keeps one channel per process, in a variable that every      *)
(* publisher reads, makes when it is nil, and reads again, without a lock. *)
(* The HTTP service of the upload service and the consumer of the transfer *)
(* service run beside the goroutine that parses the flags (which set the   *)
(* broker's address) and makes the dbproxy client: they may come first.    *)
(*                                                                         *)
(* mq.Init registers notifyClose, which nothing makes: it is nil.  The     *)
(* goroutine that is to reconnect waits on it for ever, so it has no step  *)
(* here; and the library, which tells those registered before it marks the *)
(* channel closed, waits for ever too, with the channel's locks held.      *)
(***************************************************************************)
EXTENDS Naturals, FiniteSets

CONSTANTS
    Requests,     \* uploads, each of which publishes one task
    NoChannel,    \* nil
    NoTask,
    FaultBudget,  \* [FaultKinds -> Nat], how often each fault may happen
    KindsAtOnce   \* how many kinds of faults meet in one behaviour

FaultKinds == {
    "early",      \* something runs before its service has started up
    "open",       \* the broker answers, and conn.Channel() fails
    "cut",        \* a connection is lost
    "stop",       \* a broker stops and forgets its transient messages
    "fail",       \* ProcessTransfer returns false
    "restart"}    \* an operator restarts a service

\* The addresses RabbitURL can have: the one in config/rabbitmq.go, and the
\* one of the flag mqhost, which is never empty (common/flags.go).
Addresses == {"config", "flag"}

\* A channel is live; lost, when its connection is and the library has not
\* noticed; or closed.  "told" if notifyClose is registered with it.
Channel == [broker : Addresses, is : {"live", "lost", "closed"}, told : BOOLEAN]

ASSUME MqAssumption ==
    /\ NoChannel \notin Channel
    /\ NoTask \notin Requests
    /\ Requests \cap {"umain", "tmain", "consumer"} = {}
    /\ FaultBudget \in [FaultKinds -> Nat]
    /\ KindsAtOnce \in Nat

Processes == {"upload", "transfer"}

\* Goroutines: handlers, the main goroutines, and startTranserService.
Goroutines == Requests \cup {"umain", "tmain", "consumer"}
ProcessOf(g) == IF g \in {"tmain", "consumer"} THEN "transfer" ELSE "upload"

VARIABLES
    alive,     \* [Processes -> BOOLEAN]
    url,       \* config.RabbitURL of each process
    dbCli,     \* the process has called dbproxy.Init
    channel,   \* mq.channel of each process
    pc,        \* where each goroutine is
    addr,      \* the address it dials
    task,      \* what the consumer works on
    told,      \* what mq.Publish answered to a request, or "panic"
    up,        \* the brokers that run
    queue,     \* the tasks each broker has
    taken,     \* history: the tasks that were delivered
    faults     \* the faults so far

process == <<alive, url, dbCli>>
broker  == <<up, queue>>
vars    == <<process, channel, pc, addr, task, told, broker, taken, faults>>

InMq   == {"check", "open", "notify", "send", "hung"}
Places == InMq \cup {"idle", "flags", "db", "serve", "consume", "wait", "work",
                     "rows", "over"}

TypeOK ==
    /\ alive \in [Processes -> BOOLEAN]
    /\ url \in [Processes -> Addresses]
    /\ dbCli \in [Processes -> BOOLEAN]
    /\ channel \in [Processes -> Channel \cup {NoChannel}]
    /\ pc \in [Goroutines -> Places]
    /\ addr \in [Goroutines -> Addresses]
    /\ task \in Requests \cup {NoTask}
    /\ told \in [Requests -> {"nothing", "true", "false", "panic"}]
    /\ up \subseteq Addresses
    /\ queue \in [Addresses -> SUBSET Requests]
    /\ taken \subseteq Requests
    /\ faults \in [FaultKinds -> Nat]

\* The first steps of a process, the main goroutine and the one it starts.
First == [g \in Goroutines |->
            CASE g \in Requests -> "idle" [] g = "consumer" -> "check" [] OTHER -> "flags"]

Init ==
    /\ alive = [p \in Processes |-> TRUE]
    /\ url = [p \in Processes |-> "config"]
    /\ dbCli = [p \in Processes |-> FALSE]
    /\ channel = [p \in Processes |-> NoChannel]
    /\ pc = First
    /\ addr = [g \in Goroutines |-> "config"]
    /\ task = NoTask
    /\ told = [r \in Requests |-> "nothing"]
    /\ up \in {{"flag"}, Addresses}
    /\ queue = [b \in Addresses |-> {}]
    /\ taken = {}
    /\ faults = [k \in FaultKinds |-> 0]

-----------------------------------------------------------------------------
Fault(k) ==
    /\ faults[k] < FaultBudget[k]
    /\ Cardinality({j \in FaultKinds : faults[j] > 0} \cup {k}) <= KindsAtOnce
    /\ faults' = [faults EXCEPT ![k] = @ + 1]

\* What happens early is counted as a fault.
CountEarly(early) == IF early THEN Fault("early") ELSE UNCHANGED faults

At(g, place)   == pc[g] = place /\ alive[ProcessOf(g)]
Goto(g, place) == pc' = [pc EXCEPT ![g] = place]

MyChannel(g) == channel[ProcessOf(g)]
SetChannel(g, c) == channel' = [channel EXCEPT ![ProcessOf(g)] = c]
Live(p) == channel[p] # NoChannel /\ channel[p].is = "live"

\* A panic outside a handler ends the process; gin recovers from the others
\* and answers 500.
Panic(g) ==
    IF g \in Requests
      THEN /\ pc' = [pc EXCEPT ![g] = "over"]
           /\ told' = [told EXCEPT ![g] = "panic"]
           /\ UNCHANGED alive
      ELSE alive' = [alive EXCEPT ![ProcessOf(g)] = FALSE] /\ UNCHANGED <<pc, told>>

(***************************************************************************)
(* Start-up.                                                               *)
(***************************************************************************)

\* Mutant of ParseFlags: an empty flag replaces the address too.
ParseAnyFlag(g) ==
    /\ At(g, "flags")
    /\ \E host \in {"flag", ""} : url' = [url EXCEPT ![ProcessOf(g)] = host]
    /\ Goto(g, "db")
    /\ UNCHANGED <<alive, dbCli, channel, addr, task, told, broker, taken, faults>>

\* service.Init: the flag's address replaces the configured one.
ParseFlags(g) ==
    /\ At(g, "flags")
    /\ url' = [url EXCEPT ![ProcessOf(g)] = "flag"]
    /\ Goto(g, "db")
    /\ UNCHANGED <<alive, dbCli, channel, addr, task, told, broker, taken, faults>>

\* dbproxy.Init; then the upload service goes on to mq.Init.
InitDbClient(g) ==
    /\ At(g, "db")
    /\ dbCli' = [dbCli EXCEPT ![ProcessOf(g)] = TRUE]
    /\ Goto(g, IF g = "umain" THEN "check" ELSE "serve")
    /\ UNCHANGED <<alive, url, channel, addr, task, told, broker, taken, faults>>

(***************************************************************************)
(* initChannel, called by mq.Init and by Publish.                          *)
(***************************************************************************)
Publishing(g) == g \in Requests \/ (g = "consumer" /\ task # NoTask)

\* Where its caller goes on: mq.Init to NotifyClose, or past it; Publish to
\* the publication, or to its caller with an answer.  The consumer does not
\* look at the answer.
Opened(g) == Goto(g, IF Publishing(g) THEN "send" ELSE "notify") /\ UNCHANGED <<told, task>>

Answered(g, answer) ==
    IF g \in Requests
      THEN Goto(g, "rows") /\ told' = [told EXCEPT ![g] = answer] /\ UNCHANGED task
      ELSE Goto(g, "wait") /\ task' = NoTask /\ UNCHANGED told

NotOpened(g) ==
    IF Publishing(g) THEN Answered(g, "false")
    ELSE Goto(g, IF g = "consumer" THEN "consume" ELSE "serve") /\ UNCHANGED <<told, task>>

\* A request comes to mq.Publish, perhaps before the service has started up.
StartRequest(r) ==
    /\ At(r, "idle")
    /\ Goto(r, "check")
    /\ CountEarly(pc["umain"] # "serve")
    /\ UNCHANGED <<process, channel, addr, task, told, broker, taken>>

\* Mutant of CheckChannel: RabbitURL is read as it was when the package was
\* loaded.
CheckConfigured(g) ==
    /\ At(g, "check")
    /\ IF MyChannel(g) # NoChannel THEN Opened(g)
       ELSE Goto(g, "open") /\ UNCHANGED <<told, task>>
    /\ CountEarly(g = "consumer" /\ url["transfer"] = "config")
    /\ UNCHANGED <<process, channel, addr, broker, taken>>

\* channel != nil is enough for initChannel: it may be dead.
CheckChannel(g) ==
    /\ At(g, "check")
    /\ IF MyChannel(g) # NoChannel THEN Opened(g) /\ UNCHANGED addr
       ELSE /\ Goto(g, "open")
            /\ addr' = [addr EXCEPT ![g] = url[ProcessOf(g)]]
            /\ UNCHANGED <<told, task>>
    /\ CountEarly(g = "consumer" /\ url["transfer"] = "config")
    /\ UNCHANGED <<process, channel, broker, taken>>

\* Mutant of OpenChannel: the channel is dropped before it is made again.
OpenDropsFirst(g) ==
    /\ At(g, "open")
    /\ addr' = [addr EXCEPT ![g] = "config"]
    /\ IF addr[g] \in up /\ MyChannel(g) = NoChannel
         THEN /\ SetChannel(g, [broker |-> addr[g], is |-> "live", told |-> FALSE])
              /\ Opened(g)
         ELSE NotOpened(g) /\ SetChannel(g, NoChannel)
    /\ UNCHANGED <<process, broker, taken, faults>>

\* amqp.Dial and conn.Channel: whatever comes of the second is the package's
\* channel from then on, nil after an error.  A dial that fails leaves it.
OpenChannel(g) ==
    /\ At(g, "open")
    /\ addr' = [addr EXCEPT ![g] = "config"]
    /\ IF addr[g] \in up
         THEN \/ /\ SetChannel(g, [broker |-> addr[g], is |-> "live", told |-> FALSE])
                 /\ Opened(g)
                 /\ UNCHANGED faults
              \/ /\ SetChannel(g, NoChannel)
                 /\ NotOpened(g)
                 /\ Fault("open")
         ELSE NotOpened(g) /\ UNCHANGED <<channel, faults>>
    /\ UNCHANGED <<process, broker, taken>>

\* channel.NotifyClose(notifyClose): of the channel that is there by now.  A
\* closed channel closes what it is given at once, and panics, as it is nil.
Notify(g) ==
    /\ At(g, "notify")
    /\ IF MyChannel(g) = NoChannel \/ MyChannel(g).is = "closed"
         THEN Panic(g) /\ UNCHANGED channel
         ELSE /\ SetChannel(g, [MyChannel(g) EXCEPT !.told = TRUE])
              /\ Goto(g, IF g = "consumer" THEN "consume" ELSE "serve")
              /\ UNCHANGED <<alive, told>>
    /\ UNCHANGED <<url, dbCli, addr, task, broker, taken, faults>>

(***************************************************************************)
(* Publish.                                                                *)
(***************************************************************************)

\* Mutant of Send: a publisher that finds no channel waits for one.
SendWaits(g) ==
    /\ At(g, "send")
    /\ MyChannel(g) # NoChannel
    /\ IF MyChannel(g).is = "live"
         THEN /\ Answered(g, "true")
              /\ queue' = IF g \in Requests
                            THEN [queue EXCEPT ![MyChannel(g).broker] = @ \cup {g}]
                            ELSE queue
         ELSE Answered(g, "false") /\ UNCHANGED queue
    /\ UNCHANGED <<process, channel, addr, up, taken, faults>>

\* channel.Publish: on a live channel; on a lost one, where the message goes
\* nowhere and that may be noticed; or on a closed one, where it fails, or
\* waits for ever for the lock of a library that waits on notifyClose.
Send(g) ==
    /\ At(g, "send")
    /\ LET c == MyChannel(g) IN
       \/ /\ c = NoChannel /\ Panic(g) /\ UNCHANGED <<queue, task>>
       \/ /\ Live(ProcessOf(g)) /\ Answered(g, "true")
          /\ queue' = IF g \in Requests THEN [queue EXCEPT ![c.broker] = @ \cup {g}]
                      ELSE queue
          /\ UNCHANGED alive
       \/ /\ c # NoChannel /\ c.is = "lost"
          /\ \E answer \in {"true", "false"} : Answered(g, answer)
          /\ UNCHANGED <<alive, queue>>
       \/ /\ c # NoChannel /\ c.is = "closed"
          /\ \/ Answered(g, "false")
             \/ c.told /\ Goto(g, "hung") /\ UNCHANGED <<told, task>>
          /\ UNCHANGED <<alive, queue>>
    /\ UNCHANGED <<url, dbCli, channel, addr, up, taken, faults>>

\* DoUploadHandler goes on, whatever Publish answered, to write the rows: a
\* client that is nil is a panic.
WriteRows(r) ==
    /\ At(r, "rows")
    /\ IF dbCli["upload"] THEN Goto(r, "over") /\ UNCHANGED <<alive, told>> ELSE Panic(r)
    /\ UNCHANGED <<url, dbCli, channel, addr, task, broker, taken, faults>>

(***************************************************************************)
(* StartConsume.                                                           *)
(***************************************************************************)

\* channel.Consume: an error ends the process, as a nil channel does; with
\* the library's locks held it waits for ever.
Consume ==
    /\ At("consumer", "consume")
    /\ IF Live("transfer") THEN Goto("consumer", "wait") /\ UNCHANGED <<alive, told>>
       ELSE \/ Panic("consumer")
            \/ /\ channel["transfer"] # NoChannel /\ channel["transfer"].told
               /\ Goto("consumer", "hung")
               /\ UNCHANGED <<alive, told>>
    /\ UNCHANGED <<url, dbCli, channel, addr, task, broker, taken, faults>>

\* The loop over the deliveries.  They are acknowledged as they come (autoAck);
\* when the channel is gone no more come, and the loop or StartConsume waits.
Take ==
    /\ At("consumer", "wait")
    /\ Live("transfer")
    /\ \E t \in queue[channel["transfer"].broker] :
         /\ task' = t
         /\ queue' = [queue EXCEPT ![channel["transfer"].broker] = @ \ {t}]
         /\ taken' = taken \cup {t}
    /\ Goto("consumer", "work")
    /\ UNCHANGED <<process, channel, addr, told, up, faults>>

\* Mutant of Work: the loop ends with the first task that fails.
WorkUntilFailure ==
    /\ At("consumer", "work")
    /\ task' = NoTask
    /\ \/ Goto("consumer", "wait") /\ UNCHANGED faults
       \/ Goto("consumer", "over") /\ Fault("fail")
    /\ UNCHANGED <<process, channel, addr, told, broker, taken>>

\* ProcessTransfer: a task that fails is published to the error queue; one
\* that comes before the dbproxy client is there ends the service.
Work ==
    /\ At("consumer", "work")
    /\ \/ /\ dbCli["transfer"]
          /\ Goto("consumer", "wait") /\ task' = NoTask
          /\ UNCHANGED <<alive, told, faults>>
       \/ /\ Goto("consumer", "check") /\ Fault("fail")
          /\ UNCHANGED <<alive, task, told>>
       \/ /\ ~ dbCli["transfer"]
          /\ Panic("consumer") /\ Fault("early")
          /\ UNCHANGED task
    /\ UNCHANGED <<url, dbCli, channel, addr, broker, taken>>

(***************************************************************************)
(* The world around: brokers, connections, operators.                      *)
(***************************************************************************)
Lost(c) == IF c # NoChannel /\ c.is = "live" THEN [c EXCEPT !.is = "lost"] ELSE c

\* The messages are transient (no DeliveryMode): a broker that stops drops
\* them.
StopBroker(b) ==
    /\ b \in up
    /\ Fault("stop")
    /\ up' = up \ {b}
    /\ queue' = [queue EXCEPT ![b] = {}]
    /\ channel' = [p \in Processes |->
                     IF channel[p] # NoChannel /\ channel[p].broker = b
                       THEN Lost(channel[p]) ELSE channel[p]]
    /\ UNCHANGED <<process, pc, addr, task, told, taken>>

StartBroker(b) ==
    /\ b \notin up
    /\ up' = up \cup {b}
    /\ UNCHANGED <<process, channel, pc, addr, task, told, queue, taken, faults>>

Cut(p) ==
    /\ Live(p)
    /\ Fault("cut")
    /\ channel' = [channel EXCEPT ![p] = Lost(@)]
    /\ UNCHANGED <<process, pc, addr, task, told, broker, taken>>

\* The library finds the connection gone, by a heartbeat or a write.
Notice(p) ==
    /\ channel[p] # NoChannel /\ channel[p].is = "lost"
    /\ channel' = [channel EXCEPT ![p].is = "closed"]
    /\ UNCHANGED <<process, pc, addr, task, told, broker, taken, faults>>

\* Nothing restarts a service by itself: an operator does.  What was in a
\* handler or with the consumer is gone.
Restart(p) ==
    /\ Fault("restart")
    /\ alive' = [alive EXCEPT ![p] = TRUE]
    /\ url' = [url EXCEPT ![p] = "config"]
    /\ dbCli' = [dbCli EXCEPT ![p] = FALSE]
    /\ channel' = [channel EXCEPT ![p] = NoChannel]
    /\ pc' = [g \in Goroutines |->
                IF ProcessOf(g) # p THEN pc[g]
                ELSE IF g \in Requests /\ pc[g] # "idle" THEN "over" ELSE First[g]]
    /\ task' = IF p = "transfer" THEN NoTask ELSE task
    /\ UNCHANGED <<addr, told, broker, taken>>

-----------------------------------------------------------------------------
MqStep(g)      == CheckChannel(g) \/ OpenChannel(g) \/ Notify(g) \/ Send(g)
MainStep(g)    == ParseFlags(g) \/ InitDbClient(g) \/ MqStep(g)
ConsumerStep   == MqStep("consumer") \/ Consume \/ Take \/ Work
RequestStep(r) == MqStep(r) \/ WriteRows(r)

Running ==
    \/ \E g \in {"umain", "tmain"} : MainStep(g)
    \/ ConsumerStep
    \/ \E r \in Requests : RequestStep(r)

Next ==
    \/ Running
    \/ \E r \in Requests : StartRequest(r)
    \/ \E b \in Addresses : StopBroker(b) \/ StartBroker(b)
    \/ \E p \in Processes : Cut(p) \/ Notice(p) \/ Restart(p)

Spec == Init /\ [][Next]_vars

\* Goroutines run, and the library notices what is gone.  No goroutine here
\* runs for ever beside others that wait, so that it is enough to ask it of
\* all of them together.  No request has to come, no broker to stop or start,
\* no operator to do anything.
Fairness ==
    /\ WF_vars(Running)
    /\ WF_vars(\E p \in Processes : Notice(p))

FairSpec == Spec /\ Fairness

(***************************************************************************)
(* Properties.                                                             *)
(***************************************************************************)
Never(kinds) == \A k \in kinds : faults[k] = 0

\* While connections hold, and with nobody before the start-up, a task whose
\* publication was answered true is with the one broker both services use,
\* or was delivered, though several requests dial at once, open channels over
\* each other's, fail to, and services are restarted.
PublishedIsKept ==
    Never({"early", "cut", "stop"}) =>
      \A r \in Requests : told[r] = "true" => r \in queue["flag"] \cup taken

\* What can bring a service down, and a request to a panic: a failing
\* conn.Channel(), which takes the channel from those that have just found it;
\* a start out of order; for a service also a lost connection, when it is
\* about to register or to consume.  A request does not panic for that.
DownOnlyByFault ==
    /\ ~ alive["upload"] => ~ Never({"open", "cut", "stop"})
    /\ ~ alive["transfer"] => ~ Never({"early", "open", "cut", "stop"})
    /\ \A r \in Requests : told[r] = "panic" => ~ Never({"early", "open"})

\* A published task is delivered to the transfer service, though that is
\* restarted and tasks before it fail, as long as both started in order and
\* no connection or channel failed.
TasksTaken ==
    \A r \in Requests :
      told[r] = "true" ~> (r \in taken \/ ~ Never({"early", "open", "cut", "stop"}))

\* A request to publish comes to its end, at the latest with its service,
\* unless a connection was lost: then it may wait for ever on the lock of the
\* channel.
RequestsEnd ==
    \A r \in Requests :
      pc[r] = "check" ~>
        (pc[r] = "over" \/ ~ alive["upload"] \/ ~ Never({"cut", "stop"}))

\* A comment of the code, and not what the code does: mq/conn.go:31, a lost
\* connection is made again by itself, when there is a broker to connect to.
Reconnects ==
    \A p \in Processes :
      []<> ~ (/\ alive[p] /\ channel[p] # NoChannel /\ channel[p].is = "closed"
              /\ channel[p].broker \in up)

===============================================================================
