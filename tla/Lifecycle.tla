----------------------------- MODULE Lifecycle -----------------------------
(***************************************************************************)
(* The process from its start to its end: main (cmd/main.go), the HTTP     *)
(* transport (transport/http/http.go), crawler.Start and Initialize        *)
(* (crawler/service.go, crawler/crawl/service.go), the selector and the    *)
(* workers as far as they start, emit and stop, the output with its        *)
(* monitor, its Kafka writer and its gauge (output/file.go, metrics.go),   *)
(* and the daily job.  Goroutines join the WaitGroup when they or their    *)
(* parents come to it, main waits for it after a signal.                   *)
(***************************************************************************)
EXTENDS NetworkConfig, Output

CONSTANTS
  Configs,     \* the configuration files the process may be started with
  Workers,     \* the goroutines of runBGWorkersPool
  MaxItems,    \* bound: outcomes the workers emit
  MaxJobs      \* bound: runs of the daily job

ASSUME LifecycleAssumption ==
  /\ IsFiniteSet(Workers) /\ Workers # {}
  /\ MaxItems \in Nat /\ MaxJobs \in Nat
  /\ Null \notin Nat

VARIABLES
  proc,        \* the process: "up", "returned", "fatal" or "panic"
  cause,       \* what the panic was about
  cfg,         \* the configuration file
  signalled,   \* the channel "exit" holds a signal
  mainPc,      \* "load", "stores", "file", "spawn", "await", "cancel", "wait",
               \* "blocked" in wg.Wait, "released" by it
  complete,    \* history: when main called wg.Wait the start-up was over
  wg,          \* counter of the WaitGroup
  httpPc,      \* server: "off", "starting", "listen", "serve", "done"
  shutdown,    \* srv.Shutdown has been called
  startPc,     \* crawler.Start: "off", "network", "disc", "host", "updater",
               \* "output", "cron", "done"
  selPc,       \* updatePeer: "off", "spawn", "run", "wait", "done"
  wPc,         \* worker: "off", "idle", "send", "exited"
  wItem,       \* what it is about to send
  emitted,     \* how many outcomes were made
  outOn,       \* Output.Start: "off", "starting", "on"
  monPc,       \* monitorWorkChan: "off", "run", "done"
  gauge,       \* metrics.WriteChannelSize
  drained,     \* kafkaMsgs: what the drain has collected
  kafka,       \* the messages Kafka has
  jobs         \* how often the daily job has run

mainVars == <<proc, cause, cfg, signalled, mainPc, complete>>
httpVars == <<httpPc, shutdown>>
poolVars == <<selPc, wPc, wItem, emitted>>
teeVars  == <<gauge, drained, kafka>>
lvars == <<mainVars, ctxDone, wg, httpVars, startPc, poolVars, outVars, outOn, monPc,
           teeVars, jobs>>

LInit ==
  /\ OutputInit
  /\ ctxDone = FALSE
  /\ proc = "up" /\ cause = "none" /\ cfg \in Configs /\ signalled = FALSE
  /\ mainPc = "load" /\ complete = FALSE /\ wg = 0
  /\ httpPc = "off" /\ shutdown = FALSE /\ startPc = "off"
  /\ selPc = "off" /\ wPc = [w \in Workers |-> "off"] /\ wItem = [w \in Workers |-> 0]
  /\ emitted = 0 /\ outOn = "off" /\ monPc = "off"
  /\ gauge = 0 /\ drained = <<>> /\ kafka = <<>> /\ jobs = 0
-----------------------------------------------------------------------------
(* How the process ends, for every goroutine at once.                      *)
Panic(why) == /\ proc' = "panic" /\ cause' = why
              /\ UNCHANGED <<cfg, signalled, mainPc, complete>>
Fatal == proc' = "fatal" /\ UNCHANGED <<cause, cfg, signalled, mainPc, complete>>

(* wg.Done: the last one releases main from wg.Wait.                       *)
Done ==
  /\ wg' = wg - 1
  /\ mainPc' = IF wg = 1 /\ mainPc = "blocked" THEN "released" ELSE mainPc
  /\ UNCHANGED <<proc, cause, cfg, signalled, complete>>

Join == wg' = wg + 1 /\ UNCHANGED mainVars

Others == <<ctxDone, wg, httpVars, startPc, poolVars, outVars, outOn, monPc, teeVars, jobs>>
-----------------------------------------------------------------------------
(* main                                                                    *)
Goto(pc) == mainPc' = pc /\ UNCHANGED <<proc, cause, cfg, signalled, complete>>

(* signal.Notify comes first, so a signal at any time is kept.             *)
Signal ==
  /\ ~signalled
  /\ signalled' = TRUE
  /\ UNCHANGED <<proc, cause, cfg, mainPc, complete, Others>>

LoadConfig ==
  /\ mainPc = "load"
  /\ \E env \in BOOLEAN :
       CASE Load(cfg, env) = "ok"    -> Goto("stores")
         [] Load(cfg, env) = "error" -> Fatal
         [] Load(cfg, env) = "panic" -> Panic("config")
  /\ UNCHANGED Others

(* The peer store, the history store; ipmapper.New cannot fail.            *)
OpenStores ==
  /\ mainPc = "stores"
  /\ Goto("file") \/ Fatal
  /\ UNCHANGED Others

OpenFile ==
  /\ mainPc = "file"
  /\ IF "fileOutput" \in cfg.sections THEN Goto("spawn") \/ Fatal ELSE Panic("config")
  /\ UNCHANGED Others

Spawn ==
  /\ mainPc = "spawn"
  /\ Goto("await")
  /\ httpPc' = "starting"
  /\ startPc' = "network"
  /\ UNCHANGED <<ctxDone, wg, shutdown, poolVars, outVars, outOn, monPc, teeVars, jobs>>

Receives == /\ mainPc = "await" /\ signalled
            /\ Goto("cancel") /\ UNCHANGED Others

Cancels ==
  /\ mainPc = "cancel"
  /\ ctxDone' = TRUE
  /\ Goto("wait")
  /\ UNCHANGED <<wg, httpVars, startPc, poolVars, outVars, outOn, monPc, teeVars, jobs>>

(* Every goroutine main knows of has joined.                               *)
AllJoined == httpPc \notin {"off", "starting"} /\ startPc \in {"cron", "done"}

(* wg.Wait: a counter of zero lets main return at once.                    *)
Waits ==
  /\ mainPc = "wait"
  /\ complete' = AllJoined
  /\ IF wg = 0 THEN proc' = "returned" /\ UNCHANGED mainPc
               ELSE mainPc' = "blocked" /\ UNCHANGED proc
  /\ UNCHANGED <<cause, cfg, signalled, Others>>

(* A released main that finds the counter risen again panics: "WaitGroup   *)
(* is reused before previous Wait has returned".                           *)
Returns ==
  /\ mainPc = "released"
  /\ IF wg = 0 THEN proc' = "returned" /\ UNCHANGED <<cause, cfg, signalled, mainPc, complete>>
               ELSE Panic("reused")
  /\ UNCHANGED Others

Main == LoadConfig \/ OpenStores \/ OpenFile \/ Spawn \/ Receives \/ Cancels \/ Waits \/ Returns
-----------------------------------------------------------------------------
(* HTTPTransport.Start and its two goroutines.                             *)
Rest1 == <<ctxDone, startPc, poolVars, outVars, outOn, monPc, teeVars, jobs>>

HttpJoins ==
  /\ httpPc = "starting"
  /\ IF "server" \in cfg.sections THEN Join /\ httpPc' = "listen"
     ELSE Panic("config") /\ UNCHANGED <<wg, httpPc>>
  /\ UNCHANGED <<shutdown, Rest1>>

HttpListens ==
  /\ httpPc = "listen"
  /\ \/ httpPc' = "serve" /\ UNCHANGED mainVars
     \/ Fatal /\ UNCHANGED httpPc
  /\ UNCHANGED <<wg, shutdown, Rest1>>

(* Serve returns, because of Shutdown or with an error that is logged.     *)
HttpEnds ==
  /\ httpPc = "serve"
  /\ Done
  /\ httpPc' = "done"
  /\ UNCHANGED <<shutdown, Rest1>>

HttpShutdown ==
  /\ httpPc \notin {"off", "starting"} /\ ctxDone /\ ~shutdown
  /\ shutdown' = TRUE
  /\ UNCHANGED <<mainVars, wg, httpPc, Rest1>>

Http == HttpJoins \/ HttpListens \/ (shutdown /\ HttpEnds) \/ HttpShutdown
-----------------------------------------------------------------------------
(* crawler.Start and Initialize                                            *)
Rest2 == <<ctxDone, httpVars, outVars, monPc, teeVars, jobs>>

StartNetwork ==
  /\ startPc = "network"
  /\ IF HasDecoder(cfg.network) \/ cfg.network = "custom"
     THEN startPc' = "disc" /\ UNCHANGED mainVars
     ELSE Panic("network") /\ UNCHANGED startPc
  /\ UNCHANGED <<wg, poolVars, outOn, Rest2>>

(* startV5: a boot node that does not parse, or no port; newCrawler: no    *)
(* host or no gossipsub.                                                   *)
StartHosts ==
  /\ startPc \in {"disc", "host"}
  /\ \/ /\ cfg.bootnodes
        /\ startPc' = (IF startPc = "disc" THEN "host" ELSE "updater")
        /\ UNCHANGED mainVars
     \/ Panic("initialize") /\ UNCHANGED startPc
  /\ UNCHANGED <<wg, poolVars, outOn, Rest2>>

StartUpdater ==
  /\ startPc = "updater"
  /\ Join
  /\ selPc' = "spawn"
  /\ startPc' = "output"
  /\ UNCHANGED <<wPc, wItem, emitted, outOn, Rest2>>

StartOutput ==
  /\ startPc = "output"
  /\ Join
  /\ outOn' = "starting"
  /\ startPc' = "cron"
  /\ UNCHANGED <<poolVars, Rest2>>

StartCron ==
  /\ startPc = "cron"
  /\ startPc' = "done"
  /\ UNCHANGED <<mainVars, wg, poolVars, outOn, Rest2>>

Start == StartNetwork \/ StartHosts \/ StartUpdater \/ StartOutput \/ StartCron
-----------------------------------------------------------------------------
(* updatePeer and its workers                                              *)
Rest3 == <<ctxDone, httpVars, startPc, outOn, monPc, drained, kafka, jobs>>

StartPool ==
  /\ selPc = "spawn"
  /\ selPc' = "run"
  /\ wPc' = [w \in Workers |-> "idle"]
  /\ UNCHANGED <<mainVars, wg, wItem, emitted, outVars, gauge, Rest3>>

(* Mutant of Emit: the gauge is left to the send.                          *)
MutNoInc(w) ==
  /\ wPc[w] = "idle" /\ emitted < MaxItems
  /\ emitted' = emitted + 1
  /\ wItem' = [wItem EXCEPT ![w] = emitted + 1]
  /\ wPc' = [wPc EXCEPT ![w] = "send"]
  /\ UNCHANGED <<mainVars, wg, selPc, outVars, gauge, Rest3>>

(* A round ends in an outcome: the gauge, then the channel.                *)
Emit(w) ==
  /\ wPc[w] = "idle" /\ emitted < MaxItems
  /\ emitted' = emitted + 1
  /\ wItem' = [wItem EXCEPT ![w] = emitted + 1]
  /\ gauge' = gauge + 1
  /\ wPc' = [wPc EXCEPT ![w] = "send"]
  /\ UNCHANGED <<mainVars, wg, selPc, outVars, Rest3>>

Send(w) ==
  /\ wPc[w] = "send"
  /\ IF closed THEN Panic("closed") /\ UNCHANGED <<workchan, wPc, wItem>>
     ELSE /\ Len(workchan) < WorkChanCap
          /\ workchan' = Append(workchan, wItem[w])
          /\ wPc' = [wPc EXCEPT ![w] = "idle"]
          /\ wItem' = [wItem EXCEPT ![w] = 0]
          /\ UNCHANGED mainVars
  /\ UNCHANGED <<wg, selPc, emitted, closed, outPc, lines, flushed, gauge, Rest3>>

WorkerExits(w) ==
  /\ wPc[w] = "idle" /\ ctxDone
  /\ wPc' = [wPc EXCEPT ![w] = "exited"]
  /\ UNCHANGED <<mainVars, wg, selPc, wItem, emitted, outVars, gauge, Rest3>>

StopsSelecting ==
  /\ selPc = "run" /\ ctxDone
  /\ selPc' = "wait"
  /\ UNCHANGED <<mainVars, wg, wPc, wItem, emitted, outVars, gauge, Rest3>>

(* Mutant of ClosesChannel: no bgWorkerWg.Wait.                            *)
MutCloseEarly ==
  /\ selPc = "wait"
  /\ closed' = TRUE
  /\ Done
  /\ selPc' = "done"
  /\ UNCHANGED <<wPc, wItem, emitted, workchan, outPc, lines, flushed, gauge, Rest3>>

(* bgWorkerWg.Wait, close of the write channel and wg.Done.                *)
ClosesChannel ==
  /\ selPc = "wait"
  /\ \A w \in Workers : wPc[w] = "exited"
  /\ closed' = TRUE
  /\ Done
  /\ selPc' = "done"
  /\ UNCHANGED <<wPc, wItem, emitted, workchan, outPc, lines, flushed, gauge, Rest3>>

Worker(w) == Emit(w) \/ Send(w) \/ WorkerExits(w)
Updater   == StartPool \/ StopsSelecting \/ ClosesChannel
-----------------------------------------------------------------------------
(* Output.Start around the actions of module Output: it adds the monitor   *)
(* to the WaitGroup, keeps the gauge, and writes to Kafka when one is      *)
(* configured, an error being logged.                                      *)
Rest4 == <<httpVars, startPc, poolVars, jobs>>

OutputJoins ==
  /\ outOn = "starting"
  /\ Join
  /\ monPc' = "run"
  /\ outOn' = "on"
  /\ UNCHANGED <<ctxDone, outVars, teeVars, Rest4>>

ToKafka(item) == \/ kafka' = kafka
                 \/ cfg.kafka /\ kafka' = Append(kafka, item)

(* Mutant of ReceivesItem: the batch begins before the drain.              *)
MutBatchAll ==
  /\ outOn = "on"
  /\ Receive /\ ToKafka(Head(workchan))
  /\ drained' = Append(drained, Head(workchan))
  /\ gauge' = gauge - 1
  /\ UNCHANGED <<mainVars, wg, outOn, monPc, Rest4>>

(* A nil received from the closed channel counts and travels like an item. *)
ReceivesItem ==
  /\ outOn = "on"
  /\ \/ Receive /\ ToKafka(Head(workchan))
     \/ ReceiveClosed /\ ToKafka(Null)
  /\ gauge' = gauge - 1
  /\ UNCHANGED <<mainVars, wg, outOn, monPc, drained, Rest4>>

BeginsDrain ==
  /\ outOn = "on"
  /\ StartDrain
  /\ UNCHANGED <<mainVars, wg, outOn, monPc, teeVars, Rest4>>

(* The drain leaves the gauge alone.                                       *)
Drains ==
  /\ outOn = "on"
  /\ Drain
  /\ drained' = Append(drained, Head(workchan))
  /\ UNCHANGED <<mainVars, wg, outOn, monPc, gauge, kafka, Rest4>>

(* Mutant of EndsDrain: wg.Done first, the messages and the flush after it *)
(* (with the process gone when main returns).                              *)
MutDoneFirst ==
  /\ outOn = "on"
  /\ outPc = "drain" /\ closed
  /\ outPc' = "done"
  /\ Done
  /\ UNCHANGED <<ctxDone, workchan, closed, lines, flushed, outOn, monPc, teeVars, Rest4>>

(* One WriteMessages for all that was drained, with the cancelled context: *)
(* some or none of them arrive.  Then Flush, Sync, Close and wg.Done.      *)
EndsDrain ==
  /\ outOn = "on"
  /\ FinishDrain
  /\ Done
  /\ \E n \in 0 .. (IF cfg.kafka THEN Len(drained) ELSE 0) :
       kafka' = kafka \o SubSeq(drained, 1, n)
  /\ UNCHANGED <<outOn, monPc, gauge, drained, Rest4>>

Writer == OutputJoins \/ ReceivesItem \/ BeginsDrain \/ Drains \/ EndsDrain

(* Mutant of MonitorEnds: no wg.Done.                                      *)
MutMonitorKeeps ==
  /\ monPc = "run" /\ ctxDone
  /\ monPc' = "done"
  /\ UNCHANGED <<mainVars, wg, ctxDone, outVars, outOn, teeVars, Rest4>>

MonitorEnds ==
  /\ monPc = "run" /\ ctxDone
  /\ Done
  /\ monPc' = "done"
  /\ UNCHANGED <<ctxDone, outVars, outOn, teeVars, Rest4>>

(* The daily job, which nothing stops: insertToHistory counts and stores   *)
(* the count in the history.  Without a count it goes on with the nil it   *)
(* was given.                                                              *)
Job ==
  /\ startPc = "done" /\ jobs < MaxJobs
  /\ jobs' = jobs + 1
  /\ UNCHANGED mainVars \/ Panic("job")
  /\ UNCHANGED <<ctxDone, wg, httpVars, startPc, poolVars, outVars, outOn, monPc, teeVars>>
-----------------------------------------------------------------------------
LNext ==
  /\ proc = "up"
  /\ \/ Signal \/ Main \/ Http \/ HttpEnds \/ Start \/ Updater \/ Writer \/ MonitorEnds \/ Job
     \/ \E w \in Workers : Worker(w)

LSpec == LInit /\ [][LNext]_lvars

(* The scheduler runs every goroutine; Serve returns once Shutdown has     *)
(* been called.  Nothing makes a signal or a run of the job happen.        *)
LFairSpec ==
  /\ LSpec
  /\ WF_lvars(proc = "up" /\ Main)
  /\ WF_lvars(proc = "up" /\ Http)
  /\ WF_lvars(proc = "up" /\ Start)
  /\ WF_lvars(proc = "up" /\ Updater)
  /\ WF_lvars(proc = "up" /\ Writer)
  /\ WF_lvars(proc = "up" /\ MonitorEnds)
  /\ \A w \in Workers : WF_lvars(proc = "up" /\ Worker(w))
-----------------------------------------------------------------------------
LTypeOK ==
  /\ proc \in {"up", "returned", "fatal", "panic"}
  /\ cause \in {"none", "config", "network", "initialize", "reused", "closed", "job"}
  /\ mainPc \in {"load", "stores", "file", "spawn", "await", "cancel", "wait",
                 "blocked", "released"}
  /\ wg \in Nat /\ gauge \in Int /\ jobs \in 0 .. MaxJobs
  /\ emitted \in 0 .. MaxItems
  /\ httpPc \in {"off", "starting", "listen", "serve", "done"}
  /\ selPc \in {"off", "spawn", "run", "wait", "done"}
  /\ wPc \in [Workers -> {"off", "idle", "send", "exited"}]
  /\ Len(workchan) <= WorkChanCap

(* The WaitGroup's counter is the number of joined goroutines that have    *)
(* not called Done, whatever the order in which they join and leave: no    *)
(* Done is missing, none is called twice (main.go, 91; http.go, 50-52;     *)
(* service.go, 59-64; file.go, 65 and 94).                                 *)
Live(b) == IF b THEN 1 ELSE 0

CounterBalanced ==
  wg = Live(httpPc \in {"listen", "serve"}) + Live(selPc \in {"spawn", "run", "wait"})
       + Live(outOn # "off" /\ outPc # "done") + Live(monPc = "run")

(* When main called wg.Wait after the start-up was over, then its return   *)
(* is the end of everything: no goroutine is left and every outcome made   *)
(* is a complete line on disk (main.go, 87-91).  A signal that comes       *)
(* earlier gives no such promise.                                          *)
ReturnsLast ==
  proc = "returned" /\ complete =>
    /\ httpPc = "done" /\ selPc = "done" /\ outPc = "done" /\ monPc = "done"
    /\ \A w \in Workers : wPc[w] = "exited"
    /\ workchan = <<>> /\ flushed = Len(lines) /\ Len(lines) >= emitted

(* No order of the stops makes the process panic: with a complete start-up *)
(* only the daily job can, and a WaitGroup that is reused while main       *)
(* returns needs a signal during the start-up.                             *)
StopsWithoutPanic ==
  proc = "panic" =>
    \/ cause \in {"config", "network", "initialize", "job"}
    \/ cause = "reused" /\ ~complete

(* The gauge counts what is in the channel, what a worker waits to send,   *)
(* and, for good, what the drain took out; a nil that is received from the *)
(* closed channel lowers it below (metrics.go, 28; crawl.go, 301;          *)
(* file.go, 75 and 97).                                                    *)
GaugeAccounts ==
  gauge = Len(workchan) + Cardinality({w \in Workers : wPc[w] = "send"})
          + Len(drained) - Cardinality(NullLines)

(* Kafka has a subsequence of the file: the messages come in the file's    *)
(* order and none comes twice, over the switch from single messages to the *)
(* drain's batch (file.go, 74-88 and 103-109).                             *)
Embeds(at) ==
  /\ \A i, j \in DOMAIN at : i < j => at[i] < at[j]
  /\ \A i \in DOMAIN at : lines[at[i]] = kafka[i]

KafkaInFileOrder == \E at \in [DOMAIN kafka -> DOMAIN lines] : Embeds(at)

(* A fork that is not supported needs no digest: "Populate the fork digest *)
(* if not set but supported" (config.go, 193).                             *)
OnlySupportedPopulated ==
  proc = "panic" /\ cause = "config" =>
    \E f \in ForkNames : cfg.fork[f].supported /\ cfg.fork[f].digest = <<>>

(* A signal ends the process, at whatever point of the start-up or of the  *)
(* work it comes, and none is forgotten (main.go, 29-30 and 82-91).        *)
SignalEnds == signalled ~> proc # "up"
=============================================================================
