----------------------------- MODULE NetServices -----------------------------
(***************************************************************************)
(* service.h and its one caller, the network loop of main.cpp: console      *)
(* commands, the teardown of WiFi, its reconnection, the services that are  *)
(* brought up on the edge, and their ticks.  Beside the loop run the WiFi    *)
(* link and the task of the MQTT client, whose events set mqttConnected and  *)
(* add and remove the log sink (tele/mqtt.cpp).                             *)
(*                                                                         *)
(* What a step of the loop does to several services, one after the other,   *)
(* is a sequence of jobs.  The enabled flags and `wifi off` are on flash.   *)
(***************************************************************************)
EXTENDS Naturals, Sequences

CONSTANTS
  Registered,     \* the services, in the order of registerServices()
  Network,        \* those that require it
  Mqtt,
  Subscriptions,  \* does mqtt.conf name topics to subscribe?
  Faulty          \* services whose tick may throw

Services == {Registered[i] : i \in DOMAIN Registered}

ASSUME NetAssumption ==
  /\ Registered \in Seq(Services) /\ Network \subseteq Services /\ Mqtt \in Network
  /\ Subscriptions \in BOOLEAN /\ Faulty \subseteq Services

VARIABLES
  app,       \* disableWifi, and whether wifiReenableMs is set
  saved,     \* on flash: wifi_off, and each service's enabled flag
  radio,     \* is the station on?
  up,        \* WiFi.isConnected()
  edges,     \* wifiTorndown and wifiWasUp
  state,     \* each service's _state
  pc,        \* where the loop is in its turn
  jobs,      \* and what it is about to do to services there
  mqtt       \* client, mqttConnected, the log sink, the client's task, and is a client lost?

vars == <<app, saved, radio, up, edges, state, pc, jobs, mqtt>>
wifi == <<app, saved, radio, up, edges>>

\* the services of `chosen`, in the order of the registry
For(kind, chosen) ==
  [i \in DOMAIN Registered |->
     <<IF Registered[i] \in chosen THEN kind ELSE "skip", Registered[i]>>]
NoClient ==
  [client |-> FALSE, connected |-> FALSE, sink |-> FALSE, event |-> "none", lost |-> FALSE]

-----------------------------------------------------------------------------
(* A service.                                                              *)

\* onStart(): all but MQTT's look for WiFi.  subscribeTopic() asserts !mqttConnected
Starts(s) ==
  IF s = Mqtt THEN ~(Subscriptions /\ mqtt.connected) ELSE s \in Network => up

\* init() overwrites the handle of a client that a failed tick has left behind
InitClient ==
  IF mqtt.client THEN [mqtt EXCEPT !.event = "none", !.lost = TRUE]
                 ELSE [mqtt EXCEPT !.client = TRUE]

Skip(s) ==
  /\ jobs # <<>> /\ Head(jobs) = <<"skip", s>> /\ jobs' = Tail(jobs)
  /\ UNCHANGED <<wifi, state, pc, mqtt>>

Start(s) ==
  /\ jobs # <<>> /\ Head(jobs) = <<"start", s>>
  /\ jobs' = Tail(jobs)
  /\ IF state[s] = "Running" THEN UNCHANGED <<state, mqtt>>
     ELSE /\ state' = [state EXCEPT ![s] = IF Starts(s) THEN "Running" ELSE "Failed"]
          /\ mqtt' = IF s = Mqtt /\ Starts(s) THEN InitClient ELSE mqtt
  /\ UNCHANGED <<wifi, pc>>

Stop(s) ==
  /\ jobs # <<>> /\ Head(jobs) = <<"stop", s>>
  /\ \/ state[s] = "Stopped" /\ jobs' = Tail(jobs) /\ UNCHANGED state
     \/ /\ state[s] # "Stopped" /\ s # Mqtt
        /\ state' = [state EXCEPT ![s] = "Stopped"] /\ jobs' = Tail(jobs)
     \/ /\ state[s] # "Stopped" /\ s = Mqtt
        /\ jobs' = <<<<"close", s>>>> \o Tail(jobs) /\ UNCHANGED state
  /\ UNCHANGED <<wifi, pc, mqtt>>

(* MqttService::close().                                                   *)
Close ==
  /\ jobs # <<>> /\ Head(jobs) = <<"close", Mqtt>>
  /\ jobs' = <<<<IF mqtt.client THEN "halt" ELSE "drop", Mqtt>>>> \o Tail(jobs)
  /\ mqtt' = IF mqtt.client THEN [mqtt EXCEPT !.connected = FALSE] ELSE mqtt
  /\ UNCHANGED <<wifi, pc, state>>

\* does not wait
HaltAtOnce ==
  /\ jobs # <<>> /\ Head(jobs) = <<"halt", Mqtt>>
  /\ jobs' = <<<<"drop", Mqtt>>>> \o Tail(jobs)
  /\ mqtt' = [mqtt EXCEPT !.client = FALSE]
  /\ UNCHANGED <<wifi, pc, state>>

\* esp_mqtt_client_stop() waits for the task to be done with its event
Halt ==
  /\ jobs # <<>> /\ Head(jobs) = <<"halt", Mqtt>> /\ mqtt.event = "none"
  /\ jobs' = <<<<"drop", Mqtt>>>> \o Tail(jobs)
  /\ mqtt' = [mqtt EXCEPT !.client = FALSE]
  /\ UNCHANGED <<wifi, pc, state>>

\* the sink goes last
Drop ==
  /\ jobs # <<>> /\ Head(jobs) = <<"drop", Mqtt>>
  /\ jobs' = Tail(jobs)
  /\ mqtt' = [mqtt EXCEPT !.sink = FALSE]
  /\ state' = [state EXCEPT ![Mqtt] = "Stopped"]
  /\ UNCHANGED <<wifi, pc>>

-----------------------------------------------------------------------------
(* Start-up.                                                               *)

\* startEnabledAtBoot(wifiIsConnected())
BootJobs(enabled, networkUp) ==
  For("start", {s \in Services : enabled[s] /\ (networkUp \/ s \notin Network)})

\* setup() with a try to connect unless `wifi off` is saved; the loop starts after it
Boot(flash, connects) ==
  /\ app' = [disable |-> flash.wifiOff, reenable |-> FALSE]
  /\ radio' = ~flash.wifiOff /\ up' = (~flash.wifiOff /\ connects)
  /\ edges' = [torndown |-> FALSE, wasUp |-> FALSE]
  /\ state' = [s \in Services |-> "Stopped"]
  /\ pc' = "cmd" /\ jobs' = BootJobs(flash.enabled, up')
  /\ mqtt' = NoClient

Init ==
  /\ saved = [wifiOff |-> FALSE, enabled |-> [s \in Services |-> TRUE]]
  /\ app = [disable |-> FALSE, reenable |-> FALSE]
  /\ radio = TRUE /\ up \in BOOLEAN
  /\ edges = [torndown |-> FALSE, wasUp |-> FALSE]
  /\ state = [s \in Services |-> "Stopped"]
  /\ pc = "cmd" /\ jobs = BootJobs(saved.enabled, up)
  /\ mqtt = NoClient

\* power, a watchdog or a panic
Crash == (\E c \in BOOLEAN : Boot(saved, c)) /\ UNCHANGED saved

-----------------------------------------------------------------------------
(* Console commands, of the UART or deferred from telnet and MQTT.          *)

At(place) == pc = place /\ jobs = <<>>

\* connect_wifi_async()
Station == radio' = TRUE

WifiOn ==
  /\ At("cmd")
  /\ app' = [disable |-> FALSE, reenable |-> FALSE]
  /\ saved' = [saved EXCEPT !.wifiOff = FALSE]
  /\ Station
  /\ UNCHANGED <<up, edges, state, pc, jobs, mqtt>>

\* for good, or for some minutes
WifiOff(timed) ==
  /\ At("cmd")
  /\ app' = [disable |-> TRUE, reenable |-> timed]
  /\ saved' = IF timed THEN saved ELSE [saved EXCEPT !.wifiOff = TRUE]
  /\ UNCHANGED <<radio, up, edges, state, pc, jobs, mqtt>>

\* svc on | off | restart
Svc(s, cmd) ==
  /\ At("cmd")
  /\ saved' = IF cmd = "restart" THEN saved ELSE [saved EXCEPT !.enabled[s] = (cmd = "on")]
  /\ jobs' = CASE cmd = "on" -> <<<<"start", s>>>>
               [] cmd = "off" -> <<<<"stop", s>>>>
               [] OTHER -> <<<<"stop", s>>, <<"start", s>>>>
  /\ UNCHANGED <<app, radio, up, edges, state, pc, mqtt>>

\* systemRestart(): stopAll(), while WiFi is up
Restart ==
  /\ At("cmd")
  /\ jobs' = Append(For("stop", Services), <<"reboot", Mqtt>>)
  /\ UNCHANGED <<wifi, state, pc, mqtt>>

Reboot == jobs # <<>> /\ Head(jobs)[1] = "reboot" /\ Crash

-----------------------------------------------------------------------------
(* networkLoopTick() and the ticks of the services.                        *)

Turn == At("cmd") /\ pc' = "down" /\ UNCHANGED <<wifi, state, jobs, mqtt>>

\* the timer of `wifi off <minutes>` is due
Reenable ==
  /\ At("down") /\ app.disable /\ app.reenable
  /\ app' = [disable |-> FALSE, reenable |-> FALSE]
  /\ Station
  /\ UNCHANGED <<saved, up, edges, state, pc, jobs, mqtt>>

\* the down edge: the network services stop while the netif is there, then it goes
TearDown ==
  /\ At("down") /\ app.disable
  /\ edges' = [edges EXCEPT !.torndown = TRUE]
  /\ jobs' = IF edges.torndown THEN <<>>
             ELSE Append(For("stop", Network),
                         <<"netif", Mqtt>>)
  /\ pc' = "tick"
  /\ UNCHANGED <<app, saved, radio, up, state, mqtt>>

\* disconnect_wifi(true)
Netif ==
  /\ jobs # <<>> /\ Head(jobs)[1] = "netif"
  /\ jobs' = Tail(jobs) /\ radio' = FALSE /\ up' = FALSE
  /\ UNCHANGED <<app, saved, edges, state, pc, mqtt>>

\* wifiLoop(): the attempt to connect takes up to 6 s, and may fail or be skipped
WifiLoop ==
  /\ At("down") /\ ~app.disable
  /\ edges' = [edges EXCEPT !.torndown = FALSE]
  /\ \/ UNCHANGED <<radio, up>>
     \/ ~up /\ radio' = TRUE /\ up' = TRUE
  /\ pc' = "edge"
  /\ UNCHANGED <<app, saved, state, jobs, mqtt>>

\* a failed service is left alone
ToHealStopped == {s \in Network : saved.enabled[s] /\ state[s] = "Stopped"}

ToHeal == {s \in Network : saved.enabled[s] /\ state[s] # "Running"}

\* startEnabledNetworkServices() on the edge
Edge ==
  /\ At("edge")
  /\ edges' = [edges EXCEPT !.wasUp = up]
  /\ jobs' = IF up /\ ~edges.wasUp THEN For("start", ToHeal) ELSE <<>>
  /\ pc' = "tick"
  /\ UNCHANGED <<app, saved, radio, up, state, mqtt>>

\* tickAll(), and wifiShutdownIfHot() of the low-frequency loop
Tick == At("tick") /\ pc' = "cmd" /\ UNCHANGED <<wifi, state, jobs, mqtt>>

\* Failed without a stop: what onStart() made stays.  MQTT's tick returns unless connected.
TickThrows(s) ==
  /\ At("tick") /\ state[s] = "Running" /\ s \in Faulty
  /\ s = Mqtt => mqtt.connected
  /\ state' = [state EXCEPT ![s] = "Failed"]
  /\ UNCHANGED <<wifi, pc, jobs, mqtt>>

ShutdownIfHot ==
  /\ At("tick") /\ up
  /\ radio' = FALSE /\ up' = FALSE
  /\ UNCHANGED <<app, saved, edges, state, pc, jobs, mqtt>>

-----------------------------------------------------------------------------
(* The link, and the events of the MQTT client's task.                     *)

Link ==
  /\ radio /\ up' = ~up
  /\ UNCHANGED <<app, saved, radio, edges, state, pc, jobs, mqtt>>

EventComes(e) ==
  /\ mqtt.client /\ mqtt.event = "none" /\ (e = "connected" => up)
  /\ mqtt' = [mqtt EXCEPT !.event = e]
  /\ UNCHANGED <<wifi, state, pc, jobs>>

\* _handleEvent() sets the flag first, then adds or removes the sink
HandleFlag ==
  /\ mqtt.event \in {"connected", "disconnected"}
  /\ mqtt' = [mqtt EXCEPT !.connected = (mqtt.event = "connected"),
                          !.event = IF mqtt.event = "connected" THEN "add" ELSE "remove"]
  /\ UNCHANGED <<wifi, state, pc, jobs>>

HandleSink ==
  /\ mqtt.event \in {"add", "remove"}
  /\ mqtt' = [mqtt EXCEPT !.sink = (mqtt.event = "add"), !.event = "none"]
  /\ UNCHANGED <<wifi, state, pc, jobs>>

\* The tasks of lost clients go on with the same handler.  There may be more than one, so
\* that their flags and sinks come in any order.
LostClient ==
  /\ mqtt.lost
  /\ \E b \in BOOLEAN : \/ mqtt' = [mqtt EXCEPT !.connected = b]
                       \/ mqtt' = [mqtt EXCEPT !.sink = b]
  /\ UNCHANGED <<wifi, state, pc, jobs>>

-----------------------------------------------------------------------------
Job ==
  \/ \E s \in Services : Skip(s) \/ Start(s) \/ Stop(s)
  \/ Close \/ Halt \/ Drop \/ Netif \/ Reboot

Loop == Job \/ Turn \/ TearDown \/ WifiLoop \/ Edge \/ Tick

Command ==
  \/ WifiOn
  \/ \E timed \in BOOLEAN : WifiOff(timed)
  \/ \E s \in Services, cmd \in {"on", "off", "restart"} : Svc(s, cmd)
  \/ Restart

Environment ==
  \/ Crash \/ Link \/ ShutdownIfHot \/ Reenable \/ LostClient
  \/ \E s \in Services : TickThrows(s)
  \/ \E e \in {"connected", "disconnected"} : EventComes(e)

Handle == HandleFlag \/ HandleSink

Next == Loop \/ Command \/ Environment \/ Handle

Spec == Init /\ [][Next]_vars

\* The loop goes on, and so does the MQTT task once it has an event.  A turn takes a
\* finite number of commands, and a client that is told to stop ends after its event.
FairSpec == Spec /\ WF_vars(Job) /\ SF_vars(Halt) /\ SF_vars(Turn)
                 /\ WF_vars(TearDown \/ WifiLoop) /\ WF_vars(Edge) /\ WF_vars(Tick)
                 /\ WF_vars(Handle)

-----------------------------------------------------------------------------
(* Properties.                                                             *)

\* Stopping the service releases its client and its log sink: the event of a connection
\* that comes while close() is under way adds the sink again, and close() drops it only
\* when no more events can come.  A client whose handle was overwritten is beyond close().
StoppedIsReleased ==
  state[Mqtt] = "Stopped" /\ ~mqtt.lost => ~mqtt.client /\ ~mqtt.sink

\* An enabled network service gets to run once WiFi is up after the loop saw it down,
\* whether it failed at boot, failed in a tick or was stopped, unless WiFi is lost or
\* turned off or the service disabled meanwhile.  Not so MQTT with topics to subscribe
\* while mqttConnected is set, if only by an event that came inside close(): its start
\* throws (SubscribesUnconnected) and the service stays Failed.
SelfHeals ==
  <>[][~Crash]_vars =>
    \A s \in Network :
      (up /\ ~app.disable /\ ~edges.wasUp /\ saved.enabled[s])
        ~> (\/ state[s] = "Running" \/ ~up \/ app.disable \/ ~saved.enabled[s]
            \/ s = Mqtt /\ Subscriptions /\ mqtt.connected)

\* subscribeTopic() finds no client connected: assert_throw(!mqttConnected).
SubscribesUnconnected ==
  jobs # <<>> /\ Head(jobs) = <<"start", Mqtt>> /\ state[Mqtt] # "Running" /\ Subscriptions
    => ~mqtt.connected
=============================================================================
