-------------------------- MODULE NetServicesProofs --------------------------
(* A stopped MQTT service has neither client nor log sink, for every set of   *)
(* services and whatever events, failing ticks, commands and crashes come when. *)
EXTENDS NetServices, SequenceTheorems, TLAPS

Kinds == {"skip", "start", "stop", "close", "halt", "drop", "reboot", "netif"}
Jobs == Kinds \X Services

\* the phases of close() come first in the jobs, never in the middle of them
Closing == {"close", "halt", "drop"}

\* what the next step of the loop finds in the queue of jobs
QueueOK(js) ==
  /\ js \in Seq(Jobs)
  /\ \A i \in 2..Len(js) : js[i][1] \notin Closing

Clients ==
  [client : BOOLEAN, connected : BOOLEAN, sink : BOOLEAN, lost : BOOLEAN,
   event : {"none", "connected", "disconnected", "add", "remove"}]

TypeInv ==
  /\ QueueOK(jobs)
  /\ state \in [Services -> {"Stopped", "Running", "Failed"}]
  /\ mqtt \in Clients

\* the client's task has an event in hand only while there is a client, and there
\* is none any more when the sink is dropped
ClientInv ==
  /\ mqtt.event # "none" => mqtt.client
  /\ jobs # <<>> /\ Head(jobs)[1] = "drop" => ~mqtt.client

IInv == TypeInv /\ ClientInv /\ StoppedIsReleased

LEMMA MqttIsService == Mqtt \in Services
BY NetAssumption DEF NetAssumption

LEMMA ForIsJobs ==
  ASSUME NEW kind \in Kinds \ Closing, NEW chosen
  PROVE  /\ For(kind, chosen) \in Seq(Jobs)
         /\ \A i \in DOMAIN For(kind, chosen) : For(kind, chosen)[i][1] \notin Closing
<1> DEFINE f == For(kind, chosen)
<1>1. Registered \in Seq(Services) /\ DOMAIN Registered = 1..Len(Registered)
  BY NetAssumption DEF NetAssumption
<1>2. DOMAIN f = 1..Len(Registered)
  BY <1>1 DEF For
<1>3. \A i \in 1..Len(Registered) : f[i] \in Jobs /\ f[i][1] \notin Closing
  BY <1>1 DEF For, Jobs, Kinds, Closing
<1>4. f \in Seq(Jobs)
  <2>1. f \in [1..Len(Registered) -> Jobs]
    BY <1>1, <1>2, <1>3 DEF For
  <2>2. Len(Registered) \in Nat
    BY <1>1
  <2> QED
    BY <2>1, <2>2, SeqDef
<1> QED
  BY <1>2, <1>3, <1>4

\* a list of plain jobs, of which one may be added at the end
LEMMA PlainJobs ==
  ASSUME NEW js \in Seq(Jobs), \A i \in DOMAIN js : js[i][1] \notin Closing,
         NEW j \in Jobs, j[1] \notin Closing
  PROVE  /\ Append(js, j) \in Seq(Jobs)
         /\ \A i \in DOMAIN Append(js, j) : Append(js, j)[i][1] \notin Closing
<1>1. Append(js, j) \in Seq(Jobs) /\ Len(Append(js, j)) = Len(js) + 1
  BY AppendProperties
<1>2. \A i \in 1..Len(js) + 1 : Append(js, j)[i] = IF i <= Len(js) THEN js[i] ELSE j
  BY AppendProperties
<1> QED
  BY <1>1, <1>2

LEMMA PlainQueue ==
  ASSUME NEW js \in Seq(Jobs), \A i \in DOMAIN js : js[i][1] \notin Closing
  PROVE  QueueOK(js) /\ (js # <<>> => Head(js)[1] \notin Closing)
BY DEF QueueOK

LEMMA TailQueue ==
  ASSUME NEW js, QueueOK(js), js # <<>>
  PROVE  /\ QueueOK(Tail(js))
         /\ Tail(js) # <<>> => Head(Tail(js))[1] \notin Closing
<1>1. js \in Seq(Jobs) /\ Len(js) \in Nat /\ Len(js) > 0
  BY DEF QueueOK
<1>2. Tail(js) \in Seq(Jobs) /\ Len(Tail(js)) = Len(js) - 1
  BY <1>1, HeadTailProperties
<1>3. \A i \in 1..Len(js) - 1 : Tail(js)[i] = js[i + 1]
  BY <1>1, HeadTailProperties
<1>4. \A i \in 1..Len(js) - 1 : Tail(js)[i][1] \notin Closing
  BY <1>1, <1>3 DEF QueueOK
<1> QED
  BY <1>1, <1>2, <1>4 DEF QueueOK

LEMMA PhaseQueue ==
  ASSUME NEW js, QueueOK(js), js # <<>>, NEW j \in Jobs
  PROVE  QueueOK(<<j>> \o Tail(js)) /\ <<j>> \o Tail(js) # <<>> /\ Head(<<j>> \o Tail(js)) = j
<1> DEFINE t == Tail(js)
<1>1. t \in Seq(Jobs) /\ (\A i \in 1..Len(t) : t[i][1] \notin Closing)
  <2>1. js \in Seq(Jobs) /\ Len(js) \in Nat /\ Len(js) > 0
    BY DEF QueueOK
  <2>2. t \in Seq(Jobs) /\ Len(t) = Len(js) - 1
    BY <2>1, HeadTailProperties
  <2>3. \A i \in 1..Len(js) - 1 : t[i] = js[i + 1]
    BY <2>1, HeadTailProperties
  <2> QED
    BY <2>1, <2>2, <2>3 DEF QueueOK
<1>2. <<j>> \in Seq(Jobs) /\ Len(<<j>>) = 1 /\ <<j>>[1] = j
  OBVIOUS
<1> HIDE DEF t
<1>3. <<j>> \o t \in Seq(Jobs) /\ Len(<<j>> \o t) = 1 + Len(t)
  BY <1>1, <1>2, ConcatProperties
<1>4. \A i \in 1..1 + Len(t) : (<<j>> \o t)[i] = IF i <= 1 THEN <<j>>[i] ELSE t[i - 1]
  BY <1>1, <1>2, ConcatProperties
<1>5. \A i \in 2..1 + Len(t) : (<<j>> \o t)[i][1] \notin Closing
  BY <1>1, <1>4
<1> QED
  BY <1>1, <1>2, <1>3, <1>4, <1>5 DEF QueueOK, t
-----------------------------------------------------------------------------
LEMMA HeadIsJob ==
  ASSUME NEW js, QueueOK(js), js # <<>>
  PROVE  Head(js) \in Jobs
<1>1. js \in Seq(Jobs)
  BY DEF QueueOK
<1> QED
  BY <1>1, HeadTailProperties

LEMMA NoJobs == QueueOK(<<>>)
<1>1. <<>> \in Seq(Jobs) /\ Len(<<>>) = 0
  BY EmptySeq
<1> QED
  BY <1>1 DEF QueueOK

LEMMA NoClientIsClean ==
  /\ NoClient \in Clients
  /\ ~NoClient.client /\ ~NoClient.sink /\ NoClient.event = "none"
BY DEF NoClient, Clients

LEMMA BootIsClean ==
  ASSUME NEW enabled, NEW networkUp
  PROVE  /\ QueueOK(BootJobs(enabled, networkUp))
         /\ BootJobs(enabled, networkUp) # <<>> =>
              Head(BootJobs(enabled, networkUp))[1] \notin Closing
<1>1. "start" \in Kinds \ Closing
  BY DEF Kinds, Closing
<1> DEFINE chosen == {s \in Services : enabled[s] /\ (networkUp \/ s \notin Network)}
<1>2. BootJobs(enabled, networkUp) = For("start", chosen)
  BY DEF BootJobs
<1> HIDE DEF chosen
<1> QED
  BY <1>1, <1>2, ForIsJobs, PlainQueue

\* whatever starts or restarts the controller starts without a client
LEMMA FreshStart ==
  ASSUME NEW enabled, NEW networkUp,
         state' = [s \in Services |-> "Stopped"],
         jobs' = BootJobs(enabled, networkUp), mqtt' = NoClient
  PROVE  IInv'
<1>1. QueueOK(jobs') /\ (jobs' # <<>> => Head(jobs')[1] \notin Closing)
  BY BootIsClean
<1>2. state' \in [Services -> {"Stopped", "Running", "Failed"}]
  OBVIOUS
<1>3. TypeInv'
  BY <1>1, <1>2, NoClientIsClean DEF TypeInv, Clients
<1>4. ClientInv' /\ StoppedIsReleased'
  BY <1>1, NoClientIsClean DEF ClientInv, StoppedIsReleased, Closing
<1> QED
  BY <1>3, <1>4 DEF IInv

LEMMA Initially == Init => IInv
<1> SUFFICES ASSUME Init PROVE IInv
  OBVIOUS
<1>1. QueueOK(jobs) /\ (jobs # <<>> => Head(jobs)[1] \notin Closing)
  BY BootIsClean DEF Init
<1>2. state \in [Services -> {"Stopped", "Running", "Failed"}] /\ mqtt = NoClient
  BY DEF Init
<1>3. TypeInv
  BY <1>1, <1>2, NoClientIsClean DEF TypeInv, Clients
<1>4. ClientInv /\ StoppedIsReleased
  BY <1>1, <1>2, NoClientIsClean DEF ClientInv, StoppedIsReleased, Closing
<1> QED
  BY <1>3, <1>4 DEF IInv

LEMMA CrashKeeps == ASSUME Crash PROVE IInv'
<1>1. PICK c \in BOOLEAN : Boot(saved, c)
  BY DEF Crash
<1>2. /\ state' = [s \in Services |-> "Stopped"] /\ mqtt' = NoClient
      /\ jobs' = BootJobs(saved.enabled, up')
  BY <1>1 DEF Boot
<1> QED
  BY <1>2, FreshStart

\* new jobs, of which none belongs to a close(), change nothing else
LEMMA NewJobsKeep ==
  ASSUME IInv, UNCHANGED <<state, mqtt>>, QueueOK(jobs'),
         jobs' # <<>> => Head(jobs')[1] \notin Closing
  PROVE  IInv'
<1>1. TypeInv'
  BY DEF IInv, TypeInv, Clients
<1>2. ClientInv'
  BY DEF IInv, ClientInv, Closing
<1>3. StoppedIsReleased'
  BY DEF IInv, StoppedIsReleased
<1> QED
  BY <1>1, <1>2, <1>3 DEF IInv

LEMMA OthersKeep ==
  ASSUME IInv, UNCHANGED <<state, mqtt, jobs>>
  PROVE  IInv'
BY DEF IInv, TypeInv, Clients, ClientInv, StoppedIsReleased, QueueOK

-----------------------------------------------------------------------------
(* The jobs.                                                               *)

LEMMA SkipKeeps == ASSUME IInv, NEW s \in Services, Skip(s) PROVE IInv'
<1>1. QueueOK(jobs) /\ jobs # <<>> /\ jobs' = Tail(jobs) /\ UNCHANGED <<state, mqtt>>
  BY DEF Skip, IInv, TypeInv, Clients
<1> QED
  BY <1>1, TailQueue, NewJobsKeep

LEMMA StartKeeps == ASSUME IInv, NEW s \in Services, Start(s) PROVE IInv'
<1>1. QueueOK(jobs) /\ jobs # <<>> /\ jobs' = Tail(jobs)
  BY DEF Start, IInv, TypeInv, Clients
<1>2. QueueOK(jobs') /\ (jobs' # <<>> => Head(jobs')[1] \notin Closing)
  BY <1>1, TailQueue
<1>3. CASE state[s] = "Running"
  <2>1. UNCHANGED <<state, mqtt>>
    BY <1>3 DEF Start
  <2> QED
    BY <1>2, <2>1, NewJobsKeep
<1>4. CASE state[s] # "Running"
  <2>1. /\ state' = [state EXCEPT ![s] = IF Starts(s) THEN "Running" ELSE "Failed"]
        /\ mqtt' = IF s = Mqtt /\ Starts(s) THEN InitClient ELSE mqtt
    BY <1>4 DEF Start
  <2>2. mqtt' \in Clients /\ (mqtt'.event # "none" => mqtt'.client)
    BY <2>1 DEF InitClient, IInv, TypeInv, Clients, ClientInv
  <2>3. state' \in [Services -> {"Stopped", "Running", "Failed"}]
    BY <2>1 DEF IInv, TypeInv
  <2>4. TypeInv' /\ ClientInv'
    BY <1>2, <2>2, <2>3 DEF TypeInv, ClientInv, Closing
  <2>5. StoppedIsReleased'
    <3>1. CASE s = Mqtt
      BY <2>1, <3>1, MqttIsService DEF IInv, TypeInv, StoppedIsReleased
    <3>2. CASE s # Mqtt
      BY <2>1, <3>2, MqttIsService DEF IInv, TypeInv, StoppedIsReleased
    <3> QED
      BY <3>1, <3>2
  <2> QED
    BY <2>4, <2>5 DEF IInv
<1> QED
  BY <1>3, <1>4

\* MQTT's stop begins its close(), which goes on at the head of the queue
LEMMA StopKeeps == ASSUME IInv, NEW s \in Services, Stop(s) PROVE IInv'
<1>1. QueueOK(jobs) /\ jobs # <<>>
  BY DEF Stop, IInv, TypeInv, Clients
<1>2. CASE state[s] = "Stopped" /\ jobs' = Tail(jobs) /\ UNCHANGED <<state, mqtt>>
  BY <1>1, <1>2, TailQueue, NewJobsKeep
<1>3. CASE /\ s # Mqtt /\ state' = [state EXCEPT ![s] = "Stopped"]
           /\ jobs' = Tail(jobs) /\ UNCHANGED mqtt
  <2>1. QueueOK(jobs') /\ (jobs' # <<>> => Head(jobs')[1] \notin Closing)
    BY <1>1, <1>3, TailQueue
  <2>2. TypeInv'
    BY <1>3, <2>1 DEF IInv, TypeInv, Clients
  <2>3. ClientInv'
    BY <1>3, <2>1 DEF IInv, ClientInv, Closing
  <2>4. StoppedIsReleased'
    BY <1>3, MqttIsService DEF IInv, TypeInv, Clients, StoppedIsReleased
  <2> QED
    BY <2>2, <2>3, <2>4 DEF IInv
<1>4. CASE s = Mqtt /\ jobs' = <<<<"close", s>>>> \o Tail(jobs) /\ UNCHANGED <<state, mqtt>>
  <2>1. <<"close", s>> \in Jobs
    BY DEF Jobs, Kinds
  <2>2. QueueOK(jobs') /\ Head(jobs') = <<"close", s>>
    BY <1>1, <1>4, <2>1, PhaseQueue
  <2> QED
    BY <1>4, <2>2 DEF IInv, TypeInv, Clients, ClientInv, StoppedIsReleased
<1> QED
  BY <1>2, <1>3, <1>4 DEF Stop

LEMMA CloseKeeps == ASSUME IInv, Close PROVE IInv'
<1>1. QueueOK(jobs) /\ jobs # <<>> /\ mqtt.client \in BOOLEAN /\ UNCHANGED state
  BY DEF Close, IInv, TypeInv, Clients
<1> DEFINE j == <<IF mqtt.client THEN "halt" ELSE "drop", Mqtt>>
<1>2. j \in Jobs /\ (j[1] = "drop" <=> ~mqtt.client)
  BY <1>1, MqttIsService DEF Jobs, Kinds
<1>3. jobs' = <<j>> \o Tail(jobs)
  BY DEF Close
<1> HIDE DEF j
<1>4. QueueOK(jobs') /\ Head(jobs') = j
  BY <1>1, <1>2, <1>3, PhaseQueue
<1>5. /\ mqtt'.client = mqtt.client /\ mqtt'.sink = mqtt.sink /\ mqtt'.event = mqtt.event
      /\ mqtt'.lost = mqtt.lost /\ mqtt' \in Clients
  BY DEF Close, IInv, TypeInv, Clients
<1>6. TypeInv'
  BY <1>1, <1>4, <1>5 DEF IInv, TypeInv, Clients
<1>7. ClientInv'
  BY <1>2, <1>4, <1>5 DEF IInv, ClientInv
<1>8. StoppedIsReleased'
  BY <1>1, <1>5 DEF IInv, StoppedIsReleased
<1> QED
  BY <1>6, <1>7, <1>8 DEF IInv

LEMMA HaltKeeps == ASSUME IInv, Halt PROVE IInv'
<1>1. QueueOK(jobs) /\ jobs # <<>> /\ UNCHANGED state /\ mqtt.event = "none"
  BY DEF Halt, IInv, TypeInv, Clients
<1>2. <<"drop", Mqtt>> \in Jobs
  BY MqttIsService DEF Jobs, Kinds
<1>3. QueueOK(jobs')
  BY <1>1, <1>2, PhaseQueue DEF Halt
<1>4. /\ ~mqtt'.client /\ mqtt'.sink = mqtt.sink /\ mqtt'.event = "none"
      /\ mqtt'.lost = mqtt.lost
      /\ mqtt' \in Clients
  BY <1>1 DEF Halt, IInv, TypeInv, Clients
<1>5. TypeInv'
  BY <1>1, <1>3, <1>4 DEF IInv, TypeInv, Clients
<1>6. ClientInv'
  BY <1>4 DEF ClientInv
<1>7. StoppedIsReleased'
  BY <1>1, <1>4 DEF IInv, StoppedIsReleased
<1> QED
  BY <1>5, <1>6, <1>7 DEF IInv

\* no client, hence no event in hand that would add the sink again
LEMMA DropKeeps == ASSUME IInv, Drop PROVE IInv'
<1>1. /\ QueueOK(jobs) /\ jobs # <<>> /\ Head(jobs)[1] = "drop" /\ jobs' = Tail(jobs)
      /\ ~mqtt.client /\ mqtt.event = "none"
  BY DEF Drop, IInv, TypeInv, Clients, ClientInv
<1>2. QueueOK(jobs') /\ (jobs' # <<>> => Head(jobs')[1] \notin Closing)
  BY <1>1, TailQueue
<1>3. /\ ~mqtt'.client /\ ~mqtt'.sink /\ mqtt'.event = "none"
      /\ mqtt' \in Clients
      /\ state' \in [Services -> {"Stopped", "Running", "Failed"}]
  BY <1>1 DEF Drop, IInv, TypeInv, Clients
<1> QED
  BY <1>2, <1>3 DEF IInv, TypeInv, Clients, ClientInv, StoppedIsReleased

LEMMA NetifKeeps == ASSUME IInv, Netif PROVE IInv'
<1>1. QueueOK(jobs) /\ jobs # <<>> /\ jobs' = Tail(jobs) /\ UNCHANGED <<state, mqtt>>
  BY DEF Netif, IInv, TypeInv, Clients
<1> QED
  BY <1>1, TailQueue, NewJobsKeep

LEMMA JobKeeps == ASSUME IInv, Job PROVE IInv'
<1>1. ASSUME NEW s \in Services, Skip(s) \/ Start(s) \/ Stop(s) PROVE IInv'
  BY <1>1, SkipKeeps, StartKeeps, StopKeeps
<1>2. CASE Reboot
  BY <1>2, CrashKeeps DEF Reboot
<1> QED
  BY <1>1, <1>2, CloseKeeps, HaltKeeps, DropKeeps, NetifKeeps DEF Job

-----------------------------------------------------------------------------
(* What gives the loop its jobs.                                           *)

\* the services that are left, then the last job of the list
LEMMA ListAndLast ==
  ASSUME NEW kind \in Kinds \ Closing, NEW chosen, NEW last \in Kinds \ Closing
  PROVE  LET js == Append(For(kind, chosen), <<last, Mqtt>>)
         IN  QueueOK(js) /\ (js # <<>> => Head(js)[1] \notin Closing)
<1> DEFINE f == For(kind, chosen)
           j == <<last, Mqtt>>
<1>1. f \in Seq(Jobs) /\ (\A i \in DOMAIN f : f[i][1] \notin Closing)
  BY ForIsJobs
<1>2. j \in Jobs /\ j[1] \notin Closing
  BY MqttIsService DEF Jobs
<1> HIDE DEF f, j
<1>3. /\ Append(f, j) \in Seq(Jobs)
      /\ \A i \in DOMAIN Append(f, j) : Append(f, j)[i][1] \notin Closing
  BY <1>1, <1>2, PlainJobs
<1>4. QueueOK(Append(f, j)) /\ (Append(f, j) # <<>> => Head(Append(f, j))[1] \notin Closing)
  BY <1>3, PlainQueue
<1> QED
  BY <1>4 DEF f, j

LEMMA SvcKeeps ==
  ASSUME IInv, NEW s \in Services, NEW cmd \in {"on", "off", "restart"}, Svc(s, cmd)
  PROVE  IInv'
<1>1. UNCHANGED <<state, mqtt>>
  BY DEF Svc
<1>2. CASE jobs' \in {<<<<"start", s>>>>, <<<<"stop", s>>>>, <<<<"stop", s>>, <<"start", s>>>>}
  <2>1. <<"start", s>> \in Jobs /\ <<"stop", s>> \in Jobs
    BY DEF Jobs, Kinds
  <2>2. <<"start", s>>[1] \notin Closing /\ <<"stop", s>>[1] \notin Closing
    BY DEF Closing
  <2>3. ASSUME NEW j \in Jobs, j[1] \notin Closing, jobs' = <<j>>
        PROVE  IInv'
    <3>1. jobs' \in Seq(Jobs) /\ (\A i \in DOMAIN jobs' : jobs'[i][1] \notin Closing)
      BY <2>3
    <3> QED
      BY <1>1, <3>1, PlainQueue, NewJobsKeep
  <2>4. ASSUME NEW j \in Jobs, NEW k \in Jobs, j[1] \notin Closing, k[1] \notin Closing,
               jobs' = <<j, k>>
        PROVE  IInv'
    <3>1. jobs' \in Seq(Jobs) /\ (\A i \in DOMAIN jobs' : jobs'[i][1] \notin Closing)
      BY <2>4
    <3> QED
      BY <1>1, <3>1, PlainQueue, NewJobsKeep
  <2> QED
    BY <1>2, <2>1, <2>2, <2>3, <2>4
<1> QED
  BY <1>2 DEF Svc

LEMMA RestartKeeps == ASSUME IInv, Restart PROVE IInv'
<1>1. "stop" \in Kinds \ Closing /\ "reboot" \in Kinds \ Closing
  BY DEF Kinds, Closing
<1>2. QueueOK(jobs') /\ (jobs' # <<>> => Head(jobs')[1] \notin Closing)
  BY <1>1, ListAndLast DEF Restart
<1> QED
  BY <1>2, NewJobsKeep DEF Restart

LEMMA TearDownKeeps == ASSUME IInv, TearDown PROVE IInv'
<1>1. "stop" \in Kinds \ Closing /\ "netif" \in Kinds \ Closing
  BY DEF Kinds, Closing
<1>2. \/ jobs' = <<>>
      \/ jobs' = Append(For("stop", Network), <<"netif", Mqtt>>)
  BY DEF TearDown
<1>3. QueueOK(jobs') /\ (jobs' # <<>> => Head(jobs')[1] \notin Closing)
  BY <1>1, <1>2, ListAndLast, NoJobs
<1> QED
  BY <1>3, NewJobsKeep DEF TearDown

LEMMA EdgeKeeps == ASSUME IInv, Edge PROVE IInv'
<1>1. "start" \in Kinds \ Closing
  BY DEF Kinds, Closing
<1>2. jobs' = <<>> \/ jobs' = For("start", ToHeal)
  BY DEF Edge
<1>3. QueueOK(jobs') /\ (jobs' # <<>> => Head(jobs')[1] \notin Closing)
  BY <1>1, <1>2, ForIsJobs, PlainQueue, NoJobs
<1> QED
  BY <1>3, NewJobsKeep DEF Edge

-----------------------------------------------------------------------------
(* The client's task, and a service whose tick throws.                     *)

LEMMA EventKeeps ==
  ASSUME IInv, NEW e \in {"connected", "disconnected"}, EventComes(e)
  PROVE  IInv'
<1>1. /\ mqtt.client /\ mqtt'.client = mqtt.client /\ mqtt'.sink = mqtt.sink
      /\ mqtt' \in Clients /\ mqtt'.lost = mqtt.lost
      /\ UNCHANGED <<state, jobs>>
  BY DEF EventComes, IInv, TypeInv, Clients
<1> QED
  BY <1>1 DEF IInv, TypeInv, Clients, ClientInv, StoppedIsReleased

LEMMA HandleKeeps == ASSUME IInv, Handle PROVE IInv'
<1>1. mqtt.client /\ UNCHANGED <<state, jobs>>
  BY DEF Handle, HandleFlag, HandleSink, IInv, TypeInv, Clients, ClientInv
<1>2. mqtt'.client /\ mqtt' \in Clients /\ mqtt'.lost = mqtt.lost
  BY <1>1 DEF Handle, HandleFlag, HandleSink, IInv, TypeInv, Clients
<1>3. state[Mqtt] = "Stopped" => mqtt.lost
  BY <1>1 DEF IInv, TypeInv, Clients, StoppedIsReleased
<1>4. jobs # <<>> => Head(jobs)[1] # "drop"
  BY <1>1 DEF IInv, ClientInv
<1> QED
  BY <1>1, <1>2, <1>3, <1>4 DEF IInv, TypeInv, ClientInv, StoppedIsReleased

\* a lost client excuses what its task does
LEMMA LostClientKeeps == ASSUME IInv, LostClient PROVE IInv'
<1>1. /\ mqtt'.lost /\ mqtt'.client = mqtt.client /\ mqtt'.event = mqtt.event
      /\ mqtt' \in Clients /\ UNCHANGED <<state, jobs>>
  BY DEF LostClient, IInv, TypeInv, Clients
<1> QED
  BY <1>1 DEF IInv, TypeInv, ClientInv, StoppedIsReleased

\* Failed is not Stopped, so that nothing is promised of what a failed tick leaves
LEMMA TickThrowsKeeps == ASSUME IInv, NEW s \in Services, TickThrows(s) PROVE IInv'
<1>1. state' = [state EXCEPT ![s] = "Failed"] /\ UNCHANGED <<jobs, mqtt>>
  BY DEF TickThrows
<1>2. TypeInv'
  BY <1>1 DEF IInv, TypeInv
<1>3. ClientInv'
  BY <1>1 DEF IInv, ClientInv
<1>4. StoppedIsReleased'
  BY <1>1, MqttIsService DEF IInv, TypeInv, StoppedIsReleased
<1> QED
  BY <1>2, <1>3, <1>4 DEF IInv

LEMMA NextKeeps == ASSUME IInv, [Next]_vars PROVE IInv'
<1>1. CASE Job
  BY <1>1, JobKeeps
<1>2. CASE Turn \/ WifiLoop \/ Tick
  BY <1>2, OthersKeep DEF Turn, WifiLoop, Tick
<1>3. CASE TearDown \/ Edge
  BY <1>3, TearDownKeeps, EdgeKeeps
<1>4. CASE Command
  <2>1. CASE WifiOn \/ \E timed \in BOOLEAN : WifiOff(timed)
    BY <2>1, OthersKeep DEF WifiOn, WifiOff
  <2>2. CASE \E s \in Services, cmd \in {"on", "off", "restart"} : Svc(s, cmd)
    BY <2>2, SvcKeeps
  <2> QED
    BY <1>4, <2>1, <2>2, RestartKeeps DEF Command
<1>5. CASE Environment
  <2>1. CASE Link \/ ShutdownIfHot \/ Reenable
    BY <2>1, OthersKeep DEF Link, ShutdownIfHot, Reenable
  <2>2. CASE \E s \in Services : TickThrows(s)
    BY <2>2, TickThrowsKeeps
  <2>3. CASE \E e \in {"connected", "disconnected"} : EventComes(e)
    BY <2>3, EventKeeps
  <2> QED
    BY <1>5, <2>1, <2>2, <2>3, CrashKeeps, LostClientKeeps DEF Environment
<1>6. CASE Handle
  BY <1>6, HandleKeeps
<1>7. CASE UNCHANGED vars
  BY <1>7, OthersKeep DEF vars
<1> QED
  BY <1>1, <1>2, <1>3, <1>4, <1>5, <1>6, <1>7 DEF Next, Loop

\* However the events of the MQTT client fall between the steps of close(), whatever
\* is started, stopped or restarted, fails in a tick, and wherever power is lost: once
\* the service is stopped its client and log sink are gone, unless a start over a failed
\* tick has lost a client before (service.h tick(), tele/mqtt.cpp close(), _handleEvent()).
THEOREM StopReleases == Spec => []StoppedIsReleased
<1>1. IInv => StoppedIsReleased
  BY DEF IInv
<1> QED
  BY <1>1, Initially, NextKeeps, PTL DEF Spec
=============================================================================
