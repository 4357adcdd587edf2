-------------------------- MODULE WebServer_proofs --------------------------
(***************************************************************************)
(* Type correctness of WebServer; that no container outlives the event that *)
(* takes it out of the hosts, be it its end or that it left the last        *)
(* network it shares with the proxy; and that one that starts or joins such *)
(* a network gets into them.  For all values of the constants.              *)
(***************************************************************************)
EXTENDS WebServer, HostTable_proofs

-----------------------------------------------------------------------------
(* Helpers.                                                                 *)

LEMMA EventsOfContainers ==
    ASSUME NEW c \in Container, NEW a
    PROVE  /\ ContainerEvent(a, c).act = a /\ ContainerEvent(a, c).id = c
           /\ a \in StartActs \cup DieActs \cup LinkActs \cup IgnoredActs
                => ContainerEvent(a, c) \in Event
BY DEF ContainerEvent, Event

(* Only events about other containers are handled by the handlers of        *)
(* container events, and events are about containers or the proxy.          *)
LEMMA EventSubjects ==
    ASSUME NEW e \in Event
    PROVE  /\ e.id \in Container \cup {Self} /\ e.net \in Network
           /\ e.act \in StartActs \cup DieActs \cup IgnoredActs => e.id \in Container
           /\ e.act \in LinkActs /\ e.id # Self => e.id \in Container
<1>1. CASE \E a \in StartActs \cup DieActs \cup LinkActs \cup IgnoredActs, c \in Container :
             e = ContainerEvent(a, c)
  BY <1>1, NetworkAssumption DEF ContainerEvent
<1>2. CASE \E a \in LinkActs \cup {"destroy"}, n \in Network : e = NetworkEvent(a, n)
  BY <1>2 DEF NetworkEvent, LinkActs, StartActs, DieActs, IgnoredActs
<1> QED BY <1>1, <1>2 DEF Event

(* A report never takes an event away, and records those it is about if the *)
(* stream records.                                                          *)
LEMMA ReportKeeps ==
    ASSUME NEW E, Report(E), pending \in [Event -> Nat]
    PROVE  /\ pending' \in [Event -> Nat]
           /\ \A e \in Event : pending[e] > 0 => pending'[e] > 0
           /\ stream \in {"since", "on"} =>
                 \A e \in Event : e \in E /\ e.act \in Reports => pending'[e] > 0
<1>1. CASE stream \in {"since", "on"}
  <2>1. pending' = [e \in Event |->
                       IF e \in E /\ e.act \in Reports THEN pending[e] + 1 ELSE pending[e]]
    BY <1>1 DEF Report
  <2> QED BY <1>1, <2>1
<1>2. CASE stream \notin {"since", "on"}
  BY <1>2 DEF Report
<1> QED BY <1>1, <1>2

(* Getting the lock uses up one event and no other.                         *)
LEMMA AcquireKeeps ==
    ASSUME NEW e \in Event, Acquire(e), pending \in [Event -> Nat]
    PROVE  /\ pending' \in [Event -> Nat]
           /\ \A d \in Event : d # e => pending'[d] = pending[d]
BY DEF Acquire

(* A reload leaves a table with the same containers, whatever nginx says.   *)
LEMMA ReloadKeeps ==
    ASSUME NEW T, NEW ok, IsTable(T, Key), Reload(T, ok),
           IsTable(conf, Hostname), IsTable(served, Hostname)
    PROVE  /\ IsTable(hosts', Key)
           /\ HostContainers(hosts') = HostContainers(T)
           /\ IsTable(conf', Hostname) /\ IsTable(served', Hostname)
<1>1. PICK f \in Choices(PrepareSSL(T)) :
          /\ hosts' = Consolidate(PrepareSSL(T), f)
          /\ conf' \in {conf, Render(Consolidate(PrepareSSL(T), f), f)}
          /\ served' \in {served, Render(Consolidate(PrepareSSL(T), f), f)}
  BY DEF Reload
<1>2. IsTable(PrepareSSL(T), Key) /\ HostContainers(PrepareSSL(T)) = HostContainers(T)
  BY PreparationKeeps
<1>3. /\ IsTable(hosts', Key)
      /\ HostContainers(hosts') = HostContainers(T)
  BY <1>1, <1>2, ConsolidationKeeps
<1>4. IsTable(Render(Consolidate(PrepareSSL(T), f), f), Hostname)
  BY <1>2, RenderingKeeps
<1> QED BY <1>1, <1>3, <1>4

LEMMA EmptyTable ==
    /\ IsTable(Nothing, Key) /\ IsTable(Nothing, Hostname)
    /\ HostContainers(Nothing) = {}
BY DEF IsTable, Nothing, HostContainers

(* Only containers are in the table.                                        *)
LEMMA RoutedContainers ==
    ASSUME TypeOK
    PROVE  HostContainers(hosts) \subseteq Container /\ Routed \subseteq Container
<1>1. HostContainers(hosts) \subseteq Container
  BY DEF TypeOK, IsTable, IsHost, IsPartial, Location, HostContainers
<1> QED BY <1>1 DEF TypeOK, Routed

-----------------------------------------------------------------------------
(* Type correctness.                                                        *)

LEMMA TypeInit == Init => TypeOK
<1> SUFFICES ASSUME Init PROVE TypeOK
  OBVIOUS
<1>1. IsPartial(networks, Network \cup NetworkName, Network \cup NetworkName) /\ Known = {}
  BY DEF Init, IsPartial, Nothing, Known
<1>2. attached \in [Container \cup {Self} -> SUBSET Network]
  BY DEF Init
<1>3. job \in Job
  BY DEF Init, Job, NoJob
<1>4. ops \in 0..MaxOps
  BY BoundAssumption DEF Init
<1> QED BY <1>1, <1>2, <1>3, <1>4, EmptyTable DEF Init, TypeOK, Places

(* A change counts towards the bound.                                       *)
LEMMA ChangeKeeps ==
    ASSUME NEW op, Change(op), ops \in 0..MaxOps
    PROVE  ops' \in 0..MaxOps
BY BoundAssumption DEF Change

(* Docker's changes: the statuses and attachments stay typed, a report      *)
(* keeps the bag a bag, and the proxy's own variables are left alone.       *)
LEMMA DockerFrame ==
    ASSUME TypeOK, UNCHANGED <<stream, pc, job, tables, nginx>>,
           docker' \in [Container -> Statuses],
           attached' \in [Container \cup {Self} -> SUBSET Network],
           gone' \subseteq Network, ops' \in 0..MaxOps, pending' \in [Event -> Nat]
    PROVE  TypeOK'
BY DEF TypeOK, Known, tables, nginx

LEMMA TypeDocker == TypeOK /\ Docker => TypeOK'
<1> SUFFICES ASSUME TypeOK, Docker PROVE TypeOK'
  OBVIOUS
<1>1. /\ docker \in [Container -> Statuses]
      /\ attached \in [Container \cup {Self} -> SUBSET Network]
      /\ gone \subseteq Network /\ ops \in 0..MaxOps /\ pending \in [Event -> Nat]
  BY DEF TypeOK
<1>2. ASSUME NEW c \in Container, DockerStart(c) PROVE TypeOK'
  <2>1. docker' \in [Container -> Statuses]
    BY <1>1, <1>2 DEF DockerStart, Statuses
  <2> QED BY <1>1, <1>2, <2>1, ChangeKeeps, ReportKeeps, DockerFrame DEF DockerStart
<1>3. ASSUME NEW c \in Container, DockerKill(c) PROVE TypeOK'
  BY <1>1, <1>3, ChangeKeeps, ReportKeeps, DockerFrame DEF DockerKill
<1>4. ASSUME NEW c \in Container, DockerDie(c) PROVE TypeOK'
  <2>1. docker' \in [Container -> Statuses]
    BY <1>1, <1>4 DEF DockerDie, Statuses
  <2> QED BY <1>1, <1>4, <2>1, ChangeKeeps, ReportKeeps, DockerFrame DEF DockerDie
<1>5. ASSUME NEW c \in Container, DockerRemove(c) PROVE TypeOK'
  <2>1. docker' \in [Container -> Statuses]
    BY <1>1, <1>5 DEF DockerRemove, Statuses
  <2> QED BY <1>1, <1>5, <2>1, ChangeKeeps, DockerFrame DEF DockerRemove, control
<1>6. ASSUME NEW c \in Container, DockerPause(c) PROVE TypeOK'
  BY <1>1, <1>6, ChangeKeeps, ReportKeeps, DockerFrame DEF DockerPause
<1>7. ASSUME NEW c \in Container, NEW n \in Network, DockerConnect(c, n) PROVE TypeOK'
  <2>1. attached' \in [Container \cup {Self} -> SUBSET Network]
    BY <1>1, <1>7 DEF DockerConnect
  <2> QED BY <1>1, <1>7, <2>1, ChangeKeeps, ReportKeeps, DockerFrame DEF DockerConnect
<1>8. ASSUME NEW c \in Container, NEW n \in Network, DockerDisconnect(c, n) PROVE TypeOK'
  <2>1. attached' \in [Container \cup {Self} -> SUBSET Network]
    BY <1>1, <1>8 DEF DockerDisconnect
  <2> QED BY <1>1, <1>8, <2>1, ChangeKeeps, ReportKeeps, DockerFrame DEF DockerDisconnect
<1>9. ASSUME NEW n \in Network, SelfConnect(n) PROVE TypeOK'
  <2>1. attached' \in [Container \cup {Self} -> SUBSET Network]
    BY <1>1, <1>9 DEF SelfConnect
  <2> QED BY <1>1, <1>9, <2>1, ChangeKeeps, ReportKeeps, DockerFrame DEF SelfConnect
<1>10. ASSUME NEW n \in Network, SelfDisconnect(n) PROVE TypeOK'
  <2>1. attached' \in [Container \cup {Self} -> SUBSET Network]
    BY <1>1, <1>10 DEF SelfDisconnect
  <2> QED BY <1>1, <1>10, <2>1, ChangeKeeps, ReportKeeps, DockerFrame DEF SelfDisconnect
<1>11. ASSUME NEW n \in Network, NetworkDestroy(n) PROVE TypeOK'
  BY <1>1, <1>11, ChangeKeeps, ReportKeeps, DockerFrame DEF NetworkDestroy
<1> QED BY <1>2, <1>3, <1>4, <1>5, <1>6, <1>7, <1>8, <1>9, <1>10, <1>11 DEF Docker

(* Start-up and rescans: networks learned map to their names, and every     *)
(* table written is one.                                                    *)
LEMMA TypeProceed == TypeOK /\ Proceed => TypeOK'
<1> SUFFICES ASSUME TypeOK, Proceed PROVE TypeOK'
  OBVIOUS
<1> USE DEF TypeOK, external, nginx, tables, Places
<1>1. NoJob \in Job /\ \A J \in Job : /\ J.id \in Container \cup {Self}
                                      /\ J.nets \subseteq Network /\ J.todo \subseteq Container
  BY DEF NoJob, Job
<1>2. ASSUME LearnYourself PROVE TypeOK'
  <2>1. PICK L \in SUBSET Network : networks' = Learned(L)
    BY <1>2 DEF LearnYourself
  <2>2. IsPartial(Learned(L), Network \cup NetworkName, Network \cup NetworkName)
    BY NameAssumption DEF Learned, IsPartial
  <2>3. \A n \in Network \cap DOMAIN Learned(L) : Learned(L)[n] = NameOf[n]
    BY NameAssumption, NetworkAssumption DEF Learned
  <2> QED BY <1>2, <2>1, <2>2, <2>3 DEF LearnYourself, Known
<1>3. ASSUME CaptureSince PROVE TypeOK'
  BY <1>3 DEF CaptureSince, Known
<1>4. ASSUME ListContainers PROVE TypeOK'
  <2>1. [NoJob EXCEPT !.todo = {c \in Container : docker[c] = "running"}] \in Job
    BY DEF NoJob, Job
  <2> QED BY <1>1, <1>4, <2>1, EmptyTable DEF ListContainers, Known
<1>5. ASSUME ScanNothing PROVE TypeOK'
  BY <1>5 DEF ScanNothing, Known
<1>6. ASSUME NEW c \in Container, ScanContainer(c) PROVE TypeOK'
  <2>1. [job EXCEPT !.todo = @ \ {c}] \in Job
    BY DEF Job
  <2>2. IsTable(hosts', Key)
    BY <1>6, FragmentOfOne, AddHostsKeeps DEF ScanContainer
  <2> QED BY <1>6, <2>1, <2>2 DEF ScanContainer, Known
<1>7. ASSUME FinishScan PROVE TypeOK'
  BY <1>1, <1>7, ReloadKeeps DEF FinishScan, Known
<1>8. ASSUME ReloadAgain PROVE TypeOK'
  BY <1>1, <1>8, ReloadKeeps DEF ReloadAgain, Release, Known
<1>9. ASSUME UpdateContainer PROVE TypeOK'
  <2>1. [job EXCEPT !.nets = Addresses(job.id)] \in Job
    BY <1>1, <1>9 DEF Job, Addresses, UpdateContainer
  <2>2. job.id \in Container /\ [job EXCEPT !.nets = Addresses(job.id)].id = job.id
    BY <1>9 DEF UpdateContainer, Job
  <2> QED BY <1>1, <1>9, <2>1, <2>2, RemovalKeeps DEF UpdateContainer, Release, Known
<1>10. ASSUME CommitContainer PROVE TypeOK'
  <2>1. IsTable(AddHosts(hosts, ProcessVirtualHosts(job.id, job.nets, Known)), Key)
    BY <1>10, FragmentOfOne, AddHostsKeeps DEF CommitContainer
  <2> QED BY <1>1, <1>10, <2>1, ReloadKeeps DEF CommitContainer, Release, Known
<1> QED BY <1>2, <1>3, <1>4, <1>5, <1>6, <1>7, <1>8, <1>9, <1>10 DEF Proceed, Scan

(* The handlers.                                                            *)
LEMMA TypeHandle == TypeOK /\ Handle => TypeOK'
<1> SUFFICES ASSUME TypeOK, NEW e \in Event,
                    \/ HandleContainerStart(e) \/ HandleContainerDie(e) \/ HandleIgnored(e)
                    \/ HandleContainerLink(e) \/ HandleSelfConnect(e) \/ HandleSelfDisconnect(e)
                    \/ HandleSelfMissed(e) \/ HandleNetworkDestroy(e)
             PROVE  TypeOK'
  BY DEF Handle
<1> USE DEF TypeOK, external, nginx, tables, Places
<1>1. /\ NoJob \in Job
      /\ \A c \in Container : /\ [NoJob EXCEPT !.id = c] \in Job
                              /\ [NoJob EXCEPT !.id = c].id = c
  BY DEF NoJob, Job
<1>2. ASSUME HandleContainerStart(e) PROVE TypeOK'
  <2>1. e.id \in Container /\ pending' \in [Event -> Nat]
    BY <1>2, AcquireKeeps, EventSubjects DEF HandleContainerStart
  <2>2. \/ containers' = containers \cup {e.id} /\ Update(e.id)
        \/ containers' = containers /\ Release
    BY <1>2 DEF HandleContainerStart
  <2>3. containers' \subseteq Container
    BY <2>1, <2>2
  <2>4. pc' \in Places /\ job' \in Job /\ (pc' \in {"update", "commit"} => job'.id \in Container)
    BY <1>1, <2>1, <2>2 DEF Update, Release
  <2> QED BY <1>2, <2>1, <2>3, <2>4 DEF HandleContainerStart, Known
<1>3. ASSUME HandleContainerDie(e) PROVE TypeOK'
  <2>1. IsTable(hosts', Key) /\ IsTable(conf', Hostname) /\ IsTable(served', Hostname)
    BY <1>3, RemovalKeeps, ReloadKeeps DEF HandleContainerDie
  <2> QED BY <1>1, <1>3, <2>1, AcquireKeeps DEF HandleContainerDie, Release, Known
<1>4. ASSUME HandleIgnored(e) PROVE TypeOK'
  BY <1>1, <1>4, AcquireKeeps DEF HandleIgnored, Release, Known
<1>5. ASSUME HandleContainerLink(e) PROVE TypeOK'
  BY <1>1, <1>5, AcquireKeeps, EventSubjects DEF HandleContainerLink, Update, Known
<1>6. ASSUME HandleSelfConnect(e) PROVE TypeOK'
  <2>1. e.net \in Network /\ NameOf[e.net] \in NetworkName
    BY NameAssumption, EventSubjects
  <2>2. /\ IsPartial(networks', Network \cup NetworkName, Network \cup NetworkName)
        /\ \A n \in Network \cap DOMAIN networks' : networks'[n] = NameOf[n]
    <3>1. CASE networks' = networks
      BY <3>1 DEF Known
    <3>2. CASE networks' = [x \in DOMAIN networks \cup {e.net, NameOf[e.net]} |->
                               CASE x = e.net -> NameOf[e.net]
                                 [] x = NameOf[e.net] -> e.net
                                 [] OTHER -> networks[x]]
      <4>1. \A x \in DOMAIN networks' : networks'[x] \in Network \cup NetworkName
        BY <2>1, <3>2 DEF IsPartial
      <4>2. IsPartial(networks', Network \cup NetworkName, Network \cup NetworkName)
        BY <2>1, <3>2, <4>1 DEF IsPartial
      <4>3. \A n \in Network \cap DOMAIN networks' : networks'[n] = NameOf[n]
        BY <2>1, <3>2, NetworkAssumption DEF Known
      <4> QED BY <4>2, <4>3
    <3> QED BY <1>6, <3>1, <3>2 DEF HandleSelfConnect
  <2> QED BY <1>1, <1>6, <2>2, AcquireKeeps DEF HandleSelfConnect, Known
<1>7. ASSUME HandleSelfDisconnect(e) PROVE TypeOK'
  BY <1>1, <1>7, AcquireKeeps DEF HandleSelfDisconnect, Without, IsPartial, Known
<1>8. ASSUME HandleSelfMissed(e) PROVE TypeOK'
  BY <1>1, <1>8, AcquireKeeps DEF HandleSelfMissed, Release, Known
<1>9. ASSUME HandleNetworkDestroy(e) PROVE TypeOK'
  BY <1>1, <1>9, AcquireKeeps DEF HandleNetworkDestroy, Without, Release, IsPartial, Known
<1> QED BY <1>2, <1>3, <1>4, <1>5, <1>6, <1>7, <1>8, <1>9

LEMMA TypeNext == TypeOK /\ [Next]_vars => TypeOK'
<1> SUFFICES ASSUME TypeOK, [Next]_vars PROVE TypeOK'
  OBVIOUS
<1>1. CASE EndStream
  BY <1>1 DEF EndStream, TypeOK, external, nginx, tables, Known
<1>2. CASE UNCHANGED vars
  BY <1>2 DEF vars, external, control, nginx, tables, TypeOK, Known
<1> QED BY <1>1, <1>2, TypeDocker, TypeProceed, TypeHandle DEF Next, Rest

(* Every variable keeps its type, whatever the numbers of containers,       *)
(* hostnames and networks.                                                  *)
THEOREM TypeCorrect == Spec => []TypeOK
BY TypeInit, TypeNext, PTL DEF Spec

-----------------------------------------------------------------------------
(* No container outlives its removal event.  PendingRemoval is not          *)
(* inductive alone: a container that dies while nothing is recorded leaves  *)
(* no event, which is harmless only because the table is still empty then.  *)

NothingBeforeStart ==
    /\ stream = "none" => pc \in {"new", "learned"}
    /\ pc \in {"new", "learned"} => hosts = Nothing /\ stream = "none"

RemovalInv == TypeOK /\ NothingBeforeStart /\ PendingRemoval

LEMMA RemovalInit == Init => RemovalInv
<1> SUFFICES ASSUME Init PROVE RemovalInv
  OBVIOUS
<1>1. Routed = {}
  BY EmptyTable DEF Init, Routed
<1> QED BY <1>1, TypeInit DEF Init, RemovalInv, NothingBeforeStart, PendingRemoval

(* The three ways a step can leave PendingRemoval alone: the table stays    *)
(* and no event of the bag is lost, ...                                     *)
LEMMA RemovalDockerFrame ==
    ASSUME RemovalInv, UNCHANGED <<stream, pc, job, hosts>>,
           \A e \in Event : pending[e] > 0 => pending'[e] > 0,
           \A c \in Container : docker[c] = "running" =>
               \/ docker'[c] = "running"
               \/ stream \in {"since", "on"} => pending'[ContainerEvent("die", c)] > 0
    PROVE  NothingBeforeStart' /\ PendingRemoval'
<1>1. NothingBeforeStart'
  BY DEF RemovalInv, NothingBeforeStart
<1>2. Routed' = Routed
  BY DEF Routed
<1>3. SUFFICES ASSUME stream # "dead", NEW c \in Routed
               PROVE  docker'[c] = "running" \/ Awaited(c, DieActs)'
  BY <1>1, <1>2 DEF PendingRemoval
<1>4. stream \in {"since", "on"}
  <2>1. CASE stream = "none"
    BY <1>3, <2>1, EmptyTable DEF RemovalInv, NothingBeforeStart, Routed
  <2> QED BY <1>3, <2>1 DEF RemovalInv, TypeOK
<1>5. c \in Container
  BY <1>3, RoutedContainers DEF RemovalInv
<1>6. CASE docker[c] = "running"
  BY <1>4, <1>5, <1>6 DEF Awaited, DieActs
<1>7. CASE docker[c] # "running"
  <2>1. PICK a \in DieActs : pending[ContainerEvent(a, c)] > 0
    BY <1>3, <1>7 DEF RemovalInv, PendingRemoval, Awaited
  <2>2. ContainerEvent(a, c) \in Event
    BY <1>5, EventsOfContainers
  <2> QED BY <2>1, <2>2 DEF Awaited, ContainerEvent
<1> QED BY <1>6, <1>7

(* ... only containers running now enter the table, ...                     *)
LEMMA RemovalProceedFrame ==
    ASSUME PendingRemoval, UNCHANGED <<docker, pending>>, stream' # "dead" => stream # "dead",
           \A c \in Routed' : c \in Routed \/ docker[c] = "running"
    PROVE  PendingRemoval'
BY DEF PendingRemoval, Awaited

(* ... or an event is used up that takes its container out.                 *)
LEMMA RemovalHandleFrame ==
    ASSUME TypeOK, PendingRemoval, NEW e \in Event, Acquire(e), UNCHANGED <<docker, stream>>,
           pc' # "commit",
           HostContainers(hosts') \subseteq HostContainers(hosts),
           e.act \in DieActs => e.id \notin HostContainers(hosts')
    PROVE  PendingRemoval'
<1>1. SUFFICES ASSUME stream # "dead", NEW c \in HostContainers(hosts')
               PROVE  docker[c] = "running" \/ Awaited(c, DieActs)'
  BY DEF PendingRemoval, Routed
<1>2. c \in HostContainers(hosts) /\ c \in Routed
  BY <1>1 DEF Routed
<1>3. c \in Container
  BY <1>2, RoutedContainers
<1>4. CASE docker[c] # "running"
  <2>1. PICK a \in DieActs : pending[ContainerEvent(a, c)] > 0
    BY <1>1, <1>2, <1>4 DEF PendingRemoval, Awaited
  <2>2. ContainerEvent(a, c) \in Event /\ ContainerEvent(a, c) # e
    BY <1>1, <1>3, <2>1, EventsOfContainers
  <2>3. pending'[ContainerEvent(a, c)] > 0
    BY <2>1, <2>2, AcquireKeeps DEF TypeOK
  <2> QED BY <2>1, <2>3 DEF Awaited, ContainerEvent
<1> QED BY <1>4

LEMMA RemovalDocker == RemovalInv /\ Docker => NothingBeforeStart' /\ PendingRemoval'
<1> SUFFICES ASSUME RemovalInv, Docker
             PROVE  NothingBeforeStart' /\ PendingRemoval'
  OBVIOUS
<1> USE DEF tables
<1>1. /\ docker \in [Container -> Statuses] /\ pending \in [Event -> Nat]
  BY DEF RemovalInv, TypeOK
<1>2. ASSUME NEW c \in Container, DockerStart(c)
      PROVE  NothingBeforeStart' /\ PendingRemoval'
  BY <1>1, <1>2, ReportKeeps, RemovalDockerFrame DEF DockerStart
<1>3. ASSUME NEW c \in Container, DockerKill(c)
      PROVE  NothingBeforeStart' /\ PendingRemoval'
  BY <1>1, <1>3, ReportKeeps, RemovalDockerFrame DEF DockerKill
<1>4. ASSUME NEW c \in Container, DockerDie(c)
      PROVE  NothingBeforeStart' /\ PendingRemoval'
  <2>1. PICK stopped \in SUBSET {"stop"} :
            Report({ContainerEvent(a, c) : a \in {"die", "disconnect"} \cup stopped})
    BY <1>4 DEF DockerDie
  <2>2. stream \in {"since", "on"} => pending'[ContainerEvent("die", c)] > 0
    BY <1>1, <2>1, ReportKeeps, ReportsAssumption, EventsOfContainers DEF DieActs
  <2>3. \A d \in Container : d # c => docker'[d] = docker[d]
    BY <1>1, <1>4 DEF DockerDie
  <2>4. \A d \in Event : pending[d] > 0 => pending'[d] > 0
    BY <1>1, <2>1, ReportKeeps
  <2> QED BY <1>4, <2>2, <2>3, <2>4, RemovalDockerFrame DEF DockerDie
<1>5. ASSUME NEW c \in Container, DockerRemove(c)
      PROVE  NothingBeforeStart' /\ PendingRemoval'
  BY <1>1, <1>5, RemovalDockerFrame DEF DockerRemove, control
<1>6. ASSUME NEW c \in Container, DockerPause(c)
      PROVE  NothingBeforeStart' /\ PendingRemoval'
  BY <1>1, <1>6, ReportKeeps, RemovalDockerFrame DEF DockerPause
<1>7. ASSUME NEW c \in Container, NEW n \in Network,
             DockerConnect(c, n) \/ DockerDisconnect(c, n)
      PROVE  NothingBeforeStart' /\ PendingRemoval'
  BY <1>1, <1>7, ReportKeeps, RemovalDockerFrame DEF DockerConnect, DockerDisconnect
<1>8. ASSUME NEW n \in Network, SelfConnect(n) \/ SelfDisconnect(n) \/ NetworkDestroy(n)
      PROVE  NothingBeforeStart' /\ PendingRemoval'
  BY <1>1, <1>8, ReportKeeps, RemovalDockerFrame
     DEF SelfConnect, SelfDisconnect, NetworkDestroy
<1> QED BY <1>2, <1>3, <1>4, <1>5, <1>6, <1>7, <1>8 DEF Docker

(* Every table the lock holder writes has the containers it had, one fewer, *)
(* none, or one more whose address was just read.                           *)
LEMMA RemovalProceed == RemovalInv /\ Proceed => NothingBeforeStart' /\ PendingRemoval'
<1> SUFFICES ASSUME RemovalInv, Proceed
             PROVE  NothingBeforeStart' /\ PendingRemoval'
  OBVIOUS
<1> USE DEF RemovalInv, NothingBeforeStart, external, tables, nginx
<1>1. /\ IsTable(hosts, Key) /\ IsTable(conf, Hostname) /\ IsTable(served, Hostname)
      /\ job \in Job /\ (pc \in {"update", "commit"} => job.id \in Container)
  BY DEF TypeOK
<1>2. ASSUME LearnYourself PROVE NothingBeforeStart' /\ PendingRemoval'
  BY <1>2, RemovalProceedFrame DEF LearnYourself, Routed
<1>3. ASSUME CaptureSince PROVE NothingBeforeStart' /\ PendingRemoval'
  BY <1>3, EmptyTable DEF CaptureSince, Routed, PendingRemoval
<1>4. ASSUME ListContainers PROVE NothingBeforeStart' /\ PendingRemoval'
  BY <1>4, EmptyTable, RemovalProceedFrame DEF ListContainers, Routed
<1>5. ASSUME ScanNothing PROVE NothingBeforeStart' /\ PendingRemoval'
  BY <1>5, RemovalProceedFrame DEF ScanNothing, Routed
<1>6. ASSUME NEW c \in Container, ScanContainer(c)
      PROVE  NothingBeforeStart' /\ PendingRemoval'
  <2> DEFINE H == ProcessVirtualHosts(c, Addresses(c), Known)
  <2>1. HostContainers(H) \subseteq {c} /\ (docker[c] # "running" => HostContainers(H) = {})
    BY FragmentOfOne, EmptyTable DEF Addresses
  <2>2. HostContainers(AddHosts(hosts, H)) = HostContainers(hosts) \cup HostContainers(H)
    BY <1>1, FragmentOfOne, AddHostsKeeps
  <2>3. HostContainers(hosts') \subseteq HostContainers(hosts) \cup HostContainers(H)
    BY <1>6, <2>2 DEF ScanContainer
  <2>4. pc' \in {"reload", "scan"} /\ pc = "scan" /\ UNCHANGED <<docker, pending, stream>>
    BY <1>6 DEF ScanContainer
  <2>5. \A d \in Routed' : d \in Routed \/ docker[d] = "running"
    BY <2>1, <2>3, <2>4 DEF Routed
  <2> QED BY <2>4, <2>5, RemovalProceedFrame
<1>7. ASSUME FinishScan PROVE NothingBeforeStart' /\ PendingRemoval'
  <2>1. HostContainers(hosts') = HostContainers(hosts)
    BY <1>1, <1>7, ReloadKeeps DEF FinishScan
  <2> QED BY <1>7, <2>1, RemovalProceedFrame DEF FinishScan, Routed
<1>8. ASSUME ReloadAgain PROVE NothingBeforeStart' /\ PendingRemoval'
  <2>1. HostContainers(hosts') = HostContainers(hosts)
    BY <1>1, <1>8, ReloadKeeps DEF ReloadAgain
  <2> QED BY <1>8, <2>1, RemovalProceedFrame DEF ReloadAgain, Release, Routed
<1>9. ASSUME UpdateContainer PROVE NothingBeforeStart' /\ PendingRemoval'
  <2>1. HostContainers(hosts') = HostContainers(hosts) \ {job.id}
    BY <1>1, <1>9, RemovalKeeps DEF UpdateContainer
  <2>2. pc' = "commit" => job'.id = job.id /\ docker[job.id] = "running"
    <3>1. ASSUME docker[job.id] # "running"
          PROVE  ProcessVirtualHosts(job.id, Addresses(job.id), Known) = Nothing
      BY <1>1, <1>9, <3>1, FragmentOfOne DEF Addresses, UpdateContainer
    <3> QED BY <1>1, <1>9, <3>1 DEF UpdateContainer, Release, Job
  <2>3. pc' \in {"idle", "commit"} /\ pc = "update" /\ UNCHANGED <<docker, pending, stream>>
    BY <1>9 DEF UpdateContainer, Release
  <2>4. \A d \in Routed' : d \in Routed \/ docker[d] = "running"
    BY <2>1, <2>2, <2>3 DEF Routed
  <2> QED BY <2>3, <2>4, RemovalProceedFrame
<1>10. ASSUME CommitContainer PROVE NothingBeforeStart' /\ PendingRemoval'
  <2> DEFINE H == ProcessVirtualHosts(job.id, job.nets, Known)
  <2>1. /\ IsTable(AddHosts(hosts, H), Key)
        /\ HostContainers(AddHosts(hosts, H)) \subseteq HostContainers(hosts) \cup {job.id}
    BY <1>1, <1>10, FragmentOfOne, AddHostsKeeps DEF CommitContainer
  <2>2. HostContainers(hosts') \subseteq HostContainers(hosts) \cup {job.id}
    BY <1>1, <1>10, <2>1, ReloadKeeps DEF CommitContainer
  <2>3. pc' = "idle" /\ pc = "commit" /\ UNCHANGED <<docker, pending, stream>>
    BY <1>10 DEF CommitContainer, Release
  <2>4. \A d \in Routed' : d \in Routed \/ docker[d] = "running"
    BY <2>2, <2>3 DEF Routed
  <2> QED BY <2>3, <2>4, RemovalProceedFrame
<1> QED BY <1>2, <1>3, <1>4, <1>5, <1>6, <1>7, <1>8, <1>9, <1>10 DEF Proceed, Scan

LEMMA RemovalHandle == RemovalInv /\ Handle => NothingBeforeStart' /\ PendingRemoval'
<1> SUFFICES ASSUME RemovalInv, NEW e \in Event,
                    \/ HandleContainerStart(e) \/ HandleContainerDie(e) \/ HandleIgnored(e)
                    \/ HandleContainerLink(e) \/ HandleSelfConnect(e) \/ HandleSelfDisconnect(e)
                    \/ HandleSelfMissed(e) \/ HandleNetworkDestroy(e)
             PROVE  NothingBeforeStart' /\ PendingRemoval'
  BY DEF Handle
<1> USE DEF external, tables, nginx
<1>1. Acquire(e) /\ UNCHANGED <<docker, stream>> /\ pc' \in {"idle", "update", "list"}
  BY DEF HandleContainerStart, HandleContainerDie, HandleIgnored, HandleContainerLink,
         HandleSelfConnect, HandleSelfDisconnect, HandleSelfMissed, HandleNetworkDestroy,
         Update, Release
<1>2. NothingBeforeStart'
  BY <1>1 DEF RemovalInv, NothingBeforeStart, Acquire
<1>3. CASE HandleContainerDie(e)
  <2>1. IsTable(hosts, Key) /\ IsTable(conf, Hostname) /\ IsTable(served, Hostname)
    BY DEF RemovalInv, TypeOK
  <2>2. HostContainers(hosts') = HostContainers(hosts) \ {e.id}
    BY <1>3, <2>1, RemovalKeeps, ReloadKeeps DEF HandleContainerDie
  <2> QED BY <1>1, <1>2, <2>2, RemovalHandleFrame DEF RemovalInv
<1>4. CASE ~HandleContainerDie(e)
  <2>1. hosts' = hosts /\ e.act \notin DieActs
    BY <1>4 DEF HandleContainerStart, HandleIgnored, HandleContainerLink, HandleSelfConnect,
                HandleSelfDisconnect, HandleSelfMissed, HandleNetworkDestroy,
                StartActs, DieActs, LinkActs, IgnoredActs
  <2> QED BY <1>1, <1>2, <2>1, RemovalHandleFrame DEF RemovalInv
<1> QED BY <1>3, <1>4

LEMMA RemovalNext == RemovalInv /\ [Next]_vars => RemovalInv'
<1> SUFFICES ASSUME RemovalInv, [Next]_vars PROVE RemovalInv'
  OBVIOUS
<1>1. TypeOK'
  BY TypeNext DEF RemovalInv
<1>2. CASE EndStream
  BY <1>1, <1>2 DEF EndStream, RemovalInv, NothingBeforeStart, PendingRemoval, tables
<1>3. CASE UNCHANGED vars
  BY <1>1, <1>3 DEF vars, external, control, tables, RemovalInv, NothingBeforeStart,
                    PendingRemoval, Routed, Awaited
<1> QED BY <1>1, <1>2, <1>3, RemovalDocker, RemovalProceed, RemovalHandle
        DEF Next, Rest, RemovalInv

(* While the stream lasts, a container that no longer runs is in no host    *)
(* unless the event that takes it out is still on its way, in whatever      *)
(* order the handlers run and however Docker changes between two answers.   *)
THEOREM RemovalPending == Spec => []PendingRemoval
<1>1. RemovalInv => PendingRemoval
  BY DEF RemovalInv
<1> QED BY <1>1, RemovalInit, RemovalNext, PTL DEF Spec

-----------------------------------------------------------------------------
(* The same for networks: no container stays in a host when it has left the *)
(* last network it shares with the proxy, if Docker answers and reports     *)
(* disconnects.                                                             *)

DockerAnswers == ~DockerFaults /\ "disconnect" \in Reports

(* A container joins a fragment only from a network the proxy knows.        *)
LEMMA FragmentNeedsNetwork ==
    ASSUME NEW c \in Container, NEW nets, NEW known, nets \cap known = {}
    PROVE  ProcessVirtualHosts(c, nets, known) = Nothing
BY DEF ProcessVirtualHosts, Nothing

(* Docker moves only what is attached, and reports what it takes away.      *)
LEMMA DetachDockerFrame ==
    ASSUME RemovalInv, PendingDetach, UNCHANGED <<stream, pc, job, tables>>,
           \A e \in Event : pending[e] > 0 => pending'[e] > 0,
           \A c \in Container :
               \/ attached[c] \subseteq attached'[c]
               \/ stream \in {"since", "on"} => pending'[ContainerEvent("disconnect", c)] > 0
    PROVE  PendingDetach'
<1> USE DEF tables
<1>1. Routed' = Routed /\ Known' = Known
  BY DEF Routed, Known
<1>2. SUFFICES ASSUME stream # "dead", NEW c \in Routed
               PROVE  \/ attached'[c] \cap Known # {}
                      \/ Awaited(c, {"disconnect"})'
                      \/ pc = "list" \/ (pc = "update" /\ job.id = c)
  BY <1>1 DEF PendingDetach
<1>3. c \in Container /\ ContainerEvent("disconnect", c) \in Event
  BY <1>2, RoutedContainers, EventsOfContainers DEF RemovalInv, LinkActs
<1>4. stream \in {"since", "on"}
  <2>1. CASE stream = "none"
    BY <1>2, <2>1, EmptyTable DEF RemovalInv, NothingBeforeStart, Routed
  <2> QED BY <1>2, <2>1 DEF RemovalInv, TypeOK
<1>5. \/ attached[c] \cap Known # {}
      \/ Awaited(c, {"disconnect"})
      \/ pc = "list" \/ (pc = "update" /\ job.id = c)
  BY <1>2 DEF PendingDetach
<1>6. Awaited(c, {"disconnect"}) => Awaited(c, {"disconnect"})'
  BY <1>3 DEF Awaited, ContainerEvent
<1>7. pending'[ContainerEvent("disconnect", c)] > 0 => Awaited(c, {"disconnect"})'
  BY DEF Awaited, ContainerEvent
<1> QED BY <1>3, <1>4, <1>5, <1>6, <1>7

(* The lock holder may only enter a container it has just seen on a network *)
(* the proxy knows.                                                         *)
LEMMA DetachProceedFrame ==
    ASSUME PendingDetach, UNCHANGED <<attached, pending, stream, networks>>,
           pc # "list", \A c \in Routed' : pc = "update" => c # job.id \/ attached[c] \cap Known # {},
           \A c \in Routed' : c \in Routed \/ attached[c] \cap Known # {}
    PROVE  PendingDetach'
BY DEF PendingDetach, Awaited, Known

LEMMA DetachDocker == DockerAnswers /\ RemovalInv /\ PendingDetach /\ Docker => PendingDetach'
<1> SUFFICES ASSUME DockerAnswers, RemovalInv, PendingDetach, Docker
             PROVE  PendingDetach'
  OBVIOUS
<1> USE DEF tables
<1>1. /\ attached \in [Container \cup {Self} -> SUBSET Network] /\ pending \in [Event -> Nat]
  BY DEF RemovalInv, TypeOK
<1>2. ASSUME NEW c \in Container,
             DockerStart(c) \/ DockerKill(c) \/ DockerDie(c) \/ DockerPause(c)
      PROVE  PendingDetach'
  BY <1>1, <1>2, ReportKeeps, DetachDockerFrame
     DEF DockerStart, DockerKill, DockerDie, DockerPause
<1>3. ASSUME NEW c \in Container, DockerRemove(c)
      PROVE  PendingDetach'
  BY <1>1, <1>3, DetachDockerFrame DEF DockerRemove, control
<1>4. ASSUME NEW c \in Container, NEW n \in Network, DockerConnect(c, n)
      PROVE  PendingDetach'
  <2>1. \A d \in Container : attached[d] \subseteq attached'[d]
    BY <1>1, <1>4 DEF DockerConnect
  <2> QED BY <1>1, <1>4, <2>1, ReportKeeps, DetachDockerFrame DEF DockerConnect
<1>5. ASSUME NEW c \in Container, NEW n \in Network, DockerDisconnect(c, n)
      PROVE  PendingDetach'
  <2>1. \A d \in Container : d # c => attached[d] \subseteq attached'[d]
    BY <1>1, <1>5 DEF DockerDisconnect
  <2>2. stream \in {"since", "on"} => pending'[ContainerEvent("disconnect", c)] > 0
    BY <1>1, <1>5, ReportKeeps, EventsOfContainers DEF DockerDisconnect, DockerAnswers, LinkActs
  <2> QED BY <1>1, <1>5, <2>1, <2>2, ReportKeeps, DetachDockerFrame DEF DockerDisconnect
<1>6. ASSUME NEW n \in Network, SelfConnect(n) \/ SelfDisconnect(n)
      PROVE  PendingDetach'
  <2>1. \A d \in Container : attached[d] \subseteq attached'[d]
    BY <1>1, <1>6, SelfAssumption DEF SelfConnect, SelfDisconnect
  <2> QED BY <1>1, <1>6, <2>1, ReportKeeps, DetachDockerFrame DEF SelfConnect, SelfDisconnect
<1>7. ASSUME NEW n \in Network, NetworkDestroy(n)
      PROVE  PendingDetach'
  BY <1>1, <1>7, ReportKeeps, DetachDockerFrame DEF NetworkDestroy
<1> QED BY <1>2, <1>3, <1>4, <1>5, <1>6, <1>7 DEF Docker

LEMMA DetachProceed == DockerAnswers /\ RemovalInv /\ PendingDetach /\ Proceed => PendingDetach'
<1> SUFFICES ASSUME DockerAnswers, RemovalInv, PendingDetach, Proceed
             PROVE  PendingDetach'
  OBVIOUS
<1> USE DEF DockerAnswers, RemovalInv, NothingBeforeStart, external, tables
<1>1. /\ IsTable(hosts, Key) /\ IsTable(conf, Hostname) /\ IsTable(served, Hostname)
      /\ job \in Job /\ (pc \in {"update", "commit"} => job.id \in Container)
  BY DEF TypeOK
<1>2. CASE LearnYourself
  BY <1>2, EmptyTable DEF LearnYourself, Routed, PendingDetach
<1>3. CASE CaptureSince
  BY <1>3 DEF CaptureSince, PendingDetach
<1>4. CASE ListContainers
  BY <1>4, EmptyTable DEF ListContainers, Routed, PendingDetach
<1>5. CASE ScanNothing
  BY <1>5, DetachProceedFrame DEF ScanNothing, Routed
<1>6. ASSUME NEW c \in Container, ScanContainer(c)
      PROVE  PendingDetach'
  <2> DEFINE H == ProcessVirtualHosts(c, Addresses(c), Known)
  <2>1. HostContainers(H) \subseteq {c}
        /\ (attached[c] \cap Known = {} => HostContainers(H) = {})
    BY FragmentOfOne, FragmentNeedsNetwork, EmptyTable DEF Addresses
  <2>2. HostContainers(hosts') \subseteq HostContainers(hosts) \cup HostContainers(H)
    BY <1>1, <1>6, FragmentOfOne, AddHostsKeeps DEF ScanContainer
  <2>3. pc' \in {"reload", "scan"} /\ pc = "scan"
        /\ UNCHANGED <<attached, pending, stream, networks>>
    BY <1>6 DEF ScanContainer
  <2>4. \A d \in Routed' : d \in Routed \/ attached[d] \cap Known # {}
    BY <2>1, <2>2, <2>3 DEF Routed
  <2> QED BY <2>3, <2>4, DetachProceedFrame
<1>7. CASE FinishScan
  <2>1. HostContainers(hosts') = HostContainers(hosts)
    BY <1>1, <1>7, ReloadKeeps DEF FinishScan
  <2>2. stream' # "dead" => stream # "dead"
    BY <1>7 DEF FinishScan
  <2>3. Routed' \subseteq Routed /\ pc = "reload" /\ UNCHANGED <<attached, pending, networks>>
    BY <1>7, <2>1 DEF FinishScan, Routed
  <2> QED BY <2>2, <2>3 DEF PendingDetach, Awaited, Known
<1>8. CASE ReloadAgain
  <2>1. HostContainers(hosts') = HostContainers(hosts)
    BY <1>1, <1>8, ReloadKeeps DEF ReloadAgain
  <2> QED BY <1>8, <2>1, DetachProceedFrame DEF ReloadAgain, Release, Routed
<1>9. CASE UpdateContainer
  <2>1. HostContainers(hosts') = HostContainers(hosts) \ {job.id}
    BY <1>1, <1>9, RemovalKeeps DEF UpdateContainer
  <2>2. pc' = "commit" => job'.id = job.id /\ attached[job.id] \cap Known # {}
    <3>1. ASSUME attached[job.id] \cap Known = {}
          PROVE  ProcessVirtualHosts(job.id, Addresses(job.id), Known) = Nothing
      BY <1>1, <1>9, <3>1, FragmentNeedsNetwork DEF Addresses, UpdateContainer
    <3> QED BY <1>1, <1>9, <3>1 DEF UpdateContainer, Release, Job
  <2>3. pc' \in {"idle", "commit"} /\ pc = "update"
        /\ UNCHANGED <<attached, pending, stream, networks>>
    BY <1>9 DEF UpdateContainer, Release
  <2>4. \A d \in Routed' : \/ d \in Routed /\ d # job.id
                           \/ attached[d] \cap Known # {}
    BY <2>1, <2>2, <2>3 DEF Routed
  <2> QED BY <2>3, <2>4, DetachProceedFrame
<1>10. CASE CommitContainer
  <2> DEFINE H == ProcessVirtualHosts(job.id, job.nets, Known)
  <2>1. /\ IsTable(AddHosts(hosts, H), Key)
        /\ HostContainers(AddHosts(hosts, H)) \subseteq HostContainers(hosts) \cup {job.id}
    BY <1>1, <1>10, FragmentOfOne, AddHostsKeeps DEF CommitContainer
  <2>2. HostContainers(hosts') \subseteq HostContainers(hosts) \cup {job.id}
    BY <1>1, <1>10, <2>1, ReloadKeeps DEF CommitContainer
  <2>3. pc' = "idle" /\ pc = "commit" /\ UNCHANGED <<attached, pending, stream, networks>>
    BY <1>10 DEF CommitContainer, Release
  <2>4. \A d \in Routed' : d \in Routed
    BY <2>2, <2>3 DEF Routed
  <2> QED BY <2>3, <2>4, DetachProceedFrame
<1> QED BY <1>2, <1>3, <1>4, <1>5, <1>6, <1>7, <1>8, <1>9, <1>10 DEF Proceed, Scan

(* An event used up either leaves the tables alone, or is followed by an    *)
(* update of its container or by a rescan.                                  *)
LEMMA DetachHandle == RemovalInv /\ PendingDetach /\ Handle => PendingDetach'
<1> SUFFICES ASSUME RemovalInv, PendingDetach, NEW e \in Event,
                    \/ HandleContainerStart(e) \/ HandleContainerDie(e) \/ HandleIgnored(e)
                    \/ HandleContainerLink(e) \/ HandleSelfConnect(e) \/ HandleSelfDisconnect(e)
                    \/ HandleSelfMissed(e) \/ HandleNetworkDestroy(e)
             PROVE  PendingDetach'
  BY DEF Handle
<1> USE DEF external, tables, nginx
<1>1. Acquire(e) /\ UNCHANGED <<attached, stream>> /\ pc' \in {"idle", "update", "list"}
  BY DEF HandleContainerStart, HandleContainerDie, HandleIgnored, HandleContainerLink,
         HandleSelfConnect, HandleSelfDisconnect, HandleSelfMissed, HandleNetworkDestroy,
         Update, Release
<1>2. HostContainers(hosts') \subseteq HostContainers(hosts)
  <2>1. CASE HandleContainerDie(e)
    <3>1. IsTable(hosts, Key) /\ IsTable(conf, Hostname) /\ IsTable(served, Hostname)
      BY DEF RemovalInv, TypeOK
    <3> QED BY <2>1, <3>1, RemovalKeeps, ReloadKeeps DEF HandleContainerDie
  <2>2. CASE ~HandleContainerDie(e)
    BY <2>2 DEF HandleContainerStart, HandleIgnored, HandleContainerLink, HandleSelfConnect,
                HandleSelfDisconnect, HandleSelfMissed, HandleNetworkDestroy
  <2> QED BY <2>1, <2>2
<1>3. pc' = "list" \/ Known \subseteq Known'
  BY DEF HandleContainerStart, HandleContainerDie, HandleIgnored, HandleContainerLink,
         HandleSelfConnect, HandleSelfDisconnect, HandleSelfMissed, HandleNetworkDestroy, Known
<1>4. SUFFICES ASSUME stream # "dead", NEW c \in Routed', pc' # "list"
               PROVE  \/ attached'[c] \cap Known' # {}
                      \/ Awaited(c, {"disconnect"})'
                      \/ pc' = "update" /\ job'.id = c
  BY <1>1 DEF PendingDetach
<1>5. c \in Routed /\ c \in Container
  BY <1>1, <1>2, <1>4, RoutedContainers DEF Routed, RemovalInv
<1>6. attached[c] \cap Known # {} \/ pending[ContainerEvent("disconnect", c)] > 0
  BY <1>1, <1>4, <1>5 DEF PendingDetach, Awaited, Acquire
<1>7. CASE attached[c] \cap Known # {}
  BY <1>1, <1>3, <1>4, <1>7
<1>8. CASE e # ContainerEvent("disconnect", c) /\ pending[ContainerEvent("disconnect", c)] > 0
  <2>1. ContainerEvent("disconnect", c) \in Event
    BY <1>5, EventsOfContainers DEF LinkActs
  <2>2. pending'[ContainerEvent("disconnect", c)] > 0
    BY <1>1, <1>8, <2>1, AcquireKeeps DEF RemovalInv, TypeOK
  <2> QED BY <2>2 DEF Awaited, ContainerEvent
<1>9. CASE e = ContainerEvent("disconnect", c)
  <2>1. e.act = "disconnect" /\ e.id = c /\ c # Self
    BY <1>5, <1>9, SelfAssumption DEF ContainerEvent
  <2>2. HandleContainerLink(e)
    BY <2>1 DEF HandleContainerStart, HandleContainerDie, HandleIgnored, HandleSelfConnect,
                HandleSelfDisconnect, HandleSelfMissed, HandleNetworkDestroy,
                StartActs, DieActs, IgnoredActs
  <2>3. pc' = "update" /\ job'.id = c
    BY <2>1, <2>2 DEF HandleContainerLink, Update, NoJob
  <2> QED BY <2>3
<1> QED BY <1>6, <1>7, <1>8, <1>9

(* While the stream lasts, a container in a host is on a network the proxy  *)
(* knows, or the event or step that takes it out is still to come, whenever *)
(* Docker answers every request and reports disconnects.                    *)
THEOREM DetachPending ==
    ASSUME DockerAnswers
    PROVE  Spec => []PendingDetach
<1>1. Init => RemovalInv /\ PendingDetach
  <2> SUFFICES ASSUME Init PROVE RemovalInv /\ PendingDetach
    OBVIOUS
  <2>1. Routed = {}
    BY EmptyTable DEF Init, Routed
  <2> QED BY <2>1, RemovalInit DEF PendingDetach
<1>2. RemovalInv /\ PendingDetach /\ [Next]_vars => (RemovalInv /\ PendingDetach)'
  <2> SUFFICES ASSUME RemovalInv, PendingDetach, [Next]_vars PROVE PendingDetach'
    BY RemovalNext
  <2>1. CASE EndStream
    BY <2>1 DEF EndStream, PendingDetach
  <2>2. CASE Rest \/ UNCHANGED vars
    BY <2>2 DEF Rest, vars, external, control, tables, PendingDetach, Routed, Awaited, Known
  <2> QED BY <2>1, <2>2, DetachDocker, DetachProceed, DetachHandle DEF Next
<1> QED BY <1>1, <1>2, PTL DEF Spec

-----------------------------------------------------------------------------
(* Registration.  A container that shares a network with the proxy and asks *)
(* for hosts gets into the table, as long as Docker answers and reports     *)
(* connects, no container dies or is signalled, and the proxy stays on its  *)
(* networks.  Without the last two it fails: a die that is handled after    *)
(* the start that followed it takes a running container out for good (run   *)
(* Reordered).  Containers may start, be paused, removed, join and leave    *)
(* networks, and networks may be removed, in any number and at any time.    *)

NobodyDies ==
    /\ ~DockerFaults /\ "connect" \in Reports
    /\ Ops \cap {"die", "kill", "self"} = {}
    /\ \A e \in Replayed : e.act \notin DieActs /\ e.id # Self
    /\ \A c \in Container : Entries[c] # {} => \E e \in Entries[c] : ~e.static

Wanted(c) ==
    docker[c] = "running" /\ Entries[c] # {} /\ attached[c] \cap attached[Self] # {}

(* Somebody will still look at container c.                                 *)
OnItsWay(c) ==
    \/ pc \in {"new", "learned", "list", "exit"}
    \/ pc = "scan" /\ c \in job.todo
    \/ pc \in {"update", "commit"} /\ job.id = c
    \/ Awaited(c, StartActs \cup LinkActs)

Registering ==
    stream # "dead" =>
        \A c \in Container : Wanted(c) => c \in HostContainers(hosts) \/ OnItsWay(c)

(* No event takes a container out, and the proxy knows its own networks.    *)
Harmless(e) ==
    /\ e.act \notin DieActs
    /\ e.id = Self => e.act = "destroy" /\ e.net \notin attached[Self]

KnowsItself ==
    /\ \A e \in Event : pending[e] > 0 => Harmless(e)
    /\ pc # "new" => attached[Self] \subseteq Known
    /\ pc = "commit" => job.nets \cap Known # {} /\ Entries[job.id] # {}

ArrivalInv == RemovalInv /\ KnowsItself /\ Registering

(* A container on a network the proxy knows that asks for hosts has some.   *)
LEMMA FragmentServes ==
    ASSUME NEW c \in Container, NEW nets, NEW known, nets \cap known # {}, Entries[c] # {}
    PROVE  HostContainers(ProcessVirtualHosts(c, nets, known)) = {c}
<1> DEFINE at(k) == {e \in Entries[c] : EntryKey(e) = k}
           locs(k) == [p \in {e.path : e \in at(k)} |-> NewLocation(c)]
           H == ProcessVirtualHosts(c, nets, known)
<1>1. H = [k \in {EntryKey(e) : e \in Entries[c]} |->
              [host |-> k[1], port |-> k[2], ssl |-> \E e \in at(k) : Secured(e),
               redir |-> FALSE, locs |-> locs(k), ups |-> Nothing]]
  BY DEF ProcessVirtualHosts
<1>2. PICK e \in Entries[c] : TRUE
  OBVIOUS
<1>3. /\ EntryKey(e) \in DOMAIN H
      /\ H[EntryKey(e)].locs = locs(EntryKey(e))
  BY <1>1
<1>4. /\ e.path \in DOMAIN locs(EntryKey(e))
      /\ c \in locs(EntryKey(e))[e.path].cts
  BY DEF NewLocation
<1>5. Serves(H[EntryKey(e)], c)
  <2> HIDE DEF H, locs
  <2> QED BY <1>3, <1>4 DEF Serves
<1>6. c \in HostContainers(H)
  <2> HIDE DEF H
  <2> QED BY <1>3, <1>5, ContainersServed
<1> QED BY <1>6, FragmentOfOne

LEMMA ArrivalInit == Init => ArrivalInv
BY RemovalInit DEF Init, ArrivalInv, KnowsItself, Registering, OnItsWay

(* Docker: whatever makes a container wanted reports an event that makes a  *)
(* handler look at it.                                                      *)
LEMMA ArrivalDockerFrame ==
    ASSUME ArrivalInv, UNCHANGED <<stream, pc, job, tables>>,
           attached'[Self] = attached[Self],
           \A e \in Event : pending[e] > 0 => pending'[e] > 0,
           \A e \in Event : pending'[e] > 0 => pending[e] > 0 \/ Harmless(e),
           \A c \in Container :
               \/ Wanted(c)' => Wanted(c)
               \/ stream \in {"since", "on"} => pending'[ContainerEvent("connect", c)] > 0
    PROVE  KnowsItself' /\ Registering'
<1> USE DEF tables
<1>1. KnowsItself'
  BY DEF ArrivalInv, KnowsItself, Harmless, Known
<1>2. SUFFICES ASSUME stream # "dead", NEW c \in Container, Wanted(c)'
               PROVE  c \in HostContainers(hosts) \/ OnItsWay(c)'
  BY <1>1 DEF Registering
<1>3. ASSUME NEW a \in StartActs \cup LinkActs, pending[ContainerEvent(a, c)] > 0
      PROVE  OnItsWay(c)'
  <2>1. pending'[ContainerEvent(a, c)] > 0
    BY <1>3, EventsOfContainers
  <2> QED BY <2>1 DEF OnItsWay, Awaited, ContainerEvent
<1>4. CASE Wanted(c)
  BY <1>2, <1>3, <1>4 DEF ArrivalInv, Registering, OnItsWay, Awaited
<1>5. CASE ~Wanted(c)
  <2>1. CASE stream = "none"
    BY <2>1 DEF ArrivalInv, RemovalInv, NothingBeforeStart, OnItsWay
  <2>2. CASE stream # "none"
    <3>1. pending'[ContainerEvent("connect", c)] > 0
      BY <1>2, <1>5, <2>2 DEF ArrivalInv, RemovalInv, TypeOK
    <3> QED BY <3>1 DEF OnItsWay, Awaited, ContainerEvent, LinkActs
  <2> QED BY <2>1, <2>2
<1> QED BY <1>4, <1>5

(* A report adds events about its container only, of the kinds it names.    *)
LEMMA ReportAdds ==
    ASSUME NEW E, Report(E), pending \in [Event -> Nat]
    PROVE  \A e \in Event : pending'[e] > 0 => pending[e] > 0 \/ e \in E
<1>1. CASE stream \in {"since", "on"}
  <2>1. pending' = [e \in Event |->
                       IF e \in E /\ e.act \in Reports THEN pending[e] + 1 ELSE pending[e]]
    BY <1>1 DEF Report
  <2> QED BY <2>1
<1>2. CASE stream \notin {"since", "on"}
  BY <1>2 DEF Report
<1> QED BY <1>1, <1>2

LEMMA ArrivalDocker ==
    NobodyDies /\ ArrivalInv /\ Docker => KnowsItself' /\ Registering'
<1> SUFFICES ASSUME NobodyDies, ArrivalInv, Docker
             PROVE  KnowsItself' /\ Registering'
  OBVIOUS
<1> USE DEF tables
<1>1. /\ docker \in [Container -> Statuses] /\ pending \in [Event -> Nat]
      /\ attached \in [Container \cup {Self} -> SUBSET Network]
  BY DEF ArrivalInv, RemovalInv, TypeOK
<1>2. \A a : \A c \in Container : a \notin DieActs => Harmless(ContainerEvent(a, c))
  BY SelfAssumption, EventsOfContainers DEF Harmless
<1>3. ASSUME NEW c \in Container, DockerStart(c)
      PROVE  KnowsItself' /\ Registering'
  <2>1. PICK restarted \in SUBSET {"restart"} :
            Report({ContainerEvent(a, c) : a \in {"start", "connect"} \cup restarted})
    BY <1>3 DEF DockerStart
  <2> DEFINE E == {ContainerEvent(a, c) : a \in {"start", "connect"} \cup restarted}
  <2>2. \A e \in E : Harmless(e)
    BY <1>2 DEF DieActs
  <2>3. ContainerEvent("connect", c) \in E /\ ContainerEvent("connect", c) \in Event
        /\ ContainerEvent("connect", c).act = "connect"
    BY EventsOfContainers DEF LinkActs
  <2>4. \A d \in Container : d # c => (Wanted(d)' => Wanted(d))
    BY <1>1, <1>3 DEF DockerStart, Wanted
  <2>5. stream \in {"since", "on"} => pending'[ContainerEvent("connect", c)] > 0
    BY <1>1, <2>1, <2>3, ReportKeeps DEF NobodyDies
  <2>6. /\ \A e \in Event : pending[e] > 0 => pending'[e] > 0
        /\ \A e \in Event : pending'[e] > 0 => pending[e] > 0 \/ Harmless(e)
    BY <1>1, <2>1, <2>2, ReportKeeps, ReportAdds
  <2> QED BY <1>3, <2>4, <2>5, <2>6, ArrivalDockerFrame DEF DockerStart
<1>4. ASSUME NEW c \in Container, DockerRemove(c)
      PROVE  KnowsItself' /\ Registering'
  <2>1. \A d \in Container : Wanted(d)' => Wanted(d)
    BY <1>1, <1>4 DEF DockerRemove, Wanted
  <2> QED BY <1>1, <1>4, <2>1, ArrivalDockerFrame DEF DockerRemove, control
<1>5. ASSUME NEW c \in Container, DockerPause(c)
      PROVE  KnowsItself' /\ Registering'
  <2> DEFINE E == {ContainerEvent(a, c) : a \in {"pause", "unpause"}}
  <2>1. \A e \in E : Harmless(e)
    BY <1>2 DEF DieActs
  <2>2. \A d \in Container : Wanted(d)' => Wanted(d)
    BY <1>5 DEF DockerPause, Wanted
  <2> QED BY <1>1, <1>5, <2>1, <2>2, ReportKeeps, ReportAdds, ArrivalDockerFrame DEF DockerPause
<1>6. ASSUME NEW c \in Container, NEW n \in Network, DockerConnect(c, n)
      PROVE  KnowsItself' /\ Registering'
  <2>1. \A e \in {ContainerEvent("connect", c)} : Harmless(e)
    BY <1>2 DEF DieActs
  <2>2. attached'[Self] = attached[Self] /\ \A d \in Container : d # c => (Wanted(d)' => Wanted(d))
    BY <1>1, <1>6, SelfAssumption DEF DockerConnect, Wanted
  <2>3. stream \in {"since", "on"} => pending'[ContainerEvent("connect", c)] > 0
    BY <1>1, <1>6, ReportKeeps, EventsOfContainers DEF DockerConnect, NobodyDies, LinkActs
  <2> QED BY <1>1, <1>6, <2>1, <2>2, <2>3, ReportKeeps, ReportAdds, ArrivalDockerFrame
          DEF DockerConnect
<1>7. ASSUME NEW c \in Container, NEW n \in Network, DockerDisconnect(c, n)
      PROVE  KnowsItself' /\ Registering'
  <2>1. \A e \in {ContainerEvent("disconnect", c)} : Harmless(e)
    BY <1>2 DEF DieActs
  <2>2. attached'[Self] = attached[Self] /\ \A d \in Container : Wanted(d)' => Wanted(d)
    BY <1>1, <1>7, SelfAssumption DEF DockerDisconnect, Wanted
  <2> QED BY <1>1, <1>7, <2>1, <2>2, ReportKeeps, ReportAdds, ArrivalDockerFrame
          DEF DockerDisconnect
<1>8. ASSUME NEW n \in Network, NetworkDestroy(n)
      PROVE  KnowsItself' /\ Registering'
  <2>1. Harmless(NetworkEvent("destroy", n))
    BY <1>8 DEF NetworkDestroy, Harmless, NetworkEvent, DieActs
  <2>2. \A d \in Container : Wanted(d)' => Wanted(d)
    BY <1>8 DEF NetworkDestroy, Wanted
  <2> QED BY <1>1, <1>8, <2>1, <2>2, ReportKeeps, ReportAdds, ArrivalDockerFrame
          DEF NetworkDestroy
<1>9. (\A c \in Container : ~DockerDie(c) /\ ~DockerKill(c))
      /\ \A n \in Network : ~SelfConnect(n) /\ ~SelfDisconnect(n)
  BY DEF NobodyDies, DockerDie, DockerKill, SelfConnect, SelfDisconnect, Change
<1> QED BY <1>3, <1>4, <1>5, <1>6, <1>7, <1>8, <1>9 DEF Docker

(* The lock holder drops a container only to look at it next, and then      *)
(* enters it.                                                               *)
LEMMA ArrivalProceedFrame ==
    ASSUME ArrivalInv, UNCHANGED <<docker, attached, pending>>,
           stream' # "dead" => stream # "dead",
           \A c \in Container :
               /\ Wanted(c) /\ stream # "dead"
               /\ c \in HostContainers(hosts) \/ OnItsWay(c)
               /\ ~Awaited(c, StartActs \cup LinkActs)
               => c \in HostContainers(hosts') \/ OnItsWay(c)'
    PROVE  Registering'
<1> SUFFICES ASSUME stream' # "dead", NEW c \in Container, Wanted(c)'
             PROVE  c \in HostContainers(hosts') \/ OnItsWay(c)'
  BY DEF Registering
<1>1. Wanted(c) /\ stream # "dead"
  BY DEF Wanted
<1>2. Awaited(c, StartActs \cup LinkActs) => OnItsWay(c)'
  BY DEF OnItsWay, Awaited
<1> QED BY <1>1, <1>2 DEF ArrivalInv, Registering

(* A wanted container's inspection yields a fragment that serves it.        *)
LEMMA WantedServes ==
    ASSUME ArrivalInv, NEW c \in Container, Wanted(c), pc # "new"
    PROVE  /\ Addresses(c) \cap Known # {}
           /\ HostContainers(ProcessVirtualHosts(c, Addresses(c), Known)) = {c}
<1>1. Addresses(c) \cap Known # {} /\ Entries[c] # {}
  BY DEF Wanted, Addresses, ArrivalInv, KnowsItself
<1> QED BY <1>1, FragmentServes

LEMMA ArrivalProceed ==
    NobodyDies /\ ArrivalInv /\ Proceed => KnowsItself' /\ Registering'
<1> SUFFICES ASSUME NobodyDies, ArrivalInv, Proceed
             PROVE  KnowsItself' /\ Registering'
  OBVIOUS
<1> USE DEF external, tables, nginx
<1>1. /\ IsTable(hosts, Key) /\ IsTable(conf, Hostname) /\ IsTable(served, Hostname)
      /\ job \in Job /\ (pc \in {"update", "commit"} => job.id \in Container)
      /\ \A J \in Job : J.nets \subseteq Network /\ J.todo \subseteq Container
  BY DEF ArrivalInv, RemovalInv, TypeOK, Job
<1>2. /\ \A e \in Event : pending[e] > 0 => Harmless(e)
      /\ pc # "new" => attached[Self] \subseteq Known
      /\ pc = "commit" => job.nets \cap Known # {} /\ Entries[job.id] # {}
  BY DEF ArrivalInv, KnowsItself
<1>3. CASE LearnYourself
  <2>1. networks' = Learned(attached[Self]) /\ pc' = "learned" /\ UNCHANGED <<attached, pending>>
    BY <1>3 DEF LearnYourself, NobodyDies
  <2>2. attached[Self] \subseteq Known'
    BY <2>1 DEF ArrivalInv, RemovalInv, TypeOK, Known, Learned
  <2> QED BY <1>2, <2>1, <2>2 DEF KnowsItself, Harmless, Registering, OnItsWay
<1>4. CASE CaptureSince
  <2>1. PICK R \in SUBSET Replayed : pending' = [e \in Event |-> IF e \in R THEN 1 ELSE 0]
    BY <1>4 DEF CaptureSince
  <2>2. \A e \in Event : pending'[e] > 0 => Harmless(e)
    BY <2>1 DEF NobodyDies, Harmless
  <2> QED BY <1>2, <1>4, <2>2
          DEF CaptureSince, KnowsItself, Harmless, Known, Registering, OnItsWay
<1>5. CASE ListContainers
  <2>1. pc = "list" /\ pc' = "scan" /\ job'.todo = {c \in Container : docker[c] = "running"}
        /\ UNCHANGED <<docker, attached, pending, stream, networks>>
    BY <1>5 DEF ListContainers, NobodyDies, NoJob
  <2>2. KnowsItself'
    BY <1>2, <2>1 DEF KnowsItself, Harmless, Known
  <2> QED BY <2>1, <2>2 DEF Registering, Wanted, OnItsWay
<1>6. CASE ScanNothing
  <2>1. pc = "scan" /\ pc' = "reload" /\ job.todo = {}
        /\ UNCHANGED <<docker, attached, pending, stream, networks, hosts>>
    BY <1>6 DEF ScanNothing
  <2>2. KnowsItself'
    BY <1>2, <2>1 DEF KnowsItself, Harmless, Known
  <2> QED BY <2>1, <2>2, ArrivalProceedFrame DEF OnItsWay
<1>7. ASSUME NEW c \in Container, ScanContainer(c)
      PROVE  KnowsItself' /\ Registering'
  <2> DEFINE H == ProcessVirtualHosts(c, Addresses(c), Known)
  <2>1. /\ pc = "scan" /\ c \in job.todo /\ pc' \in {"reload", "scan"}
        /\ job' = [job EXCEPT !.todo = @ \ {c}]
        /\ pc' = IF job.todo = {c} THEN "reload" ELSE "scan"
        /\ UNCHANGED <<docker, attached, pending, stream, networks>>
    BY <1>7 DEF ScanContainer
  <2>2. KnowsItself'
    BY <1>2, <2>1 DEF KnowsItself, Harmless, Known
  <2>3. IsTable(H, Key)
    BY FragmentOfOne
  <2>4. HostContainers(AddHosts(hosts, H)) = HostContainers(hosts) \cup HostContainers(H)
    BY <1>1, <2>3, AddHostsKeeps
  <2>5. HostContainers(hosts) \subseteq HostContainers(hosts')
    BY <1>7, <2>4 DEF ScanContainer
  <2>6. ASSUME Wanted(c) PROVE c \in HostContainers(hosts')
    <3>1. docker[c] # "absent" /\ \E e \in Entries[c] : ~e.static
      BY <2>6 DEF Wanted, NobodyDies
    <3>2. hosts' = AddHosts(hosts, H)
      BY <1>7, <3>1 DEF ScanContainer, NobodyDies
    <3>3. HostContainers(H) = {c}
      BY <2>1, <2>6, WantedServes
    <3> QED BY <2>4, <3>2, <3>3
  <2>7. job'.todo = job.todo \ {c}
    BY <1>1, <2>1 DEF Job
  <2>8. ASSUME NEW d \in Container, d # c, OnItsWay(d), ~Awaited(d, StartActs \cup LinkActs)
        PROVE  OnItsWay(d)'
    BY <2>1, <2>7, <2>8 DEF OnItsWay
  <2> QED BY <2>1, <2>2, <2>5, <2>6, <2>8, ArrivalProceedFrame
<1>8. CASE FinishScan
  <2>1. /\ HostContainers(hosts') = HostContainers(hosts) /\ pc = "reload" /\ pc' # "commit"
        /\ stream' # "dead" => stream # "dead"
        /\ UNCHANGED <<docker, attached, pending, networks>>
    BY <1>1, <1>8, ReloadKeeps DEF FinishScan
  <2>2. KnowsItself'
    BY <1>2, <2>1 DEF KnowsItself, Harmless, Known
  <2> QED BY <2>1, <2>2, ArrivalProceedFrame DEF OnItsWay
<1>9. CASE ReloadAgain
  <2>1. /\ HostContainers(hosts') = HostContainers(hosts) /\ pc = "again" /\ pc' = "idle"
        /\ UNCHANGED <<docker, attached, pending, stream, networks>>
    BY <1>1, <1>9, ReloadKeeps DEF ReloadAgain, Release
  <2>2. KnowsItself'
    BY <1>2, <2>1 DEF KnowsItself, Harmless, Known
  <2> QED BY <2>1, <2>2, ArrivalProceedFrame DEF OnItsWay
<1>10. CASE UpdateContainer
  <2> DEFINE H == ProcessVirtualHosts(job.id, Addresses(job.id), Known)
  <2>1. /\ pc = "update" /\ pc' \in {"idle", "commit"}
        /\ UNCHANGED <<docker, attached, pending, stream, networks>>
    BY <1>10 DEF UpdateContainer, Release
  <2>2. HostContainers(hosts') = HostContainers(hosts) \ {job.id}
    BY <1>1, <1>10, RemovalKeeps DEF UpdateContainer
  <2>3. pc' = "commit" => H # Nothing /\ job'.id = job.id /\ job'.nets = Addresses(job.id)
    BY <1>1, <1>10 DEF UpdateContainer, Release, Job
  <2>4. H # Nothing => Addresses(job.id) \cap Known # {} /\ Entries[job.id] # {}
    BY DEF ProcessVirtualHosts, Nothing
  <2>5. KnowsItself'
    BY <1>2, <2>1, <2>3, <2>4 DEF KnowsItself, Harmless, Known
  <2>6. ASSUME Wanted(job.id) PROVE pc' = "commit" /\ job'.id = job.id
    <3>1. docker[job.id] # "absent"
      BY <2>6 DEF Wanted
    <3>2. HostContainers(H) = {job.id}
      BY <1>1, <2>1, <2>6, WantedServes
    <3>3. H # Nothing
      BY <3>2, EmptyTable
    <3> QED BY <1>10, <2>3, <3>1, <3>3 DEF UpdateContainer, NobodyDies
  <2> QED BY <2>1, <2>2, <2>5, <2>6, ArrivalProceedFrame DEF OnItsWay
<1>11. CASE CommitContainer
  <2> DEFINE H == ProcessVirtualHosts(job.id, job.nets, Known)
  <2>1. pc = "commit" /\ pc' = "idle"
        /\ UNCHANGED <<docker, attached, pending, stream, networks>>
    BY <1>11 DEF CommitContainer, Release
  <2>2. IsTable(H, Key) /\ HostContainers(H) = {job.id}
    BY <1>1, <1>2, <2>1, FragmentOfOne, FragmentServes
  <2>3. HostContainers(hosts') = HostContainers(hosts) \cup {job.id}
    BY <1>1, <1>11, <2>2, AddHostsKeeps, ReloadKeeps DEF CommitContainer
  <2>4. KnowsItself'
    BY <1>2, <2>1 DEF KnowsItself, Harmless, Known
  <2> QED BY <2>1, <2>3, <2>4, ArrivalProceedFrame DEF OnItsWay
<1> QED BY <1>3, <1>4, <1>5, <1>6, <1>7, <1>8, <1>9, <1>10, <1>11 DEF Proceed, Scan

(* An event used up makes its handler look at its container, or nobody      *)
(* wanted it.                                                               *)
LEMMA ArrivalHandle ==
    NobodyDies /\ ArrivalInv /\ Handle => KnowsItself' /\ Registering'
<1> SUFFICES ASSUME NobodyDies, ArrivalInv, NEW e \in Event,
                    \/ HandleContainerStart(e) \/ HandleContainerDie(e) \/ HandleIgnored(e)
                    \/ HandleContainerLink(e) \/ HandleSelfConnect(e) \/ HandleSelfDisconnect(e)
                    \/ HandleSelfMissed(e) \/ HandleNetworkDestroy(e)
             PROVE  KnowsItself' /\ Registering'
  BY DEF Handle
<1> USE DEF external, tables, nginx
<1>1. /\ Acquire(e) /\ UNCHANGED <<docker, attached, stream>> /\ pc = "idle"
      /\ pc' \in {"idle", "update", "list"} /\ pending \in [Event -> Nat]
      /\ attached \in [Container \cup {Self} -> SUBSET Network]
  BY DEF HandleContainerStart, HandleContainerDie, HandleIgnored, HandleContainerLink,
         HandleSelfConnect, HandleSelfDisconnect, HandleSelfMissed, HandleNetworkDestroy,
         Update, Release, Acquire, ArrivalInv, RemovalInv, TypeOK
<1>2. /\ pending' \in [Event -> Nat]
      /\ \A d \in Event : pending'[d] > 0 => pending[d] > 0
      /\ \A d \in Event : d # e => pending'[d] = pending[d]
  BY <1>1, AcquireKeeps DEF Acquire
<1>3. Harmless(e) /\ attached[Self] \subseteq Known
  BY <1>1 DEF ArrivalInv, KnowsItself, Acquire
<1>4. \/ HandleContainerStart(e) \/ HandleIgnored(e)
      \/ HandleContainerLink(e) \/ HandleNetworkDestroy(e)
  BY <1>3 DEF Harmless, HandleContainerDie, HandleSelfConnect, HandleSelfDisconnect,
              HandleSelfMissed, LinkActs
<1>5. hosts' = hosts
  BY <1>4 DEF HandleContainerStart, HandleIgnored, HandleContainerLink, HandleNetworkDestroy
<1>6. attached[Self] \subseteq Known'
  <2>1. CASE HandleNetworkDestroy(e) /\ e.net \in DOMAIN networks
    <3>1. e.net \in Network /\ e.net \notin attached[Self]
      <4>1. e.id = Self
        BY <2>1 DEF HandleNetworkDestroy, Event, ContainerEvent, NetworkEvent,
                    StartActs, DieActs, LinkActs, IgnoredActs
      <4> QED BY <1>3, <4>1, EventSubjects DEF Harmless
    <3>2. networks[e.net] \notin Network
      BY <2>1, <3>1, NameAssumption, NetworkAssumption DEF ArrivalInv, RemovalInv, TypeOK, Known
    <3>3. networks' = Without(networks, {e.net, networks[e.net]})
      BY <2>1 DEF HandleNetworkDestroy
    <3> QED BY <1>3, <3>1, <3>2, <3>3 DEF Known, Without
  <2>2. CASE ~(HandleNetworkDestroy(e) /\ e.net \in DOMAIN networks)
    BY <1>3, <1>4, <2>2 DEF HandleContainerStart, HandleIgnored, HandleContainerLink,
                            HandleNetworkDestroy, Known
  <2> QED BY <2>1, <2>2
<1>7. KnowsItself'
  BY <1>1, <1>2, <1>6 DEF ArrivalInv, KnowsItself, Harmless
<1>8. SUFFICES ASSUME stream # "dead", NEW c \in Container, Wanted(c), pc' # "list"
               PROVE  c \in HostContainers(hosts) \/ OnItsWay(c)'
  BY <1>1, <1>5, <1>7 DEF Registering, OnItsWay, Wanted
<1>9. ASSUME NEW a \in StartActs \cup LinkActs, pending[ContainerEvent(a, c)] > 0
      PROVE  OnItsWay(c)'
  <2>1. ContainerEvent(a, c) \in Event
    BY EventsOfContainers
  <2>2. CASE ContainerEvent(a, c) # e
    <3>1. pending'[ContainerEvent(a, c)] > 0
      BY <1>2, <1>9, <2>1, <2>2
    <3> QED BY <3>1 DEF OnItsWay, Awaited, ContainerEvent
  <2>3. CASE ContainerEvent(a, c) = e
    <3>1. e.id = c /\ e.act \in StartActs \cup LinkActs /\ docker[c] # "absent"
      BY <1>8, <2>3, EventsOfContainers DEF Wanted
    <3>2. Update(c)
      BY <1>4, <3>1 DEF HandleContainerStart, HandleIgnored, HandleContainerLink,
             HandleNetworkDestroy, NobodyDies, StartActs, LinkActs, IgnoredActs
    <3> QED BY <3>2 DEF Update, NoJob, OnItsWay
  <2> QED BY <2>2, <2>3
<1>10. c \in HostContainers(hosts) \/ OnItsWay(c)
  BY <1>8 DEF ArrivalInv, Registering
<1> QED BY <1>1, <1>9, <1>10 DEF OnItsWay, Awaited

(* When the proxy is at rest, every running container that shares a network *)
(* with it and asks for hosts is in the table, however starts, joins,       *)
(* network removals, rescans and failed reloads interleave, and whatever    *)
(* was replayed at start-up, as long as nothing dies.                       *)
THEOREM QuietlyRegistered ==
    ASSUME NobodyDies
    PROVE  Spec => []QuietRegistered
<1>1. ArrivalInv /\ [Next]_vars => ArrivalInv'
  <2> SUFFICES ASSUME ArrivalInv, [Next]_vars PROVE ArrivalInv'
    OBVIOUS
  <2>1. RemovalInv'
    BY RemovalNext DEF ArrivalInv
  <2>2. CASE EndStream
    BY <2>1, <2>2 DEF EndStream, ArrivalInv, KnowsItself, Registering, Harmless, Known,
                      external, tables
  <2>3. CASE Rest \/ UNCHANGED vars
    BY <2>1, <2>3 DEF Rest, vars, external, control, tables, ArrivalInv, KnowsItself,
           Registering, Harmless, Known, Wanted, OnItsWay, Awaited
  <2> QED BY <2>1, <2>2, <2>3, ArrivalDocker, ArrivalProceed, ArrivalHandle
          DEF Next, ArrivalInv
<1>2. ArrivalInv => QuietRegistered
  <2> SUFFICES ASSUME ArrivalInv, Quiet, stream = "on", NEW c \in Container, Wanted(c)
               PROVE  c \in HostContainers(hosts)
    BY DEF QuietRegistered, Wanted
  <2>1. \A a \in StartActs \cup LinkActs : ContainerEvent(a, c) \in Event
    BY EventsOfContainers
  <2>2. ~OnItsWay(c)
    BY <2>1 DEF Quiet, OnItsWay, Awaited
  <2> QED BY <2>2 DEF ArrivalInv, Registering
<1> QED BY <1>1, <1>2, ArrivalInit, PTL DEF Spec

=============================================================================
