------------------------------ MODULE WebServer ------------------------------
(***************************************************************************)
(* The proxy process: start-up, the Docker event stream, the event handlers *)
(* that keep WebServer.hosts up to date, and the reloads of nginx.          *)
(*                                                                          *)
(* Every event is handled by a goroutine of its own, so events in flight    *)
(* are a bag: they reach ws.mu in any order.  A handler holds ws.mu from    *)
(* its first to its last statement; pc tells where the holder is, "idle"    *)
(* that nobody holds the lock.  A handler is cut into steps where it asks   *)
(* Docker something, because Docker moves on between two answers.           *)
(***************************************************************************)
EXTENDS HostTable

CONSTANTS
    Network,         \* IDs of Docker networks
    NetworkName,     \* their names
    NameOf,          \* the name of each network
    Frontend,        \* the network named "frontend", the fallback of learnYourself
    Self,            \* the proxy's own container
    SelfNetworks,    \* networks the proxy may start on
    SelfRecognised,  \* whether HOSTNAME is the ID events carry (the full one)
    Ops,             \* the kinds of change Docker makes in a run
    Reports,         \* the event actions Docker reports in a run
    Replayed,        \* events of the second before start-up, reported again
    DockerFaults,    \* whether a request to Docker may fail for no reason
    NginxFaults,     \* whether writing, testing or reloading may fail for no reason
    StreamFaults,    \* whether the event stream may end
    MaxOps           \* bound: how many changes Docker makes

ASSUME SelfAssumption == Self \notin Container
ASSUME NetworkAssumption ==
    /\ Frontend \in Network /\ SelfNetworks \subseteq SUBSET Network
    /\ Network \cap NetworkName = {}
ASSUME NameAssumption ==
    /\ NameOf \in [Network -> NetworkName]
    /\ \A m, n \in Network : NameOf[m] = NameOf[n] => m = n
ASSUME BoundAssumption == MaxOps \in Nat

StartActs == {"start", "restart", "unpause"}
DieActs == {"die", "stop", "kill"}
LinkActs == {"connect", "disconnect"}
IgnoredActs == {"pause"}

ContainerEvent(a, c) == [act |-> a, id |-> c, net |-> Frontend]
NetworkEvent(a, n) == [act |-> a, id |-> Self, net |-> n]

(* net is the network of an event about the proxy itself; the handler of an *)
(* event about another container does not read it.                          *)
Event == {ContainerEvent(a, c) : a \in StartActs \cup DieActs \cup LinkActs \cup IgnoredActs,
                                 c \in Container}
         \cup {NetworkEvent(a, n) : a \in LinkActs \cup {"destroy"}, n \in Network}

ASSUME ReportsAssumption == "die" \in Reports
ASSUME ReplayedAssumption == Replayed \subseteq Event

VARIABLES
    docker,      \* external: status of every container
    attached,    \* external: the networks of every container and of the proxy
    gone,        \* external: networks that were removed
    ops,         \* external: number of changes so far
    stream,      \* "none", "since" (events recorded, not yet read), "on" or "dead"
    pending,     \* events reported whose handler has not got the lock yet
    pc,          \* where the goroutine holding ws.mu is
    job,         \* its local variables: container, inspected networks, list of IDs
    networks,    \* ws.networks: network ID to name and name to ID
    containers,  \* keys of ws.containers
    hosts,       \* ws.hosts
    conf,        \* the configuration file
    served       \* the configuration nginx runs

external == <<docker, attached, gone, ops>>
control == <<stream, pending, pc, job>>
tables == <<networks, containers, hosts>>
nginx == <<conf, served>>
vars == <<external, control, tables, nginx>>

Statuses == {"absent", "exited", "running"}
Places == {"new", "learned", "list", "scan", "reload", "again", "idle", "update", "commit", "exit"}
Job == [id : Container \cup {Self}, nets : SUBSET Network, todo : SUBSET Container]
NoJob == [id |-> Self, nets |-> {}, todo |-> {}]

Without(f, S) == [x \in DOMAIN f \ S |-> f[x]]
Known == Network \cap DOMAIN networks

(* The networks on which an inspected container has an address.             *)
Addresses(c) == IF docker[c] = "running" THEN attached[c] ELSE {}

-----------------------------------------------------------------------------
(* Docker, external.  A change is reported to a stream that is recording.   *)

(* Variant: the stream is read from the moment it is opened.                *)
ReportLate(E) ==
    pending' = IF stream = "on"
               THEN [e \in Event |->
                        IF e \in E /\ e.act \in Reports THEN pending[e] + 1 ELSE pending[e]]
               ELSE pending

Report(E) ==
    pending' = IF stream \in {"since", "on"}
               THEN [e \in Event |->
                        IF e \in E /\ e.act \in Reports THEN pending[e] + 1 ELSE pending[e]]
               ELSE pending

Change(op) == op \in Ops /\ ops < MaxOps /\ ops' = ops + 1

(* docker start, or the second half of docker restart.                      *)
DockerStart(c) ==
    /\ Change("start")
    /\ docker[c] # "running"
    /\ docker' = [docker EXCEPT ![c] = "running"]
    /\ \E restarted \in SUBSET {"restart"} :
          Report({ContainerEvent(a, c) : a \in {"start", "connect"} \cup restarted})
    /\ UNCHANGED <<attached, gone, stream, pc, job, tables, nginx>>

(* A signal, of which the container need not die.                           *)
DockerKill(c) ==
    /\ Change("kill")
    /\ docker[c] = "running"
    /\ Report({ContainerEvent("kill", c)})
    /\ UNCHANGED <<docker, attached, gone, stream, pc, job, tables, nginx>>

(* The main process ends; docker stop also reports a stop.                  *)
DockerDie(c) ==
    /\ Change("die")
    /\ docker[c] = "running"
    /\ docker' = [docker EXCEPT ![c] = "exited"]
    /\ \E stopped \in SUBSET {"stop"} :
          Report({ContainerEvent(a, c) : a \in {"die", "disconnect"} \cup stopped})
    /\ UNCHANGED <<attached, gone, stream, pc, job, tables, nginx>>

DockerRemove(c) ==
    /\ Change("remove")
    /\ docker[c] = "exited"
    /\ docker' = [docker EXCEPT ![c] = "absent"]
    /\ UNCHANGED <<attached, gone, control, tables, nginx>>

(* docker pause and docker unpause; the container keeps its address.        *)
DockerPause(c) ==
    /\ Change("pause")
    /\ docker[c] = "running"
    /\ Report({ContainerEvent(a, c) : a \in {"pause", "unpause"}})
    /\ UNCHANGED <<docker, attached, gone, stream, pc, job, tables, nginx>>

DockerConnect(c, n) ==
    /\ Change("connect")
    /\ docker[c] = "running" /\ n \notin attached[c] \cup gone
    /\ attached' = [attached EXCEPT ![c] = @ \cup {n}]
    /\ Report({ContainerEvent("connect", c)})
    /\ UNCHANGED <<docker, gone, stream, pc, job, tables, nginx>>

DockerDisconnect(c, n) ==
    /\ Change("disconnect")
    /\ docker[c] = "running" /\ n \in attached[c]
    /\ attached' = [attached EXCEPT ![c] = @ \ {n}]
    /\ Report({ContainerEvent("disconnect", c)})
    /\ UNCHANGED <<docker, gone, stream, pc, job, tables, nginx>>

SelfConnect(n) ==
    /\ Change("self")
    /\ n \notin attached[Self] \cup gone
    /\ attached' = [attached EXCEPT ![Self] = @ \cup {n}]
    /\ Report({NetworkEvent("connect", n)})
    /\ UNCHANGED <<docker, gone, stream, pc, job, tables, nginx>>

SelfDisconnect(n) ==
    /\ Change("self")
    /\ n \in attached[Self]
    /\ attached' = [attached EXCEPT ![Self] = @ \ {n}]
    /\ Report({NetworkEvent("disconnect", n)})
    /\ UNCHANGED <<docker, gone, stream, pc, job, tables, nginx>>

(* docker network rm: nobody is on the network any more.                    *)
NetworkDestroy(n) ==
    /\ Change("destroy")
    /\ n \notin gone /\ gone' = gone \cup {n}
    /\ \A c \in Container \cup {Self} : n \notin attached[c]
    /\ Report({NetworkEvent("destroy", n)})
    /\ UNCHANGED <<docker, attached, stream, pc, job, tables, nginx>>

-----------------------------------------------------------------------------
(* reload: certificate pass, template, UpdateConfig.  The file is written   *)
(* first; the test or the reload may then fail and leaves it there.         *)

Reload(T, ok) ==
    \E f \in Choices(PrepareSSL(T)) :
        LET U == Consolidate(PrepareSSL(T), f)
            R == Render(U, f)
        IN  /\ hosts' = U
            /\ \/ /\ ok
                  /\ NginxAccepts(R)
                  /\ conf' = R /\ served' = R
               \/ /\ ~ok
                  /\ \/ conf' = R /\ (NginxFaults \/ ~NginxAccepts(R))
                     \/ conf' = conf /\ NginxFaults
                  /\ served' = served

Release == pc' = "idle" /\ job' = NoJob

-----------------------------------------------------------------------------
(* Start-up and the rescan of all containers.                               *)

Learned(L) == [x \in L \cup {NameOf[n] : n \in L} |->
                  IF x \in L THEN NameOf[x] ELSE CHOOSE n \in L : NameOf[n] = x]

(* learnYourself, in NewWebServer.  A network that cannot be inspected is   *)
(* skipped; without the proxy's own container there is only the fallback.   *)
LearnYourself ==
    /\ pc = "new"
    /\ \E L \in SUBSET Network :
          /\ \/ L \subseteq attached[Self] /\ (DockerFaults \/ L = attached[Self])
             \/ DockerFaults /\ L \subseteq {Frontend}
          /\ networks' = Learned(L)
    /\ pc' = "learned"
    /\ UNCHANGED <<external, stream, pending, job, containers, hosts, nginx>>

(* Start notes the time, in whole seconds, from which it will read events.  *)
CaptureSince ==
    /\ pc = "learned"
    /\ stream' = "since"
    /\ \E R \in SUBSET Replayed : pending' = [e \in Event |-> IF e \in R THEN 1 ELSE 0]
    /\ pc' = "list"
    /\ UNCHANGED <<external, job, tables, nginx>>

(* ContainerList; its failure ends the rescan, and the process at start-up. *)
ListContainers ==
    /\ pc = "list"
    /\ \/ /\ job' = [NoJob EXCEPT !.todo = {c \in Container : docker[c] = "running"}]
          /\ pc' = "scan"
          /\ containers' = {} /\ hosts' = Nothing
       \/ /\ DockerFaults
          /\ job' = NoJob
          /\ pc' = IF stream = "since" THEN "exit" ELSE "idle"
          /\ UNCHANGED <<containers, hosts>>
    /\ UNCHANGED <<external, stream, pending, networks, nginx>>

(* One container of the list is inspected: it may be gone, and its address  *)
(* too.  Only VIRTUAL_HOST variables make a rescan look at a container.     *)
ScanContainer(c) ==
    /\ pc = "scan" /\ c \in job.todo
    /\ job' = [job EXCEPT !.todo = @ \ {c}]
    /\ pc' = IF job.todo = {c} THEN "reload" ELSE "scan"
    /\ \/ /\ docker[c] # "absent"
          /\ containers' = containers \cup {c}
          /\ hosts' = IF \E e \in Entries[c] : ~e.static
                      THEN AddHosts(hosts, ProcessVirtualHosts(c, Addresses(c), Known))
                      ELSE hosts
       \/ /\ docker[c] = "absent" \/ DockerFaults
          /\ UNCHANGED <<containers, hosts>>
    /\ UNCHANGED <<external, stream, pending, networks, nginx>>

ScanNothing ==
    /\ pc = "scan" /\ job.todo = {}
    /\ pc' = "reload"
    /\ UNCHANGED <<external, stream, pending, job, tables, nginx>>

(* The reload that ends rescanAllContainers.  At start-up the event stream  *)
(* is opened next; a handler's rescanAndReload reloads once more.           *)
FinishScan ==
    /\ pc = "reload"
    /\ \E ok \in BOOLEAN :
          /\ Reload(hosts, ok)
          /\ IF stream = "since"
             THEN /\ pc' = IF ok THEN "idle" ELSE "exit"
                  /\ stream' = IF ok THEN "on" ELSE stream
             ELSE /\ pc' = IF ok THEN "again" ELSE "idle"
                  /\ stream' = stream
    /\ job' = NoJob
    /\ UNCHANGED <<external, pending, networks, containers>>

ReloadAgain ==
    /\ pc = "again"
    /\ \E ok \in BOOLEAN : Reload(hosts, ok)
    /\ Release
    /\ UNCHANGED <<external, stream, pending, networks, containers>>

-----------------------------------------------------------------------------
(* The event handlers.                                                      *)

(* Variant: an event may be handled again.                                  *)
AcquireAgain(e) ==
    /\ pc = "idle"
    /\ pending' = [pending EXCEPT ![e] = @ - 1]

(* The goroutine of an event gets ws.mu.                                    *)
Acquire(e) ==
    /\ pc = "idle" /\ pending[e] > 0
    /\ pending' = [pending EXCEPT ![e] = @ - 1]

(* updateContainerLocked is next, for container c.                          *)
Update(c) == pc' = "update" /\ job' = [NoJob EXCEPT !.id = c]

(* Variant: the error path returns without unlocking.                       *)
StartWithoutUnlock(e) ==
    /\ e.act \in StartActs
    /\ Acquire(e)
    /\ \/ /\ docker[e.id] # "absent"
          /\ containers' = containers \cup {e.id}
          /\ Update(e.id)
       \/ /\ docker[e.id] = "absent" \/ DockerFaults
          /\ pc' = "exit"
          /\ UNCHANGED <<containers, job>>
    /\ UNCHANGED <<external, stream, networks, hosts, nginx>>

(* start, unpause, restart: the container is inspected and recorded.        *)
HandleContainerStart(e) ==
    /\ e.act \in StartActs
    /\ Acquire(e)
    /\ \/ /\ docker[e.id] # "absent"
          /\ containers' = containers \cup {e.id}
          /\ Update(e.id)
       \/ /\ docker[e.id] = "absent" \/ DockerFaults
          /\ containers' = containers
          /\ Release
    /\ UNCHANGED <<external, stream, networks, hosts, nginx>>

(* Variant: only a container that a start event recorded is taken out.      *)
DieIfRecorded(e) ==
    /\ e.act \in DieActs
    /\ Acquire(e)
    /\ containers' = containers \ {e.id}
    /\ IF e.id \in HostContainers(hosts) /\ e.id \in containers
       THEN \E ok \in BOOLEAN : Reload(RemoveContainerFromHosts(hosts, e.id), ok)
       ELSE UNCHANGED <<hosts, nginx>>
    /\ Release
    /\ UNCHANGED <<external, stream, networks>>

(* die, stop, kill: nginx is reloaded only if the container was in a host.  *)
HandleContainerDie(e) ==
    /\ e.act \in DieActs
    /\ Acquire(e)
    /\ containers' = containers \ {e.id}
    /\ IF e.id \in HostContainers(hosts)
       THEN \E ok \in BOOLEAN : Reload(RemoveContainerFromHosts(hosts, e.id), ok)
       ELSE UNCHANGED <<hosts, nginx>>
    /\ Release
    /\ UNCHANGED <<external, stream, networks>>

(* pause, and the events whose handlers only log.                           *)
HandleIgnored(e) ==
    /\ e.act \in IgnoredActs
    /\ Acquire(e)
    /\ Release
    /\ UNCHANGED <<external, stream, tables, nginx>>

(* connect, disconnect of another container.                                *)
HandleContainerLink(e) ==
    /\ e.act \in LinkActs /\ e.id # Self
    /\ Acquire(e)
    /\ Update(e.id)
    /\ UNCHANGED <<external, stream, tables, nginx>>

(* updateContainerLocked, first half: the container is taken out, then      *)
(* inspected.  An error, or no host to add, ends the handler there.         *)
UpdateContainer ==
    /\ pc = "update"
    /\ hosts' = RemoveContainerFromHosts(hosts, job.id)
    /\ \/ /\ docker[job.id] # "absent"
          /\ IF ProcessVirtualHosts(job.id, Addresses(job.id), Known) = Nothing
             THEN Release
             ELSE pc' = "commit" /\ job' = [job EXCEPT !.nets = Addresses(job.id)]
       \/ /\ docker[job.id] = "absent" \/ DockerFaults
          /\ Release
    /\ UNCHANGED <<external, stream, pending, networks, containers, nginx>>

(* Second half: the hosts found by the inspection are added.                *)
CommitContainer ==
    /\ pc = "commit"
    /\ \E ok \in BOOLEAN :
          Reload(AddHosts(hosts, ProcessVirtualHosts(job.id, job.nets, Known)), ok)
    /\ Release
    /\ UNCHANGED <<external, stream, pending, networks, containers>>

(* connect of the proxy itself, if the handler sees that it is.             *)
HandleSelfConnect(e) ==
    /\ e.act = "connect" /\ e.id = Self /\ SelfRecognised
    /\ Acquire(e)
    /\ \/ /\ e.net \notin gone
          /\ networks' = [x \in DOMAIN networks \cup {e.net, NameOf[e.net]} |->
                             CASE x = e.net -> NameOf[e.net]
                               [] x = NameOf[e.net] -> e.net
                               [] OTHER -> networks[x]]
          /\ pc' = "list"
       \/ /\ e.net \in gone \/ DockerFaults
          /\ pc' = "idle" /\ networks' = networks
    /\ job' = NoJob
    /\ UNCHANGED <<external, stream, containers, hosts, nginx>>

(* Variant: the hosts are left as they are.                                 *)
DisconnectWithoutRescan(e) ==
    /\ e.act = "disconnect" /\ e.id = Self /\ SelfRecognised
    /\ Acquire(e)
    /\ networks' = Without(networks, {e.net})
    /\ Release
    /\ UNCHANGED <<external, stream, containers, hosts, nginx>>

(* disconnect of the proxy itself.  The name is looked up after the entry   *)
(* of the ID is deleted, so it is "" and the name's entry stays.            *)
HandleSelfDisconnect(e) ==
    /\ e.act = "disconnect" /\ e.id = Self /\ SelfRecognised
    /\ Acquire(e)
    /\ networks' = Without(networks, {e.net})
    /\ pc' = "list" /\ job' = NoJob
    /\ UNCHANGED <<external, stream, containers, hosts, nginx>>

(* An event about the proxy itself that is not recognised: it is in no host *)
(* and asks for none, so updateContainerLocked changes nothing.             *)
HandleSelfMissed(e) ==
    /\ e.act \in LinkActs /\ e.id = Self /\ ~SelfRecognised
    /\ Acquire(e)
    /\ Release
    /\ UNCHANGED <<external, stream, tables, nginx>>

(* destroy of a network: both entries go.                                   *)
HandleNetworkDestroy(e) ==
    /\ e.act = "destroy"
    /\ Acquire(e)
    /\ IF e.net \in DOMAIN networks
       THEN /\ networks' = Without(networks, {e.net, networks[e.net]})
            /\ pc' = "list" /\ job' = NoJob
       ELSE Release /\ networks' = networks
    /\ UNCHANGED <<external, stream, containers, hosts, nginx>>

(* processEvents returns: an error on the stream, or Stop.                  *)
EndStream ==
    /\ StreamFaults
    /\ stream = "on"
    /\ stream' = "dead"
    /\ UNCHANGED <<external, pending, pc, job, tables, nginx>>

-----------------------------------------------------------------------------
Init ==
    /\ docker \in [Container -> Statuses]
    /\ \E own \in SelfNetworks :
          attached \in {a \in [Container \cup {Self} -> SUBSET Network] : a[Self] = own}
    /\ gone = {} /\ ops = 0
    /\ stream = "none" /\ pending = [e \in Event |-> 0]
    /\ pc = "new" /\ job = NoJob
    /\ networks = Nothing /\ containers = {} /\ hosts = Nothing
    /\ conf = Nothing /\ served = Nothing

Docker ==
    \/ \E c \in Container :
          \/ DockerStart(c) \/ DockerKill(c) \/ DockerDie(c) \/ DockerRemove(c) \/ DockerPause(c)
          \/ \E n \in Network : DockerConnect(c, n) \/ DockerDisconnect(c, n)
    \/ \E n \in Network : SelfConnect(n) \/ SelfDisconnect(n) \/ NetworkDestroy(n)

Scan ==
    \/ ListContainers \/ ScanNothing \/ FinishScan \/ ReloadAgain
    \/ \E c \in Container : ScanContainer(c)

Handle ==
    \E e \in Event :
        \/ HandleContainerStart(e) \/ HandleContainerDie(e) \/ HandleIgnored(e)
        \/ HandleContainerLink(e) \/ HandleSelfConnect(e) \/ HandleSelfDisconnect(e)
        \/ HandleSelfMissed(e) \/ HandleNetworkDestroy(e)

(* The lock holder's own steps.                                             *)
Proceed == LearnYourself \/ CaptureSince \/ Scan \/ UpdateContainer \/ CommitContainer

(* The proxy has nothing to do until Docker reports something.              *)
Quiet == pc = "idle" /\ \A e \in Event : pending[e] = 0
Rest == (Quiet \/ pc = "exit") /\ UNCHANGED vars

Next == Docker \/ Proceed \/ Handle \/ EndStream \/ Rest

Spec == Init /\ [][Next]_vars

(* A goroutine that can run does, and ws.mu is granted to a waiting one     *)
(* again and again; Docker and the network promise nothing.                 *)
FairSpec == Spec /\ WF_vars(Proceed) /\ WF_vars(Handle)
-----------------------------------------------------------------------------
(* Type invariant.                                                          *)

(* Every variable holds a value its declaration in the code allows; the     *)
(* tables stay finite maps of the declared keys and the lock holder's local *)
(* container is one Docker runs, never the proxy itself.                    *)
TypeOK ==
    /\ docker \in [Container -> Statuses]
    /\ attached \in [Container \cup {Self} -> SUBSET Network]
    /\ gone \subseteq Network /\ ops \in 0..MaxOps
    /\ stream \in {"none", "since", "on", "dead"}
    /\ pending \in [Event -> Nat]
    /\ pc \in Places /\ job \in Job
    /\ pc \in {"update", "commit"} => job.id \in Container
    /\ IsPartial(networks, Network \cup NetworkName, Network \cup NetworkName)
    /\ \A n \in Known : networks[n] = NameOf[n]
    /\ containers \subseteq Container
    /\ IsTable(hosts, Key)
    /\ IsTable(conf, Hostname) /\ IsTable(served, Hostname)

-----------------------------------------------------------------------------
(* Safety.                                                                  *)

(* The containers that are in a host, or that the lock holder has inspected *)
(* with an address and is about to add.                                     *)
Routed == HostContainers(hosts) \cup (IF pc = "commit" THEN {job.id} ELSE {})

Awaited(c, acts) == \E a \in acts : pending[ContainerEvent(a, c)] > 0

(* While the stream lasts, a container that no longer runs is in no host    *)
(* unless the event that takes it out is still on its way: no order of the  *)
(* handlers, no inspection answered before the container died and no rescan *)
(* puts a dead container back for good (handleContainerDie,                 *)
(* updateContainerLocked, rescanAllContainers).                             *)
PendingRemoval ==
    stream # "dead" => \A c \in Routed : docker[c] = "running" \/ Awaited(c, DieActs)

(* The same for networks: a container in a host is on a network the proxy   *)
(* knows, or the event that makes a handler look again is on its way, or    *)
(* the lock holder is about to take it out or to drop every host            *)
(* (handleNetworkDisconnect, handleNetworkDestroy).  It needs a Docker that *)
(* answers.                                                                 *)
PendingDetach ==
    stream # "dead" => \A c \in Routed :
        \/ attached[c] \cap Known # {}
        \/ Awaited(c, {"disconnect"})
        \/ pc = "list" \/ (pc = "update" /\ job.id = c)

(* Every location that says it uses an upstream has one under its own ID    *)
(* that lists exactly its containers, at least two; no other location's     *)
(* entry lists a container the location no longer has.  Upstreams are only  *)
(* rebuilt when hosts are added (rebuildHostUpstreams): removals must keep  *)
(* both structures in step (Host.RemoveContainer).                          *)
UpstreamsMirrorLocations ==
    \A k \in DOMAIN hosts :
        LET h == hosts[k]
        IN  /\ \A p \in DOMAIN h.locs : Several(h.locs[p].cts) => p \in DOMAIN h.ups
            /\ \A p \in DOMAIN h.locs : h.locs[p].up <=> Several(h.locs[p].cts)
            /\ \A p \in DOMAIN h.ups :
                  /\ p \in DOMAIN h.locs
                  /\ h.ups[p].cts = h.locs[p].cts
                  /\ h.locs[p].up => h.ups[p].id = h.locs[p].upstream

(* Removal leaves nothing empty behind: nginx would refuse an upstream      *)
(* without servers, and a host without locations would answer for a name    *)
(* nobody serves (removeContainerFromHosts, Host.RemoveContainer).          *)
NothingEmpty ==
    \A k \in DOMAIN hosts :
        /\ hosts[k].locs # Nothing
        /\ \A p \in DOMAIN hosts[k].locs : hosts[k].locs[p].cts # {}
        /\ \A p \in DOMAIN hosts[k].ups : hosts[k].ups[p].cts # {}

(* A TLS server block is only ever written for a name with a certificate    *)
(* file, and on port 443 unless the host was given another port: nginx      *)
(* refuses a configuration that names a missing file (reload).              *)
SecureServersHaveCertificates ==
    \A n \in DOMAIN served :
        served[n].ssl => /\ n \in Certified
                         /\ served[n].port # 80

(* Of several hosts with one name the one written has TLS if any has it,    *)
(* and redirects port 80 if it stands for a plain one too, whatever the map *)
(* order (getHostsForTemplate), as long as nginx takes the configuration.   *)
TLSWins ==
    (pc = "idle" /\ conf = served) =>
        \A k \in {k \in DOMAIN hosts : hosts[k].ssl} :
            /\ served[k[1]].ssl
            /\ (\E j \in DOMAIN hosts : j[1] = k[1] /\ ~hosts[j].ssl) => served[k[1]].redir

(* When the proxy is at rest, every running container that shares a network *)
(* with it and asks for hosts is in the table.                              *)
QuietRegistered ==
    (Quiet /\ stream = "on") =>
        \A c \in Container :
            (/\ docker[c] = "running" /\ Entries[c] # {}
             /\ attached[c] \cap attached[Self] # {})
            => c \in HostContainers(hosts)

(* When the proxy is at rest, nginx sends requests to running containers    *)
(* only.                                                                    *)
QuietServesRunning ==
    (Quiet /\ stream = "on") => \A c \in Served(served) : docker[c] = "running"

(* A location that uses no upstream proxies to the container it has.        *)
DirectRoutesAreMembers ==
    \A k \in DOMAIN hosts : \A p \in DOMAIN hosts[k].locs :
        hosts[k].locs[p].up \/ hosts[k].locs[p].primary \in hosts[k].locs[p].cts

Offer(c) == {<<c, EntryKey(e), e.path>> : e \in Entries[c]}

RT == INSTANCE RouteTable WITH routes <- Routes(hosts)

(* The handlers implement the routing table: whatever the events' order, a  *)
(* container's routes come and go together and no other's are touched.      *)
RefinesRouteTable == RT!Spec

-----------------------------------------------------------------------------
(* Liveness.                                                                *)

(* The process ends when its first list or reload fails, and only then.     *)
GaveUp == pc = "exit" /\ stream = "since"

(* The lock is always released and nobody starves: once Docker is silent,   *)
(* every reported event gets handled and the proxy comes to rest, unless it *)
(* gave up at start-up (the deferred unlock of every handler).              *)
EventsDrain == <>[](Quiet \/ GaveUp)

(* A container that stays down, or never was up, leaves every host for      *)
(* good, unless the stream ends.                                            *)
DeadContainersLeave ==
    \A c \in Container :
        <>[](docker[c] # "running") =>
            <>[](c \notin HostContainers(hosts) \/ GaveUp \/ stream = "dead")

(* A container that comes up and stays up is noticed: it gets into the      *)
(* table.                                                                   *)
StartsNoticed ==
    \A c \in Container :
        <>[](docker[c] = "running" /\ attached[c] \cap attached[Self] # {})
            => <>(c \in HostContainers(hosts) \/ GaveUp)

=============================================================================
