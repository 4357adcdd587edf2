# TLA+ models of nginx-proxy-go

The program watches Docker, keeps a table of virtual hosts for the running
containers and rewrites and reloads nginx whenever the table changes. It also
holds a certificate manager that orders certificates over ACME and renews them
in the background, and a logger all of it writes to. This directory models the
parts that keep state, checks the models with TLC on small instances, and proves
the most important invariants with TLAPS for all instances.

Paths below are relative to `src/internal/` unless they start with `src/`.

- [Inventory](#inventory)
- [Modules](#modules)
- [How the models correspond to the code](#how-the-models-correspond-to-the-code)
- [Runs](#runs)
- [Fairness](#fairness)
- [Proofs](#proofs)
- [Findings](#findings)
- [Not modelled](#not-modelled)
- [Plan](#plan)

## Inventory

### Parts that keep state

**Host table** (`host/host.go`, the addHost and removal functions of
`webserver/webserver.go`). State: `WebServer.hosts`, a map from hostname to port
to `Host`; a host has locations by path, a location has containers, and a host
has a slice of upstreams derived from its locations. Operations: `addHost`
(merge a new host into the table), `rebuildHostUpstreams`, `Host.RemoveContainer`,
`removeContainerFromHosts`, the certificate pass of `reload`, and
`getHostsForTemplate`, which picks one host per hostname for nginx. Hard: two
structures (locations and upstreams) describe the same containers and are kept
in step by different functions; several hosts share a hostname and Go's map
order decides between them. Correct means: upstreams mirror locations, removal
leaves nothing empty, a change for one container leaves the routes of the others
alone, TLS wins over plain HTTP under one name.

**Web server** (`webserver/webserver.go`). State: `hosts`, `containers`,
`networks` (ID to name and name to ID in one map), all guarded by `ws.mu`, and
the configuration file and the running configuration of nginx. Operations:
`NewWebServer`/`learnYourself`, `Start` with `rescanAllContainers`, one handler
for each container and network event, `reload`. Hard: every event runs in a
goroutine of its own and the mutex grants itself in any order; a handler asks
Docker while it holds the lock, and Docker moves on meanwhile; each request and
each step of a reload may fail half way. Correct means: a dead container does
not stay, a running one is found, what nginx runs agrees with the table, and
the lock is always released.

**Event processor** (`event/event.go`). State: the event stream. `StartSince`
subscribes with a time stamp taken before the first scan, `processEvents` starts
a goroutine per event and returns at the first error. Hard: the stream's start
relative to the scan, duplicates of the start-up second, reordering, the end of
the stream.

**nginx controller and template** (`nginx/`, `src/templates/nginx.conf.tmpl`).
State: the configuration file. `UpdateConfig` writes, tests, reloads and keeps
the text in `lastConfig`, which nothing reads; the old file is not restored when
the test fails.

**Certificate manager** (`ssl/certificate_manager.go`). State: `certCache`
(domain to expiry), `blacklist` (domain to end of cool-down) under `cm.mu`, and
the certificate files. Operations: `GetCertificate`, `startRenewalThread`,
`checkAndRenewCertificates`, `renewCertificate`, `generateSelfSignedCertificate`.
Hard: `GetCertificate` holds the lock for a whole order while the renewal thread
orders and reads files without it; both write the cache afterwards; crashes
leave files cut short. Correct means: the cache is never more optimistic than
the file, every call returns, due certificates are renewed and stay watched.

**ACME client** (`acme/manager.go`, `acme/acme.go`, `acme/acmev2.go`). State:
account and domain keys, the challenge directory, `Manager.mu`, which lets one
order run at a time. Hard: the challenge directory is shared, any step may fail,
an order's answer is read with unchecked type assertions.

**Virtual host variables** (`processor/virtual_host.go`, `ParseVirtualHost` and
`AddLocation` of `host/host.go`). No state; from a container's environment to
hosts and locations with ports, schemes and flags. Hard: variables are read in
the order of a Go map and merged as they come, and three functions each have
defaults of their own. Correct means: the order does not matter, and a location
gets what its variable asks for.

**Basic auth, IP filter, extras** (`processor/basic_auth.go`,
`processor/ip_filter.go`, `host/extras.go`). State: `credentials` by hostname
and path, the password files, and the settings of the hosts in `ws.hosts`, which
are made for one container and then shared with those that join. Hard: what of
two containers' settings is merged and what is dropped, in which order they come
and go, and a password file that all containers of a hostname share, that is
written anew for each that brings a credential and that cannot always be written.
Correct means: no container changes whether another one is protected, none takes
a password out of the file unless another replaces it, what is protected has a
password file, a filter is never a mixture, nothing nginx refuses is made by
joining.

**Logger** (`logger/logger.go`). State: the log file, its backups, `l.mu`. Hard:
every goroutine logs; a call takes the mutex twice, first to rotate, then to
write; renames fail, and the process may be killed between two of them. Correct
means: entries are kept in order without gaps, only the oldest are dropped, a
file stays near its limit, no call hangs.

### Parts that keep none, or that the program does not use

`config`, `constants`, `container`, `dockerapi`, `errors`, `debug` and `main.go`
read the environment, copy fields, pass requests on or define values. The
redirect and default-server processors are made and never called; `health`, `server`, `host/proxy_config.go`, `errors.Retry`, the DNS challenge
and `acme.CertificateManager` have no caller in the program. `cmd/getssl` is a
second program that orders certificates from the command line.

### Interactions

    Docker --events--> event processor --goroutine per event--> web server
    Docker <--inspect, list-- web server --reload--> nginx controller --> nginx
    web server --ensureDefaultCertificate--> certificate manager --> ACME client
    renewal thread ----------------------------------------------------^
    getssl (own process) ----> ACME client, same files

The web server asks the certificate manager only for the default server's
certificate (`"_"`), at start-up. `reload` looks at certificate files itself and
never asks for one, so the host table and the certificate manager meet in the
file system only. That is why they are modelled apart.

The settings of hosts are changed by the same handlers as the host table, all of
them under `ws.mu`. `WebServer` has the handlers' interleavings and no settings,
`HostSettings` the settings and whole handlers; they agree on which hosts a
container gets because of `FragmentsAgree`, which compares the two, see below.

## Modules

| Module | Models | Lines it rests on |
| --- | --- | --- |
| `HostTable` | the table's data and pure operations | `host/host.go`, `processor/virtual_host.go`, `webserver.go` from `addHost` to `removeContainerFromHosts`, the template's choice of servers and backends |
| `WebServer` | start-up, event stream, handlers, reloads, Docker as environment; EXTENDS `HostTable` | `webserver/webserver.go`, `event/event.go`, `nginx/nginx.go` |
| `RouteTable` | the abstract promise `WebServer` implements | |
| `Certificates` | certificate manager, renewal thread, ACME orders, crashes | `ssl/`, `acme/` |
| `VirtualHosts` | from variables to hosts: parsing, defaults, flags, merging in any order | `ParseVirtualHost` and `AddLocation` of `host/host.go`, `processor/virtual_host.go`, `host/extras.go` |
| `HostSettings` | passwords, filters, directives and flags of hosts that containers share; EXTENDS `VirtualHosts` | `processor/basic_auth.go`, `processor/ip_filter.go`, `addHost`, `mergeExtras` and the handlers of `webserver.go` |
| `Logger` | log file, rotation, failures, crashes and restarts | `logger/logger.go` |
| `LogBook` | the abstract promise `Logger` implements | |
| `MCWebServer`, `MCCertificates`, `MCHostSettings`, `MCLogger` | constants for TLC | |
| `HostTable_proofs` | lemmas: what each table operation keeps | |
| `WebServer_proofs` | theorems about the events and handlers of `WebServer` | |
| `WebServerTables_proofs` | theorems about the table in `WebServer`, and its refinement of `RouteTable` | |
| `Certificates_proofs` | theorems about `Certificates` | |
| `InductionLemmas` | lemmas: induction over naturals, for the two modules that need it | |
| `VirtualHosts_proofs` | what a container's variables amount to in any order | |
| `HostSettings_proofs` | theorems about `HostSettings`; EXTENDS `VirtualHosts_proofs` | |
| `Logger_proofs` | theorems about `Logger`, and its refinement of `LogBook` | |

`PROJECT.json` maps every definition to the lines it stands for. A definition
whose comment begins with "Variant:" is not part of the model: it is a plausible
mistake in the definition below it, and swapping it in must make a property
fail. It shows that the property depends on that piece of code.

## How the models correspond to the code

### HostTable

`map[hostname]map[port]*Host` is a function from `<<hostname, port>>` to host
records; the code removes a hostname whose port map is empty, so nothing is
lost. A backend is its container: address, port, scheme and path inside it are
data no property tells apart. `locs[p].primary` is the container whose address
the location itself carries (`ContainerAddress` and the fields next to it) and
that does not move when that container leaves, which is what the run
`StalePrimary` is about. `Host.Upstreams` is a slice in the code and a function
from the path an element was built for in the model: two elements can then have
one ID, as in the code. `Sanitized` gives the text a path contributes to that ID
and need not be injective. `Entries` gives what parsing a container's variables
yields; the shift of a secured port 80 to 443 is in `EntryKey`. A container's
entries are a set here, as if the order in which variables are read made no
difference; that it makes none to hosts, TLS and locations is the invariant
`FragmentsAgree` of `HostSettings`.

`Candidates`, `Choices` and `Consolidate` are `getHostsForTemplate`: for each
hostname one of its hosts is chosen, a secured one if any, otherwise any (map
order). `Consolidate` writes back to the table because the code sets
`SSLRedirect` on the host itself. `PrepareSSL` writes back too.

### WebServer

`pc` says where the holder of `ws.mu` is; `"idle"` means the lock is free.
Events in flight, `pending`, are a bag: a goroutine waiting for the lock is an
element of it, and any element may be handled next. A handler is one action
unless it asks Docker something after changing the table; then it is cut there:

| Action | Code |
| --- | --- |
| `LearnYourself`, `CaptureSince` | `NewWebServer`, first lines of `Start` |
| `ListContainers`, `ScanContainer`, `ScanNothing`, `FinishScan`, `ReloadAgain` | `rescanAllContainers`, and the second `reload` of `rescanAndReload` |
| `HandleContainerStart`, `HandleContainerDie`, `HandleIgnored`, `HandleContainerLink` | the container handlers, pause and log-only events |
| `UpdateContainer`, `CommitContainer` | `updateContainerLocked` before and after its inspection |
| `HandleSelfConnect`, `HandleSelfDisconnect`, `HandleSelfMissed`, `HandleNetworkDestroy` | the network handlers |
| `Reload` (in several actions) | `reload` and `UpdateConfig`: written or not, tested, reloaded |
| `EndStream` | `processEvents` returns |
| `Docker...`, `Self...`, `NetworkDestroy` | Docker, external |

Docker changes the status and the networks of containers and reports to a
stream that is recording. `stream = "since"` is the time between the time stamp
and the opening of the stream: what happens then is delivered later. Time stamps
are whole seconds, so events of the second before may be delivered again
(`Replayed`). Docker stores a container's networks while it is stopped, and
gives it an address only while it runs (`Addresses`).

The routing table `RouteTable` is the abstract specification. Its one variable
is the set of routes `<<container, host key, path>>`; its steps add all routes
of one container, drop all routes of one container, or drop everything (a
rescan). `RefinesRouteTable` says that every step of every handler is one of
those or changes no route.

### Certificates

Each goroutine is at a place `pc[p]`; an order is six steps, cut where a file is
written or the server is waited for. `mu` and `acme` are the two locks. `crt[d]`
is the expiry in the file, `Missing`, or `Torn` when it exists and cannot be
parsed: files are truncated and then written, and what the server sends is saved
unseen. Key files are `"none"`, `"bad"` or `"whole"`. A crash, and the panic of
`order["certificate"].(string)`, empty the two maps, free the locks and keep the
files. The wildcard branch of `GetCertificate` looks only for the files and not
at their expiry, and so does the model.

`Asked` is the set of domains a certificate is asked for. The program has one
caller, `ensureDefaultCertificate`, with one domain; the module has any.

### VirtualHosts

The text of a variable is a record of its pieces: schemes, host, ports, paths,
the number of arrows, the form of the part after the arrow, the directives and
the three flags `AddLocation` looks at. `ParseVirtualHost`, `ParseHostEntry`,
`AddLocation` and `ProcessVirtualHosts` have the names of their functions.
`ParseVirtualHost` returns one path, so the external one is lost when there is an
internal one; the model does the same. The part after an arrow is a port, a path,
or a URL with a port, with a name and no port (whose path is not read) or with
neither (`"bare"`, whose path is). `Orders` are the orders in which the code
may read the variables: the static ones first, otherwise any. `Fragments` are the
hosts that can come of it. `Put` is an assignment to a Go map. The addresses of a container are left out here: no
address means no fragment, the second alternative of `UpdateContainer` and
`ScanContainer`.

### HostSettings

`ws.mu` is held throughout a handler and nothing else touches this state, so a
handler is one action: `UpdateContainer` (`updateContainerLocked`),
`RemoveContainer` (`handleContainerDie`); a rescan is `BeginRescan`, one
`ScanContainer` for each container in any order, and `EndRescan`. `Configure` is
what the two routes to `addHost` have in common: `ProcessVirtualHosts`,
`ProcessBasicAuth`, `ProcessIPFilter`, `addHost`. `ProcessBasicAuth` stores the
credential before it looks for the host, writes the file and only then protects
one of the hosts with that name; a file whose writing fails has some of its
lines. `StoreCredential` is the map by path, `AuthMaps` the map by user made of
it (if two paths give one user two passwords, map order decides), and `FileLines`
what is written: a password bcrypt takes for too long (`TooLong`) is passed over
and the host protected all the same. `htpasswd[h].whole` remembers whether the
last writing came to its end; no action reads it, only a property does. A
location has `containers`, each with the scheme and port it came with, and next
to them the scheme and port of its primary, which `proxy_pass` uses: `addHost`
adds to the former and leaves the latter (`JoinLocation`). `FilterOf` decides between a container's own list and the global one as
`ProcessIPFilter` does, including a list of nothing but junk. `JoinedExtras` adds
multiplicities because `Set` appends. `injected` is what the template writes,
`extras` the map behind it: `addHost` merges only the latter.

### Logger

`name` says which file is under the log's path (0) and under each backup's path,
`content` what each file holds; a file without a name that `l.file` still holds
can be written to, as in a file system. The n-th entry ever written is the number
n. A call is `Log`, `Stat`, then either `Write` or `Rename` once for each slot,
`Open` and `Write`; `RotateFails` leaves the file closed, as the code does.
`LogBook` is the abstract specification, whose only variables are the entries kept
and the next one; `Kept` reads the files from the oldest backup to the current
one, and `OldestDroppedFirst` is `LogBook`'s specification under that mapping.

## Runs

Twelve runs: seven must pass, and five must find the disagreement described under
[Findings](#findings).

| Run | Instance | Checks |
| --- | --- | --- |
| `Lifecycle` | 2 containers sharing a location, 1 host, 3 changes, all faults on | `TypeOK`, `PendingRemoval`, `UpstreamsMirrorLocations`, `NothingEmpty`, refinement of `RouteTable` |
| `Topology` | 1 container, 2 networks, 4 changes, proxy starts with or without a network | `PendingDetach` |
| `Startup` | 2 containers, hosts with and without TLS and certificates under one name, one container nginx refuses, replayed events, 2 changes of which none ends a container | `QuietRegistered`, `SecureServersHaveCertificates`, `TLSWins` |
| `Progress` | 1 container, 2 changes of any kind but a container's own networks, HOSTNAME not recognised, stream and Docker faults, fairness | `EventsDrain`, `DeadContainersLeave` |
| `Certificates` | a domain and its wildcard, 1 caller and the renewal thread, crashes, panics, fairness | `CertTypeOK`, `ChallengeServed`, `CacheNeverLate`, `CallsReturn`, `RenewalsStart` |
| `HostSettings` | 2 containers, each with any of 7 environments, 1 hostname, 5 handlers, failing writes | `SettingsTypeOK`, `FragmentsAgree`, `LocationsFollowPrimary`, `DirectivesOnce`, `PassMatchesScheme`, `ProtectedHaveFile`, `FiltersAreAsked`, `AccessKept`, `PasswordsKept` |
| `Logger` | 2 goroutines, 4 files, 2 entries a file, 2 backups, 8 entries, failures and crashes, fairness | `LoggerTypeOK`, `WritesGoToCurrent`, `SizeBounded`, `OldestDroppedFirst`, `CallsReturn` |

**Lifecycle** is the main run. `MaxOps = 3` is a start, a stop and one more
change of two containers that were in any state before; each stop or start
reports two to four events that are handled in every order, between any two
steps of the scan or of another handler. Two containers are needed for an
upstream to be built and torn down, a third would only make a longer upstream.
`PendingRemoval` is the important invariant: whoever is in the table runs, or the
event that takes it out is still to be handled. It fails if a handler can put
back a container whose last removal event has been consumed. The rescan is the
difficult case: it lists, then inspects one by one, while containers die.

**Topology** gives the proxy and one container two networks, which they join and
leave and which are destroyed. Four changes are enough to leave and rejoin both,
or to leave one and destroy it. Docker answers here: a failed inspection leaves a
container detached without any event to come, which the code accepts.

**Startup** has starts, pauses, networks joined, left and removed, and nothing that
ends a container, because reordering a stop and a start breaks
`QuietRegistered` (run `Reordered`). Changes before the time stamp, between it and
the listing, during the scan and after the stream is opened are all reached;
two entries of `StartReplay` are handed out again. Faults are off, since at a
failure the code gives up on a container on purpose. The same run has six entries
over two hostnames, so the choice of `getHostsForTemplate` is a real one.

**Progress** checks that nobody keeps the lock and nothing is handled for ever.
`GaveUp` is the one legitimate end: the process exits when the first listing or
reload fails. Two changes of a container in any initial state are a stop and a
start, in either order, or a network left and destroyed.

**Certificates** starts from files of any age and keys of any form. The clock
makes one step, issued certificates last two, so certificates are fresh, due and
expired at the moment of any step. One caller, because the program has one; it
and the renewal thread contend for both locks, in either order.

**HostSettings** lets two containers, each run with one of seven environments,
arrive, leave and return, and scans them in either order. Two are what matters to
a host: one it was made for and one that joined. Five handlers are enough for the
first to arrive, the second to join, either to leave and to come back, or a rescan
in between. The seven environments (`MCEnvironments`) have every kind of scheme under
one name, overrides by `LETSENCRYPT_HOST` and `VIRTUAL_PORT`, a static variable
that collides with another one, malformed variables, two variables for one
location, passwords for a host, for a location, for one that does not exist and
for no host, one of them too long and one for a user who has another, filters of their own, global and of junk. `FragmentsAgree` is checked
on each of them in every order of reading. The properties say what a container
may count on when it shares a host: `AccessKept`, that nothing another container
does changes its place, its filter or whether a password is asked for there;
`PasswordsKept`, that whoever is in the password file stays in it, unless another
credential is kept for the same path, or another password for the same user, or
a failed write has cut the file short; `FiltersAreAsked`, that a filter is
never put together from two; `LocationsFollowPrimary`, that a location's own
scheme, port and flags are those of the container it was made for and that each
container is listed with its own; `DirectivesOnce`, that what the template
writes has no directive twice, although `Set` appends to the map behind it;
`PassMatchesScheme`, that the directive and the backend's scheme are of one kind
(no environment mixes gRPC and HTTP, see Findings); `ProtectedHaveFile`. That the
environments meet the restrictions the theorems assume is `RestrictionsHold`
in `MCHostSettings`, which TLC evaluates.

**Logger** fills the current file and both backups and drops the oldest, with
two entries to a file and eight in all. Two goroutines can both pass the check of
the size before one of them writes; a rotation can fail or the process be killed
at each rename, and the next rotation meets the gap. There is a file more than
there are names, so that `rename` never runs out of a place to write to.

`SPECIFICATION` is `FairSpec` in `Progress`, `Certificates` and `Logger`, `Spec` in
the others. `MaxOps`, `MaxTime` and `MaxEntries` bound the changes Docker makes (in
`HostSettings` the handlers that begin), the clock, and the entries logged: all of
them bound what comes from outside and none a step of the program. Deadlock
checking is off in `HostSettings` and `LostWebSocket`, where nothing is left to do
after `MaxOps` handlers; in every other run it is on (`Rest` lets a quiet proxy
stutter) and finds any handler that would block.

## Fairness

`WebServer!FairSpec` is weak fairness of `Proceed` (the lock holder's next
statement) and of `Handle` (some waiting goroutine gets the lock). Goroutines
run, requests to Docker have results or errors, and a Go mutex does not stay free
while somebody waits. Nothing is assumed of which goroutine gets it, nor of
Docker, nor of the stream.

`Certificates!FairSpec` is weak fairness of the steps of an order (requests have
time-outs), and strong fairness of whatever waits for a lock: `StartOrder`,
`CallStep` and `RenewalStep`. Strong fairness is what Go's mutex gives: after a
millisecond a waiter puts it in starvation mode, in which the lock is handed to
the waiters in order. Calls, crashes and the clock are not fair.

`Logger!FairSpec` is strong fairness of `Stat` and `Write`, which begin by waiting
for `l.mu`, for the same reason, and weak fairness of the steps of a rotation,
which has the lock and only waits for the file system. New calls, `Close`, crashes
and restarts are not fair.

## Proofs

Everything below is checked by `tlapm`, for any containers, hosts, paths,
networks, environments, domains, callers, goroutines and files, and any value of
the bounds.

| Theorem | Property | Inductive invariant |
| --- | --- | --- |
| `TypeCorrect` | `TypeOK` | `TypeOK` |
| `RemovalPending` | `PendingRemoval` | `RemovalInv == TypeOK /\ NothingBeforeStart /\ PendingRemoval` |
| `DetachPending` (assumes `DockerAnswers`) | `PendingDetach` | `RemovalInv /\ PendingDetach` |
| `QuietlyRegistered` (assumes `NobodyDies`) | `QuietRegistered` | `ArrivalInv == RemovalInv /\ KnowsItself /\ Registering` |
| `UpstreamsInStep` | `UpstreamsMirrorLocations` | `TableInv` |
| `NothingIsEmpty` | `NothingEmpty` | `TableInv` |
| `SecureServersCertified` | `SecureServersHaveCertificates` | `TableInv` |
| `TLSAlwaysWins` (assumes `~NginxFaults`) | `TLSWins` | `WinsInv` |
| `RoutesRefined` | `RefinesRouteTable` | `TableInv`, then step by step |
| `CertTypeCorrect` | `CertTypeOK` | `CertTypeOK` |
| `ChallengesServed` | `ChallengeServed` | `ChallengeInv == CertTypeOK /\ OrderHeld /\ ChallengeServed` |
| `CacheInTime` | `CacheNeverLate` | `CacheInv == CertTypeOK /\ NeverAhead /\ FoundInTime /\ CacheNeverLate` |
| `AccessIsKept` | `AccessKept` | none: it holds of every step |
| `FilterIsAsked` | `FiltersAreAsked` | `FiltersAreAsked` |
| `SettingsTypes` | `SettingsTypeOK` | `SettingsInv` |
| `LocationsAreOfOneContainer` | `LocationsFollowPrimary` | `SettingsInv` |
| `PasswordsHaveFiles` | `ProtectedHaveFile` | `SettingsInv` |
| `PasswordsAreKept` | `PasswordsKept` | `SettingsInv /\ AllWellGiven` |
| `DirectivesAreOnce` | `DirectivesOnce` | `SettingsInv` |
| `PassesMatchSchemes` (assumes `GRPCBothSides`) | `PassMatchesScheme` | `SettingsInv` |
| `FragmentsDoAgree` (assumes `OneStaticEach`, `NoPortZero`) | `FragmentsAgree` | `SettingsInv` |
| `VariablesOrderDoesNotMatter` | none, a fact about `Fragments` | induction over the variables |
| `LoggerTypeCorrect` | `LoggerTypeOK` | `LoggerInv` |
| `EntriesGoToCurrent` | `WritesGoToCurrent` | `LoggerInv` |
| `SizeIsBounded` | `SizeBounded` | `LoggerInv /\ SizeInv` |
| `RefinesLogBook` | `OldestDroppedFirst` | `LoggerInv /\ OrderInv`, then step by step |

`HostTable_proofs` says what each operation of the table keeps: a rebuild, a
merge, a removal, the certificate pass and the choice for the template all
yield well-formed tables (`RebuildKeeps`, `MergeKeeps`, `AddHostsKeeps`,
`RemovalKeeps`, `PreparationKeeps`, `ConsolidationKeeps`, `RenderingKeeps`), and
the containers of the result are those of the arguments, less the removed one.
`WebServer_proofs` uses only these facts about the table.

`PendingRemoval` is nearly inductive as it stands. The argument: only
`CommitContainer` and `ScanContainer` add containers, and they add one that had
an address when it was inspected; `Routed` already counts it from that moment.
If it dies after that, Docker reports a die event, because a stream that is not
dead is recording at that point, and only a handler of such an event takes it
from the bag, which also takes the container out of the table. What is missing is
that nothing is routed before the stream records: `NothingBeforeStart`. The
bag's counters are natural numbers, which is part of `TypeOK`.

`PendingDetach` goes the same way, with the networks a container is on in place
of its life. It needs `DockerAnswers`, no failed requests and `disconnect` among
the events: a container whose inspection fails when its network leaves is out of
the table for good, and without the event nobody would look.

`QuietRegistered` is about a proxy at rest, so the proof needs what holds while it
is not. `Registering` says that every wanted container is in the table, or on its
way there: the lock holder has it in its list or in its hand, or an event about it
that a handler looks at is waiting. `KnowsItself` says that the proxy knows the
networks it is on, and that no event in flight ends a container (`Harmless`). The
scan is why it holds at the beginning: what started before the time stamp is
listed, what started later is reported, and what did both is handled twice.
`NobodyDies` has the assumptions: Docker answers and reports connects, no container
dies or is signalled, the proxy stays on its networks, and no container has
`STATIC_VIRTUAL_HOST` variables only, which a rescan skips (`webserver.go:494`).
Without the middle two the property fails, which is the run `Reordered`; the
constants of `Startup` meet all of them.

`TableInv == TypeOK /\ Sound(hosts) /\ PortKept(hosts) /\ SecureServersHaveCertificates`.
`Sound` says of every host that its locations have containers and that upstreams
and locations are in step. It is not kept by a fragment being merged, where
upstreams are stale until `rebuildHostUpstreams` has run: the proof follows the
code and shows that a rebuild puts any host in step (`RebuildPutsInStep`) and that
every merge ends in one. `PortKept` says that a host keeps the port of its key,
or 443, through the certificate pass; it is what tells that no secured server is
left on port 80.

The refinement is proved with `routes` mapped to the triples read off the table.
Adding a container's fragments adds exactly the routes its entries ask for,
because `addHost` adds containers to locations and takes none away; removing it
drops its own and no other, because what is deleted as empty had nothing else in
it; the certificate pass and the choice for the template change no location.

`WinsInv` says that what was last written agrees with the table on which names
have TLS, except between a change and the reload that follows it under the same
lock; a container that leaves only makes fewer hosts secured. If writing may fail
(`NginxFaults`), the old file stays and the theorem's assumption is needed.

`ChallengeServed` needs `OrderHeld`: whoever is between the first and the last
step of an order holds `acme`. `CacheNeverLate` needs `NeverAhead`, that no file's
or cached expiry lies more than a lifetime ahead of the clock, so that a newly
issued certificate is never older than what the cache says, and `FoundInTime`,
that the expiry the renewal thread has read and not yet stored is still not later
than the file's.

`AccessKept` is an action property: in one step of container `c`, every container
`d # c` keeps its place, its filter and the flags that say whether a password is
asked for there. The proof takes the handlers apart and shows that the merge into
an existing host takes over neither of them, and that a host is deleted only when
`c` was its last container. It says nothing of the passwords.

`PasswordsKept` does, and needs to know where lines come from. `AllWellGiven` says
that every stored credential was given by some container, and every line of a
file by one for a path something is still stored for; none of the lines has a
password too long. So a line that is missing from a newly written file is either
no longer stored, and then another credential has taken its path (paths are
overwritten and never removed), or it is stored and its user was written with
another password (`KeptIsWritten`). All other steps leave the files alone.

The other theorems about `HostSettings` rest on one invariant, `SettingsInv`: every
location's own scheme, port, flags and directives are those of a fragment of its
`primary`, each of its containers is listed as a fragment of that container has
it, and what is protected has its file (`Sound`); credentials and files are
for known hostnames (`ProcessorOK`). It is kept because `addHost` never touches
these fields of a location that is there, and a file that was written is written
again but not removed. What is left is what a fragment can be, and that is shown
once, in `VirtualHosts_proofs`: `ProcessVirtualHosts` is a recursion over the
variables, so the facts are proved by induction on how many of them were read
(`Common`): the hosts have the declared shape with each directive at most once, they
are those of the entries read so far with TLS where one has it (`Agrees`), and
`grpc_pass` goes with gRPC schemes (`Passing`). At the end all variables have been
read, whatever the order, so the result is the same: an order is an injection of
`1..n` into itself, and `InjectionIsOnto` says that it leaves none out.

`FragmentsDoAgree` compares this with what `HostTable` makes of the set of a
container's entries (`Table` is `HostTable` with the entries of the environments):
the same hosts, TLS, locations and containers. So the fragments `WebServer` works
with are those of `VirtualHosts`. It needs `NoPortZero`, because a port 0 becomes
443 after TLS was decided on, which `HostTable` does not have, and `OneStaticEach`:
a static entry replaces the host that is there, and static entries come first, so
what it replaces can only come from another static one. Two of them for one host and
port leave one, by map order. `Passing` needs `GRPCBothSides` (see
[Findings](#findings)).

`LoggerInv == LoggerTypeOK /\ RotationInv /\ NamesDiffer /\ OpenIsCurrent`: whoever
rotates holds `l.mu` and the file is closed; no file has two names; an open
`l.file` is the one under slot 0. A failed rotation keeps it, because the file
stays closed. `SizeInv` adds to the length of the open file the number of
goroutines that have passed the check and not written: each write takes one off
and puts one on, so the limit is passed by as many entries as there are
goroutines less one, and not by more.

`OrderInv` cuts the entries ever written into one interval per name: there are
`at[0] >= at[1] >= ...` such that the file under the n-th name holds the entries
after `at[n+1]` up to `at[n]`. `Kept` is then the interval from the last cut to the
newest entry (`KeptIsInterval`, by induction over the names), a write makes it one
longer, and a renaming moves a cut, so that `Kept` is unchanged or loses its
oldest. This needs that a rotation renames to a name that its previous step has
freed, except at the last backup: the second part of `OrderInv`. A gap left by a
crash or a failed rename is an empty interval.

`InductionLemmas` has the one form of induction these proofs use. The library's
theorems on induction take an operator as a parameter, which the provers cannot
instantiate; here the elements for which a fact holds are a set, and a set of
naturals that has 0 and every successor is `Nat` (`SetInduction`, `BoundedInduction`).
It is derived from the library's well-foundedness of inclusion on finite sets.

The assumptions are the `ASSUME`s of the modules: port 80 and 443 exist, network
names are distinct, the proxy is not one of the containers, `die` is among the
events Docker reports, times and bounds are natural numbers, the renewal
threshold is shorter than a lifetime, there are finitely many goroutines, and a
log has at least one backup and one entry, environments are records of the declared
form (`EnvironmentAssumption`), a password too long is a password
(`PasswordAssumption`); and those named in the table.

Only model-checked: the liveness properties `EventsDrain`, `DeadContainersLeave`,
`CallsReturn` (of `Certificates` and of `Logger`) and `RenewalsStart`. Liveness under
fairness, and `ENABLED`, are out of the prover's reach. Every invariant and every
other action property of a passing run is proved. What the runs that expect a
violation check is, of course, false.

## Findings

Each is a run whose counterexample is a behaviour of the code.

- `Reordered`: a restarted container's die may be handled after its start; it
  runs and is not in the table until its next event (`event/event.go:88`).
- `SilentRemoval`: a stopping container's disconnect event takes it out of the
  table without a reload, and the die event that follows finds nothing to
  remove; nginx keeps serving it (`webserver.go:729`).
- `StalePrimary`: with one container left, a location proxies to the address it
  was made with, which may be that of one that left (`host/host.go:458`).
- `ForgottenRenewal`: a failed renewal takes its domain out of the cache for good
  (`certificate_manager.go:256`).
- `LostWebSocket`: of two variables of one container, `https://h` and `wss://h/ws`
  as in `src/README.md:183`, the WebSocket location has no WebSocket set up when
  the HTTPS one is read first (`host/host.go:145`, `virtual_host.go:345`).

More are visible in the models and are a matter of one step or one value each; no
run is spent on them:

- After one error on the event stream no change is noticed any more
  (`event/event.go:83`; `EndStream`).
- The certificate URL is read from an order that has none yet, and the process
  panics (`acme/acmev2.go:345`; `Panic`).
- `handleNetworkDisconnect` deletes a network's entry and then looks its name up
  in the same map, so the name stays (`webserver.go:327`; `HandleSelfDisconnect`).
- With Docker's default HOSTNAME, the 12-character ID, the proxy does not
  recognise its own network events, which carry the full one (`webserver.go:447`;
  `SelfRecognised = FALSE`).
- `/v1.0` and `/v1/0` of one host get one upstream ID (`webserver.go:1039`;
  `Sanitized`), and nginx refuses two upstreams of one name (`NginxAccepts`).
- Of two ports of one hostname only one is written (`webserver.go:1117`;
  `Choices`).
- A host that asks for TLS and has no certificate file is served without, and no
  certificate is ordered (`webserver.go:874`; `PrepareSSL`).
- The ports a container exposes are never its port: a default by scheme is filled
  in before they are looked at, where `src/README.md:131` has "exposed port".
- Of `example.com/api -> /` the path `/api` is lost, where `src/README.md:136` keeps
  it: `ParseVirtualHost` returns one path.
- Both forms of `PROXY_BASIC_AUTH` in `src/README.md:242` and `:245` are refused: the first for want of an
  arrow, the second for naming two users.
- `PROXY_TRUSTED_IPS` is read from the environment, not from labels
  (`src/README.md:291`); one of nothing but junk turns the global filter off.
- `PROXY_FULL_REDIRECT` (`src/README.md:191`) is processed by nobody.
- A host for port 0 is served without TLS on port 443: the port is replaced after
  TLS was decided on (`virtual_host.go:331`; `Overridden`, `StaticEntry`).
- `mergeExtras` says it replaces directives (`webserver.go:1073`) and calls `Set`,
  which appends; the map grows with every return of a container (`JoinedExtras`).
- gRPC on one side of the arrow only makes a pass directive of one kind and a
  scheme of the other (`virtual_host.go:417`).
- Credentials outlive the container that brought them: they are never removed and
  go into the next password file of that hostname (`ProcessBasicAuth`). A second
  container with a credential for the same path replaces the first one's.
- A password that cannot be hashed is passed over with a line in the log, and the
  host is protected all the same: its user cannot log in (`basic_auth.go:181`;
  `FileLines`).
- A password file is truncated before it is written; if the write fails, the new
  host goes in unprotected and the users of the others of that name are shut out
  until the file is next written (`basic_auth.go:137`; `ProcessBasicAuth`).
- An upstream lists each container at its own port, and nginx passes to all of
  them with the scheme, path and directives of the one the location was made for
  (`webserver.go:994`, `:1051`, `src/templates/nginx.conf.tmpl:39`, `:96`;
  `JoinLocation`).
- A rotation that fails leaves the logger with a closed file; `Stat` fails from
  then on and nothing is logged until a restart (`logger.go:134`; `RotateFails`).

## Not modelled

- Which certificate files exist (`Certified`) is fixed during a run of
  `WebServer`: they change only through other processes or the default
  certificate.
- The files of `ensureDefaultCertificate`, renamed one after the other before any
  goroutine runs; a start that finds one missing makes both again.
- `cmd/getssl` as a process beside the proxy; its order is the one in
  `Certificates`.
- The self-signed files of the certificate manager: nothing in it reads them
  again. `SelfSign` is the step that writes them and returns.
- The contents of ACME requests, signatures and nonces; every request succeeds or
  fails. The text of variables and of the configuration file, letter by letter;
  log levels and formats; everything nginx does with a request.
- Extras with `key=value`, other than those `AddLocation` reads.
- Dead code: `updateContainer`, `removeContainer`, `ForceStart`,
  `GenerateConfig`, `Start` of the event processor, `SolveDNSChallenge` and the
  DNS provider, `Shutdown` of the certificate manager, `errors.Retry`, `health`,
  `server`, `host/proxy_config.go`, `host/basic_auth.go`, the redirect and
  default-server processors.

## Plan

Done: the table, its handlers and their abstraction; the certificates; the
variables, the settings of hosts; the logger and its abstraction; theorems for all
safety properties of the passing runs. Left, in order of importance:

1. `DefaultCertificate`: the two renames, a crash between them and the next
   start.
2. `getssl` as a second process of `Certificates` that shares the files and
   neither lock. `ChallengeServed` needs a weaker form there.
