---------------------------- MODULE HostSettings ----------------------------
(***************************************************************************)
(* What a virtual host is set up with besides its containers: basic         *)
(* authentication and its password files, the IP filter, the directives and *)
(* flags of its locations.  Containers that share a host arrive in any      *)
(* order and leave again; the one a host or a location was made for settles *)
(* most of it.                                                              *)
(*                                                                          *)
(* ws.mu is held for a whole handler, so a handler is one action here; only *)
(* the rescan takes one step per container, in the order Docker lists them. *)
(* Docker's events, their order and nginx are the subject of WebServer,     *)
(* upstreams and the choice of the hosts to render that of HostTable.       *)
(***************************************************************************)
EXTENDS VirtualHosts

CONSTANTS
    User, Password,
    TooLong,       \* passwords bcrypt takes for too long
    NoHost,        \* the hostname of a URL that has none
    Environments,  \* what containers may be run with
    GlobalParts,   \* TRUSTED_PROXY_IPS of the proxy
    GlobalHeader,  \* REAL_IP_HEADER of the proxy
    Certified,     \* hostnames with certificate files
    WriteFaults,   \* whether writing a password file may fail
    MaxOps         \* bound: how many handlers run

ASSUME HostAssumption == NoHost \notin Hostname
ASSUME PasswordAssumption == TooLong \subseteq Password
ASSUME OpsAssumption == MaxOps \in Nat
ASSUME EnvironmentAssumption ==
    \A e \in Environments :
        /\ IsEnvironment(e)
        /\ e.auth.ok => /\ e.auth.host \in Hostname \cup {NoHost} /\ e.auth.path \in Path
                        /\ e.auth.user \in User /\ e.auth.pass \in Password

VARIABLES
    env,          \* external: the environment of each container
    hosts,        \* ws.hosts, by <<hostname, port>>
    credentials,  \* BasicAuthProcessor.credentials: hostname to path to [user, pass]
    htpasswd,     \* the password files: whether they exist, their lines, and
                  \* whether the last writing came to its end (read by no action)
    scan,         \* the containers a rescan has listed and not yet added
    scanning,     \* whether a rescan holds ws.mu
    ops           \* number of handlers so far

processor == <<credentials, htpasswd>>
vars == <<env, hosts, credentials, htpasswd, scan, scanning, ops>>

NoFile == [there |-> FALSE, lines |-> {}, whole |-> TRUE]

(* A host and a location with some of their fields replaced.                *)
HostWith(h, ssl, filter, locs) ==
    [ssl |-> ssl, orig |-> h.orig, auth |-> h.auth, filter |-> filter, locs |-> locs]
LocationWith(l, containers, extras) ==
    [containers |-> containers, primary |-> l.primary, scheme |-> l.scheme, port |-> l.port,
     auth |-> l.auth, extras |-> extras, injected |-> l.injected,
     grpc |-> l.grpc, ws |-> l.ws, http |-> l.http]

Members(l) == DOMAIN l.containers

-----------------------------------------------------------------------------
(* ProcessIPFilter.  The text of a list of ranges is its parts: a range, a  *)
(* bare address or junk.                                                    *)

(* ParseAndValidateCIDRs: a bare address becomes a range, junk is left out. *)
Ranges(parts) ==
    {[net |-> p.net, mask |-> CASE p.form = "cidr" -> "own"
                                [] p.form = "ip4" -> "/32"
                                [] p.form = "ip6" -> "/128"] :
        p \in {q \in parts : q.form # "junk"}}

(* env[c].trusted is {} when PROXY_TRUSTED_IPS is unset or empty.  A list   *)
(* of junk overrides the global list like any other.                        *)
FilterOf(e) ==
    LET ips == IF e.trusted # {} THEN Ranges(e.trusted) ELSE Ranges(GlobalParts)
    IN  IF ips = {} THEN NoFilter
        ELSE [on |-> TRUE, ips |-> ips,
              header |-> IF e.header # NoText THEN e.header ELSE GlobalHeader]

(* The fragment H has no filter yet; without any range it gets none.        *)
ProcessIPFilter(e, H) ==
    [k \in DOMAIN H |-> HostWith(H[k], H[k].ssl, FilterOf(e), H[k].locs)]

-----------------------------------------------------------------------------
(* ProcessBasicAuth.  env[c].auth.ok says whether PROXY_BASIC_AUTH is set   *)
(* and passes every check of its format.                                    *)

(* The map of users and passwords a file is written from: if two paths give *)
(* a user two passwords map order decides.                                  *)
AuthMaps(cs) ==
    LET all == {cs[p] : p \in DOMAIN cs}
    IN  {L \in SUBSET all : \A x \in all : \E y \in L :
            y.user = x.user /\ \A z \in L : z.user = x.user => z = y}

(* The lines of a password file.  A password that cannot be hashed is       *)
(* passed over, which is no error.                                          *)
FileLines(cs) == {{x \in L : x.pass \notin TooLong} : L \in AuthMaps(cs)}

(* SetBasicAuth or SetLocationBasicAuth; a location the host does not have  *)
(* is passed over.                                                          *)
Protect(h, path) ==
    CASE path = Root -> [h EXCEPT !.auth = TRUE]
      [] path # Root /\ path \in DOMAIN h.locs -> [h EXCEPT !.locs[path].auth = TRUE]
      [] OTHER -> h

(* Variant: the map of a hostname's credentials is made anew for each.      *)
StoreAlone(cs, a) == Put(<<>>, a.path, [user |-> a.user, pass |-> a.pass])

(* A hostname's credentials with the one a container gives for a path.      *)
StoreCredential(cs, a) == Put(cs, a.path, [user |-> a.user, pass |-> a.pass])

(* The file of the hostname h is truncated and written.                     *)
WriteFile(h, lines, whole) ==
    htpasswd' = [htpasswd EXCEPT ![h] = [there |-> TRUE, lines |-> lines, whole |-> whole]]

(* Variant: the host is protected before its file is written.               *)
ProtectFirst(e, H, G) ==
    IF ~e.auth.ok THEN G = H /\ UNCHANGED processor
    ELSE LET a == e.auth
             cs == StoreCredential(credentials[a.host], a)
             keys == {k \in DOMAIN H : k[1] = a.host}
         IN  /\ credentials' = [credentials EXCEPT ![a.host] = cs]
             /\ IF keys = {} THEN G = H /\ UNCHANGED htpasswd
                ELSE \E L \in FileLines(cs) :
                        /\ \E k \in keys : G = [H EXCEPT ![k] = Protect(@, a.path)]
                        /\ \/ WriteFile(a.host, L, TRUE)
                           \/ WriteFaults /\ UNCHANGED htpasswd

(* G is what becomes of the fragment H.  The credential is kept whatever    *)
(* happens next, and for good.  The file is written anew with all that are  *)
(* kept for the hostname; if that fails half way it stays cut and H         *)
(* unprotected.  One host of the name is protected, whichever map order     *)
(* meets first.                                                             *)
ProcessBasicAuth(e, H, G) ==
    IF ~e.auth.ok THEN G = H /\ UNCHANGED processor
    ELSE LET a == e.auth
             cs == StoreCredential(credentials[a.host], a)
             keys == {k \in DOMAIN H : k[1] = a.host}
         IN  /\ credentials' = [credentials EXCEPT ![a.host] = cs]
             /\ \/ keys = {} /\ G = H /\ UNCHANGED htpasswd
                \/ /\ \E k \in keys : G = [H EXCEPT ![k] = Protect(@, a.path)]
                   /\ \E L \in FileLines(cs) : WriteFile(a.host, L, TRUE)
                \/ /\ WriteFaults /\ keys # {} /\ G = H
                   /\ \/ UNCHANGED htpasswd
                      \/ \E L \in FileLines(cs) : \E cut \in SUBSET L :
                            WriteFile(a.host, cut, FALSE)

-----------------------------------------------------------------------------
(* addHost, and taking a container out.                                     *)

(* mergeExtras adds the directives up: Set appends to what is there.        *)
JoinedExtras(old, new) == [d \in Directive |-> old.extras[d] + new.extras[d]]

(* Each container keeps the scheme and port it came with.                   *)
JoinedContainers(old, new) ==
    [x \in Members(old) \cup Members(new) |->
        IF x \in Members(new) THEN new.containers[x] ELSE old.containers[x]]

(* Variants: all containers are listed with the location's own port; the    *)
(* directives are set from the joined extras.                               *)
JoinAtOnePort(old, new) ==
    LocationWith(old, [x \in Members(old) \cup Members(new) |->
                          [scheme |-> old.scheme, port |-> old.port]],
                 JoinedExtras(old, new))
JoinInjecting(old, new) ==
    [LocationWith(old, JoinedContainers(old, new), JoinedExtras(old, new)) EXCEPT
        !.injected = JoinedExtras(old, new)]

(* The containers are joined and the extras merged; whatever else the       *)
(* location has is that of the container it was made for.                   *)
JoinLocation(old, new) ==
    LocationWith(old, JoinedContainers(old, new), JoinedExtras(old, new))

MergeLocations(L, M) ==
    [p \in DOMAIN L \cup DOMAIN M |->
        IF p \notin DOMAIN M THEN L[p]
        ELSE IF p \notin DOMAIN L THEN M[p]
        ELSE JoinLocation(L[p], M[p])]

(* Variants: the newcomer's protection, or its ranges, are merged too.      *)
MergeProtecting(old, new) ==
    [HostWith(old, old.ssl \/ new.ssl, old.filter, MergeLocations(old.locs, new.locs)) EXCEPT
        !.auth = @ \/ new.auth]
MergeRanges(old, new) ==
    HostWith(old, old.ssl \/ new.ssl,
             [old.filter EXCEPT !.on = @ \/ new.filter.on, !.ips = @ \cup new.filter.ips],
             MergeLocations(old.locs, new.locs))

MergeHost(old, new) ==
    HostWith(old, old.ssl \/ new.ssl, old.filter, MergeLocations(old.locs, new.locs))

AddHosts(T, H) ==
    [k \in DOMAIN T \cup DOMAIN H |->
        IF k \notin DOMAIN H THEN T[k]
        ELSE IF k \notin DOMAIN T THEN H[k]
        ELSE MergeHost(T[k], H[k])]

Others(l, c) == [x \in Members(l) \ {c} |-> l.containers[x]]

(* Variant: a location that lost its last container stays.                  *)
RemainingAll(h, c) ==
    HostWith(h, h.ssl, h.filter,
             [p \in DOMAIN h.locs |->
                 LocationWith(h.locs[p], Others(h.locs[p], c), h.locs[p].extras)])

Remaining(h, c) ==
    HostWith(h, h.ssl, h.filter,
             [p \in {q \in DOMAIN h.locs : Members(h.locs[q]) # {c}} |->
                 LocationWith(h.locs[p], Others(h.locs[p], c), h.locs[p].extras)])

RemoveContainerFromHosts(T, c) ==
    [k \in {j \in DOMAIN T : DOMAIN Remaining(T[j], c).locs # {}} |-> Remaining(T[k], c)]

(* What reload leaves of a host here: TLS only with a certificate.          *)
Reload(T) ==
    [k \in DOMAIN T |-> HostWith(T[k], T[k].ssl /\ k[1] \in Certified, T[k].filter, T[k].locs)]

Serving(c) == \E k \in DOMAIN hosts : \E p \in DOMAIN hosts[k].locs : c \in Members(hosts[k].locs[p])

-----------------------------------------------------------------------------
(* The handlers.                                                            *)

Handler == ~scanning /\ ops < MaxOps /\ ops' = ops + 1

(* The table T with the fragment H, which the processors made G.            *)
Committed(T, e, H, G, reloads) ==
    LET N == AddHosts(T, ProcessIPFilter(e, G))
    IN  IF H = <<>> THEN T ELSE IF reloads THEN Reload(N) ELSE N

(* An inspected container's hosts are put into the table T; reloads says    *)
(* whether nginx is reloaded then.                                          *)
Configure(T, c, reloads) ==
    \E H \in Fragments(c, env[c]) :
      \E G \in {H} \cup {[H EXCEPT ![k] = Protect(@, env[c].auth.path)] : k \in DOMAIN H} :
        /\ IF H = <<>> THEN G = H /\ UNCHANGED processor ELSE ProcessBasicAuth(env[c], H, G)
        /\ hosts' = Committed(T, env[c], H, G, reloads)

(* updateContainerLocked; the inspection may fail or find no address.       *)
UpdateContainer(c) ==
    /\ Handler
    /\ \/ Configure(RemoveContainerFromHosts(hosts, c), c, TRUE)
       \/ hosts' = RemoveContainerFromHosts(hosts, c) /\ UNCHANGED processor
    /\ UNCHANGED <<env, scan, scanning>>

(* handleContainerDie; nginx is reloaded only if the container was in use.  *)
RemoveContainer(c) ==
    /\ Handler
    /\ hosts' = IF Serving(c) THEN Reload(RemoveContainerFromHosts(hosts, c)) ELSE hosts
    /\ UNCHANGED <<env, credentials, htpasswd, scan, scanning>>

(* rescanAllContainers: the table is emptied, the running containers are    *)
(* listed.  Credentials and files stay.                                     *)
BeginRescan ==
    /\ Handler
    /\ hosts' = <<>>
    /\ scan' \in SUBSET Container
    /\ scanning' = TRUE
    /\ UNCHANGED <<env, credentials, htpasswd>>

ScanContainer(c) ==
    /\ scanning /\ c \in scan
    /\ scan' = scan \ {c}
    /\ \/ Virtuals(env[c]) # {} /\ Configure(hosts, c, FALSE)
       \/ UNCHANGED <<hosts, processor>>
    /\ UNCHANGED <<env, scanning, ops>>

EndRescan ==
    /\ scanning /\ scan = {}
    /\ hosts' = Reload(hosts)
    /\ scanning' = FALSE
    /\ UNCHANGED <<env, credentials, htpasswd, scan, ops>>

Init ==
    /\ env \in [Container -> Environments]
    /\ hosts = <<>>
    /\ credentials = [h \in Hostname \cup {NoHost} |-> <<>>]
    /\ htpasswd = [h \in Hostname \cup {NoHost} |-> NoFile]
    /\ scan = {} /\ scanning = FALSE /\ ops = 0

Next ==
    \/ BeginRescan \/ EndRescan
    \/ \E c \in Container : UpdateContainer(c) \/ RemoveContainer(c) \/ ScanContainer(c)

Spec == Init /\ [][Next]_vars

-----------------------------------------------------------------------------
(* Properties.                                                              *)

IsFunctionOf(f, A) == DOMAIN f \subseteq A /\ f = [x \in DOMAIN f |-> f[x]]

IsLocation(l) ==
    /\ Members(l) \subseteq Container /\ Members(l) # {} /\ l.primary \in Container
    /\ \A x \in Members(l) : l.containers[x] \in [scheme : Schemes, port : Nat]
    /\ l.scheme \in Schemes /\ l.port \in Nat
    /\ {l.auth, l.grpc, l.ws, l.http} \subseteq BOOLEAN
    /\ l.extras \in [Directive -> Nat] /\ l.injected \in [Directive -> Nat]

(* Every table holds values its declaration in the code allows, and no      *)
(* location is left without a container.                                    *)
SettingsTypeOK ==
    /\ env \in [Container -> Environments]
    /\ \A k \in DOMAIN hosts :
          /\ k[1] \in Hostname /\ k[2] \in Nat
          /\ {hosts[k].ssl, hosts[k].auth, hosts[k].filter.on} \subseteq BOOLEAN
          /\ hosts[k].orig \in Schemes
          /\ DOMAIN hosts[k].locs \subseteq Path /\ DOMAIN hosts[k].locs # {}
          /\ \A p \in DOMAIN hosts[k].locs : IsLocation(hosts[k].locs[p])
    /\ \A h \in Hostname \cup {NoHost} :
          /\ \A p \in DOMAIN credentials[h] : credentials[h][p] \in [user : User, pass : Password]
          /\ htpasswd[h] \in [there : BOOLEAN, lines : SUBSET [user : User, pass : Password],
                              whole : BOOLEAN]
    /\ scan \subseteq Container /\ scanning \in BOOLEAN /\ ops \in 0..MaxOps

ParsedEntries(e) == {EntryOf(e, e.vars[i]) : i \in {j \in DOMAIN e.vars : Parsed(e, j)}}

(* The table with what parsing the variables yields for its entries.        *)
TableEntry(e, v) ==
    LET r == ParseHostEntry(v.text)
    IN  [host |-> r.host, port |-> r.port, path |-> r.path, static |-> v.static,
         ssl |-> r.ssl \/ (~v.static /\ Overrides(e) /\ e.letsencrypt)]

TableEntries(e) == {TableEntry(e, e.vars[i]) : i \in {j \in DOMAIN e.vars : Parsed(e, j)}}

Table == INSTANCE HostTable WITH
            Port <- Nat, Slug <- Path, Sanitized <- [p \in Path |-> p], Malformed <- {},
            Entries <- [c \in Container |-> TableEntries(env[c])]

(* In whatever order the variables of a container are read, it asks for the *)
(* same hosts and locations, with TLS where one of the entries has it: for  *)
(* those HostTable builds at once from the set of its entries               *)
(* (ProcessVirtualHosts ranges over a map and merges as it goes).           *)
FragmentsAgree ==
    \A c \in Container : \A H \in Fragments(c, env[c]) :
        LET G == Table!ProcessVirtualHosts(c, {"net"}, {"net"})
        IN  /\ DOMAIN H = DOMAIN G
            /\ \A k \in DOMAIN H :
                  /\ H[k].ssl = G[k].ssl
                  /\ DOMAIN H[k].locs = DOMAIN G[k].locs
                  /\ \A p \in DOMAIN H[k].locs :
                        /\ Members(H[k].locs[p]) = G[k].locs[p].cts
                        /\ H[k].locs[p].primary = G[k].locs[p].primary

Data(l) == <<l.scheme, l.port, l.ws, l.http, l.grpc, l.injected>>

(* The container x of the location l at k and p has the scheme and port it  *)
(* asks for there.                                                          *)
ListedAsAsked(k, p, l, x) ==
    \E H \in Fragments(x, env[x]) :
        /\ k \in DOMAIN H /\ p \in DOMAIN H[k].locs
        /\ l.containers[x] = H[k].locs[p].containers[x]

(* Through all joins, departures and rescans a location's own scheme, port, *)
(* flags and directives are, field by field, those one container asks for,  *)
(* the one it was made for; and each of its containers is listed with the   *)
(* port that container asks for.  The two do meet: an upstream names every  *)
(* container at its own port, and nginx passes to all of them in the scheme *)
(* and with the directives of the one (addHost, Host.RemoveContainer).      *)
LocationsFollowPrimary ==
    \A k \in DOMAIN hosts : \A p \in DOMAIN hosts[k].locs :
        LET l == hosts[k].locs[p]
        IN  /\ \E H \in Fragments(l.primary, env[l.primary]) :
                  k \in DOMAIN H /\ p \in DOMAIN H[k].locs /\ Data(l) = Data(H[k].locs[p])
            /\ \A x \in Members(l) : ListedAsAsked(k, p, l, x)

(* A directive is written once in a location however many containers bring  *)
(* it and come back with it: nginx refuses most directives the second time, *)
(* and with them every later reload (ExtrasMap.Update, mergeExtras).        *)
DirectivesOnce ==
    \A k \in DOMAIN hosts : \A p \in DOMAIN hosts[k].locs :
        \A d \in Directive : hosts[k].locs[p].injected[d] <= 1

(* A location is passed on with grpc_pass exactly if its backend's scheme   *)
(* is one of gRPC, when no variable is gRPC on one side only: nginx takes   *)
(* neither directive with a scheme of the other (AddLocation).              *)
PassMatchesScheme ==
    \A k \in DOMAIN hosts : \A p \in DOMAIN hosts[k].locs :
        hosts[k].locs[p].grpc <=> IsGRPC(hosts[k].locs[p].scheme)

(* Where nginx is told to ask for a password there is a password file, even *)
(* if writing one failed (updateHostSecurity).                              *)
ProtectedHaveFile ==
    \A k \in DOMAIN hosts :
        (hosts[k].auth \/ \E p \in DOMAIN hosts[k].locs : hosts[k].locs[p].auth)
            => htpasswd[k[1]].there

(* A host's address filter is, as a whole, that of one container that asks  *)
(* for the host: its own list if it has one and the global list otherwise,  *)
(* never a mixture (ProcessIPFilter, addHost).                              *)
FiltersAreAsked ==
    \A k \in DOMAIN hosts : \E c \in Container :
        /\ \E H \in Fragments(c, env[c]) : k \in DOMAIN H
        /\ hosts[k].filter = FilterOf(env[c])

(* The container d stays in its locations, which ask for a password and     *)
(* filter addresses as they did.                                            *)
Undisturbed(d) ==
    \A k \in DOMAIN hosts : \A p \in DOMAIN hosts[k].locs :
        d \in Members(hosts[k].locs[p]) =>
            /\ k \in DOMAIN hosts' /\ p \in DOMAIN hosts'[k].locs
            /\ d \in Members(hosts'[k].locs[p])
            /\ hosts'[k].locs[p].auth = hosts[k].locs[p].auth
            /\ hosts'[k].auth = hosts[k].auth /\ hosts'[k].filter = hosts[k].filter

(* Whatever one container does, arrive, change, leave or be scanned, every  *)
(* other stays where it was; that a password is asked for there, or none,   *)
(* stays as it was too, and so does the address filter.  Which passwords    *)
(* are accepted is PasswordsKept (updateContainerLocked,                    *)
(* handleContainerDie, rescan, addHost).                                    *)
AccessKept ==
    [][\A c, d \in Container :
          c # d /\ (UpdateContainer(c) \/ RemoveContainer(c) \/ ScanContainer(c))
              => Undisturbed(d)]_vars

Stored(h) == {credentials[h][p] : p \in DOMAIN credentials[h]}

(* The container c gives the credential x for the path p of h.              *)
Gives(c, h, p, x) ==
    LET a == env[c].auth
    IN  a.ok /\ a.host = h /\ a.path = p /\ x = [user |-> a.user, pass |-> a.pass]

(* Another credential is kept for the path x was given for, or the user of  *)
(* x has another password on another path.                                  *)
Superseded(h, x) ==
    \/ x \notin Stored(h) /\ \E c \in Container : \E p \in DOMAIN credentials[h] : Gives(c, h, p, x)
    \/ \E y \in Stored(h) : y.user = x.user /\ y.pass # x.pass

(* A password file is shared by all containers of a hostname and written    *)
(* anew for each of them that brings a credential.  Whoever can log in by   *)
(* one still can after any step, unless that credential gave way to another *)
(* or the file was cut short by a failure: neither a newcomer, nor a        *)
(* departure, nor a rescan shuts the users of the others out                *)
(* (ProcessBasicAuth, updateHostSecurity, generateHtpasswdFile).            *)
PasswordsKept ==
    [][\A h \in Hostname \cup {NoHost} : \A x \in htpasswd[h].lines \ htpasswd'[h].lines :
          ~htpasswd'[h].whole \/ Superseded(h, x)']_vars

(* A location a container asks for with a WebSocket scheme is set up for    *)
(* WebSockets.                                                              *)
WebSocketsServed ==
    \A k \in DOMAIN hosts : \A p \in DOMAIN hosts[k].locs :
        LET l == hosts[k].locs[p]
            asked == {e \in ParsedEntries(env[l.primary]) :
                         e.host = k[1] /\ e.port = k[2] /\ e.path = p}
        IN  (asked # {} /\ \A e \in asked : IsWebSocket(e.orig) /\ e.flags["websocket"] = NoText)
                => l.ws

=============================================================================
