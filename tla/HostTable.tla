------------------------------ MODULE HostTable ------------------------------
(***************************************************************************)
(* The virtual-host table of the proxy, WebServer.hosts, and the pure       *)
(* operations the event handlers build it from: the fragment a container's  *)
(* VIRTUAL_HOST variables yield, merging a fragment (addHost), rebuilding   *)
(* upstreams, taking a container out, the certificate pass of reload and    *)
(* the choice of the hosts the template renders.                            *)
(*                                                                          *)
(* map[hostname]map[port]*Host is a partial function from <<hostname,       *)
(* port>> pairs to host records: the code deletes a hostname whose port map *)
(* is empty.  A backend is known by its container; its address, port, path  *)
(* and scheme are data nothing here distinguishes.                          *)
(***************************************************************************)
EXTENDS Integers

CONSTANTS
    Container,   \* IDs of the containers Docker may run
    Hostname,    \* server names
    Port,        \* server ports; 80 and 443 are treated specially
    Path,        \* location paths
    Slug,        \* path texts with "/" and "." replaced by "_"
    Sanitized,   \* the slug of every path
    Entries,     \* the parsed (STATIC_)VIRTUAL_HOST* variables of each container
    Certified,   \* hostnames with certificate files: exact, wildcard or self-signed
    Malformed    \* containers that inject a directive nginx refuses

Entry == [host : Hostname, port : Port, path : Path, ssl : BOOLEAN, static : BOOLEAN]

Secured(e) == e.ssl \/ e.port = 443

(* Only VIRTUAL_HOST entries have a secured port 80 moved to 443.           *)
EntryKey(e) == <<e.host, IF ~e.static /\ Secured(e) /\ e.port = 80 THEN 443 ELSE e.port>>

ASSUME PortAssumption == Port \subseteq Nat /\ {80, 443} \subseteq Port
ASSUME SanitizedAssumption == Sanitized \in [Path -> Slug]

(* Of two STATIC_VIRTUAL_HOST entries of a container for one host and port  *)
(* the code keeps one, at random; here no container has two.                *)
ASSUME EntriesAssumption ==
    /\ Entries \in [Container -> SUBSET Entry]
    /\ \A c \in Container : \A d, e \in Entries[c] :
          d.static /\ e.static /\ EntryKey(d) = EntryKey(e) => d = e

-----------------------------------------------------------------------------
(* The table's type.                                                        *)

IsPartial(f, A, B) == DOMAIN f \subseteq A /\ f \in [DOMAIN f -> B]
Nothing == [x \in {} |-> x]

Key == Hostname \X Port
UpstreamID == Hostname \X Port \X Slug
NoUpstream == <<>>

(* cts: the containers; primary: the container whose address, path, scheme  *)
(* and injected directives the Location itself carries; up, upstream: the   *)
(* fields UpstreamEnabled and Upstream.                                     *)
Location == [cts : SUBSET Container, primary : Container, up : BOOLEAN,
             upstream : UpstreamID \cup {NoUpstream}]

(* The slice Host.Upstreams is indexed by the location each element was     *)
(* built for, so that two elements with one ID stay two.                    *)
Upstream == [id : UpstreamID, cts : SUBSET Container]

IsHost(h) ==
    /\ h = [host |-> h.host, port |-> h.port, ssl |-> h.ssl, redir |-> h.redir,
            locs |-> h.locs, ups |-> h.ups]
    /\ h.host \in Hostname /\ h.port \in Port /\ h.ssl \in BOOLEAN /\ h.redir \in BOOLEAN
    /\ IsPartial(h.locs, Path, Location)
    /\ IsPartial(h.ups, Path, Upstream)

IsTable(T, K) ==
    /\ T = [k \in DOMAIN T |-> T[k]]
    /\ DOMAIN T \subseteq K
    /\ \A k \in DOMAIN T : IsHost(T[k])

-----------------------------------------------------------------------------
(* Reading a table.                                                         *)

Several(S) == \E a, b \in S : a # b

HostContainers(T) ==
    UNION {UNION {T[k].locs[p].cts : p \in DOMAIN T[k].locs} : k \in DOMAIN T}

Routes(T) == {r \in Container \X Key \X Path :
                 /\ r[2] \in DOMAIN T
                 /\ r[3] \in DOMAIN T[r[2]].locs
                 /\ r[1] \in T[r[2]].locs[r[3]].cts}

-----------------------------------------------------------------------------
(* What one container asks for.                                             *)

NewLocation(c) == [cts |-> {c}, primary |-> c, up |-> FALSE, upstream |-> NoUpstream]

(* The hosts of container c when it has an address on the networks nets and *)
(* the proxy knows the networks known: none without a common network.       *)
ProcessVirtualHosts(c, nets, known) ==
    LET found == IF nets \cap known = {} THEN {} ELSE Entries[c]
        at(k) == {e \in found : EntryKey(e) = k}
    IN  [k \in {EntryKey(e) : e \in found} |->
            [host |-> k[1], port |-> k[2],
             ssl |-> \E e \in at(k) : Secured(e), redir |-> FALSE,
             locs |-> [p \in {e.path : e \in at(k)} |-> NewLocation(c)],
             ups |-> Nothing]]

-----------------------------------------------------------------------------
(* Adding hosts.                                                            *)

(* No location is without containers, so the code's third case (leave such  *)
(* a location alone) does not arise.                                        *)
RebuildHostUpstreams(h) ==
    LET id(p) == <<h.host, h.port, Sanitized[p]>>
        shared == {p \in DOMAIN h.locs : Several(h.locs[p].cts)}
    IN  [h EXCEPT
           !.locs = [p \in DOMAIN h.locs |->
                       [h.locs[p] EXCEPT !.up = p \in shared,
                                         !.upstream = IF p \in shared THEN id(p)
                                                      ELSE NoUpstream]],
           !.ups = [p \in shared |-> [id |-> id(p), cts |-> h.locs[p].cts]]]

(* Variant: a location of the new host takes the place of the old one.      *)
ReplaceLocations(old, new) ==
    [p \in DOMAIN old \cup DOMAIN new |-> IF p \in DOMAIN new THEN new[p] ELSE old[p]]

MergeLocations(old, new) ==
    [p \in DOMAIN old \cup DOMAIN new |->
        IF p \notin DOMAIN new THEN old[p]
        ELSE IF p \notin DOMAIN old THEN new[p]
        ELSE [old[p] EXCEPT !.cts = @ \cup new[p].cts]]

MergeHost(old, new) ==
    RebuildHostUpstreams([old EXCEPT !.locs = MergeLocations(old.locs, new.locs),
                                     !.ssl = @ \/ new.ssl])

(* addHost for every host of the fragment H; their keys are distinct, so    *)
(* the order of the calls does not matter.                                  *)
AddHosts(T, H) ==
    [k \in DOMAIN T \cup DOMAIN H |->
        IF k \notin DOMAIN H THEN T[k]
        ELSE IF k \notin DOMAIN T THEN RebuildHostUpstreams(H[k])
        ELSE MergeHost(T[k], H[k])]

-----------------------------------------------------------------------------
(* Removing a container.                                                    *)

LocationRemoveContainer(l, c) ==
    IF c \notin l.cts THEN l
    ELSE [l EXCEPT !.cts = @ \ {c}, !.up = @ /\ Several(l.cts \ {c})]

(* Variant: upstreams are left to the next rebuild.                         *)
KeepUpstreams(ups, c) == ups

RemoveContainerFromUpstreams(ups, c) ==
    [p \in {q \in DOMAIN ups : ups[q].cts \ {c} # {}} |->
        [ups[p] EXCEPT !.cts = @ \ {c}]]

Serves(h, c) == \E p \in DOMAIN h.locs : c \in h.locs[p].cts

(* A location that held only c goes; the others keep their own address.     *)
HostRemoveContainer(h, c) ==
    IF ~Serves(h, c) THEN h
    ELSE [h EXCEPT
            !.locs = [p \in {q \in DOMAIN @ : @[q].cts # {c}} |->
                         LocationRemoveContainer(h.locs[p], c)],
            !.ups = RemoveContainerFromUpstreams(@, c)]

IsEmpty(h) == \A p \in DOMAIN h.locs : h.locs[p].cts = {}

(* Variant: emptiness is tested before the container is taken out.          *)
RemoveThenForgetToTest(T, c) ==
    [k \in {j \in DOMAIN T : ~IsEmpty(T[j])} |-> HostRemoveContainer(T[k], c)]

(* Variant: a host is left alone by the removal that would empty it.        *)
RemoveUnlessLast(T, c) ==
    [k \in DOMAIN T |-> IF IsEmpty(HostRemoveContainer(T[k], c)) THEN T[k]
                        ELSE HostRemoveContainer(T[k], c)]

RemoveContainerFromHosts(T, c) ==
    [k \in {j \in DOMAIN T : Serves(T[j], c) => ~IsEmpty(HostRemoveContainer(T[j], c))} |->
        HostRemoveContainer(T[k], c)]

-----------------------------------------------------------------------------
(* Rendering.                                                               *)

(* Variant: a host without a certificate keeps TLS.                         *)
PrepareWithoutCheck(T) ==
    [k \in DOMAIN T |->
        IF T[k].ssl /\ k[2] \in {80, 443} THEN [T[k] EXCEPT !.port = 443, !.redir = TRUE]
        ELSE T[k]]

(* The certificate pass of reload: a secured host keyed 80 or 443 listens   *)
(* on 443 and redirects port 80, and only then loses TLS if no certificate  *)
(* file is found.                                                           *)
PrepareSSL(T) ==
    [k \in DOMAIN T |->
        IF ~T[k].ssl THEN T[k]
        ELSE [T[k] EXCEPT !.port = IF k[2] \in {80, 443} THEN 443 ELSE @,
                          !.redir = @ \/ k[2] \in {80, 443},
                          !.ssl = k[1] \in Certified]]

Hostnames(T) == {k[1] : k \in DOMAIN T}

(* Variant: the last host met is kept, secured or not.                      *)
AnyCandidate(T, n) == {k \in DOMAIN T : k[1] = n}

(* The keys getHostsForTemplate may keep for a hostname: map order decides  *)
(* among the secured ones, or among all when none is.                       *)
Candidates(T, n) ==
    LET named == {k \in DOMAIN T : k[1] = n}
        secured == {k \in named : T[k].ssl}
    IN  IF secured # {} THEN secured ELSE named

Choices(T) == {f \in [Hostnames(T) -> DOMAIN T] :
                  \A n \in Hostnames(T) : f[n] \in Candidates(T, n)}

(* The kept secured host redirects port 80 if a plain host was dropped.     *)
Consolidate(T, f) ==
    [k \in DOMAIN T |->
        IF /\ T[k].ssl /\ f[k[1]] = k
           /\ \E j \in DOMAIN T : j[1] = k[1] /\ ~T[j].ssl
        THEN [T[k] EXCEPT !.redir = TRUE]
        ELSE T[k]]

(* The configuration file: for every hostname the host it is written from.  *)
Render(T, f) == [n \in Hostnames(T) |-> T[f[n]]]

(* The containers a request for location p of a rendered host can reach.    *)
Backends(h, p) ==
    IF h.locs[p].up
    THEN UNION {h.ups[q].cts : q \in {q \in DOMAIN h.ups : h.ups[q].id = h.locs[p].upstream}}
    ELSE {h.locs[p].primary}

Served(R) == UNION {UNION {Backends(R[n], p) : p \in DOMAIN R[n].locs} : n \in DOMAIN R}

UniqueUpstreams(h) == \A p, q \in DOMAIN h.ups : h.ups[p].id = h.ups[q].id => p = q

(* nginx -t: an upstream defined twice and a directive it does not know are *)
(* errors.                                                                  *)
NginxAccepts(R) ==
    \A n \in DOMAIN R :
        /\ UniqueUpstreams(R[n])
        /\ \A p \in DOMAIN R[n].locs : R[n].locs[p].primary \notin Malformed

=============================================================================
