-------------------------- MODULE HostTable_proofs --------------------------
(***************************************************************************)
(* Facts about the operations on the host table: each yields a table again, *)
(* and which containers its hosts have afterwards.                          *)
(***************************************************************************)
EXTENDS HostTable, TLAPS

(* The containers of a table are those one of its hosts serves.             *)
LEMMA ContainersServed ==
    ASSUME NEW T, NEW c
    PROVE  c \in HostContainers(T) <=> \E k \in DOMAIN T : Serves(T[k], c)
BY DEF HostContainers, Serves

(* rebuildHostUpstreams touches no location's containers and keeps the type. *)
LEMMA RebuildKeeps ==
    ASSUME NEW h, IsHost(h)
    PROVE  /\ IsHost(RebuildHostUpstreams(h))
           /\ \A c : Serves(RebuildHostUpstreams(h), c) <=> Serves(h, c)
<1> DEFINE id(p) == <<h.host, h.port, Sanitized[p]>>
           shared == {p \in DOMAIN h.locs : Several(h.locs[p].cts)}
           locs == [p \in DOMAIN h.locs |->
                       [h.locs[p] EXCEPT !.up = p \in shared,
                                         !.upstream = IF p \in shared THEN id(p)
                                                      ELSE NoUpstream]]
           ups == [p \in shared |-> [id |-> id(p), cts |-> h.locs[p].cts]]
           r == RebuildHostUpstreams(h)
<1>1. r = [h EXCEPT !.locs = locs, !.ups = ups]
  BY DEF RebuildHostUpstreams
<1>2. /\ r = [host |-> h.host, port |-> h.port, ssl |-> h.ssl, redir |-> h.redir,
              locs |-> locs, ups |-> ups]
      /\ r.locs = locs /\ r.ups = ups
  <2> HIDE DEF locs, ups
  <2> QED BY <1>1 DEF IsHost
<1>3. \A p \in DOMAIN h.locs : p \in Path /\ h.locs[p] \in Location /\ id(p) \in UpstreamID
  BY SanitizedAssumption DEF IsHost, IsPartial, UpstreamID
<1>4. \A p \in DOMAIN h.locs : locs[p] \in Location /\ locs[p].cts = h.locs[p].cts
  <2> SUFFICES ASSUME NEW p \in DOMAIN h.locs
               PROVE  locs[p] \in Location /\ locs[p].cts = h.locs[p].cts
    OBVIOUS
  <2> DEFINE l == h.locs[p]
             u == IF p \in shared THEN id(p) ELSE NoUpstream
  <2>1. l \in Location /\ u \in UpstreamID \cup {NoUpstream} /\ (p \in shared) \in BOOLEAN
    BY <1>3
  <2>2. locs[p] = [l EXCEPT !.up = p \in shared, !.upstream = u]
    OBVIOUS
  <2> HIDE DEF l, u, locs, shared, id
  <2>3. locs[p] \in Location /\ locs[p].cts = l.cts
    BY <2>1, <2>2 DEF Location
  <2> QED BY <2>3 DEF l
<1>5. IsPartial(locs, Path, Location)
  BY <1>3, <1>4 DEF IsPartial
<1>6. IsPartial(ups, Path, Upstream)
  BY <1>3 DEF IsPartial, Upstream, Location
<1>7. IsHost(r)
  <2> HIDE DEF locs, ups, r
  <2> QED BY <1>2, <1>5, <1>6 DEF IsHost
<1>8. DOMAIN r.locs = DOMAIN h.locs /\ \A p \in DOMAIN h.locs : r.locs[p].cts = h.locs[p].cts
  <2> HIDE DEF r
  <2> QED BY <1>2, <1>4
<1>9. \A c : Serves(r, c) <=> Serves(h, c)
  <2> HIDE DEF r
  <2> QED BY <1>8 DEF Serves
<1> QED BY <1>7, <1>9

(* A container's fragment is a table that has no other container, and no    *)
(* host at all if the container has no address.                             *)
LEMMA FragmentOfOne ==
    ASSUME NEW c \in Container, NEW nets, NEW known
    PROVE  LET H == ProcessVirtualHosts(c, nets, known)
           IN  /\ IsTable(H, Key)
               /\ HostContainers(H) \subseteq {c}
               /\ nets = {} => H = Nothing
<1> DEFINE found == IF nets \cap known = {} THEN {} ELSE Entries[c]
           at(k) == {e \in found : EntryKey(e) = k}
           locs(k) == [p \in {e.path : e \in at(k)} |-> NewLocation(c)]
           H == ProcessVirtualHosts(c, nets, known)
<1>1. H = [k \in {EntryKey(e) : e \in found} |->
              [host |-> k[1], port |-> k[2], ssl |-> \E e \in at(k) : Secured(e),
               redir |-> FALSE, locs |-> locs(k), ups |-> Nothing]]
  BY DEF ProcessVirtualHosts
<1>2. found \subseteq Entry
  BY EntriesAssumption
<1>3. \A e \in Entry : EntryKey(e) \in Key
  BY PortAssumption DEF Entry, EntryKey, Key
<1>4. NewLocation(c) \in Location /\ NewLocation(c).cts = {c}
  BY DEF NewLocation, Location
<1>5. \A k : at(k) \subseteq Entry
  BY <1>2
<1>6. \A k : IsPartial(locs(k), Path, Location)
  BY <1>4, <1>5 DEF IsPartial, Entry
<1>7. IsPartial(Nothing, Path, Upstream)
  BY DEF IsPartial, Nothing
<1>8. DOMAIN H \subseteq Key
  BY <1>1, <1>2, <1>3
<1>9. ASSUME NEW k \in DOMAIN H
      PROVE  IsHost(H[k]) /\ \A d : Serves(H[k], d) => d = c
  <2>1. k \in Key /\ k[1] \in Hostname /\ k[2] \in Port
    BY <1>8 DEF Key
  <2>2. H[k] = [host |-> k[1], port |-> k[2], ssl |-> \E e \in at(k) : Secured(e),
                redir |-> FALSE, locs |-> locs(k), ups |-> Nothing]
    BY <1>1
  <2>3. (\E e \in at(k) : Secured(e)) \in BOOLEAN
    OBVIOUS
  <2>4. \A p \in DOMAIN locs(k) : locs(k)[p].cts = {c}
    BY <1>4
  <2> HIDE DEF at, locs, H
  <2>5. IsHost(H[k])
    BY <1>6, <1>7, <2>1, <2>2, <2>3 DEF IsHost
  <2>6. \A d : Serves(H[k], d) => d = c
    BY <2>2, <2>4 DEF Serves
  <2> QED BY <2>5, <2>6
<1>10. IsTable(H, Key)
  BY <1>1, <1>8, <1>9 DEF IsTable
<1>11. HostContainers(H) \subseteq {c}
  <2> HIDE DEF H
  <2> QED BY <1>9, ContainersServed
<1>12. nets = {} => H = Nothing
  BY <1>1 DEF Nothing
<1> QED BY <1>10, <1>11, <1>12

(* Merging locations keeps the type; each location of the result serves the *)
(* containers of both.                                                      *)
LEMMA MergeKeeps ==
    ASSUME NEW old, NEW new, IsHost(old), IsHost(new)
    PROVE  /\ IsHost(MergeHost(old, new))
           /\ \A c : Serves(MergeHost(old, new), c) <=> Serves(old, c) \/ Serves(new, c)
<1> DEFINE locs == MergeLocations(old.locs, new.locs)
<1>1. \A p \in DOMAIN old.locs \cup DOMAIN new.locs :
          /\ p \in Path /\ locs[p] \in Location
          /\ \A c : c \in locs[p].cts <=> \/ p \in DOMAIN old.locs /\ c \in old.locs[p].cts
                                          \/ p \in DOMAIN new.locs /\ c \in new.locs[p].cts
  <2> SUFFICES ASSUME NEW p \in DOMAIN old.locs \cup DOMAIN new.locs
               PROVE  /\ p \in Path /\ locs[p] \in Location
                      /\ \A c : c \in locs[p].cts <=>
                                   \/ p \in DOMAIN old.locs /\ c \in old.locs[p].cts
                                   \/ p \in DOMAIN new.locs /\ c \in new.locs[p].cts
    OBVIOUS
  <2>1. /\ p \in Path
        /\ p \in DOMAIN old.locs => old.locs[p] \in Location
        /\ p \in DOMAIN new.locs => new.locs[p] \in Location
    BY DEF IsHost, IsPartial
  <2>2. CASE p \notin DOMAIN new.locs
    <3>1. locs[p] = old.locs[p]
      BY <2>2 DEF MergeLocations
    <3> QED BY <2>1, <2>2, <3>1
  <2>3. CASE p \in DOMAIN new.locs /\ p \notin DOMAIN old.locs
    <3>1. locs[p] = new.locs[p]
      BY <2>3 DEF MergeLocations
    <3> QED BY <2>1, <2>3, <3>1
  <2>4. CASE p \in DOMAIN new.locs /\ p \in DOMAIN old.locs
    <3>1. locs[p] = [old.locs[p] EXCEPT !.cts = @ \cup new.locs[p].cts]
      BY <2>4 DEF MergeLocations
    <3> HIDE DEF locs
    <3>2. locs[p] \in Location /\ locs[p].cts = old.locs[p].cts \cup new.locs[p].cts
      BY <2>1, <2>4, <3>1 DEF Location
    <3> QED BY <2>1, <2>4, <3>2
  <2> QED BY <2>2, <2>3, <2>4
<1>2. DOMAIN locs = DOMAIN old.locs \cup DOMAIN new.locs /\ locs = [p \in DOMAIN locs |-> locs[p]]
  BY DEF MergeLocations
<1> HIDE DEF locs
<1>3. IsPartial(locs, Path, Location)
  BY <1>1, <1>2 DEF IsPartial
<1>4. PICK s \in BOOLEAN : s = (old.ssl \/ new.ssl)
  OBVIOUS
<1>5. PICK m : m = [old EXCEPT !.locs = locs, !.ssl = s]
  OBVIOUS
<1>6. MergeHost(old, new) = RebuildHostUpstreams(m)
  BY <1>4, <1>5 DEF MergeHost, locs
<1>7. IsHost(m) /\ m.locs = locs
  BY <1>3, <1>5 DEF IsHost
<1>8. \A c : Serves(m, c) <=> Serves(old, c) \/ Serves(new, c)
  BY <1>1, <1>2, <1>7 DEF Serves
<1> QED BY <1>6, <1>7, <1>8, RebuildKeeps

(* addHost over a fragment: a table again, with the containers of both.     *)
LEMMA AddHostsKeeps ==
    ASSUME NEW T, NEW H, IsTable(T, Key), IsTable(H, Key)
    PROVE  /\ IsTable(AddHosts(T, H), Key)
           /\ HostContainers(AddHosts(T, H)) = HostContainers(T) \cup HostContainers(H)
<1> DEFINE A == AddHosts(T, H)
<1>1. /\ A = [k \in DOMAIN A |-> A[k]]
      /\ DOMAIN A = DOMAIN T \cup DOMAIN H
      /\ DOMAIN A \subseteq Key
  BY DEF AddHosts, IsTable
<1>2. ASSUME NEW k \in DOMAIN A
      PROVE  /\ IsHost(A[k])
             /\ \A c : Serves(A[k], c) <=> \/ k \in DOMAIN T /\ Serves(T[k], c)
                                           \/ k \in DOMAIN H /\ Serves(H[k], c)
  <2>1. CASE k \notin DOMAIN H
    <3>1. A[k] = T[k] /\ k \in DOMAIN T
      BY <1>1, <2>1 DEF AddHosts
    <3> HIDE DEF A
    <3> QED BY <2>1, <3>1 DEF IsTable
  <2>2. CASE k \in DOMAIN H /\ k \notin DOMAIN T
    <3>1. A[k] = RebuildHostUpstreams(H[k])
      BY <1>1, <2>2 DEF AddHosts
    <3> HIDE DEF A
    <3> QED BY <2>2, <3>1, RebuildKeeps DEF IsTable
  <2>3. CASE k \in DOMAIN H /\ k \in DOMAIN T
    <3>1. A[k] = MergeHost(T[k], H[k])
      BY <1>1, <2>3 DEF AddHosts
    <3> HIDE DEF A
    <3> QED BY <2>3, <3>1, MergeKeeps DEF IsTable
  <2> QED BY <1>1, <2>1, <2>2, <2>3
<1> HIDE DEF A
<1>3. IsTable(A, Key)
  BY <1>1, <1>2 DEF IsTable
<1>4. \A c : c \in HostContainers(A) <=> c \in HostContainers(T) \/ c \in HostContainers(H)
  BY <1>1, <1>2, ContainersServed
<1> QED BY <1>3, <1>4 DEF A

(* Removing c from a host leaves the other containers and only those.       *)
LEMMA HostRemovalKeeps ==
    ASSUME NEW h, NEW c, IsHost(h)
    PROVE  /\ IsHost(HostRemoveContainer(h, c))
           /\ \A d : Serves(HostRemoveContainer(h, c), d) <=> Serves(h, d) /\ d # c
<1> DEFINE kept == {q \in DOMAIN h.locs : h.locs[q].cts # {c}}
           locs == [p \in kept |-> LocationRemoveContainer(h.locs[p], c)]
           ups == RemoveContainerFromUpstreams(h.ups, c)
           r == HostRemoveContainer(h, c)
<1>1. CASE ~Serves(h, c)
  BY <1>1 DEF HostRemoveContainer
<1>2. CASE Serves(h, c)
  <2>1. r = [h EXCEPT !.locs = locs, !.ups = ups]
    BY <1>2 DEF HostRemoveContainer
  <2>2. \A p \in DOMAIN h.locs :
            LET l == LocationRemoveContainer(h.locs[p], c)
            IN  l \in Location /\ l.cts = h.locs[p].cts \ {c}
    <3> SUFFICES ASSUME NEW p \in DOMAIN h.locs
                 PROVE  LET l == LocationRemoveContainer(h.locs[p], c)
                        IN  l \in Location /\ l.cts = h.locs[p].cts \ {c}
      OBVIOUS
    <3> DEFINE o == h.locs[p]
               up == o.up /\ Several(o.cts \ {c})
    <3>1. o \in Location /\ up \in BOOLEAN
      BY DEF IsHost, IsPartial
    <3>2. CASE c \notin o.cts
      BY <3>1, <3>2 DEF LocationRemoveContainer
    <3>3. CASE c \in o.cts
      <4>1. LocationRemoveContainer(o, c) = [o EXCEPT !.cts = o.cts \ {c}, !.up = up]
        BY <3>3 DEF LocationRemoveContainer
      <4> HIDE DEF o, up
      <4> QED BY <3>1, <4>1 DEF Location, o
    <3> QED BY <3>2, <3>3
  <2>3. IsPartial(locs, Path, Location)
    BY <2>2 DEF IsPartial, IsHost
  <2>4. IsPartial(ups, Path, Upstream)
    <3>1. \A p \in DOMAIN ups : /\ p \in DOMAIN h.ups /\ h.ups[p] \in Upstream
                                /\ ups[p] = [h.ups[p] EXCEPT !.cts = @ \ {c}]
      BY DEF RemoveContainerFromUpstreams, IsHost, IsPartial
    <3>2. \A p \in DOMAIN ups : ups[p] \in Upstream
      <4> HIDE DEF ups
      <4> QED BY <3>1 DEF Upstream
    <3>3. ups = [p \in DOMAIN ups |-> ups[p]]
      BY DEF RemoveContainerFromUpstreams
    <3> HIDE DEF ups
    <3> QED BY <3>1, <3>2, <3>3 DEF IsPartial, IsHost
  <2>5. /\ DOMAIN locs = kept
        /\ \A p \in kept : p \in DOMAIN h.locs /\ locs[p].cts = h.locs[p].cts \ {c}
    BY <2>2
  <2> HIDE DEF locs, ups, r
  <2>6. IsHost(r) /\ r.locs = locs
    BY <2>1, <2>3, <2>4 DEF IsHost
  <2>7. ASSUME NEW d
        PROVE  Serves(r, d) <=> Serves(h, d) /\ d # c
    BY <2>5, <2>6 DEF Serves
  <2> QED BY <2>6, <2>7 DEF r
<1> QED BY <1>1, <1>2

(* removeContainerFromHosts takes exactly the one container out.            *)
LEMMA RemovalKeeps ==
    ASSUME NEW T, NEW c, IsTable(T, Key)
    PROVE  /\ IsTable(RemoveContainerFromHosts(T, c), Key)
           /\ HostContainers(RemoveContainerFromHosts(T, c)) = HostContainers(T) \ {c}
<1> DEFINE R == RemoveContainerFromHosts(T, c)
           kept == {j \in DOMAIN T : Serves(T[j], c) => ~IsEmpty(HostRemoveContainer(T[j], c))}
<1>1. R = [k \in kept |-> HostRemoveContainer(T[k], c)]
  BY DEF RemoveContainerFromHosts
<1>2. \A k \in DOMAIN T : IsHost(T[k])
  BY DEF IsTable
<1>3. IsTable(R, Key)
  BY <1>1, <1>2, HostRemovalKeeps DEF IsTable
<1>4. ASSUME NEW k \in DOMAIN T, NEW d, Serves(T[k], d), d # c
      PROVE  k \in kept
  <2>1. Serves(HostRemoveContainer(T[k], c), d)
    BY <1>2, <1>4, HostRemovalKeeps
  <2>2. ~IsEmpty(HostRemoveContainer(T[k], c))
    BY <2>1 DEF Serves, IsEmpty
  <2> QED BY <2>2
<1>5. \A d : d \in HostContainers(R) <=> d \in HostContainers(T) /\ d # c
  <2>1. \A k \in kept : k \in DOMAIN T /\ R[k] = HostRemoveContainer(T[k], c)
    BY <1>1
  <2>2. DOMAIN R = kept
    BY <1>1
  <2> HIDE DEF R, kept
  <2>3. \A d : (\E k \in DOMAIN R : Serves(R[k], d)) <=> (\E k \in DOMAIN T : Serves(T[k], d)) /\ d # c
    BY <1>2, <1>4, <2>1, <2>2, HostRemovalKeeps
  <2> QED BY <2>3, ContainersServed
<1> QED BY <1>3, <1>5

(* The certificate pass and the consolidation change neither the keys nor   *)
(* the locations of a table.                                                *)
LEMMA PreparationKeeps ==
    ASSUME NEW T, IsTable(T, Key)
    PROVE  /\ IsTable(PrepareSSL(T), Key)
           /\ HostContainers(PrepareSSL(T)) = HostContainers(T)
<1> DEFINE P == PrepareSSL(T)
<1>1. P = [k \in DOMAIN T |-> P[k]] /\ DOMAIN P = DOMAIN T
  BY DEF PrepareSSL
<1>2. ASSUME NEW k \in DOMAIN T
      PROVE  IsHost(P[k]) /\ P[k].locs = T[k].locs
  <2> DEFINE port == IF k[2] \in {80, 443} THEN 443 ELSE T[k].port
             redir == T[k].redir \/ k[2] \in {80, 443}
             ssl == k[1] \in Certified
  <2>1. IsHost(T[k])
    BY DEF IsTable
  <2>2. port \in Port /\ redir \in BOOLEAN /\ ssl \in BOOLEAN
    BY <2>1, PortAssumption DEF IsHost
  <2>3. P[k] = IF ~T[k].ssl THEN T[k]
               ELSE [T[k] EXCEPT !.port = port, !.redir = redir, !.ssl = ssl]
    BY DEF PrepareSSL
  <2> HIDE DEF port, redir, ssl, P
  <2> QED BY <2>1, <2>2, <2>3 DEF IsHost
<1> HIDE DEF P
<1>3. IsTable(P, Key)
  BY <1>1, <1>2 DEF IsTable
<1>4. \A c : (\E k \in DOMAIN P : Serves(P[k], c)) <=> (\E k \in DOMAIN T : Serves(T[k], c))
  BY <1>1, <1>2 DEF Serves
<1>5. HostContainers(P) = HostContainers(T)
  <2>1. \A c : c \in HostContainers(P) <=> c \in HostContainers(T)
    BY <1>4, ContainersServed
  <2> QED BY <2>1
<1> QED BY <1>3, <1>5 DEF P

LEMMA ConsolidationKeeps ==
    ASSUME NEW T, NEW f, IsTable(T, Key)
    PROVE  /\ IsTable(Consolidate(T, f), Key)
           /\ HostContainers(Consolidate(T, f)) = HostContainers(T)
           /\ DOMAIN Consolidate(T, f) = DOMAIN T
<1> DEFINE C == Consolidate(T, f)
<1>1. C = [k \in DOMAIN T |-> C[k]] /\ DOMAIN C = DOMAIN T
  BY DEF Consolidate
<1>2. ASSUME NEW k \in DOMAIN T
      PROVE  IsHost(C[k]) /\ C[k].locs = T[k].locs
  <2>1. IsHost(T[k])
    BY DEF IsTable
  <2>2. C[k] = T[k] \/ C[k] = [T[k] EXCEPT !.redir = TRUE]
    BY DEF Consolidate
  <2> HIDE DEF C
  <2> QED BY <2>1, <2>2 DEF IsHost
<1> HIDE DEF C
<1>3. IsTable(C, Key)
  BY <1>1, <1>2 DEF IsTable
<1>4. \A c : (\E k \in DOMAIN C : Serves(C[k], c)) <=> (\E k \in DOMAIN T : Serves(T[k], c))
  BY <1>1, <1>2 DEF Serves
<1>5. HostContainers(C) = HostContainers(T)
  <2>1. \A c : c \in HostContainers(C) <=> c \in HostContainers(T)
    BY <1>4, ContainersServed
  <2> QED BY <2>1
<1> QED BY <1>1, <1>3, <1>5 DEF C

(* What is rendered is a table too, keyed by hostname.                      *)
LEMMA RenderingKeeps ==
    ASSUME NEW T, NEW f \in Choices(T), IsTable(T, Key)
    PROVE  IsTable(Render(Consolidate(T, f), f), Hostname)
<1> DEFINE C == Consolidate(T, f)
<1>1. IsTable(C, Key) /\ DOMAIN C = DOMAIN T
  BY ConsolidationKeeps
<1>2. Hostnames(C) = Hostnames(T) /\ Hostnames(C) \subseteq Hostname
  BY <1>1 DEF Hostnames, IsTable, Key
<1>3. \A n \in Hostnames(C) : f[n] \in DOMAIN C
  BY <1>1, <1>2 DEF Choices
<1> HIDE DEF C
<1>4. \A n \in Hostnames(C) : IsHost(C[f[n]])
  BY <1>1, <1>3 DEF IsTable
<1>5. IsTable(Render(C, f), Hostname)
  BY <1>2, <1>4 DEF IsTable, Render
<1> QED BY <1>5 DEF C

=============================================================================
