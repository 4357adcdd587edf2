----------------------- MODULE WebServerTables_proofs -----------------------
(***************************************************************************)
(* What is true of the table itself in every reachable state of WebServer:  *)
(* locations and upstreams stay in step, nothing empty is left behind, TLS  *)
(* is only served with a certificate, and the handlers implement the        *)
(* routing table of RouteTable.                                             *)
(***************************************************************************)
EXTENDS WebServer_proofs

-----------------------------------------------------------------------------
(* A host with locations, each with containers, and its upstreams in step.  *)

Filled(h) ==
    /\ DOMAIN h.locs # {}
    /\ \A p \in DOMAIN h.locs : h.locs[p].cts # {}

InStep(h) ==
    /\ \A p \in DOMAIN h.locs : /\ h.locs[p].up <=> Several(h.locs[p].cts)
                                /\ Several(h.locs[p].cts) => p \in DOMAIN h.ups
    /\ \A p \in DOMAIN h.ups : /\ p \in DOMAIN h.locs
                               /\ h.ups[p].cts = h.locs[p].cts
                               /\ h.locs[p].up => h.ups[p].id = h.locs[p].upstream

(* Container c is behind location p of host h.                              *)
Offers(h, p, c) == p \in DOMAIN h.locs /\ c \in h.locs[p].cts

Sound(T) == \A k \in DOMAIN T : Filled(T[k]) /\ InStep(T[k])

(* Rebuilding puts the upstreams of any host in step.                       *)
LEMMA RebuildPutsInStep ==
    ASSUME NEW h, IsHost(h)
    PROVE  /\ InStep(RebuildHostUpstreams(h))
           /\ Filled(h) => Filled(RebuildHostUpstreams(h))
           /\ RebuildHostUpstreams(h).port = h.port
           /\ \A p, c : Offers(RebuildHostUpstreams(h), p, c) <=> Offers(h, p, c)
<1> DEFINE id(p) == <<h.host, h.port, Sanitized[p]>>
           shared == {p \in DOMAIN h.locs : Several(h.locs[p].cts)}
           locs == [p \in DOMAIN h.locs |->
                       [h.locs[p] EXCEPT !.up = p \in shared,
                                         !.upstream = IF p \in shared THEN id(p)
                                                      ELSE NoUpstream]]
           ups == [p \in shared |-> [id |-> id(p), cts |-> h.locs[p].cts]]
           r == RebuildHostUpstreams(h)
<1>1. r = [h EXCEPT !.locs = locs, !.ups = ups]
  BY DEF RebuildHostUpstreams
<1>2. r.locs = locs /\ r.ups = ups /\ r.port = h.port
  <2> HIDE DEF locs, ups
  <2> QED BY <1>1 DEF IsHost
<1>3. ASSUME NEW p \in DOMAIN h.locs
      PROVE  /\ locs[p].cts = h.locs[p].cts
             /\ locs[p].up <=> p \in shared
             /\ p \in shared => locs[p].upstream = id(p)
  <2> DEFINE l == h.locs[p]
             s == p \in shared
             u == IF p \in shared THEN id(p) ELSE NoUpstream
  <2>1. l \in Location
    BY DEF IsHost, IsPartial
  <2>2. locs[p] = [l EXCEPT !.up = s, !.upstream = u]
    OBVIOUS
  <2>3. s => u = id(p)
    OBVIOUS
  <2>4. locs[p].cts = l.cts /\ locs[p].up = s /\ locs[p].upstream = u
    <3> HIDE DEF l, s, u, locs
    <3> QED BY <2>1, <2>2 DEF Location
  <2> HIDE DEF locs
  <2> QED BY <2>3, <2>4
<1>4. DOMAIN locs = DOMAIN h.locs /\ DOMAIN ups = shared
  OBVIOUS
<1>5. \A p \in shared : ups[p].id = id(p) /\ ups[p].cts = h.locs[p].cts
  OBVIOUS
<1>6. \A p : p \in shared <=> p \in DOMAIN h.locs /\ Several(h.locs[p].cts)
  OBVIOUS
<1> HIDE DEF r, locs, ups, shared, id
<1>7. InStep(r)
  BY <1>2, <1>3, <1>4, <1>5, <1>6 DEF InStep
<1>8. Filled(h) => Filled(r)
  BY <1>2, <1>3, <1>4 DEF Filled
<1>9. \A p, c : Offers(r, p, c) <=> Offers(h, p, c)
  BY <1>2, <1>3, <1>4 DEF Offers
<1> QED BY <1>2, <1>7, <1>8, <1>9 DEF r

(* A fragment's hosts have locations with a container, and the port of      *)
(* their key.                                                               *)
LEMMA FragmentIsFilled ==
    ASSUME NEW c \in Container, NEW nets, NEW known
    PROVE  LET H == ProcessVirtualHosts(c, nets, known)
           IN  \A k \in DOMAIN H : Filled(H[k]) /\ H[k].port = k[2]
<1> DEFINE found == IF nets \cap known = {} THEN {} ELSE Entries[c]
           at(k) == {e \in found : EntryKey(e) = k}
           locs(k) == [p \in {e.path : e \in at(k)} |-> NewLocation(c)]
           H == ProcessVirtualHosts(c, nets, known)
<1>1. H = [k \in {EntryKey(e) : e \in found} |->
              [host |-> k[1], port |-> k[2], ssl |-> \E e \in at(k) : Secured(e),
               redir |-> FALSE, locs |-> locs(k), ups |-> Nothing]]
  BY DEF ProcessVirtualHosts
<1>2. ASSUME NEW k \in DOMAIN H
      PROVE  Filled(H[k]) /\ H[k].port = k[2]
  <2>1. PICK e \in found : EntryKey(e) = k
    BY <1>1
  <2>2. e \in at(k) /\ e.path \in DOMAIN locs(k)
    BY <2>1
  <2>3. \A p \in DOMAIN locs(k) : locs(k)[p].cts # {}
    BY DEF NewLocation
  <2>4. H[k].locs = locs(k) /\ H[k].port = k[2]
    BY <1>1
  <2> HIDE DEF locs, H
  <2> QED BY <2>2, <2>3, <2>4 DEF Filled
<1> QED BY <1>2

LEMMA MergePutsInStep ==
    ASSUME NEW old, NEW new, IsHost(old), IsHost(new), Filled(old), Filled(new)
    PROVE  /\ InStep(MergeHost(old, new)) /\ Filled(MergeHost(old, new))
           /\ MergeHost(old, new).port = old.port
           /\ \A p, c : Offers(MergeHost(old, new), p, c) <=> Offers(old, p, c) \/ Offers(new, p, c)
<1> DEFINE locs == MergeLocations(old.locs, new.locs)
<1>1. PICK s \in BOOLEAN : s = (old.ssl \/ new.ssl)
  OBVIOUS
<1>2. PICK m : m = [old EXCEPT !.locs = locs, !.ssl = s]
  OBVIOUS
<1>3. MergeHost(old, new) = RebuildHostUpstreams(m)
  BY <1>1, <1>2 DEF MergeHost
<1>4. /\ DOMAIN locs = DOMAIN old.locs \cup DOMAIN new.locs
      /\ locs = [p \in DOMAIN locs |-> locs[p]]
  BY DEF MergeLocations
<1>5. ASSUME NEW p \in DOMAIN locs
      PROVE  /\ p \in Path /\ locs[p] \in Location /\ locs[p].cts # {}
             /\ \A c : c \in locs[p].cts <=> Offers(old, p, c) \/ Offers(new, p, c)
  <2> USE DEF Offers
  <2>1. /\ p \in Path
        /\ p \in DOMAIN old.locs => old.locs[p] \in Location /\ old.locs[p].cts # {}
        /\ p \in DOMAIN new.locs => new.locs[p] \in Location /\ new.locs[p].cts # {}
    BY <1>4 DEF IsHost, IsPartial, Filled
  <2>2. CASE p \notin DOMAIN new.locs
    BY <1>4, <2>1, <2>2 DEF MergeLocations
  <2>3. CASE p \in DOMAIN new.locs /\ p \notin DOMAIN old.locs
    BY <1>4, <2>1, <2>3 DEF MergeLocations
  <2>4. CASE p \in DOMAIN new.locs /\ p \in DOMAIN old.locs
    <3>1. locs[p] = [old.locs[p] EXCEPT !.cts = @ \cup new.locs[p].cts]
      BY <2>4 DEF MergeLocations
    <3> HIDE DEF locs
    <3>2. locs[p] \in Location /\ locs[p].cts = old.locs[p].cts \cup new.locs[p].cts
      BY <2>1, <2>4, <3>1 DEF Location
    <3> QED BY <2>1, <2>4, <3>2
  <2> QED BY <2>2, <2>3, <2>4
<1> HIDE DEF locs
<1>6. IsPartial(locs, Path, Location)
  BY <1>4, <1>5 DEF IsPartial
<1>7. IsHost(m) /\ m.locs = locs /\ m.port = old.port
  BY <1>2, <1>6 DEF IsHost
<1>8. Filled(m)
  BY <1>4, <1>5, <1>7 DEF Filled
<1>9. \A p, c : Offers(m, p, c) <=> Offers(old, p, c) \/ Offers(new, p, c)
  BY <1>4, <1>5, <1>7 DEF Offers
<1> QED BY <1>3, <1>7, <1>8, <1>9, RebuildPutsInStep

(* The port of a host is that of its key, or 443 after a certificate pass.  *)
PortKept(T) == \A k \in DOMAIN T : T[k].port \in {k[2], 443}

LEMMA AddHostsKeepsSound ==
    ASSUME NEW T, NEW c \in Container, NEW nets, NEW known,
           IsTable(T, Key), Sound(T), PortKept(T)
    PROVE  LET A == AddHosts(T, ProcessVirtualHosts(c, nets, known))
           IN  Sound(A) /\ PortKept(A)
<1> DEFINE H == ProcessVirtualHosts(c, nets, known)
           A == AddHosts(T, H)
<1>1. IsTable(H, Key) /\ \A k \in DOMAIN H : Filled(H[k]) /\ H[k].port = k[2]
  BY FragmentOfOne, FragmentIsFilled
<1> HIDE DEF H
<1>2. ASSUME NEW k \in DOMAIN A
      PROVE  Filled(A[k]) /\ InStep(A[k]) /\ A[k].port \in {k[2], 443}
  <2>0. k \in DOMAIN T \/ k \in DOMAIN H
    BY DEF AddHosts
  <2>1. CASE k \notin DOMAIN H
    <3>1. A[k] = T[k] /\ k \in DOMAIN T
      BY <2>0, <2>1 DEF AddHosts
    <3> HIDE DEF A
    <3> QED BY <3>1 DEF Sound, PortKept
  <2>2. CASE k \in DOMAIN H /\ k \notin DOMAIN T
    <3>1. A[k] = RebuildHostUpstreams(H[k])
      BY <2>2 DEF AddHosts
    <3> HIDE DEF A
    <3> QED BY <1>1, <2>2, <3>1, RebuildPutsInStep DEF IsTable
  <2>3. CASE k \in DOMAIN H /\ k \in DOMAIN T
    <3>1. A[k] = MergeHost(T[k], H[k])
      BY <2>3 DEF AddHosts
    <3>2. /\ IsHost(T[k]) /\ Filled(T[k]) /\ T[k].port \in {k[2], 443}
          /\ IsHost(H[k]) /\ Filled(H[k])
      BY <1>1, <2>3 DEF IsTable, Sound, PortKept
    <3> HIDE DEF A
    <3> QED BY <3>1, <3>2, MergePutsInStep
  <2> QED BY <2>0, <2>1, <2>2, <2>3
<1> HIDE DEF A
<1>3. Sound(A) /\ PortKept(A)
  BY <1>2 DEF Sound, PortKept
<1> QED BY <1>3 DEF A, H

(* Removing a container keeps locations and upstreams in step: both lose it *)
(* and a location that held nothing else goes with its upstream.            *)
LEMMA HostRemovalKeepsInStep ==
    ASSUME NEW h, NEW c, IsHost(h), Filled(h), InStep(h)
    PROVE  LET r == HostRemoveContainer(h, c)
           IN  /\ InStep(r) /\ r.port = h.port
               /\ \A p \in DOMAIN r.locs : r.locs[p].cts # {}
               /\ \A p, d : Offers(r, p, d) <=> Offers(h, p, d) /\ d # c
<1> DEFINE kept == {q \in DOMAIN h.locs : h.locs[q].cts # {c}}
           locs == [p \in kept |-> LocationRemoveContainer(h.locs[p], c)]
           ups == RemoveContainerFromUpstreams(h.ups, c)
           r == HostRemoveContainer(h, c)
<1>1. CASE ~Serves(h, c)
  BY <1>1 DEF HostRemoveContainer, Filled, Serves, Offers
<1>2. CASE Serves(h, c)
  <2>1. r = [h EXCEPT !.locs = locs, !.ups = ups]
    BY <1>2 DEF HostRemoveContainer
  <2>2. r.locs = locs /\ r.ups = ups /\ r.port = h.port
    <3> HIDE DEF locs, ups, r
    <3> QED BY <2>1 DEF IsHost
  <2>3. ASSUME NEW p \in kept
        PROVE  LET l == locs[p]
               IN  /\ l.cts = h.locs[p].cts \ {c}
                   /\ l.up <=> h.locs[p].up /\ Several(h.locs[p].cts \ {c})
                   /\ l.upstream = h.locs[p].upstream
    <3> DEFINE o == h.locs[p]
    <3>1. o \in Location /\ (o.up <=> Several(o.cts))
      BY DEF IsHost, IsPartial, InStep
    <3>2. locs[p] = LocationRemoveContainer(o, c)
      OBVIOUS
    <3>3. CASE c \notin o.cts
      <4>1. locs[p] = o /\ o.cts \ {c} = o.cts
        BY <3>2, <3>3 DEF LocationRemoveContainer
      <4> HIDE DEF o, locs
      <4>2. /\ locs[p].cts = o.cts \ {c}
            /\ locs[p].up <=> o.up /\ Several(o.cts \ {c})
            /\ locs[p].upstream = o.upstream
        BY <3>1, <4>1
      <4> QED BY <4>2 DEF o
    <3>4. CASE c \in o.cts
      <4> DEFINE u == o.up /\ Several(o.cts \ {c})
      <4>1. locs[p] = [o EXCEPT !.cts = o.cts \ {c}, !.up = u]
        BY <3>2, <3>4 DEF LocationRemoveContainer
      <4>2. locs[p].cts = o.cts \ {c} /\ locs[p].up = u /\ locs[p].upstream = o.upstream
        <5> HIDE DEF o, u, locs
        <5> QED BY <3>1, <4>1 DEF Location
      <4> HIDE DEF locs
      <4> QED BY <4>2
    <3> QED BY <3>3, <3>4
  <2>4. ASSUME NEW p \in DOMAIN ups
        PROVE  /\ p \in DOMAIN h.ups /\ h.ups[p].cts \ {c} # {}
               /\ ups[p].cts = h.ups[p].cts \ {c} /\ ups[p].id = h.ups[p].id
    <3>1. /\ p \in DOMAIN h.ups /\ h.ups[p] \in Upstream /\ h.ups[p].cts \ {c} # {}
          /\ ups[p] = [h.ups[p] EXCEPT !.cts = @ \ {c}]
      BY DEF RemoveContainerFromUpstreams, IsHost, IsPartial
    <3> HIDE DEF ups
    <3> QED BY <3>1 DEF Upstream
  <2>5. \A p \in DOMAIN h.ups : h.ups[p].cts \ {c} # {} => p \in DOMAIN ups
    BY DEF RemoveContainerFromUpstreams
  <2>6. DOMAIN locs = kept /\ \A p \in kept : p \in DOMAIN h.locs /\ h.locs[p].cts # {c}
    OBVIOUS
  <2>7. \A p \in DOMAIN h.locs : h.locs[p].cts # {c} => p \in kept
    OBVIOUS
  <2> HIDE DEF kept, locs, ups, r
  <2>8. ASSUME NEW p \in DOMAIN locs
        PROVE  /\ locs[p].cts # {}
               /\ locs[p].up <=> Several(locs[p].cts)
               /\ Several(locs[p].cts) => p \in DOMAIN ups
    <3>1. p \in DOMAIN h.locs /\ h.locs[p].cts # {} /\ h.locs[p].cts # {c}
      BY <2>6 DEF Filled
    <3>2. locs[p].cts = h.locs[p].cts \ {c}
      BY <2>3, <2>6
    <3>3. Several(locs[p].cts) => Several(h.locs[p].cts)
      BY <3>2 DEF Several
    <3>4. /\ h.locs[p].up <=> Several(h.locs[p].cts)
          /\ Several(h.locs[p].cts) => p \in DOMAIN h.ups
      BY <3>1 DEF InStep
    <3>5. locs[p].up <=> h.locs[p].up /\ Several(locs[p].cts)
      BY <2>3, <2>6, <3>2
    <3>6. p \in DOMAIN h.ups => h.ups[p].cts = h.locs[p].cts
      BY DEF InStep
    <3>7. Several(locs[p].cts) => locs[p].cts # {}
      BY DEF Several
    <3> QED BY <2>5, <3>1, <3>2, <3>3, <3>4, <3>5, <3>6, <3>7
  <2>9. ASSUME NEW p \in DOMAIN ups
        PROVE  /\ p \in DOMAIN locs /\ ups[p].cts = locs[p].cts
               /\ locs[p].up => ups[p].id = locs[p].upstream
    <3>1. /\ p \in DOMAIN h.ups /\ h.ups[p].cts \ {c} # {}
          /\ ups[p].cts = h.ups[p].cts \ {c} /\ ups[p].id = h.ups[p].id
      BY <2>4
    <3>2. /\ p \in DOMAIN h.locs /\ h.ups[p].cts = h.locs[p].cts
          /\ h.locs[p].up => h.ups[p].id = h.locs[p].upstream
      BY <3>1 DEF InStep
    <3>3. p \in kept
      BY <2>7, <3>1, <3>2
    <3>4. /\ locs[p].cts = h.locs[p].cts \ {c} /\ locs[p].upstream = h.locs[p].upstream
          /\ locs[p].up => h.locs[p].up
      BY <2>3, <3>3
    <3> QED BY <2>6, <3>1, <3>2, <3>3, <3>4
  <2>10. InStep(r) /\ r.port = h.port /\ \A p \in DOMAIN r.locs : r.locs[p].cts # {}
    BY <2>2, <2>8, <2>9 DEF InStep
  <2>11. ASSUME NEW p, NEW d
         PROVE  Offers(r, p, d) <=> Offers(h, p, d) /\ d # c
    <3>1. p \in kept => locs[p].cts = h.locs[p].cts \ {c}
      BY <2>3
    <3> QED BY <2>2, <2>6, <2>7, <3>1 DEF Offers
  <2> QED BY <2>10, <2>11 DEF r
<1> QED BY <1>1, <1>2

LEMMA RemovalKeepsSound ==
    ASSUME NEW T, NEW c, IsTable(T, Key), Sound(T), PortKept(T)
    PROVE  LET R == RemoveContainerFromHosts(T, c) IN Sound(R) /\ PortKept(R)
<1> DEFINE R == RemoveContainerFromHosts(T, c)
<1>1. ASSUME NEW k \in DOMAIN R
      PROVE  Filled(R[k]) /\ InStep(R[k]) /\ R[k].port \in {k[2], 443}
  <2>1. /\ k \in DOMAIN T /\ R[k] = HostRemoveContainer(T[k], c)
        /\ Serves(T[k], c) => ~IsEmpty(HostRemoveContainer(T[k], c))
    BY DEF RemoveContainerFromHosts
  <2>2. /\ IsHost(T[k]) /\ Filled(T[k]) /\ InStep(T[k]) /\ T[k].port \in {k[2], 443}
    BY <2>1 DEF IsTable, Sound, PortKept
  <2> HIDE DEF R
  <2>3. /\ InStep(R[k]) /\ R[k].port = T[k].port
        /\ \A p \in DOMAIN R[k].locs : R[k].locs[p].cts # {}
    BY <2>1, <2>2, HostRemovalKeepsInStep
  <2>4. CASE Serves(T[k], c)
    <3>1. DOMAIN R[k].locs # {}
      BY <2>1, <2>4 DEF IsEmpty
    <3> QED BY <2>2, <2>3, <3>1 DEF Filled
  <2>5. CASE ~Serves(T[k], c)
    <3>1. R[k] = T[k]
      BY <2>1, <2>5 DEF HostRemoveContainer
    <3> QED BY <2>2, <3>1
  <2> QED BY <2>4, <2>5
<1> HIDE DEF R
<1>2. Sound(R) /\ PortKept(R)
  BY <1>1 DEF Sound, PortKept
<1> QED BY <1>2 DEF R

(* Hosts with TLS have a certificate and do not listen on port 80.          *)
Secured443(T) == \A k \in DOMAIN T : T[k].ssl => k[1] \in Certified /\ T[k].port # 80

LEMMA PreparationKeepsSound ==
    ASSUME NEW T, IsTable(T, Key), Sound(T), PortKept(T)
    PROVE  LET P == PrepareSSL(T)
           IN  /\ Sound(P) /\ PortKept(P) /\ Secured443(P)
               /\ DOMAIN P = DOMAIN T /\ \A k \in DOMAIN T : P[k].locs = T[k].locs
<1> DEFINE P == PrepareSSL(T)
<1>1. ASSUME NEW k \in DOMAIN P
      PROVE  /\ Filled(P[k]) /\ InStep(P[k]) /\ P[k].port \in {k[2], 443}
             /\ P[k].ssl => k[1] \in Certified /\ P[k].port # 80
             /\ P[k].locs = T[k].locs
  <2> DEFINE port == IF k[2] \in {80, 443} THEN 443 ELSE T[k].port
             redir == T[k].redir \/ k[2] \in {80, 443}
             ssl == k[1] \in Certified
  <2>1. k \in DOMAIN T
    BY DEF PrepareSSL
  <2>2. /\ IsHost(T[k]) /\ Filled(T[k]) /\ InStep(T[k]) /\ T[k].port \in {k[2], 443}
    BY <2>1 DEF IsTable, Sound, PortKept
  <2>3. P[k] = IF ~T[k].ssl THEN T[k]
               ELSE [T[k] EXCEPT !.port = port, !.redir = redir, !.ssl = ssl]
    BY <2>1 DEF PrepareSSL
  <2>4. port \in {k[2], 443} /\ port # 80
    BY <2>2
  <2> HIDE DEF port, redir, P
  <2>5. CASE ~T[k].ssl
    BY <2>2, <2>3, <2>5
  <2>6. CASE T[k].ssl
    <3>1. /\ P[k].locs = T[k].locs /\ P[k].ups = T[k].ups
          /\ P[k].port = port /\ P[k].ssl = ssl
      <4> HIDE DEF ssl
      <4> QED BY <2>2, <2>3, <2>6 DEF IsHost
    <3>2. P[k].ssl => k[1] \in Certified
      BY <3>1, Zenon
    <3>3. Filled(P[k]) /\ InStep(P[k])
      BY <2>2, <3>1 DEF Filled, InStep
    <3>4. P[k].port \in {k[2], 443} /\ P[k].port # 80
      BY <2>4, <3>1
    <3> QED BY <3>1, <3>2, <3>3, <3>4
  <2> QED BY <2>5, <2>6
<1>2. DOMAIN P = DOMAIN T
  BY DEF PrepareSSL
<1> HIDE DEF P
<1>3. Sound(P) /\ PortKept(P) /\ Secured443(P)
  BY <1>1 DEF Sound, PortKept, Secured443
<1> QED BY <1>1, <1>2, <1>3 DEF P

LEMMA ConsolidationKeepsSound ==
    ASSUME NEW T, NEW f, IsTable(T, Key), Sound(T), PortKept(T), Secured443(T)
    PROVE  LET C == Consolidate(T, f)
           IN  /\ Sound(C) /\ PortKept(C) /\ Secured443(C)
               /\ DOMAIN C = DOMAIN T /\ \A k \in DOMAIN T : C[k].locs = T[k].locs
<1> DEFINE C == Consolidate(T, f)
<1>1. ASSUME NEW k \in DOMAIN C
      PROVE  /\ Filled(C[k]) /\ InStep(C[k]) /\ C[k].port \in {k[2], 443}
             /\ C[k].ssl => k[1] \in Certified /\ C[k].port # 80
             /\ C[k].locs = T[k].locs
  <2>1. k \in DOMAIN T /\ (C[k] = T[k] \/ C[k] = [T[k] EXCEPT !.redir = TRUE])
    BY DEF Consolidate
  <2>2. /\ IsHost(T[k]) /\ Filled(T[k]) /\ InStep(T[k]) /\ T[k].port \in {k[2], 443}
        /\ T[k].ssl => k[1] \in Certified /\ T[k].port # 80
    BY <2>1 DEF IsTable, Sound, PortKept, Secured443
  <2> HIDE DEF C
  <2>3. /\ C[k].locs = T[k].locs /\ C[k].ups = T[k].ups
        /\ C[k].port = T[k].port /\ C[k].ssl = T[k].ssl
    BY <2>1, <2>2 DEF IsHost
  <2> QED BY <2>2, <2>3 DEF Filled, InStep
<1>2. DOMAIN C = DOMAIN T
  BY DEF Consolidate
<1> HIDE DEF C
<1>3. Sound(C) /\ PortKept(C) /\ Secured443(C)
  BY <1>1 DEF Sound, PortKept, Secured443
<1> QED BY <1>1, <1>2, <1>3 DEF C

(* A reload leaves the table sound, and what nginx gets has TLS only with a *)
(* certificate: the host kept for a name has that name.                     *)
LEMMA ReloadKeepsSound ==
    ASSUME NEW T, NEW ok, IsTable(T, Key), Sound(T), PortKept(T), Reload(T, ok),
           SecureServersHaveCertificates
    PROVE  /\ Sound(hosts') /\ PortKept(hosts')
           /\ SecureServersHaveCertificates'
           /\ Routes(hosts') = Routes(T)
<1> DEFINE P == PrepareSSL(T)
           C(f) == Consolidate(P, f)
<1>1. PICK f \in Choices(P) : /\ hosts' = C(f)
                              /\ served' \in {served, Render(C(f), f)}
  BY DEF Reload
<1>2. IsTable(P, Key) /\ Sound(P) /\ PortKept(P) /\ Secured443(P)
  BY PreparationKeeps, PreparationKeepsSound
<1>3. Sound(C(f)) /\ PortKept(C(f)) /\ Secured443(C(f)) /\ DOMAIN C(f) = DOMAIN P
  BY <1>2, ConsolidationKeepsSound
<1>4. ASSUME NEW n \in DOMAIN Render(C(f), f)
      PROVE  Render(C(f), f)[n].ssl =>
                n \in Certified /\ Render(C(f), f)[n].port # 80
  <2>1. n \in Hostnames(C(f)) /\ Render(C(f), f)[n] = C(f)[f[n]]
    BY DEF Render
  <2>2. n \in Hostnames(P)
    BY <1>3, <2>1 DEF Hostnames
  <2>3. f[n] \in DOMAIN P /\ f[n][1] = n
    BY <2>2 DEF Choices, Candidates
  <2> HIDE DEF P, C
  <2> QED BY <1>3, <2>1, <2>3 DEF Secured443
<1>5. Routes(C(f)) = Routes(T)
  <2>1. /\ DOMAIN P = DOMAIN T /\ \A k \in DOMAIN T : P[k].locs = T[k].locs
    BY PreparationKeepsSound
  <2>2. /\ DOMAIN C(f) = DOMAIN T /\ \A k \in DOMAIN T : C(f)[k].locs = T[k].locs
    BY <1>2, <2>1, ConsolidationKeepsSound
  <2> HIDE DEF P, C
  <2> QED BY <2>2 DEF Routes
<1> HIDE DEF P, C
<1>6. SecureServersHaveCertificates'
  BY <1>1, <1>4 DEF SecureServersHaveCertificates
<1> QED BY <1>1, <1>3, <1>5, <1>6

-----------------------------------------------------------------------------
(* The invariant of the table: what the lemmas above keep, with the types.  *)

TableInv ==
    /\ TypeOK
    /\ Sound(hosts) /\ PortKept(hosts)
    /\ SecureServersHaveCertificates

LEMMA TableInit == Init => TableInv
BY TypeInit DEF Init, TableInv, Nothing, Sound, PortKept, SecureServersHaveCertificates

(* A step that leaves the hosts and what nginx runs alone.                  *)
LEMMA TableFrame ==
    ASSUME TableInv, UNCHANGED <<hosts, served>>
    PROVE  Sound(hosts') /\ PortKept(hosts') /\ SecureServersHaveCertificates'
BY DEF TableInv, SecureServersHaveCertificates

LEMMA TableProceed ==
    ASSUME TableInv, Proceed
    PROVE  Sound(hosts') /\ PortKept(hosts') /\ SecureServersHaveCertificates'
<1> USE DEF nginx, tables
<1>1. /\ TypeOK /\ IsTable(hosts, Key) /\ job \in Job
      /\ pc \in {"update", "commit"} => job.id \in Container
      /\ Sound(hosts) /\ PortKept(hosts) /\ SecureServersHaveCertificates
  BY DEF TableInv, TypeOK
<1>2. CASE LearnYourself \/ CaptureSince \/ ScanNothing
  BY <1>2, TableFrame DEF LearnYourself, CaptureSince, ScanNothing
<1>3. CASE ListContainers
  <2>1. (hosts' = Nothing \/ hosts' = hosts) /\ served' = served
    BY <1>3 DEF ListContainers
  <2>2. Sound(Nothing) /\ PortKept(Nothing)
    BY DEF Nothing, Sound, PortKept
  <2> QED BY <1>1, <2>1, <2>2 DEF SecureServersHaveCertificates
<1>4. ASSUME NEW c \in Container, ScanContainer(c)
      PROVE  Sound(hosts') /\ PortKept(hosts') /\ SecureServersHaveCertificates'
  <2>1. /\ \/ hosts' = AddHosts(hosts, ProcessVirtualHosts(c, Addresses(c), Known))
           \/ hosts' = hosts
        /\ served' = served
    BY <1>4 DEF ScanContainer
  <2> QED BY <1>1, <2>1, AddHostsKeepsSound DEF SecureServersHaveCertificates
<1>5. CASE FinishScan
  BY <1>1, <1>5, ReloadKeepsSound DEF FinishScan
<1>6. CASE ReloadAgain
  BY <1>1, <1>6, ReloadKeepsSound DEF ReloadAgain
<1>7. CASE UpdateContainer
  <2>1. hosts' = RemoveContainerFromHosts(hosts, job.id) /\ served' = served
    BY <1>7 DEF UpdateContainer
  <2> QED BY <1>1, <2>1, RemovalKeepsSound DEF SecureServersHaveCertificates
<1>8. CASE CommitContainer
  <2> DEFINE A == AddHosts(hosts, ProcessVirtualHosts(job.id, job.nets, Known))
  <2>1. job.id \in Container /\ \E ok \in BOOLEAN : Reload(A, ok)
    BY <1>1, <1>8 DEF CommitContainer
  <2>2. IsTable(A, Key) /\ Sound(A) /\ PortKept(A)
    BY <1>1, <2>1, FragmentOfOne, AddHostsKeeps, AddHostsKeepsSound
  <2> HIDE DEF A
  <2> QED BY <1>1, <2>1, <2>2, ReloadKeepsSound
<1> QED BY <1>2, <1>3, <1>4, <1>5, <1>6, <1>7, <1>8 DEF Proceed, Scan

(* Of the handlers' first steps only that of a die event writes the table.  *)
LEMMA HandleTable ==
    ASSUME NEW e \in Event,
           \/ HandleContainerStart(e) \/ HandleContainerDie(e) \/ HandleIgnored(e)
           \/ HandleContainerLink(e) \/ HandleSelfConnect(e) \/ HandleSelfDisconnect(e)
           \/ HandleSelfMissed(e) \/ HandleNetworkDestroy(e)
    PROVE  \/ UNCHANGED <<hosts, served>>
           \/ /\ e.act \in DieActs
              /\ \E ok \in BOOLEAN : Reload(RemoveContainerFromHosts(hosts, e.id), ok)
BY DEF HandleContainerStart, HandleContainerDie, HandleIgnored, HandleContainerLink,
       HandleSelfConnect, HandleSelfDisconnect, HandleSelfMissed, HandleNetworkDestroy,
       nginx, tables

LEMMA TableNext == TableInv /\ [Next]_vars => TableInv'
<1> SUFFICES ASSUME TableInv, [Next]_vars
             PROVE  Sound(hosts') /\ PortKept(hosts') /\ SecureServersHaveCertificates'
  BY TypeNext DEF TableInv
<1>1. CASE Docker
  BY <1>1, TableFrame
     DEF Docker, DockerStart, DockerKill, DockerDie, DockerRemove, DockerPause, DockerConnect,
         DockerDisconnect, SelfConnect, SelfDisconnect, NetworkDestroy, tables, nginx
<1>2. CASE Handle
  <2>1. PICK e \in Event :
            \/ HandleContainerStart(e) \/ HandleContainerDie(e) \/ HandleIgnored(e)
            \/ HandleContainerLink(e) \/ HandleSelfConnect(e) \/ HandleSelfDisconnect(e)
            \/ HandleSelfMissed(e) \/ HandleNetworkDestroy(e)
    BY <1>2 DEF Handle
  <2>2. CASE \E ok \in BOOLEAN : Reload(RemoveContainerFromHosts(hosts, e.id), ok)
    <3> DEFINE R == RemoveContainerFromHosts(hosts, e.id)
    <3>1. IsTable(hosts, Key) /\ Sound(hosts) /\ PortKept(hosts) /\ SecureServersHaveCertificates
      BY DEF TableInv, TypeOK
    <3>2. IsTable(R, Key) /\ Sound(R) /\ PortKept(R)
      BY <3>1, RemovalKeeps, RemovalKeepsSound
    <3> HIDE DEF R
    <3> QED BY <2>2, <3>1, <3>2, ReloadKeepsSound DEF R
  <2> QED BY <2>1, <2>2, HandleTable, TableFrame
<1>3. CASE EndStream \/ Rest \/ UNCHANGED vars
  BY <1>3, TableFrame DEF EndStream, Rest, vars, tables, nginx
<1> QED BY <1>1, <1>2, <1>3, TableProceed DEF Next

(* Upstreams and locations never get out of step, whatever is added,        *)
(* removed and rescanned in whatever order.                                 *)
THEOREM UpstreamsInStep == Spec => []UpstreamsMirrorLocations
<1>1. TableInv => UpstreamsMirrorLocations
  BY DEF TableInv, Sound, InStep, UpstreamsMirrorLocations
<1> QED BY <1>1, TableInit, TableNext, PTL DEF Spec

(* No host is without locations, no location or upstream without            *)
(* containers.                                                              *)
THEOREM NothingIsEmpty == Spec => []NothingEmpty
<1>1. TableInv => NothingEmpty
  BY DEF TableInv, Sound, Filled, InStep, NothingEmpty, Nothing
<1> QED BY <1>1, TableInit, TableNext, PTL DEF Spec

(* What nginx runs has TLS only for a name with a certificate file, and not *)
(* on port 80.                                                              *)
THEOREM SecureServersCertified == Spec => []SecureServersHaveCertificates
<1>1. TableInv => SecureServersHaveCertificates
  BY DEF TableInv
<1> QED BY <1>1, TableInit, TableNext, PTL DEF Spec

-----------------------------------------------------------------------------
(* The handlers implement the routing table.                                *)

LEMMA RoutesOffered ==
    ASSUME NEW T, NEW c \in Container, NEW k \in Key, NEW p \in Path
    PROVE  <<c, k, p>> \in Routes(T) <=> k \in DOMAIN T /\ Offers(T[k], p, c)
BY DEF Routes, Offers

(* Sets of routes are equal if they have the same triples.                  *)
LEMMA RoutesEqual ==
    ASSUME NEW A, NEW B, A \subseteq Container \X Key \X Path, B \subseteq Container \X Key \X Path,
           \A c \in Container, k \in Key, p \in Path : <<c, k, p>> \in A <=> <<c, k, p>> \in B
    PROVE  A = B
OBVIOUS

(* A fragment's routes are all that the container offers, or none.          *)
LEMMA FragmentRoutes ==
    ASSUME NEW c \in Container, NEW nets, NEW known
    PROVE  Routes(ProcessVirtualHosts(c, nets, known)) \in {{}, Offer(c)}
<1> DEFINE found == IF nets \cap known = {} THEN {} ELSE Entries[c]
           at(k) == {e \in found : EntryKey(e) = k}
           locs(k) == [p \in {e.path : e \in at(k)} |-> NewLocation(c)]
           H == ProcessVirtualHosts(c, nets, known)
           O == {<<c, EntryKey(e), e.path>> : e \in found}
<1>1. /\ DOMAIN H = {EntryKey(e) : e \in found}
      /\ \A k \in DOMAIN H : H[k].locs = locs(k)
  BY DEF ProcessVirtualHosts
<1>2. found \subseteq Entry /\ \A e \in found : EntryKey(e) \in Key /\ e.path \in Path
  BY EntriesAssumption, PortAssumption DEF Entry, EntryKey, Key
<1>3. O \subseteq Container \X Key \X Path /\ Routes(H) \subseteq Container \X Key \X Path
  BY <1>2 DEF Routes
<1>4. ASSUME NEW d \in Container, NEW k \in Key, NEW p \in Path
      PROVE  <<d, k, p>> \in Routes(H) <=> <<d, k, p>> \in O
  <2>1. <<d, k, p>> \in O <=> d = c /\ \E e \in found : EntryKey(e) = k /\ e.path = p
    OBVIOUS
  <2>2. p \in DOMAIN locs(k) <=> \E e \in found : EntryKey(e) = k /\ e.path = p
    OBVIOUS
  <2>3. p \in DOMAIN locs(k) => locs(k)[p].cts = {c}
    BY DEF NewLocation
  <2>4. (\E e \in found : EntryKey(e) = k /\ e.path = p) => k \in DOMAIN H
    BY <1>1
  <2> HIDE DEF H, locs, O, found
  <2>5. k \in DOMAIN H => (Offers(H[k], p, d) <=> p \in DOMAIN locs(k) /\ d = c)
    BY <1>1, <2>3 DEF Offers
  <2> QED BY <2>1, <2>2, <2>4, <2>5, RoutesOffered
<1>5. Routes(H) = O
  <2> HIDE DEF H, O
  <2> QED BY <1>3, <1>4, RoutesEqual
<1>6. O \in {{}, Offer(c)}
  BY DEF Offer
<1> QED BY <1>5, <1>6

LEMMA AddHostsRoutes ==
    ASSUME NEW T, NEW H, IsTable(T, Key), IsTable(H, Key),
           \A k \in DOMAIN T : Filled(T[k]), \A k \in DOMAIN H : Filled(H[k])
    PROVE  Routes(AddHosts(T, H)) = Routes(T) \cup Routes(H)
<1> DEFINE A == AddHosts(T, H)
<1>1. DOMAIN A = DOMAIN T \cup DOMAIN H
  BY DEF AddHosts
<1>2. ASSUME NEW k \in DOMAIN A, NEW p, NEW c
      PROVE  Offers(A[k], p, c) <=> \/ k \in DOMAIN T /\ Offers(T[k], p, c)
                                    \/ k \in DOMAIN H /\ Offers(H[k], p, c)
  <2>1. CASE k \notin DOMAIN H
    <3>1. A[k] = T[k] /\ k \in DOMAIN T
      BY <1>1, <2>1 DEF AddHosts
    <3> HIDE DEF A
    <3> QED BY <2>1, <3>1
  <2>2. CASE k \in DOMAIN H /\ k \notin DOMAIN T
    <3>1. A[k] = RebuildHostUpstreams(H[k])
      BY <1>1, <2>2 DEF AddHosts
    <3> HIDE DEF A
    <3> QED BY <2>2, <3>1, RebuildPutsInStep DEF IsTable
  <2>3. CASE k \in DOMAIN H /\ k \in DOMAIN T
    <3>1. A[k] = MergeHost(T[k], H[k])
      BY <1>1, <2>3 DEF AddHosts
    <3>2. IsHost(T[k]) /\ Filled(T[k]) /\ IsHost(H[k]) /\ Filled(H[k])
      BY <2>3 DEF IsTable
    <3> HIDE DEF A
    <3> QED BY <2>3, <3>1, <3>2, MergePutsInStep
  <2> QED BY <1>1, <2>1, <2>2, <2>3
<1> HIDE DEF A
<1>3. ASSUME NEW c \in Container, NEW k \in Key, NEW p \in Path
      PROVE  <<c, k, p>> \in Routes(A) <=> <<c, k, p>> \in Routes(T) \cup Routes(H)
  BY <1>1, <1>2, RoutesOffered
<1>4. /\ Routes(A) \subseteq Container \X Key \X Path
      /\ Routes(T) \cup Routes(H) \subseteq Container \X Key \X Path
  BY DEF Routes
<1> QED BY <1>3, <1>4, RoutesEqual DEF A

LEMMA RemovalRoutes ==
    ASSUME NEW T, NEW c, IsTable(T, Key), Sound(T)
    PROVE  Routes(RemoveContainerFromHosts(T, c)) = {r \in Routes(T) : r[1] # c}
<1> DEFINE R == RemoveContainerFromHosts(T, c)
           B == {r \in Routes(T) : r[1] # c}
<1>1. ASSUME NEW k \in DOMAIN T, NEW p, NEW d
      PROVE  Offers(HostRemoveContainer(T[k], c), p, d) <=> Offers(T[k], p, d) /\ d # c
  BY HostRemovalKeepsInStep DEF IsTable, Sound
<1>2. /\ DOMAIN R \subseteq DOMAIN T
      /\ \A k \in DOMAIN R : R[k] = HostRemoveContainer(T[k], c)
  BY DEF RemoveContainerFromHosts
<1>3. ASSUME NEW k \in DOMAIN T, NEW p, NEW d, Offers(T[k], p, d), d # c
      PROVE  k \in DOMAIN R
  <2>1. Offers(HostRemoveContainer(T[k], c), p, d)
    BY <1>1, <1>3
  <2>2. ~IsEmpty(HostRemoveContainer(T[k], c))
    BY <2>1 DEF Offers, IsEmpty
  <2> QED BY <2>2 DEF RemoveContainerFromHosts
<1> HIDE DEF R
<1>4. ASSUME NEW d \in Container, NEW k \in Key, NEW p \in Path
      PROVE  <<d, k, p>> \in Routes(R) <=> <<d, k, p>> \in B
  BY <1>1, <1>2, <1>3, RoutesOffered
<1>5. Routes(R) \subseteq Container \X Key \X Path /\ B \subseteq Container \X Key \X Path
  BY DEF Routes
<1> HIDE DEF B
<1> QED BY <1>4, <1>5, RoutesEqual DEF R, B

LEMMA NoRoutes == Routes(Nothing) = {}
BY DEF Routes, Nothing

(* Every step of the lock holder forgets everything, enters or removes one  *)
(* container's routes, or leaves the routes alone.                          *)
LEMMA RoutesProceed ==
    ASSUME TableInv, Proceed
    PROVE  \/ UNCHANGED Routes(hosts)
           \/ Routes(hosts') = {}
           \/ \E c \in Container : \/ Routes(hosts') = Routes(hosts) \cup Offer(c)
                                   \/ Routes(hosts') = {r \in Routes(hosts) : r[1] # c}
<1> USE DEF nginx, tables
<1>1. /\ TypeOK /\ IsTable(hosts, Key) /\ job \in Job
      /\ pc \in {"update", "commit"} => job.id \in Container
      /\ Sound(hosts) /\ PortKept(hosts) /\ SecureServersHaveCertificates
  BY DEF TableInv, TypeOK
<1>2. CASE LearnYourself \/ CaptureSince \/ ScanNothing
  BY <1>2 DEF LearnYourself, CaptureSince, ScanNothing
<1>3. CASE ListContainers
  BY <1>3, NoRoutes DEF ListContainers
<1>4. ASSUME NEW c \in Container, NEW nets, NEW known
      PROVE  Routes(AddHosts(hosts, ProcessVirtualHosts(c, nets, known)))
                \in {Routes(hosts), Routes(hosts) \cup Offer(c)}
  <2> DEFINE H == ProcessVirtualHosts(c, nets, known)
  <2>1. IsTable(H, Key) /\ (\A k \in DOMAIN H : Filled(H[k])) /\ Routes(H) \in {{}, Offer(c)}
    BY FragmentOfOne, FragmentIsFilled, FragmentRoutes
  <2> HIDE DEF H
  <2>2. Routes(AddHosts(hosts, H)) = Routes(hosts) \cup Routes(H)
    BY <1>1, <2>1, AddHostsRoutes DEF Sound
  <2> QED BY <2>1, <2>2 DEF H
<1>5. ASSUME NEW c \in Container, ScanContainer(c)
      PROVE  Routes(hosts') \in {Routes(hosts), Routes(hosts) \cup Offer(c)}
  BY <1>4, <1>5 DEF ScanContainer
<1>6. CASE FinishScan
  BY <1>1, <1>6, ReloadKeepsSound DEF FinishScan
<1>7. CASE ReloadAgain
  BY <1>1, <1>7, ReloadKeepsSound DEF ReloadAgain
<1>8. CASE UpdateContainer
  BY <1>1, <1>8, RemovalRoutes DEF UpdateContainer
<1>9. CASE CommitContainer
  <2> DEFINE A == AddHosts(hosts, ProcessVirtualHosts(job.id, job.nets, Known))
  <2>1. job.id \in Container /\ \E ok \in BOOLEAN : Reload(A, ok)
    BY <1>1, <1>9 DEF CommitContainer
  <2>2. IsTable(A, Key) /\ Sound(A) /\ PortKept(A)
    BY <1>1, <2>1, FragmentOfOne, AddHostsKeeps, AddHostsKeepsSound
  <2>3. Routes(A) \in {Routes(hosts), Routes(hosts) \cup Offer(job.id)}
    BY <1>4, <2>1
  <2> HIDE DEF A
  <2>4. Routes(hosts') = Routes(A)
    BY <1>1, <2>1, <2>2, ReloadKeepsSound
  <2> QED BY <2>1, <2>3, <2>4
<1> QED BY <1>2, <1>3, <1>5, <1>6, <1>7, <1>8, <1>9 DEF Proceed, Scan

LEMMA RoutesNext == TableInv /\ [Next]_vars => [RT!Next]_(Routes(hosts))
<1> SUFFICES ASSUME TableInv, [Next]_vars
             PROVE  \/ UNCHANGED Routes(hosts)
                    \/ Routes(hosts') = {}
                    \/ \E c \in Container : \/ Routes(hosts') = Routes(hosts) \cup Offer(c)
                                            \/ Routes(hosts') = {r \in Routes(hosts) : r[1] # c}
  BY DEF RT!Next, RT!Forget, RT!Register, RT!Deregister
<1>1. CASE Docker
  BY <1>1
     DEF Docker, DockerStart, DockerKill, DockerDie, DockerRemove, DockerPause, DockerConnect,
         DockerDisconnect, SelfConnect, SelfDisconnect, NetworkDestroy, tables
<1>2. CASE Handle
  <2>1. PICK e \in Event :
            \/ HandleContainerStart(e) \/ HandleContainerDie(e) \/ HandleIgnored(e)
            \/ HandleContainerLink(e) \/ HandleSelfConnect(e) \/ HandleSelfDisconnect(e)
            \/ HandleSelfMissed(e) \/ HandleNetworkDestroy(e)
    BY <1>2 DEF Handle
  <2>2. CASE /\ e.act \in DieActs
             /\ \E ok \in BOOLEAN : Reload(RemoveContainerFromHosts(hosts, e.id), ok)
    <3> DEFINE R == RemoveContainerFromHosts(hosts, e.id)
    <3>1. IsTable(hosts, Key) /\ Sound(hosts) /\ PortKept(hosts) /\ SecureServersHaveCertificates
      BY DEF TableInv, TypeOK
    <3>2. IsTable(R, Key) /\ Sound(R) /\ PortKept(R)
      BY <3>1, RemovalKeeps, RemovalKeepsSound
    <3>3. Routes(R) = {r \in Routes(hosts) : r[1] # e.id} /\ e.id \in Container
      BY <2>2, <3>1, RemovalRoutes, EventSubjects
    <3> HIDE DEF R
    <3>4. Routes(hosts') = Routes(R)
      BY <2>2, <3>1, <3>2, ReloadKeepsSound DEF R
    <3> QED BY <3>3, <3>4
  <2> QED BY <2>1, <2>2, HandleTable
<1>3. CASE EndStream \/ Rest \/ UNCHANGED vars
  BY <1>3 DEF EndStream, Rest, vars, tables
<1> QED BY <1>1, <1>2, <1>3, RoutesProceed DEF Next

(* The proxy implements RouteTable, for any number of containers and hosts: *)
(* whatever the order of the events, a step enters or takes out the routes  *)
(* of one container, all of them together, or forgets every route.          *)
THEOREM RoutesRefined == Spec => RefinesRouteTable
<1>1. Init => RT!Init
  BY NoRoutes DEF Init, RT!Init
<1> QED BY <1>1, TableInit, TableNext, RoutesNext, PTL DEF Spec, RT!Spec, RefinesRouteTable

-----------------------------------------------------------------------------
(* TLS wins, if writing the file never fails: the file then always has TLS  *)
(* for every name that some host of the table secures, except while a       *)
(* rescan is filling the table.                                             *)

Wins(T, R) ==
    \A k \in DOMAIN T : T[k].ssl =>
        /\ R[k[1]].ssl
        /\ (\E j \in DOMAIN T : j[1] = k[1] /\ ~T[j].ssl) => R[k[1]].redir

WinsInv == TypeOK /\ (pc \notin {"scan", "reload"} => Wins(hosts, conf))

(* Hosts that are dropped, or only lose containers, cannot break it.        *)
LEMMA RemovalKeepsWins ==
    ASSUME NEW T, NEW R, NEW c, IsTable(T, Key), Wins(T, R)
    PROVE  Wins(RemoveContainerFromHosts(T, c), R)
<1> DEFINE U == RemoveContainerFromHosts(T, c)
<1>1. DOMAIN U \subseteq DOMAIN T /\ \A k \in DOMAIN U : U[k] = HostRemoveContainer(T[k], c)
  BY DEF RemoveContainerFromHosts
<1>2. \A k \in DOMAIN T : HostRemoveContainer(T[k], c).ssl = T[k].ssl
  BY DEF HostRemoveContainer, IsTable, IsHost
<1> HIDE DEF U
<1>3. Wins(U, R)
  BY <1>1, <1>2 DEF Wins
<1> QED BY <1>3 DEF U

(* The host kept for a name is a secured one if there is any, and then      *)
(* redirects if a plain one was dropped.                                    *)
LEMMA ReloadWins ==
    ASSUME NEW T, NEW ok, IsTable(T, Key), Reload(T, ok), ~NginxFaults
    PROVE  Wins(hosts', conf')
<1> DEFINE P == PrepareSSL(T)
           C(f) == Consolidate(P, f)
<1>1. PICK f \in Choices(P) : hosts' = C(f) /\ conf' = Render(C(f), f)
  BY DEF Reload
<1>2. IsTable(P, Key)
  BY PreparationKeeps
<1>3. DOMAIN C(f) = DOMAIN P
  BY DEF Consolidate
<1>4. ASSUME NEW k \in DOMAIN P
      PROVE  /\ C(f)[k].ssl = P[k].ssl
             /\ /\ P[k].ssl /\ f[k[1]] = k
                /\ \E j \in DOMAIN P : j[1] = k[1] /\ ~P[j].ssl
                => C(f)[k].redir
  <2>1. IsHost(P[k])
    BY <1>2 DEF IsTable
  <2> HIDE DEF P
  <2> DEFINE A == /\ P[k].ssl /\ f[k[1]] = k
                  /\ \E j \in DOMAIN P : j[1] = k[1] /\ ~P[j].ssl
  <2>2. C(f)[k] = IF A THEN [P[k] EXCEPT !.redir = TRUE] ELSE P[k]
    BY DEF Consolidate
  <2> HIDE DEF A, C
  <2>3. C(f)[k].ssl = P[k].ssl /\ (A => C(f)[k].redir)
    BY <2>1, <2>2 DEF IsHost
  <2> QED BY <2>3 DEF A
<1> HIDE DEF C
<1>5. ASSUME NEW k \in DOMAIN P, P[k].ssl
      PROVE  /\ k[1] \in Hostnames(C(f))
             /\ f[k[1]] \in DOMAIN P /\ f[k[1]][1] = k[1] /\ P[f[k[1]]].ssl
  <2>1. k[1] \in Hostnames(P) /\ k[1] \in Hostnames(C(f))
    BY <1>3 DEF Hostnames
  <2> HIDE DEF P
  <2>2. f[k[1]] \in Candidates(P, k[1])
    BY <2>1 DEF Choices
  <2>3. k \in {j \in {i \in DOMAIN P : i[1] = k[1]} : P[j].ssl}
    BY <1>5
  <2>4. Candidates(P, k[1]) = {j \in {i \in DOMAIN P : i[1] = k[1]} : P[j].ssl}
    BY <2>3 DEF Candidates
  <2> QED BY <2>1, <2>2, <2>4
<1> HIDE DEF P
<1>6. ASSUME NEW k \in DOMAIN C(f), C(f)[k].ssl
      PROVE  /\ conf'[k[1]].ssl
             /\ (\E j \in DOMAIN C(f) : j[1] = k[1] /\ ~C(f)[j].ssl) => conf'[k[1]].redir
  <2>1. k \in DOMAIN P /\ P[k].ssl
    BY <1>3, <1>4, <1>6
  <2> DEFINE m == f[k[1]]
  <2>2. k[1] \in Hostnames(C(f)) /\ m \in DOMAIN P /\ m[1] = k[1] /\ P[m].ssl
    BY <1>5, <2>1
  <2>3. conf'[k[1]] = C(f)[m]
    BY <1>1, <2>2 DEF Render
  <2>4. C(f)[m].ssl
    BY <1>4, <2>2
  <2>5. ASSUME NEW j \in DOMAIN C(f), j[1] = k[1], ~C(f)[j].ssl
        PROVE  C(f)[m].redir
    <3>1. j \in DOMAIN P /\ ~P[j].ssl
      BY <1>3, <1>4, <2>5
    <3> QED BY <1>4, <2>2, <2>5, <3>1
  <2> QED BY <2>3, <2>4, <2>5
<1> QED BY <1>1, <1>6 DEF Wins

LEMMA WinsNext == ~NginxFaults /\ WinsInv /\ [Next]_vars => WinsInv'
<1> SUFFICES ASSUME ~NginxFaults, WinsInv, [Next]_vars, pc' \notin {"scan", "reload"}
             PROVE  Wins(hosts, conf)'
  BY TypeNext DEF WinsInv
<1> USE DEF nginx, tables
<1>1. TypeOK /\ IsTable(hosts, Key) /\ (pc \notin {"scan", "reload"} => Wins(hosts, conf))
  BY DEF WinsInv, TypeOK
<1>2. CASE Docker
  BY <1>1, <1>2
     DEF Docker, DockerStart, DockerKill, DockerDie, DockerRemove, DockerPause, DockerConnect,
         DockerDisconnect, SelfConnect, SelfDisconnect, NetworkDestroy, control
<1>3. CASE Handle
  <2>1. PICK e \in Event :
            \/ HandleContainerStart(e) \/ HandleContainerDie(e) \/ HandleIgnored(e)
            \/ HandleContainerLink(e) \/ HandleSelfConnect(e) \/ HandleSelfDisconnect(e)
            \/ HandleSelfMissed(e) \/ HandleNetworkDestroy(e)
    BY <1>3 DEF Handle
  <2>2. pc = "idle" /\ (\/ UNCHANGED <<hosts, conf>>
                        \/ \E ok \in BOOLEAN : Reload(RemoveContainerFromHosts(hosts, e.id), ok))
    BY <2>1 DEF HandleContainerStart, HandleContainerDie, HandleIgnored, HandleContainerLink,
                HandleSelfConnect, HandleSelfDisconnect, HandleSelfMissed, HandleNetworkDestroy,
                Acquire
  <2>3. IsTable(RemoveContainerFromHosts(hosts, e.id), Key)
    BY <1>1, RemovalKeeps
  <2> QED BY <1>1, <2>2, <2>3, ReloadWins
<1>4. CASE LearnYourself \/ CaptureSince
  BY <1>1, <1>4 DEF LearnYourself, CaptureSince
<1>5. CASE ListContainers
  BY <1>1, <1>5 DEF ListContainers
<1>6. CASE ScanNothing \/ \E c \in Container : ScanContainer(c)
  BY <1>6 DEF ScanNothing, ScanContainer
<1>7. CASE FinishScan
  BY <1>1, <1>7, ReloadWins DEF FinishScan
<1>8. CASE ReloadAgain
  BY <1>1, <1>8, ReloadWins DEF ReloadAgain
<1>9. CASE UpdateContainer
  BY <1>1, <1>9, RemovalKeepsWins DEF UpdateContainer
<1>10. CASE CommitContainer
  <2> DEFINE A == AddHosts(hosts, ProcessVirtualHosts(job.id, job.nets, Known))
  <2>1. IsTable(A, Key) /\ \E ok \in BOOLEAN : Reload(A, ok)
    BY <1>1, <1>10, FragmentOfOne, AddHostsKeeps DEF CommitContainer, TypeOK
  <2> HIDE DEF A
  <2> QED BY <2>1, ReloadWins
<1>11. CASE EndStream \/ Rest \/ UNCHANGED vars
  BY <1>1, <1>11 DEF EndStream, Rest, vars, control
<1> QED BY <1>2, <1>3, <1>4, <1>5, <1>6, <1>7, <1>8, <1>9, <1>10, <1>11 DEF Next, Proceed, Scan

(* Whenever the lock is free and nginx runs the file on disk, a name that   *)
(* any host secures has TLS, and redirects if a plain host shares it:       *)
(* whichever host map order keeps, as long as files can be written.         *)
THEOREM TLSAlwaysWins ==
    ASSUME ~NginxFaults
    PROVE  Spec => []TLSWins
<1>1. Init => WinsInv
  BY TypeInit DEF Init, WinsInv, Wins, Nothing
<1>2. WinsInv => TLSWins
  BY DEF WinsInv, Wins, TLSWins
<1> QED BY <1>1, <1>2, WinsNext, PTL DEF Spec

=============================================================================
