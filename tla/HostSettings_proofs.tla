------------------------- MODULE HostSettings_proofs -------------------------
(***************************************************************************)
(* What hosts and locations are set up with, for every number of            *)
(* containers, every environment and every order of the variables.          *)
(*                                                                          *)
(* First, that what a container does leaves all others where they are, with *)
(* the same filter and asked for a password as before, and that the filter  *)
(* of a host is always one that a container asks for: this holds whatever a *)
(* container's variables say, and uses nothing of the fragments             *)
(* ProcessVirtualHosts yields.                                              *)
(*                                                                          *)
(* Then, by one invariant on the table, that a location renders what the    *)
(* container it was made for asks for, and that a protected host has its    *)
(* password file; by another on the credentials, that no password leaves a  *)
(* file but for another or by a failure.  With what VirtualHosts_proofs     *)
(* shows of the fragments the first gives that no directive is written      *)
(* twice and that grpc_pass goes with gRPC schemes.                         *)
(***************************************************************************)
EXTENDS HostSettings, VirtualHosts_proofs

(* The table U has all that T has, with the same protection and filters.    *)
Keeps(T, U) ==
    \A k \in DOMAIN T :
        /\ k \in DOMAIN U
        /\ U[k].auth = T[k].auth /\ U[k].filter = T[k].filter
        /\ \A p \in DOMAIN T[k].locs :
              /\ p \in DOMAIN U[k].locs
              /\ Members(T[k].locs[p]) \subseteq Members(U[k].locs[p])
              /\ U[k].locs[p].auth = T[k].locs[p].auth

LEMMA MergeLocationsKeeps ==
    ASSUME NEW L, NEW M, NEW p \in DOMAIN L
    PROVE  /\ p \in DOMAIN MergeLocations(L, M)
           /\ Members(L[p]) \subseteq Members(MergeLocations(L, M)[p])
           /\ MergeLocations(L, M)[p].auth = L[p].auth
<1>1. CASE p \notin DOMAIN M
  BY <1>1 DEF MergeLocations
<1>2. CASE p \in DOMAIN M
  BY <1>2 DEF MergeLocations, JoinLocation, JoinedContainers, LocationWith, Members
<1> QED BY <1>1, <1>2

LEMMA MergeHostKeeps ==
    ASSUME NEW h, NEW g
    PROVE  LET m == MergeHost(h, g)
           IN  /\ m.auth = h.auth /\ m.filter = h.filter
               /\ m.locs = MergeLocations(h.locs, g.locs)
BY DEF MergeHost, HostWith

LEMMA AddHostsKeeps ==
    ASSUME NEW T, NEW H
    PROVE  Keeps(T, AddHosts(T, H))
<1> SUFFICES ASSUME NEW k \in DOMAIN T
             PROVE  LET U == AddHosts(T, H)
                    IN  /\ k \in DOMAIN U
                        /\ U[k].auth = T[k].auth /\ U[k].filter = T[k].filter
                        /\ \A p \in DOMAIN T[k].locs :
                              /\ p \in DOMAIN U[k].locs
                              /\ Members(T[k].locs[p]) \subseteq Members(U[k].locs[p])
                              /\ U[k].locs[p].auth = T[k].locs[p].auth
  BY DEF Keeps
<1>1. CASE k \notin DOMAIN H
  BY <1>1 DEF AddHosts
<1>2. CASE k \in DOMAIN H
  <2>1. k \in DOMAIN AddHosts(T, H) /\ AddHosts(T, H)[k] = MergeHost(T[k], H[k])
    BY <1>2 DEF AddHosts
  <2> QED BY <2>1, MergeHostKeeps, MergeLocationsKeeps
<1> QED BY <1>1, <1>2

LEMMA ReloadKeeps ==
    ASSUME NEW T
    PROVE  Keeps(T, Reload(T))
BY DEF Keeps, Reload, HostWith

LEMMA KeepsIsTransitive ==
    ASSUME NEW T, NEW U, NEW V, Keeps(T, U), Keeps(U, V)
    PROVE  Keeps(T, V)
<1> SUFFICES ASSUME NEW k \in DOMAIN T
             PROVE  /\ k \in DOMAIN V
                    /\ V[k].auth = T[k].auth /\ V[k].filter = T[k].filter
                    /\ \A p \in DOMAIN T[k].locs :
                          /\ p \in DOMAIN V[k].locs
                          /\ Members(T[k].locs[p]) \subseteq Members(V[k].locs[p])
                          /\ V[k].locs[p].auth = T[k].locs[p].auth
  BY DEF Keeps
<1>1. /\ k \in DOMAIN U
      /\ U[k].auth = T[k].auth /\ U[k].filter = T[k].filter
      /\ \A p \in DOMAIN T[k].locs :
            /\ p \in DOMAIN U[k].locs
            /\ Members(T[k].locs[p]) \subseteq Members(U[k].locs[p])
            /\ U[k].locs[p].auth = T[k].locs[p].auth
  BY DEF Keeps
<1>2. /\ k \in DOMAIN V
      /\ V[k].auth = U[k].auth /\ V[k].filter = U[k].filter
      /\ \A p \in DOMAIN U[k].locs :
            /\ p \in DOMAIN V[k].locs
            /\ Members(U[k].locs[p]) \subseteq Members(V[k].locs[p])
            /\ V[k].locs[p].auth = U[k].locs[p].auth
  BY <1>1 DEF Keeps
<1>3. ASSUME NEW p \in DOMAIN T[k].locs
      PROVE  /\ p \in DOMAIN V[k].locs
             /\ Members(T[k].locs[p]) \subseteq Members(V[k].locs[p])
             /\ V[k].locs[p].auth = T[k].locs[p].auth
  BY <1>1, <1>2
<1> QED BY <1>1, <1>2, <1>3

LEMMA CommittedKeeps ==
    ASSUME NEW T, NEW e, NEW H, NEW G, NEW reloads
    PROVE  Keeps(T, Committed(T, e, H, G, reloads))
<1>1. Keeps(T, T)
  BY DEF Keeps
<1>2. Keeps(T, AddHosts(T, ProcessIPFilter(e, G)))
  BY AddHostsKeeps
<1> QED BY <1>1, <1>2, ReloadKeeps, KeepsIsTransitive DEF Committed

(* The container d at k and p of T is there in R too, on the same terms.    *)
Stays(T, R, d, k, p) ==
    /\ k \in DOMAIN R /\ p \in DOMAIN R[k].locs
    /\ d \in Members(R[k].locs[p])
    /\ R[k].locs[p].auth = T[k].locs[p].auth
    /\ R[k].auth = T[k].auth /\ R[k].filter = T[k].filter

(* Taking c out of the table takes nothing from d.                          *)
LEMMA RemovingKeepsOthers ==
    ASSUME NEW T, NEW c, NEW d, c # d,
           NEW k \in DOMAIN T, NEW p \in DOMAIN T[k].locs, d \in Members(T[k].locs[p])
    PROVE  Stays(T, RemoveContainerFromHosts(T, c), d, k, p)
<1> DEFINE R == RemoveContainerFromHosts(T, c)
           r == Remaining(T[k], c)
<1>1. Members(T[k].locs[p]) # {c}
  OBVIOUS
<1>2. /\ r.auth = T[k].auth /\ r.filter = T[k].filter
      /\ p \in DOMAIN r.locs
      /\ r.locs[p] = LocationWith(T[k].locs[p], Others(T[k].locs[p], c), T[k].locs[p].extras)
  BY <1>1 DEF Remaining, HostWith
<1>3. d \in Members(r.locs[p]) /\ r.locs[p].auth = T[k].locs[p].auth
  BY <1>2 DEF LocationWith, Others, Members
<1>4. k \in DOMAIN R /\ R[k] = r
  BY <1>2 DEF RemoveContainerFromHosts
<1> HIDE DEF r, R
<1>5. Stays(T, R, d, k, p)
  BY <1>2, <1>3, <1>4 DEF Stays
<1> QED BY <1>5 DEF R

LEMMA UndisturbedByKeeping ==
    ASSUME NEW d, Keeps(hosts, hosts')
    PROVE  Undisturbed(d)
BY DEF Keeps, Undisturbed

LEMMA UndisturbedByRemoving ==
    ASSUME NEW c, NEW d, c # d, Keeps(RemoveContainerFromHosts(hosts, c), hosts')
    PROVE  Undisturbed(d)
<1> SUFFICES ASSUME NEW k \in DOMAIN hosts, NEW p \in DOMAIN hosts[k].locs,
                    d \in Members(hosts[k].locs[p])
             PROVE  Stays(hosts, hosts', d, k, p)
  BY DEF Undisturbed, Stays
<1> DEFINE R == RemoveContainerFromHosts(hosts, c)
<1>1. Stays(hosts, R, d, k, p)
  BY RemovingKeepsOthers
<1> HIDE DEF R
<1>2. Keeps(R, hosts')
  BY DEF R
<1>3. /\ k \in DOMAIN hosts'
      /\ hosts'[k].auth = R[k].auth /\ hosts'[k].filter = R[k].filter
      /\ p \in DOMAIN hosts'[k].locs
      /\ Members(R[k].locs[p]) \subseteq Members(hosts'[k].locs[p])
      /\ hosts'[k].locs[p].auth = R[k].locs[p].auth
  BY <1>1, <1>2 DEF Keeps, Stays
<1> QED BY <1>1, <1>3 DEF Stays

(* AccessKept: whatever one container does, every other container stays     *)
(* where it was; whether a password is asked for there stays as it was, and *)
(* so does the address filter.                                              *)
THEOREM AccessIsKept == Spec => AccessKept
<1>1. ASSUME NEW c \in Container, NEW d \in Container, c # d,
             UpdateContainer(c) \/ RemoveContainer(c) \/ ScanContainer(c)
      PROVE  Undisturbed(d)
  <2> DEFINE R == RemoveContainerFromHosts(hosts, c)
  <2>1. CASE UpdateContainer(c)
    <3>1. (\E H, G : hosts' = Committed(R, env[c], H, G, TRUE)) \/ hosts' = R
      BY <2>1 DEF UpdateContainer, Configure
    <3> HIDE DEF R
    <3>2. \A H, G : Keeps(R, Committed(R, env[c], H, G, TRUE))
      BY CommittedKeeps
    <3>3. Keeps(R, R)
      BY DEF Keeps
    <3>4. Keeps(R, hosts')
      BY <3>1, <3>2, <3>3
    <3> QED BY <3>4, <1>1, UndisturbedByRemoving DEF R
  <2>2. CASE RemoveContainer(c)
    <3>1. CASE Serving(c)
      <4>1. hosts' = Reload(R)
        BY <2>2, <3>1 DEF RemoveContainer
      <4>2. Keeps(R, hosts')
        BY <4>1, ReloadKeeps
      <4> QED BY <4>2, <1>1, UndisturbedByRemoving
    <3>2. CASE ~Serving(c)
      <4>1. Keeps(hosts, hosts')
        BY <2>2, <3>2 DEF RemoveContainer, Keeps
      <4> QED BY <4>1, UndisturbedByKeeping
    <3> QED BY <3>1, <3>2
  <2>3. CASE ScanContainer(c)
    <3>1. (\E H, G : hosts' = Committed(hosts, env[c], H, G, FALSE)) \/ hosts' = hosts
      BY <2>3 DEF ScanContainer, Configure
    <3>2. \A H, G : Keeps(hosts, Committed(hosts, env[c], H, G, FALSE))
      BY CommittedKeeps
    <3>3. Keeps(hosts, hosts)
      BY DEF Keeps
    <3>4. Keeps(hosts, hosts')
      BY <3>1, <3>2, <3>3
    <3> QED BY <3>4, UndisturbedByKeeping
  <2> QED BY <1>1, <2>1, <2>2, <2>3
<1>2. \A c, d \in Container :
          c # d /\ (UpdateContainer(c) \/ RemoveContainer(c) \/ ScanContainer(c))
              => Undisturbed(d)
  BY <1>1
<1> QED BY <1>2, PTL DEF Spec, AccessKept

-----------------------------------------------------------------------------

(* The filter of a host after a fragment was added is the old one, or that  *)
(* of the container if the host is new.                                     *)
LEMMA CommittedFilters ==
    ASSUME NEW T, NEW e, NEW H, NEW G, NEW reloads, DOMAIN G = DOMAIN H,
           NEW k \in DOMAIN Committed(T, e, H, G, reloads)
    PROVE  LET U == Committed(T, e, H, G, reloads)
           IN  \/ k \in DOMAIN T /\ U[k].filter = T[k].filter
               \/ k \in DOMAIN H /\ U[k].filter = FilterOf(e)
<1> DEFINE P == ProcessIPFilter(e, G)
           N == AddHosts(T, P)
           U == Committed(T, e, H, G, reloads)
<1>1. DOMAIN P = DOMAIN H /\ \A j \in DOMAIN H : P[j].filter = FilterOf(e)
  BY DEF ProcessIPFilter, HostWith
<1>2. DOMAIN N = DOMAIN T \cup DOMAIN H
  BY <1>1 DEF AddHosts
<1>3. ASSUME NEW j \in DOMAIN N
      PROVE  \/ j \in DOMAIN T /\ N[j].filter = T[j].filter
             \/ j \in DOMAIN H /\ N[j].filter = FilterOf(e)
  <2> HIDE DEF P
  <2>1. CASE j \notin DOMAIN H
    BY <1>1, <1>2, <2>1 DEF AddHosts
  <2>2. CASE j \in DOMAIN H /\ j \notin DOMAIN T
    BY <1>1, <1>2, <2>2 DEF AddHosts
  <2>3. CASE j \in DOMAIN H /\ j \in DOMAIN T
    <3>1. N[j] = MergeHost(T[j], P[j])
      BY <1>1, <2>3 DEF AddHosts
    <3> QED BY <3>1, <2>3, MergeHostKeeps
  <2> QED BY <2>1, <2>2, <2>3
<1>4. DOMAIN Reload(N) = DOMAIN N /\ \A j \in DOMAIN N : Reload(N)[j].filter = N[j].filter
  <2> HIDE DEF N
  <2> QED BY DEF Reload, HostWith
<1>5. U = T \/ U = N \/ U = Reload(N)
  BY DEF Committed
<1> HIDE DEF N, U
<1>6. k \in DOMAIN U
  BY DEF U
<1> QED BY <1>3, <1>4, <1>5, <1>6 DEF U

(* What FiltersAreAsked says of one host.                                   *)
Asked(k, h) ==
    \E c \in Container :
        /\ \E H \in Fragments(c, env[c]) : k \in DOMAIN H
        /\ h.filter = FilterOf(env[c])

LEMMA ConfigureAsks ==
    ASSUME NEW c \in Container, NEW T, NEW reloads \in BOOLEAN, NEW U,
           NEW H \in Fragments(c, env[c]),
           NEW G \in {H} \cup {[H EXCEPT ![k] = Protect(@, env[c].auth.path)] : k \in DOMAIN H},
           U = Committed(T, env[c], H, G, reloads),
           \A k \in DOMAIN T : Asked(k, T[k])
    PROVE  \A k \in DOMAIN U : Asked(k, U[k])
<1> SUFFICES ASSUME NEW k \in DOMAIN U
             PROVE  Asked(k, U[k])
  OBVIOUS
<1>1. DOMAIN G = DOMAIN H
  OBVIOUS
<1>2. \/ k \in DOMAIN T /\ U[k].filter = T[k].filter
      \/ k \in DOMAIN H /\ U[k].filter = FilterOf(env[c])
  BY <1>1, CommittedFilters
<1> QED BY <1>2 DEF Asked

LEMMA RemovingAsks ==
    ASSUME NEW c, NEW T, NEW U, U = RemoveContainerFromHosts(T, c),
           \A k \in DOMAIN T : Asked(k, T[k])
    PROVE  \A k \in DOMAIN U : Asked(k, U[k])
BY DEF Asked, RemoveContainerFromHosts, Remaining, HostWith

LEMMA ReloadAsks ==
    ASSUME NEW T, NEW U, U = Reload(T), \A k \in DOMAIN T : Asked(k, T[k])
    PROVE  \A k \in DOMAIN U : Asked(k, U[k])
BY DEF Asked, Reload, HostWith

(* FiltersAreAsked: a host's address filter is, as a whole, the one that a  *)
(* container which asks for the host gets.                                  *)
THEOREM FilterIsAsked == Spec => []FiltersAreAsked
<1>1. Init => FiltersAreAsked
  BY DEF Init, FiltersAreAsked
<1>2. FiltersAreAsked /\ [Next]_vars => FiltersAreAsked'
  <2> SUFFICES ASSUME FiltersAreAsked, [Next]_vars
               PROVE  FiltersAreAsked'
    OBVIOUS
  <2>1. \A k \in DOMAIN hosts : Asked(k, hosts[k])
    BY DEF FiltersAreAsked, Asked
  <2>2. env' = env
    BY DEF Next, vars, UpdateContainer, RemoveContainer, BeginRescan, ScanContainer, EndRescan
  <2>3. ASSUME \A k \in DOMAIN hosts' : Asked(k, hosts'[k])
        PROVE  FiltersAreAsked'
    BY <2>2, <2>3 DEF FiltersAreAsked, Asked
  <2>4. ASSUME NEW c \in Container, UpdateContainer(c)
        PROVE  \A k \in DOMAIN hosts' : Asked(k, hosts'[k])
    <3> DEFINE R == RemoveContainerFromHosts(hosts, c)
    <3>1. \A k \in DOMAIN R : Asked(k, R[k])
      <4> HIDE DEF R
      <4>1. R = RemoveContainerFromHosts(hosts, c)
        BY DEF R
      <4> QED BY <4>1, <2>1, RemovingAsks
    <3>2. \/ \E H \in Fragments(c, env[c]) :
               \E G \in {H} \cup {[H EXCEPT ![k] = Protect(@, env[c].auth.path)] : k \in DOMAIN H} :
                   hosts' = Committed(R, env[c], H, G, TRUE)
          \/ hosts' = R
      BY <2>4 DEF UpdateContainer, Configure
    <3> HIDE DEF R
    <3> QED BY <3>1, <3>2, ConfigureAsks
  <2>5. ASSUME NEW c \in Container, RemoveContainer(c)
        PROVE  \A k \in DOMAIN hosts' : Asked(k, hosts'[k])
    <3> DEFINE R == RemoveContainerFromHosts(hosts, c)
    <3>1. \A k \in DOMAIN R : Asked(k, R[k])
      <4> HIDE DEF R
      <4>1. R = RemoveContainerFromHosts(hosts, c)
        BY DEF R
      <4> QED BY <4>1, <2>1, RemovingAsks
    <3>2. hosts' = Reload(R) \/ hosts' = hosts
      BY <2>5 DEF RemoveContainer
    <3> HIDE DEF R
    <3> QED BY <2>1, <3>1, <3>2, ReloadAsks
  <2>6. ASSUME NEW c \in Container, ScanContainer(c)
        PROVE  \A k \in DOMAIN hosts' : Asked(k, hosts'[k])
    <3>1. \/ \E H \in Fragments(c, env[c]) :
               \E G \in {H} \cup {[H EXCEPT ![k] = Protect(@, env[c].auth.path)] : k \in DOMAIN H} :
                   hosts' = Committed(hosts, env[c], H, G, FALSE)
          \/ hosts' = hosts
      BY <2>6 DEF ScanContainer, Configure
    <3> QED BY <2>1, <3>1, ConfigureAsks
  <2>7. CASE BeginRescan
    BY <2>7, <2>3 DEF BeginRescan
  <2>8. CASE EndRescan
    BY <2>8, <2>1, <2>3, ReloadAsks DEF EndRescan
  <2>9. CASE UNCHANGED vars
    BY <2>9, <2>1, <2>3 DEF vars
  <2> QED BY <2>3, <2>4, <2>5, <2>6, <2>7, <2>8, <2>9 DEF Next
<1> QED BY <1>1, <1>2, PTL DEF Spec


-----------------------------------------------------------------------------
(* The invariant: what a location is set up with is what its primary asks   *)
(* for, and a protected host has a file.  E is the value of env, files that *)
(* of htpasswd.                                                             *)

(* The container x is listed as s at k and p, as it asks for.               *)
AsAsked(E, k, p, x, s) ==
    /\ s \in [scheme : Schemes, port : Nat]
    /\ \E H \in Fragments(x, E[x]) :
          k \in DOMAIN H /\ p \in DOMAIN H[k].locs /\ s = H[k].locs[p].containers[x]

SoundLocation(E, k, p, l) ==
    /\ IsLocation(l)
    /\ \E H \in Fragments(l.primary, E[l.primary]) :
          k \in DOMAIN H /\ p \in DOMAIN H[k].locs /\ Data(l) = Data(H[k].locs[p])
    /\ \A x \in Members(l) : AsAsked(E, k, p, x, l.containers[x])

SoundHost(E, files, k, h) ==
    /\ h.ssl \in BOOLEAN /\ h.auth \in BOOLEAN /\ h.filter.on \in BOOLEAN
    /\ h.orig \in Schemes
    /\ DOMAIN h.locs \subseteq Path /\ DOMAIN h.locs # {}
    /\ \A p \in DOMAIN h.locs : SoundLocation(E, k, p, h.locs[p])
    /\ h.auth => files[k[1]].there
    /\ \A p \in DOMAIN h.locs : h.locs[p].auth => files[k[1]].there

Sound(E, files, T) ==
    \A k \in DOMAIN T : k \in Hostname \X Nat /\ SoundHost(E, files, k, T[k])

(* A location keeps all but its containers and the extras.                  *)
LEMMA LocationWithSound ==
    ASSUME NEW E, NEW k, NEW p, NEW l, SoundLocation(E, k, p, l),
           NEW cts, DOMAIN cts \subseteq Container, DOMAIN cts # {},
           \A x \in DOMAIN cts : AsAsked(E, k, p, x, cts[x]),
           NEW extras \in [Directive -> Nat]
    PROVE  LET m == LocationWith(l, cts, extras)
           IN  SoundLocation(E, k, p, m) /\ m.auth = l.auth
<1> DEFINE m == LocationWith(l, cts, extras)
<1>1. /\ m.containers = cts /\ m.primary = l.primary /\ m.scheme = l.scheme /\ m.port = l.port
      /\ m.auth = l.auth /\ m.extras = extras /\ m.injected = l.injected
      /\ m.grpc = l.grpc /\ m.ws = l.ws /\ m.http = l.http
  BY DEF LocationWith
<1> HIDE DEF m
<1>2. IsLocation(m)
  BY <1>1 DEF SoundLocation, IsLocation, Members, AsAsked
<1>3. Data(m) = Data(l)
  BY <1>1 DEF Data
<1>4. SoundLocation(E, k, p, m)
  BY <1>1, <1>2, <1>3 DEF SoundLocation, Members
<1> QED BY <1>1, <1>4 DEF m

LEMMA JoinLocationSound ==
    ASSUME NEW E, NEW k, NEW p, NEW l, NEW m,
           SoundLocation(E, k, p, l), SoundLocation(E, k, p, m)
    PROVE  SoundLocation(E, k, p, JoinLocation(l, m)) /\ JoinLocation(l, m).auth = l.auth
<1> DEFINE cts == JoinedContainers(l, m)
           extras == JoinedExtras(l, m)
<1>1. /\ DOMAIN cts = Members(l) \cup Members(m)
      /\ \A x \in DOMAIN cts :
            cts[x] = IF x \in Members(m) THEN m.containers[x] ELSE l.containers[x]
  BY DEF JoinedContainers
<1>1a. /\ DOMAIN cts \subseteq Container /\ DOMAIN cts # {}
       /\ \A x \in DOMAIN cts : AsAsked(E, k, p, x, cts[x])
  <2> HIDE DEF cts
  <2> QED BY <1>1 DEF SoundLocation, IsLocation
<1>2. extras \in [Directive -> Nat]
  BY DEF SoundLocation, IsLocation, JoinedExtras
<1>3. JoinLocation(l, m) = LocationWith(l, cts, extras)
  BY DEF JoinLocation
<1> HIDE DEF cts, extras
<1> QED BY <1>1a, <1>2, <1>3, LocationWithSound

LEMMA MergeHostSound ==
    ASSUME NEW E, NEW files, NEW k, NEW h, NEW g,
           SoundHost(E, files, k, h), SoundHost(E, files, k, g)
    PROVE  SoundHost(E, files, k, MergeHost(h, g))
<1> DEFINE m == MergeHost(h, g)
           ssl == h.ssl \/ g.ssl
           locs == MergeLocations(h.locs, g.locs)
<1>1. m.ssl = ssl /\ m.auth = h.auth /\ m.filter = h.filter /\ m.orig = h.orig /\ m.locs = locs
  BY DEF MergeHost, HostWith
<1>2. ssl \in BOOLEAN
  OBVIOUS
<1>3. DOMAIN locs = DOMAIN h.locs \cup DOMAIN g.locs
  BY DEF MergeLocations
<1>4. ASSUME NEW p \in DOMAIN locs
      PROVE  SoundLocation(E, k, p, locs[p]) /\ (locs[p].auth => files[k[1]].there)
  <2>1. CASE p \notin DOMAIN g.locs
    <3>1. p \in DOMAIN h.locs /\ locs[p] = h.locs[p]
      BY <1>3, <2>1 DEF MergeLocations
    <3> QED BY <3>1 DEF SoundHost
  <2>2. CASE p \notin DOMAIN h.locs
    <3>1. p \in DOMAIN g.locs /\ locs[p] = g.locs[p]
      BY <1>3, <2>2 DEF MergeLocations
    <3> QED BY <3>1 DEF SoundHost
  <2>3. CASE p \in DOMAIN h.locs /\ p \in DOMAIN g.locs
    <3>1. locs[p] = JoinLocation(h.locs[p], g.locs[p])
      BY <2>3 DEF MergeLocations
    <3>2. SoundLocation(E, k, p, h.locs[p]) /\ SoundLocation(E, k, p, g.locs[p])
      BY <2>3 DEF SoundHost
    <3>3. h.locs[p].auth => files[k[1]].there
      BY <2>3 DEF SoundHost
    <3> HIDE DEF locs
    <3> QED BY <3>1, <3>2, <3>3, JoinLocationSound
  <2> QED BY <2>1, <2>2, <2>3
<1> HIDE DEF m, locs, ssl
<1>5. SoundHost(E, files, k, m)
  BY <1>1, <1>2, <1>3, <1>4 DEF SoundHost
<1> QED BY <1>5 DEF m

LEMMA AddHostsSound ==
    ASSUME NEW E, NEW files, NEW T, NEW H, Sound(E, files, T), Sound(E, files, H)
    PROVE  Sound(E, files, AddHosts(T, H))
<1> DEFINE U == AddHosts(T, H)
<1> SUFFICES ASSUME NEW k \in DOMAIN U
             PROVE  k \in Hostname \X Nat /\ SoundHost(E, files, k, U[k])
  BY DEF Sound
<1>1. k \in DOMAIN T \cup DOMAIN H
  BY DEF AddHosts
<1>2. CASE k \notin DOMAIN H
  BY <1>1, <1>2 DEF AddHosts, Sound
<1>3. CASE k \notin DOMAIN T
  BY <1>1, <1>3 DEF AddHosts, Sound
<1>4. CASE k \in DOMAIN T /\ k \in DOMAIN H
  <2>1. U[k] = MergeHost(T[k], H[k])
    BY <1>4 DEF AddHosts
  <2>2. k \in Hostname \X Nat /\ SoundHost(E, files, k, T[k]) /\ SoundHost(E, files, k, H[k])
    BY <1>4 DEF Sound
  <2> HIDE DEF U
  <2> QED BY <2>1, <2>2, MergeHostSound
<1> QED BY <1>2, <1>3, <1>4

LEMMA ReloadSound ==
    ASSUME NEW E, NEW files, NEW T, Sound(E, files, T)
    PROVE  Sound(E, files, Reload(T))
<1> DEFINE U == Reload(T)
<1> SUFFICES ASSUME NEW k \in DOMAIN U
             PROVE  k \in Hostname \X Nat /\ SoundHost(E, files, k, U[k])
  BY DEF Sound
<1> DEFINE ssl == T[k].ssl /\ k[1] \in Certified
<1>1. k \in DOMAIN T
  BY DEF Reload
<1>2. k \in Hostname \X Nat /\ SoundHost(E, files, k, T[k])
  BY <1>1 DEF Sound
<1>3. /\ U[k].ssl = ssl /\ U[k].auth = T[k].auth /\ U[k].filter = T[k].filter
      /\ U[k].orig = T[k].orig /\ U[k].locs = T[k].locs
  BY <1>1 DEF Reload, HostWith
<1>4. ssl \in BOOLEAN
  OBVIOUS
<1> HIDE DEF U, ssl
<1> QED BY <1>2, <1>3, <1>4 DEF SoundHost

LEMMA RemovingSound ==
    ASSUME NEW E, NEW files, NEW T, NEW c, Sound(E, files, T)
    PROVE  Sound(E, files, RemoveContainerFromHosts(T, c))
<1> DEFINE U == RemoveContainerFromHosts(T, c)
<1> SUFFICES ASSUME NEW k \in DOMAIN U
             PROVE  k \in Hostname \X Nat /\ SoundHost(E, files, k, U[k])
  BY DEF Sound
<1> DEFINE h == T[k]
           r == Remaining(h, c)
<1>1. k \in DOMAIN T /\ U[k] = r /\ DOMAIN r.locs # {}
  BY DEF RemoveContainerFromHosts
<1>2. k \in Hostname \X Nat /\ SoundHost(E, files, k, h)
  BY <1>1 DEF Sound
<1>3. /\ r.ssl = h.ssl /\ r.auth = h.auth /\ r.filter = h.filter /\ r.orig = h.orig
      /\ DOMAIN r.locs = {q \in DOMAIN h.locs : Members(h.locs[q]) # {c}}
      /\ \A p \in DOMAIN r.locs :
            r.locs[p] = LocationWith(h.locs[p], Others(h.locs[p], c), h.locs[p].extras)
  BY DEF Remaining, HostWith
<1> HIDE DEF h, r, U
<1>4. ASSUME NEW p \in DOMAIN r.locs
      PROVE  SoundLocation(E, k, p, r.locs[p]) /\ (r.locs[p].auth => files[k[1]].there)
  <2> DEFINE l == h.locs[p]
             cts == Others(l, c)
  <2>1. SoundLocation(E, k, p, l) /\ (l.auth => files[k[1]].there) /\ Members(l) # {c}
    BY <1>2, <1>3 DEF SoundHost
  <2>2. /\ DOMAIN cts \subseteq Container /\ DOMAIN cts # {} /\ l.extras \in [Directive -> Nat]
        /\ \A x \in DOMAIN cts : AsAsked(E, k, p, x, cts[x])
    <3>1. DOMAIN cts = Members(l) \ {c} /\ \A x \in DOMAIN cts : cts[x] = l.containers[x]
      BY DEF Others
    <3> HIDE DEF l, cts
    <3> QED BY <2>1, <3>1 DEF SoundLocation, IsLocation
  <2>3. r.locs[p] = LocationWith(l, cts, l.extras)
    BY <1>3
  <2> HIDE DEF l, cts
  <2> QED BY <2>1, <2>2, <2>3, LocationWithSound
<1>5. SoundHost(E, files, k, r)
  BY <1>1, <1>2, <1>3, <1>4 DEF SoundHost
<1> QED BY <1>1, <1>2, <1>5


(* A file that is there stays there.                                        *)
LEMMA FilesStay ==
    ASSUME NEW E, NEW old, NEW new, NEW T, Sound(E, old, T),
           \A x \in Hostname : old[x].there => new[x].there
    PROVE  Sound(E, new, T)
<1> SUFFICES ASSUME NEW k \in DOMAIN T
             PROVE  k \in Hostname \X Nat /\ SoundHost(E, new, k, T[k])
  BY DEF Sound
<1>1. k \in Hostname \X Nat /\ SoundHost(E, old, k, T[k])
  BY DEF Sound
<1>2. k[1] \in Hostname
  BY <1>1
<1> QED BY <1>1, <1>2 DEF SoundHost

(* The filter a container asks for is on or off.                            *)
LEMMA FilterIsOnOrOff ==
    ASSUME NEW e
    PROVE  FilterOf(e).on \in BOOLEAN
BY DEF FilterOf, NoFilter

(* A host of a fragment, protected or not.                                  *)
LEMMA ProtectKeeps ==
    ASSUME NEW c, NEW h \in FreshHost(c), NEW path
    PROVE  LET r == Protect(h, path)
           IN  /\ r.ssl = h.ssl /\ r.orig = h.orig /\ r.auth \in BOOLEAN
               /\ DOMAIN r.locs = DOMAIN h.locs
               /\ \A p \in DOMAIN h.locs :
                     /\ r.locs[p].auth \in BOOLEAN
                     /\ r.locs[p] = [h.locs[p] EXCEPT !.auth = r.locs[p].auth]
<1> DEFINE r == Protect(h, path)
<1>1. PICK P \in SUBSET Path : h.locs \in [P -> FreshLocation(c)]
  BY DEF FreshHost
<1>2. \A p \in DOMAIN h.locs :
          h.locs[p].auth = FALSE /\ h.locs[p] = [h.locs[p] EXCEPT !.auth = FALSE]
  BY <1>1 DEF FreshLocation
<1>3. CASE path = Root
  <2>1. r = [h EXCEPT !.auth = TRUE]
    BY <1>3 DEF Protect
  <2> HIDE DEF r
  <2>2. r.ssl = h.ssl /\ r.orig = h.orig /\ r.auth = TRUE /\ r.locs = h.locs
    BY <2>1 DEF FreshHost
  <2> QED BY <1>2, <2>2 DEF r
<1>4. CASE path # Root /\ path \in DOMAIN h.locs
  <2> DEFINE l == [h.locs[path] EXCEPT !.auth = TRUE]
             locs == [h.locs EXCEPT ![path] = l]
  <2>1. r = [h EXCEPT !.locs = locs]
    BY <1>4 DEF Protect
  <2> HIDE DEF r, locs
  <2>2. r.ssl = h.ssl /\ r.orig = h.orig /\ r.auth = FALSE /\ r.locs = locs
    BY <2>1 DEF FreshHost
  <2>3. l.auth = TRUE
    BY <1>1, <1>4 DEF FreshLocation
  <2>4. /\ DOMAIN locs = DOMAIN h.locs /\ locs[path] = l
        /\ \A p \in DOMAIN h.locs : p # path => locs[p] = h.locs[p]
    BY <1>4 DEF locs
  <2>5. ASSUME NEW p \in DOMAIN h.locs
        PROVE  locs[p].auth \in BOOLEAN /\ locs[p] = [h.locs[p] EXCEPT !.auth = locs[p].auth]
    <3>1. CASE p = path
      BY <2>3, <2>4, <3>1
    <3>2. CASE p # path
      <4>1. locs[p] = h.locs[p]
        BY <2>4, <3>2
      <4> QED BY <1>2, <4>1
    <3> QED BY <3>1, <3>2
  <2> QED BY <2>2, <2>4, <2>5 DEF r
<1>5. CASE path # Root /\ path \notin DOMAIN h.locs
  <2>1. r = h
    BY <1>5 DEF Protect
  <2>2. h.auth \in BOOLEAN
    BY DEF FreshHost
  <2> HIDE DEF r
  <2> QED BY <1>2, <2>1, <2>2 DEF r
<1> QED BY <1>3, <1>4, <1>5

(* A location of a fragment is sound, with or without a password.           *)
LEMMA FreshLocationSound ==
    ASSUME NEW E, NEW c \in Container, NEW H \in Fragments(c, E[c]), Fragment(c, H),
           NEW k \in DOMAIN H, NEW p \in DOMAIN H[k].locs, NEW auth \in BOOLEAN,
           NEW l, l = [H[k].locs[p] EXCEPT !.auth = auth]
    PROVE  SoundLocation(E, k, p, l) /\ l.auth = auth
<1> DEFINE f == H[k].locs[p]
<1>1. f \in FreshLocation(c)
  BY FreshLocations DEF Fragment
<1>2. l = [f EXCEPT !.auth = auth]
  OBVIOUS
<1> HIDE DEF f
<1>3. /\ l.containers = f.containers /\ l.primary = c /\ l.scheme = f.scheme /\ l.port = f.port
      /\ l.auth = auth /\ l.extras = f.extras /\ l.injected = f.injected
      /\ l.grpc = f.grpc /\ l.ws = f.ws /\ l.http = f.http
  BY <1>1, <1>2 DEF FreshLocation
<1>4. Members(l) = {c} /\ l.containers[c] \in [scheme : Schemes, port : Nat]
  BY <1>1, <1>3 DEF FreshLocation, Members
<1>5. IsLocation(l)
  BY <1>1, <1>3, <1>4 DEF FreshLocation, IsLocation
<1>6. Data(l) = Data(f)
  BY <1>3 DEF Data
<1>7. \A x \in Members(l) : AsAsked(E, k, p, x, l.containers[x])
  BY <1>3, <1>4 DEF AsAsked, f
<1> QED BY <1>3, <1>5, <1>6, <1>7 DEF SoundLocation, f

(* Every host of a processed fragment is sound: the protected ones have a   *)
(* file.                                                                    *)
LEMMA ProcessedSound ==
    ASSUME NEW E, NEW files, NEW c \in Container, NEW H \in Fragments(c, E[c]),
           Fragment(c, H), NEW G, NEW e, NEW path,
           \/ G = H
           \/ \E k \in DOMAIN H : G = [H EXCEPT ![k] = Protect(@, path)] /\ files[k[1]].there
    PROVE  Sound(E, files, ProcessIPFilter(e, G))
<1> DEFINE U == ProcessIPFilter(e, G)
<1>1. DOMAIN G = DOMAIN H
  OBVIOUS
<1> SUFFICES ASSUME NEW k \in DOMAIN H
             PROVE  k \in Hostname \X Nat /\ SoundHost(E, files, k, U[k])
  BY <1>1 DEF Sound, ProcessIPFilter
<1> DEFINE h == H[k]
           g == G[k]
<1>2. k \in Hostname \X Nat /\ h \in FreshHost(c) /\ DOMAIN h.locs # {}
  BY DEF Fragment
<1>3. h.ssl \in BOOLEAN /\ h.orig \in Schemes /\ h.auth = FALSE /\ DOMAIN h.locs \subseteq Path
  BY <1>2 DEF FreshHost
<1>4. \A p \in DOMAIN h.locs :
          h.locs[p].auth = FALSE /\ h.locs[p] = [h.locs[p] EXCEPT !.auth = FALSE]
  <2> SUFFICES ASSUME NEW p \in DOMAIN h.locs
               PROVE  h.locs[p].auth = FALSE /\ h.locs[p] = [h.locs[p] EXCEPT !.auth = FALSE]
    OBVIOUS
  <2>1. h.locs[p] \in FreshLocation(c)
    BY <1>2, FreshLocations
  <2> QED BY <2>1 DEF FreshLocation
<1>5. g = h \/ (g = Protect(h, path) /\ files[k[1]].there)
  BY <1>1
<1>6. U[k] = HostWith(g, g.ssl, FilterOf(e), g.locs)
  BY <1>1 DEF ProcessIPFilter
<1>7. /\ U[k].ssl = g.ssl /\ U[k].orig = g.orig /\ U[k].auth = g.auth
      /\ U[k].filter = FilterOf(e) /\ U[k].locs = g.locs
  BY <1>6 DEF HostWith
<1>8. /\ g.ssl = h.ssl /\ g.orig = h.orig /\ g.auth \in BOOLEAN
      /\ DOMAIN g.locs = DOMAIN h.locs
      /\ g.auth => files[k[1]].there
      /\ \A p \in DOMAIN h.locs :
            /\ g.locs[p].auth \in BOOLEAN
            /\ g.locs[p] = [h.locs[p] EXCEPT !.auth = g.locs[p].auth]
            /\ g.locs[p].auth => files[k[1]].there
  <2> HIDE DEF g, h
  <2>1. CASE g = h
    BY <1>3, <1>4, <2>1
  <2>2. CASE g = Protect(h, path) /\ files[k[1]].there
    BY <1>2, <2>2, ProtectKeeps
  <2> QED BY <1>5, <2>1, <2>2
<1>9. \A p \in DOMAIN g.locs : SoundLocation(E, k, p, g.locs[p])
  <2> SUFFICES ASSUME NEW p \in DOMAIN h.locs
               PROVE  SoundLocation(E, k, p, g.locs[p])
    BY <1>8
  <2>1. /\ g.locs[p].auth \in BOOLEAN
        /\ g.locs[p] = [H[k].locs[p] EXCEPT !.auth = g.locs[p].auth]
    BY <1>8
  <2> HIDE DEF g
  <2> QED BY <2>1, FreshLocationSound
<1>10. FilterOf(e).on \in BOOLEAN
  BY FilterIsOnOrOff
<1> HIDE DEF U, g, h
<1> QED BY <1>2, <1>3, <1>7, <1>8, <1>9, <1>10 DEF SoundHost


-----------------------------------------------------------------------------
(* The processor keeps credentials and files of the declared shape, and     *)
(* protects a host only once its file is written.                           *)

Credential == [user : User, pass : Password]
PasswordFile == [there : BOOLEAN, lines : SUBSET Credential, whole : BOOLEAN]

ProcessorOK(cs, files) ==
    /\ DOMAIN cs = Hostname \cup {NoHost} /\ DOMAIN files = Hostname \cup {NoHost}
    /\ \A h \in Hostname \cup {NoHost} :
          /\ \A p \in DOMAIN cs[h] : cs[h][p] \in Credential
          /\ files[h] \in PasswordFile

LEMMA FileLinesAreCredentials ==
    ASSUME NEW cs, \A p \in DOMAIN cs : cs[p] \in Credential, NEW L \in FileLines(cs)
    PROVE  L \in SUBSET Credential
BY DEF FileLines, AuthMaps

LEMMA AuthProcessed ==
    ASSUME NEW e \in Environments, NEW H, NEW G, ProcessorOK(credentials, htpasswd),
           ProcessBasicAuth(e, H, G)
    PROVE  /\ ProcessorOK(credentials', htpasswd')
           /\ \A x \in Hostname : htpasswd[x].there => htpasswd'[x].there
           /\ \/ G = H
              \/ \E k \in DOMAIN H : /\ G = [H EXCEPT ![k] = Protect(@, e.auth.path)]
                                     /\ htpasswd'[k[1]].there
<1> DEFINE a == e.auth
           entry == [user |-> a.user, pass |-> a.pass]
           cs == Put(credentials[a.host], a.path, entry)
           keys == {k \in DOMAIN H : k[1] = a.host}
           Names == Hostname \cup {NoHost}
<1>1. CASE ~e.auth.ok
  BY <1>1 DEF ProcessBasicAuth, processor
<1>2. CASE e.auth.ok
  <2>1. a.host \in Names /\ entry \in Credential
    BY <1>2, EnvironmentAssumption DEF Credential
  <2>2. \A p \in DOMAIN cs : cs[p] \in Credential
    <3>1. \A p \in DOMAIN credentials[a.host] : credentials[a.host][p] \in Credential
      BY <2>1 DEF ProcessorOK
    <3> HIDE DEF a, entry
    <3> QED BY <2>1, <3>1 DEF Put
  <2>2a. cs = StoreCredential(credentials[a.host], a)
    BY DEF StoreCredential
  <2>3. credentials' = [credentials EXCEPT ![a.host] = cs]
    BY <1>2, <2>2a DEF ProcessBasicAuth
  <2>4. \/ keys = {} /\ G = H /\ htpasswd' = htpasswd
        \/ /\ \E k \in keys : G = [H EXCEPT ![k] = Protect(@, a.path)]
           /\ \E L \in FileLines(cs) : WriteFile(a.host, L, TRUE)
        \/ G = H /\ htpasswd' = htpasswd
        \/ /\ G = H
           /\ \E L \in FileLines(cs) : \E cut \in SUBSET L : WriteFile(a.host, cut, FALSE)
    BY <1>2, <2>2a DEF ProcessBasicAuth
  <2>5. \/ G = H /\ htpasswd' = htpasswd
        \/ \E L \in SUBSET Credential, whole \in BOOLEAN :
              /\ WriteFile(a.host, L, whole)
              /\ \/ G = H
                 \/ \E k \in keys : G = [H EXCEPT ![k] = Protect(@, a.path)]
    <3>1. \A L \in FileLines(cs) : L \in SUBSET Credential
      <4> HIDE DEF cs
      <4> QED BY <2>2, FileLinesAreCredentials
    <3> HIDE DEF a, cs, keys
    <3> QED BY <2>4, <3>1
  <2>6. /\ DOMAIN credentials = Names /\ DOMAIN htpasswd = Names
        /\ \A h \in Names : \A p \in DOMAIN credentials[h] : credentials[h][p] \in Credential
        /\ \A h \in Names : htpasswd[h] \in PasswordFile
    BY DEF ProcessorOK
  <2>7. /\ DOMAIN credentials' = Names
        /\ \A h \in Names : \A p \in DOMAIN credentials'[h] : credentials'[h][p] \in Credential
    <3> HIDE DEF a, cs, Names
    <3> QED BY <2>1, <2>2, <2>3, <2>6
  <2>8. CASE G = H /\ htpasswd' = htpasswd
    BY <2>6, <2>7, <2>8 DEF ProcessorOK
  <2>9. CASE \E L \in SUBSET Credential, whole \in BOOLEAN :
                /\ WriteFile(a.host, L, whole)
                /\ \/ G = H
                   \/ \E k \in keys : G = [H EXCEPT ![k] = Protect(@, a.path)]
    <3> DEFINE file(L, w) == [there |-> TRUE, lines |-> L, whole |-> w]
    <3>1. PICK L \in SUBSET Credential, whole \in BOOLEAN :
              /\ htpasswd' = [htpasswd EXCEPT ![a.host] = file(L, whole)]
              /\ \/ G = H
                 \/ \E k \in keys : G = [H EXCEPT ![k] = Protect(@, a.path)]
      BY <2>9 DEF WriteFile
    <3>2. /\ DOMAIN htpasswd' = Names
          /\ htpasswd'[a.host] = file(L, whole)
          /\ \A h \in Names : h # a.host => htpasswd'[h] = htpasswd[h]
      <4> HIDE DEF a, Names
      <4> QED BY <2>1, <2>6, <3>1
    <3>3. htpasswd'[a.host].there
      BY <3>2
    <3>4. \A h \in Names : htpasswd'[h] \in PasswordFile
      <4>1. file(L, whole) \in PasswordFile
        BY DEF PasswordFile
      <4> HIDE DEF a, Names
      <4> QED BY <2>6, <3>2, <4>1
    <3>5. ProcessorOK(credentials', htpasswd')
      BY <2>7, <3>2, <3>4 DEF ProcessorOK
    <3>6. \A x \in Hostname : htpasswd[x].there => htpasswd'[x].there
      BY <3>2, <3>3
    <3> QED BY <3>1, <3>3, <3>5, <3>6
  <2> QED BY <2>5, <2>8, <2>9
<1> QED BY <1>1, <1>2

(* A container is put into a sound table.                                   *)
LEMMA ConfigureSound ==
    ASSUME env \in [Container -> Environments], ProcessorOK(credentials, htpasswd),
           NEW T, Sound(env, htpasswd, T), NEW c \in Container, NEW reloads \in BOOLEAN,
           Configure(T, c, reloads)
    PROVE  ProcessorOK(credentials', htpasswd') /\ Sound(env, htpasswd', hosts')
<1>0. PICK H \in Fragments(c, env[c]) : \E G :
          /\ IF H = <<>> THEN G = H /\ UNCHANGED processor ELSE ProcessBasicAuth(env[c], H, G)
          /\ hosts' = Committed(T, env[c], H, G, reloads)
  BY DEF Configure
<1>1. PICK G :
          /\ IF H = <<>> THEN G = H /\ UNCHANGED processor ELSE ProcessBasicAuth(env[c], H, G)
          /\ hosts' = Committed(T, env[c], H, G, reloads)
  BY <1>0
<1>2. env[c] \in Environments /\ IsEnvironment(env[c])
  BY EnvironmentAssumption
<1>3. Fragment(c, H)
  BY <1>2, VariablesOrderDoesNotMatter DEF Common
<1>4. /\ ProcessorOK(credentials', htpasswd')
      /\ \A x \in Hostname : htpasswd[x].there => htpasswd'[x].there
      /\ \/ G = H
         \/ \E k \in DOMAIN H : /\ G = [H EXCEPT ![k] = Protect(@, env[c].auth.path)]
                                /\ htpasswd'[k[1]].there
  <2>1. CASE H = <<>>
    <3>1. G = H /\ UNCHANGED <<credentials, htpasswd>>
      BY <1>1, <2>1 DEF processor
    <3> QED BY <3>1
  <2>2. CASE H # <<>>
    <3>1. ProcessBasicAuth(env[c], H, G)
      BY <1>1, <2>2
    <3> QED BY <1>2, <3>1, AuthProcessed
  <2> QED BY <2>1, <2>2
<1>5. Sound(env, htpasswd', ProcessIPFilter(env[c], G))
  BY <1>3, <1>4, ProcessedSound
<1>6. Sound(env, htpasswd', T)
  BY <1>4, FilesStay
<1>7. Sound(env, htpasswd', AddHosts(T, ProcessIPFilter(env[c], G)))
  BY <1>5, <1>6, AddHostsSound
<1>8. Sound(env, htpasswd', Reload(AddHosts(T, ProcessIPFilter(env[c], G))))
  BY <1>7, ReloadSound
<1>9. Sound(env, htpasswd', hosts')
  BY <1>1, <1>6, <1>7, <1>8 DEF Committed
<1> QED BY <1>4, <1>9

SettingsInv ==
    /\ env \in [Container -> Environments]
    /\ ProcessorOK(credentials, htpasswd)
    /\ Sound(env, htpasswd, hosts)
    /\ scan \subseteq Container /\ scanning \in BOOLEAN /\ ops \in 0..MaxOps

LEMMA SettingsInitially == Init => SettingsInv
<1> SUFFICES ASSUME Init PROVE SettingsInv
  OBVIOUS
<1>1. ProcessorOK(credentials, htpasswd)
  <2>1. NoFile \in PasswordFile
    BY DEF NoFile, PasswordFile
  <2> QED BY <2>1 DEF Init, ProcessorOK
<1>2. Sound(env, htpasswd, hosts)
  BY DEF Init, Sound
<1>3. scan \subseteq Container /\ scanning \in BOOLEAN /\ ops \in 0..MaxOps
  <2>1. scan = {} /\ scanning = FALSE /\ ops = 0
    BY DEF Init
  <2>2. scanning \in BOOLEAN
    BY <2>1
  <2>3. ops \in 0..MaxOps
    BY <2>1, OpsAssumption
  <2> QED BY <2>1, <2>2, <2>3
<1>4. env \in [Container -> Environments]
  BY DEF Init
<1> QED BY <1>1, <1>2, <1>3, <1>4 DEF SettingsInv

LEMMA SettingsStep == SettingsInv /\ [Next]_vars => SettingsInv'
<1> SUFFICES ASSUME SettingsInv, [Next]_vars PROVE SettingsInv'
  OBVIOUS
<1>1. /\ env \in [Container -> Environments] /\ ProcessorOK(credentials, htpasswd)
      /\ Sound(env, htpasswd, hosts)
      /\ scan \subseteq Container /\ scanning \in BOOLEAN /\ ops \in 0..MaxOps
  BY DEF SettingsInv
<1>2. \A c : Sound(env, htpasswd, RemoveContainerFromHosts(hosts, c))
  BY <1>1, RemovingSound
<1>3. ASSUME NEW c \in Container, UpdateContainer(c)
      PROVE  SettingsInv'
  <2> DEFINE R == RemoveContainerFromHosts(hosts, c)
  <2>1. env' = env /\ scan' = scan /\ scanning' = scanning /\ ops' \in 0..MaxOps
    BY <1>1, <1>3, OpsAssumption DEF UpdateContainer, Handler
  <2>2. Configure(R, c, TRUE) \/ (hosts' = R /\ UNCHANGED <<credentials, htpasswd>>)
    BY <1>3 DEF UpdateContainer, processor
  <2>3. ProcessorOK(credentials', htpasswd') /\ Sound(env, htpasswd', hosts')
    <3>1. CASE Configure(R, c, TRUE)
      <4> HIDE DEF R
      <4>1. Sound(env, htpasswd, R)
        BY <1>2 DEF R
      <4> QED BY <1>1, <3>1, <4>1, ConfigureSound
    <3>2. CASE hosts' = R /\ UNCHANGED <<credentials, htpasswd>>
      BY <1>1, <1>2, <3>2
    <3> QED BY <2>2, <3>1, <3>2
  <2> QED BY <1>1, <2>1, <2>3 DEF SettingsInv
<1>4. ASSUME NEW c \in Container, RemoveContainer(c)
      PROVE  SettingsInv'
  <2>1. /\ UNCHANGED <<env, credentials, htpasswd, scan, scanning>> /\ ops' \in 0..MaxOps
        /\ \/ hosts' = Reload(RemoveContainerFromHosts(hosts, c))
           \/ hosts' = hosts
    BY <1>1, <1>4, OpsAssumption DEF RemoveContainer, Handler
  <2>2. Sound(env, htpasswd, Reload(RemoveContainerFromHosts(hosts, c)))
    BY <1>2, ReloadSound
  <2>3. Sound(env, htpasswd, hosts')
    BY <1>1, <2>1, <2>2
  <2> QED BY <1>1, <2>1, <2>3 DEF SettingsInv
<1>5. ASSUME NEW c \in Container, ScanContainer(c)
      PROVE  SettingsInv'
  <2>1. env' = env /\ scan' \subseteq Container /\ scanning' = scanning /\ ops' = ops
    BY <1>1, <1>5 DEF ScanContainer
  <2>2. Configure(hosts, c, FALSE) \/ UNCHANGED <<hosts, credentials, htpasswd>>
    BY <1>5 DEF ScanContainer, processor
  <2>3. ProcessorOK(credentials', htpasswd') /\ Sound(env, htpasswd', hosts')
    <3>1. CASE Configure(hosts, c, FALSE)
      BY <1>1, <3>1, ConfigureSound
    <3>2. CASE UNCHANGED <<hosts, credentials, htpasswd>>
      BY <1>1, <3>2
    <3> QED BY <2>2, <3>1, <3>2
  <2> QED BY <1>1, <2>1, <2>3 DEF SettingsInv
<1>6. CASE BeginRescan
  <2>1. /\ UNCHANGED <<env, credentials, htpasswd>> /\ hosts' = <<>>
        /\ scan' \subseteq Container /\ scanning' = TRUE /\ ops' \in 0..MaxOps
    BY <1>1, <1>6, OpsAssumption DEF BeginRescan, Handler
  <2>2. Sound(env, htpasswd, <<>>)
    BY DEF Sound
  <2>3. Sound(env, htpasswd, hosts')
    BY <2>1, <2>2, Zenon
  <2> QED BY <1>1, <2>1, <2>3 DEF SettingsInv
<1>7. CASE EndRescan
  <2>1. /\ UNCHANGED <<env, credentials, htpasswd, scan, ops>> /\ hosts' = Reload(hosts)
        /\ scanning' = FALSE
    BY <1>7 DEF EndRescan
  <2>2. Sound(env, htpasswd, hosts')
    BY <1>1, <2>1, ReloadSound
  <2> QED BY <1>1, <2>1, <2>2 DEF SettingsInv
<1>8. CASE UNCHANGED vars
  BY <1>1, <1>8 DEF SettingsInv, vars
<1> QED BY <1>3, <1>4, <1>5, <1>6, <1>7, <1>8 DEF Next

LEMMA SettingsHold == Spec => []SettingsInv
BY SettingsInitially, SettingsStep, PTL DEF Spec


(* SettingsTypeOK: every table holds values its declaration allows, and no  *)
(* location is left without a container.                                    *)
THEOREM SettingsTypes == Spec => []SettingsTypeOK
<1>1. SettingsInv => SettingsTypeOK
  <2> SUFFICES ASSUME SettingsInv PROVE SettingsTypeOK
    OBVIOUS
  <2>1. ASSUME NEW k \in DOMAIN hosts
        PROVE  /\ k[1] \in Hostname /\ k[2] \in Nat
               /\ {hosts[k].ssl, hosts[k].auth, hosts[k].filter.on} \subseteq BOOLEAN
               /\ hosts[k].orig \in Schemes
               /\ DOMAIN hosts[k].locs \subseteq Path /\ DOMAIN hosts[k].locs # {}
               /\ \A p \in DOMAIN hosts[k].locs : IsLocation(hosts[k].locs[p])
    <3>1. k \in Hostname \X Nat /\ SoundHost(env, htpasswd, k, hosts[k])
      BY DEF SettingsInv, Sound
    <3>2. k[1] \in Hostname /\ k[2] \in Nat
      BY <3>1
    <3> QED BY <3>1, <3>2 DEF SoundHost, SoundLocation
  <2> QED BY <2>1 DEF SettingsInv, SettingsTypeOK, ProcessorOK, PasswordFile, Credential
<1> QED BY <1>1, SettingsHold, PTL

(* LocationsFollowPrimary: a location's own settings are, field by field,   *)
(* what the container it was made for asks for, and each of its containers  *)
(* is listed with the port that container asks for.                         *)
THEOREM LocationsAreOfOneContainer == Spec => []LocationsFollowPrimary
<1>1. SettingsInv => LocationsFollowPrimary
  BY DEF SettingsInv, Sound, SoundHost, SoundLocation, AsAsked, ListedAsAsked,
         LocationsFollowPrimary
<1> QED BY <1>1, SettingsHold, PTL

(* ProtectedHaveFile: where nginx is told to ask for a password there is a  *)
(* password file, although any write of one may fail.                       *)
THEOREM PasswordsHaveFiles == Spec => []ProtectedHaveFile
<1>1. SettingsInv => ProtectedHaveFile
  BY DEF SettingsInv, Sound, SoundHost, ProtectedHaveFile
<1> QED BY <1>1, SettingsHold, PTL

-----------------------------------------------------------------------------
(* Which passwords are in the files.  E is the value of env, cs and lines   *)
(* are the credentials and the password file of the hostname h.             *)

(* A container gives the credential x for the path p.                       *)
Offered(E, h, p, x) ==
    \E c \in Container :
        E[c].auth.ok /\ E[c].auth.host = h /\ E[c].auth.path = p
            /\ x = [user |-> E[c].auth.user, pass |-> E[c].auth.pass]

(* What is kept was given by a container; so was each line, for a path      *)
(* something is still kept for.                                             *)
WellGiven(E, h, cs, lines) ==
    /\ \A p \in DOMAIN cs : cs[p] \in Credential /\ Offered(E, h, p, cs[p])
    /\ \A x \in lines : x.pass \notin TooLong /\ \E p \in DOMAIN cs : Offered(E, h, p, x)

(* The credential x gave way to another.                                    *)
GaveWay(E, h, cs, x) ==
    \/ /\ x \notin {cs[p] : p \in DOMAIN cs}
       /\ \E p \in DOMAIN cs : Offered(E, h, p, x)
    \/ \E p \in DOMAIN cs : cs[p].user = x.user /\ cs[p].pass # x.pass

(* A file is written from what is kept, without the passwords too long.     *)
LEMMA LinesAreKept ==
    ASSUME NEW cs, NEW L \in FileLines(cs)
    PROVE  \A x \in L : x.pass \notin TooLong /\ \E p \in DOMAIN cs : x = cs[p]
<1>1. PICK M \in AuthMaps(cs) : L = {x \in M : x.pass \notin TooLong}
  BY DEF FileLines
<1>2. M \subseteq {cs[p] : p \in DOMAIN cs}
  BY DEF AuthMaps
<1> QED BY <1>1, <1>2

(* What is kept and can be hashed is written, unless its user has another   *)
(* password too.                                                            *)
LEMMA KeptIsWritten ==
    ASSUME NEW cs, \A p \in DOMAIN cs : cs[p] \in Credential, NEW L \in FileLines(cs),
           NEW p \in DOMAIN cs, cs[p].pass \notin TooLong, cs[p] \notin L
    PROVE  \E q \in DOMAIN cs : cs[q].user = cs[p].user /\ cs[q].pass # cs[p].pass
<1> DEFINE all == {cs[q] : q \in DOMAIN cs}
           x == cs[p]
<1>1. PICK M \in AuthMaps(cs) : L = {z \in M : z.pass \notin TooLong}
  BY DEF FileLines
<1>2. M \subseteq all /\ \A z \in all : \E y \in M : y.user = z.user
  BY DEF AuthMaps
<1>3. x \in all
  OBVIOUS
<1>4. PICK y \in M : y.user = x.user
  BY <1>2, <1>3
<1>5. PICK q \in DOMAIN cs : y = cs[q]
  BY <1>2
<1>6. y # x
  BY <1>1
<1>7. x \in Credential /\ y \in Credential
  BY <1>5
<1>8. y.pass # x.pass
  BY <1>4, <1>6, <1>7 DEF Credential
<1> QED BY <1>4, <1>5, <1>8

(* The credential of a container of the hostname is kept, and the file      *)
(* written anew.                                                            *)
LEMMA StoringGives ==
    ASSUME NEW E, NEW c \in Container, NEW h, NEW cs, NEW lines,
           WellGiven(E, h, cs, lines), E[c].auth.ok, E[c].auth.host = h,
           [user |-> E[c].auth.user, pass |-> E[c].auth.pass] \in Credential
    PROVE  LET ns == StoreCredential(cs, E[c].auth)
           IN  /\ WellGiven(E, h, ns, lines)
               /\ \A L \in FileLines(ns) :
                     /\ \A cut \in SUBSET L : WellGiven(E, h, ns, cut)
                     /\ \A x \in lines \ L : GaveWay(E, h, ns, x)
<1> DEFINE a == E[c].auth
           x0 == [user |-> a.user, pass |-> a.pass]
           ns == StoreCredential(cs, a)
<1>1. /\ DOMAIN ns = DOMAIN cs \cup {a.path}
      /\ ns[a.path] = x0
      /\ \A p \in DOMAIN cs : p # a.path => ns[p] = cs[p]
  BY DEF StoreCredential, Put
<1>2. Offered(E, h, a.path, x0)
  BY DEF Offered
<1>3. x0 \in Credential
  OBVIOUS
<1> HIDE DEF a, x0, ns
<1>4. \A p \in DOMAIN ns : ns[p] \in Credential /\ Offered(E, h, p, ns[p])
  BY <1>1, <1>2, <1>3 DEF WellGiven
<1>5. \A x \in lines : x.pass \notin TooLong /\ \E p \in DOMAIN ns : Offered(E, h, p, x)
  BY <1>1 DEF WellGiven
<1>6. ASSUME NEW L \in FileLines(ns)
      PROVE  /\ \A cut \in SUBSET L : WellGiven(E, h, ns, cut)
             /\ \A x \in lines \ L : GaveWay(E, h, ns, x)
  <2>1. \A x \in L : x.pass \notin TooLong /\ \E p \in DOMAIN ns : x = ns[p]
    BY LinesAreKept
  <2>2. \A x \in L : x.pass \notin TooLong /\ \E p \in DOMAIN ns : Offered(E, h, p, x)
    BY <2>1, <1>4
  <2>3. ASSUME NEW x \in lines \ L
        PROVE  GaveWay(E, h, ns, x)
    <3>1. CASE x \in {ns[p] : p \in DOMAIN ns}
      <4>1. PICK p \in DOMAIN ns : x = ns[p]
        BY <3>1
      <4>2. ns[p].pass \notin TooLong /\ ns[p] \notin L
        BY <4>1, <1>5
      <4>3. \E q \in DOMAIN ns : ns[q].user = ns[p].user /\ ns[q].pass # ns[p].pass
        BY <4>2, <1>4, KeptIsWritten
      <4> QED BY <4>1, <4>3 DEF GaveWay
    <3>2. CASE x \notin {ns[p] : p \in DOMAIN ns}
      BY <3>2, <1>5 DEF GaveWay
    <3> QED BY <3>1, <3>2
  <2> QED BY <1>4, <2>2, <2>3 DEF WellGiven
<1>7. WellGiven(E, h, ns, lines)
  BY <1>4, <1>5 DEF WellGiven
<1> QED BY <1>6, <1>7 DEF ns, a

AllWellGiven ==
    \A h \in Hostname \cup {NoHost} : WellGiven(env, h, credentials[h], htpasswd[h].lines)

(* The step of PasswordsKept.                                               *)
LostGaveWay ==
    \A h \in Hostname \cup {NoHost} : \A x \in htpasswd[h].lines \ htpasswd'[h].lines :
        ~htpasswd'[h].whole \/ GaveWay(env, h, credentials'[h], x)

LEMMA UntouchedGives ==
    ASSUME AllWellGiven, UNCHANGED <<env, credentials, htpasswd>>
    PROVE  AllWellGiven' /\ LostGaveWay
BY DEF AllWellGiven, LostGaveWay

LEMMA AuthGives ==
    ASSUME NEW c \in Container, NEW H, NEW G, ProcessBasicAuth(env[c], H, G), env' = env,
           env[c] \in Environments, ProcessorOK(credentials, htpasswd), AllWellGiven
    PROVE  AllWellGiven' /\ LostGaveWay
<1> DEFINE Names == Hostname \cup {NoHost}
           a == env[c].auth
           cs == StoreCredential(credentials[a.host], a)
<1>1. CASE ~a.ok
  <2>1. UNCHANGED <<credentials, htpasswd>>
    BY <1>1 DEF ProcessBasicAuth, processor
  <2> QED BY <2>1, UntouchedGives
<1>2. CASE a.ok
  <2>1. a.host \in Names /\ [user |-> a.user, pass |-> a.pass] \in Credential
    BY <1>2, EnvironmentAssumption DEF Credential
  <2>2. /\ credentials' = [credentials EXCEPT ![a.host] = cs]
        /\ \/ htpasswd' = htpasswd
           \/ \E L \in FileLines(cs) : WriteFile(a.host, L, TRUE)
           \/ \E L \in FileLines(cs) : \E cut \in SUBSET L : WriteFile(a.host, cut, FALSE)
    BY <1>2 DEF ProcessBasicAuth
  <2>3. DOMAIN credentials = Names /\ DOMAIN htpasswd = Names
    BY DEF ProcessorOK
  <2>4. /\ WellGiven(env, a.host, cs, htpasswd[a.host].lines)
        /\ \A L \in FileLines(cs) :
              /\ \A cut \in SUBSET L : WellGiven(env, a.host, cs, cut)
              /\ \A x \in htpasswd[a.host].lines \ L : GaveWay(env, a.host, cs, x)
    <3>1. WellGiven(env, a.host, credentials[a.host], htpasswd[a.host].lines)
      BY <2>1 DEF AllWellGiven
    <3> QED BY <1>2, <2>1, <3>1, StoringGives
  <2> HIDE DEF a, cs, Names
  <2>5. credentials'[a.host] = cs /\ \A h \in Names : h # a.host => credentials'[h] = credentials[h]
    BY <2>1, <2>2, <2>3
  <2>6. \A h \in Names : h # a.host => htpasswd'[h] = htpasswd[h]
    BY <2>1, <2>2, <2>3 DEF WriteFile
  <2>7. \/ htpasswd'[a.host] = htpasswd[a.host]
        \/ htpasswd'[a.host].lines \in FileLines(cs)
        \/ /\ ~htpasswd'[a.host].whole
           /\ \E L \in FileLines(cs) : htpasswd'[a.host].lines \subseteq L
    <3> DEFINE file(L, w) == [there |-> TRUE, lines |-> L, whole |-> w]
    <3>1. \A L, w : htpasswd' = [htpasswd EXCEPT ![a.host] = file(L, w)]
                        => htpasswd'[a.host] = file(L, w)
      BY <2>1, <2>3
    <3>2. \A L, w : file(L, w).lines = L
      OBVIOUS
    <3> HIDE DEF file
    <3>3. CASE \E L \in FileLines(cs) : WriteFile(a.host, L, TRUE)
      <4>1. PICK L \in FileLines(cs) : htpasswd' = [htpasswd EXCEPT ![a.host] = file(L, TRUE)]
        BY <3>3 DEF WriteFile, file
      <4>2. htpasswd'[a.host].lines = L
        BY <4>1, <3>1, <3>2
      <4> QED BY <4>2
    <3>4. CASE \E L \in FileLines(cs) : \E cut \in SUBSET L : WriteFile(a.host, cut, FALSE)
      <4>1. PICK L \in FileLines(cs) : \E cut \in SUBSET L :
                htpasswd' = [htpasswd EXCEPT ![a.host] = file(cut, FALSE)]
        BY <3>4 DEF WriteFile, file
      <4>1a. PICK cut \in SUBSET L : htpasswd' = [htpasswd EXCEPT ![a.host] = file(cut, FALSE)]
        BY <4>1
      <4>2. htpasswd'[a.host] = file(cut, FALSE)
        BY <4>1a, <3>1
      <4>3. htpasswd'[a.host].lines = cut
        BY <4>2, <3>2
      <4>4. ~htpasswd'[a.host].whole
        BY <4>2 DEF file
      <4> QED BY <4>3, <4>4
    <3> QED BY <2>2, <3>3, <3>4
  <2>8. /\ WellGiven(env, a.host, cs, htpasswd'[a.host].lines)
        /\ \A x \in htpasswd[a.host].lines \ htpasswd'[a.host].lines :
              ~htpasswd'[a.host].whole \/ GaveWay(env, a.host, cs, x)
    BY <2>4, <2>7
  <2>9. AllWellGiven'
    BY <2>5, <2>6, <2>8 DEF AllWellGiven, Names
  <2>10. LostGaveWay
    BY <2>5, <2>6, <2>8 DEF LostGaveWay, Names
  <2> QED BY <2>9, <2>10
<1> QED BY <1>1, <1>2

LEMMA ConfigureGives ==
    ASSUME NEW c \in Container, NEW T, NEW reloads, Configure(T, c, reloads), env' = env,
           SettingsInv, AllWellGiven
    PROVE  AllWellGiven' /\ LostGaveWay
<1>1. (\E H, G : ProcessBasicAuth(env[c], H, G)) \/ UNCHANGED <<credentials, htpasswd>>
  BY DEF Configure, processor
<1>2. env[c] \in Environments /\ ProcessorOK(credentials, htpasswd)
  BY DEF SettingsInv
<1> QED BY <1>1, <1>2, AuthGives, UntouchedGives

LEMMA StepGives ==
    ASSUME SettingsInv, AllWellGiven, [Next]_vars
    PROVE  AllWellGiven' /\ LostGaveWay
<1>1. env' = env
  BY DEF Next, vars, UpdateContainer, RemoveContainer, BeginRescan, ScanContainer, EndRescan
<1>2. \/ UNCHANGED <<credentials, htpasswd>>
      \/ \E c \in Container : \E T, reloads : Configure(T, c, reloads)
  BY DEF Next, vars, UpdateContainer, RemoveContainer, BeginRescan, ScanContainer, EndRescan,
         processor
<1> QED BY <1>1, <1>2, UntouchedGives, ConfigureGives

(* PasswordsKept: whoever can log in by a password file still can after any *)
(* step, unless the credential gave way to another one or a failure cut the *)
(* file short.                                                              *)
THEOREM PasswordsAreKept == Spec => PasswordsKept
<1>1. Init => AllWellGiven
  BY DEF Init, AllWellGiven, WellGiven, NoFile
<1>2. SettingsInv /\ AllWellGiven /\ [Next]_vars => AllWellGiven'
  BY StepGives
<1>3. ASSUME SettingsInv, AllWellGiven, [Next]_vars,
             NEW h \in Hostname \cup {NoHost},
             NEW x \in htpasswd[h].lines \ htpasswd'[h].lines
      PROVE  ~htpasswd'[h].whole \/ Superseded(h, x)'
  <2>1. env' = env
    BY <1>3 DEF Next, vars, UpdateContainer, RemoveContainer, BeginRescan, ScanContainer,
                EndRescan
  <2>2. ~htpasswd'[h].whole \/ GaveWay(env, h, credentials'[h], x)
    BY <1>3, StepGives DEF LostGaveWay
  <2>3. CASE GaveWay(env, h, credentials'[h], x)
    BY <2>1, <2>3 DEF GaveWay, Offered, Superseded, Stored, Gives
  <2> QED BY <2>2, <2>3
<1>4. SettingsInv /\ AllWellGiven /\ [Next]_vars =>
          \A h \in Hostname \cup {NoHost} : \A x \in htpasswd[h].lines \ htpasswd'[h].lines :
              ~htpasswd'[h].whole \/ Superseded(h, x)'
  BY <1>3
<1> QED BY <1>1, <1>2, <1>4, SettingsHold, PTL DEF Spec, PasswordsKept

-----------------------------------------------------------------------------
(* A location renders what some reading of its primary's variables gives it. *)
LEMMA LocationOfFragment ==
    ASSUME SettingsInv, NEW k \in DOMAIN hosts, NEW p \in DOMAIN hosts[k].locs
    PROVE  LET l == hosts[k].locs[p]
           IN  \E H : /\ k \in DOMAIN H /\ p \in DOMAIN H[k].locs
                      /\ Data(l) = Data(H[k].locs[p])
                      /\ H[k].locs[p] \in FreshLocation(l.primary)
                      /\ GRPCBothSides(env[l.primary]) => Passing(H)
                      /\ env[l.primary] \in Environments
<1> DEFINE l == hosts[k].locs[p]
           c == l.primary
<1>1. SoundLocation(env, k, p, l)
  BY DEF SettingsInv, Sound, SoundHost
<1>2. c \in Container
  BY <1>1 DEF SoundLocation, IsLocation
<1>3. env[c] \in Environments /\ IsEnvironment(env[c])
  BY <1>2, EnvironmentAssumption DEF SettingsInv
<1> HIDE DEF c
<1>4. PICK H \in Fragments(c, env[c]) :
          k \in DOMAIN H /\ p \in DOMAIN H[k].locs /\ Data(l) = Data(H[k].locs[p])
  BY <1>1 DEF SoundLocation, c
<1>5. Fragment(c, H) /\ (GRPCBothSides(env[c]) => Passing(H))
  BY <1>3, VariablesOrderDoesNotMatter DEF Common
<1>6. H[k].locs[p] \in FreshLocation(c)
  BY <1>4, <1>5, FreshLocations DEF Fragment
<1> QED BY <1>3, <1>4, <1>5, <1>6 DEF c

(* DirectivesOnce: a directive is written once in a location, however many  *)
(* containers bring it and come back with it.                               *)
THEOREM DirectivesAreOnce == Spec => []DirectivesOnce
<1>1. SettingsInv => DirectivesOnce
  <2> SUFFICES ASSUME SettingsInv, NEW k \in DOMAIN hosts, NEW p \in DOMAIN hosts[k].locs,
                      NEW d \in Directive
               PROVE  hosts[k].locs[p].injected[d] <= 1
    BY DEF DirectivesOnce
  <2> DEFINE l == hosts[k].locs[p]
  <2>1. PICK H : Data(l) = Data(H[k].locs[p]) /\ H[k].locs[p] \in FreshLocation(l.primary)
    BY LocationOfFragment
  <2> DEFINE f == H[k].locs[p]
  <2>2. f \in FreshLocation(l.primary) /\ Data(l) = Data(f)
    BY <2>1
  <2> HIDE DEF l, f
  <2>3. l.injected = f.injected
    BY <2>2 DEF Data
  <2>4. f.injected \in [Directive -> 0..1]
    BY <2>2 DEF FreshLocation
  <2>5. l.injected[d] <= 1
    BY <2>3, <2>4
  <2> QED BY <2>5 DEF l
<1> QED BY <1>1, SettingsHold, PTL

(* PassMatchesScheme: a location is passed on with grpc_pass exactly if its *)
(* backend's scheme is one of gRPC, when no variable is gRPC on one side    *)
(* only.                                                                    *)
THEOREM PassesMatchSchemes ==
    ASSUME \A e \in Environments : GRPCBothSides(e)
    PROVE  Spec => []PassMatchesScheme
<1>1. SettingsInv => PassMatchesScheme
  <2> SUFFICES ASSUME SettingsInv, NEW k \in DOMAIN hosts, NEW p \in DOMAIN hosts[k].locs
               PROVE  hosts[k].locs[p].grpc <=> IsGRPC(hosts[k].locs[p].scheme)
    BY DEF PassMatchesScheme
  <2> DEFINE l == hosts[k].locs[p]
  <2>1. PICK H : /\ k \in DOMAIN H /\ p \in DOMAIN H[k].locs
                 /\ Data(l) = Data(H[k].locs[p]) /\ Passing(H)
    BY LocationOfFragment
  <2> DEFINE f == H[k].locs[p]
  <2>2. (f.grpc <=> IsGRPC(f.scheme)) /\ Data(l) = Data(f)
    BY <2>1 DEF Passing
  <2> HIDE DEF l, f
  <2>3. l.grpc = f.grpc /\ l.scheme = f.scheme
    BY <2>2 DEF Data
  <2>4. l.grpc <=> IsGRPC(l.scheme)
    BY <2>2, <2>3
  <2> QED BY <2>4 DEF l
<1> QED BY <1>1, SettingsHold, PTL

(* The entries as HostTable has them, with the port and TLS as they were    *)
(* before port 80 became 443, are those that were merged.                   *)
LEMMA TableEntryFacts ==
    ASSUME NEW e, IsEnvironment(e), NoPortZero(e), NEW n \in DOMAIN e.vars, Parsed(e, n)
    PROVE  /\ Table!EntryKey(TableEntry(e, e.vars[n])) = Key(EntryOf(e, e.vars[n]))
           /\ Table!Secured(TableEntry(e, e.vars[n])) <=> EntryOf(e, e.vars[n]).ssl
           /\ TableEntry(e, e.vars[n]).path = EntryOf(e, e.vars[n]).path
<1> DEFINE v == e.vars[n]
           r == ParseHostEntry(v.text)
           over == Overrides(e) /\ e.letsencrypt
<1>1. IsText(v.text) /\ ~Unparsable(v.text) /\ v.static \in BOOLEAN
  BY DEF IsEnvironment, Parsed
<1>2. r \in EntryType
  BY <1>1, ParsedEntry
<1>3. r.port # 0
  <2>1. v.text.port # 0
    BY DEF NoPortZero
  <2> QED BY <2>1 DEF ParseHostEntry, HostEntry, ParseVirtualHost
<1>4. TableEntry(e, v) = [host |-> r.host, port |-> r.port, path |-> r.path,
                          static |-> v.static, ssl |-> r.ssl \/ (~v.static /\ over)]
  BY DEF TableEntry
<1> HIDE DEF over
<1>5. CASE v.static
  <2>1. EntryOf(e, v) = [r EXCEPT !.ssl = r.ssl \/ r.port = 443,
                                  !.port = IF r.port = 0 THEN 443 ELSE r.port]
    BY <1>5 DEF EntryOf, StaticEntry
  <2> HIDE DEF r, v
  <2> DEFINE t == TableEntry(e, v)
             f == EntryOf(e, v)
  <2>2. t.host = r.host /\ t.port = r.port /\ t.path = r.path /\ t.static = v.static
        /\ (t.ssl <=> r.ssl)
    BY <1>2, <1>4, <1>5 DEF EntryType
  <2>3. f.host = r.host /\ f.port = r.port /\ f.path = r.path
        /\ (f.ssl <=> r.ssl \/ r.port = 443)
    <3> DEFINE ssl == r.ssl \/ r.port = 443
               port == IF r.port = 0 THEN 443 ELSE r.port
    <3>1. f = [r EXCEPT !.ssl = ssl, !.port = port]
      BY <2>1
    <3>2. port = r.port
      BY <1>3
    <3> HIDE DEF f, ssl, port
    <3>3. f.host = r.host /\ f.port = port /\ f.path = r.path
      BY <1>2, <3>1 DEF EntryType
    <3>4. f.ssl = ssl
      BY <1>2, <3>1, Zenon DEF EntryType
    <3> QED BY <3>2, <3>3, <3>4 DEF ssl
  <2> HIDE DEF t, f
  <2>4. Table!EntryKey(t) = Key(f) /\ (Table!Secured(t) <=> f.ssl) /\ t.path = f.path
    BY <1>5, <2>2, <2>3 DEF Table!EntryKey, Table!Secured, Key
  <2> QED BY <2>4 DEF t, f, v
<1>6. CASE ~v.static
  <2> DEFINE ssl == r.ssl \/ over \/ r.port = 443
  <2>1. EntryOf(e, v) = Overridden(e, r)
    BY <1>6 DEF EntryOf, VirtualEntry
  <2> HIDE DEF r, v
  <2> DEFINE t == TableEntry(e, v)
             f == EntryOf(e, v)
  <2>2. t.host = r.host /\ t.port = r.port /\ t.path = r.path /\ t.static = v.static
        /\ (t.ssl <=> r.ssl \/ over)
    <3> HIDE DEF t
    <3>1. t = [host |-> r.host, port |-> r.port, path |-> r.path,
               static |-> v.static, ssl |-> r.ssl \/ (~v.static /\ over)]
      BY <1>4 DEF t
    <3>2. t.host = r.host /\ t.port = r.port /\ t.path = r.path /\ t.static = v.static
      BY <3>1
    <3>3. t.ssl <=> r.ssl \/ (~v.static /\ over)
      BY <3>1, Zenon
    <3> QED BY <1>6, <3>2, <3>3
  <2>3. f.host = r.host /\ f.path = r.path /\ (f.ssl <=> ssl)
        /\ f.port = IF ssl /\ r.port = 80 THEN 443 ELSE r.port
    <3> DEFINE port == IF (ssl /\ r.port = 80) \/ r.port = 0 THEN 443 ELSE r.port
               cport == IF Overrides(e) /\ e.vport \in Nat THEN e.vport ELSE r.cport
    <3>1. f = [r EXCEPT !.ssl = ssl, !.port = port, !.cport = cport]
      BY <2>1 DEF Overridden, over
    <3>2. port = IF ssl /\ r.port = 80 THEN 443 ELSE r.port
      BY <1>3
    <3> HIDE DEF f, port, cport, ssl
    <3>3. f.host = r.host /\ f.port = port /\ f.path = r.path
      BY <1>2, <3>1 DEF EntryType
    <3>4. f.ssl = ssl
      BY <1>2, <3>1, Zenon DEF EntryType
    <3> QED BY <3>2, <3>3, <3>4
  <2> HIDE DEF t, f
  <2>4. Table!EntryKey(t) = Key(f) /\ (Table!Secured(t) <=> f.ssl) /\ t.path = f.path
    BY <1>6, <2>2, <2>3 DEF Table!EntryKey, Table!Secured, Key
  <2> QED BY <2>4 DEF t, f, v
<1> QED BY <1>1, <1>5, <1>6

(* FragmentsAgree: in whatever order the variables of a container are read, *)
(* its hosts, their TLS and their locations are those HostTable builds at   *)
(* once from the set of its entries, when no two static entries of it are   *)
(* for one host and none is for the port 0.                                 *)
THEOREM FragmentsDoAgree ==
    ASSUME \A e \in Environments : OneStaticEach(e) /\ NoPortZero(e)
    PROVE  Spec => []FragmentsAgree
<1>1. SettingsInv => FragmentsAgree
  <2> SUFFICES ASSUME SettingsInv, NEW c \in Container, NEW H \in Fragments(c, env[c])
               PROVE  LET G == Table!ProcessVirtualHosts(c, {"net"}, {"net"})
                      IN  /\ DOMAIN H = DOMAIN G
                          /\ \A k \in DOMAIN H :
                                /\ H[k].ssl = G[k].ssl
                                /\ DOMAIN H[k].locs = DOMAIN G[k].locs
                                /\ \A p \in DOMAIN H[k].locs :
                                      /\ Members(H[k].locs[p]) = G[k].locs[p].cts
                                      /\ H[k].locs[p].primary = G[k].locs[p].primary
    BY DEF FragmentsAgree
  <2> DEFINE G == Table!ProcessVirtualHosts(c, {"net"}, {"net"})
             e == env[c]
             N == {n \in DOMAIN e.vars : Parsed(e, n)}
             E == {EntryOf(e, e.vars[n]) : n \in N}
             F == TableEntries(e)
  <2>1. e \in Environments /\ IsEnvironment(e) /\ OneStaticEach(e) /\ NoPortZero(e)
    BY EnvironmentAssumption DEF SettingsInv
  <2>2. Fragment(c, H) /\ Agrees(H, E)
    BY <2>1, VariablesOrderDoesNotMatter DEF Common
  <2>3. \A n \in N : /\ Table!EntryKey(TableEntry(e, e.vars[n])) = Key(EntryOf(e, e.vars[n]))
                     /\ Table!Secured(TableEntry(e, e.vars[n])) <=> EntryOf(e, e.vars[n]).ssl
                     /\ TableEntry(e, e.vars[n]).path = EntryOf(e, e.vars[n]).path
    BY <2>1, TableEntryFacts
  <2>4. F = {TableEntry(e, e.vars[n]) : n \in N}
    BY DEF TableEntries
  <2>5. G = [k \in {Table!EntryKey(f) : f \in F} |->
               [host |-> k[1], port |-> k[2],
                ssl |-> \E f \in {g \in F : Table!EntryKey(g) = k} : Table!Secured(f),
                redir |-> FALSE,
                locs |-> [p \in {f.path : f \in {g \in F : Table!EntryKey(g) = k}} |->
                            Table!NewLocation(c)],
                ups |-> Table!Nothing]]
    BY DEF Table!ProcessVirtualHosts
  <2> HIDE DEF G, e, N, F
  <2>6. DOMAIN H = DOMAIN G
    <3>1. \A k : k \in DOMAIN H <=> \E n \in N : Key(EntryOf(e, e.vars[n])) = k
      BY <2>2 DEF Agrees
    <3>2. DOMAIN G = {Table!EntryKey(f) : f \in F}
      BY <2>5
    <3> QED BY <2>3, <2>4, <3>1, <3>2
  <2>7. ASSUME NEW k \in DOMAIN H
        PROVE  /\ H[k].ssl = G[k].ssl
               /\ DOMAIN H[k].locs = DOMAIN G[k].locs
               /\ \A p \in DOMAIN H[k].locs :
                     /\ Members(H[k].locs[p]) = G[k].locs[p].cts
                     /\ H[k].locs[p].primary = G[k].locs[p].primary
    <3> DEFINE at == {g \in F : Table!EntryKey(g) = k}
               paths == {f.path : f \in at}
    <3>1. /\ G[k].ssl = \E f \in at : Table!Secured(f)
          /\ G[k].locs = [p \in paths |-> Table!NewLocation(c)]
      BY <2>5, <2>6
    <3>2. /\ H[k].ssl <=> \E n \in N : Key(EntryOf(e, e.vars[n])) = k /\ EntryOf(e, e.vars[n]).ssl
          /\ \A p : p \in DOMAIN H[k].locs
                    <=> \E n \in N : Key(EntryOf(e, e.vars[n])) = k /\ EntryOf(e, e.vars[n]).path = p
      BY <2>2 DEF Agrees
    <3>3. \A p : p \in DOMAIN H[k].locs => /\ Members(H[k].locs[p]) = {c}
                                          /\ H[k].locs[p].primary = c
      <4>1. H[k] \in FreshHost(c)
        BY <2>2 DEF Fragment
      <4>2. \A p \in DOMAIN H[k].locs : H[k].locs[p] \in FreshLocation(c)
        <5> DEFINE h == H[k]
        <5> HIDE DEF h
        <5>1. \A p \in DOMAIN h.locs : h.locs[p] \in FreshLocation(c)
          BY <4>1, FreshLocations DEF h
        <5> QED BY <5>1 DEF h
      <4> QED BY <4>2 DEF FreshLocation, Members
    <3>4. H[k].ssl \in BOOLEAN
      BY <2>2 DEF Fragment, FreshHost
    <3>5. (\E f \in at : Table!Secured(f))
             <=> \E n \in N : Key(EntryOf(e, e.vars[n])) = k /\ EntryOf(e, e.vars[n]).ssl
      BY <2>3, <2>4
    <3>6. \A p : p \in paths
             <=> \E n \in N : Key(EntryOf(e, e.vars[n])) = k /\ EntryOf(e, e.vars[n]).path = p
      BY <2>3, <2>4
    <3> HIDE DEF at, paths
    <3>7. H[k].ssl = G[k].ssl
      BY <3>1, <3>2, <3>4, <3>5
    <3>8. DOMAIN G[k].locs = paths /\ \A p \in paths : G[k].locs[p] = Table!NewLocation(c)
      BY <3>1
    <3>9. DOMAIN H[k].locs = paths
      BY <3>2, <3>6
    <3>10. \A p \in paths : G[k].locs[p].cts = {c} /\ G[k].locs[p].primary = c
      BY <3>8 DEF Table!NewLocation
    <3> QED BY <3>3, <3>7, <3>8, <3>9, <3>10
  <2> QED BY <2>6, <2>7 DEF G
<1> QED BY <1>1, SettingsHold, PTL

=============================================================================
