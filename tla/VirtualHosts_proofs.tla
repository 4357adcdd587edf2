------------------------- MODULE VirtualHosts_proofs -------------------------
(***************************************************************************)
(* What the variables of a container amount to, whatever they say and in    *)
(* whatever order they are read.  ProcessVirtualHosts is a recursion over   *)
(* the variables; its facts are proved by induction on how many were read.  *)
(***************************************************************************)
EXTENDS VirtualHosts, InductionLemmas

-----------------------------------------------------------------------------
(* The recursion.                                                           *)

(* H[n] is what the first n variables yield.                                *)
Reading(c, env, order, n, H) ==
    H = [m \in 0..n |->
            IF m = 0 THEN <<>> ELSE AddVariable(c, env, H[m - 1], env.vars[order[m]])]

LEMMA ReadingExists ==
    ASSUME NEW c, NEW env, NEW order, NEW n \in Nat
    PROVE  \E H : Reading(c, env, order, n, H)
<1> DEFINE S == {m \in Nat : \E H : Reading(c, env, order, m, H)}
<1>1. 0 \in S
  <2>1. Reading(c, env, order, 0, [m \in 0..0 |-> <<>>])
    BY DEF Reading
  <2> QED BY <2>1
<1>2. ASSUME NEW m \in Nat, m \in S
      PROVE  m + 1 \in S
  <2>1. PICK H : Reading(c, env, order, m, H)
    BY <1>2
  <2> DEFINE next == AddVariable(c, env, H[m], env.vars[order[m + 1]])
             G == [i \in 0..(m + 1) |-> IF i = m + 1 THEN next ELSE H[i]]
  <2>2. \A i \in 0..m :
            H[i] = IF i = 0 THEN <<>> ELSE AddVariable(c, env, H[i - 1], env.vars[order[i]])
    BY <2>1 DEF Reading
  <2>3. /\ \A i \in 0..m : G[i] = H[i]
        /\ G[m + 1] = next
    OBVIOUS
  <2>4. \A i \in 0..(m + 1) :
            G[i] = IF i = 0 THEN <<>> ELSE AddVariable(c, env, G[i - 1], env.vars[order[i]])
    <3> SUFFICES ASSUME NEW i \in 0..(m + 1)
                 PROVE  G[i] = IF i = 0 THEN <<>>
                               ELSE AddVariable(c, env, G[i - 1], env.vars[order[i]])
      OBVIOUS
    <3> HIDE DEF G
    <3>1. CASE i = m + 1
      <4>1. G[i - 1] = H[m] /\ i - 1 = m
        BY <2>3, <3>1
      <4> QED BY <2>3, <3>1, <4>1
    <3>2. CASE i \in 1..m
      <4>1. G[i - 1] = H[i - 1] /\ G[i] = H[i]
        BY <2>3, <3>2
      <4> QED BY <2>2, <3>2, <4>1
    <3>3. CASE i = 0
      BY <2>2, <2>3, <3>3
    <3> QED BY <3>1, <3>2, <3>3
  <2>5. G = [i \in 0..(m + 1) |-> G[i]]
    OBVIOUS
  <2> HIDE DEF G
  <2>6. Reading(c, env, order, m + 1, G)
    BY <2>4, <2>5 DEF Reading
  <2> QED BY <2>6
<1> HIDE DEF S
<1>3. Nat \subseteq S
  BY <1>1, <1>2, SetInduction
<1> QED BY <1>3 DEF S

LEMMA ReadingSteps ==
    ASSUME NEW c, NEW env, NEW order, Len(order) \in Nat
    PROVE  \E H : /\ H[0] = <<>>
                  /\ \A n \in 1..Len(order) :
                        H[n] = AddVariable(c, env, H[n - 1], env.vars[order[n]])
                  /\ ProcessVirtualHosts(c, env, order) = H[Len(order)]
<1> DEFINE N == Len(order)
           H == CHOOSE F : Reading(c, env, order, N, F)
<1>1. Reading(c, env, order, N, H)
  BY ReadingExists
<1>2. ProcessVirtualHosts(c, env, order) = H[N]
  BY DEF ProcessVirtualHosts, Reading
<1> HIDE DEF H
<1>3. H[0] = <<>> /\ \A n \in 1..N : H[n] = AddVariable(c, env, H[n - 1], env.vars[order[n]])
  <2>1. \A n \in 0..N :
            H[n] = IF n = 0 THEN <<>> ELSE AddVariable(c, env, H[n - 1], env.vars[order[n]])
    BY <1>1 DEF Reading
  <2> QED BY <2>1
<1> QED BY <1>2, <1>3

(* An order goes through every variable once, the static ones first.        *)
LEMMA OrdersArePermutations ==
    ASSUME NEW env, IsEnvironment(env), NEW o \in Orders(env)
    PROVE  LET N == Len(env.vars)
           IN  /\ Len(o) = N
               /\ o \in [1..N -> 1..N]
               /\ \A i, j \in 1..N : i # j => o[i] # o[j]
               /\ \A m \in 1..N : \E i \in 1..N : o[i] = m
               /\ \A i, j \in 1..N : env.vars[o[j]].static /\ ~env.vars[o[i]].static => j < i
<1> DEFINE N == Len(env.vars)
<1>1. N \in Nat /\ DOMAIN env.vars = 1..N /\ Cardinality(DOMAIN env.vars) = N
  BY FS_Interval DEF IsEnvironment
<1> HIDE DEF N
<1>2. o \in [1..N -> 1..N] /\ \A i, j \in 1..N : i # j => o[i] # o[j]
  BY <1>1 DEF Orders, SetToSeqs
<1>3. Len(o) = N
  BY <1>1, <1>2
<1>4. \A i, j \in 1..N : env.vars[o[j]].static /\ ~env.vars[o[i]].static => j < i
  BY <1>2 DEF Orders
<1>5. \A m \in 1..N : \E i \in 1..N : o[i] = m
  <2>1. N \in Nat /\ o \in [1..N -> 1..N]
    BY <1>1, <1>2
  <2> QED BY <1>2, <2>1, InjectionIsOnto, Zenon
<1> QED BY <1>2, <1>3, <1>4, <1>5 DEF N

-----------------------------------------------------------------------------
(* Entries.                                                                 *)

EntryType ==
    [host : Hostname, port : Nat, orig : Schemes, ssl : BOOLEAN, path : Path,
     cscheme : Schemes, cport : Nat, inject : SUBSET Directive,
     flags : [Flags -> {NoText, "true", "false", "junk"}]]

(* A text that parses yields an entry whose ports are numbers.              *)
LEMMA ParsedEntry ==
    ASSUME NEW t, IsText(t), ~Unparsable(t)
    PROVE  LET cfg == ParseVirtualHost(t)
               e == ParseHostEntry(t)
           IN  /\ e \in EntryType
               /\ e.cscheme = BackendScheme(cfg)
               /\ e.flags["grpc"] = IF t.flags["grpc"] # NoText THEN t.flags["grpc"]
                                    ELSE IF IsGRPC(cfg.scheme) THEN "true" ELSE "false"
<1> DEFINE cfg == ParseVirtualHost(t)
           cs == BackendScheme(cfg)
           flags == [t.flags EXCEPT
                        !["grpc"] = IF @ # NoText THEN @
                                    ELSE IF IsGRPC(cfg.scheme) THEN "true" ELSE "false"]
           e == ParseHostEntry(t)
<1>1. /\ cfg.host \in Hostname /\ cfg.scheme \in Schemes /\ cfg.path \in Path
      /\ cfg.cscheme \in Schemes
  BY PathAssumption DEF ParseVirtualHost, IsText, Schemes, SecureSchemes, ReadsPath
<1>2. cfg.port \in Nat /\ cfg.cport \in Nat
  BY DEF ParseVirtualHost, IsText, IsPortText, Unparsable, NoPort, BadPort
<1> HIDE DEF cfg
<1>3. cs \in Schemes
  BY <1>1 DEF BackendScheme
<1>4. DefaultPort(cs) \in Nat
  BY DEF DefaultPort
<1>5. /\ flags \in [Flags -> {NoText, "true", "false", "junk"}]
      /\ flags["grpc"] = IF t.flags["grpc"] # NoText THEN t.flags["grpc"]
                         ELSE IF IsGRPC(cfg.scheme) THEN "true" ELSE "false"
  BY DEF IsText, Flags
<1> DEFINE ssl == cfg.scheme \in SecureSchemes
<1>6. ssl \in BOOLEAN
  OBVIOUS
<1> HIDE DEF cs, flags, ssl
<1>7. e = [host |-> cfg.host, port |-> cfg.port, orig |-> cfg.scheme, ssl |-> ssl,
           path |-> cfg.path, cscheme |-> cs,
           cport |-> IF cfg.cport = 0 THEN DefaultPort(cs) ELSE cfg.cport,
           inject |-> t.inject, flags |-> flags]
  BY DEF ParseHostEntry, HostEntry, cfg, cs, flags, ssl
<1>8. t.inject \in SUBSET Directive
  BY DEF IsText
<1> HIDE DEF e
<1>9. e \in EntryType
  BY <1>1, <1>2, <1>3, <1>4, <1>5, <1>6, <1>7, <1>8 DEF EntryType
<1>10. e.cscheme = cs /\ e.flags = flags
  BY <1>7
<1> QED BY <1>5, <1>9, <1>10 DEF cfg, cs, e

(* What ProcessVirtualHosts overrides leaves an entry one, and its backend's *)
(* scheme and flags alone.                                                  *)
Overriding(e, ssl, port, cport) == [e EXCEPT !.ssl = ssl, !.port = port, !.cport = cport]

LEMMA OverridingKeeps ==
    ASSUME NEW p \in EntryType, NEW ssl \in BOOLEAN, NEW port \in Nat, NEW cport \in Nat
    PROVE  LET r == Overriding(p, ssl, port, cport)
           IN  r \in EntryType /\ r.cscheme = p.cscheme /\ r.flags = p.flags
<1> DEFINE r == Overriding(p, ssl, port, cport)
<1>1. r = [p EXCEPT !.ssl = ssl, !.port = port, !.cport = cport]
  BY DEF Overriding
<1> HIDE DEF r
<1>2. r = [host |-> p.host, port |-> port, orig |-> p.orig, ssl |-> ssl, path |-> p.path,
           cscheme |-> p.cscheme, cport |-> cport, inject |-> p.inject, flags |-> p.flags]
  BY <1>1 DEF EntryType
<1>3. /\ p.host \in Hostname /\ p.orig \in Schemes /\ p.path \in Path /\ p.cscheme \in Schemes
      /\ p.inject \in SUBSET Directive
      /\ p.flags \in [Flags -> {NoText, "true", "false", "junk"}]
  BY DEF EntryType
<1>4. r.cscheme = p.cscheme /\ r.flags = p.flags
  BY <1>2
<1>5. r \in EntryType
  BY <1>2, <1>3 DEF EntryType
<1> QED BY <1>4, <1>5 DEF r

LEMMA EntriesAreTyped ==
    ASSUME NEW env, IsEnvironment(env), NEW i \in DOMAIN env.vars, ~Unparsable(env.vars[i].text)
    PROVE  LET e == EntryOf(env, env.vars[i])
               p == ParseHostEntry(env.vars[i].text)
           IN  /\ e \in EntryType
               /\ e.cscheme = p.cscheme /\ e.flags = p.flags
<1> DEFINE p == ParseHostEntry(env.vars[i].text)
           r == EntryOf(env, env.vars[i])
<1>1. p \in EntryType
  BY ParsedEntry DEF IsEnvironment
<1>2. CASE env.vars[i].static
  <2> DEFINE ssl == p.ssl \/ p.port = 443
             port == IF p.port = 0 THEN 443 ELSE p.port
  <2>1. r = [p EXCEPT !.ssl = ssl, !.port = port]
    BY <1>2 DEF EntryOf, StaticEntry
  <2> HIDE DEF p, r
  <2>2. ssl \in BOOLEAN /\ port \in Nat /\ p.cport \in Nat
    BY <1>1 DEF EntryType
  <2> HIDE DEF ssl, port
  <2>3. r = Overriding(p, ssl, port, p.cport)
    BY <1>1, <2>1 DEF EntryType, Overriding
  <2>4. r \in EntryType /\ r.cscheme = p.cscheme /\ r.flags = p.flags
    BY <1>1, <2>2, <2>3, OverridingKeeps
  <2> QED BY <2>4 DEF p, r
<1>3. CASE ~env.vars[i].static
  <2> DEFINE ssl == p.ssl \/ (Overrides(env) /\ env.letsencrypt) \/ p.port = 443
             port == IF (ssl /\ p.port = 80) \/ p.port = 0 THEN 443 ELSE p.port
             cport == IF Overrides(env) /\ env.vport \in Nat THEN env.vport ELSE p.cport
  <2>1. r = Overriding(p, ssl, port, cport)
    BY <1>3 DEF EntryOf, VirtualEntry, Overridden, Overriding
  <2> HIDE DEF p, r
  <2>2. ssl \in BOOLEAN /\ port \in Nat /\ cport \in Nat
    BY <1>1 DEF EntryType
  <2> HIDE DEF ssl, port, cport
  <2>3. r \in EntryType /\ r.cscheme = p.cscheme /\ r.flags = p.flags
    BY <1>1, <2>1, <2>2, OverridingKeeps
  <2> QED BY <2>3 DEF p, r
<1> QED BY <1>2, <1>3

-----------------------------------------------------------------------------
(* Hosts of a fragment: every location has the one container, which it was  *)
(* made for, and no directive twice; nothing is protected or filtered yet.  *)

FreshLocation(c) ==
    [containers : [{c} -> [scheme : Schemes, port : Nat]],
     primary : {c}, scheme : Schemes, port : Nat, auth : {FALSE},
     extras : [Directive -> 0..1], injected : [Directive -> 0..1],
     grpc : BOOLEAN, ws : BOOLEAN, http : BOOLEAN]

FreshHost(c) == [ssl : BOOLEAN, orig : Schemes, auth : {FALSE}, filter : {NoFilter},
                 locs : UNION {[P -> FreshLocation(c)] : P \in SUBSET Path}]

Fragment(c, H) ==
    \A k \in DOMAIN H :
        k \in Hostname \X Nat /\ H[k] \in FreshHost(c) /\ DOMAIN H[k].locs # {}

LEMMA FreshLocations ==
    ASSUME NEW c, NEW h \in FreshHost(c), NEW p \in DOMAIN h.locs
    PROVE  p \in Path /\ h.locs[p] \in FreshLocation(c)
BY DEF FreshHost

LEMMA FlagsAreBoolean ==
    ASSUME NEW e, NEW f, NEW default \in BOOLEAN
    PROVE  /\ Flag(e, f, default) \in BOOLEAN
           /\ e.flags[f] = "true" => Flag(e, f, default) = TRUE
           /\ e.flags[f] = "false" => Flag(e, f, default) = FALSE
BY DEF Flag

(* ExtrasMap.Update leaves no directive twice if none was there twice.      *)
LEMMA UpdateExtrasOnce ==
    ASSUME NEW x \in [Directive -> 0..1], NEW D
    PROVE  UpdateExtras(x, D) \in [Directive -> 0..1]
BY DEF UpdateExtras

(* a is the host h with a location for the entry e, new or replaced, and    *)
(* nothing else touched.                                                    *)
Located(a, h, e, c) ==
    /\ a \in FreshHost(c)
    /\ a.ssl = h.ssl /\ a.orig = h.orig
    /\ DOMAIN a.locs = DOMAIN h.locs \cup {e.path}
    /\ \A p \in DOMAIN h.locs : p # e.path => a.locs[p] = h.locs[p]
    /\ a.locs[e.path].scheme = e.cscheme
    /\ e.flags["grpc"] = "true" => a.locs[e.path].grpc = TRUE
    /\ e.flags["grpc"] = "false" => a.locs[e.path].grpc = FALSE

(* Host.AddLocation adds or replaces one location.                          *)
LEMMA AddLocationKeeps ==
    ASSUME NEW c, NEW h \in FreshHost(c), NEW e \in EntryType
    PROVE  Located(AddLocation(h, c, e), h, e, c)
<1> DEFINE old == IF e.path \in DOMAIN h.locs THEN h.locs[e.path].extras ELSE NoDirectives
           extras == UpdateExtras(old, e.inject)
           grpc == Flag(e, "grpc", IsGRPC(e.cscheme) \/ IsGRPC(h.orig))
           ws == Flag(e, "websocket", IsWebSocket(e.cscheme) \/ IsWebSocket(h.orig))
           http == Flag(e, "http", (IsHTTP(h.orig) \/ IsHTTP(e.cscheme)) /\ ~grpc)
           containers == [x \in {c} |-> [scheme |-> e.cscheme, port |-> e.cport]]
           l == [containers |-> containers, primary |-> c, scheme |-> e.cscheme, port |-> e.cport,
                 auth |-> FALSE, extras |-> extras, injected |-> extras, grpc |-> grpc,
                 ws |-> ws, http |-> http]
           locs == Put(h.locs, e.path, l)
           a == AddLocation(h, c, e)
<1>1. a = [h EXCEPT !.locs = locs]
  BY DEF AddLocation
<1>2. \A p \in DOMAIN h.locs : p \in Path /\ h.locs[p] \in FreshLocation(c)
  BY FreshLocations
<1>3. old \in [Directive -> 0..1]
  <2>1. NoDirectives \in [Directive -> 0..1]
    BY DEF NoDirectives
  <2> QED BY <1>2, <2>1 DEF FreshLocation
<1>4. extras \in [Directive -> 0..1]
  <2> HIDE DEF old
  <2> QED BY <1>3, UpdateExtrasOnce
<1>5. grpc \in BOOLEAN /\ (e.flags["grpc"] = "true" => grpc = TRUE)
      /\ (e.flags["grpc"] = "false" => grpc = FALSE)
  <2>1. (IsGRPC(e.cscheme) \/ IsGRPC(h.orig)) \in BOOLEAN
    OBVIOUS
  <2> QED BY <2>1, FlagsAreBoolean
<1>6. ws \in BOOLEAN /\ http \in BOOLEAN
  <2>1. /\ (IsWebSocket(e.cscheme) \/ IsWebSocket(h.orig)) \in BOOLEAN
        /\ ((IsHTTP(h.orig) \/ IsHTTP(e.cscheme)) /\ ~grpc) \in BOOLEAN
    OBVIOUS
  <2> QED BY <2>1, FlagsAreBoolean
<1>7. e.cscheme \in Schemes /\ e.cport \in Nat /\ e.path \in Path
  BY DEF EntryType
<1>7a. containers \in [{c} -> [scheme : Schemes, port : Nat]]
  BY <1>7
<1> HIDE DEF extras, grpc, ws, http, containers
<1>8. l \in FreshLocation(c) /\ l.scheme = e.cscheme /\ l.grpc = grpc
  BY <1>4, <1>5, <1>6, <1>7, <1>7a DEF FreshLocation
<1> HIDE DEF l
<1>9. locs = [p \in DOMAIN h.locs \cup {e.path} |-> IF p = e.path THEN l ELSE h.locs[p]]
  BY DEF Put
<1> HIDE DEF locs
<1>10. locs \in [DOMAIN h.locs \cup {e.path} -> FreshLocation(c)]
  BY <1>2, <1>8, <1>9
<1>11. DOMAIN h.locs \cup {e.path} \in SUBSET Path
  BY <1>2, <1>7
<1> HIDE DEF a
<1>12. a \in FreshHost(c) /\ a.ssl = h.ssl /\ a.orig = h.orig /\ a.locs = locs
  BY <1>1, <1>10, <1>11 DEF FreshHost
<1>13. /\ DOMAIN a.locs = DOMAIN h.locs \cup {e.path}
       /\ \A p \in DOMAIN h.locs : p # e.path => a.locs[p] = h.locs[p]
       /\ a.locs[e.path] = l
  BY <1>9, <1>12
<1> QED BY <1>5, <1>8, <1>12, <1>13 DEF a, Located

(* A is H with the entry e: it gives its host one location, in a new host if *)
(* e is static or the first, among those there are otherwise; the other     *)
(* hosts stay.                                                              *)
Entered(A, H, static, e, c) ==
    LET k == <<e.host, e.port>>
        new == static \/ k \notin DOMAIN H
    IN  /\ Fragment(c, A)
        /\ DOMAIN A = DOMAIN H \cup {k}
        /\ \A j \in DOMAIN H : j # k => A[j] = H[j]
        /\ new => (A[k].ssl <=> e.ssl) /\ DOMAIN A[k].locs = {e.path}
        /\ ~new => /\ A[k].ssl <=> H[k].ssl \/ e.ssl
                   /\ DOMAIN A[k].locs = DOMAIN H[k].locs \cup {e.path}
                   /\ \A p \in DOMAIN H[k].locs : p # e.path => A[k].locs[p] = H[k].locs[p]
        /\ A[k].locs[e.path].scheme = e.cscheme
        /\ e.flags["grpc"] = "true" => A[k].locs[e.path].grpc = TRUE
        /\ e.flags["grpc"] = "false" => A[k].locs[e.path].grpc = FALSE

LEMMA AddEntryKeeps ==
    ASSUME NEW c, NEW H, Fragment(c, H), NEW static \in BOOLEAN, NEW e \in EntryType
    PROVE  Entered(AddEntry(c, H, static, e), H, static, e, c)
<1> DEFINE A == AddEntry(c, H, static, e)
           k == <<e.host, e.port>>
           new == static \/ k \notin DOMAIN H
           fresh == AddLocation(NewHost(e), c, e)
           more == AddLocation(H[k], c, e)
           ssl == more.ssl \/ e.ssl
           orig == LaterScheme(more.orig, e.orig)
           merged == [more EXCEPT !.ssl = ssl, !.orig = orig]
           h == IF new THEN fresh ELSE merged
<1>1. A = Put(H, k, h)
  BY DEF AddEntry
<1>2. k \in Hostname \X Nat /\ e.ssl \in BOOLEAN /\ e.orig \in Schemes /\ e.path \in Path
  BY DEF EntryType
<1>3. NewHost(e) \in FreshHost(c) /\ NewHost(e).ssl = e.ssl /\ DOMAIN NewHost(e).locs = {}
  <2>1. <<>> \in [{} -> FreshLocation(c)] /\ {} \in SUBSET Path /\ DOMAIN <<>> = {}
    OBVIOUS
  <2> QED BY <1>2, <2>1 DEF NewHost, FreshHost
<1> HIDE DEF fresh, more, A, k
<1>4. /\ fresh \in FreshHost(c) /\ fresh.ssl = e.ssl /\ DOMAIN fresh.locs = {e.path}
      /\ fresh.locs[e.path].scheme = e.cscheme
      /\ e.flags["grpc"] = "true" => fresh.locs[e.path].grpc = TRUE
      /\ e.flags["grpc"] = "false" => fresh.locs[e.path].grpc = FALSE
  <2> DEFINE n == NewHost(e)
  <2>1. n \in FreshHost(c) /\ n.ssl = e.ssl /\ DOMAIN n.locs = {}
    BY <1>3
  <2>2. fresh = AddLocation(n, c, e)
    BY DEF fresh
  <2> HIDE DEF n
  <2>3. Located(fresh, n, e, c)
    BY <2>1, <2>2, AddLocationKeeps
  <2> QED BY <2>1, <2>3 DEF Located
<1>5. ASSUME ~new
      PROVE  /\ merged \in FreshHost(c) /\ (merged.ssl <=> H[k].ssl \/ e.ssl)
             /\ DOMAIN merged.locs = DOMAIN H[k].locs \cup {e.path}
             /\ \A p \in DOMAIN H[k].locs : p # e.path => merged.locs[p] = H[k].locs[p]
             /\ merged.locs[e.path].scheme = e.cscheme
             /\ e.flags["grpc"] = "true" => merged.locs[e.path].grpc = TRUE
             /\ e.flags["grpc"] = "false" => merged.locs[e.path].grpc = FALSE
  <2>1. H[k] \in FreshHost(c)
    BY <1>5 DEF Fragment
  <2>2. Located(more, H[k], e, c)
    BY <2>1, AddLocationKeeps DEF more
  <2>3. more \in FreshHost(c) /\ more.ssl = H[k].ssl
    BY <2>2 DEF Located
  <2>4. ssl \in BOOLEAN /\ (ssl <=> H[k].ssl \/ e.ssl)
    BY <1>2, <2>3
  <2>5. orig \in Schemes
    BY <1>2, <2>3 DEF LaterScheme, FreshHost
  <2> HIDE DEF ssl, orig
  <2>6. merged \in FreshHost(c) /\ merged.ssl = ssl /\ merged.locs = more.locs
    BY <2>3, <2>4, <2>5 DEF FreshHost
  <2> HIDE DEF merged
  <2> QED BY <2>2, <2>4, <2>6 DEF Located
<1> HIDE DEF merged
<1>6. DOMAIN A = DOMAIN H \cup {k} /\ A[k] = h /\ \A j \in DOMAIN H : j # k => A[j] = H[j]
  <2> HIDE DEF h
  <2> QED BY <1>1 DEF Put
<1>7. h \in FreshHost(c) /\ DOMAIN h.locs # {}
  BY <1>4, <1>5
<1>8. k \in Hostname \X Nat
  BY <1>2
<1>9. Fragment(c, A)
  <2> HIDE DEF h
  <2> QED BY <1>6, <1>7, <1>8 DEF Fragment
<1> HIDE DEF new
<1>10. /\ new => (A[k].ssl <=> e.ssl) /\ DOMAIN A[k].locs = {e.path}
       /\ ~new => /\ A[k].ssl <=> H[k].ssl \/ e.ssl
                  /\ DOMAIN A[k].locs = DOMAIN H[k].locs \cup {e.path}
                  /\ \A p \in DOMAIN H[k].locs : p # e.path => A[k].locs[p] = H[k].locs[p]
       /\ A[k].locs[e.path].scheme = e.cscheme
       /\ e.flags["grpc"] = "true" => A[k].locs[e.path].grpc = TRUE
       /\ e.flags["grpc"] = "false" => A[k].locs[e.path].grpc = FALSE
  BY <1>4, <1>5, <1>6
<1> QED BY <1>6, <1>9, <1>10 DEF new, A, k, Entered

-----------------------------------------------------------------------------
(* What the first n variables of an order amount to.                        *)

Read(env, o, n) == {EntryOf(env, env.vars[o[i]]) : i \in {j \in 1..n : Parsed(env, o[j])}}

(* H has the hosts and the locations that E asks for, and TLS where E does. *)
Agrees(H, E) ==
    /\ \A k : k \in DOMAIN H <=> \E e \in E : Key(e) = k
    /\ \A k \in DOMAIN H :
          /\ H[k].ssl <=> \E e \in E : Key(e) = k /\ e.ssl
          /\ \A p : p \in DOMAIN H[k].locs <=> \E e \in E : Key(e) = k /\ e.path = p

(* An entry that makes no host anew over another adds to what is there.     *)
LEMMA EntryAgrees ==
    ASSUME NEW c, NEW H, NEW A, NEW E, NEW static \in BOOLEAN, NEW e \in EntryType,
           Entered(A, H, static, e, c), Agrees(H, E),
           static => Key(e) \notin DOMAIN H
    PROVE  Agrees(A, E \cup {e})
<1> DEFINE k == Key(e)
           F == E \cup {e}
<1>1. /\ DOMAIN A = DOMAIN H \cup {k}
      /\ \A j \in DOMAIN H : j # k => A[j] = H[j]
      /\ k \notin DOMAIN H => (A[k].ssl <=> e.ssl) /\ DOMAIN A[k].locs = {e.path}
      /\ k \in DOMAIN H => /\ A[k].ssl <=> H[k].ssl \/ e.ssl
                           /\ DOMAIN A[k].locs = DOMAIN H[k].locs \cup {e.path}
  BY DEF Entered, Key
<1>2. \A j \in DOMAIN H :
          /\ H[j].ssl <=> \E f \in E : Key(f) = j /\ f.ssl
          /\ \A p : p \in DOMAIN H[j].locs <=> \E f \in E : Key(f) = j /\ f.path = p
  BY DEF Agrees
<1>3. \A j : j \in DOMAIN H <=> \E f \in E : Key(f) = j
  BY DEF Agrees
<1>4. \A j : j \in DOMAIN A <=> \E f \in F : Key(f) = j
  BY <1>1, <1>3
<1>5. ASSUME NEW j \in DOMAIN A, j # k
      PROVE  /\ A[j].ssl <=> \E f \in F : Key(f) = j /\ f.ssl
             /\ \A p : p \in DOMAIN A[j].locs <=> \E f \in F : Key(f) = j /\ f.path = p
  <2>1. j \in DOMAIN H /\ A[j] = H[j]
    BY <1>1, <1>5
  <2>2. \A f : f \in F /\ Key(f) = j <=> f \in E /\ Key(f) = j
    BY <1>5
  <2> HIDE DEF F
  <2> QED BY <1>2, <2>1, <2>2
<1>6. CASE k \notin DOMAIN H
  <2>1. \A f \in F : Key(f) = k <=> f = e
    BY <1>3, <1>6
  <2> HIDE DEF k
  <2>2. e \in F /\ Key(e) = k
    BY DEF k
  <2> HIDE DEF F
  <2>3. /\ A[k].ssl <=> \E f \in F : Key(f) = k /\ f.ssl
        /\ \A p : p \in DOMAIN A[k].locs <=> \E f \in F : Key(f) = k /\ f.path = p
    BY <1>1, <1>6, <2>1, <2>2
  <2> QED BY <1>4, <1>5, <2>3 DEF Agrees, F
<1>7. CASE k \in DOMAIN H
  <2> HIDE DEF k
  <2>1. \A f : f \in F <=> f \in E \/ f = e
    OBVIOUS
  <2>2. e \in F /\ Key(e) = k
    BY DEF k
  <2> HIDE DEF F
  <2>3. /\ A[k].ssl <=> \E f \in F : Key(f) = k /\ f.ssl
        /\ \A p : p \in DOMAIN A[k].locs <=> \E f \in F : Key(f) = k /\ f.path = p
    BY <1>1, <1>2, <1>7, <2>1, <2>2
  <2> QED BY <1>4, <1>5, <2>3 DEF Agrees, F
<1> QED BY <1>6, <1>7

(* Every location of H is passed on with grpc_pass exactly if its backend's *)
(* scheme is one of gRPC.                                                   *)
Passing(H) == \A k \in DOMAIN H : \A p \in DOMAIN H[k].locs :
                  H[k].locs[p].grpc <=> IsGRPC(H[k].locs[p].scheme)

LEMMA EntryPasses ==
    ASSUME NEW c, NEW H, NEW A, NEW static \in BOOLEAN, NEW e \in EntryType,
           Entered(A, H, static, e, c), Passing(H),
           e.flags["grpc"] = IF IsGRPC(e.cscheme) THEN "true" ELSE "false"
    PROVE  Passing(A)
<1> DEFINE k == <<e.host, e.port>>
<1> SUFFICES ASSUME NEW j \in DOMAIN A, NEW p \in DOMAIN A[j].locs
             PROVE  A[j].locs[p].grpc <=> IsGRPC(A[j].locs[p].scheme)
  BY DEF Passing
<1>1. CASE j # k
  <2>1. j \in DOMAIN H /\ A[j] = H[j]
    BY <1>1 DEF Entered
  <2> QED BY <2>1 DEF Passing
<1>2. CASE j = k /\ p = e.path
  BY <1>2 DEF Entered
<1>3. CASE j = k /\ p # e.path
  <2>1. k \in DOMAIN H /\ p \in DOMAIN H[k].locs /\ A[k].locs[p] = H[k].locs[p]
    BY <1>3 DEF Entered
  <2> QED BY <1>3, <2>1 DEF Passing
<1> QED BY <1>1, <1>2, <1>3

LEMMA ExtraMatchesScheme ==
    ASSUME NEW env, IsEnvironment(env), GRPCBothSides(env),
           NEW i \in DOMAIN env.vars, Parsed(env, i)
    PROVE  LET e == EntryOf(env, env.vars[i])
           IN  e.flags["grpc"] = IF IsGRPC(e.cscheme) THEN "true" ELSE "false"
<1> DEFINE t == env.vars[i].text
           cfg == ParseVirtualHost(t)
           p == ParseHostEntry(t)
           e == EntryOf(env, env.vars[i])
<1>1. e.cscheme = p.cscheme /\ e.flags = p.flags
  BY EntriesAreTyped DEF Parsed
<1>2. /\ p.cscheme = BackendScheme(cfg)
      /\ p.flags["grpc"] = IF t.flags["grpc"] # NoText THEN t.flags["grpc"]
                           ELSE IF IsGRPC(cfg.scheme) THEN "true" ELSE "false"
  BY ParsedEntry DEF IsEnvironment, Parsed
<1>3. IF t.flags["grpc"] = NoText THEN IsGRPC(cfg.scheme) <=> IsGRPC(BackendScheme(cfg))
      ELSE t.flags["grpc"] = IF IsGRPC(BackendScheme(cfg)) THEN "true" ELSE "false"
  BY DEF GRPCBothSides
<1> HIDE DEF cfg, p, e
<1>4. e.flags["grpc"] = IF IsGRPC(e.cscheme) THEN "true" ELSE "false"
  BY <1>1, <1>2, <1>3
<1> QED BY <1>4 DEF e

(* One more variable is read.                                               *)
LEMMA ReadGrows ==
    ASSUME NEW env, NEW o, NEW n \in Nat
    PROVE  LET m == o[n + 1]
           IN  /\ Parsed(env, m) => Read(env, o, n + 1) = Read(env, o, n) \cup {EntryOf(env, env.vars[m])}
               /\ ~Parsed(env, m) => Read(env, o, n + 1) = Read(env, o, n)
<1>1. 1..(n + 1) = 1..n \cup {n + 1}
  OBVIOUS
<1> QED BY <1>1 DEF Read

LEMMA AllRead ==
    ASSUME NEW env, IsEnvironment(env), NEW o \in Orders(env)
    PROVE  Read(env, o, Len(o)) = {EntryOf(env, env.vars[i]) : i \in {j \in DOMAIN env.vars : Parsed(env, j)}}
<1> DEFINE N == Len(env.vars)
<1>1. /\ Len(o) = N /\ o \in [1..N -> 1..N]
      /\ \A m \in 1..N : \E i \in 1..N : o[i] = m
      /\ DOMAIN env.vars = 1..N
  BY OrdersArePermutations DEF IsEnvironment
<1> HIDE DEF N
<1> QED BY <1>1 DEF Read

(* What every reading of the variables has in common.                       *)
Common(c, env, H, E) ==
    /\ Fragment(c, H)
    /\ OneStaticEach(env) => Agrees(H, E)
    /\ GRPCBothSides(env) => Passing(H)

LEMMA VariableKeeps ==
    ASSUME NEW c, NEW env, IsEnvironment(env), NEW o \in Orders(env), NEW H,
           NEW n \in 0..(Len(o) - 1), Common(c, env, H, Read(env, o, n))
    PROVE  Common(c, env, AddVariable(c, env, H, env.vars[o[n + 1]]), Read(env, o, n + 1))
<1> DEFINE N == Len(env.vars)
           m == o[n + 1]
           v == env.vars[m]
           e == EntryOf(env, v)
           E == Read(env, o, n)
           A == AddVariable(c, env, H, v)
<1>1. /\ Len(o) = N /\ N \in Nat /\ o \in [1..N -> 1..N]
      /\ \A i, j \in 1..N : i # j => o[i] # o[j]
      /\ \A i, j \in 1..N : env.vars[o[j]].static /\ ~env.vars[o[i]].static => j < i
      /\ DOMAIN env.vars = 1..N
  BY OrdersArePermutations DEF IsEnvironment
<1>2. n \in Nat /\ n + 1 \in 1..N /\ m \in DOMAIN env.vars
  BY <1>1
<1> HIDE DEF N
<1>3. v.static \in BOOLEAN
  BY <1>2 DEF IsEnvironment
<1>4. CASE ~Parsed(env, m)
  <2>1. A = H
    BY <1>4 DEF AddVariable, Parsed
  <2>2. Read(env, o, n + 1) = E
    BY <1>2, <1>4, ReadGrows
  <2> QED BY <2>1, <2>2
<1>5. CASE Parsed(env, m)
  <2>1. e \in EntryType
    BY <1>2, <1>5, EntriesAreTyped DEF Parsed
  <2>2. A = AddEntry(c, H, v.static, e)
    BY <1>5 DEF AddVariable, Parsed
  <2>3. Entered(A, H, v.static, e, c)
    <3> HIDE DEF A, e, v
    <3> QED BY <1>3, <2>1, <2>2, AddEntryKeeps DEF Common
  <2>4. Read(env, o, n + 1) = E \cup {e}
    BY <1>2, <1>5, ReadGrows
  <2>5. ASSUME OneStaticEach(env)
        PROVE  Agrees(A, E \cup {e})
    <3>1. Agrees(H, E)
      BY <2>5 DEF Common
    <3>2. ASSUME v.static, Key(e) \in DOMAIN H
          PROVE  FALSE
      <4>1. PICK f \in E : Key(f) = Key(e)
        <5> HIDE DEF E, e
        <5> QED BY <3>1, <3>2 DEF Agrees
      <4>2. PICK i \in 1..n : Parsed(env, o[i]) /\ f = EntryOf(env, env.vars[o[i]])
        BY DEF Read
      <4>3. i \in 1..N /\ i < n + 1 /\ o[i] # m /\ o[i] \in DOMAIN env.vars
        BY <1>1, <1>2
      <4>4. env.vars[o[i]].static
        <5>1. env.vars[o[i]].static \in BOOLEAN
          BY <4>3 DEF IsEnvironment
        <5>2. ~env.vars[o[i]].static => n + 1 < i
          BY <1>1, <1>2, <3>2, <4>3
        <5> QED BY <1>1, <4>3, <5>1, <5>2
      <4> QED BY <1>2, <1>5, <2>5, <3>2, <4>1, <4>2, <4>3, <4>4 DEF OneStaticEach
    <3> HIDE DEF A, e, v, E
    <3> QED BY <1>3, <2>1, <2>3, <3>1, <3>2, EntryAgrees
  <2>6. ASSUME GRPCBothSides(env)
        PROVE  Passing(A)
    <3>1. e.flags["grpc"] = IF IsGRPC(e.cscheme) THEN "true" ELSE "false"
      BY <1>2, <1>5, <2>6, ExtraMatchesScheme
    <3>2. Passing(H)
      BY <2>6 DEF Common
    <3> HIDE DEF A, e, v
    <3> QED BY <1>3, <2>1, <2>3, <3>1, <3>2, EntryPasses
  <2>7. Fragment(c, A)
    <3> HIDE DEF A, e, v
    <3> QED BY <2>3 DEF Entered
  <2> QED BY <2>4, <2>5, <2>6, <2>7 DEF Common
<1> QED BY <1>4, <1>5

(* In whatever order the variables of a container are read, its hosts have  *)
(* the declared shape; they are those its entries ask for, with TLS where   *)
(* one of the entries has it, unless two static entries are for one host;   *)
(* and no location is passed on with a directive of the other kind, unless  *)
(* a variable is gRPC on one side only.                                     *)
THEOREM VariablesOrderDoesNotMatter ==
    ASSUME NEW c, NEW env, IsEnvironment(env), NEW H \in Fragments(c, env)
    PROVE  Common(c, env, H,
                  {EntryOf(env, env.vars[i]) : i \in {j \in DOMAIN env.vars : Parsed(env, j)}})
<1>1. PICK o \in Orders(env) : H = ProcessVirtualHosts(c, env, o)
  BY DEF Fragments
<1> DEFINE N == Len(o)
<1>2. N \in Nat
  BY OrdersArePermutations DEF IsEnvironment
<1>3. PICK F : /\ F[0] = <<>>
               /\ \A n \in 1..N : F[n] = AddVariable(c, env, F[n - 1], env.vars[o[n]])
               /\ ProcessVirtualHosts(c, env, o) = F[N]
  BY <1>2, ReadingSteps
<1> DEFINE S == {n \in 0..N : Common(c, env, F[n], Read(env, o, n))}
<1>4. 0 \in S
  <2>1. Read(env, o, 0) = {}
    BY DEF Read
  <2>2. Common(c, env, <<>>, {})
    BY DEF Common, Fragment, Agrees, Passing
  <2>3. F[0] = <<>>
    BY <1>3
  <2>4. Common(c, env, F[0], Read(env, o, 0))
    BY <2>1, <2>2, <2>3, Zenon
  <2> HIDE DEF N
  <2> QED BY <1>2, <2>4
<1>5. ASSUME NEW n \in 0..(N - 1), n \in S
      PROVE  n + 1 \in S
  <2>1. n + 1 \in 1..N /\ (n + 1) - 1 = n
    BY <1>2
  <2>2. F[n + 1] = AddVariable(c, env, F[n], env.vars[o[n + 1]])
    BY <1>3, <2>1
  <2>3. Common(c, env, F[n], Read(env, o, n))
    BY <1>5
  <2>4. Common(c, env, F[n + 1], Read(env, o, n + 1))
    BY <2>2, <2>3, VariableKeeps
  <2> QED BY <2>1, <2>4
<1> HIDE DEF S
<1>6. 0..N \subseteq S
  BY <1>2, <1>4, <1>5, BoundedInduction
<1>7. Common(c, env, F[N], Read(env, o, N))
  BY <1>2, <1>6 DEF S
<1> QED BY <1>1, <1>3, <1>7, AllRead

=============================================================================
