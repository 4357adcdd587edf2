-------------------------- MODULE Certificates_proofs --------------------------
(***************************************************************************)
(* Type correctness of Certificates, and its safety invariants, for all      *)
(* values of the constants.                                                 *)
(***************************************************************************)
EXTENDS Certificates, TLAPS

-----------------------------------------------------------------------------
(* Type correctness.                                                        *)

(* Adding an entry to a map, and taking one out.                            *)
LEMMA MapKeeps ==
    ASSUME NEW S, NEW V, NEW f, NEW d \in S, NEW v \in V,
           DOMAIN f \subseteq S, f \in [DOMAIN f -> V]
    PROVE  /\ DOMAIN With(f, d, v) \subseteq S
           /\ With(f, d, v) \in [DOMAIN With(f, d, v) -> V]
           /\ DOMAIN Without(f, d) \subseteq S
           /\ Without(f, d) \in [DOMAIN Without(f, d) -> V]
BY DEF With, Without

LEMMA CertTypeInit == Init => CertTypeOK
<1> SUFFICES ASSUME Init PROVE CertTypeOK
  OBVIOUS
<1>1. 0..Lifetime \subseteq Expiry /\ 0 \in 0..MaxTime
  BY TimeAssumption DEF Expiry
<1>2. crt \in [Domain -> {Missing, Torn} \cup Expiry]
  BY <1>1 DEF Init
<1>3. account \in [Domain -> Forms]
  BY DEF Init, Forms
<1>4. /\ DOMAIN cache \subseteq Domain /\ cache \in [DOMAIN cache -> Expiry]
      /\ DOMAIN blacklist \subseteq Domain
      /\ blacklist \in [DOMAIN blacklist -> 0..now + Cooldown]
  BY DEF Init
<1>5. pc \in [Proc -> Places] /\ pc[Renewer] # "store"
  BY DEF Init, Places, Proc
<1> QED BY <1>1, <1>2, <1>3, <1>4, <1>5 DEF Init, CertTypeOK

(* A step of an order or of a call moves its goroutine and the locks.       *)
LEMMA OrderTypes ==
    ASSUME CertTypeOK, NEW p \in Proc, OrderStep(p)
    PROVE  CertTypeOK'
<1> USE DEF CertTypeOK
<1>1. now + Lifetime \in Expiry
  BY TimeAssumption DEF Expiry
<1>2. /\ pc' \in [Proc -> Places] /\ acme' \in Proc \cup {Nobody}
      /\ pc'[Renewer] = "store" => pc[Renewer] = "store"
  BY DEF OrderStep, StartOrder, Register, PlaceOrder, VerifyChallenge, FinalizeOrder,
         WriteCertificate, Fail, Goto, Places, Ordering, Proc
<1>3. crt' \in [Domain -> {Missing, Torn} \cup Expiry]
  <2>1. CASE crt' = crt
    BY <2>1
  <2>2. CASE \E expiry \in {Torn, now + Lifetime} : crt' = [crt EXCEPT ![dom[p]] = expiry]
    BY <1>1, <2>2
  <2>3. CASE crt' = [crt EXCEPT ![dom[p]] = Torn]
    BY <2>3
  <2> QED BY <2>1, <2>2, <2>3 DEF OrderStep, StartOrder, Register, PlaceOrder,
             VerifyChallenge, FinalizeOrder, WriteCertificate, files
<1>4. key' \in [Domain -> Forms] /\ account' \in [Domain -> Forms]
  <2>1. CASE KeysInterrupted(dom[p])
    BY <2>1 DEF KeysInterrupted, Interrupted, Forms
  <2>2. CASE /\ account' = [account EXCEPT ![dom[p]] = "whole"]
             /\ key' = [key EXCEPT ![dom[p]] = "whole"]
    BY <2>2 DEF Forms
  <2>3. CASE UNCHANGED <<key, account>>
    BY <2>3
  <2> QED BY <2>1, <2>2, <2>3 DEF OrderStep, StartOrder, Register, PlaceOrder,
             VerifyChallenge, FinalizeOrder, WriteCertificate, files
<1>5. challenge' \subseteq Domain
  <2>1. dom[p] \in Domain
    OBVIOUS
  <2> QED BY <2>1 DEF OrderStep, StartOrder, Register, PlaceOrder, VerifyChallenge, FinalizeOrder,
             WriteCertificate, files
<1>6. UNCHANGED <<now, maps, mu, work, panicked>>
  BY DEF OrderStep, StartOrder, Register, PlaceOrder, VerifyChallenge, FinalizeOrder,
         WriteCertificate, files
<1> QED BY <1>2, <1>3, <1>4, <1>5, <1>6 DEF maps, work

LEMMA CallTypes ==
    ASSUME CertTypeOK, NEW c \in Caller, CallStep(c) \/ \E d \in Domain : Call(c, d)
    PROVE  CertTypeOK'
<1> USE DEF CertTypeOK
<1>1. c \in Proc /\ c # Renewer
  BY ProcessAssumption DEF Proc
<1>2. pc' \in [Proc -> Places] /\ pc'[Renewer] = pc[Renewer]
  <2>1. \E place \in Places : pc' = [pc EXCEPT ![c] = place]
    BY DEF CallStep, Call, CheckCertificate, FinishCall, BlacklistDomain, SelfSign, Goto, Places
  <2> QED BY <1>1, <2>1
<1>3. mu' \in Proc \cup {Nobody} /\ dom' \in [Proc -> Domain]
  BY <1>1 DEF CallStep, Call, CheckCertificate, FinishCall, BlacklistDomain, SelfSign, work
<1>4. DOMAIN cache' \subseteq Domain /\ cache' \in [DOMAIN cache' -> Expiry]
  <2>1. dom[c] \in Domain
    BY <1>1
  <2>2. Readable(dom[c]) => crt[dom[c]] \in Expiry
    BY <2>1 DEF Readable
  <2>3. Readable(dom[c]) => /\ DOMAIN With(cache, dom[c], crt[dom[c]]) \subseteq Domain
                            /\ With(cache, dom[c], crt[dom[c]])
                                  \in [DOMAIN With(cache, dom[c], crt[dom[c]]) -> Expiry]
    BY <2>1, <2>2, MapKeeps
  <2> QED BY <2>3 DEF CallStep, Call, CheckCertificate, FinishCall, BlacklistDomain, SelfSign, maps
<1>5. DOMAIN blacklist' \subseteq Domain /\ blacklist' \in [DOMAIN blacklist' -> 0..now + Cooldown]
  <2>1. dom[c] \in Domain /\ now + Cooldown \in 0..now + Cooldown
    BY <1>1, TimeAssumption
  <2>2. /\ DOMAIN With(blacklist, dom[c], now + Cooldown) \subseteq Domain
        /\ With(blacklist, dom[c], now + Cooldown)
              \in [DOMAIN With(blacklist, dom[c], now + Cooldown) -> 0..now + Cooldown]
        /\ DOMAIN Without(blacklist, dom[c]) \subseteq Domain
        /\ Without(blacklist, dom[c])
              \in [DOMAIN Without(blacklist, dom[c]) -> 0..now + Cooldown]
    BY <2>1, MapKeeps
  <2> QED BY <2>2 DEF CallStep, Call, CheckCertificate, FinishCall, BlacklistDomain, SelfSign, maps
<1>6. UNCHANGED <<now, files, acme, found, toRenew, panicked>>
  BY DEF CallStep, Call, CheckCertificate, FinishCall, BlacklistDomain, SelfSign, files, work
<1> QED BY <1>2, <1>3, <1>4, <1>5, <1>6 DEF files

LEMMA RenewalTypes ==
    ASSUME CertTypeOK, RenewalStep
    PROVE  CertTypeOK'
<1> USE DEF CertTypeOK
<1>1. Renewer \in Proc /\ dom[Renewer] \in Domain
  BY DEF Proc
<1>2. /\ pc' \in [Proc -> Places] /\ dom' \in [Proc -> Domain] /\ toRenew' \subseteq Domain
  BY <1>1 DEF RenewalStep, CheckAndRenewCertificates, EndRenewals, ReadRenewed, StoreRenewed,
              GiveUpRenewal, RenewCertificate, Goto, Places, Ordering, work
<1>3. /\ found' \in {Missing, Torn} \cup Expiry
      /\ pc'[Renewer] = "store" => found' \in Expiry
  <2>1. crt[dom[Renewer]] \in {Missing, Torn} \cup Expiry
    BY <1>1
  <2> QED BY <1>1, <2>1
          DEF RenewalStep, CheckAndRenewCertificates, EndRenewals, ReadRenewed, StoreRenewed,
              GiveUpRenewal, RenewCertificate, Goto, work, Readable
<1>4. DOMAIN cache' \subseteq Domain /\ cache' \in [DOMAIN cache' -> Expiry]
  <2>1. CASE \E d \in Domain : RenewCertificate(d)
    <3>1. PICK d \in Domain : RenewCertificate(d)
      BY <2>1
    <3>2. cache' = Without(cache, d)
      BY <3>1 DEF RenewCertificate
    <3> QED BY <3>2 DEF Without
  <2>2. CASE StoreRenewed
    <3>1. found \in Expiry /\ cache' = With(cache, dom[Renewer], found)
      BY <2>2 DEF StoreRenewed
    <3>2. DOMAIN cache \subseteq Domain /\ cache \in [DOMAIN cache -> Expiry]
      OBVIOUS
    <3> HIDE DEF CertTypeOK
    <3> QED BY <1>1, <3>1, <3>2, MapKeeps
  <2>3. CASE UNCHANGED maps
    BY <2>3 DEF maps
  <2> QED BY <2>1, <2>2, <2>3 DEF RenewalStep, CheckAndRenewCertificates, EndRenewals,
             ReadRenewed, GiveUpRenewal
<1>5. UNCHANGED <<now, files, blacklist, mu, acme, panicked>>
  BY DEF RenewalStep, CheckAndRenewCertificates, EndRenewals, ReadRenewed, StoreRenewed,
         GiveUpRenewal, RenewCertificate, maps
<1> QED BY <1>2, <1>3, <1>4, <1>5 DEF files

LEMMA CertTypeNext == CertTypeOK /\ [Next]_vars => CertTypeOK'
<1> SUFFICES ASSUME CertTypeOK, [Next]_vars PROVE CertTypeOK'
  OBVIOUS
<1>1. CASE \E c \in Caller : CallStep(c) \/ \E d \in Domain : Call(c, d)
  BY <1>1, CallTypes
<1>2. CASE \E p \in Proc : OrderStep(p)
  BY <1>2, OrderTypes
<1>3. CASE RenewalStep
  BY <1>3, RenewalTypes
<1>4. CASE Crash \/ \E p \in Proc : Panic(p)
  <2>1. Restarted
    BY <1>4 DEF Crash, Panic
  <2>2. account' \in [Domain -> Forms] /\ key' \in [Domain -> Forms]
    <3>1. CASE \E p \in Proc : KeysInterrupted(dom[p])
      BY <3>1 DEF CertTypeOK, KeysInterrupted, Interrupted, Forms
    <3>2. CASE UNCHANGED <<account, key>>
      BY <3>2 DEF CertTypeOK
    <3> QED BY <1>4, <3>1, <3>2 DEF Crash, Panic
  <2>3. panicked' \in BOOLEAN
    BY <1>4 DEF CertTypeOK, Crash, Panic
  <2> QED BY <2>1, <2>2, <2>3 DEF CertTypeOK, Restarted, Places, Proc
<1>5. CASE Tick
  <2>1. now' \in 0..MaxTime /\ 0..now + Cooldown \subseteq 0..now' + Cooldown
    BY <1>5, TimeAssumption DEF Tick, CertTypeOK
  <2> QED BY <1>5, <2>1 DEF Tick, CertTypeOK, files, maps, work
<1>6. CASE UNCHANGED vars
  BY <1>6 DEF vars, files, maps, work, CertTypeOK
<1> QED BY <1>1, <1>2, <1>3, <1>4, <1>5, <1>6, WildcardAssumption DEF Next

(* Every variable keeps its type, for any domains and callers: the cache    *)
(* and the thread only ever hold expiries of certificates that were read.   *)
THEOREM CertTypeCorrect == Spec => []CertTypeOK
BY CertTypeInit, CertTypeNext, PTL DEF Spec

-----------------------------------------------------------------------------
(* What the steps leave alone.                                              *)

(* A goroutine's step leaves the others where they are.                     *)
LEMMA OrderFrame ==
    ASSUME CertTypeOK, NEW p \in Proc, OrderStep(p)
    PROVE  /\ \A q \in Proc \ {p} : pc'[q] = pc[q]
           /\ pc[p] \in {"obtain"} \cup Ordering
           /\ pc'[p] \in {"obtained", "failed"} \cup Ordering
           /\ UNCHANGED <<now, maps, mu, work>>
BY DEF CertTypeOK, OrderStep, StartOrder, Register, PlaceOrder, VerifyChallenge, FinalizeOrder,
       WriteCertificate, Fail, Goto, Ordering

LEMMA CallFrame ==
    ASSUME CertTypeOK, NEW c \in Caller, CallStep(c) \/ \E d \in Domain : Call(c, d)
    PROVE  /\ c \in Proc /\ c # Renewer
           /\ \A q \in Proc \ {c} : pc'[q] = pc[q] /\ dom'[q] = dom[q]
           /\ pc[c] \in {"idle", "call", "obtained", "failed", "selfsign"}
           /\ pc'[c] \in {"idle", "call", "obtain", "selfsign"}
           /\ UNCHANGED <<now, crt, challenge, acme, found>>
<1>1. c \in Proc /\ c # Renewer
  BY ProcessAssumption DEF Proc
<1>2. CASE CallStep(c)
  BY <1>1, <1>2 DEF CertTypeOK, CallStep, CheckCertificate, FinishCall, BlacklistDomain, SelfSign,
                    Goto, files, work
<1>3. CASE \E d \in Domain : Call(c, d)
  BY <1>1, <1>3 DEF CertTypeOK, Call, Goto, files
<1> QED BY <1>1, <1>2, <1>3

LEMMA RenewalFrame ==
    ASSUME CertTypeOK, RenewalStep
    PROVE  /\ Renewer \in Proc
           /\ \A q \in Proc \ {Renewer} : pc'[q] = pc[q] /\ dom'[q] = dom[q]
           /\ pc'[Renewer] \in {"idle", "next", "obtain", "store"}
           /\ UNCHANGED <<now, crt, challenge, blacklist, mu, acme>>
<1>1. Renewer \in Proc
  BY DEF Proc
<1> QED BY <1>1 DEF CertTypeOK, RenewalStep, CheckAndRenewCertificates, EndRenewals,
           ReadRenewed, StoreRenewed, GiveUpRenewal, RenewCertificate, Goto, files, maps, work

-----------------------------------------------------------------------------
(* Challenges.                                                              *)

(* Whoever is in an order holds the ACME manager's lock.                    *)
OrderHeld == \A p \in Proc : pc[p] \in Ordering => acme = p

ChallengeInv == CertTypeOK /\ OrderHeld /\ ChallengeServed

LEMMA ChallengeInit == Init => ChallengeInv
BY CertTypeInit DEF Init, ChallengeInv, OrderHeld, ChallengeServed, Ordering

LEMMA ChallengeNext == ChallengeInv /\ [Next]_vars => ChallengeInv'
<1> SUFFICES ASSUME ChallengeInv, [Next]_vars PROVE OrderHeld' /\ ChallengeServed'
  BY CertTypeNext DEF ChallengeInv
<1> USE DEF ChallengeInv
<1>1. CASE \E c \in Caller : CallStep(c) \/ \E d \in Domain : Call(c, d)
  BY <1>1, CallFrame DEF OrderHeld, ChallengeServed, Ordering
<1>2. ASSUME NEW p \in Proc, OrderStep(p) PROVE OrderHeld' /\ ChallengeServed'
  <2>1. OrderHeld'
    <3>1. pc'[p] \in Ordering => acme' = p
      <4>1. CASE StartOrder(p)
        BY <4>1 DEF StartOrder
      <4>2. CASE pc[p] \in Ordering
        <5>1. acme = p /\ pc \in [Proc -> Places]
          BY <4>2 DEF OrderHeld, CertTypeOK
        <5>2. acme' = acme \/ pc'[p] \in {"obtained", "failed"}
          BY <1>2, <4>2, <5>1 DEF OrderStep, StartOrder, Register, PlaceOrder, VerifyChallenge,
             FinalizeOrder, WriteCertificate, Fail, Goto, Ordering
        <5> QED BY <5>1, <5>2 DEF Ordering
      <4> QED BY <1>2, <4>1, <4>2 DEF OrderStep, Register, PlaceOrder, VerifyChallenge,
                 FinalizeOrder, WriteCertificate, Ordering
    <3>2. ASSUME NEW q \in Proc \ {p}, pc'[q] \in Ordering PROVE FALSE
      <4>1. pc[q] \in Ordering /\ acme = q
        BY <1>2, <3>2, OrderFrame DEF OrderHeld
      <4> QED BY <1>2, <4>1, OrderFrame, ProcessAssumption DEF OrderHeld, OrderStep, StartOrder,
                 Register, PlaceOrder, VerifyChallenge, FinalizeOrder, WriteCertificate,
                 Ordering, Proc
    <3> QED BY <3>1, <3>2 DEF OrderHeld
  <2>2. ASSUME NEW q \in Proc, pc'[q] = "verify" PROVE dom'[q] \in challenge'
    <3>1. q = p
      BY <1>2, <2>1, <2>2, OrderFrame, ProcessAssumption
         DEF OrderHeld, OrderStep, StartOrder, Register, PlaceOrder, VerifyChallenge,
             FinalizeOrder, WriteCertificate, Ordering, Proc
    <3> QED BY <1>2, <2>2, <3>1 DEF CertTypeOK, OrderStep, StartOrder, Register, PlaceOrder,
               VerifyChallenge, FinalizeOrder, WriteCertificate, Fail, Goto, work
  <2> QED BY <2>1, <2>2 DEF ChallengeServed
<1>3. CASE RenewalStep
  BY <1>3, RenewalFrame DEF OrderHeld, ChallengeServed, Ordering
<1>4. CASE Crash \/ \E p \in Proc : Panic(p)
  BY <1>4 DEF Crash, Panic, Restarted, OrderHeld, ChallengeServed, Ordering
<1>5. CASE Tick
  BY <1>5 DEF Tick, OrderHeld, ChallengeServed, files, work
<1>6. CASE UNCHANGED vars
  BY <1>6 DEF vars, OrderHeld, ChallengeServed, files, work
<1> QED BY <1>1, <1>2, <1>3, <1>4, <1>5, <1>6, WildcardAssumption DEF Next

(* While the server checks a challenge its token is in the directory,       *)
(* however many orders the callers and the renewal thread want to place.    *)
THEOREM ChallengesServed == Spec => []ChallengeServed
<1>1. ChallengeInv => ChallengeServed
  BY DEF ChallengeInv
<1> QED BY <1>1, ChallengeInit, ChallengeNext, PTL DEF Spec

-----------------------------------------------------------------------------
(* The cache.                                                               *)

(* No expiry is further away than a new certificate's.                      *)
NeverAhead ==
    /\ \A d \in Domain : crt[d] <= now + Lifetime
    /\ \A d \in DOMAIN cache : cache[d] <= now + Lifetime
    /\ found <= now + Lifetime

(* What the renewal thread is about to store is no later than the file.     *)
FoundInTime ==
    pc[Renewer] = "store" /\ Readable(dom[Renewer]) => found <= crt[dom[Renewer]]

CacheInv == CertTypeOK /\ NeverAhead /\ FoundInTime /\ CacheNeverLate

LEMMA CacheInit == Init => CacheInv
<1> SUFFICES ASSUME Init PROVE CacheInv
  OBVIOUS
<1>1. Missing <= 0 + Lifetime /\ \A e \in 0..Lifetime : e <= 0 + Lifetime
  BY TimeAssumption DEF Missing
<1>2. NeverAhead
  BY <1>1 DEF Init, NeverAhead
<1>3. FoundInTime /\ CacheNeverLate
  BY DEF Init, FoundInTime, CacheNeverLate, Proc
<1> QED BY <1>2, <1>3, CertTypeInit DEF CacheInv

(* An order changes only the file, and that to a later expiry or a torn one. *)
LEMMA CacheOrder ==
    ASSUME CacheInv, NEW p \in Proc, OrderStep(p)
    PROVE  NeverAhead' /\ FoundInTime' /\ CacheNeverLate'
<1> USE DEF CacheInv
<1>1. \/ crt' = crt
      \/ \E expiry \in {Torn, now + Lifetime} : crt' = [crt EXCEPT ![dom[p]] = expiry]
  BY DEF OrderStep, StartOrder, Register, PlaceOrder, VerifyChallenge, FinalizeOrder,
         WriteCertificate, files
<1>2. UNCHANGED <<now, cache, found, dom>>
  BY OrderFrame DEF maps, work
<1>3. pc'[Renewer] = "store" => pc[Renewer] = "store"
  BY OrderFrame DEF Proc, Ordering
<1>4. /\ now + Lifetime \in Int /\ Torn <= now + Lifetime
      /\ \A d \in DOMAIN cache : cache[d] \in Int /\ d \in Domain
      /\ found \in Int /\ dom[Renewer] \in Domain
  BY TimeAssumption DEF CertTypeOK, Expiry, Torn, Missing, Proc
<1>5. ASSUME NEW d \in Domain
      PROVE  /\ crt'[d] <= now + Lifetime
             /\ Readable(d)' => crt'[d] = now + Lifetime \/ (Readable(d) /\ crt'[d] = crt[d])
  BY <1>1, <1>4 DEF CertTypeOK, NeverAhead, Readable
<1> QED BY <1>2, <1>3, <1>4, <1>5 DEF NeverAhead, FoundInTime, CacheNeverLate

LEMMA CacheCall ==
    ASSUME CacheInv, NEW c \in Caller, CallStep(c) \/ \E d \in Domain : Call(c, d)
    PROVE  NeverAhead' /\ FoundInTime' /\ CacheNeverLate'
<1> USE DEF CacheInv
<1>1. \/ cache' = cache
      \/ /\ Readable(dom[c])
         /\ cache' = With(cache, dom[c], crt[dom[c]])
  BY DEF CallStep, Call, CheckCertificate, FinishCall, BlacklistDomain, SelfSign, maps
<1>2. /\ UNCHANGED <<now, crt, found>>
      /\ pc'[Renewer] = pc[Renewer] /\ dom'[Renewer] = dom[Renewer]
      /\ dom[c] \in Domain /\ \A d \in Domain : crt[d] \in Int
  BY CallFrame DEF Proc, CertTypeOK, Expiry, Missing, Torn
<1>3. ASSUME NEW d \in DOMAIN cache'
      PROVE  \/ cache'[d] = crt[d] /\ d \in Domain
             \/ d \in DOMAIN cache /\ cache'[d] = cache[d]
  BY <1>1, <1>2 DEF With
<1> QED BY <1>2, <1>3 DEF NeverAhead, FoundInTime, CacheNeverLate, Readable

LEMMA CacheRenewal ==
    ASSUME CacheInv, RenewalStep
    PROVE  NeverAhead' /\ FoundInTime' /\ CacheNeverLate'
<1> USE DEF CacheInv
<1>1. /\ UNCHANGED <<now, crt>> /\ dom[Renewer] \in Domain
      /\ \A d \in Domain : crt[d] \in Int
  BY RenewalFrame DEF CertTypeOK, Proc, Expiry, Missing, Torn
<1>2. CASE \E d \in Domain : RenewCertificate(d)
  <2>1. /\ DOMAIN cache' \subseteq DOMAIN cache
        /\ \A x \in DOMAIN cache' : cache'[x] = cache[x]
        /\ pc'[Renewer] # "store" /\ found' = found
    BY <1>2 DEF RenewCertificate, Without, Goto, CertTypeOK, Proc
  <2> QED BY <1>1, <2>1 DEF NeverAhead, FoundInTime, CacheNeverLate, Readable
<1>3. CASE ReadRenewed
  <2>1. found' = crt[dom[Renewer]] /\ UNCHANGED <<cache, dom>>
    BY <1>3 DEF ReadRenewed, maps
  <2> QED BY <1>1, <2>1 DEF NeverAhead, FoundInTime, CacheNeverLate, Readable
<1>4. CASE StoreRenewed
  <2>1. /\ cache' = With(cache, dom[Renewer], found) /\ pc[Renewer] = "store"
        /\ UNCHANGED <<found, dom>> /\ pc'[Renewer] # "store"
    BY <1>4 DEF StoreRenewed, Goto, CertTypeOK, Proc, work
  <2>2. ASSUME NEW d \in DOMAIN cache'
        PROVE  \/ d = dom[Renewer] /\ cache'[d] = found
               \/ d \in DOMAIN cache /\ cache'[d] = cache[d]
    BY <2>1 DEF With
  <2> QED BY <1>1, <2>1, <2>2 DEF NeverAhead, FoundInTime, CacheNeverLate, Readable
<1>5. CASE CheckAndRenewCertificates \/ EndRenewals \/ GiveUpRenewal
  <2>1. UNCHANGED <<cache, found, dom>> /\ pc'[Renewer] # "store"
    BY <1>5 DEF CheckAndRenewCertificates, EndRenewals, GiveUpRenewal, Goto, CertTypeOK, Proc,
                maps, work
  <2> QED BY <1>1, <2>1 DEF NeverAhead, FoundInTime, CacheNeverLate, Readable
<1> QED BY <1>2, <1>3, <1>4, <1>5 DEF RenewalStep

LEMMA CacheNext == CacheInv /\ [Next]_vars => CacheInv'
<1> SUFFICES ASSUME CacheInv, [Next]_vars
             PROVE  NeverAhead' /\ FoundInTime' /\ CacheNeverLate'
  BY CertTypeNext DEF CacheInv
<1>1. CASE Crash \/ \E p \in Proc : Panic(p)
  <2>1. Restarted
    BY <1>1 DEF Crash, Panic
  <2>2. DOMAIN cache' = {} /\ UNCHANGED <<now, crt, found>> /\ pc'[Renewer] = "idle"
    BY <2>1 DEF Restarted, Proc
  <2> QED BY <2>2 DEF CacheInv, NeverAhead, FoundInTime, CacheNeverLate
<1>2. CASE Tick
  <2>1. /\ UNCHANGED <<crt, cache, found, pc, dom>> /\ now \in Nat /\ now' = now + 1
        /\ \A d \in Domain : crt[d] \in Int
        /\ \A d \in DOMAIN cache : cache[d] \in Int
        /\ found \in Int
    BY <1>2, TimeAssumption DEF Tick, files, maps, work, CacheInv, CertTypeOK, Expiry, Missing, Torn
  <2> QED BY <2>1, TimeAssumption DEF CacheInv, NeverAhead, FoundInTime, CacheNeverLate, Readable
<1>3. CASE UNCHANGED vars
  BY <1>3 DEF vars, files, maps, work, CacheInv, NeverAhead, FoundInTime, CacheNeverLate, Readable
<1> QED BY <1>1, <1>2, <1>3, CacheOrder, CacheCall, CacheRenewal, WildcardAssumption DEF Next, CacheInv

(* The cache never promises more than the file, though the renewal thread   *)
(* reads the file without the lock under which it stores what it read.      *)
THEOREM CacheInTime == Spec => []CacheNeverLate
<1>1. CacheInv => CacheNeverLate
  BY DEF CacheInv
<1> QED BY <1>1, CacheInit, CacheNext, PTL DEF Spec

=============================================================================
