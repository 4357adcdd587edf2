----------------------------- MODULE Certificates -----------------------------
(***************************************************************************)
(* The certificate manager: GetCertificate, called by any goroutine, and    *)
(* the renewal thread, both of which run ACME orders.                       *)
(*                                                                          *)
(* Two locks guard it.  cm.mu is held by GetCertificate from beginning to   *)
(* end, and by the renewal thread only to read or write the cache; acme.mu  *)
(* is held for one order.  The renewal thread orders and reads files        *)
(* without cm.mu.  A crash or a panic loses the maps and keeps the files,   *)
(* those just being written cut short.                                      *)
(***************************************************************************)
EXTENDS Integers

CONSTANTS
    Domain,      \* domains; a wildcard is one too
    WildcardOf,  \* the wildcard of each domain, the domain itself if it has none
    Asked,       \* domains GetCertificate is called for
    Caller,      \* goroutines that call GetCertificate
    Renewer,     \* the renewal thread
    Nobody,      \* holder of a free lock
    Lifetime,    \* for how long a certificate is issued
    MinLeft,     \* GetCertificate is content with more than this (2 days)
    RenewLeft,   \* the renewal thread is not with this or less (7 days)
    Cooldown,    \* for how long a domain is blacklisted (3 hours)
    OrderURLs,   \* whether the answer to a new order names the certificate: some of BOOLEAN
    Crashes,     \* whether the process may be killed
    MaxTime      \* bound: the clock stops here

ASSUME ProcessAssumption == Renewer \notin Caller /\ Nobody \notin Caller \cup {Renewer}
ASSUME WildcardAssumption == WildcardOf \in [Domain -> Domain] /\ Asked \subseteq Domain
ASSUME OrderAssumption == OrderURLs \subseteq BOOLEAN /\ Crashes \in BOOLEAN
ASSUME TimeAssumption ==
    /\ {Lifetime, MinLeft, RenewLeft, Cooldown, MaxTime} \subseteq Nat
    /\ MinLeft <= RenewLeft /\ RenewLeft < Lifetime

VARIABLES
    now,        \* the clock
    crt,        \* certificate files: expiry, Missing, or Torn if unreadable
    key,        \* private key files: "none", "bad" (cut short, or not PKCS #1) or "whole"
    account,    \* account key files
    challenge,  \* domains whose token is in the challenge directory
    cache,      \* certCache: domain to expiry
    blacklist,  \* domain to end of its time on the list
    mu,         \* holder of the certificate manager's lock
    acme,       \* holder of the ACME manager's lock
    pc,         \* where each goroutine is
    dom,        \* the domain it works on
    found,      \* the expiry the renewal thread read
    toRenew,    \* domains the renewal thread has yet to renew
    panicked    \* whether an order ended the process

files == <<crt, key, account, challenge>>
maps == <<cache, blacklist>>
work == <<dom, found, toRenew>>
vars == <<now, files, maps, mu, acme, pc, work, panicked>>

Proc == Caller \cup {Renewer}
Missing == -2
Torn == -1
Expiry == 0..MaxTime + Lifetime
Forms == {"none", "bad", "whole"}
Ordering == {"register", "order", "verify", "finalize", "write"}
Places == {"idle", "call", "obtain", "obtained", "failed", "selfsign", "next", "store"} \cup Ordering

Readable(d) == crt[d] \notin {Missing, Torn}
Exists(d) == crt[d] # Missing /\ key[d] # "none"

Without(f, d) == [x \in DOMAIN f \ {d} |-> f[x]]
With(f, d, v) == [x \in DOMAIN f \cup {d} |-> IF x = d THEN v ELSE f[x]]

Goto(p, place) == pc' = [pc EXCEPT ![p] = place]

-----------------------------------------------------------------------------
(* One ACME order, by p for dom[p].                                         *)

(* Variant: orders do not exclude each other.                               *)
StartUnlocked(p) ==
    /\ pc[p] = "obtain"
    /\ acme' = p /\ Goto(p, "register")
    /\ UNCHANGED <<now, files, maps, mu, work, panicked>>

StartOrder(p) ==
    /\ pc[p] = "obtain" /\ acme = Nobody
    /\ acme' = p /\ Goto(p, "register")
    /\ UNCHANGED <<now, files, maps, mu, work, panicked>>

(* Variant: the error path forgets the lock.                                *)
FailLocked(p) == acme' = acme /\ Goto(p, "failed")

Fail(p) == acme' = Nobody /\ Goto(p, "failed")

(* What becomes of a file that is being made when an error or the end of    *)
(* the process comes between.                                               *)
Interrupted(form) == IF form = "none" THEN Forms ELSE {form}

KeysInterrupted(d) ==
    /\ \E a \in Interrupted(account[d]) : account' = [account EXCEPT ![d] = a]
    /\ \E k \in IF account'[d] = "whole" THEN Interrupted(key[d]) ELSE {key[d]} :
          key' = [key EXCEPT ![d] = k]

(* The keys are made if there are none; a bad one is an error every time.   *)
Register(p) ==
    LET d == dom[p] IN
    /\ pc[p] = "register"
    /\ \/ /\ account[d] # "bad" /\ key[d] # "bad"
          /\ account' = [account EXCEPT ![d] = "whole"]
          /\ key' = [key EXCEPT ![d] = "whole"]
          /\ acme' = acme /\ Goto(p, "order")
       \/ KeysInterrupted(d) /\ Fail(p)
    /\ UNCHANGED <<now, crt, challenge, maps, mu, work, panicked>>

(* newOrder, the authorization and the token; then the server is notified.  *)
PlaceOrder(p) ==
    /\ pc[p] = "order"
    /\ \/ /\ challenge' = challenge \cup {dom[p]}
          /\ \/ acme' = acme /\ Goto(p, "verify")
             \/ Fail(p)
       \/ challenge' = challenge /\ Fail(p)
    /\ UNCHANGED <<now, crt, key, account, maps, mu, work, panicked>>

(* The server's verdict; a refusal or no answer leaves the token behind.    *)
VerifyChallenge(p) ==
    /\ pc[p] = "verify"
    /\ \/ challenge' = challenge \ {dom[p]} /\ acme' = acme /\ Goto(p, "finalize")
       \/ challenge' = challenge /\ Fail(p)
    /\ UNCHANGED <<now, crt, key, account, maps, mu, work, panicked>>

(* The certificate is downloaded; the file is truncated before it is        *)
(* written.                                                                 *)
FinalizeOrder(p) ==
    /\ pc[p] = "finalize"
    /\ \/ /\ TRUE \in OrderURLs
          /\ crt' = [crt EXCEPT ![dom[p]] = Torn]
          /\ acme' = acme /\ Goto(p, "write")
       \/ crt' = crt /\ Fail(p)
    /\ UNCHANGED <<now, key, account, challenge, maps, mu, work, panicked>>

(* What was downloaded is saved unseen: it may be no certificate.           *)
WriteCertificate(p) ==
    /\ pc[p] = "write"
    /\ \/ /\ \E expiry \in {Torn, now + Lifetime} : crt' = [crt EXCEPT ![dom[p]] = expiry]
          /\ acme' = Nobody /\ Goto(p, "obtained")
       \/ crt' = crt /\ Fail(p)
    /\ UNCHANGED <<now, key, account, challenge, maps, mu, work, panicked>>

OrderStep(p) ==
    \/ StartOrder(p) \/ Register(p) \/ PlaceOrder(p)
    \/ VerifyChallenge(p) \/ FinalizeOrder(p) \/ WriteCertificate(p)

-----------------------------------------------------------------------------
(* GetCertificate.                                                          *)

Call(c, d) ==
    /\ pc[c] = "idle"
    /\ dom' = [dom EXCEPT ![c] = d] /\ Goto(c, "call")
    /\ UNCHANGED <<now, files, maps, mu, acme, found, toRenew, panicked>>

Blacklisted(d) == d \in DOMAIN blacklist /\ now < blacklist[d]

(* The files are looked at, the wildcard's too, though not its expiry.      *)
CheckCertificate(c) ==
    LET d == dom[c]
        w == WildcardOf[d]
        valid == Exists(d) /\ Readable(d) /\ crt[d] - now > MinLeft
    IN
    /\ pc[c] = "call" /\ mu = Nobody
    /\ \/ /\ valid
          /\ cache' = With(cache, d, crt[d])
          /\ mu' = Nobody /\ Goto(c, "idle")
          /\ blacklist' = blacklist
       \/ /\ ~valid /\ w # d /\ Exists(w)
          /\ mu' = Nobody /\ Goto(c, "idle")
          /\ UNCHANGED maps
       \/ /\ ~valid /\ ~(w # d /\ Exists(w))
          /\ mu' = c /\ cache' = cache
          /\ IF Blacklisted(d)
             THEN Goto(c, "selfsign") /\ blacklist' = blacklist
             ELSE Goto(c, "obtain") /\ blacklist' = Without(blacklist, d)
    /\ UNCHANGED <<now, files, acme, work, panicked>>

(* Variant: the cache is told what was ordered, not what was written.       *)
FinishCallFromOrder(c) ==
    /\ pc[c] = "obtained" /\ c \in Caller
    /\ cache' = With(cache, dom[c], now + Lifetime)
    /\ mu' = Nobody /\ Goto(c, "idle")
    /\ UNCHANGED <<now, files, blacklist, acme, work, panicked>>

(* Variant: the error of reading the expiry is dropped.                     *)
FinishCallUnread(c) ==
    /\ pc[c] = "obtained" /\ c \in Caller
    /\ cache' = With(cache, dom[c], crt[dom[c]])
    /\ mu' = Nobody /\ Goto(c, "idle")
    /\ UNCHANGED <<now, files, blacklist, acme, work, panicked>>

FinishCall(c) ==
    /\ pc[c] = "obtained" /\ c \in Caller
    /\ cache' = IF Readable(dom[c]) THEN With(cache, dom[c], crt[dom[c]]) ELSE cache
    /\ mu' = Nobody /\ Goto(c, "idle")
    /\ UNCHANGED <<now, files, blacklist, acme, work, panicked>>

BlacklistDomain(c) ==
    /\ pc[c] = "failed" /\ c \in Caller
    /\ blacklist' = With(blacklist, dom[c], now + Cooldown)
    /\ Goto(c, "selfsign")
    /\ UNCHANGED <<now, files, cache, mu, acme, work, panicked>>

(* The self-signed files are written; only nginx reads them, and a failure  *)
(* makes no difference here.                                                *)
SelfSign(c) ==
    /\ pc[c] = "selfsign"
    /\ mu' = Nobody /\ Goto(c, "idle")
    /\ UNCHANGED <<now, files, maps, acme, work, panicked>>

CallStep(c) == CheckCertificate(c) \/ FinishCall(c) \/ BlacklistDomain(c) \/ SelfSign(c)

-----------------------------------------------------------------------------
(* The renewal thread.                                                      *)

(* Variant: only what has expired is renewed, and not if nothing else is.   *)
CheckExpired ==
    /\ pc[Renewer] = "idle" /\ mu = Nobody
    /\ toRenew' = {d \in DOMAIN cache : cache[d] - now < 0}
    /\ Goto(Renewer, "next")
    /\ UNCHANGED <<now, files, maps, mu, acme, dom, found, panicked>>

CheckAndRenewCertificates ==
    /\ pc[Renewer] = "idle" /\ mu = Nobody
    /\ toRenew' = {d \in DOMAIN cache : cache[d] - now <= RenewLeft}
    /\ Goto(Renewer, "next")
    /\ UNCHANGED <<now, files, maps, mu, acme, dom, found, panicked>>

(* The domain leaves the cache before the order.                            *)
RenewCertificate(d) ==
    /\ pc[Renewer] = "next" /\ d \in toRenew /\ mu = Nobody
    /\ toRenew' = toRenew \ {d}
    /\ cache' = Without(cache, d)
    /\ dom' = [dom EXCEPT ![Renewer] = d]
    /\ Goto(Renewer, "obtain")
    /\ UNCHANGED <<now, files, blacklist, mu, acme, found, panicked>>

EndRenewals ==
    /\ pc[Renewer] = "next" /\ toRenew = {}
    /\ Goto(Renewer, "idle")
    /\ UNCHANGED <<now, files, maps, mu, acme, work, panicked>>

(* The file is read without cm.mu, ...                                      *)
ReadRenewed ==
    /\ pc[Renewer] = "obtained"
    /\ found' = crt[dom[Renewer]]
    /\ Goto(Renewer, IF Readable(dom[Renewer]) THEN "store" ELSE "next")
    /\ UNCHANGED <<now, files, maps, mu, acme, dom, toRenew, panicked>>

(* ... and the cache written with it.                                       *)
StoreRenewed ==
    /\ pc[Renewer] = "store" /\ mu = Nobody
    /\ cache' = With(cache, dom[Renewer], found)
    /\ Goto(Renewer, "next")
    /\ UNCHANGED <<now, files, blacklist, mu, acme, work, panicked>>

(* The error is logged and the next domain tried.                           *)
GiveUpRenewal ==
    /\ pc[Renewer] = "failed"
    /\ Goto(Renewer, "next")
    /\ UNCHANGED <<now, files, maps, mu, acme, work, panicked>>

RenewalStep ==
    \/ CheckAndRenewCertificates \/ EndRenewals \/ ReadRenewed \/ StoreRenewed \/ GiveUpRenewal
    \/ \E d \in Domain : RenewCertificate(d)

-----------------------------------------------------------------------------
(* The process ends and starts again.                                       *)

Restarted ==
    /\ cache' = [d \in {} |-> 0] /\ blacklist' = [d \in {} |-> 0]
    /\ mu' = Nobody /\ acme' = Nobody
    /\ pc' = [p \in Proc |-> "idle"] /\ toRenew' = {}
    /\ UNCHANGED <<now, crt, challenge, dom, found>>

Crash ==
    /\ Crashes
    /\ Restarted
    /\ \/ \E p \in Proc : pc[p] = "register" /\ KeysInterrupted(dom[p])
       \/ UNCHANGED <<account, key>>
    /\ panicked' = panicked

(* order["certificate"].(string) on an order that has none.                 *)
Panic(p) ==
    /\ pc[p] = "finalize" /\ FALSE \in OrderURLs
    /\ Restarted
    /\ panicked' = TRUE
    /\ UNCHANGED <<account, key>>

Tick ==
    /\ now < MaxTime
    /\ now' = now + 1
    /\ UNCHANGED <<files, maps, mu, acme, pc, work, panicked>>

-----------------------------------------------------------------------------
(* A user may have put certificates and keys in place.                      *)
Init ==
    /\ now = 0
    /\ crt \in [Domain -> {Missing} \cup 0..Lifetime]
    /\ key \in [Domain -> Forms]
    /\ \A d \in Domain : crt[d] = Missing <=> key[d] = "none"
    /\ account = [d \in Domain |-> "none"]
    /\ challenge = {}
    /\ cache = [d \in {} |-> 0] /\ blacklist = [d \in {} |-> 0]
    /\ mu = Nobody /\ acme = Nobody
    /\ pc = [p \in Proc |-> "idle"]
    /\ dom \in [Proc -> Domain] /\ (\A p, q \in Proc : dom[p] = dom[q])
    /\ found = Missing /\ toRenew = {} /\ panicked = FALSE

Next ==
    \/ \E c \in Caller : CallStep(c) \/ \E d \in Asked : Call(c, d)
    \/ \E p \in Proc : OrderStep(p) \/ Panic(p)
    \/ RenewalStep \/ Crash \/ Tick

Spec == Init /\ [][Next]_vars

(* Goroutines run, locks are granted and servers answer or time out; nobody *)
(* need call and the clock need not move.                                   *)
FairSpec ==
    /\ Spec
    /\ \A p \in Proc : WF_vars(OrderStep(p))
    /\ \A p \in Proc : SF_vars(StartOrder(p))
    /\ \A c \in Caller : SF_vars(CallStep(c))
    /\ SF_vars(RenewalStep)
-----------------------------------------------------------------------------
(* Type invariant.                                                          *)

(* Every variable keeps its type; what the cache holds, and the renewal     *)
(* thread waits to store in it, is the expiry of a certificate that could   *)
(* be read, and nobody stays on the blacklist for longer than its time      *)
(* (GetCertificate, renewCertificate).                                      *)
CertTypeOK ==
    /\ now \in 0..MaxTime
    /\ crt \in [Domain -> {Missing, Torn} \cup Expiry]
    /\ key \in [Domain -> Forms] /\ account \in [Domain -> Forms]
    /\ challenge \subseteq Domain
    /\ DOMAIN cache \subseteq Domain /\ cache \in [DOMAIN cache -> Expiry]
    /\ DOMAIN blacklist \subseteq Domain /\ blacklist \in [DOMAIN blacklist -> 0..now + Cooldown]
    /\ mu \in Proc \cup {Nobody} /\ acme \in Proc \cup {Nobody}
    /\ pc \in [Proc -> Places] /\ dom \in [Proc -> Domain]
    /\ found \in {Missing, Torn} \cup Expiry /\ toRenew \subseteq Domain
    /\ pc[Renewer] = "store" => found \in Expiry
    /\ panicked \in BOOLEAN

-----------------------------------------------------------------------------
(* Safety.                                                                  *)

(* While the server checks a challenge its token is in the directory, even  *)
(* if another goroutine has just finished an order for the same domain and  *)
(* cleaned up (SolveHTTPChallenge under Manager.mu).                        *)
ChallengeServed == \A p \in Proc : pc[p] = "verify" => dom[p] \in challenge

(* The cache never promises more than the certificate file: the renewal     *)
(* thread, which looks only at the cache, is never late, although it and    *)
(* GetCertificate write the cache after the file, with the lock released in *)
(* between (renewCertificate, GetCertificate).                              *)
CacheNeverLate == \A d \in DOMAIN cache : Readable(d) => cache[d] <= crt[d]

(* When a renewal ends the domain is still watched.                         *)
RenewedStayWatched ==
    [][(pc[Renewer] \in {"obtained", "store", "failed"} /\ pc'[Renewer] = "next")
          => dom[Renewer] \in DOMAIN cache']_vars

(* An order ends with a certificate or with an error.                       *)
OrdersReturn == ~panicked

-----------------------------------------------------------------------------
(* Liveness.                                                                *)

(* Every call of GetCertificate returns: the two locks are always released  *)
(* and never waited for in a circle.                                        *)
CallsReturn == \A c \in Caller : pc[c] = "call" ~> pc[c] = "idle"

(* A cached certificate that is about to expire is taken in hand, however   *)
(* often GetCertificate holds the lock.                                     *)
Due(d) == d \in DOMAIN cache /\ cache[d] - now <= RenewLeft
RenewalsStart == \A d \in Domain : Due(d) ~> ~Due(d)

=============================================================================
