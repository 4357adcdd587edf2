---------------------------- MODULE VirtualHosts ----------------------------
(***************************************************************************)
(* From the variables of a container to its hosts: ParseVirtualHost,        *)
(* parseHostEntry, ProcessVirtualHosts and Host.AddLocation, with the       *)
(* schemes, ports and flags that HostTable leaves out.                      *)
(*                                                                          *)
(* The text of a variable,                                                  *)
(*    [scheme://]host[:port][/path] -> [scheme://name][:port][/path];extras *)
(* is a record of its pieces.  The text of a port is a number, or NoPort    *)
(* when there is none, or BadPort when it does not begin with a number.     *)
(***************************************************************************)
EXTENDS Integers, SequencesExt

CONSTANTS
    Container,   \* IDs of the containers
    Hostname,    \* server names
    Path,        \* location paths
    Root,        \* the path "/"
    NoPath,      \* the text has no path
    Directive    \* nginx directives given as extras

ASSUME PathAssumption == Root \in Path /\ NoPath \notin Path

NoPort == -1
BadPort == -2
NoText == ""

(* The map f after an assignment to its key x.                              *)
Put(f, x, v) == [y \in DOMAIN f \cup {x} |-> IF y = x THEN v ELSE f[y]]

SecureSchemes == {"https", "wss", "grpcs"}
Schemes == {"http", "ws", "grpc"} \cup SecureSchemes
Flags == {"websocket", "grpc", "http"}

(* The internal part: nothing, ":port/path", "scheme://name:port/path" with *)
(* one of the four schemes the parser knows there, the same with neither    *)
(* name nor port ("bare"), "/path", or a word the parser ignores.           *)
InnerForms == {NoText, "port", "url", "bare", "path", "word"}

IsPortText(p) == p \in Nat \cup {NoPort, BadPort}

(* flags: the key=value extras AddLocation looks at, or NoText;          *)
(* inject: the extras that are directives.                                  *)
IsText(t) ==
    /\ t.scheme \in Schemes \cup {NoText} /\ t.host \in Hostname
    /\ IsPortText(t.port) /\ t.path \in Path \cup {NoPath}
    /\ t.arrows \in 0..2
    /\ t.inner.form \in InnerForms
    /\ t.inner.scheme \in {"http", "https", "grpc", "grpcs"}
    /\ IsPortText(t.inner.port) /\ t.inner.path \in Path \cup {NoPath}
    /\ t.inject \subseteq Directive
    /\ t.flags \in [Flags -> {NoText, "true", "false", "junk"}]

-----------------------------------------------------------------------------
(* ParseVirtualHost.                                                        *)

HasInner(t) == t.arrows = 1 /\ t.inner.form # NoText
ReadsPort(t) == HasInner(t) /\ t.inner.form \in {"port", "url"}

(* The internal path is read after a port, alone, and directly after the    *)
(* scheme; after a name without a port it is taken for a part of the name.  *)
ReadsPath(t) ==
    /\ HasInner(t) /\ t.inner.path # NoPath
    /\ \/ t.inner.form \in {"port", "bare", "path"}
       \/ t.inner.form = "url" /\ t.inner.port # NoPort

Unparsable(t) ==
    \/ t.arrows = 2
    \/ t.port = BadPort
    \/ ReadsPort(t) /\ t.inner.port = BadPort

(* One path comes out: the internal one if there is one, and the external   *)
(* one is lost.  cport 0 stands for no port.                                *)
ParseVirtualHost(t) ==
    [host |-> t.host,
     scheme |-> IF t.scheme = NoText THEN "http" ELSE t.scheme,
     port |-> IF t.port = NoPort THEN 80 ELSE t.port,
     path |-> IF ReadsPath(t) THEN t.inner.path
              ELSE IF t.path = NoPath THEN Root ELSE t.path,
     cport |-> IF ReadsPort(t) /\ t.inner.port # NoPort THEN t.inner.port ELSE 0,
     cscheme |-> IF HasInner(t) /\ t.inner.form \in {"url", "bare"} THEN t.inner.scheme
                 ELSE "http"]

-----------------------------------------------------------------------------
(* parseHostEntry.                                                          *)

IsWebSocket(s) == s \in {"ws", "wss"}
IsGRPC(s) == s \in {"grpc", "grpcs"}
IsHTTP(s) == s \in {"http", "https"}

DefaultPort(s) == CASE s \in {"https", "grpcs"} -> 443
                    [] s = "grpc" -> 50051
                    [] OTHER -> 80

(* A backend without a scheme of its own is spoken to in the host's gRPC.   *)
BackendScheme(cfg) ==
    IF cfg.cscheme = "http" /\ IsGRPC(cfg.scheme) THEN cfg.scheme ELSE cfg.cscheme

(* ssl and the scheme "https" go together (SetSSL); orig is OriginalScheme. *)
HostEntry(t, cfg, cs) ==
    [host |-> cfg.host, port |-> cfg.port, orig |-> cfg.scheme,
     ssl |-> cfg.scheme \in SecureSchemes, path |-> cfg.path, cscheme |-> cs,
     cport |-> IF cfg.cport = 0 THEN DefaultPort(cs) ELSE cfg.cport,
     inject |-> t.inject,
     flags |-> [t.flags EXCEPT
                   !["grpc"] = IF @ # NoText THEN @
                               ELSE IF IsGRPC(cfg.scheme) THEN "true" ELSE "false"]]

(* Variant: no gRPC extra is made up for an entry without one.              *)
ParseWithoutGRPC(t) ==
    LET cfg == ParseVirtualHost(t)
    IN  [HostEntry(t, cfg, BackendScheme(cfg)) EXCEPT !.flags = t.flags]

ParseHostEntry(t) ==
    LET cfg == ParseVirtualHost(t)
    IN  HostEntry(t, cfg, BackendScheme(cfg))

-----------------------------------------------------------------------------
(* Host.AddLocation.                                                        *)

NoDirectives == [d \in Directive |-> 0]
NoFilter == [on |-> FALSE, ips |-> {}, header |-> NoText]
NewHost(e) == [ssl |-> e.ssl, orig |-> e.orig, auth |-> FALSE, filter |-> NoFilter,
               locs |-> <<>>]

(* ExtrasMap.Update: a directive that is there already is not added again.  *)
UpdateExtras(x, inject) ==
    [d \in Directive |-> IF d \in inject /\ x[d] = 0 THEN 1 ELSE x[d]]

Flag(e, f, default) == IF e.flags[f] \in {"true", "false"} THEN e.flags[f] = "true" ELSE default

(* containers: the map of the location's containers, each with the scheme   *)
(* and port it is to be spoken to with; primary, scheme, port: the one the  *)
(* location itself names; injected: the directives rendered, extras: those  *)
(* of the extras map, with their multiplicities.  The scheme the flags go   *)
(* by is that of the host the location is added to, not that of the entry.  *)
AddLocation(h, c, e) ==
    LET old == IF e.path \in DOMAIN h.locs THEN h.locs[e.path].extras ELSE NoDirectives
        extras == UpdateExtras(old, e.inject)
        grpc == Flag(e, "grpc", IsGRPC(e.cscheme) \/ IsGRPC(h.orig))
        http == (IsHTTP(h.orig) \/ IsHTTP(e.cscheme)) /\ ~grpc
        location ==
            [containers |-> [x \in {c} |-> [scheme |-> e.cscheme, port |-> e.cport]],
             primary |-> c, scheme |-> e.cscheme, port |-> e.cport,
             auth |-> FALSE, extras |-> extras, injected |-> extras, grpc |-> grpc,
             ws |-> Flag(e, "websocket", IsWebSocket(e.cscheme) \/ IsWebSocket(h.orig)),
             http |-> Flag(e, "http", http)]
    IN  [h EXCEPT !.locs = Put(@, e.path, location)]

-----------------------------------------------------------------------------
(* ProcessVirtualHosts.  An environment env has a sequence vars of          *)
(* variables [static, text], letsencrypt (whether LETSENCRYPT_HOST is       *)
(* set) and vport (the text of VIRTUAL_PORT).                               *)

IsEnvironment(env) ==
    /\ Len(env.vars) \in Nat /\ DOMAIN env.vars = 1..Len(env.vars)
    /\ \A i \in DOMAIN env.vars : env.vars[i].static \in BOOLEAN /\ IsText(env.vars[i].text)
    /\ env.letsencrypt \in BOOLEAN /\ IsPortText(env.vport)

Virtuals(env) == {i \in DOMAIN env.vars : ~env.vars[i].static}

(* The two overrides need exactly one VIRTUAL_HOST variable.                *)
Overrides(env) == Virtuals(env) # {} /\ \A i, j \in Virtuals(env) : i = j

(* The exposed ports are asked for when the entry has no port, but          *)
(* parseHostEntry gave it one.                                              *)
Overridden(env, e) ==
    LET ssl == e.ssl \/ (Overrides(env) /\ env.letsencrypt) \/ e.port = 443
    IN  [e EXCEPT !.ssl = ssl,
                  !.port = IF (ssl /\ @ = 80) \/ @ = 0 THEN 443 ELSE @,
                  !.cport = IF Overrides(env) /\ env.vport \in Nat THEN env.vport ELSE @]

VirtualEntry(env, text) == Overridden(env, ParseHostEntry(text))

StaticEntry(text) ==
    LET e == ParseHostEntry(text)
    IN  [e EXCEPT !.ssl = @ \/ e.port = 443, !.port = IF @ = 0 THEN 443 ELSE @]

EntryOf(env, v) == IF v.static THEN StaticEntry(v.text) ELSE VirtualEntry(env, v.text)

(* A WebSocket scheme is not given up for another.                          *)
LaterScheme(old, new) == IF IsWebSocket(old) /\ ~IsWebSocket(new) THEN old ELSE new

(* Variant: TLS is what the first variable of the host says.                *)
AddKeepingTLS(c, H, static, e) ==
    LET k == <<e.host, e.port>>
    IN  IF static \/ k \notin DOMAIN H
        THEN Put(H, k, AddLocation(NewHost(e), c, e))
        ELSE Put(H, k, [AddLocation(H[k], c, e) EXCEPT !.orig = LaterScheme(@, e.orig)])

(* A static entry makes its host anew.                                      *)
AddEntry(c, H, static, e) ==
    LET k == <<e.host, e.port>>
    IN  IF static \/ k \notin DOMAIN H
        THEN Put(H, k, AddLocation(NewHost(e), c, e))
        ELSE Put(H, k, [AddLocation(H[k], c, e) EXCEPT
                           !.ssl = @ \/ e.ssl, !.orig = LaterScheme(@, e.orig)])

AddVariable(c, env, H, v) ==
    IF Unparsable(v.text) THEN H ELSE AddEntry(c, H, v.static, EntryOf(env, v))

(* The variables are those of a Go map, read in any order; the static ones  *)
(* come first.                                                              *)
Orders(env) ==
    {o \in SetToSeqs(DOMAIN env.vars) :
        \A i, j \in DOMAIN o : env.vars[o[j]].static /\ ~env.vars[o[i]].static => j < i}

ProcessVirtualHosts(c, env, order) ==
    LET H[n \in 0..Len(order)] ==
            IF n = 0 THEN <<>> ELSE AddVariable(c, env, H[n - 1], env.vars[order[n]])
    IN  H[Len(order)]

Fragments(c, env) == {ProcessVirtualHosts(c, env, o) : o \in Orders(env)}

-----------------------------------------------------------------------------
(* Restrictions on a container's variables, under which their order does    *)
(* not matter to its hosts and nginx takes its locations.                   *)

Key(e) == <<e.host, e.port>>
Parsed(env, m) == ~Unparsable(env.vars[m].text)

(* No two STATIC_VIRTUAL_HOST variables of a container are for one host:    *)
(* the later of two would replace the other, and either may come later.     *)
OneStaticEach(env) ==
    \A i, j \in DOMAIN env.vars :
        i # j /\ env.vars[i].static /\ env.vars[j].static /\ Parsed(env, i) /\ Parsed(env, j)
            => Key(EntryOf(env, env.vars[i])) # Key(EntryOf(env, env.vars[j]))

(* No variable is gRPC on one side only, and no extra says otherwise.       *)
GRPCBothSides(env) ==
    \A i \in DOMAIN env.vars :
        LET cfg == ParseVirtualHost(env.vars[i].text)
            extra == env.vars[i].text.flags["grpc"]
            grpc == IsGRPC(BackendScheme(cfg))
        IN  Parsed(env, i) =>
                IF extra = NoText THEN IsGRPC(cfg.scheme) <=> grpc
                ELSE extra = IF grpc THEN "true" ELSE "false"

(* No host is for the port 0, which becomes 443 after TLS was decided on.   *)
NoPortZero(env) == \A i \in DOMAIN env.vars : env.vars[i].text.port # 0

=============================================================================
