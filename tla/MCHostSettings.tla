--------------------------- MODULE MCHostSettings ---------------------------
(***************************************************************************)
(* Small instances of HostSettings for TLC: two containers, each run with   *)
(* any of the environments below.                                           *)
(***************************************************************************)
EXTENDS HostSettings

CONSTANTS c1, c2, h1, root, api, nopath, nohost, d1, d2, u1, u2, w1, w2, w3, r1, r2

MCContainer == {c1, c2}
MCPath == {root, api}
MCDirective == {d1, d2}
MCUser == {u1, u2}
MCPassword == {w1, w2, w3}

NoInner == [form |-> NoText, scheme |-> "http", port |-> NoPort, path |-> NoPath]
Plain == [scheme |-> NoText, host |-> h1, port |-> NoPort, path |-> NoPath, arrows |-> 0,
          inner |-> NoInner, inject |-> {}, flags |-> [f \in Flags |-> NoText]]
With(t, scheme, path) == [t EXCEPT !.scheme = scheme, !.path = path]
To(t, form, port, path) ==
    [t EXCEPT !.arrows = 1, !.inner = [NoInner EXCEPT !.form = form, !.port = port, !.path = path]]
Injecting(t, D) == [t EXCEPT !.inject = D]

Virtual(t) == [static |-> FALSE, text |-> t]
Static(t) == [static |-> TRUE, text |-> t]

NoAuth == [ok |-> FALSE, host |-> nohost, path |-> root, user |-> u1, pass |-> w1]
Auth(h, p, u, w) == [ok |-> TRUE, host |-> h, path |-> p, user |-> u, pass |-> w]

Env(vs) == [vars |-> vs, letsencrypt |-> FALSE, vport |-> NoPort,
            auth |-> NoAuth, trusted |-> {}, header |-> NoText]

Part(n, f) == [net |-> n, form |-> f]
MCGlobal == {Part(r1, "ip4"), Part(r2, "junk")}

(* One without settings, with directives and two entries for one location;  *)
(* TLS by the scheme, by LETSENCRYPT_HOST and by the port; schemes of every *)
(* kind under one name; malformed variables; passwords for the host, for a  *)
(* location, for a location it does not have and for no host, one of them   *)
(* too long to be hashed; filters of its own, global and of junk.           *)
MCEnvironments == {
    Env(<<Virtual(Injecting(Plain, {d1}))>>),
    [Env(<<Virtual(Injecting(Plain, {d1, d2})), Virtual(To(With(Plain, "grpc", NoPath), "port", 9000, NoPath))>>)
        EXCEPT !.trusted = {Part(r2, "cidr"), Part(r1, "ip6")}],
    [Env(<<Virtual(With(Plain, "https", NoPath)), Virtual(To(With(Plain, "wss", api), "port", 8546, NoPath))>>)
        EXCEPT !.auth = Auth(h1, root, u1, w1)],
    [Env(<<Virtual(To(With(Plain, NoText, api), "bare", NoPort, root))>>)
        EXCEPT !.vars[1].text.inner.scheme = "https", !.letsencrypt = TRUE, !.vport = 8080,
               !.auth = Auth(h1, api, u1, w3), !.header = "CF-Connecting-IP"],
    [Env(<<Static([Plain EXCEPT !.port = 443]), Virtual(To(With(Plain, "grpcs", NoPath), "url", 50051, api))>>)
        EXCEPT !.vars[2].text.inner.scheme = "grpcs",
               !.auth = Auth(h1, api, u2, w2), !.trusted = {Part(r2, "junk")}],
    [Env(<<Virtual([Plain EXCEPT !.arrows = 2]), Virtual(Injecting([Plain EXCEPT !.scheme = "http", !.port = 443], {d2}))>>)
        EXCEPT !.auth = Auth(nohost, root, u2, w1)],
    [Env(<<Virtual([Plain EXCEPT !.port = BadPort]),
           Virtual([Plain EXCEPT !.scheme = "https", !.port = 8443]),
           Virtual(To([Plain EXCEPT !.port = 8443], "path", NoPort, api))>>) EXCEPT !.letsencrypt = TRUE] }

ASSUME RestrictionsHold ==
    \A e \in MCEnvironments : OneStaticEach(e) /\ NoPortZero(e) /\ GRPCBothSides(e)

=============================================================================
