----------------------------- MODULE MCWebServer -----------------------------
(***************************************************************************)
(* Small instances of WebServer for TLC.                                    *)
(***************************************************************************)
EXTENDS WebServer, TLC

CONSTANTS c1, c2, h1, h2, n1, n2, net1, net2, me, root, api

MCContainer == {c1, c2}
MCHostname == {h1, h2}
MCPort == {80, 443, 8080}
MCPath == {root, api}
MCSlug == {"root", "_api"}

MCSanitized == (root :> "root") @@ (api :> "_api")

Plain(h, port, p) == [host |-> h, port |-> port, path |-> p, ssl |-> FALSE, static |-> FALSE]
Secure(h, port, p) == [Plain(h, port, p) EXCEPT !.ssl = TRUE]
Static(e) == [e EXCEPT !.static = TRUE]

(* Both containers serve the root of h1, c1 also its /api.                  *)
SharedEntries == (c1 :> {Plain(h1, 80, root), Plain(h1, 80, api)})
                 @@ (c2 :> {Plain(h1, 80, root)})

MCNetwork == {n1, n2}
OneNetwork == {n1}
MCNetworkName == {net1, net2}
MCNameOf == (n1 :> net1) @@ (n2 :> net2)
OneName == n1 :> net1
OnFirst == {{n1}}
OnEither == {{}, {n1}}

Lifecycle == {"start", "kill", "die", "remove"}
LifecycleReports == {"start", "connect", "kill", "die", "disconnect"}
ProgressOps == Lifecycle \cup {"pause", "self", "destroy"}
AllReports == LifecycleReports \cup {"stop", "restart", "pause", "unpause", "destroy"}
Arrivals == {"start", "pause", "connect", "disconnect", "destroy"}
DieOnly == {"die"}
StartDie == {"start", "die"}
TopologyOps == {"connect", "disconnect", "self", "destroy", "die"}
TopologyReports == LifecycleReports \cup {"destroy"}

StartReplay == {ContainerEvent("start", c1), ContainerEvent("connect", c2)}

OneEntry == [c \in Container |-> {Plain(h1, 80, root)}]

(* h1 has a certificate and is asked for with and without TLS, statically   *)
(* on port 80 too; h2 has none.                                             *)
SecureEntries ==
    (c1 :> {Plain(h1, 80, root), Secure(h1, 80, api), Secure(h2, 8080, root)})
    @@ (c2 :> {Static(Secure(h1, 80, root)), Plain(h1, 8080, root), Plain(h2, 443, api)})

=============================================================================
