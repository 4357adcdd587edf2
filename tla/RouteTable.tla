----------------------------- MODULE RouteTable -----------------------------
(***************************************************************************)
(* What the event handlers promise of the routing table, with no word of    *)
(* hosts, locations, upstreams, events or locks: a container's routes come  *)
(* and go together, no change touches the routes of another container, and  *)
(* only a rescan forgets everything.                                        *)
(***************************************************************************)
CONSTANTS
    Container,   \* the containers
    Offer(_)     \* the routes a container asks for

VARIABLE routes  \* the routes in the table, each <<container, key, path>>

Init == routes = {}

Register(c) == routes' = routes \cup Offer(c)

Deregister(c) == routes' = {r \in routes : r[1] # c}

Forget == routes' = {}

Next == Forget \/ \E c \in Container : Register(c) \/ Deregister(c)

Spec == Init /\ [][Next]_routes

=============================================================================
