---------------------------- MODULE MCCertificates ----------------------------
(***************************************************************************)
(* Small instances of Certificates for TLC.                                 *)
(***************************************************************************)
EXTENDS Certificates, TLC

CONSTANTS d1, wild, g1, g2, thread, nobody

Subdomain == (d1 :> wild) @@ (wild :> wild)
NoWildcard == [d \in Domain |-> d]

=============================================================================
