----------------------------- MODULE MCManagement -----------------------------
(***************************************************************************)
(* Instances of Management for TLC.                                        *)
(***************************************************************************)
EXTENDS Management

S(image, replicas, settings, useSSL) ==
    [disabled |-> FALSE, external |-> FALSE, settings |-> settings,
     useSSL |-> useSSL, image |-> image, replicas |-> replicas,
     mongoImage |-> image, externalIPs |-> [given |-> FALSE, ips |-> {}]]

At(s, ips) == [s EXCEPT !.externalIPs = [given |-> TRUE, ips |-> ips]]
Off(s)     == [s EXCEPT !.disabled = TRUE]
Outside(s) == [s EXCEPT !.external = TRUE]

MgmtSpecs    == {S("v1", 1, "on", TRUE), At(S("v2", 1, "off", TRUE), {"ip1"}),
                 At(S("v1", 2, "on", FALSE), {"ip2"}), Off(S("v1", 1, "on", TRUE))}
ScaledSpecs  == {S("v1", 1, "on", TRUE), S("v1", 2, "off", TRUE)}
OutsideSpecs == {Outside(S("v1", 1, "on", TRUE))}
===============================================================================
