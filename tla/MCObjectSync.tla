----------------------------- MODULE MCObjectSync -----------------------------
(***************************************************************************)
(* Instances of ObjectSync for TLC.                                        *)
(***************************************************************************)
EXTENDS ObjectSync

S(disabled, servers, options, replicas) ==
    [disabled |-> disabled, version |-> "v1", servers |-> servers,
     options |-> options, moduleParams |-> "none", replicas |-> replicas]

AllFiles == <<"config", "agent", "node-driver", "controller">>
SomeSpecs == {S({}, "m1", {}, 1), S({}, "m2", {"TCPOnly"}, 2), S({"core", "csi"}, "m1", {}, 1)}
ByHand == {Line("USER_PARAMETER", "a")}
===============================================================================
