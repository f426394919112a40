------------------------------ MODULE MCOperator ------------------------------
(***************************************************************************)
(* Instances of Operator for TLC.                                          *)
(***************************************************************************)
EXTENDS OperatorRefinement, TLC

S(options, disabled) == [options |-> options, disabled |-> disabled]

PlainSpec  == {S({}, {})}
SkipSpecs  == {S({}, {}), S({"skipUninstall"}, {})}
MixedSpecs == {S({}, {}), S({"externalWithoutAddress"}, {}),
               S({"skipUninstall", "ignoreVolumeAttachmentOnDelete"}, {"csi"})}
CsiSpecs   == {S({}, {"mgmt", "core"}), S({"externalWithoutAddress"}, {"mgmt", "core"})}

NodeSymmetry == Permutations(Nodes)
===============================================================================
