------------------------------ MODULE CoreConfig ------------------------------
(***************************************************************************)
(* The configuration map of the core component (core_controller.go): the   *)
(* parameters the operator writes into nvmesh.conf, the conversion between *)
(* its text and a dictionary, and the decision to update a map it found.   *)
(*                                                                         *)
(* A text is a sequence of lines, a line a key and a value; of the default *)
(* parameters, which all behave alike, K8S_ENV stands for the rest.        *)
(***************************************************************************)
EXTENDS Naturals, Sequences

\* Options of spec.core that add parameters of their own, one of which stands
\* for all that the option adds.
OptionKey == [TCPOnly |-> "TCP_ENABLED", AzureOptimized |-> "CLOUD_OPTIMIZED",
              ExcludeDrives |-> "EXCLUDE_DRIVE_SERIALS"]

\* Every key that may occur, sorted; users add USER_PARAMETER.
SortedKeys == <<"CLOUD_OPTIMIZED", "EXCLUDE_DRIVE_SERIALS", "K8S_ENV",
                "MANAGEMENT_SERVERS", "TCP_ENABLED", "USER_PARAMETER">>
KnownKeys == {SortedKeys[i] : i \in DOMAIN SortedKeys}

Line(key, value) == [key |-> key, value |-> value]

DefaultConf == <<Line("K8S_ENV", "True"), Line("MANAGEMENT_SERVERS", "placeholder")>>

-------------------------------------------------------------------------------
(* Texts and dictionaries *)

Keys(text) == {text[i].key : i \in DOMAIN text}

\* Of two lines with the same key the later one counts.
configStringToDict(text) ==
    [k \in Keys(text) |->
        LET last == CHOOSE i \in DOMAIN text :
                       /\ text[i].key = k
                       /\ \A j \in DOMAIN text : text[j].key = k => j <= i
        IN  text[last].value]

\* One line for each key, in the order of the keys.
configDictToString(dict) ==
    LET line(i) == IF SortedKeys[i] \in DOMAIN dict
                   THEN <<Line(SortedKeys[i], dict[SortedKeys[i]])>> ELSE <<>>
    IN  line(1) \o line(2) \o line(3) \o line(4) \o line(5) \o line(6)

\* dict[k] of a Go map: the empty string for a key that is not there.
Lookup(dict, k) == IF k \in DOMAIN dict THEN dict[k] ELSE ""

\* Fields of the first dictionary, and of the second the ones that are new.
CopyMissing(expected, current) ==
    [k \in DOMAIN expected \cup DOMAIN current |->
        IF k \in DOMAIN expected THEN expected[k] ELSE current[k]]

-------------------------------------------------------------------------------
(* The map the operator expects, and its comparison with the one it found *)

\* nvmesh.conf and the other fields, which are compared as a whole:
\* modprobe.d stands for them.
initCoreConfigMap(spec) ==
    LET added == {OptionKey[o] : o \in spec.options}
        dict  == CopyMissing([k \in {"MANAGEMENT_SERVERS"} \cup added |->
                                 IF k = "MANAGEMENT_SERVERS" THEN spec.servers ELSE "Yes"],
                             configStringToDict(DefaultConf))
    IN  [modprobe |-> spec.moduleParams, conf |-> configDictToString(dict)]

\* Only the expected fields are compared.
Differs(expected, current) ==
    \E k \in DOMAIN expected : Lookup(current, k) # expected[k]

\* Variant of NVMeshConf: what is found takes precedence.
NVMeshConfFoundFirst(expected, current) ==
    configDictToString(CopyMissing(configStringToDict(current), configStringToDict(expected)))

\* Variant of NVMeshConf: parameters users added are not copied.
NVMeshConfWithoutCopy(expected, current) == expected

\* The text shouldUpdateNVMeshConf puts in the place of the expected one.
NVMeshConf(expected, current) ==
    configDictToString(CopyMissing(configStringToDict(expected), configStringToDict(current)))

shouldUpdateNVMeshConf(expected, current) ==
    Differs(configStringToDict(expected), configStringToDict(current))

shouldUpdateCoreConfigMap(expected, found) ==
    \/ shouldUpdateNVMeshConf(expected.conf, found.conf)
    \/ expected.modprobe # found.modprobe
===============================================================================
