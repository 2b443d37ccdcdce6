------------------------ MODULE MCDrmSessionManager ------------------------
(* Three contents for two slots, one of them with two key ids.              *)
EXTENDS DrmSessionManager

MCKeySet == [k \in Keys |-> IF k \in {"v", "a"} THEN {"v", "a"} ELSE {k}]
MCAsks == [c \in {License, Decryptor} |-> IF c = License THEN {"v", "b", "c"} ELSE {"a"}]
MCConfigs ==
    {[hls |-> FALSE, needsToken |-> TRUE, setLicenseCaching |-> TRUE],
     [hls |-> FALSE, needsToken |-> FALSE, setLicenseCaching |-> FALSE],
     [hls |-> TRUE, needsToken |-> FALSE, setLicenseCaching |-> TRUE]}
=============================================================================
