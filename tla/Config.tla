-------------------------------- MODULE Config --------------------------------
(***************************************************************************)
(* The configuration of a run (src/include/config.h): a JSON text gives    *)
(* settings in some order, parse_argument applies them one by one to the   *)
(* values the process starts with, and any of them may end the process.    *)
(***************************************************************************)
EXTENDS CJSON

CONSTANT
    ReadLimit    \* how much of a text is read, in settings: 1001 bytes

ASSUME ConfigAssumption == ReadLimit \in Nat

\* What the strings of the enumerated settings may be (taskTypeTrans and so on).
Words == [Task |-> {"write", "write_pipeline", "restore", "delete"},
          ChunkingMethod |-> {"cdc", "fsc", "file"},
          RestoreMethod |-> {"naive", "container", "chunk", "faa_fixed", "faa_rolling"},
          MerkleTree |-> {"yes", "no"}]

Numbers == {"RestoreVersion", "RestoreId", "DeleteId", "Size", "Normal"}

Paths == {"InputFile", "RestorePath", "fingerprintsFilePath", "fileRecipesPath", "containersPath",
          "fullFileFingerprintsPath", "fullFileStoragePath",
          "MTL1", "MTL2", "MTL3", "MTL4", "MTL5", "MTL6"}

\* The instance is static, so that what the constructor leaves alone is zero:
\* the first value of each enumeration, version 0, id 0.  No path is given.
Defaults == [Task |-> "restore", ChunkingMethod |-> "cdc", RestoreMethod |-> "naive",
             MerkleTree |-> "no", RestoreVersion |-> 0, RestoreId |-> 0, DeleteId |-> 0,
             Size |-> 4096, Normal |-> 2, given |-> {}, alive |-> TRUE]

\* cJSON_Parse of what fits in the buffer: a text that is cut is no JSON any
\* more, and the NULL that comes back is dereferenced.
Readable(text) == Len(text) <= ReadLimit

\* A word that is not supported ends the process, and so does a number where a
\* string is expected: strcmp and the assignment to a string both read NULL.
Fatal(s) ==
    \/ s.name \in DOMAIN Words /\ s.str \notin Words[s.name]
    \/ s.name \in Paths /\ s.str = NoString

\* Mutant: a word that is not supported is passed over.
Applied_Lenient(conf, s) ==
    IF ~conf.alive \/ Fatal(s) THEN conf
    ELSE IF s.name \in DOMAIN Words THEN [conf EXCEPT ![s.name] = s.str]
    ELSE IF s.name \in Numbers THEN [conf EXCEPT ![s.name] = s.int]
    ELSE IF s.name \in Paths THEN [conf EXCEPT !.given = @ \cup {s.name}]
    ELSE conf

\* One turn of the loop; a name that is not known is passed over.
Applied(conf, s) ==
    IF ~conf.alive THEN conf
    ELSE IF Fatal(s) THEN [conf EXCEPT !.alive = FALSE]
    ELSE IF s.name \in DOMAIN Words THEN [conf EXCEPT ![s.name] = s.str]
    ELSE IF s.name \in Numbers THEN [conf EXCEPT ![s.name] = s.int]
    ELSE IF s.name \in Paths THEN [conf EXCEPT !.given = @ \cup {s.name}]
    ELSE conf

\* The configuration after the first n members.
After(members) ==
    LET conf[n \in 0..Len(members)] ==
          IF n = 0 THEN Defaults ELSE Applied(conf[n - 1], members[n])
    IN  conf

parse_argument(text) ==
    IF Readable(text) THEN After(parse_object(text))[Len(text)]
    ELSE [Defaults EXCEPT !.alive = FALSE]
=============================================================================
