------------------------------- MODULE MCProgram -------------------------------
(***************************************************************************)
(* Values for the constants of Program: configurations of the kind conf/   *)
(* has, and some with a setting left out, repeated, misspelt or too many.  *)
(***************************************************************************)
EXTENDS Program

S(name, str) == [name |-> name, str |-> str, int |-> 0]
N(name, int) == [name |-> name, str |-> NoString, int |-> int]
Recipes == S("fileRecipesPath", "path")
Input == S("InputFile", "path")
Storage == S("fullFileStoragePath", "path")
Whole == S("ChunkingMethod", "file")
Task(word) == S("Task", word)

MCOldStats == {Zero, [size |-> 4999, before |-> 3, after |-> -5001]}

MCTexts == {
    <<Task("write"), Input, Recipes>>,
    <<Task("write"), Input, Recipes, S("MerkleTree", "yes")>>,
    <<Task("write"), Input, Recipes, N("Normal", 4)>>,
    <<Task("write"), Recipes, N("Normal", 0)>>,
    <<Task("write"), Input, Recipes, S("ChunkingMethod", "fsc"), S("Size", "4096")>>,
    <<Task("write_pipeline"), Input, Recipes, S("ChunkingMethod", "fsc")>>,
    <<Task("write_pipeline"), Input, Recipes, S("ChunkingMethod", "fsc"), N("Size", 512)>>,
    <<Task("write_pipeline"), Input, Recipes, N("Normal", 4)>>,
    <<Task("write"), Task("delete"), N("RestoreVersion", 6000), Recipes>>,
    <<Task("delete"), N("DeleteId", 1), Recipes>>,
    <<Task("delete"), N("DeleteId", 1), N("RestoreVersion", 2), Whole, Storage>>,
    <<N("RestoreId", 6000), N("DeleteId", 1), Storage, Whole>>,
    <<Whole, Task("write"), Input, Recipes, S("ChunkingMethod", "cdc")>>,
    <<Whole, Task("write"), Input, Storage>>,
    <<Whole, Task("write"), Storage>>,
    <<Whole, Task("write"), Input>>,
    <<Whole, Task("write_pipeline"), Input, Storage>>,
    <<N("RestoreVersion", -6000), Recipes, S("Verbose", "yes")>>,
    <<Task("erase"), Task("restore"), Recipes>>,
    <<Recipes, N("Task", 1)>>,
    <<N("InputFile", 7), Task("write"), Recipes>>,
    <<Task("write"), Input, Recipes, N("Size", 4096), N("Normal", 2), S("MTL1", "path")>> }
=============================================================================
