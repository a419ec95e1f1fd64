------------------------------- MODULE Program -------------------------------
(***************************************************************************)
(* A run of the program as main.cpp puts it together: the configuration is *)
(* parsed, then the counters of all runs, then the chunking is chosen and  *)
(* the task done, and at the end of a serial write the counters are saved. *)
(* Runs follow one another; a run may die at any step.  What a task does   *)
(* to the store is the subject of the other modules, here it is one entry  *)
(* of acts.                                                                *)
(***************************************************************************)
EXTENDS Config, GlobalStat, FiniteSets, FiniteSetsExt, TLC

CONSTANTS
    Texts,         \* the configurations, as sequences of settings
    OldStats,      \* the counters there may be at the beginning
    InputSizes,    \* the sizes of input files, in bytes
    Lz4Sizes,      \* what all its new chunks compress to
    ENABLE_COMPRESSION,   \* whether the build has it: main.cpp:32 says it has not
    MaxRuns        \* bound on the number of runs

ASSUME ProgramAssumption ==
    /\ Texts \subseteq Seq(Member)
    /\ OldStats \subseteq [{"size", "before", "after"} -> (-IntMax - 1)..IntMax]
    /\ InputSizes \subseteq Nat /\ Lz4Sizes \subseteq Nat
    /\ ENABLE_COMPRESSION \in BOOLEAN /\ MaxRuns \in Nat

VARIABLES
    stats,    \* global_stat.json
    acts,     \* history: what the runs did to the store, each with its text
    lost,     \* history: the places in acts the counters do not speak of
    base,     \* history: the counters at the beginning, or as they were cleared
    pc,       \* "idle", "stats", "dispatch", "work", "report", "save", "rewrite"
    text,     \* the configuration of the run
    conf,     \* Config::getInstance()
    gs,       \* GlobalStat::getInstance()
    nruns     \* history: the runs started

vars == <<stats, acts, lost, base, pc, text, conf, gs, nruns>>

Init ==
    /\ stats \in OldStats /\ base = stats
    /\ acts = <<>> /\ lost = {} /\ pc = "idle" /\ nruns = 0
    /\ text = <<>> /\ conf = Defaults /\ gs = Zero

Exit == pc' = "idle" /\ text' = <<>> /\ conf' = Defaults /\ gs' = Zero

\* The serial write of this run is in the store and in no counter.
Uncounted == pc \in {"report", "save", "rewrite"}

\* The process is gone, at a fault of its own or from outside.
Dies ==
    /\ Exit
    /\ lost' = IF Uncounted THEN lost \cup {Len(acts)} ELSE lost
    /\ UNCHANGED <<stats, acts, base, nruns>>

Start(t) ==
    /\ pc = "idle" /\ nruns < MaxRuns /\ nruns' = nruns + 1
    /\ IF parse_argument(t).alive
       THEN pc' = "stats" /\ text' = t /\ conf' = parse_argument(t)
       ELSE UNCHANGED <<pc, text, conf>>
    /\ UNCHANGED <<stats, acts, lost, base, gs>>

ParseStats ==
    /\ pc = "stats" /\ CanParse(stats)
    /\ gs' = parse_arguments(stats)
    /\ pc' = "dispatch"
    /\ UNCHANGED <<stats, acts, lost, base, text, conf, nruns>>

\* The NULL that comes back for an empty file is dereferenced.
StatsFatal == pc = "stats" /\ ~CanParse(stats) /\ Dies

\* chunking as main sets it: NULL for a normalisation level there is none of.
Chunking ==
    CASE conf.ChunkingMethod = "cdc" /\ conf.Normal = 0 -> "FastCDC_without_NC"
      [] conf.ChunkingMethod = "cdc" /\ conf.Normal \in 1..3 -> "FastCDC_with_NC"
      [] conf.ChunkingMethod = "fsc" /\ conf.Size \in {512, 4096, 8192, 16384} -> "FSC"
      [] OTHER -> "NULL"

\* A fixed size that is not supported ends every task, and so does a store
\* whose recipes cannot be counted.  (fileRecipesPath stands for the three
\* paths of the store, which configurations give together.)
Refused ==
    /\ conf.ChunkingMethod # "file"
    /\ \/ conf.ChunkingMethod = "fsc" /\ Chunking = "NULL"
       \/ "fileRecipesPath" \notin conf.given

Refuse == pc = "dispatch" /\ Refused /\ Dies
Dispatch ==
    /\ pc = "dispatch" /\ ~Refused
    /\ pc' = "work"
    /\ UNCHANGED <<stats, acts, lost, base, text, conf, gs, nruns>>

Act(what, arg) == acts' = Append(acts, [text |-> text, what |-> what, arg |-> arg])

\* The id a full-file task is about.
FileId == IF conf.Task = "delete" THEN conf.DeleteId ELSE conf.RestoreId

\* ChunkingMethod file: write, restore and delete, and nothing for a pipelined
\* write.  A write without an input that can be opened enters an empty file.
\* (fullFileStoragePath stands for both paths; without them there is no store.)
FullFileTask ==
    /\ pc = "work" /\ conf.ChunkingMethod = "file"
    /\ IF "fullFileStoragePath" \notin conf.given \/ conf.Task = "write_pipeline"
       THEN UNCHANGED acts
       ELSE IF conf.Task = "write"
       THEN Act(IF "InputFile" \in conf.given THEN "file write" ELSE "empty file write", 0)
       ELSE Act(conf.Task, FileId)
    /\ Exit
    /\ UNCHANGED <<stats, lost, base, nruns>>

Chunked(task) == pc = "work" /\ conf.ChunkingMethod # "file" /\ conf.Task = task

\* Restore and delete of a version.
VersionTask ==
    /\ Chunked("restore") \/ Chunked("delete")
    /\ Act(conf.Task, conf.RestoreVersion)
    /\ Exit
    /\ UNCHANGED <<stats, lost, base, nruns>>

\* A write without an input or, where there is something to cut, without a
\* chunking function dies before anything is stored.
WriteFails(size) ==
    /\ Chunked("write")
    /\ "InputFile" \notin conf.given \/ (size > 0 /\ Chunking = "NULL")
    /\ Dies

\* The pipeline makes a choice of its own: normalised chunking whatever the
\* level is, and no function for the fixed size 512.
chunking_method_prepare ==
    IF conf.ChunkingMethod = "cdc" THEN "FastCDC_with_NC"
    ELSE IF conf.Size \in {4096, 8192, 16384} THEN "FSC" ELSE "NULL"

\* Without an input, or without a function, the process exits while its
\* threads start.
PipelineFails ==
    /\ Chunked("write_pipeline")
    /\ "InputFile" \notin conf.given \/ chunking_method_prepare = "NULL"
    /\ Dies

WritePipeline(size) ==
    /\ Chunked("write_pipeline") /\ "InputFile" \in conf.given
    /\ chunking_method_prepare # "NULL"
    /\ Act("write_pipeline", size)
    /\ Exit
    /\ UNCHANGED <<stats, lost, base, nruns>>

\* With the tree, the first node of an empty file is read and there is none.
MerkleFails(size) == Chunked("write") /\ conf.MerkleTree = "yes" /\ size = 0 /\ Dies

Write(size) ==
    /\ Chunked("write") /\ "InputFile" \in conf.given
    /\ size = 0 \/ Chunking # "NULL"
    /\ conf.MerkleTree = "no" \/ size > 0
    /\ Act("write", size)
    /\ pc' = "report"
    /\ UNCHANGED <<stats, lost, base, text, conf, gs, nruns>>

\* sum_size/sum_chunks: an empty file has no chunks.
ChunksCounted(size) == size > 0

DivisionByZero == pc = "report" /\ ~ChunksCounted(acts[Len(acts)].arg) /\ Dies

\* With the simulated compression built in, the report of a write adds its
\* sizes, of which the new chunks went through it; with the tree none does.
Report(unique, lz4) ==
    /\ pc = "report"
    /\ LET size == acts[Len(acts)].arg
       IN  /\ ChunksCounted(size) /\ unique \in 0..size
           /\ conf.MerkleTree = "yes" => unique = 0
           /\ gs' = IF ENABLE_COMPRESSION
                    THEN update_kb(gs, size, unique, Compressed(unique, lz4)) ELSE gs
    /\ pc' = "save"
    /\ UNCHANGED <<stats, acts, lost, base, text, conf, nruns>>

\* save_arguments: the file is truncated, then written.
Truncate ==
    /\ pc = "save"
    /\ stats' = Empty
    /\ pc' = "rewrite"
    /\ UNCHANGED <<acts, lost, base, text, conf, gs, nruns>>

Rewrite ==
    /\ pc = "rewrite"
    /\ stats' = gs
    /\ Exit
    /\ UNCHANGED <<acts, lost, base, nruns>>

Crash == pc # "idle" /\ Dies

\* clear_global_stat.sh, before a new series of runs: every number becomes 0.
\* An empty file has none and stays empty.
Clear ==
    /\ pc = "idle" /\ nruns < MaxRuns /\ nruns' = nruns + 1
    /\ stats' = IF CanParse(stats) THEN Zero ELSE stats
    /\ lost' = DOMAIN acts /\ base' = Zero
    /\ UNCHANGED <<acts, pc, text, conf, gs>>

Next ==
    \/ ParseStats \/ StatsFatal \/ Refuse \/ Dispatch
    \/ FullFileTask \/ VersionTask \/ PipelineFails
    \/ DivisionByZero \/ Truncate \/ Rewrite \/ Crash \/ Clear
    \/ \E t \in Texts : Start(t)
    \/ \E size \in InputSizes :
         WriteFails(size) \/ WritePipeline(size) \/ MerkleFails(size) \/ Write(size)
    \/ \E unique \in InputSizes, lz4 \in Lz4Sizes : Report(unique, lz4)

Spec == Init /\ [][Next]_vars

-------------------------------------------------------------------------------
Given(t, name) == {i \in DOMAIN t : t[i].name = name}
LastGiven(t, name) == t[Max(Given(t, name))]
Word(t, name) ==
    IF Given(t, name) = {} THEN Defaults[name] ELSE LastGiven(t, name).str
Number(t, name) ==
    IF Given(t, name) = {} THEN Defaults[name]
    ELSE Min({Max({LastGiven(t, name).int, -IntMax - 1}), IntMax})

\* Whatever touched the store was told to: the text was read whole and nothing
\* in it is unsupported, the task is the last one it names (a restore if it
\* names none), and a restore or delete is of the version or of the id that
\* its chunking method says, a number beyond an int being the nearest one.  A
\* write of chunks has an input; one of a whole file that names none is done
\* too, of an empty file (parse_argument, the dispatch of main, writeFile).
ActsAsTold ==
    \A i \in DOMAIN acts :
       LET t == acts[i].text
           whole == Word(t, "ChunkingMethod") = "file"
           input == Given(t, "InputFile") # {}
       IN  /\ Len(t) <= ReadLimit /\ \A j \in DOMAIN t : ~Fatal(t[j])
           /\ acts[i].what = IF ~whole \/ Word(t, "Task") # "write" THEN Word(t, "Task")
                             ELSE IF input THEN "file write" ELSE "empty file write"
           /\ acts[i].what \in {"write", "write_pipeline"} => input
           /\ acts[i].what \in {"restore", "delete"} =>
                acts[i].arg = Number(t, IF ~whole THEN "RestoreVersion"
                                        ELSE IF acts[i].what = "delete" THEN "DeleteId"
                                        ELSE "RestoreId")

\* The serial writes since the counters were cleared, but for those whose process
\* died before the save and for the one that is about to be saved.
Counted ==
    LET writes == {i \in DOMAIN acts : acts[i].what = "write"} \ lost
    IN  IF Uncounted THEN writes \ {Len(acts)} ELSE writes

\* The counters over runs, each of which reads the file and may write it anew.
\* As the program is built none of them changes: the file holds what it held at
\* the beginning, or zeros since it was cleared, whatever was written and
\* wherever runs died.  With ENABLE_COMPRESSION the size grows, modulo the width
\* of an int, by the kilobytes of the serial writes since, but for those whose
\* process died before the save (update_kb, parse_arguments, save_arguments).
StatsAddUp ==
    stats # Empty =>
      LET total[n \in 0..Len(acts)] ==
            IF n = 0 THEN 0
            ELSE total[n - 1] + (IF n \in Counted THEN acts[n].arg \div Kb ELSE 0)
      IN  IF ENABLE_COMPRESSION THEN stats.size = ToInt(base.size + total[Len(acts)])
          ELSE stats = base

\* A file of counters that a death has left empty stops every later run, of
\* any task, before it does anything (save_arguments, parse_arguments): the
\* store is as it was and stays so.
EmptyStatsStopAll ==
    [][stats = Empty /\ pc \notin {"save", "rewrite"} => UNCHANGED <<stats, acts>>]_vars
=============================================================================
