---------------------------- MODULE ProgramProofs ----------------------------
(***************************************************************************)
(* The runs of the program, for any configurations and any width of an     *)
(* int: what a death between the truncation of the file of counters and    *)
(* its rewrite means for the runs that follow, that a run does to the      *)
(* store what its configuration says, and what the counters add up to.     *)
(***************************************************************************)
EXTENDS Program, WellFoundedInduction, TLAPS

\* A non-empty set of numbers has a least one.
LEMMA HasLeast ==
  ASSUME NEW T \in SUBSET Nat, T # {}
  PROVE  \E t \in T : \A u \in T : t <= u
<1> DEFINE R == {ss \in Nat \X Nat : ss[1] < ss[2]}
<1>1. IsWellFoundedOn(R, Nat)
  BY NatLessThanWellFounded DEF OpToRel
<1>2. \A x, y \in Nat : <<y, x>> \in R <=> y < x
  <2> TAKE x, y \in Nat
  <2>1. <<y, x>> \in Nat \X Nat /\ <<y, x>>[1] = y /\ <<y, x>>[2] = x
    OBVIOUS
  <2> QED BY <2>1
<1> HIDE DEF R
<1>3. \E x \in T : \A y \in T : ~(<<y, x>> \in R)
  BY <1>1, WFMin
<1>4. \A x, y \in T : ~(<<y, x>> \in R) => x <= y
  BY <1>2
<1> QED BY <1>3, <1>4

\* A non-empty set of numbers that has a bound has a greatest one.
LEMMA HasGreatest ==
  ASSUME NEW b \in Nat, NEW T \in SUBSET (0..b), T # {}
  PROVE  \E t \in T : \A u \in T : u <= t
<1> DEFINE D == {n \in 0..b : b - n \in T}
<1>1. D \in SUBSET Nat
  OBVIOUS
<1>2. PICK t \in T : TRUE
  OBVIOUS
<1>3. b - t \in D
  <2>1. b - t \in 0..b /\ b - (b - t) = t
    OBVIOUS
  <2> QED BY <2>1
<1>4. PICK n \in D : \A u \in D : n <= u
  BY <1>1, <1>3, HasLeast
<1>5. \A u \in T : b - u \in D
  <2> TAKE u \in T
  <2>1. b - u \in 0..b /\ b - (b - u) = u
    OBVIOUS
  <2> QED BY <2>1
<1>6. n \in 0..b /\ b - n \in T
  BY <1>4
<1>7. \A u \in T : u <= b - n
  BY <1>4, <1>5, <1>6
<1> QED BY <1>6, <1>7

\* A number is reached from 0 where every step leads on.
LEMMA Reached ==
  ASSUME NEW b \in Nat, NEW T, 0 \in T, \A n \in 0..b : n \in T => n + 1 \in T
  PROVE  \A n \in 0..(b + 1) : n \in T
<1> DEFINE Missed == {n \in 0..(b + 1) : n \notin T}
<1>1. SUFFICES ASSUME Missed # {} PROVE FALSE
  OBVIOUS
<1>2. PICK n \in Missed : \A u \in Missed : n <= u
  <2>1. Missed \in SUBSET Nat
    OBVIOUS
  <2> QED BY <1>1, <2>1, HasLeast
<1>3. n \in 1..(b + 1) /\ n - 1 \in 0..b /\ n - 1 \in 0..(b + 1)
  BY <1>2
<1>4. n - 1 \in T
  BY <1>2, <1>3
<1> QED BY <1>2, <1>3, <1>4

-------------------------------------------------------------------------------
\* The counters.

\* The file is empty while a run rewrites it, and where no run has got beyond
\* its parse.
EmptyInv == stats = Empty => pc \in {"idle", "stats", "rewrite"}

LEMMA InitEmpty == Init => EmptyInv
BY DEF Init, EmptyInv

LEMMA NextEmpty == EmptyInv /\ [Next]_vars => EmptyInv'
<1> SUFFICES ASSUME EmptyInv, [Next]_vars PROVE EmptyInv'
  OBVIOUS
<1>1. ASSUME Exit \/ Dies PROVE EmptyInv'
  BY <1>1 DEF Exit, Dies, EmptyInv
<1>2. ASSUME UNCHANGED stats, pc' \in {"idle", "stats"} \/ UNCHANGED pc \/ stats # Empty
      PROVE  EmptyInv'
  BY <1>2 DEF EmptyInv
<1>3. UNCHANGED vars => EmptyInv'
  BY <1>2 DEF vars
<1>4. \A t \in Texts : Start(t) => EmptyInv'
  BY <1>2 DEF Start
<1>5. Clear => EmptyInv'
  BY DEF Clear, EmptyInv
<1>6. ParseStats => EmptyInv'
  BY <1>2 DEF ParseStats, CanParse
<1>7. Dispatch => EmptyInv'
  BY <1>2 DEF Dispatch, EmptyInv
<1>8. Truncate => EmptyInv'
  BY DEF Truncate, EmptyInv
<1>9. Rewrite \/ FullFileTask \/ VersionTask => EmptyInv'
  BY <1>1 DEF Rewrite, FullFileTask, VersionTask
<1>10. StatsFatal \/ Refuse \/ PipelineFails \/ DivisionByZero \/ Crash => EmptyInv'
  BY <1>1 DEF StatsFatal, Refuse, PipelineFails, DivisionByZero, Crash
<1>11. \A size \in InputSizes :
         WriteFails(size) \/ WritePipeline(size) \/ MerkleFails(size) => EmptyInv'
  BY <1>1 DEF WriteFails, WritePipeline, MerkleFails
<1>12. \A size \in InputSizes : Write(size) => EmptyInv'
  BY <1>2 DEF Write, Chunked, EmptyInv
<1>13. \A unique \in InputSizes, lz4 \in Lz4Sizes : Report(unique, lz4) => EmptyInv'
  BY <1>2 DEF Report, EmptyInv
<1> QED BY <1>3, <1>4, <1>5, <1>6, <1>7, <1>8, <1>9, <1>10, <1>11, <1>12, <1>13 DEF Next

\* A file of counters that a death has left empty stops every later run, of
\* any task, before it does anything (save_arguments, parse_arguments).
THEOREM EmptyStatsStopAllHolds == Spec => EmptyStatsStopAll
<1> DEFINE Stops == stats = Empty /\ pc \notin {"save", "rewrite"} => UNCHANGED <<stats, acts>>
<1>1. ASSUME EmptyInv, [Next]_vars PROVE [Stops]_vars
  <2> SUFFICES ASSUME Next, stats = Empty, pc \notin {"save", "rewrite"}
               PROVE  UNCHANGED <<stats, acts>>
    BY <1>1
  <2>1. pc \in {"idle", "stats"}
    BY <1>1 DEF EmptyInv
  <2>2. ~CanParse(stats)
    BY DEF CanParse
  <2>3. CASE (\E t \in Texts : Start(t)) \/ Clear
    BY <2>2, <2>3 DEF Start, Clear
  <2>4. CASE StatsFatal \/ Crash
    BY <2>4 DEF StatsFatal, Crash, Dies
  <2>5. ~ParseStats
    BY <2>2 DEF ParseStats
  <2>6. ~(Refuse \/ Dispatch \/ FullFileTask \/ VersionTask \/ PipelineFails)
    BY <2>1 DEF Refuse, Dispatch, FullFileTask, VersionTask, PipelineFails, Chunked
  <2>7. ~(DivisionByZero \/ Truncate \/ Rewrite)
    BY <2>1 DEF DivisionByZero, Truncate, Rewrite
  <2>8. \A size \in InputSizes :
          ~(WriteFails(size) \/ WritePipeline(size) \/ MerkleFails(size) \/ Write(size))
    BY <2>1 DEF WriteFails, WritePipeline, MerkleFails, Write, Chunked
  <2>9. \A unique \in InputSizes, lz4 \in Lz4Sizes : ~Report(unique, lz4)
    BY <2>1 DEF Report
  <2> QED BY <2>3, <2>4, <2>5, <2>6, <2>7, <2>8, <2>9 DEF Next
<1> QED BY <1>1, InitEmpty, NextEmpty, PTL DEF Spec, EmptyStatsStopAll

-------------------------------------------------------------------------------
\* The configuration.

Named == DOMAIN Words \cup Numbers

\* What a member gives for its name.
Given1(name, m) == IF name \in DOMAIN Words THEN m.str ELSE parse_number(m.int)

\* After n members a configuration that is alive has seen nothing fatal, has the
\* paths there were, and shows of each other name what the last member of that
\* name gave, or the default.
Shows(c, t, n) ==
  c.alive = TRUE =>
    /\ \A j \in 1..n : ~Fatal(t[j])
    /\ \A path \in Paths : path \in c.given <=> \E j \in 1..n : t[j].name = path
    /\ \A name \in Named :
         /\ (\A j \in 1..n : t[j].name # name) => c[name] = Defaults[name]
         /\ \A k \in 1..n :
              t[k].name = name /\ (\A j \in (k + 1)..n : t[j].name # name)
                => c[name] = Given1(name, t[k])

IsConf(c) == DOMAIN c = DOMAIN Defaults /\ c = [x \in DOMAIN Defaults |-> c[x]]

LEMMA ConfNames ==
  /\ IsConf(Defaults) /\ Defaults.alive = TRUE /\ Defaults.given = {}
  /\ DOMAIN Words = {"Task", "ChunkingMethod", "RestoreMethod", "MerkleTree"}
  /\ DOMAIN Defaults = Named \cup {"given", "alive"}
  /\ "given" \notin Named \cup Paths /\ "alive" \notin Named \cup Paths
  /\ DOMAIN Words \cap Numbers = {} /\ Paths \cap Named = {}
<1>1. DOMAIN Words = {"Task", "ChunkingMethod", "RestoreMethod", "MerkleTree"}
  BY DEF Words
<1>2. DOMAIN Defaults = {"Task", "ChunkingMethod", "RestoreMethod", "MerkleTree",
                         "RestoreVersion", "RestoreId", "DeleteId", "Size", "Normal",
                         "given", "alive"}
  BY DEF Defaults
<1>3. IsConf(Defaults) /\ Defaults.alive = TRUE /\ Defaults.given = {}
  BY DEF Defaults, IsConf
<1> QED BY <1>1, <1>2, <1>3 DEF Named, Numbers, Paths

\* parse_object changes the number of a member and nothing else.
LEMMA ParsedMember ==
  ASSUME NEW t \in Seq(Member), NEW k \in 1..Len(t)
  PROVE  LET s == parse_object(t)[k]
         IN  /\ s.name = t[k].name /\ s.str = t[k].str /\ s.int = parse_number(t[k].int)
             /\ Fatal(s) <=> Fatal(t[k])
<1> DEFINE s == parse_object(t)[k]
<1>1. t[k] \in Member /\ k \in DOMAIN t
  OBVIOUS
<1>2. s = [t[k] EXCEPT !.int = parse_number(t[k].int)]
  BY <1>1 DEF parse_object
<1> HIDE DEF s
<1>3. s.name = t[k].name /\ s.str = t[k].str /\ s.int = parse_number(t[k].int)
  BY <1>1, <1>2 DEF Member
<1>4. Fatal(s) <=> Fatal(t[k])
  BY <1>3 DEF Fatal
<1> QED BY <1>3, <1>4 DEF s

\* The recursion of After has a value after every member.
LEMMA AfterSteps ==
  ASSUME NEW members, Len(members) \in Nat
  PROVE  /\ After(members)[0] = Defaults
         /\ \A n \in 1..Len(members) :
              After(members)[n] = Applied(After(members)[n - 1], members[n])
<1> DEFINE len == Len(members)
<1> DEFINE Up(g, n) == [k \in 0..n |-> IF k = 0 THEN Defaults ELSE Applied(g[k - 1], members[k])]
<1> DEFINE Built == {n \in Nat : \E g : g = Up(g, n)}
<1>1. 0 \in Built
  <2> DEFINE g == [k \in {0} |-> Defaults]
  <2>1. 0..0 = {0}
    OBVIOUS
  <2>2. g = Up(g, 0)
    BY <2>1
  <2> QED BY <2>2
<1>2. ASSUME NEW n \in 0..len, n \in Built PROVE n + 1 \in Built
  <2>1. PICK g : g = Up(g, n)
    BY <1>2
  <2> DEFINE h == [k \in 0..(n + 1) |-> IF k <= n THEN g[k] ELSE Applied(g[k - 1], members[k])]
  <2>2. \A k \in 0..n : g[k] = IF k = 0 THEN Defaults ELSE Applied(g[k - 1], members[k])
    BY <2>1
  <2>3. n \in Nat
    OBVIOUS
  <2>4. \A k \in 0..(n + 1) : k # 0 => k - 1 \in 0..n /\ k - 1 <= n /\ k - 1 \in 0..(n + 1)
    BY <2>3
  <2>5. \A k \in 0..(n + 1) : k # 0 => h[k - 1] = g[k - 1]
    BY <2>4
  <2>6. \A k \in 0..(n + 1) :
           h[k] = IF k = 0 THEN Defaults ELSE Applied(h[k - 1], members[k])
    <3> TAKE k \in 0..(n + 1)
    <3>1. CASE k <= n
      <4>1. k \in 0..n /\ h[k] = g[k]
        BY <2>3, <3>1
      <4> QED BY <2>2, <2>5, <4>1
    <3>2. CASE ~(k <= n)
      <4>1. h[k] = Applied(g[k - 1], members[k]) /\ k # 0
        BY <2>3, <3>2
      <4> QED BY <2>5, <4>1
    <3> QED BY <3>1, <3>2
  <2>7. h = Up(h, n + 1)
    <3>1. h = [k \in 0..(n + 1) |-> h[k]]
      OBVIOUS
    <3> HIDE DEF h
    <3> QED BY <2>6, <3>1
  <2>8. n + 1 \in Nat
    BY <2>3
  <2> HIDE DEF h
  <2> QED BY <2>7, <2>8
<1>3. len \in Built
  <2> HIDE DEF Built
  <2>1. \A n \in 0..(len + 1) : n \in Built
    BY <1>1, <1>2, Reached
  <2> QED BY <2>1
<1>4. PICK g : g = Up(g, len)
  BY <1>3
<1> DEFINE conf1 == After(members)
<1>5. conf1 = Up(conf1, len)
  BY <1>4 DEF After
<1>6. 0 \in 0..len /\ \A n \in 1..len : n \in 0..len /\ n # 0
  OBVIOUS
<1> HIDE DEF conf1
<1>7. conf1[0] = Defaults /\ \A n \in 1..len : conf1[n] = Applied(conf1[n - 1], members[n])
  BY <1>5, <1>6
<1> QED BY <1>7 DEF conf1

\* What one member makes of a configuration.
LEMMA AppliedOne ==
  ASSUME NEW c, IsConf(c), c.alive \in BOOLEAN, NEW s
  PROVE  LET d == Applied(c, s)
         IN  /\ IsConf(d) /\ d.alive \in BOOLEAN
             /\ d.alive = TRUE =>
                  /\ c.alive = TRUE /\ ~Fatal(s)
                  /\ d.given = IF s.name \in Paths THEN c.given \cup {s.name} ELSE c.given
                  /\ \A name \in Named :
                       d[name] = IF name # s.name THEN c[name]
                                 ELSE IF name \in DOMAIN Words THEN s.str ELSE s.int
<1> DEFINE d == Applied(c, s)
<1> DEFINE All == DOMAIN Defaults
<1>1. /\ All = Named \cup {"given", "alive"} /\ "given" \notin Named \cup Paths
      /\ "alive" \notin Named \cup Paths /\ Named = DOMAIN Words \cup Numbers
      /\ DOMAIN Words \cap Numbers = {} /\ Paths \cap Named = {}
  BY ConfNames DEF Named
<1>2. c = [x \in All |-> c[x]]
  BY DEF IsConf
<1> HIDE DEF All
<1>3. CASE c.alive = FALSE
  BY <1>3 DEF Applied
<1>4. CASE c.alive = TRUE /\ Fatal(s)
  <2>1. d = [c EXCEPT !.alive = FALSE]
    BY <1>4 DEF Applied
  <2>2. d.alive = FALSE /\ IsConf(d)
    BY <1>1, <1>2, <2>1 DEF IsConf, All
  <2> QED BY <2>2
<1>5. CASE c.alive = TRUE /\ ~Fatal(s) /\ s.name \in DOMAIN Words
  <2>1. d = [c EXCEPT ![s.name] = s.str]
    BY <1>5 DEF Applied
  <2>2. /\ d = [x \in All |-> IF x = s.name THEN s.str ELSE c[x]]
        /\ s.name \notin Paths \cup {"alive", "given"}
        /\ "alive" \in All /\ "given" \in All /\ Named \subseteq All
    BY <1>1, <1>2, <1>5, <2>1
  <2>3. IsConf(d) /\ d.alive = TRUE /\ d.given = c.given
    BY <1>5, <2>2 DEF IsConf, All
  <2>4. \A name \in Named : d[name] = IF name # s.name THEN c[name] ELSE s.str
    BY <2>2
  <2> QED BY <1>1, <1>5, <2>2, <2>3, <2>4
<1>6. CASE c.alive = TRUE /\ ~Fatal(s) /\ s.name \in Numbers /\ s.name \notin DOMAIN Words
  <2>1. d = [c EXCEPT ![s.name] = s.int]
    BY <1>6 DEF Applied
  <2>2. /\ d = [x \in All |-> IF x = s.name THEN s.int ELSE c[x]]
        /\ s.name \notin Paths \cup {"alive", "given"}
        /\ "alive" \in All /\ "given" \in All /\ Named \subseteq All
    BY <1>1, <1>2, <1>6, <2>1
  <2>3. IsConf(d) /\ d.alive = TRUE /\ d.given = c.given
    BY <1>6, <2>2 DEF IsConf, All
  <2>4. \A name \in Named : d[name] = IF name # s.name THEN c[name] ELSE s.int
    BY <2>2
  <2> QED BY <1>1, <1>6, <2>2, <2>3, <2>4
<1>7. CASE c.alive = TRUE /\ ~Fatal(s) /\ s.name \notin Named
  <2>1. d = IF s.name \in Paths THEN [c EXCEPT !.given = c.given \cup {s.name}] ELSE c
    BY <1>1, <1>7 DEF Applied
  <2> DEFINE v == IF s.name \in Paths THEN c.given \cup {s.name} ELSE c.given
  <2>2. d = [x \in All |-> IF x = "given" THEN v ELSE c[x]]
    <3>1. CASE s.name \in Paths
      <4>1. d = [c EXCEPT !.given = v]
        BY <2>1, <3>1
      <4> HIDE DEF v
      <4> QED BY <1>2, <4>1
    <3>2. CASE s.name \notin Paths
      <4>1. c = [x \in All |-> IF x = "given" THEN c.given ELSE c[x]]
        BY <1>2
      <4> QED BY <1>1, <2>1, <3>2, <4>1
    <3> QED BY <3>1, <3>2
  <2> HIDE DEF v
  <2>3. IsConf(d) /\ d.alive = TRUE /\ d.given = v
    BY <1>1, <1>7, <2>2 DEF IsConf, All
  <2>4. \A name \in Named : d[name] = c[name]
    BY <1>1, <2>2
  <2> QED BY <1>7, <2>3, <2>4 DEF v
<1> QED BY <1>1, <1>3, <1>4, <1>5, <1>6, <1>7

\* One more member.
LEMMA ShowsOneMore ==
  ASSUME NEW t \in Seq(Member), NEW n \in Nat, n + 1 <= Len(t),
         NEW c, IsConf(c), c.alive \in BOOLEAN, Shows(c, t, n)
  PROVE  Shows(Applied(c, parse_object(t)[n + 1]), t, n + 1)
<1> DEFINE s == parse_object(t)[n + 1]
<1> DEFINE d == Applied(c, s)
<1>1. /\ s.name = t[n + 1].name /\ s.str = t[n + 1].str /\ s.int = parse_number(t[n + 1].int)
      /\ Fatal(s) <=> Fatal(t[n + 1])
  <2>1. n + 1 \in 1..Len(t)
    OBVIOUS
  <2> QED BY <2>1, ParsedMember
<1> HIDE DEF s
<1>2. d.alive = TRUE =>
        /\ c.alive = TRUE /\ ~Fatal(s)
        /\ d.given = IF s.name \in Paths THEN c.given \cup {s.name} ELSE c.given
        /\ \A name \in Named :
             d[name] = IF name # s.name THEN c[name]
                       ELSE IF name \in DOMAIN Words THEN s.str ELSE s.int
  BY AppliedOne
<1> HIDE DEF d
<1> SUFFICES ASSUME d.alive = TRUE PROVE Shows(d, t, n + 1)
  BY DEF Shows, d, s
<1>3. \A j \in 1..(n + 1) : j \in 1..n \/ j = n + 1
  OBVIOUS
<1>4. \A j \in 1..n : j \in 1..(n + 1)
  OBVIOUS
<1>5. \A j \in 1..(n + 1) : ~Fatal(t[j])
  BY <1>1, <1>2, <1>3 DEF Shows
<1>6. ASSUME NEW name \in Named, \A j \in 1..(n + 1) : t[j].name # name
      PROVE  d[name] = Defaults[name]
  <2>1. n + 1 \in 1..(n + 1)
    OBVIOUS
  <2>2. name # s.name /\ \A j \in 1..n : t[j].name # name
    BY <1>1, <1>4, <1>6, <2>1
  <2> QED BY <1>2, <2>2 DEF Shows
<1>7. ASSUME NEW name \in Named, NEW k \in 1..(n + 1), t[k].name = name,
             \A j \in (k + 1)..(n + 1) : t[j].name # name
      PROVE  d[name] = Given1(name, t[k])
  <2>1. CASE k = n + 1
    BY <1>1, <1>2, <1>7, <2>1 DEF Given1
  <2>2. CASE k # n + 1
    <3>1. k \in 1..n /\ n + 1 \in (k + 1)..(n + 1) /\ \A j \in (k + 1)..n : j \in (k + 1)..(n + 1)
      BY <2>2
    <3>2. name # s.name
      BY <1>1, <1>7, <3>1
    <3>3. \A j \in (k + 1)..n : t[j].name # name
      BY <1>7, <3>1
    <3> QED BY <1>2, <1>7, <3>1, <3>2, <3>3 DEF Shows
  <2> QED BY <2>1, <2>2
<1>8. ASSUME NEW path \in Paths
      PROVE  path \in d.given <=> \E j \in 1..(n + 1) : t[j].name = path
  <2>1. path \in c.given <=> \E j \in 1..n : t[j].name = path
    BY <1>2 DEF Shows
  <2>2. path \in d.given <=> path \in c.given \/ t[n + 1].name = path
    BY <1>1, <1>2
  <2>3. n + 1 \in 1..(n + 1)
    OBVIOUS
  <2> QED BY <1>3, <1>4, <2>1, <2>2, <2>3
<1> QED BY <1>5, <1>6, <1>7, <1>8 DEF Shows

LEMMA AfterShows ==
  ASSUME NEW t \in Seq(Member)
  PROVE  LET c == After(parse_object(t))[Len(t)]
         IN  IsConf(c) /\ Shows(c, t, Len(t))
<1> DEFINE members == parse_object(t)
<1> DEFINE len == Len(t)
<1> DEFINE Fine(n) == LET c == After(members)[n]
                      IN  IsConf(c) /\ c.alive \in BOOLEAN /\ Shows(c, t, n)
<1> DEFINE Done == {n \in Nat : n <= len => Fine(n)}
<1>1. len \in Nat /\ Len(members) = len
  BY DEF parse_object
<1>2. /\ After(members)[0] = Defaults
      /\ \A n \in 1..len : After(members)[n] = Applied(After(members)[n - 1], members[n])
  BY <1>1, AfterSteps
<1> HIDE DEF members, len
<1>3. 0 \in Done
  <2>1. Shows(Defaults, t, 0)
    BY ConfNames DEF Shows
  <2> QED BY <1>2, <2>1, ConfNames
<1>4. ASSUME NEW n \in 0..len, n \in Done PROVE n + 1 \in Done
  <2> SUFFICES ASSUME n + 1 <= len PROVE Fine(n + 1)
    OBVIOUS
  <2>1. n \in Nat /\ n <= len /\ n + 1 \in 1..len /\ (n + 1) - 1 = n
    BY <1>1
  <2>2. Fine(n)
    BY <1>4, <2>1
  <2> DEFINE c == After(members)[n]
  <2>3. After(members)[n + 1] = Applied(c, members[n + 1])
    BY <1>2, <2>1
  <2>4. IsConf(c) /\ c.alive \in BOOLEAN /\ Shows(c, t, n)
    BY <2>2
  <2> HIDE DEF c
  <2> DEFINE d == Applied(c, members[n + 1])
  <2>5. IsConf(d) /\ d.alive \in BOOLEAN
    BY <2>4, AppliedOne
  <2>6. Shows(d, t, n + 1)
    BY <2>1, <2>4, ShowsOneMore DEF members, len
  <2> QED BY <2>3, <2>5, <2>6
<1>5. len \in Done
  <2> HIDE DEF Done
  <2>1. \A n \in 0..(len + 1) : n \in Done
    BY <1>1, <1>3, <1>4, Reached
  <2> QED BY <1>1, <2>1
<1> QED BY <1>1, <1>5 DEF members, len

\* Between the smallest and the largest int a number is itself.
LEMMA NearestInt ==
  ASSUME NEW number \in Int
  PROVE  parse_number(number) = Min({Max({number, -IntMax - 1}), IntMax})
<1>1. IntMax \in Nat
  BY IntAssumption
<1> DEFINE low == -IntMax - 1
<1>2. low \in Int /\ low < IntMax
  BY <1>1
<1> HIDE DEF low
<1>3. \A a, b \in Int : Max({a, b}) = IF a >= b THEN a ELSE b
  <2> TAKE a, b \in Int
  <2> DEFINE m == IF a >= b THEN a ELSE b
  <2>1. m \in {a, b} /\ \A y \in {a, b} : m >= y
    OBVIOUS
  <2>2. \A x \in {a, b} : (\A y \in {a, b} : x >= y) => x = m
    OBVIOUS
  <2> HIDE DEF m
  <2>3. Max({a, b}) = m
    BY <2>1, <2>2 DEF Max
  <2> QED BY <2>3 DEF m
<1>4. \A a, b \in Int : Min({a, b}) = IF a <= b THEN a ELSE b
  <2> TAKE a, b \in Int
  <2> DEFINE m == IF a <= b THEN a ELSE b
  <2>1. m \in {a, b} /\ \A y \in {a, b} : m <= y
    OBVIOUS
  <2>2. \A x \in {a, b} : (\A y \in {a, b} : x <= y) => x = m
    OBVIOUS
  <2> HIDE DEF m
  <2>3. Min({a, b}) = m
    BY <2>1, <2>2 DEF Min
  <2> QED BY <2>3 DEF m
<1> DEFINE high == Max({number, low})
<1>5. high = IF number >= low THEN number ELSE low
  BY <1>2, <1>3
<1> HIDE DEF high
<1>6. Min({high, IntMax}) = IF high <= IntMax THEN high ELSE IntMax
  BY <1>1, <1>2, <1>4, <1>5
<1>7. parse_number(number) = IF number >= IntMax THEN IntMax
                             ELSE IF number <= low THEN low ELSE number
  <2>1. /\ number >= IntMax => ~(number <= low)
        /\ parse_number(number) = CASE number >= IntMax -> IntMax
                                    [] number <= low -> low
                                    [] OTHER -> number
    BY <1>1, <1>2 DEF parse_number, low
  <2>2. CASE number >= IntMax
    BY <2>1, <2>2
  <2>3. CASE ~(number >= IntMax) /\ number <= low
    BY <2>1, <2>3
  <2>4. CASE ~(number >= IntMax) /\ ~(number <= low)
    BY <2>1, <2>4
  <2> QED BY <2>2, <2>3, <2>4
<1>8. Min({high, IntMax}) = parse_number(number)
  BY <1>1, <1>2, <1>5, <1>6, <1>7
<1> QED BY <1>8 DEF high, low

\* A configuration that is alive says of every name what its text says last.
LEMMA Parsed ==
  ASSUME NEW t \in Seq(Member), parse_argument(t).alive = TRUE
  PROVE  /\ Len(t) <= ReadLimit /\ \A j \in DOMAIN t : ~Fatal(t[j])
         /\ \A name \in DOMAIN Words : parse_argument(t)[name] = Word(t, name)
         /\ \A name \in Numbers : parse_argument(t)[name] = Number(t, name)
         /\ \A path \in Paths : path \in parse_argument(t).given <=> Given(t, path) # {}
<1> DEFINE c == parse_argument(t)
<1> DEFINE len == Len(t)
<1>1. Readable(t)
  <2>1. "alive" \in DOMAIN Defaults
    BY ConfNames
  <2>2. [Defaults EXCEPT !.alive = FALSE].alive = FALSE
    BY <2>1
  <2> QED BY <2>2 DEF parse_argument
<1>2. Shows(c, t, len) /\ c.alive = TRUE
  BY <1>1, AfterShows DEF parse_argument
<1>3. len \in Nat /\ DOMAIN t = 1..len
  OBVIOUS
<1> HIDE DEF c, len
<1>4. ASSUME NEW name \in Named
      PROVE  c[name] = IF Given(t, name) = {} THEN Defaults[name]
                       ELSE Given1(name, LastGiven(t, name))
  <2>1. CASE Given(t, name) = {}
    <3>1. \A j \in 1..len : t[j].name # name
      BY <1>3, <2>1 DEF Given
    <3> QED BY <1>2, <2>1, <3>1 DEF Shows
  <2>2. CASE Given(t, name) # {}
    <3>1. Given(t, name) \in SUBSET (0..len)
      BY <1>3 DEF Given
    <3>2. \E k \in Given(t, name) : \A j \in Given(t, name) : j <= k
      BY <1>3, <2>2, <3>1, HasGreatest
    <3>3. \E k \in Given(t, name) : \A j \in Given(t, name) : k >= j
      BY <1>3, <3>1, <3>2
    <3> DEFINE k == Max(Given(t, name))
    <3>4. k \in Given(t, name) /\ \A j \in Given(t, name) : k >= j
      BY <3>3 DEF Max
    <3> HIDE DEF k
    <3>5. k \in 1..len /\ t[k].name = name
      BY <1>3, <3>4 DEF Given
    <3>6. \A j \in (k + 1)..len : t[j].name # name
      <4> TAKE j \in (k + 1)..len
      <4>1. j \in 1..len /\ ~(k >= j)
        BY <1>3, <3>5
      <4>2. j \notin Given(t, name)
        BY <3>4, <4>1
      <4> QED BY <1>3, <4>1, <4>2 DEF Given
    <3>7. c[name] = Given1(name, t[k])
      BY <1>2, <3>5, <3>6 DEF Shows
    <3> QED BY <2>2, <3>7 DEF LastGiven, k
  <2> QED BY <2>1, <2>2
<1>5. ASSUME NEW name \in Named, Given(t, name) # {}
      PROVE  LastGiven(t, name).int \in Int
  <2>1. Given(t, name) \in SUBSET (0..len)
    BY <1>3 DEF Given
  <2>2. \E k \in Given(t, name) : \A j \in Given(t, name) : j <= k
    BY <1>3, <1>5, <2>1, HasGreatest
  <2>3. \E k \in Given(t, name) : \A j \in Given(t, name) : k >= j
    BY <1>3, <2>1, <2>2
  <2>4. Max(Given(t, name)) \in DOMAIN t
    BY <2>3 DEF Max, Given
  <2>5. LastGiven(t, name) \in Member
    BY <2>4 DEF LastGiven
  <2> QED BY <2>5 DEF Member
<1>6. \A name \in DOMAIN Words : c[name] = Word(t, name)
  BY <1>4 DEF Named, Given1, Word
<1>7. \A name \in Numbers : c[name] = Number(t, name)
  <2> TAKE name \in Numbers
  <2>1. name \in Named /\ name \notin DOMAIN Words
    BY ConfNames DEF Named
  <2>2. CASE Given(t, name) = {}
    BY <1>4, <2>1, <2>2 DEF Number
  <2>3. CASE Given(t, name) # {}
    <3>1. c[name] = parse_number(LastGiven(t, name).int)
      BY <1>4, <2>1, <2>3 DEF Given1
    <3>2. LastGiven(t, name).int \in Int
      BY <1>5, <2>1, <2>3
    <3> QED BY <2>3, <3>1, <3>2, NearestInt DEF Number
  <2> QED BY <2>2, <2>3
<1>8. Len(t) <= ReadLimit
  BY <1>1 DEF Readable
<1>9. \A j \in DOMAIN t : ~Fatal(t[j])
  BY <1>2, <1>3 DEF Shows
<1>10. \A path \in Paths : path \in c.given <=> Given(t, path) # {}
  BY <1>2, <1>3 DEF Shows, Given
<1> QED BY <1>6, <1>7, <1>8, <1>9, <1>10 DEF c

-------------------------------------------------------------------------------
\* What the runs do to the store.

\* An entry of acts and its text are as ActsAsTold wants them.
Told(act) ==
    LET t == act.text
        whole == Word(t, "ChunkingMethod") = "file"
        input == Given(t, "InputFile") # {}
    IN  /\ Len(t) <= ReadLimit /\ \A j \in DOMAIN t : ~Fatal(t[j])
        /\ act.what = IF ~whole \/ Word(t, "Task") # "write" THEN Word(t, "Task")
                      ELSE IF input THEN "file write" ELSE "empty file write"
        /\ act.what \in {"write", "write_pipeline"} => input
        /\ act.what \in {"restore", "delete"} =>
             act.arg = Number(t, IF ~whole THEN "RestoreVersion"
                                 ELSE IF act.what = "delete" THEN "DeleteId"
                                 ELSE "RestoreId")

\* A run that got beyond its parse has a text and its configuration.
Configured == pc # "idle" => text \in Texts /\ conf = parse_argument(text) /\ conf.alive = TRUE

Recorded == \E S : acts \in Seq(S)

ToldInv == Configured /\ Recorded /\ ActsAsTold

\* The fields of a configuration that tell a run what to do.
LEMMA ConfiguredFields ==
  ASSUME Configured, pc # "idle"
  PROVE  /\ text \in Seq(Member)
         /\ Len(text) <= ReadLimit /\ \A j \in DOMAIN text : ~Fatal(text[j])
         /\ conf.Task = Word(text, "Task")
         /\ conf.ChunkingMethod = Word(text, "ChunkingMethod")
         /\ conf.RestoreVersion = Number(text, "RestoreVersion")
         /\ conf.RestoreId = Number(text, "RestoreId")
         /\ conf.DeleteId = Number(text, "DeleteId")
         /\ "InputFile" \in conf.given <=> Given(text, "InputFile") # {}
<1>1. text \in Seq(Member) /\ conf = parse_argument(text) /\ conf.alive = TRUE
  BY ProgramAssumption DEF Configured
<1>2. /\ Len(text) <= ReadLimit /\ \A j \in DOMAIN text : ~Fatal(text[j])
      /\ \A name \in DOMAIN Words : conf[name] = Word(text, name)
      /\ \A name \in Numbers : conf[name] = Number(text, name)
      /\ \A path \in Paths : path \in conf.given <=> Given(text, path) # {}
  BY <1>1, Parsed
<1>3. /\ "Task" \in DOMAIN Words /\ "ChunkingMethod" \in DOMAIN Words
      /\ "RestoreVersion" \in Numbers /\ "RestoreId" \in Numbers /\ "DeleteId" \in Numbers
      /\ "InputFile" \in Paths
  BY ConfNames DEF Numbers, Paths
<1> QED BY <1>1, <1>2, <1>3

\* An entry that is as it should be leaves acts so.
LEMMA OneMoreAct ==
  ASSUME Recorded, ActsAsTold, NEW what, NEW arg, Act(what, arg),
         Told([text |-> text, what |-> what, arg |-> arg])
  PROVE  Recorded' /\ ActsAsTold'
<1> DEFINE act == [text |-> text, what |-> what, arg |-> arg]
<1>1. PICK S : acts \in Seq(S)
  BY DEF Recorded
<1>2. acts' = Append(acts, act) /\ Told(act)
  BY DEF Act
<1> HIDE DEF act
<1>3. acts \in Seq(S \cup {act})
  BY <1>1
<1>4. acts' \in Seq(S \cup {act})
  BY <1>2, <1>3
<1>5. \A i \in DOMAIN acts' : acts'[i] = act \/ (i \in DOMAIN acts /\ acts'[i] = acts[i])
  BY <1>2, <1>3
<1>6. \A i \in DOMAIN acts : Told(acts[i])
  BY DEF ActsAsTold, Told
<1>7. \A i \in DOMAIN acts' : Told(acts'[i])
  BY <1>2, <1>5, <1>6
<1> QED BY <1>4, <1>7 DEF Recorded, ActsAsTold, Told

LEMMA InitTold == Init => ToldInv
<1> SUFFICES ASSUME Init PROVE ToldInv
  OBVIOUS
<1>1. acts = <<>> /\ acts \in Seq({}) /\ DOMAIN acts = {}
  BY DEF Init
<1> QED BY <1>1 DEF Init, ToldInv, Configured, Recorded, ActsAsTold

LEMMA NextTold == ToldInv /\ [Next]_vars => ToldInv'
<1> SUFFICES ASSUME ToldInv, [Next]_vars PROVE ToldInv'
  OBVIOUS
<1>1. ASSUME UNCHANGED acts, pc' = "idle" \/ (UNCHANGED <<text, conf>> /\ pc # "idle")
      PROVE  ToldInv'
  BY <1>1 DEF ToldInv, Configured, Recorded, ActsAsTold
<1>2. ASSUME NEW what, NEW arg, Act(what, arg),
             Told([text |-> text, what |-> what, arg |-> arg]),
             pc' = "idle" \/ (UNCHANGED <<text, conf>> /\ pc # "idle")
      PROVE  ToldInv'
  <2>1. Recorded' /\ ActsAsTold'
    BY <1>2, OneMoreAct DEF ToldInv
  <2>2. Configured'
    BY <1>2 DEF ToldInv, Configured
  <2> QED BY <2>1, <2>2 DEF ToldInv
<1>3. UNCHANGED vars => ToldInv'
  BY DEF vars, ToldInv, Configured, Recorded, ActsAsTold
<1>4. ASSUME NEW t \in Texts, Start(t) PROVE ToldInv'
  <2>1. CASE parse_argument(t).alive
    BY <1>4, <2>1 DEF Start, ToldInv, Configured, Recorded, ActsAsTold
  <2>2. CASE ~parse_argument(t).alive
    BY <1>4, <2>2 DEF Start, ToldInv, Configured, Recorded, ActsAsTold
  <2> QED BY <2>1, <2>2
<1>5. Clear => ToldInv'
  BY DEF Clear, ToldInv, Configured, Recorded, ActsAsTold
<1>6. StatsFatal \/ Refuse \/ PipelineFails \/ DivisionByZero \/ Crash => ToldInv'
  BY <1>1 DEF StatsFatal, Refuse, PipelineFails, DivisionByZero, Crash, Dies, Exit
<1>7. \A size \in InputSizes : WriteFails(size) \/ MerkleFails(size) => ToldInv'
  BY <1>1 DEF WriteFails, MerkleFails, Dies, Exit
<1>8. ParseStats \/ Dispatch \/ Truncate \/ Rewrite => ToldInv'
  BY <1>1 DEF ParseStats, Dispatch, Truncate, Rewrite, Exit
<1>9. \A unique \in InputSizes, lz4 \in Lz4Sizes : Report(unique, lz4) => ToldInv'
  BY <1>1 DEF Report
<1>10. ASSUME FullFileTask PROVE ToldInv'
  <2>1. pc = "work" /\ conf.ChunkingMethod = "file" /\ pc' = "idle"
    BY <1>10 DEF FullFileTask, Exit
  <2>2. CASE "fullFileStoragePath" \notin conf.given \/ conf.Task = "write_pipeline"
    <3>1. UNCHANGED acts
      BY <1>10, <2>2 DEF FullFileTask
    <3> QED BY <1>1, <2>1, <3>1
  <2>3. CASE "fullFileStoragePath" \in conf.given /\ conf.Task = "write"
    <3> DEFINE what == IF "InputFile" \in conf.given THEN "file write" ELSE "empty file write"
    <3>1. Act(what, 0)
      BY <1>10, <2>3 DEF FullFileTask
    <3>2. Told([text |-> text, what |-> what, arg |-> 0])
      BY <2>1, <2>3, ConfiguredFields DEF ToldInv, Told
    <3> QED BY <1>2, <2>1, <3>1, <3>2
  <2>4. CASE /\ "fullFileStoragePath" \in conf.given
             /\ conf.Task # "write" /\ conf.Task # "write_pipeline"
    <3>1. Act(conf.Task, FileId)
      BY <1>10, <2>4 DEF FullFileTask
    <3>2. Told([text |-> text, what |-> conf.Task, arg |-> FileId])
      BY <2>1, <2>4, ConfiguredFields DEF ToldInv, Told, FileId
    <3> QED BY <1>2, <2>1, <3>1, <3>2
  <2> QED BY <2>2, <2>3, <2>4
<1>11. ASSUME VersionTask PROVE ToldInv'
  <2>1. /\ pc = "work" /\ conf.ChunkingMethod # "file" /\ pc' = "idle"
        /\ conf.Task \in {"restore", "delete"}
        /\ Act(conf.Task, conf.RestoreVersion)
    BY <1>11 DEF VersionTask, Chunked, Exit
  <2>2. Told([text |-> text, what |-> conf.Task, arg |-> conf.RestoreVersion])
    BY <2>1, ConfiguredFields DEF ToldInv, Told
  <2> QED BY <1>2, <2>1, <2>2
<1>12. ASSUME NEW size \in InputSizes, WritePipeline(size) PROVE ToldInv'
  <2>1. /\ pc = "work" /\ conf.ChunkingMethod # "file" /\ conf.Task = "write_pipeline"
        /\ pc' = "idle" /\ Act("write_pipeline", size) /\ "InputFile" \in conf.given
    BY <1>12 DEF WritePipeline, Chunked, Exit
  <2>2. Told([text |-> text, what |-> "write_pipeline", arg |-> size])
    BY <2>1, ConfiguredFields DEF ToldInv, Told
  <2> QED BY <1>2, <2>1, <2>2
<1>13. ASSUME NEW size \in InputSizes, Write(size) PROVE ToldInv'
  <2>1. /\ pc = "work" /\ conf.ChunkingMethod # "file" /\ conf.Task = "write"
        /\ UNCHANGED <<text, conf>> /\ Act("write", size) /\ "InputFile" \in conf.given
    BY <1>13 DEF Write, Chunked
  <2>2. Told([text |-> text, what |-> "write", arg |-> size])
    BY <2>1, ConfiguredFields DEF ToldInv, Told
  <2> QED BY <1>2, <2>1, <2>2
<1> QED BY <1>3, <1>4, <1>5, <1>6, <1>7, <1>8, <1>9, <1>10, <1>11, <1>12, <1>13 DEF Next

\* Whatever a run does to the store its configuration told it to: the text was
\* read whole and held nothing fatal, the task is the last one named, and the
\* version or the id is the last one given, clamped to an int.  A write of
\* chunks has an input; a write of a whole file whose text names none is done
\* too, of an empty file (Config::parse_argument, the dispatch of main,
\* FullFileDeduplicater::writeFile).
THEOREM ActsAsToldHolds == Spec => []ActsAsTold
<1>1. ToldInv => ActsAsTold
  BY DEF ToldInv
<1> QED BY <1>1, InitTold, NextTold, PTL DEF Spec

-------------------------------------------------------------------------------
\* Counters that wrap around.

\* What div and mod are, for the steps below.
LEMMA DivMod ==
  ASSUME NEW a \in Int, NEW m \in Nat \ {0}
  PROVE  a = m * (a \div m) + (a % m) /\ a % m \in 0..(m - 1) /\ a \div m \in Int
OBVIOUS

\* The rest of a division is determined.
LEMMA SameRest ==
  ASSUME NEW m \in Nat \ {0}, NEW u \in Int, NEW v \in Int,
         NEW r \in 0..(m - 1), NEW s \in 0..(m - 1), m * u + r = m * v + s
  PROVE  r = s
<1>1. m * (u - v) = s - r /\ m * (v - u) = r - s
  OBVIOUS
<1>2. u - v >= 1 => m * (u - v) >= m
  OBVIOUS
<1>3. v - u >= 1 => m * (v - u) >= m
  OBVIOUS
<1>4. u = v => r = s
  OBVIOUS
<1> QED BY <1>1, <1>2, <1>3, <1>4

\* A sum that wraps around at every step wraps around as a whole.
LEMMA ToIntAdd ==
  ASSUME NEW x \in Int, NEW y \in Int
  PROVE  ToInt(ToInt(x) + y) = ToInt(x + y)
<1> DEFINE m == 2 * (IntMax + 1)
<1> DEFINE half == IntMax + 1
<1>1. m \in Nat \ {0} /\ half \in Nat
  BY IntAssumption
<1>2. ToInt(x) = ((x + half) % m) - half /\ ToInt(x + y) = ((x + y + half) % m) - half
  BY IntAssumption DEF ToInt
<1> DEFINE r == (x + half) % m
<1>3. ToInt(ToInt(x) + y) = ((r - half + y + half) % m) - half
  BY <1>2, IntAssumption DEF ToInt
<1> HIDE DEF m, half
<1> DEFINE q == (x + half) \div m
<1>4. x + half = m * q + r /\ r \in Int /\ q \in Int
  <2>1. x + half \in Int
    BY <1>1
  <2> QED BY <1>1, <2>1, DivMod
<1> HIDE DEF r, q
<1>5. r - half + y + half = r + y
  BY <1>1, <1>4
<1> DEFINE t == (r + y) % m
<1> DEFINE p == (r + y) \div m
<1>6. r + y = m * p + t /\ t \in 0..(m - 1) /\ p \in Int
  <2>1. r + y \in Int
    BY <1>4
  <2> QED BY <1>1, <2>1, DivMod
<1> DEFINE s == (x + y + half) % m
<1> DEFINE v == (x + y + half) \div m
<1>7. x + y + half = m * v + s /\ s \in 0..(m - 1) /\ v \in Int
  <2>1. x + y + half \in Int
    BY <1>1
  <2> QED BY <1>1, <2>1, DivMod
<1> HIDE DEF t, p, s, v
<1>8. m * (q + p) + t = m * v + s /\ q + p \in Int
  BY <1>1, <1>4, <1>6, <1>7
<1>9. t = s
  BY <1>1, <1>6, <1>7, <1>8, SameRest
<1> QED BY <1>2, <1>3, <1>5, <1>9 DEF t, s

\* What an int holds already stays as it is.
LEMMA ToIntSame ==
  ASSUME NEW x \in (-IntMax - 1)..IntMax
  PROVE  ToInt(x) = x
<1> DEFINE m == 2 * (IntMax + 1)
<1> DEFINE half == IntMax + 1
<1>1. m \in Nat \ {0} /\ x + half \in 0..(m - 1) /\ x \in Int /\ half \in Int
  BY IntAssumption
<1>2. ToInt(x) = ((x + half) % m) - half
  BY IntAssumption DEF ToInt
<1> HIDE DEF m, half
<1> DEFINE y == x + half
<1>3. y = m * (y \div m) + (y % m) /\ y % m \in 0..(m - 1) /\ y \div m \in Int
  BY <1>1, DivMod
<1>4. y = m * 0 + y
  BY <1>1
<1>5. y % m = y
  BY <1>1, <1>3, <1>4, SameRest
<1> QED BY <1>1, <1>2, <1>5

\* A counter is written and read back as it was.
LEMMA ParsedCounter ==
  ASSUME NEW x \in Int
  PROVE  parse_number(ToInt(x)) = ToInt(x)
<1> DEFINE m == 2 * (IntMax + 1)
<1> DEFINE half == IntMax + 1
<1>1. m \in Nat \ {0} /\ half \in Nat /\ m = 2 * half /\ IntMax = half - 1 /\ -IntMax - 1 = -half
  BY IntAssumption
<1>2. ToInt(x) = ((x + half) % m) - half
  BY IntAssumption DEF ToInt
<1> HIDE DEF m, half
<1>3. (x + half) % m \in 0..(m - 1)
  <2>1. x + half \in Int
    BY <1>1
  <2> QED BY <1>1, <2>1, DivMod
<1> DEFINE y == ToInt(x)
<1>4. y \in Int /\ -half <= y /\ y <= half - 1
  BY <1>1, <1>2, <1>3
<1> HIDE DEF y
<1>5. IntMax \in Int
  BY IntAssumption
<1>6. CASE y >= IntMax
  <2>1. y = IntMax /\ ~(y <= -IntMax - 1)
    BY <1>1, <1>4, <1>5, <1>6
  <2> QED BY <2>1, <1>6 DEF parse_number, y
<1>7. CASE ~(y >= IntMax) /\ y <= -IntMax - 1
  <2>1. y = -IntMax - 1
    BY <1>1, <1>4, <1>5, <1>7
  <2> QED BY <2>1, <1>7 DEF parse_number, y
<1>8. CASE ~(y >= IntMax) /\ ~(y <= -IntMax - 1)
  BY <1>8 DEF parse_number, y
<1> QED BY <1>6, <1>7, <1>8

\* What a write adds to its counter.
LEMMA UpdatedSize ==
  ASSUME NEW g, NEW v \in Int, g.size = ToInt(v), NEW size \in Nat, NEW u, NEW c
  PROVE  /\ update_kb(g, size, u, c).size = ToInt(v + (size \div Kb))
         /\ "size" \in DOMAIN update_kb(g, size, u, c)
         /\ size \div Kb \in Int
<1> DEFINE kb == size \div Kb
<1>1. kb \in Int
  BY StatAssumption
<1>2. update_kb(g, size, u, c).size = ToInt(ToInt(v) + ToInt(kb))
      /\ "size" \in DOMAIN update_kb(g, size, u, c)
  BY DEF update_kb, InKb
<1> HIDE DEF kb
<1>3. ToInt(v) \in Int /\ ToInt(kb) \in Int
  BY <1>1, IntAssumption DEF ToInt
<1>4. ToInt(ToInt(v) + ToInt(kb)) = ToInt(v + ToInt(kb))
  BY <1>3, ToIntAdd
<1>5. v + ToInt(kb) = ToInt(kb) + v /\ kb + v = v + kb
  BY <1>1, <1>3
<1>6. ToInt(ToInt(kb) + v) = ToInt(kb + v)
  BY <1>1, ToIntAdd
<1> QED BY <1>1, <1>2, <1>4, <1>5, <1>6 DEF kb

-------------------------------------------------------------------------------
\* The counters and what the runs did.

\* What an entry of acts adds to the sum.
Part(n) == IF n \in Counted THEN acts[n].arg \div Kb ELSE 0

\* f is the sum of the first entries of acts, for every number of them.
Running(f) ==
    /\ f \in [0..Len(acts) -> Int]
    /\ f[0] = 0
    /\ \A n \in 1..Len(acts) : f[n] = f[n - 1] + Part(n)

SumsTo(v) == \E f : Running(f) /\ f[Len(acts)] = v

SizeIs(counters, v) ==
    "size" \in DOMAIN counters /\ counters.size = ToInt(base.size + v)

Counters == [{"size", "before", "after"} -> (-IntMax - 1)..IntMax]

\* The write that is in no counter yet is the last entry.
HistoryInv ==
    /\ Recorded /\ base \in Counters
    /\ lost \subseteq 1..Len(acts)
    /\ Uncounted => /\ Len(acts) > 0 /\ Len(acts) \notin lost
                    /\ acts[Len(acts)].what = "write" /\ acts[Len(acts)].arg \in Nat

\* The counters in memory are those of the file, and from the report on they
\* count the write of the run too.
CountersInv ==
    ENABLE_COMPRESSION =>
      \E v \in Int :
        /\ SumsTo(v)
        /\ stats # Empty => SizeIs(stats, v)
        /\ pc \in {"dispatch", "work", "report"} => SizeIs(gs, v)
        /\ pc \in {"save", "rewrite"} => SizeIs(gs, v + (acts[Len(acts)].arg \div Kb))

SumInv == HistoryInv /\ CountersInv

\* As the program is built the counters in memory are what the file held.
BuiltInv ==
    ~ENABLE_COMPRESSION =>
      /\ stats # Empty => stats = base
      /\ pc \in {"dispatch", "work", "report", "save", "rewrite"} => gs = base

LEMMA BaseSize == HistoryInv => base.size \in Int /\ \A v \in Int : base.size + v \in Int
<1> SUFFICES ASSUME HistoryInv PROVE base.size \in Int
  OBVIOUS
<1>1. base \in [{"size", "before", "after"} -> (-IntMax - 1)..IntMax]
  BY DEF HistoryInv, Counters
<1>2. base.size \in (-IntMax - 1)..IntMax
  BY <1>1
<1> QED BY <1>2, IntAssumption

LEMMA ZeroCounters == Zero \in Counters
<1>1. 0 \in (-IntMax - 1)..IntMax
  BY IntAssumption
<1> QED BY <1>1 DEF Zero, Counters

\* Counters that fit are read as they are.
LEMMA ParsedAsIs == ASSUME NEW c \in Counters PROVE parse_arguments(c) = c
<1>1. /\ DOMAIN c = {"size", "before", "after"} /\ c = [counter \in DOMAIN c |-> c[counter]]
      /\ \A counter \in DOMAIN c : c[counter] \in (-IntMax - 1)..IntMax
  BY DEF Counters
<1>2. ASSUME NEW n \in (-IntMax - 1)..IntMax PROVE parse_number(n) = n
  BY ParsedCounter, ToIntSame, IntAssumption
<1>3. \A counter \in DOMAIN c : parse_number(c[counter]) = c[counter]
  BY <1>1, <1>2
<1> QED BY <1>1, <1>3 DEF parse_arguments

\* Nothing has changed of what is summed up.
LEMMA SumStays ==
  ASSUME UNCHANGED acts, Counted' = Counted, NEW v, SumsTo(v)
  PROVE  SumsTo(v)'
BY DEF SumsTo, Running, Part

\* An entry more that is not counted.
LEMMA SumAppends ==
  ASSUME Recorded, NEW what, NEW arg, Act(what, arg), Counted' = Counted,
         Counted \subseteq 1..Len(acts), NEW v, SumsTo(v)
  PROVE  SumsTo(v)'
<1> DEFINE act == [text |-> text, what |-> what, arg |-> arg]
<1> DEFINE len == Len(acts)
<1>1. acts' = Append(acts, act)
  BY DEF Act
<1> HIDE DEF act
<1>2. PICK S : acts \in Seq(S)
  BY DEF Recorded
<1>3. /\ len \in Nat /\ Len(acts') = len + 1
      /\ \A n \in 1..len : acts'[n] = acts[n]
  BY <1>1, <1>2
<1>4. PICK f : Running(f) /\ f[len] = v
  BY DEF SumsTo
<1> HIDE DEF len
<1> DEFINE g == [n \in 0..(len + 1) |-> IF n <= len THEN f[n] ELSE v]
<1>5. f \in [0..len -> Int] /\ f[0] = 0
  BY <1>4 DEF Running, len
<1>6. v \in Int
  BY <1>3, <1>4, <1>5
<1>7. g \in [0..(len + 1) -> Int] /\ g[0] = 0 /\ g[len + 1] = v
  BY <1>3, <1>5, <1>6
<1>8. ASSUME NEW n \in 1..(len + 1) PROVE g[n] = g[n - 1] + Part(n)'
  <2>1. CASE n <= len
    <3>1. n \in 1..len /\ n \in 0..(len + 1) /\ n - 1 \in 0..(len + 1) /\ n - 1 <= len
      BY <1>3, <2>1
    <3>2. f[n] = f[n - 1] + Part(n)
      BY <1>4, <3>1 DEF Running, len
    <3>3. Part(n)' = Part(n)
      BY <1>3, <3>1 DEF Part
    <3> QED BY <2>1, <3>1, <3>2, <3>3
  <2>2. CASE n = len + 1
    <3>1. n \notin Counted' /\ Part(n)' = 0
      BY <1>3, <2>2 DEF Part, len
    <3>2. g[n - 1] = v
      <4>1. n - 1 = len /\ len \in 0..(len + 1)
        BY <1>3, <2>2
      <4> QED BY <1>3, <1>4, <4>1 DEF len
    <3> QED BY <1>6, <1>7, <2>2, <3>1, <3>2
  <2> QED BY <1>3, <2>1, <2>2
<1> HIDE DEF g
<1>9. \E gg : /\ gg \in [0..Len(acts') -> Int] /\ gg[0] = 0 /\ gg[Len(acts')] = v
             /\ \A n \in 1..Len(acts') : gg[n] = gg[n - 1] + Part(n)'
  BY <1>3, <1>7, <1>8
<1> QED BY <1>9 DEF SumsTo, Running

\* The last entry is counted from now on.
LEMMA SumGrows ==
  ASSUME Recorded, UNCHANGED acts, Len(acts) > 0, acts[Len(acts)].arg \in Nat,
         Counted' = Counted \cup {Len(acts)}, Len(acts) \notin Counted,
         NEW v \in Int, SumsTo(v)
  PROVE  SumsTo(v + (acts[Len(acts)].arg \div Kb))'
<1> DEFINE len == Len(acts)
<1> DEFINE kb == acts[len].arg \div Kb
<1>1. len \in Nat \ {0} /\ kb \in Int
  BY StatAssumption DEF Recorded
<1>2. PICK f : Running(f) /\ f[len] = v
  BY DEF SumsTo
<1>3. f \in [0..len -> Int] /\ f[0] = 0 /\ \A n \in 1..len : f[n] = f[n - 1] + Part(n)
  BY <1>2 DEF Running
<1>4. Part(len) = 0 /\ \A n \in 1..(len - 1) : Part(n)' = Part(n)
  BY <1>1 DEF Part
<1>5. \A n : n = len => Part(n)' = kb
  BY <1>1 DEF Part
<1>6. Len(acts)' = len /\ (v + kb)' = v + kb
  OBVIOUS
<1> HIDE DEF kb, len
<1> DEFINE g == [f EXCEPT ![len] = v + kb]
<1>7. g \in [0..len -> Int] /\ g[0] = 0 /\ g[len] = v + kb
  BY <1>1, <1>3
<1>8. ASSUME NEW n \in 1..len PROVE g[n] = g[n - 1] + Part(n)'
  <2>1. CASE n = len
    <3>1. f[len] = f[len - 1] + 0 /\ len - 1 \in 0..len /\ f[len - 1] \in Int
      BY <1>1, <1>3, <1>4
    <3>2. g[len - 1] = f[len - 1]
      BY <1>1, <1>3, <3>1
    <3> QED BY <1>2, <1>5, <1>7, <2>1, <3>1, <3>2
  <2>2. CASE n # len
    <3>1. n \in 1..(len - 1) /\ n \in 0..len /\ n - 1 \in 0..len /\ n - 1 # len
      BY <1>1, <2>2
    <3> QED BY <1>3, <1>4, <3>1
  <2> QED BY <2>1, <2>2
<1> HIDE DEF g
<1>9. \E gg : /\ gg \in [0..len -> Int] /\ gg[0] = 0 /\ gg[len] = v + kb
             /\ \A n \in 1..len : gg[n] = gg[n - 1] + Part(n)'
  BY <1>7, <1>8
<1>10. SumsTo(v + kb)'
  BY <1>6, <1>9 DEF SumsTo, Running
<1> QED BY <1>10 DEF kb, len

\* With nothing counted there is nothing to sum up.
LEMMA SumOfNone ==
  ASSUME Recorded, Counted = {}
  PROVE  SumsTo(0)
<1>1. Len(acts) \in Nat
  BY DEF Recorded
<1> DEFINE f == [n \in 0..Len(acts) |-> 0]
<1>2. Running(f) /\ f[Len(acts)] = 0
  BY <1>1 DEF Running, Part
<1> HIDE DEF f
<1> QED BY <1>2 DEF SumsTo

LEMMA InitSum == Init => SumInv
<1> SUFFICES ASSUME Init PROVE SumInv
  OBVIOUS
<1>1. /\ acts = <<>> /\ acts \in Seq({}) /\ DOMAIN acts = {} /\ lost = {} /\ pc = "idle"
      /\ base = stats /\ base \in Counters
  BY ProgramAssumption DEF Init, Counters
<1>2. HistoryInv
  BY <1>1 DEF HistoryInv, Recorded, Uncounted
<1>3. Counted = {}
  BY <1>1 DEF Counted, Uncounted
<1>4. SumsTo(0)
  BY <1>2, <1>3, SumOfNone DEF HistoryInv
<1>5. SizeIs(stats, 0)
  <2>1. "size" \in DOMAIN base /\ base.size \in (-IntMax - 1)..IntMax
    BY <1>1 DEF Counters
  <2>2. base.size + 0 = base.size /\ ToInt(base.size) = base.size
    BY <2>1, ToIntSame, IntAssumption
  <2> QED BY <1>1, <2>1, <2>2 DEF SizeIs
<1> QED BY <1>1, <1>2, <1>4, <1>5 DEF SumInv, CountersInv

\* Where acts stays, or gets an entry behind all that is counted.
LEMMA RecordedStays ==
  ASSUME Recorded, NEW what, NEW arg, Act(what, arg)
  PROVE  /\ Recorded' /\ Len(acts') = Len(acts) + 1 /\ Len(acts) \in Nat
         /\ acts'[Len(acts')] = [text |-> text, what |-> what, arg |-> arg]
         /\ \A n \in 1..Len(acts) : acts'[n] = acts[n]
         /\ DOMAIN acts = 1..Len(acts) /\ DOMAIN acts' = 1..Len(acts')
<1> DEFINE act == [text |-> text, what |-> what, arg |-> arg]
<1>1. PICK S : acts \in Seq(S)
  BY DEF Recorded
<1>2. acts' = Append(acts, act)
  BY DEF Act
<1> HIDE DEF act
<1>3. acts \in Seq(S \cup {act})
  BY <1>1
<1>4. acts' \in Seq(S \cup {act})
  BY <1>2, <1>3
<1> QED BY <1>2, <1>3, <1>4 DEF Recorded, act

\* A death: the write of the run, if it had one, is lost.
LEMMA SumAtDeath ==
  ASSUME SumInv, Dies, UNCHANGED <<stats, base>>
  PROVE  SumInv'
<1>1. /\ Recorded /\ base \in Counters /\ lost \subseteq 1..Len(acts)
      /\ acts' = acts /\ pc' = "idle" /\ ~Uncounted'
      /\ Uncounted => Len(acts) \in 1..Len(acts)
  BY DEF Dies, Exit, SumInv, HistoryInv, Recorded, Uncounted
<1>2. lost' = IF Uncounted THEN lost \cup {Len(acts)} ELSE lost
  BY DEF Dies
<1>3. HistoryInv'
  BY <1>1, <1>2 DEF HistoryInv, Recorded
<1>4. Counted' = Counted
  BY <1>1, <1>2 DEF Counted
<1>5. CountersInv'
  <2> SUFFICES ASSUME ENABLE_COMPRESSION PROVE CountersInv'
    BY DEF CountersInv
  <2>1. PICK v \in Int : SumsTo(v) /\ (stats # Empty => SizeIs(stats, v))
    BY DEF SumInv, CountersInv
  <2>2. SumsTo(v)'
    BY <1>1, <1>4, <2>1, SumStays
  <2> QED BY <1>1, <2>1, <2>2 DEF CountersInv, SizeIs
<1> QED BY <1>3, <1>5 DEF SumInv

\* A run ends with an entry that is not a serial write.
LEMMA SumOtherTask ==
  ASSUME SumInv, NEW what, NEW arg, Act(what, arg), what # "write",
         UNCHANGED <<stats, lost, base>>, ~Uncounted, pc' = "idle"
  PROVE  SumInv'
<1>1. Recorded /\ base \in Counters /\ lost \subseteq 1..Len(acts)
  BY DEF SumInv, HistoryInv
<1>2. /\ Recorded' /\ Len(acts') = Len(acts) + 1 /\ Len(acts) \in Nat
      /\ acts'[Len(acts')].what = what
      /\ \A n \in 1..Len(acts) : acts'[n] = acts[n]
      /\ DOMAIN acts = 1..Len(acts) /\ DOMAIN acts' = 1..Len(acts')
  <2> DEFINE act == [text |-> text, what |-> what, arg |-> arg]
  <2>1. act.what = what
    OBVIOUS
  <2>2. acts'[Len(acts')] = act
    BY <1>1, RecordedStays
  <2> HIDE DEF act
  <2> QED BY <1>1, <2>1, <2>2, RecordedStays
<1>3. ~Uncounted'
  BY DEF Uncounted
<1>4. HistoryInv'
  BY <1>1, <1>2, <1>3 DEF HistoryInv
<1>5. Counted' = Counted /\ Counted \subseteq 1..Len(acts)
  BY <1>2, <1>3 DEF Counted
<1>6. CountersInv'
  <2> SUFFICES ASSUME ENABLE_COMPRESSION PROVE CountersInv'
    BY DEF CountersInv
  <2>1. PICK v \in Int : SumsTo(v) /\ (stats # Empty => SizeIs(stats, v))
    BY DEF SumInv, CountersInv
  <2>2. SumsTo(v)'
    BY <1>1, <1>5, <2>1, SumAppends
  <2> QED BY <2>1, <2>2 DEF CountersInv, SizeIs
<1> QED BY <1>4, <1>6 DEF SumInv

\* Steps that neither the file nor acts notice, with the counters in memory at
\* the same value.
LEMMA SumUnnoticed ==
  ASSUME SumInv, UNCHANGED <<stats, acts, lost, base>>, Uncounted' = Uncounted,
         pc' \in {"dispatch", "work", "report"} =>
            pc \in {"dispatch", "work", "report"} /\ UNCHANGED gs,
         pc' \in {"save", "rewrite"} => pc \in {"save", "rewrite"} /\ UNCHANGED gs
  PROVE  SumInv'
<1>1. HistoryInv'
  BY DEF SumInv, HistoryInv, Recorded
<1>2. Counted' = Counted
  BY DEF Counted
<1>3. CountersInv'
  <2> SUFFICES ASSUME ENABLE_COMPRESSION PROVE CountersInv'
    BY DEF CountersInv
  <2>1. PICK v \in Int :
          /\ SumsTo(v)
          /\ stats # Empty => SizeIs(stats, v)
          /\ pc \in {"dispatch", "work", "report"} => SizeIs(gs, v)
          /\ pc \in {"save", "rewrite"} => SizeIs(gs, v + (acts[Len(acts)].arg \div Kb))
    BY DEF SumInv, CountersInv
  <2>2. SumsTo(v)'
    BY <1>2, <2>1, SumStays
  <2> QED BY <2>1, <2>2 DEF CountersInv, SizeIs
<1> QED BY <1>1, <1>3 DEF SumInv

LEMMA NextSum == SumInv /\ [Next]_vars => SumInv'
<1> SUFFICES ASSUME SumInv, [Next]_vars PROVE SumInv'
  OBVIOUS
<1>1. UNCHANGED vars => SumInv'
  BY SumUnnoticed DEF vars, Uncounted
<1>2. ASSUME NEW t \in Texts, Start(t) PROVE SumInv'
  BY <1>2, SumUnnoticed DEF Start, Uncounted
<1>3. StatsFatal \/ Refuse \/ PipelineFails \/ DivisionByZero \/ Crash => SumInv'
  BY SumAtDeath DEF StatsFatal, Refuse, PipelineFails, DivisionByZero, Crash, Dies
<1>4. \A size \in InputSizes : WriteFails(size) \/ MerkleFails(size) => SumInv'
  BY SumAtDeath DEF WriteFails, MerkleFails, Dies
<1>5. ASSUME Dispatch PROVE SumInv'
  BY <1>5, SumUnnoticed DEF Dispatch, Uncounted
<1>6. ASSUME FullFileTask PROVE SumInv'
  <2>1. pc = "work" /\ pc' = "idle" /\ ~Uncounted /\ UNCHANGED <<stats, lost, base>>
    BY <1>6 DEF FullFileTask, Exit, Uncounted
  <2>2. CASE UNCHANGED acts
    BY <2>1, <2>2, SumUnnoticed DEF Uncounted
  <2>3. CASE \E what : what # "write" /\ \E arg : Act(what, arg)
    BY <2>1, <2>3, SumOtherTask
  <2>4. UNCHANGED acts \/ Act("file write", 0) \/ Act("empty file write", 0)
          \/ (conf.Task # "write" /\ Act(conf.Task, FileId))
    BY <1>6 DEF FullFileTask
  <2> QED BY <2>2, <2>3, <2>4
<1>7. ASSUME VersionTask PROVE SumInv'
  <2>1. /\ pc = "work" /\ pc' = "idle" /\ ~Uncounted /\ UNCHANGED <<stats, lost, base>>
        /\ conf.Task # "write" /\ Act(conf.Task, conf.RestoreVersion)
    BY <1>7 DEF VersionTask, Chunked, Exit, Uncounted
  <2> QED BY <2>1, SumOtherTask
<1>8. ASSUME NEW size \in InputSizes, WritePipeline(size) PROVE SumInv'
  <2>1. /\ pc = "work" /\ pc' = "idle" /\ ~Uncounted /\ UNCHANGED <<stats, lost, base>>
        /\ Act("write_pipeline", size)
    BY <1>8 DEF WritePipeline, Chunked, Exit, Uncounted
  <2> QED BY <2>1, SumOtherTask
<1>9. ASSUME ParseStats PROVE SumInv'
  <2>1. /\ pc = "stats" /\ pc' = "dispatch" /\ stats # Empty /\ gs' = parse_arguments(stats)
        /\ UNCHANGED <<stats, acts, lost, base>> /\ Uncounted' = Uncounted
    BY <1>9 DEF ParseStats, CanParse, Uncounted
  <2>2. HistoryInv'
    BY <2>1 DEF SumInv, HistoryInv, Recorded
  <2>3. Counted' = Counted
    BY <2>1 DEF Counted
  <2>4. CountersInv'
    <3> SUFFICES ASSUME ENABLE_COMPRESSION PROVE CountersInv'
      BY DEF CountersInv
    <3>1. PICK v \in Int : SumsTo(v) /\ SizeIs(stats, v)
      BY <2>1 DEF SumInv, CountersInv
    <3>2. SumsTo(v)'
      BY <2>1, <2>3, <3>1, SumStays
    <3>3. SizeIs(gs', v)
      <4>1. "size" \in DOMAIN stats /\ stats.size = ToInt(base.size + v)
        BY <3>1 DEF SizeIs
      <4>2. "size" \in DOMAIN gs' /\ gs'.size = parse_number(stats.size)
        BY <2>1, <4>1 DEF parse_arguments
      <4>3. base.size + v \in Int
        BY BaseSize DEF SumInv
      <4> QED BY <4>1, <4>2, <4>3, ParsedCounter DEF SizeIs
    <3> QED BY <2>1, <3>1, <3>2, <3>3 DEF CountersInv, SizeIs
  <2> QED BY <2>2, <2>4 DEF SumInv
<1>10. ASSUME NEW size \in InputSizes, Write(size) PROVE SumInv'
  <2>1. /\ pc = "work" /\ pc' = "report" /\ ~Uncounted /\ Uncounted'
        /\ UNCHANGED <<stats, lost, base, gs>> /\ Act("write", size) /\ size \in Nat
    BY <1>10, ProgramAssumption DEF Write, Chunked, Uncounted
  <2>2. Recorded /\ base \in Counters /\ lost \subseteq 1..Len(acts)
    BY DEF SumInv, HistoryInv
  <2>3. /\ Recorded' /\ Len(acts') = Len(acts) + 1 /\ Len(acts) \in Nat
        /\ acts'[Len(acts')].what = "write" /\ acts'[Len(acts')].arg = size
        /\ \A n \in 1..Len(acts) : acts'[n] = acts[n]
        /\ DOMAIN acts = 1..Len(acts) /\ DOMAIN acts' = 1..Len(acts')
    <3> DEFINE act == [text |-> text, what |-> "write", arg |-> size]
    <3>1. act.what = "write" /\ act.arg = size
      OBVIOUS
    <3>2. acts'[Len(acts')] = act
      BY <2>1, <2>2, RecordedStays
    <3> HIDE DEF act
    <3> QED BY <2>1, <2>2, <3>1, <3>2, RecordedStays
  <2>4. HistoryInv'
    BY <2>1, <2>2, <2>3 DEF HistoryInv
  <2>5. Counted' = Counted /\ Counted \subseteq 1..Len(acts)
    BY <2>1, <2>3 DEF Counted
  <2>6. CountersInv'
    <3> SUFFICES ASSUME ENABLE_COMPRESSION PROVE CountersInv'
      BY DEF CountersInv
    <3>1. PICK v \in Int : SumsTo(v) /\ (stats # Empty => SizeIs(stats, v)) /\ SizeIs(gs, v)
      BY <2>1 DEF SumInv, CountersInv
    <3>2. SumsTo(v)'
      BY <2>1, <2>2, <2>5, <3>1, SumAppends
    <3> QED BY <2>1, <3>1, <3>2 DEF CountersInv, SizeIs
  <2> QED BY <2>4, <2>6 DEF SumInv
<1>11. ASSUME NEW unique \in InputSizes, NEW lz4 \in Lz4Sizes, Report(unique, lz4) PROVE SumInv'
  <2> DEFINE size == acts[Len(acts)].arg
  <2>1. /\ pc = "report" /\ pc' = "save" /\ Uncounted /\ Uncounted'
        /\ UNCHANGED <<stats, acts, lost, base>>
        /\ gs' = IF ENABLE_COMPRESSION
                 THEN update_kb(gs, size, unique, Compressed(unique, lz4)) ELSE gs
    BY <1>11 DEF Report, Uncounted
  <2>2. HistoryInv' /\ size \in Nat
    BY <2>1 DEF SumInv, HistoryInv, Recorded
  <2>3. Counted' = Counted
    BY <2>1 DEF Counted
  <2>4. CountersInv'
    <3> SUFFICES ASSUME ENABLE_COMPRESSION PROVE CountersInv'
      BY DEF CountersInv
    <3>1. PICK v \in Int : SumsTo(v) /\ (stats # Empty => SizeIs(stats, v)) /\ SizeIs(gs, v)
      BY <2>1 DEF SumInv, CountersInv
    <3>2. SumsTo(v)'
      BY <2>1, <2>3, <3>1, SumStays
    <3>3. SizeIs(gs', v + (size \div Kb))
      <4>1. base.size \in Int /\ base.size + v \in Int /\ gs.size = ToInt(base.size + v)
        BY <3>1, BaseSize DEF SumInv, SizeIs
      <4>2. /\ gs'.size = ToInt(base.size + v + (size \div Kb)) /\ "size" \in DOMAIN gs'
            /\ size \div Kb \in Int
        BY <2>1, <2>2, <4>1, UpdatedSize
      <4>3. base.size + v + (size \div Kb) = base.size + (v + (size \div Kb))
        BY <4>1, <4>2
      <4> QED BY <4>2, <4>3 DEF SizeIs
    <3> QED BY <2>1, <3>1, <3>2, <3>3 DEF CountersInv, SizeIs
  <2> QED BY <2>2, <2>4 DEF SumInv
<1>12. ASSUME Truncate PROVE SumInv'
  <2>1. /\ pc = "save" /\ pc' = "rewrite" /\ stats' = Empty /\ Uncounted /\ Uncounted'
        /\ UNCHANGED <<acts, lost, base, gs>>
    BY <1>12 DEF Truncate, Uncounted
  <2>2. HistoryInv'
    BY <2>1 DEF SumInv, HistoryInv, Recorded
  <2>3. Counted' = Counted
    BY <2>1 DEF Counted
  <2>4. CountersInv'
    <3> SUFFICES ASSUME ENABLE_COMPRESSION PROVE CountersInv'
      BY DEF CountersInv
    <3>1. PICK v \in Int : SumsTo(v) /\ SizeIs(gs, v + (acts[Len(acts)].arg \div Kb))
      BY <2>1 DEF SumInv, CountersInv
    <3>2. SumsTo(v)'
      BY <2>1, <2>3, <3>1, SumStays
    <3> QED BY <2>1, <3>1, <3>2 DEF CountersInv, SizeIs
  <2> QED BY <2>2, <2>4 DEF SumInv
<1>13. ASSUME Rewrite PROVE SumInv'
  <2>1. /\ pc = "rewrite" /\ pc' = "idle" /\ stats' = gs /\ Uncounted /\ ~Uncounted'
        /\ UNCHANGED <<acts, lost, base>>
    BY <1>13 DEF Rewrite, Exit, Uncounted
  <2>2. /\ HistoryInv' /\ Recorded /\ Len(acts) > 0 /\ Len(acts) \notin lost
        /\ acts[Len(acts)].what = "write" /\ acts[Len(acts)].arg \in Nat
    BY <2>1 DEF SumInv, HistoryInv, Recorded
  <2>3. Len(acts) \in DOMAIN acts
    BY <2>2 DEF Recorded
  <2>4. Counted' = Counted \cup {Len(acts)} /\ Len(acts) \notin Counted
    BY <2>1, <2>2, <2>3 DEF Counted
  <2>5. CountersInv'
    <3> SUFFICES ASSUME ENABLE_COMPRESSION PROVE CountersInv'
      BY DEF CountersInv
    <3> DEFINE kb == acts[Len(acts)].arg \div Kb
    <3>1. PICK v \in Int : SumsTo(v) /\ SizeIs(gs, v + kb)
      BY <2>1 DEF SumInv, CountersInv
    <3>2. SumsTo(v + kb)' /\ v + kb \in Int
      BY <2>1, <2>2, <2>4, <3>1, SumGrows, StatAssumption
    <3>3. SizeIs(stats', v + kb) /\ kb' = kb
      BY <2>1, <3>1 DEF SizeIs
    <3>4. \E w \in Int : SumsTo(w)' /\ SizeIs(stats', w)
      BY <3>2, <3>3
    <3> QED BY <2>1, <3>4 DEF CountersInv, SizeIs
  <2> QED BY <2>2, <2>5 DEF SumInv
<1>14. ASSUME Clear PROVE SumInv'
  <2>1. /\ pc = "idle" /\ pc' = "idle" /\ ~Uncounted /\ ~Uncounted'
        /\ stats' = (IF CanParse(stats) THEN Zero ELSE stats)
        /\ lost' = DOMAIN acts /\ base' = Zero /\ UNCHANGED acts
    BY <1>14 DEF Clear, Uncounted
  <2>2. Recorded /\ DOMAIN acts = 1..Len(acts)
    BY DEF SumInv, HistoryInv, Recorded
  <2>3. HistoryInv'
    BY <2>1, <2>2, ZeroCounters DEF HistoryInv, Recorded, Counters
  <2>4. SumsTo(0)'
    <3>1. Counted' = {}
      BY <2>1 DEF Counted
    <3>2. (Recorded /\ Counted = {} => SumsTo(0))'
      BY SumOfNone, PTL
    <3> QED BY <2>3, <3>1, <3>2 DEF HistoryInv
  <2>5. (stats # Empty => SizeIs(stats, 0))'
    <3>1. 0 + 0 = 0 /\ ToInt(0) = 0
      BY ToIntSame, IntAssumption
    <3>2. "size" \in DOMAIN Zero /\ Zero.size = 0
      BY DEF Zero
    <3> QED BY <2>1, <3>1, <3>2 DEF SizeIs, CanParse
  <2> QED BY <2>1, <2>3, <2>4, <2>5 DEF SumInv, CountersInv, SizeIs
<1> QED BY <1>1, <1>2, <1>3, <1>4, <1>5, <1>6, <1>7, <1>8, <1>9, <1>10, <1>11, <1>12,
           <1>13, <1>14 DEF Next

\* A running sum of all of acts is the sum that StatsAddUp defines.
LEMMA RunningTotal ==
  ASSUME Recorded, NEW f, Running(f)
  PROVE  LET total[n \in 0..Len(acts)] ==
               IF n = 0 THEN 0
               ELSE total[n - 1] + (IF n \in Counted THEN acts[n].arg \div Kb ELSE 0)
         IN  total[Len(acts)] = f[Len(acts)]
<1> DEFINE Step(g) == [n \in 0..Len(acts) |->
                        IF n = 0 THEN 0
                        ELSE g[n - 1] + (IF n \in Counted THEN acts[n].arg \div Kb ELSE 0)]
<1> DEFINE total == CHOOSE g : g = Step(g)
<1> DEFINE len == Len(acts)
<1>1. len \in Nat
  BY DEF Recorded
<1>2. /\ f \in [0..len -> Int] /\ f[0] = 0
      /\ \A n \in 1..len : f[n] = f[n - 1] + (IF n \in Counted THEN acts[n].arg \div Kb ELSE 0)
  BY DEF Running, Part
<1>3. f = Step(f)
  <2>1. \A n \in 0..len : n # 0 => n \in 1..len
    BY <1>1
  <2>2. f = [n \in 0..len |-> f[n]]
    BY <1>2
  <2>3. \A n \in 0..len :
          f[n] = IF n = 0 THEN 0
                 ELSE f[n - 1] + (IF n \in Counted THEN acts[n].arg \div Kb ELSE 0)
    BY <1>2, <2>1
  <2> QED BY <2>2, <2>3
<1>4. total = Step(total)
  <2> HIDE DEF Step
  <2> QED BY <1>3
<1>5. \A n \in 0..len : total[n] = f[n]
  <2> HIDE DEF total
  <2> DEFINE Same == {n \in Nat : n <= len => total[n] = f[n]}
  <2>1. 0 \in Same
    <3>1. 0 \in 0..len
      BY <1>1
    <3>2. total[0] = 0
      BY <1>4, <3>1
    <3> QED BY <1>2, <3>2
  <2>2. ASSUME NEW n \in 0..len, n \in Same PROVE n + 1 \in Same
    <3> SUFFICES ASSUME n + 1 <= len PROVE total[n + 1] = f[n + 1]
      BY <1>1
    <3>1. n + 1 \in 0..len /\ n + 1 \in 1..len /\ n + 1 # 0 /\ (n + 1) - 1 = n
      BY <1>1
    <3>2. total[n + 1] = total[n]
            + (IF n + 1 \in Counted THEN acts[n + 1].arg \div Kb ELSE 0)
      BY <1>4, <3>1
    <3>3. total[n] = f[n]
      BY <1>1, <2>2
    <3> QED BY <1>2, <3>1, <3>2, <3>3
  <2>3. \A n \in 0..(len + 1) : n \in Same
    <3> HIDE DEF Same, len
    <3> QED BY <1>1, <2>1, <2>2, Reached
  <2> QED BY <1>1, <2>3
<1>6. total[Len(acts)] = f[Len(acts)]
  <2> HIDE DEF total
  <2> QED BY <1>1, <1>5
<1> QED BY <1>6

LEMMA InitBuilt == Init => BuiltInv
BY DEF Init, BuiltInv

LEMMA NextBuilt == HistoryInv /\ BuiltInv /\ [Next]_vars => BuiltInv'
<1> SUFFICES ASSUME HistoryInv, BuiltInv, [Next]_vars, ~ENABLE_COMPRESSION PROVE BuiltInv'
  BY DEF BuiltInv
<1>1. ASSUME UNCHANGED <<stats, base>>, pc' \in {"idle", "stats"} PROVE BuiltInv'
  BY <1>1 DEF BuiltInv
<1>2. ASSUME UNCHANGED <<stats, base, gs>>,
             pc \in {"dispatch", "work", "report", "save", "rewrite"} \/ UNCHANGED pc
      PROVE  BuiltInv'
  BY <1>2 DEF BuiltInv
<1>3. UNCHANGED vars => BuiltInv'
  BY <1>2 DEF vars
<1>4. ASSUME NEW t \in Texts, Start(t) PROVE BuiltInv'
  <2>1. CASE parse_argument(t).alive
    BY <1>1, <1>4, <2>1 DEF Start
  <2>2. CASE ~parse_argument(t).alive
    BY <1>2, <1>4, <2>2 DEF Start
  <2> QED BY <2>1, <2>2
<1>5. ParseStats => BuiltInv'
  BY ParsedAsIs DEF ParseStats, CanParse, HistoryInv, BuiltInv
<1>6. StatsFatal \/ Refuse \/ PipelineFails \/ DivisionByZero \/ Crash => BuiltInv'
  BY <1>1 DEF StatsFatal, Refuse, PipelineFails, DivisionByZero, Crash, Dies, Exit
<1>7. \A size \in InputSizes :
        WriteFails(size) \/ MerkleFails(size) \/ WritePipeline(size) => BuiltInv'
  BY <1>1 DEF WriteFails, MerkleFails, WritePipeline, Dies, Exit
<1>8. FullFileTask \/ VersionTask => BuiltInv'
  BY <1>1 DEF FullFileTask, VersionTask, Exit
<1>9. Dispatch => BuiltInv'
  BY <1>2 DEF Dispatch
<1>10. \A size \in InputSizes : Write(size) => BuiltInv'
  BY <1>2 DEF Write, Chunked
<1>11. \A unique \in InputSizes, lz4 \in Lz4Sizes : Report(unique, lz4) => BuiltInv'
  BY <1>2 DEF Report
<1>12. Truncate => BuiltInv'
  BY DEF Truncate, BuiltInv
<1>13. Rewrite => BuiltInv'
  BY DEF Rewrite, Exit, BuiltInv
<1>14. Clear => BuiltInv'
  BY DEF Clear, CanParse, BuiltInv
<1> QED BY <1>3, <1>4, <1>5, <1>6, <1>7, <1>8, <1>9, <1>10, <1>11, <1>12, <1>13, <1>14 DEF Next

\* Through any number of runs of any kind, in either build: as the program is
\* built the file of counters holds what it held at the beginning, or zeros
\* since it was cleared, or nothing after a death in its rewrite; with
\* ENABLE_COMPRESSION its size is, modulo the width of an int, that number plus
\* the kilobytes of the serial writes since, but for those that died before
\* their save (update_kb, parse_arguments, save_arguments, the report in main).
THEOREM StatsAddUpHolds == Spec => []StatsAddUp
<1>1. ASSUME SumInv, BuiltInv PROVE StatsAddUp
  <2> SUFFICES ASSUME stats # Empty PROVE StatsAddUp
    BY DEF StatsAddUp
  <2>1. CASE ~ENABLE_COMPRESSION
    BY <1>1, <2>1 DEF BuiltInv, StatsAddUp
  <2>2. CASE ENABLE_COMPRESSION
    <3>1. PICK v \in Int : SumsTo(v) /\ SizeIs(stats, v)
      BY <1>1, <2>2 DEF SumInv, CountersInv
    <3>2. PICK f : Running(f) /\ f[Len(acts)] = v
      BY <3>1 DEF SumsTo
    <3>3. LET total[n \in 0..Len(acts)] ==
                IF n = 0 THEN 0
                ELSE total[n - 1] + (IF n \in Counted THEN acts[n].arg \div Kb ELSE 0)
          IN  total[Len(acts)] = v
      BY <1>1, <3>2, RunningTotal DEF SumInv, HistoryInv
    <3> QED BY <2>2, <3>1, <3>3 DEF StatsAddUp, SizeIs
  <2> QED BY <2>1, <2>2
<1>2. SumInv /\ BuiltInv /\ [Next]_vars => (SumInv /\ BuiltInv)'
  BY NextSum, NextBuilt DEF SumInv
<1> QED BY <1>1, <1>2, InitSum, InitBuilt, PTL DEF Spec
=============================================================================
