----------------------------- MODULE ExcelProofs -----------------------------
(***************************************************************************)
(* Repeatable is an inductive invariant of ExcelImport, hence imports can  *)
(* be repeated, whatever number of threads import, scan and delete         *)
(* whatever files and datasources.                                         *)
(***************************************************************************)
EXTENDS ExcelImport, FiniteSetTheorems, TLAPS

-----------------------------------------------------------------------------
(* Datasources and their versions *)

\* A datasource that is there has a row.
LEMMA ExistingRow ==
    ASSUME ExcelTypeOK, NEW d \in Datasources
    PROVE  /\ Exists(d) => source[d] \in Row
           /\ d # None
           /\ Exists(d) <=> source[d] \notin {None, Gone}
BY FilesAssumption DEF ExcelTypeOK, Exists

\* The next version of a datasource follows all of its versions (_next_version()).
LEMMA NextVersionFollows ==
    ASSUME ExcelTypeOK, NEW d \in Datasources, RowSound(d)
    PROVE  /\ NextVersion(d) \in 1..(MaxVersion + 1)
           /\ Exists(d) => 1..(NextVersion(d) - 1) \subseteq source[d].versions
<1>. DEFINE taken == IF Exists(d) THEN source[d].versions ELSE {}
            Follows(v) == v - 1 \in taken \cup {0} /\ \A u \in taken : u < v
<1>1. PICK k \in Versions : taken = 1..k
  <2>1. CASE Exists(d)
    BY <2>1 DEF RowSound
  <2>2. CASE ~Exists(d)
    <3>1. 0 \in Versions /\ 1..0 = {}
      BY BoundsAssumption DEF Versions
    <3>. QED  BY <2>2, <3>1
  <2>. QED  BY <2>1, <2>2
<1>2. k \in Nat /\ k <= MaxVersion /\ MaxVersion \in Nat
  BY BoundsAssumption DEF Versions
<1>. HIDE DEF taken
<1>3. k + 1 \in 1..(MaxVersion + 1) /\ Follows(k + 1)
  BY <1>1, <1>2
<1>4. NextVersion(d) = CHOOSE v \in 1..(MaxVersion + 1) : Follows(v)
  BY DEF NextVersion, taken
<1>5. NextVersion(d) \in 1..(MaxVersion + 1) /\ Follows(NextVersion(d))
  <2>. HIDE DEF Follows
  <2>. QED  BY <1>3, <1>4
<1>6. NextVersion(d) - 1 \in 0..k
  BY <1>1, <1>2, <1>5
<1>7. 1..(NextVersion(d) - 1) \subseteq taken
  BY <1>1, <1>2, <1>5, <1>6
<1>. QED  BY <1>5, <1>7 DEF taken

\* At most one datasource is at most one.
LEMMA AtMostOne ==
    ASSUME NEW S, \A d, e \in S : d = e
    PROVE  Cardinality(S) <= 1
<1>1. CASE S = {}
  <2>1. Cardinality(S) = 0
    BY <1>1, FS_EmptySet
  <2>. QED  BY <2>1
<1>2. CASE S # {}
  <2>1. PICK d : S = {d}
    BY <1>2
  <2>2. Cardinality(S) = 1
    BY <2>1, FS_Singleton
  <2>. QED  BY <2>2
<1>. QED  BY <1>1, <1>2

-----------------------------------------------------------------------------
(* Steps of a call *)

\* What a step may do to the stores behind the other calls' backs: files and databases stay,
\* a datasource keeps its file and its versions until it is deleted, and is not created again.
Grows ==
    /\ disk' \in [Files -> Directory]
    /\ source' \in [Datasources -> Row \cup {None, Gone}]
    /\ \A f \in Files : /\ disk[f].source => disk'[f].source
                        /\ disk[f].sqlite > 0 => disk'[f].sqlite > 0
    /\ \A d \in Datasources :
        /\ source[d] = Gone => source'[d] = Gone
        /\ Exists(d) => \/ source'[d] = Gone
                        \/ /\ source'[d] \in Row
                           /\ source'[d].file = source[d].file
                           /\ source[d].versions \subseteq source'[d].versions

\* What another call has seen is so, unless two did the same.
KeepsSight(t) ==
    \A u \in Threads \ {t} : \A f \in Files \ doubled' :
        call[u].file = f =>
            /\ call[u].pc = "materialize" => disk'[f].sqlite = disk[f].sqlite
            /\ call[u].pc = "create" => ReadBy(f)' \subseteq ReadBy(f)

\* Nothing is done behind a clean call's back.
LEMMA NobodyIsClean ==
    ASSUME Repeatable, NEW t \in Threads, call[t].pc # "idle", NEW u \in Threads, u # t
    PROVE  ~call[u].clean
BY DEF Repeatable, CleanIsAlone

\* What another call holds, it holds after the step.
LEMMA OthersHold ==
    ASSUME Repeatable, NEW t \in Threads, Grows, doubled \subseteq doubled', KeepsSight(t),
           NEW u \in Threads, u # t, call'[u] = call[u]
    PROVE  CallHolds(call[u])'
<1>0. PICK c : c = call[u]
  OBVIOUS
<1>1. CallSound(c) /\ CallHolds(c) /\ ExcelTypeOK
  BY <1>0 DEF Repeatable
<1>2. call'[u] = c /\ call[u] = c
  BY <1>0
<1>3. c.pc \in Sourced => c.source \in Datasources
  BY <1>1 DEF CallSound
<1>4. c.pc \in Owned => c.pc \in Sourced
  BY DEF Owned, Sourced
<1>5. \A d \in Datasources :
        /\ source[d] # None => source'[d] # None
        /\ Exists(d)' => source[d] = None \/ (Exists(d) /\ source[d].versions \subseteq source'[d].versions)
        /\ source[d] # None => source[d] = Gone \/ Exists(d)
  BY <1>1, ExistingRow, MarksAssumption DEF Grows, Exists
<1>6. c.op = "import" => c.file \in Files
  BY <1>1 DEF CallSound
<1>7. /\ c.pc \in Sourced => source'[c.source] # None
      /\ c.pc \in {"publish", "commit"} =>
            /\ c.version # 0
            /\ Exists(c.source)' => 1..(c.version - 1) \subseteq source'[c.source].versions
  <2>1. c.pc \in Sourced => source'[c.source] # None
    BY <1>1, <1>3, <1>5 DEF CallHolds
  <2>2. ASSUME c.pc \in {"publish", "commit"}, Exists(c.source)'
        PROVE  1..(c.version - 1) \subseteq source'[c.source].versions
    <3>1. c.pc \in Sourced
      BY <2>2 DEF Sourced, ScanStep
    <3>2. Exists(c.source) /\ source[c.source].versions \subseteq source'[c.source].versions
      BY <1>1, <1>3, <1>5, <2>2, <3>1 DEF CallHolds
    <3>. QED  BY <1>1, <2>2, <3>2 DEF CallHolds
  <2>. QED  BY <1>1, <2>1, <2>2 DEF CallHolds
<1>8. ASSUME c.op = "import"
      PROVE  /\ c.pc \in Kept => disk'[c.file].source
             /\ c.pc \in Written => disk'[c.file].sqlite > 0
  BY <1>1, <1>6, <1>8 DEF CallHolds, Grows
<1>9. ASSUME c.op = "import"
      PROVE  /\ c.pc \in Owned => source'[c.source] = Gone \/ source'[c.source].file = c.file
             /\ c.pc \in {"verify", "finish"} =>
                /\ c.version # 0
                /\ source'[c.source] = Gone \/ c.version \in source'[c.source].versions
  <2>1. {"verify", "finish"} \subseteq Owned
    BY DEF Owned
  <2>. QED  BY <1>1, <1>3, <1>4, <1>5, <1>9, <2>1 DEF CallHolds, Grows
<1>10. ASSUME c.op = "import", c.file \notin doubled'
       PROVE  /\ c.pc = "materialize" => disk'[c.file].sqlite = 0
              /\ c.pc = "create" => ReadBy(c.file)' = {}
  <2>1. c.file \in Files \ doubled' /\ c.file \notin doubled
    BY <1>6, <1>10
  <2>2. /\ c.pc = "materialize" => disk[c.file].sqlite = 0
        /\ c.pc = "create" => ReadBy(c.file) = {}
    BY <1>1, <1>10, <2>1 DEF CallHolds
  <2>3. /\ c.pc = "materialize" => disk'[c.file].sqlite = disk[c.file].sqlite
        /\ c.pc = "create" => ReadBy(c.file)' \subseteq ReadBy(c.file)
    BY <1>2, <2>1 DEF KeepsSight
  <2>. QED  BY <2>2, <2>3
<1>11. CallHolds(c)'
  BY <1>7, <1>8, <1>9, <1>10 DEF CallHolds
<1>. QED  BY <1>2, <1>11 DEF CallHolds

\* One call moves to c, and the stores change as they may.
LEMMA StoreStep ==
    ASSUME Repeatable, NEW t \in Threads, call[t].pc # "idle",
           NEW c, call' = [call EXCEPT ![t] = c],
           Grows, doubled \subseteq doubled', KeepsSight(t), UNCHANGED crashes,
           graph' \in [Datasources -> Versions],
           staged' \subseteq staged, c.op = "import" \/ c.op = call[t].op \/ t \notin staged',
           CallSound(c), CallHolds(c)', CleanCall(c)', c.clean => call[t].clean,
           \A d \in Datasources : RowSound(d)',
           ManifestsSound', WrittenOnce', ReadyIsComplete'
    PROVE  Repeatable'
<1>1. /\ ExcelTypeOK /\ crashes \in Nat /\ CleanIsAlone
      /\ \A u \in Threads : CallSound(call[u])
  BY DEF Repeatable
<1>2. \A u \in Threads : call'[u] = IF u = t THEN c ELSE call[u]
  BY <1>1 DEF ExcelTypeOK
<1>3. ExcelTypeOK' /\ crashes' \in Nat
  <2>1. call' \in [Threads -> Call]
    BY <1>1 DEF ExcelTypeOK, CallSound
  <2>2. crashes' = 0 => \A u \in staged' : call'[u].op = "import"
    <3>. SUFFICES ASSUME crashes' = 0, NEW u \in staged'  PROVE call'[u].op = "import"
      OBVIOUS
    <3>1. call[u].op = "import"
      BY <1>1 DEF ExcelTypeOK
    <3>2. CASE u = t
      BY <1>1, <1>2, <3>1, <3>2 DEF ExcelTypeOK
    <3>3. CASE u # t
      <4>1. call'[u] = call[u]
        BY <3>3 DEF ExcelTypeOK
      <4>. QED  BY <3>1, <4>1
    <3>. QED  BY <3>2, <3>3
  <2>. QED  BY <1>1, <2>1, <2>2 DEF ExcelTypeOK, Grows
<1>4. ASSUME NEW u \in Threads
      PROVE  CallSound(call[u])' /\ CallHolds(call[u])' /\ CleanCall(call[u])'
  <2>1. CASE u = t
    <3>1. call'[u] = c
      BY <1>2, <2>1
    <3>. QED  BY <3>1 DEF CallSound, CallHolds, CleanCall
  <2>2. CASE u # t
    <3>1. call'[u] = call[u]
      BY <1>2, <2>2
    <3>2. ~call[u].clean
      BY <2>2, NobodyIsClean
    <3>3. CallHolds(call[u])'
      BY <2>2, <3>1, OthersHold
    <3>4. CallSound(call[u])'
      BY <1>1, <3>1 DEF CallSound
    <3>5. CleanCall(call[u])'
      BY <3>1, <3>2 DEF CleanCall
    <3>. QED  BY <3>3, <3>4, <3>5
  <2>. QED  BY <2>1, <2>2
<1>5. CleanIsAlone'
  <2>. SUFFICES ASSUME NEW u \in Threads, NEW v \in Threads, call'[u].clean, u # v
                PROVE  call'[v].pc = "idle"
    BY DEF CleanIsAlone
  <2>1. u = t
    BY <1>2, NobodyIsClean
  <2>2. call[t].clean
    BY <1>2, <2>1
  <2>3. call'[v] = call[v]
    BY <1>2, <2>1
  <2>. QED  BY <1>1, <2>1, <2>2, <2>3 DEF CleanIsAlone
<1>. QED  BY <1>3, <1>4, <1>5 DEF Repeatable

\* One call moves to c, and of the stores only the graph may change.
LEMMA GraphStep ==
    ASSUME Repeatable, NEW t \in Threads, call[t].pc # "idle",
           NEW c, call' = [call EXCEPT ![t] = c],
           UNCHANGED <<disk, source, crashes>>, graph' \in [Datasources -> Versions],
           doubled \subseteq doubled',
           staged' \subseteq staged, c.op = "import" \/ c.op = call[t].op \/ t \notin staged',
           CallSound(c), CallHolds(c)', CleanCall(c)', c.clean => call[t].clean
    PROVE  Repeatable'
<1>1. ExcelTypeOK /\ ManifestsSound /\ WrittenOnce /\ ReadyIsComplete
      /\ \A d \in Datasources : RowSound(d)
  BY DEF Repeatable
<1>2. Grows
  <2>1. disk' \in [Files -> Directory] /\ source' \in [Datasources -> Row \cup {None, Gone}]
    BY <1>1 DEF ExcelTypeOK
  <2>2. \A d \in Datasources : Exists(d) => source'[d] \in Row
    BY <1>1, ExistingRow
  <2>. QED  BY <2>1, <2>2 DEF Grows
<1>3. KeepsSight(t)
  BY DEF KeepsSight, ReadBy, Exists
<1>4. /\ \A d \in Datasources : RowSound(d)'
      /\ ManifestsSound' /\ WrittenOnce'
  BY <1>1 DEF RowSound, Exists, ManifestsSound, WrittenOnce, ReadBy
<1>5. ReadyIsComplete'
  BY <1>1 DEF ReadyIsComplete, ReadBy, Exists
<1>. QED  BY <1>2, <1>3, <1>4, <1>5, StoreStep

\* One call moves to c, and the stores stay.
LEMMA QuietStep ==
    ASSUME Repeatable, NEW t \in Threads, call[t].pc # "idle",
           NEW c, call' = [call EXCEPT ![t] = c],
           UNCHANGED <<disk, source, graph, crashes>>, doubled \subseteq doubled',
           staged' \subseteq staged, c.op = "import" \/ c.op = call[t].op \/ t \notin staged',
           CallSound(c), CallHolds(c)', CleanCall(c), c.clean => call[t].clean
    PROVE  Repeatable'
<1>1. CleanCall(c)'
  BY DEF CleanCall, Torn, Active, ReadBy, Exists
<1>2. graph' \in [Datasources -> Versions]
  BY DEF Repeatable, ExcelTypeOK
<1>. QED  BY ZenonT(60), <1>1, <1>2, GraphStep

\* A call returns.
LEMMA ReturnStep ==
    ASSUME Repeatable, NEW t \in Threads, call[t].pc # "idle", Return(t),
           UNCHANGED <<disk, source, graph, crashes>>, doubled \subseteq doubled'
    PROVE  Repeatable'
<1>1. /\ call' = [call EXCEPT ![t] = Idle] /\ staged' = staged \ {t}
  BY DEF Return
<1>2. CallSound(Idle) /\ CleanCall(Idle) /\ ~Idle.clean /\ Idle.pc = "idle" /\ Idle.op = "none"
  BY BoundsAssumption
  DEF Idle, CallSound, CleanCall, Call, Versions, Sourced, ScanStep, ImportStep
<1>3. PICK c : c = Idle
  OBVIOUS
<1>4. CallHolds(c)'
  BY <1>2, <1>3 DEF CallHolds, Sourced, ScanStep
<1>. QED  BY <1>1, <1>2, <1>3, <1>4, QuietStep

\* One call moves to c, and nothing else happens.
LEMMA QuietMove ==
    ASSUME Repeatable, NEW t \in Threads, call[t].pc # "idle",
           NEW c, call' = [call EXCEPT ![t] = c],
           UNCHANGED <<disk, source, graph, staged, doubled, bounds>>,
           c.op = call[t].op, CallSound(c), CallHolds(c), CleanCall(c), c.clean => call[t].clean
    PROVE  Repeatable'
<1>1. CallHolds(c)'
  BY DEF CallHolds, ReadBy, Exists
<1>2. UNCHANGED crashes
  BY DEF bounds
<1>. QED  BY <1>1, <1>2, QuietStep

\* A call that goes on keeps its cleanness.
LEMMA Went ==
    ASSUME NEW t \in Threads, NEW pc, Goto(t, pc), call[t] \in Call
    PROVE  call[t].clean \in BOOLEAN
           /\ call' = [call EXCEPT ![t] = [call[t] EXCEPT !.pc = pc, !.clean = call[t].clean]]
BY DEF Goto, Call

\* A call that something did not work for holds nothing that matters any more.
LEMMA DisturbedStep ==
    ASSUME Repeatable, NEW t \in Threads, call[t].pc # "idle",
           NEW pc, pc = "refuse" \/ (pc = "fail" /\ call[t].op = "import"),
           Disturbed(t, pc), UNCHANGED <<disk, source, graph, staged, crashes>>,
           doubled \subseteq doubled'
    PROVE  Repeatable'
<1>1. PICK o : o = call[t]
  OBVIOUS
<1>2. CallSound(o) /\ o \in Call
  BY <1>1 DEF Repeatable, CallSound
<1>3. PICK c : c = [o EXCEPT !.pc = pc, !.clean = FALSE]
  OBVIOUS
<1>4. call' = [call EXCEPT ![t] = c]
  BY <1>1, <1>3 DEF Disturbed
<1>5. pc \in ImportStep \cup ScanStep \cup {"unpublish", "remove"} /\ FALSE \in BOOLEAN
  BY DEF ImportStep
<1>6. c \in Call /\ c.pc = pc /\ ~c.clean /\ c.op = o.op /\ c.file = o.file
  BY <1>2, <1>3, <1>5 DEF Call
<1>7. CallSound(c)
  BY <1>1, <1>2, <1>6 DEF CallSound, ImportStep, ScanStep, Sourced
<1>8. CallHolds(c)'
  BY <1>6 DEF CallHolds, Kept, Written, Owned, ScanStep, Sourced
<1>9. CleanCall(c)
  BY <1>6 DEF CleanCall
<1>. QED  BY <1>1, <1>4, <1>6, <1>7, <1>8, <1>9, QuietStep

\* A scan that did not work.
LEMMA FailsStep ==
    ASSUME Repeatable, NEW t \in Threads, call[t].pc # "idle", Fails(t),
           UNCHANGED <<disk, source, graph, crashes>>, doubled \subseteq doubled'
    PROVE  Repeatable'
<1>1. CASE call[t].op = "import"
  BY <1>1, DisturbedStep DEF Fails
<1>2. CASE call[t].op # "import"
  BY <1>2, ReturnStep DEF Fails
<1>. QED  BY <1>1, <1>2

-----------------------------------------------------------------------------
(* An import looks whether it was done before *)

LEMMA KeptByReadManifest ==
    ASSUME Repeatable, NEW t \in Threads, ReadManifest(t)
    PROVE  Repeatable'
<1>0. PICK o : o = call[t]
  OBVIOUS
<1>1. CallSound(o) /\ CallHolds(o) /\ CleanCall(o) /\ o \in Call
      /\ ExcelTypeOK /\ ManifestsSound /\ ReadyIsComplete
  BY <1>0 DEF Repeatable, CallSound
<1>2. o.pc = "reuse" /\ o.op = "import" /\ o.file \in Files
  BY <1>0, <1>1 DEF ReadManifest, At, CallSound, ImportStep
<1>3. PICK m : m = disk[o.file].manifest
  OBVIOUS
<1>4. m \in Manifest \cup {None}
  BY <1>1, <1>2, <1>3 DEF ExcelTypeOK, Directory
<1>5. CASE m # None /\ m.status = "READY" /\ disk[o.file].sqlite > 0
  <2>1. PICK c : c = [o EXCEPT !.pc = "confirm", !.source = m.source, !.version = m.version]
    OBVIOUS
  <2>2. call' = [call EXCEPT ![t] = c]
    BY <1>0, <1>3, <1>5, <2>1 DEF ReadManifest
  <2>3. m \in [status: {"READY"}, source: Datasources, version: Versions]
    BY <1>1, <1>2, <1>3, <1>4, <1>5 DEF ManifestsSound, Manifest
  <2>4. /\ c.pc = "confirm" /\ c.op = "import" /\ c.file = o.file /\ c.source = m.source
        /\ c.version = m.version /\ c.clean = o.clean /\ c.retry = o.retry
    BY <1>1, <1>2, <2>1 DEF Call
  <2>5. c \in Call
    BY <1>1, <2>1, <2>3 DEF Call, ImportStep
  <2>6. CallSound(c)
    BY <1>2, <2>3, <2>4, <2>5 DEF CallSound, ImportStep, ScanStep
  <2>7. source[c.source] # None
    <3>1. source[m.source] = Gone \/ m.source \in ReadBy(o.file)
      BY <1>1, <1>2, <1>3, <1>5 DEF ReadyIsComplete
    <3>. QED  BY <2>4, <3>1, MarksAssumption DEF ReadBy, Exists
  <2>8. CallHolds(c)
    BY <2>4, <2>7 DEF CallHolds, Kept, Written, Owned, ScanStep
  <2>9. CleanCall(c)
    <3>1. m = [status |-> "READY", source |-> m.source, version |-> m.version]
      BY <2>3
    <3>. QED  BY <1>1, <1>2, <1>3, <2>4, <3>1 DEF CleanCall
  <2>. QED  BY ZenonT(60), <1>0, <1>2, <2>2, <2>4, <2>6, <2>8, <2>9, QuietMove DEF ReadManifest
<1>6. CASE ~(m # None /\ m.status = "READY" /\ disk[o.file].sqlite > 0)
  <2>1. PICK c : c = [o EXCEPT !.pc = "previous"]
    OBVIOUS
  <2>2. call' = [call EXCEPT ![t] = c]
    BY <1>0, <1>3, <1>6, <2>1 DEF ReadManifest
  <2>4. /\ c.pc = "previous" /\ c.op = "import" /\ c.file = o.file /\ c.source = o.source
        /\ c.clean = o.clean
    BY <1>1, <1>2, <2>1 DEF Call
  <2>5. c \in Call
    BY <1>1, <2>1 DEF Call, ImportStep
  <2>6. CallSound(c)
    BY <1>2, <2>4, <2>5 DEF CallSound, ImportStep, ScanStep, Sourced
  <2>8. CallHolds(c)
    BY <2>4 DEF CallHolds, Kept, Written, Owned, ScanStep, Sourced
  <2>9. CleanCall(c)
    BY <1>1, <1>2, <2>4 DEF CleanCall
  <2>. QED  BY ZenonT(60), <1>0, <1>2, <2>2, <2>4, <2>6, <2>8, <2>9, QuietMove DEF ReadManifest
<1>. QED  BY <1>5, <1>6

LEMMA KeptByConfirm ==
    ASSUME Repeatable, NEW t \in Threads, Confirm(t)
    PROVE  Repeatable'
<1>0. PICK o : o = call[t]
  OBVIOUS
<1>1. CallSound(o) /\ CallHolds(o) /\ CleanCall(o) /\ o \in Call /\ ExcelTypeOK /\ ManifestsSound
  BY <1>0 DEF Repeatable, CallSound
<1>2. /\ o.pc = "confirm" /\ o.op = "import" /\ o.file \in Files
      /\ o.source \in Datasources /\ source[o.source] # None
  BY <1>0, <1>1 DEF Confirm, At, CallSound, CallHolds, ImportStep, Sourced
<1>3. CASE o.version = Active(o.source)
  <2>1. PICK c : c = [o EXCEPT !.pc = "recheck"]
    OBVIOUS
  <2>2. call' = [call EXCEPT ![t] = c]
    BY <1>0, <1>3, <2>1 DEF Confirm
  <2>4. /\ c.pc = "recheck" /\ c.op = "import" /\ c.file = o.file /\ c.source = o.source
        /\ c.version = o.version /\ c.clean = o.clean
    BY <1>1, <1>2, <2>1 DEF Call
  <2>5. c \in Call
    BY <1>1, <2>1 DEF Call, ImportStep
  <2>6. CallSound(c)
    BY <1>2, <2>4, <2>5 DEF CallSound, ImportStep, ScanStep, Sourced
  <2>8. CallHolds(c)
    BY <1>2, <2>4 DEF CallHolds, Kept, Written, Owned, ScanStep
  <2>9. CleanCall(c)
    <3>1. ASSUME o.clean PROVE graph[o.source] = o.version
      <4>1. ~Torn(o.file) /\ disk[o.file].manifest
                = [status |-> "READY", source |-> o.source, version |-> o.version]
        BY <1>1, <1>2, <3>1 DEF CleanCall
      <4>2. disk[o.file].manifest # None /\ o.version # 0
        BY <1>1, <1>2, <4>1, MarksAssumption DEF ManifestsSound, Manifest, Call
      <4>. QED  BY <1>3, <4>1, <4>2 DEF Torn
    <3>. QED  BY <1>1, <1>2, <2>4, <3>1 DEF CleanCall
  <2>. QED  BY ZenonT(60), <1>0, <1>2, <2>2, <2>4, <2>6, <2>8, <2>9, QuietMove DEF Confirm
<1>4. CASE o.version # Active(o.source)
  <2>1. PICK c : c = [o EXCEPT !.pc = "previous", !.source = None, !.version = 0]
    OBVIOUS
  <2>2. call' = [call EXCEPT ![t] = c]
    BY <1>0, <1>4, <2>1 DEF Confirm
  <2>4. c.pc = "previous" /\ c.op = "import" /\ c.file = o.file /\ c.clean = o.clean
    BY <1>1, <1>2, <2>1 DEF Call
  <2>5. c \in Call
    <3>1. 0 \in Versions
      BY BoundsAssumption DEF Versions
    <3>. QED  BY <1>1, <2>1, <3>1 DEF Call, ImportStep
  <2>6. CallSound(c)
    BY <1>2, <2>4, <2>5 DEF CallSound, ImportStep, ScanStep, Sourced
  <2>8. CallHolds(c)
    BY <2>4 DEF CallHolds, Kept, Written, Owned, ScanStep, Sourced
  <2>9. CleanCall(c)
    BY <1>1, <1>2, <2>4 DEF CleanCall
  <2>. QED  BY ZenonT(60), <1>0, <1>2, <2>2, <2>4, <2>6, <2>8, <2>9, QuietMove DEF Confirm
<1>. QED  BY <1>3, <1>4

LEMMA KeptByRecheck ==
    ASSUME Repeatable, NEW t \in Threads, Recheck(t)
    PROVE  Repeatable'
<1>0. PICK o : o = call[t]
  OBVIOUS
<1>1. CallSound(o) /\ CleanCall(o) /\ o \in Call
  BY <1>0 DEF Repeatable, CallSound
<1>2. o.pc = "recheck" /\ o.op = "import" /\ o.file \in Files
  BY <1>0, <1>1 DEF Recheck, At, CallSound, ImportStep
<1>3. CASE Return(t)
  BY <1>0, <1>2, <1>3, ReturnStep DEF Recheck, bounds
<1>4. ASSUME NEW b \in BOOLEAN, call' = [call EXCEPT ![t] = [o EXCEPT !.pc = "refuse", !.clean = b]],
             UNCHANGED staged, b => o.clean /\ graph[o.source] # o.version
      PROVE  Repeatable'
  <2>1. PICK c : c = [o EXCEPT !.pc = "refuse", !.clean = b]
    OBVIOUS
  <2>4. c.pc = "refuse" /\ c.op = "import" /\ c.file = o.file /\ c.clean = b
    BY <1>1, <1>2, <2>1 DEF Call
  <2>5. c \in Call
    BY <1>1, <2>1 DEF Call, ImportStep
  <2>6. CallSound(c)
    BY <1>2, <2>4, <2>5 DEF CallSound, ImportStep, ScanStep, Sourced
  <2>8. CallHolds(c)
    BY <2>4 DEF CallHolds, Kept, Written, Owned, ScanStep, Sourced
  <2>9. CleanCall(c)
    BY <1>1, <1>2, <1>4, <2>4 DEF CleanCall
  <2>. QED  BY <1>0, <1>2, <1>4, <2>1, <2>4, <2>6, <2>8, <2>9, QuietMove DEF Recheck
<1>5. CASE ~IsPublished(t) /\ Goto(t, "refuse") /\ UNCHANGED staged
  <2>1. call' = [call EXCEPT ![t] = [o EXCEPT !.pc = "refuse", !.clean = o.clean]] /\ o.clean \in BOOLEAN
    BY <1>0, <1>1, <1>5 DEF Goto, Call
  <2>. QED  BY <1>0, <1>4, <1>5, <2>1 DEF IsPublished
<1>6. CASE Disturbed(t, "refuse") /\ UNCHANGED staged
  <2>1. call' = [call EXCEPT ![t] = [o EXCEPT !.pc = "refuse", !.clean = FALSE]]
    BY <1>0, <1>1, <1>6 DEF Disturbed, Call
  <2>. QED  BY <1>4, <1>6, <2>1
<1>. QED  BY <1>3, <1>5, <1>6 DEF Recheck

LEMMA KeptByRefuse ==
    ASSUME Repeatable, NEW t \in Threads, Refuse(t)
    PROVE  Repeatable'
BY ReturnStep DEF Refuse, At, bounds

-----------------------------------------------------------------------------
(* The artifact *)

LEMMA KeptByReadPrevious ==
    ASSUME Repeatable, NEW t \in Threads, ReadPrevious(t)
    PROVE  Repeatable'
<1>0. PICK o : o = call[t]
  OBVIOUS
<1>1. CallSound(o) /\ CleanCall(o) /\ o \in Call
  BY <1>0 DEF Repeatable, CallSound
<1>2. o.pc = "previous" /\ o.op = "import" /\ o.file \in Files
  BY <1>0, <1>1 DEF ReadPrevious, At, CallSound, ImportStep
<1>3. PICK r \in BOOLEAN : r = (disk[o.file].manifest # None)
  OBVIOUS
<1>4. PICK c : c = [o EXCEPT !.pc = "save", !.retry = r]
  OBVIOUS
<1>5. call' = [call EXCEPT ![t] = c]
  BY <1>0, <1>3, <1>4 DEF ReadPrevious
<1>6. c.pc = "save" /\ c.op = "import" /\ c.file = o.file /\ c.clean = o.clean /\ c.retry = r
  BY <1>1, <1>2, <1>4 DEF Call
<1>7. c \in Call
  BY <1>1, <1>4 DEF Call, ImportStep
<1>8. CallSound(c)
  BY <1>2, <1>6, <1>7 DEF CallSound, ImportStep, ScanStep, Sourced
<1>9. CallHolds(c)
  BY <1>6 DEF CallHolds, Kept, Written, Owned, ScanStep, Sourced
<1>10. CleanCall(c)
  BY <1>1, <1>2, <1>3, <1>6 DEF CleanCall
<1>. QED  BY ZenonT(60), <1>0, <1>2, <1>5, <1>6, <1>8, <1>9, <1>10, QuietMove DEF ReadPrevious

LEMMA KeptByValidate ==
    ASSUME Repeatable, NEW t \in Threads, Validate(t)
    PROVE  Repeatable'
<1>0. PICK o : o = call[t]
  OBVIOUS
<1>1. CallSound(o) /\ CallHolds(o) /\ CleanCall(o) /\ o \in Call
  BY <1>0 DEF Repeatable, CallSound
<1>2. o.pc = "validate" /\ o.op = "import" /\ o.file \in Files
  BY <1>0, <1>1 DEF Validate, At, CallSound, ImportStep
<1>3. PICK pc \in {"finalized", "fail"} : pc = IF o.file \in Importable THEN "finalized" ELSE "fail"
  OBVIOUS
<1>4. PICK c : c = [o EXCEPT !.pc = pc, !.clean = o.clean]
  OBVIOUS
<1>5. call' = [call EXCEPT ![t] = c] /\ o.clean \in BOOLEAN
  BY <1>0, <1>1, <1>3, <1>4, Went DEF Validate
<1>6. /\ c \in Call /\ c.pc = pc /\ c.op = "import" /\ c.file = o.file /\ c.clean = o.clean
      /\ c.retry = o.retry
  <2>1. pc \in ImportStep \cup ScanStep \cup {"unpublish", "remove"}
    BY DEF ImportStep
  <2>. QED  BY <1>1, <1>2, <1>4, <1>5, <2>1 DEF Call
<1>8. CallSound(c)
  BY <1>2, <1>6 DEF CallSound, ImportStep, ScanStep, Sourced
<1>9. CallHolds(c)
  BY <1>1, <1>2, <1>6 DEF CallHolds, Kept, Written, Owned, ScanStep, Sourced
<1>10. CleanCall(c)
  BY <1>1, <1>2, <1>3, <1>6 DEF CleanCall
<1>. QED  BY <1>0, <1>2, <1>5, <1>6, <1>8, <1>9, <1>10, QuietMove DEF Validate

LEMMA KeptByCheckFinalized ==
    ASSUME Repeatable, NEW t \in Threads, CheckFinalized(t)
    PROVE  Repeatable'
<1>0. PICK o : o = call[t]
  OBVIOUS
<1>1. CallSound(o) /\ CallHolds(o) /\ CleanCall(o) /\ o \in Call /\ ExcelTypeOK
  BY <1>0 DEF Repeatable, CallSound
<1>2. o.pc = "finalized" /\ o.op = "import" /\ o.file \in Files
  BY <1>0, <1>1 DEF CheckFinalized, At, CallSound, ImportStep
<1>3. PICK pc \in {"find", "materialize"} :
        pc = IF disk[o.file].sqlite > 0 THEN "find" ELSE "materialize"
  OBVIOUS
<1>4. PICK c : c = [o EXCEPT !.pc = pc, !.clean = o.clean]
  OBVIOUS
<1>5. call' = [call EXCEPT ![t] = c] /\ o.clean \in BOOLEAN
  BY <1>0, <1>1, <1>3, <1>4, Went DEF CheckFinalized
<1>6. /\ c \in Call /\ c.pc = pc /\ c.op = "import" /\ c.file = o.file /\ c.clean = o.clean
      /\ c.retry = o.retry
  <2>1. pc \in ImportStep \cup ScanStep \cup {"unpublish", "remove"}
    BY DEF ImportStep
  <2>. QED  BY <1>1, <1>2, <1>4, <1>5, <2>1 DEF Call
<1>8. CallSound(c)
  BY <1>2, <1>6 DEF CallSound, ImportStep, ScanStep, Sourced
<1>9. CallHolds(c)
  <2>1. disk[o.file].sqlite \in Nat
    BY <1>1, <1>2 DEF ExcelTypeOK, Directory
  <2>2. pc = "materialize" => disk[o.file].sqlite = 0
    BY <1>3, <2>1
  <2>3. pc = "find" => disk[o.file].sqlite > 0
    BY <1>3
  <2>. QED  BY <1>1, <1>2, <1>6, <2>2, <2>3 DEF CallHolds, Kept, Written, Owned, ScanStep, Sourced
<1>10. CleanCall(c)
  BY <1>1, <1>2, <1>6 DEF CleanCall
<1>. QED  BY <1>0, <1>2, <1>5, <1>6, <1>8, <1>9, <1>10, QuietMove DEF CheckFinalized

-----------------------------------------------------------------------------
(* The datasource and its scan, as far as they are only read *)

LEMMA KeptByFind ==
    ASSUME Repeatable, NEW t \in Threads, Find(t)
    PROVE  Repeatable'
<1>0. PICK o : o = call[t]
  OBVIOUS
<1>1. CallSound(o) /\ CallHolds(o) /\ CleanCall(o) /\ o \in Call /\ ExcelTypeOK
  BY <1>0 DEF Repeatable, CallSound
<1>2. o.pc = "find" /\ o.op = "import" /\ o.file \in Files
  BY <1>0, <1>1 DEF Find, At, CallSound, ImportStep
<1>3. disk[o.file].source /\ disk[o.file].sqlite > 0
  BY <1>1, <1>2 DEF CallHolds, Kept, Written
<1>4. ASSUME NEW d \in ReadBy(o.file), UNCHANGED doubled,
             call' = [call EXCEPT ![t].source = d,
                        ![t].pc = IF call[t].retry \/ Active(d) = 0 THEN "job" ELSE "snapshot"]
      PROVE  Repeatable'
  <2>1. d \in Datasources /\ Exists(d) /\ source[d].file = o.file /\ source[d] # None
    BY <1>4 DEF ReadBy, Exists
  <2>2. PICK pc \in {"job", "snapshot"} :
            pc = IF o.retry \/ Active(d) = 0 THEN "job" ELSE "snapshot"
    OBVIOUS
  <2>3. PICK c : c = [o EXCEPT !.source = d, !.pc = pc]
    OBVIOUS
  <2>4. call' = [call EXCEPT ![t] = c]
    BY <1>0, <1>4, <2>2, <2>3
  <2>5. /\ c.pc = pc /\ c.op = "import" /\ c.file = o.file /\ c.source = d
        /\ c.clean = o.clean /\ c.retry = o.retry
    BY <1>1, <1>2, <2>3 DEF Call
  <2>6. c \in Call
    BY <1>1, <2>1, <2>3 DEF Call, ImportStep, ScanStep
  <2>7. CallSound(c)
    BY <1>2, <2>1, <2>5, <2>6 DEF CallSound, ImportStep, ScanStep
  <2>8. CallHolds(c)
    BY <1>3, <2>1, <2>5 DEF CallHolds
  <2>9. CleanCall(c)
    <3>1. ASSUME o.clean, pc = "snapshot"
          PROVE  Active(d) # 0 /\ graph[d] = Active(d)
      <4>1. ~o.retry /\ Active(d) # 0
        BY <2>2, <3>1
      <4>2. disk[o.file].manifest = None /\ ~Torn(o.file)
        BY <1>1, <1>2, <3>1, <4>1 DEF CleanCall
      <4>. QED  BY <1>4, <4>1, <4>2 DEF Torn
    <3>. QED  BY <1>1, <1>2, <2>1, <2>5, <3>1 DEF CleanCall
  <2>. QED  BY ZenonT(60), <1>0, <1>2, <1>4, <2>4, <2>5, <2>7, <2>8, <2>9, QuietMove DEF Find
<1>5. CASE ReadBy(o.file) = {} /\ Goto(t, "create") /\ UNCHANGED doubled
  <2>1. PICK c : c = [o EXCEPT !.pc = "create", !.clean = o.clean]
    OBVIOUS
  <2>2. call' = [call EXCEPT ![t] = c] /\ o.clean \in BOOLEAN
    BY <1>0, <1>1, <1>5, <2>1, Went
  <2>3. /\ c.pc = "create" /\ c.op = "import" /\ c.file = o.file /\ c.clean = o.clean
    BY <1>1, <1>2, <2>1, <2>2 DEF Call
  <2>4. c \in Call
    BY <1>1, <2>1, <2>2 DEF Call, ImportStep
  <2>5. CallSound(c)
    BY <1>2, <2>3, <2>4 DEF CallSound, ImportStep, ScanStep, Sourced
  <2>6. CallHolds(c)
    BY <1>3, <1>5, <2>3 DEF CallHolds, Kept, Written, Owned, ScanStep, Sourced
  <2>7. CleanCall(c)
    BY <2>3 DEF CleanCall
  <2>. QED  BY <1>0, <1>2, <1>5, <2>2, <2>3, <2>5, <2>6, <2>7, QuietMove DEF Find
<1>6. CASE Disturbed(t, "create") /\ doubled' = doubled \cup {o.file}
  <2>1. PICK c : c = [o EXCEPT !.pc = "create", !.clean = FALSE]
    OBVIOUS
  <2>2. call' = [call EXCEPT ![t] = c]
    BY <1>0, <1>6, <2>1 DEF Disturbed
  <2>3. /\ c.pc = "create" /\ c.op = "import" /\ c.file = o.file /\ ~c.clean
    BY <1>1, <1>2, <2>1 DEF Call
  <2>4. c \in Call
    BY <1>1, <2>1 DEF Call, ImportStep
  <2>5. CallSound(c)
    BY <1>2, <2>3, <2>4 DEF CallSound, ImportStep, ScanStep, Sourced
  <2>6. CallHolds(c)'
    <3>1. UNCHANGED <<disk, source, graph, staged, crashes>> /\ c.file \in doubled'
      BY <1>6, <2>3 DEF Find, bounds
    <3>. QED  BY <1>3, <2>3, <3>1 DEF CallHolds, Kept, Written, Owned, ScanStep, Sourced
  <2>7. CleanCall(c)
    BY <2>3 DEF CleanCall
  <2>8. UNCHANGED <<disk, source, graph, staged, crashes>> /\ doubled \subseteq doubled'
    BY <1>6 DEF Find, bounds
  <2>. QED  BY <1>0, <1>2, <2>2, <2>3, <2>5, <2>6, <2>7, <2>8, QuietStep
<1>. QED  BY <1>0, <1>4, <1>5, <1>6 DEF Find

LEMMA KeptByBeginJob ==
    ASSUME Repeatable, NEW t \in Threads, BeginJob(t)
    PROVE  Repeatable'
<1>0. PICK o : o = call[t]
  OBVIOUS
<1>1. CallSound(o) /\ CallHolds(o) /\ CleanCall(o) /\ o \in Call
  BY <1>0 DEF Repeatable, CallSound
<1>2. o.pc = "job" /\ o.op \in {"import", "scan"} /\ o.source \in Datasources
  BY <1>0, <1>1 DEF BeginJob, At, CallSound, ScanStep, Sourced
<1>3. ASSUME NEW pc, Goto(t, pc),
             \/ pc = "version" /\ Exists(o.source)
             \/ pc = "refuse" /\ ~Exists(o.source)
      PROVE  Repeatable'
  <2>1. PICK c : c = [o EXCEPT !.pc = pc, !.clean = o.clean]
    OBVIOUS
  <2>2. call' = [call EXCEPT ![t] = c] /\ o.clean \in BOOLEAN
    BY <1>0, <1>1, <1>3, <2>1, Went
  <2>3. /\ c.pc = pc /\ c.op = o.op /\ c.file = o.file /\ c.clean = o.clean
        /\ c.source = o.source
    BY <1>1, <1>2, <2>1, <2>2 DEF Call
  <2>4. c \in Call
    BY <1>1, <1>3, <2>1, <2>2 DEF Call, ImportStep, ScanStep
  <2>5. CallSound(c)
    BY <1>1, <1>2, <1>3, <2>3, <2>4 DEF CallSound, ImportStep, ScanStep
  <2>6. CallHolds(c)
    BY <1>1, <1>2, <1>3, <2>3 DEF CallHolds, Kept, Written, Owned, ScanStep, Sourced
  <2>7. CleanCall(c)
    BY <1>1, <1>2, <1>3, <2>3 DEF CleanCall
  <2>. QED  BY <1>0, <1>2, <2>2, <2>3, <2>5, <2>6, <2>7, QuietMove DEF BeginJob
<1>4. CASE Disturbed(t, "refuse")
  BY <1>0, <1>2, <1>4, DisturbedStep DEF BeginJob, bounds
<1>. QED  BY <1>0, <1>3, <1>4 DEF BeginJob

LEMMA KeptByReadDatabase ==
    ASSUME Repeatable, NEW t \in Threads, ReadDatabase(t)
    PROVE  Repeatable'
<1>0. PICK o : o = call[t]
  OBVIOUS
<1>1. CallSound(o) /\ CallHolds(o) /\ CleanCall(o) /\ o \in Call /\ ExcelTypeOK
  BY <1>0 DEF Repeatable, CallSound
<1>2. o.pc = "version" /\ o.op \in {"import", "scan"} /\ o.source \in Datasources
  BY <1>0, <1>1 DEF ReadDatabase, At, CallSound, ScanStep, Sourced
<1>3. CASE Fails(t)
  BY <1>0, <1>2, <1>3, FailsStep DEF ReadDatabase, bounds
<1>4. CASE /\ NextVersion(o.source) <= MaxVersion /\ UNCHANGED staged
           /\ call' = [call EXCEPT ![t].pc = "publish", ![t].version = NextVersion(o.source)]
  <2>1. PICK v : v = NextVersion(o.source)
    OBVIOUS
  <2>2. /\ v \in Versions /\ v # 0
        /\ Exists(o.source) => 1..(v - 1) \subseteq source[o.source].versions
    <3>1. RowSound(o.source)
      BY <1>2 DEF Repeatable
    <3>2. /\ NextVersion(o.source) \in 1..(MaxVersion + 1)
          /\ Exists(o.source) => 1..(NextVersion(o.source) - 1) \subseteq source[o.source].versions
      BY <1>1, <1>2, <3>1, NextVersionFollows
    <3>. QED  BY <1>4, <2>1, <3>2, BoundsAssumption DEF Versions
  <2>3. PICK c : c = [o EXCEPT !.pc = "publish", !.version = v]
    OBVIOUS
  <2>4. call' = [call EXCEPT ![t] = c]
    BY <1>0, <1>4, <2>1, <2>3
  <2>5. /\ c.pc = "publish" /\ c.op = o.op /\ c.file = o.file /\ c.clean = o.clean
        /\ c.source = o.source /\ c.version = v
    BY <1>1, <1>2, <2>3 DEF Call
  <2>6. c \in Call
    BY <1>1, <2>2, <2>3 DEF Call, ScanStep
  <2>7. CallSound(c)
    BY <1>1, <1>2, <2>5, <2>6 DEF CallSound, ImportStep, ScanStep
  <2>8. CallHolds(c)
    BY <1>1, <1>2, <2>2, <2>5 DEF CallHolds, Kept, Written, Owned, ScanStep, Sourced
  <2>9. CleanCall(c)
    BY <1>1, <1>2, <2>5 DEF CleanCall
  <2>. QED  BY <1>0, <1>2, <1>4, <2>4, <2>5, <2>7, <2>8, <2>9, QuietMove DEF ReadDatabase
<1>. QED  BY <1>0, <1>3, <1>4 DEF ReadDatabase

LEMMA KeptByFinishJob ==
    ASSUME Repeatable, NEW t \in Threads, FinishJob(t)
    PROVE  Repeatable'
<1>0. PICK o : o = call[t]
  OBVIOUS
<1>1. CallSound(o) /\ CallHolds(o) /\ CleanCall(o) /\ o \in Call
  BY <1>0 DEF Repeatable, CallSound
<1>2. o.pc = "scanned" /\ o.source \in Datasources
  BY <1>0, <1>1 DEF FinishJob, At, CallSound, ScanStep, Sourced
<1>3. CASE Return(t)
  BY <1>0, <1>2, <1>3, ReturnStep DEF FinishJob, bounds
<1>4. CASE Fails(t)
  BY <1>0, <1>2, <1>4, FailsStep DEF FinishJob, bounds
<1>5. CASE o.op = "import" /\ Goto(t, "snapshot") /\ UNCHANGED staged
  <2>1. PICK c : c = [o EXCEPT !.pc = "snapshot", !.clean = o.clean]
    OBVIOUS
  <2>2. call' = [call EXCEPT ![t] = c] /\ o.clean \in BOOLEAN
    BY <1>0, <1>1, <1>5, <2>1, Went
  <2>3. /\ c.pc = "snapshot" /\ c.op = "import" /\ c.file = o.file /\ c.clean = o.clean
        /\ c.source = o.source
    BY <1>1, <1>5, <2>1, <2>2 DEF Call
  <2>4. c \in Call
    BY <1>1, <2>1, <2>2 DEF Call, ImportStep
  <2>5. CallSound(c)
    BY <1>1, <1>2, <1>5, <2>3, <2>4 DEF CallSound, ImportStep, ScanStep
  <2>6. CallHolds(c)
    BY <1>1, <1>2, <1>5, <2>3 DEF CallHolds, Kept, Written, Owned, ScanStep, Sourced
  <2>7. CleanCall(c)
    BY <1>1, <1>2, <1>5, <2>3 DEF CleanCall
  <2>. QED  BY <1>0, <1>2, <1>5, <2>2, <2>3, <2>5, <2>6, <2>7, QuietMove DEF FinishJob
<1>. QED  BY <1>0, <1>3, <1>4, <1>5 DEF FinishJob

LEMMA KeptByReadSnapshot ==
    ASSUME Repeatable, NEW t \in Threads, ReadSnapshot(t)
    PROVE  Repeatable'
<1>0. PICK o : o = call[t]
  OBVIOUS
<1>1. CallSound(o) /\ CallHolds(o) /\ CleanCall(o) /\ o \in Call /\ ExcelTypeOK
  BY <1>0 DEF Repeatable, CallSound
<1>2. o.pc = "snapshot" /\ o.op = "import" /\ o.file \in Files /\ o.source \in Datasources
  BY <1>0, <1>1 DEF ReadSnapshot, At, CallSound, ImportStep, Sourced
<1>3. CASE /\ Active(o.source) # 0
           /\ call' = [call EXCEPT ![t].pc = "verify", ![t].version = Active(o.source)]
  <2>1. PICK v : v = Active(o.source)
    OBVIOUS
  <2>2. v \in Versions /\ v # 0 /\ v \in source[o.source].versions
    <3>1. Exists(o.source) /\ v = source[o.source].active /\ v # 0
      BY <1>3, <2>1 DEF Active
    <3>2. source[o.source] \in Row
      BY <1>1, <1>2, <3>1, ExistingRow
    <3>3. RowSound(o.source)
      BY <1>2 DEF Repeatable
    <3>. QED  BY <3>1, <3>2, <3>3 DEF RowSound, Row
  <2>3. PICK c : c = [o EXCEPT !.pc = "verify", !.version = v]
    OBVIOUS
  <2>4. call' = [call EXCEPT ![t] = c]
    BY <1>0, <1>3, <2>1, <2>3
  <2>5. /\ c.pc = "verify" /\ c.op = "import" /\ c.file = o.file /\ c.clean = o.clean
        /\ c.source = o.source /\ c.version = v
    BY <1>1, <1>2, <2>3 DEF Call
  <2>6. c \in Call
    BY <1>1, <2>2, <2>3 DEF Call, ImportStep
  <2>7. CallSound(c)
    BY <1>1, <1>2, <2>5, <2>6 DEF CallSound, ImportStep, ScanStep
  <2>8. CallHolds(c)
    BY <1>1, <1>2, <2>2, <2>5 DEF CallHolds, Kept, Written, Owned, ScanStep, Sourced
  <2>9. CleanCall(c)
    BY <1>1, <1>2, <2>1, <2>5 DEF CleanCall
  <2>. QED  BY <1>0, <1>2, <2>4, <2>5, <2>7, <2>8, <2>9, QuietMove DEF ReadSnapshot
<1>4. CASE Active(o.source) = 0 /\ Goto(t, "fail")
  <2>1. PICK c : c = [o EXCEPT !.pc = "fail", !.clean = o.clean]
    OBVIOUS
  <2>2. call' = [call EXCEPT ![t] = c] /\ o.clean \in BOOLEAN
    BY <1>0, <1>1, <1>4, <2>1, Went
  <2>3. /\ c.pc = "fail" /\ c.op = "import" /\ c.file = o.file /\ c.clean = o.clean
    BY <1>1, <1>2, <2>1, <2>2 DEF Call
  <2>4. c \in Call
    BY <1>1, <2>1, <2>2 DEF Call, ImportStep
  <2>5. CallSound(c)
    BY <1>1, <1>2, <2>3, <2>4 DEF CallSound, ImportStep, ScanStep, Sourced
  <2>6. CallHolds(c)
    BY <2>3 DEF CallHolds, Kept, Written, Owned, ScanStep, Sourced
  <2>7. CleanCall(c)
    BY <1>1, <1>2, <1>4, <2>3 DEF CleanCall
  <2>. QED  BY <1>0, <1>2, <2>2, <2>3, <2>5, <2>6, <2>7, QuietMove DEF ReadSnapshot
<1>5. CASE Disturbed(t, "refuse")
  BY <1>0, <1>2, <1>5, DisturbedStep DEF ReadSnapshot, bounds
<1>. QED  BY <1>0, <1>3, <1>4, <1>5 DEF ReadSnapshot

LEMMA KeptByVerify ==
    ASSUME Repeatable, NEW t \in Threads, Verify(t)
    PROVE  Repeatable'
<1>0. PICK o : o = call[t]
  OBVIOUS
<1>1. CallSound(o) /\ CallHolds(o) /\ CleanCall(o) /\ o \in Call
  BY <1>0 DEF Repeatable, CallSound
<1>2. o.pc = "verify" /\ o.op = "import" /\ o.file \in Files /\ o.source \in Datasources
  BY <1>0, <1>1 DEF Verify, At, CallSound, ImportStep, Sourced
<1>3. ASSUME NEW pc, Goto(t, pc),
             \/ pc = "finish"
             \/ pc = "fail" /\ graph[o.source] # o.version
      PROVE  Repeatable'
  <2>1. PICK c : c = [o EXCEPT !.pc = pc, !.clean = o.clean]
    OBVIOUS
  <2>2. call' = [call EXCEPT ![t] = c] /\ o.clean \in BOOLEAN
    BY <1>0, <1>1, <1>3, <2>1, Went
  <2>3. /\ c.pc = pc /\ c.op = "import" /\ c.file = o.file /\ c.clean = o.clean
        /\ c.source = o.source /\ c.version = o.version
    BY <1>1, <1>2, <2>1, <2>2 DEF Call
  <2>4. c \in Call
    BY <1>1, <1>3, <2>1, <2>2 DEF Call, ImportStep
  <2>5. CallSound(c)
    BY <1>1, <1>2, <1>3, <2>3, <2>4 DEF CallSound, ImportStep, ScanStep
  <2>6. CallHolds(c)
    BY <1>1, <1>2, <1>3, <2>3 DEF CallHolds, Kept, Written, Owned, ScanStep, Sourced
  <2>7. CleanCall(c)
    BY <1>1, <1>2, <1>3, <2>3 DEF CleanCall
  <2>. QED  BY <1>0, <1>2, <2>2, <2>3, <2>5, <2>6, <2>7, QuietMove DEF Verify
<1>4. CASE Disturbed(t, "fail")
  BY <1>0, <1>2, <1>4, DisturbedStep DEF Verify, bounds
<1>. QED  BY <1>0, <1>3, <1>4 DEF Verify, IsPublished

-----------------------------------------------------------------------------
(* Writing to a directory *)

\* What may be written to the directory of a file.
LEMMA DirectoryStep ==
    ASSUME Repeatable, NEW t \in Threads, call[t].pc # "idle",
           NEW c, call' = [call EXCEPT ![t] = c],
           NEW f \in Files, NEW g \in Directory, disk' = [disk EXCEPT ![f] = g],
           UNCHANGED <<source, graph, crashes>>, doubled \subseteq doubled', KeepsSight(t),
           staged' \subseteq staged, c.op = "import" \/ c.op = call[t].op \/ t \notin staged',
           CallSound(c), CallHolds(c)', CleanCall(c)', c.clean => call[t].clean,
           disk[f].source => g.source, disk[f].sqlite > 0 => g.sqlite > 0,
           f \notin doubled' => g.sqlite <= 1,
           \/ g.manifest = disk[f].manifest
           \/ g.manifest # None /\ g.manifest.status = "FAILED"
           \/ /\ g.source /\ g.sqlite > 0
              /\ g.manifest.source \in Datasources /\ g.manifest.version # 0
              /\ \/ source[g.manifest.source] = Gone
                 \/ /\ g.manifest.source \in ReadBy(f)
                    /\ g.manifest.version \in source[g.manifest.source].versions
    PROVE  Repeatable'
<1>1. ExcelTypeOK /\ ManifestsSound /\ WrittenOnce /\ ReadyIsComplete
      /\ \A d \in Datasources : RowSound(d)
  BY DEF Repeatable
<1>2. /\ \A h \in Files : disk'[h] = IF h = f THEN g ELSE disk[h]
      /\ disk' \in [Files -> Directory]
  BY <1>1 DEF ExcelTypeOK
<1>3. /\ \A d \in Datasources : RowSound(d)' /\ (Exists(d)' <=> Exists(d))
      /\ \A h \in Files : ReadBy(h)' = ReadBy(h)
  BY <1>1 DEF RowSound, Exists, ReadBy
<1>4. Grows
  <2>1. \A d \in Datasources : Exists(d) => source'[d] \in Row
    BY <1>1, ExistingRow
  <2>2. source' \in [Datasources -> Row \cup {None, Gone}]
    BY <1>1 DEF ExcelTypeOK
  <2>3. \A h \in Files : /\ disk[h].source => disk'[h].source
                         /\ disk[h].sqlite > 0 => disk'[h].sqlite > 0
    BY <1>2
  <2>. QED  BY <1>2, <2>1, <2>2, <2>3 DEF Grows
<1>5. ManifestsSound'
  BY <1>1, <1>2 DEF ManifestsSound
<1>6. WrittenOnce'
  BY <1>1, <1>2, <1>3 DEF WrittenOnce
<1>7. ReadyIsComplete'
  <2>1. ASSUME NEW d \in Datasources, Exists(d)'
        PROVE  disk'[source'[d].file].sqlite > 0
    <3>1. source[d] \in Row /\ Exists(d)
      BY <1>1, <1>3, <2>1, ExistingRow
    <3>2. source[d].file \in Files /\ disk[source[d].file].sqlite > 0
      BY <1>1, <3>1 DEF Row, ReadyIsComplete
    <3>. QED  BY <1>2, <3>2
  <2>2. ASSUME NEW h \in Files, NEW m, m = disk'[h].manifest, m # None, m.status = "READY"
        PROVE  /\ disk'[h].source /\ disk'[h].sqlite > 0
               /\ \/ source'[m.source] = Gone
                  \/ m.source \in ReadBy(h)' /\ m.version \in source'[m.source].versions
    <3>1. CASE m = disk[h].manifest
      <4>1. /\ disk[h].source /\ disk[h].sqlite > 0
            /\ \/ source[m.source] = Gone
               \/ m.source \in ReadBy(h) /\ m.version \in source[m.source].versions
        BY <1>1, <2>2, <3>1 DEF ReadyIsComplete
      <4>. QED  BY <1>2, <1>3, <4>1
    <3>2. CASE m # disk[h].manifest
      <4>1. h = f /\ m = g.manifest
        BY <1>2, <2>2, <3>2
      <4>. QED  BY <1>2, <1>3, <2>2, <3>2, <4>1
    <3>. QED  BY <3>1, <3>2
  <2>. QED  BY <2>1, <2>2 DEF ReadyIsComplete
<1>8. graph' \in [Datasources -> Versions]
  BY <1>1 DEF ExcelTypeOK
<1>. QED  BY <1>1, <1>3, <1>4, <1>5, <1>6, <1>7, <1>8, StoreStep

LEMMA KeptByWriteSource ==
    ASSUME Repeatable, NEW t \in Threads, WriteSource(t)
    PROVE  Repeatable'
<1>0. PICK o : o = call[t]
  OBVIOUS
<1>1. CallSound(o) /\ CleanCall(o) /\ o \in Call /\ ExcelTypeOK /\ WrittenOnce
  BY <1>0 DEF Repeatable, CallSound
<1>2. o.pc = "save" /\ o.op = "import" /\ o.file \in Files
  BY <1>0, <1>1 DEF WriteSource, At, CallSound, ImportStep
<1>3. CASE UNCHANGED disk /\ Disturbed(t, "refuse")
  BY <1>0, <1>2, <1>3, DisturbedStep DEF WriteSource, bounds
<1>4. CASE disk' = [disk EXCEPT ![o.file].source = TRUE] /\ Goto(t, "validate")
  <2>1. PICK c : c = [o EXCEPT !.pc = "validate", !.clean = o.clean]
    OBVIOUS
  <2>2. call' = [call EXCEPT ![t] = c] /\ o.clean \in BOOLEAN
    BY <1>0, <1>1, <1>4, <2>1, Went
  <2>3. /\ c.pc = "validate" /\ c.op = "import" /\ c.file = o.file /\ c.clean = o.clean
        /\ c.retry = o.retry
    BY <1>1, <1>2, <2>1, <2>2 DEF Call
  <2>4. c \in Call
    BY <1>1, <2>1, <2>2 DEF Call, ImportStep
  <2>5. CallSound(c)
    BY <1>2, <2>3, <2>4 DEF CallSound, ImportStep, ScanStep, Sourced
  <2>6. PICK g : g = [disk[o.file] EXCEPT !.source = TRUE]
    OBVIOUS
  <2>7. disk[o.file] \in Directory
    BY <1>1, <1>2 DEF ExcelTypeOK
  <2>8. /\ g \in Directory /\ g.source
        /\ g.sqlite = disk[o.file].sqlite /\ g.manifest = disk[o.file].manifest
    BY ZenonT(60), <2>6, <2>7 DEF Directory
  <2>9. disk' = [disk EXCEPT ![o.file] = g]
    BY <1>4, <2>6
  <2>10. \A h \in Files : disk'[h].sqlite = disk[h].sqlite /\ disk'[h].manifest = disk[h].manifest
    BY <1>1, <1>2, <2>8, <2>9 DEF ExcelTypeOK
  <2>11. disk'[o.file].source
    BY <1>1, <1>2, <2>8, <2>9 DEF ExcelTypeOK
  <2>12. UNCHANGED <<source, graph, staged, doubled, crashes>>
    BY DEF WriteSource, bounds
  <2>13. KeepsSight(t)
    BY <1>2, <2>10, <2>12 DEF KeepsSight, ReadBy, Exists
  <2>14. CallHolds(c)'
    BY <2>3, <2>11 DEF CallHolds, Kept, Written, Owned, ScanStep, Sourced
  <2>15. CleanCall(c)'
    <3>1. Torn(o.file)' <=> Torn(o.file)
      BY <1>2, <2>10, <2>12 DEF Torn, Active, ReadBy, Exists
    <3>2. disk'[o.file].manifest = disk[o.file].manifest
      BY <1>2, <2>10
    <3>. QED  BY <1>1, <1>2, <2>3, <3>1, <3>2 DEF CleanCall
  <2>16. o.file \notin doubled' => g.sqlite <= 1
    BY <1>1, <1>2, <2>8, <2>12 DEF WrittenOnce
  <2>. QED  BY <1>0, <1>2, <2>2, <2>3, <2>5, <2>8, <2>9, <2>12, <2>13, <2>14, <2>15, <2>16,
               DirectoryStep
<1>. QED  BY <1>0, <1>3, <1>4 DEF WriteSource

LEMMA KeptByMaterialize ==
    ASSUME Repeatable, NEW t \in Threads, Materialize(t)
    PROVE  Repeatable'
<1>0. PICK o : o = call[t]
  OBVIOUS
<1>1. CallSound(o) /\ CallHolds(o) /\ CleanCall(o) /\ o \in Call /\ ExcelTypeOK
  BY <1>0 DEF Repeatable, CallSound
<1>2. o.pc = "materialize" /\ o.op = "import" /\ o.file \in Files
  BY <1>0, <1>1 DEF Materialize, At, CallSound, ImportStep
<1>3. doubled \subseteq doubled' /\ UNCHANGED <<source, graph, staged, crashes>>
  BY DEF Materialize, NotesDoubles, bounds
<1>4. CASE UNCHANGED disk /\ Disturbed(t, "fail")
  BY <1>0, <1>2, <1>3, <1>4, DisturbedStep
<1>5. CASE disk' = [disk EXCEPT ![o.file].sqlite = @ + 1] /\ Goto(t, "find")
  <2>1. PICK c : c = [o EXCEPT !.pc = "find", !.clean = o.clean]
    OBVIOUS
  <2>2. call' = [call EXCEPT ![t] = c] /\ o.clean \in BOOLEAN
    BY <1>0, <1>1, <1>5, <2>1, Went
  <2>3. /\ c.pc = "find" /\ c.op = "import" /\ c.file = o.file /\ c.clean = o.clean
        /\ c.retry = o.retry
    BY <1>1, <1>2, <2>1, <2>2 DEF Call
  <2>4. c \in Call
    BY <1>1, <2>1, <2>2 DEF Call, ImportStep
  <2>5. CallSound(c)
    BY <1>2, <2>3, <2>4 DEF CallSound, ImportStep, ScanStep, Sourced
  <2>6. PICK g : g = [disk[o.file] EXCEPT !.sqlite = disk[o.file].sqlite + 1]
    OBVIOUS
  <2>7. disk[o.file] \in Directory /\ disk[o.file].sqlite \in Nat
    BY <1>1, <1>2 DEF ExcelTypeOK, Directory
  <2>8. /\ g \in Directory /\ g.source = disk[o.file].source
        /\ g.sqlite = disk[o.file].sqlite + 1 /\ g.manifest = disk[o.file].manifest
    BY <2>6, <2>7 DEF Directory
  <2>9. disk' = [disk EXCEPT ![o.file] = g]
    BY <1>5, <2>6
  <2>10. /\ \A h \in Files : h # o.file => disk'[h].sqlite = disk[h].sqlite
         /\ \A h \in Files : disk'[h].manifest = disk[h].manifest
         /\ disk'[o.file].source = disk[o.file].source /\ disk'[o.file].sqlite > 0
    BY <1>1, <1>2, <2>7, <2>8, <2>9 DEF ExcelTypeOK
  <2>11. KeepsSight(t)
    <3>. SUFFICES ASSUME NEW u \in Threads \ {t}, NEW f \in Files \ doubled', call[u].file = f
                  PROVE  /\ call[u].pc = "materialize" => disk'[f].sqlite = disk[f].sqlite
                         /\ call[u].pc = "create" => ReadBy(f)' \subseteq ReadBy(f)
      BY DEF KeepsSight
    <3>1. call[u].pc = "materialize" => f # o.file
      BY <1>0, <1>2 DEF Materialize, NotesDoubles
    <3>. QED  BY <1>3, <2>10, <3>1 DEF ReadBy, Exists
  <2>12. CallHolds(c)'
    <3>1. disk[o.file].source
      BY <1>1, <1>2 DEF CallHolds, Kept
    <3>. QED  BY <2>3, <2>10, <3>1 DEF CallHolds, Kept, Written, Owned, ScanStep, Sourced
  <2>13. CleanCall(c)'
    <3>1. Torn(o.file)' <=> Torn(o.file)
      BY <1>2, <1>3, <2>10 DEF Torn, Active, ReadBy, Exists
    <3>2. disk'[o.file].manifest = disk[o.file].manifest
      BY <1>2, <2>10
    <3>. QED  BY <1>1, <1>2, <2>3, <3>1, <3>2 DEF CleanCall
  <2>14. o.file \notin doubled' => g.sqlite <= 1
    BY <1>1, <1>2, <1>3, <2>8 DEF CallHolds
  <2>15. g.sqlite > 0 /\ (disk[o.file].source => g.source)
    BY <2>7, <2>8
  <2>. QED  BY <1>0, <1>2, <1>3, <2>2, <2>3, <2>5, <2>8, <2>9, <2>11, <2>12, <2>13, <2>14, <2>15,
               DirectoryStep
<1>. QED  BY <1>0, <1>4, <1>5 DEF Materialize

\* An idle call is sound and holds nothing.
LEMMA IdleIsSound ==
    ASSUME NEW c, c = Idle
    PROVE  /\ CallSound(c) /\ CleanCall(c) /\ CleanCall(c)' /\ CallHolds(c) /\ CallHolds(c)'
           /\ ~c.clean /\ c.op = "none" /\ c.pc = "idle"
<1>1. 0 \in Versions
  BY BoundsAssumption DEF Versions
<1>2. c \in Call /\ ~c.clean /\ c.op = "none" /\ c.file = None /\ c.pc = "idle"
  BY <1>1 DEF Idle, Call
<1>3. CallHolds(c) /\ CallHolds(c)'
  BY <1>2 DEF CallHolds, Sourced, ScanStep
<1>4. CleanCall(c) /\ CleanCall(c)'
  BY <1>2 DEF CleanCall
<1>. QED  BY <1>2, <1>3, <1>4 DEF CallSound, Sourced, ScanStep, ImportStep

LEMMA KeptByFinish ==
    ASSUME Repeatable, NEW t \in Threads, Finish(t)
    PROVE  Repeatable'
<1>0. PICK o : o = call[t]
  OBVIOUS
<1>1. CallSound(o) /\ CallHolds(o) /\ o \in Call /\ ExcelTypeOK /\ WrittenOnce
  BY <1>0 DEF Repeatable, CallSound
<1>2. o.pc = "finish" /\ o.op = "import" /\ o.file \in Files /\ o.source \in Datasources
  BY <1>0, <1>1 DEF Finish, At, CallSound, ImportStep, Sourced
<1>3. UNCHANGED <<source, graph, doubled, crashes>> /\ Return(t)
  BY DEF Finish, bounds
<1>4. CASE UNCHANGED disk
  BY <1>0, <1>2, <1>3, <1>4, ReturnStep
<1>5. CASE disk' = [disk EXCEPT ![o.file].manifest =
                        [status |-> "READY", source |-> o.source, version |-> o.version]]
  <2>1. PICK m : m = [status |-> "READY", source |-> o.source, version |-> o.version]
    OBVIOUS
  <2>2. m \in Manifest /\ m.source = o.source /\ m.version = o.version /\ m.version # 0
    BY <1>1, <1>2, <2>1 DEF Manifest, Call, CallHolds
  <2>3. PICK g : g = [disk[o.file] EXCEPT !.manifest = m]
    OBVIOUS
  <2>4. disk[o.file] \in Directory
    BY <1>1, <1>2 DEF ExcelTypeOK
  <2>5. /\ g \in Directory /\ g.source = disk[o.file].source
        /\ g.sqlite = disk[o.file].sqlite /\ g.manifest = m
    BY <2>2, <2>3, <2>4 DEF Directory
  <2>6. disk' = [disk EXCEPT ![o.file] = g]
    BY <1>5, <2>1, <2>3
  <2>7. disk[o.file].source /\ disk[o.file].sqlite > 0
    BY <1>1, <1>2 DEF CallHolds, Kept, Written
  <2>8. \/ source[m.source] = Gone
        \/ m.source \in ReadBy(o.file) /\ m.version \in source[m.source].versions
    BY <1>1, <1>2, <2>2, FilesAssumption DEF CallHolds, Owned, Sourced, ReadBy, Exists
  <2>9. KeepsSight(t)
    <3>1. \A h \in Files : disk'[h].sqlite = disk[h].sqlite
      BY <1>1, <1>2, <2>5, <2>6 DEF ExcelTypeOK
    <3>. QED  BY <1>3, <3>1 DEF KeepsSight, ReadBy, Exists
  <2>10. PICK c : c = Idle
    OBVIOUS
  <2>11. call' = [call EXCEPT ![t] = c] /\ staged' = staged \ {t}
    BY <1>3, <2>10 DEF Return
  <2>12. CallSound(c) /\ CallHolds(c)' /\ CleanCall(c)' /\ ~c.clean
    BY <2>10, IdleIsSound
  <2>13. o.file \notin doubled' => g.sqlite <= 1
    BY <1>1, <1>2, <1>3, <2>5 DEF WrittenOnce
  <2>. QED  BY <1>0, <1>2, <1>3, <2>2, <2>5, <2>6, <2>7, <2>8, <2>9, <2>11, <2>12, <2>13,
               DirectoryStep
<1>. QED  BY <1>0, <1>4, <1>5 DEF Finish

LEMMA KeptByRecordFailure ==
    ASSUME Repeatable, NEW t \in Threads, RecordFailure(t)
    PROVE  Repeatable'
<1>0. PICK o : o = call[t]
  OBVIOUS
<1>1. CallSound(o) /\ o \in Call /\ ExcelTypeOK /\ WrittenOnce
  BY <1>0 DEF Repeatable, CallSound
<1>2. o.pc = "fail" /\ o.op = "import" /\ o.file \in Files
  BY <1>0, <1>1 DEF RecordFailure, At, CallSound, ImportStep
<1>3. UNCHANGED <<source, graph, doubled, crashes>> /\ Return(t)
  BY DEF RecordFailure, bounds
<1>4. CASE UNCHANGED disk
  BY <1>0, <1>2, <1>3, <1>4, ReturnStep
<1>5. CASE disk' = [disk EXCEPT ![o.file].manifest =
                        [status |-> "FAILED", source |-> None, version |-> 0]]
  <2>1. PICK m : m = [status |-> "FAILED", source |-> None, version |-> 0]
    OBVIOUS
  <2>2. m \in Manifest /\ m.status = "FAILED" /\ m # None
    <3>1. 0 \in Versions
      BY BoundsAssumption DEF Versions
    <3>2. m \in Manifest
      BY <2>1, <3>1 DEF Manifest
    <3>. QED  BY <2>1, <3>2, MarksAssumption
  <2>3. PICK g : g = [disk[o.file] EXCEPT !.manifest = m]
    OBVIOUS
  <2>4. disk[o.file] \in Directory
    BY <1>1, <1>2 DEF ExcelTypeOK
  <2>5. /\ g \in Directory /\ g.source = disk[o.file].source
        /\ g.sqlite = disk[o.file].sqlite /\ g.manifest = m
    BY <2>2, <2>3, <2>4 DEF Directory
  <2>6. disk' = [disk EXCEPT ![o.file] = g]
    BY <1>5, <2>1, <2>3
  <2>7. KeepsSight(t)
    <3>1. \A h \in Files : disk'[h].sqlite = disk[h].sqlite
      BY <1>1, <1>2, <2>5, <2>6 DEF ExcelTypeOK
    <3>. QED  BY <1>3, <3>1 DEF KeepsSight, ReadBy, Exists
  <2>8. PICK c : c = Idle
    OBVIOUS
  <2>9. call' = [call EXCEPT ![t] = c] /\ staged' = staged \ {t}
    BY <1>3, <2>8 DEF Return
  <2>10. CallSound(c) /\ CallHolds(c)' /\ CleanCall(c)' /\ ~c.clean
    BY <2>8, IdleIsSound
  <2>11. o.file \notin doubled' => g.sqlite <= 1
    BY <1>1, <1>2, <1>3, <2>5 DEF WrittenOnce
  <2>. QED  BY <1>0, <1>2, <1>3, <2>2, <2>5, <2>6, <2>7, <2>9, <2>10, <2>11, DirectoryStep
<1>. QED  BY <1>0, <1>4, <1>5 DEF RecordFailure

-----------------------------------------------------------------------------
(* Writing to the catalog *)

LEMMA KeptByCreateDatasource ==
    ASSUME Repeatable, NEW t \in Threads, CreateDatasource(t)
    PROVE  Repeatable'
<1>0. PICK o : o = call[t]
  OBVIOUS
<1>1. /\ CallSound(o) /\ CallHolds(o) /\ CleanCall(o) /\ o \in Call /\ ExcelTypeOK
      /\ ManifestsSound /\ WrittenOnce /\ ReadyIsComplete
      /\ \A e \in Datasources : RowSound(e)
  BY <1>0 DEF Repeatable, CallSound
<1>2. o.pc = "create" /\ o.op = "import" /\ o.file \in Files
  BY <1>0, <1>1 DEF CreateDatasource, At, CallSound, ImportStep
<1>3. UNCHANGED <<disk, graph, staged, crashes>> /\ NotesDoubles(t) /\ doubled \subseteq doubled'
  BY DEF CreateDatasource, NotesDoubles, bounds
<1>4. CASE UNCHANGED source /\ Disturbed(t, "fail")
  BY <1>0, <1>2, <1>3, <1>4, DisturbedStep
<1>5. ASSUME NEW d \in Datasources, source[d] = None,
             source' = [source EXCEPT ![d] = [file |-> o.file, active |-> 0, versions |-> {}]],
             call' = [call EXCEPT ![t].source = d, ![t].pc = "job"]
      PROVE  Repeatable'
  <2>1. PICK c : c = [o EXCEPT !.source = d, !.pc = "job"]
    OBVIOUS
  <2>2. call' = [call EXCEPT ![t] = c]
    BY <1>0, <1>5, <2>1
  <2>3. c.pc = "job" /\ c.op = "import" /\ c.file = o.file /\ c.source = d /\ c.clean = o.clean
    BY <1>1, <1>2, <2>1 DEF Call
  <2>4. c \in Call
    BY <1>1, <2>1 DEF Call, ScanStep
  <2>5. CallSound(c)
    BY <1>2, <2>3, <2>4 DEF CallSound, ImportStep, ScanStep
  <2>6. PICK r : r = [file |-> o.file, active |-> 0, versions |-> {}]
    OBVIOUS
  <2>7. /\ r \in Row /\ r.file = o.file /\ r.active = 0 /\ r.versions = 1..0
        /\ 0 \in Versions /\ r # None /\ r # Gone
    <3>1. 0 \in Versions
      BY BoundsAssumption DEF Versions
    <3>2. r \in Row
      BY <1>2, <2>6, <3>1 DEF Row
    <3>3. r.versions = 1..0
      BY <2>6
    <3>. QED  BY <2>6, <3>1, <3>2, <3>3, MarksAssumption
  <2>8. /\ \A e \in Datasources : source'[e] = IF e = d THEN r ELSE source[e]
        /\ source' \in [Datasources -> Row \cup {None, Gone}]
    BY <1>1, <1>5, <2>6, <2>7 DEF ExcelTypeOK
  <2>9. /\ \A e \in Datasources : Exists(e)' <=> e = d \/ Exists(e)
        /\ ~Exists(d)
    BY <1>5, <2>7, <2>8, FilesAssumption DEF Exists
  <2>10. \A f \in Files : ReadBy(f)' = IF f = o.file THEN ReadBy(f) \cup {d} ELSE ReadBy(f)
    BY <1>5, <2>7, <2>8, <2>9 DEF ReadBy
  <2>11. Grows
    <3>1. \A e \in Datasources : Exists(e) => source'[e] = source[e] /\ source'[e] \in Row
      BY <1>1, <2>8, <2>9, ExistingRow
    <3>2. \A e \in Datasources : source[e] = Gone => source'[e] = Gone
      BY <1>5, <2>8, MarksAssumption
    <3>3. disk' \in [Files -> Directory]
      BY <1>1, <1>3 DEF ExcelTypeOK
    <3>. QED  BY <1>3, <2>8, <3>1, <3>2, <3>3 DEF Grows
  <2>12. KeepsSight(t)
    <3>. SUFFICES ASSUME NEW u \in Threads \ {t}, NEW f \in Files \ doubled', call[u].file = f
                  PROVE  /\ call[u].pc = "materialize" => disk'[f].sqlite = disk[f].sqlite
                         /\ call[u].pc = "create" => ReadBy(f)' \subseteq ReadBy(f)
      BY DEF KeepsSight
    <3>1. call[u].pc = "create" => f # o.file
      BY <1>0, <1>2, <1>3 DEF NotesDoubles
    <3>. QED  BY <1>3, <2>10, <3>1
  <2>13. \A e \in Datasources : RowSound(e)'
    <3>. SUFFICES ASSUME NEW e \in Datasources, Exists(e)'
                  PROVE  /\ \E k \in Versions : source'[e].versions = 1..k
                         /\ source'[e].active \in source'[e].versions \cup {0}
      BY DEF RowSound
    <3>1. CASE e = d
      BY <2>7, <2>8, <3>1
    <3>2. CASE e # d
      BY <1>1, <2>8, <2>9, <3>2 DEF RowSound
    <3>. QED  BY <3>1, <3>2
  <2>14. ManifestsSound'
    BY <1>1, <1>3 DEF ManifestsSound
  <2>15. WrittenOnce'
    <3>. SUFFICES ASSUME NEW f \in Files \ doubled'
                  PROVE  disk'[f].sqlite <= 1 /\ \A a, b \in ReadBy(f)' : a = b
      BY DEF WrittenOnce
    <3>1. disk[f].sqlite <= 1 /\ \A a, b \in ReadBy(f) : a = b
      BY <1>1, <1>3 DEF WrittenOnce
    <3>2. f = o.file => ReadBy(f) = {}
      BY <1>1, <1>2, <1>3 DEF CallHolds
    <3>. QED  BY <1>3, <2>10, <3>1, <3>2
  <2>16. ReadyIsComplete'
    <3>1. ASSUME NEW e \in Datasources, Exists(e)'
          PROVE  disk'[source'[e].file].sqlite > 0
      <4>1. disk[o.file].sqlite > 0
        BY <1>1, <1>2 DEF CallHolds, Kept, Written
      <4>. QED  BY <1>1, <1>3, <2>7, <2>8, <2>9, <3>1, <4>1 DEF ReadyIsComplete
    <3>2. ASSUME NEW f \in Files, NEW m, m = disk'[f].manifest, m # None, m.status = "READY"
          PROVE  /\ disk'[f].source /\ disk'[f].sqlite > 0
                 /\ \/ source'[m.source] = Gone
                    \/ m.source \in ReadBy(f)' /\ m.version \in source'[m.source].versions
      <4>1. m = disk[f].manifest
        BY <1>3, <3>2
      <4>2. m.source \in Datasources
        BY <1>1, <3>2, <4>1 DEF ManifestsSound
      <4>3. /\ disk[f].source /\ disk[f].sqlite > 0
            /\ \/ source[m.source] = Gone
               \/ m.source \in ReadBy(f) /\ m.version \in source[m.source].versions
        BY <1>1, <3>2, <4>1 DEF ReadyIsComplete
      <4>4. m.source # d
        BY <1>5, <2>9, <4>3, MarksAssumption DEF ReadBy
      <4>. QED  BY <1>3, <2>8, <2>10, <4>2, <4>3, <4>4
    <3>. QED  BY <3>1, <3>2 DEF ReadyIsComplete
  <2>17. CallHolds(c)'
    <3>1. disk[o.file].source /\ disk[o.file].sqlite > 0
      BY <1>1, <1>2 DEF CallHolds, Kept, Written
    <3>2. source'[d] # None /\ source'[d].file = o.file
      BY <2>7, <2>8
    <3>. QED  BY <1>3, <2>3, <3>1, <3>2 DEF CallHolds
  <2>18. CleanCall(c)'
    BY <1>1, <1>2, <2>3, <2>9 DEF CleanCall
  <2>19. graph' \in [Datasources -> Versions]
    BY <1>1, <1>3 DEF ExcelTypeOK
  <2>. QED  BY <1>0, <1>2, <1>3, <2>2, <2>3, <2>5, <2>11, <2>12, <2>13, <2>14, <2>15, <2>16,
               <2>17, <2>18, <2>19, StoreStep
<1>. QED  BY <1>0, <1>4, <1>5 DEF CreateDatasource

LEMMA KeptByCommitScan ==
    ASSUME Repeatable, NEW t \in Threads, CommitScan(t)
    PROVE  Repeatable'
<1>0. PICK o : o = call[t]
  OBVIOUS
<1>1. /\ CallSound(o) /\ CallHolds(o) /\ CleanCall(o) /\ o \in Call /\ ExcelTypeOK
      /\ ManifestsSound /\ WrittenOnce /\ ReadyIsComplete
      /\ \A e \in Datasources : RowSound(e)
  BY <1>0 DEF Repeatable, CallSound
<1>2. o.pc = "commit" /\ o.op \in {"import", "scan"} /\ o.source \in Datasources
  BY <1>0, <1>1 DEF CommitScan, At, CallSound, ScanStep, Sourced
<1>3. UNCHANGED <<disk, graph, doubled, crashes>>
  BY DEF CommitScan, bounds
<1>4. CASE UNCHANGED source /\ Fails(t)
  BY <1>0, <1>2, <1>3, <1>4, FailsStep
<1>5. PICK d, v : d = o.source /\ v = o.version
  OBVIOUS
<1>6. CASE /\ Exists(d) /\ v \notin source[d].versions
           /\ source' = [source EXCEPT ![d].active = v, ![d].versions = @ \cup {v}]
           /\ Goto(t, "scanned") /\ UNCHANGED staged
  <2>1. PICK c : c = [o EXCEPT !.pc = "scanned", !.clean = o.clean]
    OBVIOUS
  <2>2. call' = [call EXCEPT ![t] = c] /\ o.clean \in BOOLEAN
    BY <1>0, <1>1, <1>6, <2>1, Went
  <2>3. c.pc = "scanned" /\ c.op = o.op /\ c.file = o.file /\ c.source = d /\ c.clean = o.clean
    BY <1>1, <1>2, <1>5, <2>1, <2>2 DEF Call
  <2>4. c \in Call
    BY <1>1, <2>1, <2>2 DEF Call, ScanStep
  <2>5. CallSound(c)
    BY <1>1, <1>2, <1>5, <2>3, <2>4 DEF CallSound, ImportStep, ScanStep
  <2>6. d \in Datasources /\ source[d] \in Row /\ v \in Versions /\ v # 0
    BY <1>1, <1>2, <1>5, <1>6, ExistingRow DEF Call, CallHolds
  \* The new version is the next one: it had been read when all before it were there.
  <2>7. source[d].versions \cup {v} = 1..v
    <3>1. PICK k \in Versions : source[d].versions = 1..k
      BY <1>1, <1>6, <2>6 DEF RowSound
    <3>2. 1..(v - 1) \subseteq 1..k /\ v \notin 1..k
      BY <1>1, <1>2, <1>5, <1>6, <3>1 DEF CallHolds
    <3>3. k \in Nat /\ v \in Nat
      BY <2>6, BoundsAssumption DEF Versions
    <3>4. k < v
      BY <2>6, <3>2, <3>3
    <3>5. k = v - 1
      <4>1. CASE v - 1 = 0
        BY <3>3, <3>4, <4>1
      <4>2. CASE v - 1 > 0
        <5>1. v - 1 \in 1..k
          BY <3>2, <3>3, <4>2
        <5>. QED  BY <3>3, <3>4, <5>1
      <4>. QED  BY <2>6, <3>3, <4>1, <4>2
    <3>. QED  BY <2>6, <3>1, <3>3, <3>5
  <2>8. PICK r : r = [source[d] EXCEPT !.active = v, !.versions = source[d].versions \cup {v}]
    OBVIOUS
  <2>9. /\ r \in Row /\ r.file = source[d].file /\ r.active = v
        /\ r.versions = source[d].versions \cup {v}
    BY <2>6, <2>8 DEF Row
  <2>10. r # None /\ r # Gone /\ d # None
    BY <1>6, <2>9, MarksAssumption DEF Exists
  <2>11. source' = [source EXCEPT ![d] = r]
    BY <1>6, <2>8
  <2>12. /\ \A e \in Datasources : source'[e] = IF e = d THEN r ELSE source[e]
         /\ source' \in [Datasources -> Row \cup {None, Gone}]
    BY <1>1, <2>9, <2>11 DEF ExcelTypeOK
  <2>13. \A e \in Datasources : Exists(e)' <=> Exists(e)
    BY <1>6, <2>10, <2>12 DEF Exists
  <2>14. \A f \in Files : ReadBy(f)' = ReadBy(f)
    BY <2>9, <2>12, <2>13 DEF ReadBy
  <2>15. Grows
    <3>1. \A e \in Datasources : Exists(e) =>
            /\ source'[e] \in Row /\ source'[e].file = source[e].file
            /\ source[e].versions \subseteq source'[e].versions
      BY <1>1, <2>9, <2>12, ExistingRow
    <3>2. \A e \in Datasources : source[e] = Gone => source'[e] = Gone
      BY <1>6, <2>12 DEF Exists
    <3>3. disk' \in [Files -> Directory]
      BY <1>1, <1>3 DEF ExcelTypeOK
    <3>. QED  BY <1>3, <2>12, <3>1, <3>2, <3>3 DEF Grows
  <2>16. KeepsSight(t)
    BY <1>3, <2>14 DEF KeepsSight
  <2>17. \A e \in Datasources : RowSound(e)'
    <3>. SUFFICES ASSUME NEW e \in Datasources, Exists(e)'
                  PROVE  /\ \E k \in Versions : source'[e].versions = 1..k
                         /\ source'[e].active \in source'[e].versions \cup {0}
      BY DEF RowSound
    <3>1. CASE e = d
      BY <2>6, <2>7, <2>9, <2>12, <3>1
    <3>2. CASE e # d
      BY <1>1, <2>12, <2>13, <3>2 DEF RowSound
    <3>. QED  BY <3>1, <3>2
  <2>18. ManifestsSound' /\ WrittenOnce'
    BY <1>1, <1>3, <2>14 DEF ManifestsSound, WrittenOnce
  <2>19. ReadyIsComplete'
    <3>1. ASSUME NEW e \in Datasources, Exists(e)'
          PROVE  disk'[source'[e].file].sqlite > 0
      BY <1>1, <1>3, <2>9, <2>12, <2>13, <3>1 DEF ReadyIsComplete
    <3>2. ASSUME NEW f \in Files, NEW m, m = disk'[f].manifest, m # None, m.status = "READY"
          PROVE  /\ disk'[f].source /\ disk'[f].sqlite > 0
                 /\ \/ source'[m.source] = Gone
                    \/ m.source \in ReadBy(f)' /\ m.version \in source'[m.source].versions
      <4>1. m = disk[f].manifest
        BY <1>3, <3>2
      <4>2. m.source \in Datasources
        BY <1>1, <3>2, <4>1 DEF ManifestsSound
      <4>3. /\ disk[f].source /\ disk[f].sqlite > 0
            /\ \/ source[m.source] = Gone
               \/ m.source \in ReadBy(f) /\ m.version \in source[m.source].versions
        BY <1>1, <3>2, <4>1 DEF ReadyIsComplete
      <4>4. source[m.source] = Gone => m.source # d
        BY <1>6 DEF Exists
      <4>. QED  BY <1>3, <2>9, <2>12, <2>14, <4>2, <4>3, <4>4
    <3>. QED  BY <3>1, <3>2 DEF ReadyIsComplete
  <2>20. CallHolds(c)'
    <3>1. source'[d] # None /\ source'[d].file = source[d].file
      BY <2>6, <2>9, <2>10, <2>12
    <3>2. o.op = "import" => /\ disk[o.file].source /\ disk[o.file].sqlite > 0
                             /\ source[d].file = o.file
      BY <1>1, <1>2, <1>5, <1>6 DEF CallHolds, Kept, Written, Owned, ScanStep, Exists
    <3>. QED  BY <1>3, <2>3, <3>1, <3>2 DEF CallHolds
  <2>21. CleanCall(c)'
    <3>1. o.clean /\ o.op = "import" => graph'[d] = v
      BY <1>1, <1>2, <1>3, <1>5 DEF CleanCall
    <3>2. Active(d)' = v
      BY <1>6, <2>6, <2>9, <2>12, <2>13 DEF Active
    <3>. QED  BY <2>3, <2>6, <3>1, <3>2 DEF CleanCall
  <2>22. graph' \in [Datasources -> Versions]
    BY <1>1, <1>3 DEF ExcelTypeOK
  <2>. QED  BY <1>0, <1>2, <1>3, <1>6, <2>2, <2>3, <2>5, <2>15, <2>16, <2>17, <2>18, <2>19,
               <2>20, <2>21, <2>22, StoreStep
<1>. QED  BY <1>0, <1>4, <1>5, <1>6 DEF CommitScan

LEMMA KeptByRemove ==
    ASSUME Repeatable, NEW t \in Threads, Remove(t)
    PROVE  Repeatable'
<1>0. PICK o : o = call[t]
  OBVIOUS
<1>1. /\ CallSound(o) /\ CallHolds(o) /\ ExcelTypeOK
      /\ ManifestsSound /\ WrittenOnce /\ ReadyIsComplete
      /\ \A e \in Datasources : RowSound(e)
  BY <1>0 DEF Repeatable
<1>2. o.pc = "remove" /\ o.source \in Datasources /\ source[o.source] # None
  BY <1>0, <1>1 DEF Remove, At, CallSound, CallHolds, Sourced
<1>3. UNCHANGED <<disk, graph, doubled, crashes>> /\ Return(t)
  BY DEF Remove, bounds
<1>4. CASE UNCHANGED source
  BY <1>0, <1>2, <1>3, <1>4, ReturnStep
<1>5. CASE source' = [source EXCEPT ![o.source] = Gone]
  <2>1. /\ \A e \in Datasources : source'[e] = IF e = o.source THEN Gone ELSE source[e]
        /\ source' \in [Datasources -> Row \cup {None, Gone}]
    BY <1>1, <1>5 DEF ExcelTypeOK
  <2>2. \A e \in Datasources : Exists(e)' <=> e # o.source /\ Exists(e)
    BY <2>1 DEF Exists
  <2>3. \A f \in Files : ReadBy(f)' = ReadBy(f) \ {o.source}
    BY <2>1, <2>2 DEF ReadBy
  <2>4. Grows
    <3>1. \A e \in Datasources : Exists(e) => source[e] \in Row
      BY <1>1, ExistingRow
    <3>2. disk' \in [Files -> Directory]
      BY <1>1, <1>3 DEF ExcelTypeOK
    <3>. QED  BY <1>3, <2>1, <3>1, <3>2 DEF Grows
  <2>5. KeepsSight(t)
    BY <1>3, <2>3 DEF KeepsSight
  <2>6. \A e \in Datasources : RowSound(e)'
    BY <1>1, <2>1, <2>2 DEF RowSound
  <2>7. ManifestsSound' /\ WrittenOnce'
    BY <1>1, <1>3, <2>3 DEF ManifestsSound, WrittenOnce
  <2>8. ReadyIsComplete'
    <3>1. ASSUME NEW e \in Datasources, Exists(e)'
          PROVE  disk'[source'[e].file].sqlite > 0
      BY <1>1, <1>3, <2>1, <2>2, <3>1 DEF ReadyIsComplete
    <3>2. ASSUME NEW f \in Files, NEW m, m = disk'[f].manifest, m # None, m.status = "READY"
          PROVE  /\ disk'[f].source /\ disk'[f].sqlite > 0
                 /\ \/ source'[m.source] = Gone
                    \/ m.source \in ReadBy(f)' /\ m.version \in source'[m.source].versions
      <4>1. m = disk[f].manifest
        BY <1>3, <3>2
      <4>2. m.source \in Datasources
        BY <1>1, <3>2, <4>1 DEF ManifestsSound
      <4>3. /\ disk[f].source /\ disk[f].sqlite > 0
            /\ \/ source[m.source] = Gone
               \/ m.source \in ReadBy(f) /\ m.version \in source[m.source].versions
        BY <1>1, <3>2, <4>1 DEF ReadyIsComplete
      <4>. QED  BY <1>3, <2>1, <2>3, <4>2, <4>3
    <3>. QED  BY <3>1, <3>2 DEF ReadyIsComplete
  <2>9. PICK c : c = Idle
    OBVIOUS
  <2>10. call' = [call EXCEPT ![t] = c] /\ staged' = staged \ {t}
    BY <1>3, <2>9 DEF Return
  <2>11. CallSound(c) /\ CallHolds(c)' /\ CleanCall(c)' /\ ~c.clean
    BY <2>9, IdleIsSound
  <2>12. graph' \in [Datasources -> Versions]
    BY <1>1, <1>3 DEF ExcelTypeOK
  <2>. QED  BY <1>0, <1>2, <1>3, <2>4, <2>5, <2>6, <2>7, <2>8, <2>10, <2>11, <2>12, StoreStep
<1>. QED  BY <1>0, <1>4, <1>5 DEF Remove

-----------------------------------------------------------------------------
(* Writing to the graph *)

LEMMA KeptByPublishGraph ==
    ASSUME Repeatable, NEW t \in Threads, PublishGraph(t)
    PROVE  Repeatable'
<1>0. PICK o : o = call[t]
  OBVIOUS
<1>1. CallSound(o) /\ CallHolds(o) /\ CleanCall(o) /\ o \in Call /\ ExcelTypeOK
  BY <1>0 DEF Repeatable, CallSound
<1>2. o.pc = "publish" /\ o.op \in {"import", "scan"} /\ o.source \in Datasources
  BY <1>0, <1>1 DEF PublishGraph, At, CallSound, ScanStep, Sourced
<1>3. UNCHANGED <<disk, source, doubled, crashes>>
  BY DEF PublishGraph, bounds
<1>4. CASE UNCHANGED graph /\ Fails(t)
  BY <1>0, <1>2, <1>3, <1>4, FailsStep
<1>5. CASE /\ graph' = [graph EXCEPT ![o.source] = o.version]
           /\ Goto(t, "commit") /\ UNCHANGED staged
  <2>1. PICK c : c = [o EXCEPT !.pc = "commit", !.clean = o.clean]
    OBVIOUS
  <2>2. call' = [call EXCEPT ![t] = c] /\ o.clean \in BOOLEAN
    BY <1>0, <1>1, <1>5, <2>1, Went
  <2>3. /\ c.pc = "commit" /\ c.op = o.op /\ c.file = o.file /\ c.source = o.source
        /\ c.version = o.version /\ c.clean = o.clean
    BY <1>1, <1>2, <2>1, <2>2 DEF Call
  <2>4. c \in Call
    BY <1>1, <2>1, <2>2 DEF Call, ScanStep
  <2>5. CallSound(c)
    BY <1>1, <1>2, <2>3, <2>4 DEF CallSound, ImportStep, ScanStep
  <2>6. CallHolds(c)
    BY <1>1, <1>2, <2>3 DEF CallHolds, Kept, Written, Owned, ScanStep, Sourced
  <2>7. CallHolds(c)'
    BY <1>3, <2>6 DEF CallHolds, ReadBy, Exists
  <2>8. graph' \in [Datasources -> Versions] /\ graph'[o.source] = o.version
    BY <1>1, <1>2, <1>5 DEF ExcelTypeOK, Call
  <2>9. CleanCall(c)'
    <3>1. o.clean /\ o.op = "import" => Exists(o.source)'
      BY <1>1, <1>2, <1>3 DEF CleanCall, Exists
    <3>. QED  BY <2>3, <2>8, <3>1 DEF CleanCall
  <2>. QED  BY <1>0, <1>2, <1>3, <1>5, <2>2, <2>3, <2>5, <2>7, <2>8, <2>9, GraphStep
<1>. QED  BY <1>0, <1>4, <1>5 DEF PublishGraph

LEMMA KeptByUnpublish ==
    ASSUME Repeatable, NEW t \in Threads, Unpublish(t)
    PROVE  Repeatable'
<1>0. PICK o : o = call[t]
  OBVIOUS
<1>1. CallSound(o) /\ CallHolds(o) /\ o \in Call /\ ExcelTypeOK
  BY <1>0 DEF Repeatable, CallSound
<1>2. o.pc = "unpublish" /\ o.op = "delete" /\ o.source \in Datasources
  BY <1>0, <1>1 DEF Unpublish, At, CallSound, Sourced
<1>3. UNCHANGED <<disk, source, doubled, crashes>>
  BY DEF Unpublish, bounds
<1>4. CASE UNCHANGED graph /\ Return(t)
  BY <1>0, <1>2, <1>3, <1>4, ReturnStep
<1>5. CASE graph' = [graph EXCEPT ![o.source] = 0] /\ Goto(t, "remove") /\ UNCHANGED staged
  <2>1. PICK c : c = [o EXCEPT !.pc = "remove", !.clean = o.clean]
    OBVIOUS
  <2>2. call' = [call EXCEPT ![t] = c] /\ o.clean \in BOOLEAN
    BY <1>0, <1>1, <1>5, <2>1, Went
  <2>3. /\ c.pc = "remove" /\ c.op = "delete" /\ c.file = o.file /\ c.source = o.source
        /\ c.clean = o.clean
    BY <1>1, <1>2, <2>1, <2>2 DEF Call
  <2>4. c \in Call
    BY <1>1, <2>1, <2>2 DEF Call
  <2>5. CallSound(c)
    BY <1>1, <1>2, <2>3, <2>4 DEF CallSound, ImportStep, ScanStep
  <2>6. CallHolds(c)'
    <3>1. source'[o.source] # None
      BY <1>1, <1>2, <1>3 DEF CallHolds, Sourced
    <3>. QED  BY <2>3, <3>1 DEF CallHolds
  <2>7. CleanCall(c)'
    BY <2>3 DEF CleanCall
  <2>8. graph' \in [Datasources -> Versions]
    <3>1. 0 \in Versions
      BY BoundsAssumption DEF Versions
    <3>. QED  BY <1>1, <1>5, <3>1 DEF ExcelTypeOK
  <2>. QED  BY <1>0, <1>2, <1>3, <1>5, <2>2, <2>3, <2>5, <2>6, <2>7, <2>8, GraphStep
<1>. QED  BY <1>0, <1>4, <1>5 DEF Unpublish

-----------------------------------------------------------------------------
(* Calls that begin, and the end of the process *)

\* A call begins: nobody else is clean from now on, and it is when it is alone.
LEMMA BeginStep ==
    ASSUME Repeatable, NEW t \in Threads, NEW op, NEW f, NEW d, NEW pc, Begin(t, op, f, d, pc),
           \/ op = "import" /\ f \in Files /\ d = None /\ pc = "reuse"
           \/ op = "scan" /\ f = None /\ d \in Datasources /\ Exists(d) /\ pc = "job"
           \/ op = "delete" /\ f = None /\ d \in Datasources /\ Exists(d) /\ pc = "unpublish",
           UNCHANGED staged \/ (op = "import" /\ staged' = staged \cup {t})
    PROVE  Repeatable'
<1>1. /\ ExcelTypeOK /\ crashes \in Nat
      /\ \A u \in Threads : CallSound(call[u]) /\ CallHolds(call[u])
      /\ \A e \in Datasources : RowSound(e)
      /\ CleanIsAlone /\ ManifestsSound /\ WrittenOnce /\ ReadyIsComplete
  BY DEF Repeatable
<1>2. UNCHANGED <<disk, source, graph, doubled, crashes>> /\ call[t].pc = "idle"
  BY DEF Begin, At
<1>3. PICK b \in BOOLEAN : b = (/\ \A v \in Threads : At(v, "idle")
                                /\ f \in Files => ~Torn(f))
  OBVIOUS
<1>4. PICK c : c = [Idle EXCEPT !.pc = pc, !.op = op, !.file = f, !.source = d, !.clean = b]
  OBVIOUS
<1>5. \A u \in Threads : call'[u] = IF u = t THEN c ELSE [call[u] EXCEPT !.clean = FALSE]
  BY <1>3, <1>4 DEF Begin
<1>6. /\ c.pc = pc /\ c.op = op /\ c.file = f /\ c.source = d /\ c.clean = b
      /\ c \in Call
  <2>1. 0 \in Versions
    BY BoundsAssumption DEF Versions
  <2>2. c = [pc |-> pc, op |-> op, file |-> f, source |-> d, version |-> 0,
             retry |-> FALSE, clean |-> b]
    BY ZenonT(60), <1>4 DEF Idle
  <2>3. pc \in {"reuse", "job", "unpublish"} /\ op \in {"import", "scan", "delete"}
        /\ f \in Files \cup {None} /\ d \in Datasources \cup {None}
    OBVIOUS
  <2>. QED  BY <1>3, <2>1, <2>2, <2>3 DEF Call, ImportStep, ScanStep
<1>7. CallSound(c)
  BY <1>6, FilesAssumption DEF CallSound, ImportStep, ScanStep, Sourced
<1>8. CallHolds(c)'
  <2>1. pc \in {"job", "unpublish"} => source'[d] # None
    BY <1>2 DEF Exists
  <2>. QED  BY <1>6, <2>1 DEF CallHolds, Kept, Written, Owned, Sourced, ScanStep
<1>9. CleanCall(c)'
  <2>1. c.clean /\ op = "import" => ~Torn(f)'
    BY <1>2, <1>3, <1>6 DEF Torn, Active, ReadBy, Exists
  <2>. QED  BY <1>6, <2>1 DEF CleanCall
<1>10. ASSUME NEW u \in Threads, u # t
       PROVE  /\ call'[u] \in Call /\ ~call'[u].clean
              /\ call'[u].pc = call[u].pc /\ call'[u].op = call[u].op
              /\ call'[u].file = call[u].file /\ call'[u].source = call[u].source
              /\ call'[u].version = call[u].version
  <2>1. call'[u] = [call[u] EXCEPT !.clean = FALSE] /\ call[u] \in Call
    BY <1>1, <1>5, <1>10 DEF CallSound
  <2>. QED  BY <2>1 DEF Call
<1>11. ASSUME NEW u \in Threads
       PROVE  CallSound(call[u])' /\ CallHolds(call[u])' /\ CleanCall(call[u])'
  <2>1. CASE u = t
    <3>1. call'[u] = c
      BY <1>5, <2>1
    <3>. QED  BY <1>7, <1>8, <1>9, <3>1 DEF CallSound, CallHolds, CleanCall
  <2>2. CASE u # t
    <3>1. PICK o, n : o = call[u] /\ n = call'[u]
      OBVIOUS
    <3>2. /\ n \in Call /\ ~n.clean /\ n.pc = o.pc /\ n.op = o.op /\ n.file = o.file
          /\ n.source = o.source /\ n.version = o.version /\ CallSound(o) /\ CallHolds(o)
      BY <1>1, <1>10, <2>2, <3>1
    <3>3. CallSound(n)
      BY <3>2 DEF CallSound
    <3>4. CallHolds(n)
      BY <3>2 DEF CallHolds
    <3>5. CallHolds(n)'
      BY <1>2, <3>4 DEF CallHolds, ReadBy, Exists
    <3>6. CleanCall(n)'
      BY <3>2 DEF CleanCall
    <3>. QED  BY <3>1, <3>3, <3>5, <3>6 DEF CallSound, CallHolds, CleanCall
  <2>. QED  BY <2>1, <2>2
<1>12. ExcelTypeOK' /\ crashes' \in Nat
  <2>1. call' \in [Threads -> Call]
    <3>1. call' = [u \in Threads |-> call'[u]]
      BY DEF Begin
    <3>2. \A u \in Threads : call'[u] \in Call
      BY <1>11 DEF CallSound
    <3>. QED  BY <3>1, <3>2
  <2>2. crashes' = 0 => \A u \in staged' : call'[u].op = "import"
    <3>. SUFFICES ASSUME crashes' = 0, NEW u \in staged'  PROVE call'[u].op = "import"
      OBVIOUS
    <3>1. CASE u = t
      <4>1. u \in staged => call[u].op = "import"
        BY <1>1, <1>2 DEF ExcelTypeOK
      <4>2. u \in staged => FALSE
        BY <1>1, <1>2, <3>1, <4>1 DEF CallSound
      <4>. QED  BY <1>5, <1>6, <3>1, <4>2
    <3>2. CASE u # t
      <4>1. u \in Threads /\ call[u].op = "import"
        BY <1>1, <1>2, <3>2 DEF ExcelTypeOK
      <4>. QED  BY <1>10, <3>2, <4>1
    <3>. QED  BY <3>1, <3>2
  <2>. QED  BY <1>1, <1>2, <2>1, <2>2 DEF ExcelTypeOK
<1>13. CleanIsAlone'
  <2>. SUFFICES ASSUME NEW u \in Threads, NEW v \in Threads, call'[u].clean, u # v
                PROVE  call'[v].pc = "idle"
    BY DEF CleanIsAlone
  <2>1. u = t
    BY <1>10
  <2>2. \A w \in Threads : At(w, "idle")
    BY <1>3, <1>5, <1>6, <2>1
  <2>. QED  BY <1>10, <2>1, <2>2 DEF At
<1>14. /\ \A e \in Datasources : RowSound(e)'
       /\ ManifestsSound' /\ WrittenOnce'
  BY <1>1, <1>2 DEF RowSound, Exists, ManifestsSound, WrittenOnce, ReadBy
<1>15. ReadyIsComplete'
  BY <1>1, <1>2 DEF ReadyIsComplete, ReadBy, Exists
<1>. QED  BY <1>11, <1>12, <1>13, <1>14, <1>15 DEF Repeatable

\* The process dies: the stores are as they were, and nobody calls.
LEMMA KeptByCrash ==
    ASSUME Repeatable, Crash
    PROVE  Repeatable'
<1>1. /\ ExcelTypeOK /\ crashes \in Nat
      /\ \A e \in Datasources : RowSound(e)
      /\ ManifestsSound /\ WrittenOnce /\ ReadyIsComplete
  BY DEF Repeatable
<1>2. UNCHANGED <<disk, source, graph, staged, doubled>> /\ crashes' = crashes + 1
  BY DEF Crash
<1>3. PICK c : c = Idle
  OBVIOUS
<1>4. CallSound(c) /\ CallHolds(c)' /\ CleanCall(c)' /\ ~c.clean /\ c \in Call
  <2>1. CallSound(c) /\ CallHolds(c)' /\ CleanCall(c)' /\ ~c.clean
    BY <1>3, IdleIsSound
  <2>. QED  BY <2>1 DEF CallSound
<1>5. call' = [u \in Threads |-> c]
  BY <1>3 DEF Crash
<1>6. ASSUME NEW u \in Threads
      PROVE  CallSound(call[u])' /\ CallHolds(call[u])' /\ CleanCall(call[u])'
  <2>1. call'[u] = c
    BY <1>5
  <2>. QED  BY <1>4, <2>1 DEF CallSound, CallHolds, CleanCall
<1>7. ExcelTypeOK' /\ crashes' \in Nat
  <2>1. call' \in [Threads -> Call] /\ crashes' \in Nat /\ crashes' # 0
    BY <1>1, <1>2, <1>4, <1>5
  <2>. QED  BY <1>1, <1>2, <2>1 DEF ExcelTypeOK
<1>8. CleanIsAlone'
  BY <1>4, <1>5 DEF CleanIsAlone
<1>9. /\ \A e \in Datasources : RowSound(e)'
      /\ ManifestsSound' /\ WrittenOnce'
  BY <1>1, <1>2 DEF RowSound, Exists, ManifestsSound, WrittenOnce, ReadBy
<1>10. ReadyIsComplete'
  BY <1>1, <1>2 DEF ReadyIsComplete, ReadBy, Exists
<1>. QED  BY <1>6, <1>7, <1>8, <1>9, <1>10 DEF Repeatable

-----------------------------------------------------------------------------
(* Imports can be repeated *)

LEMMA InitIsRepeatable ==
    ASSUME Init
    PROVE  Repeatable
<1>1. PICK c : c = Idle
  OBVIOUS
<1>2. CallSound(c) /\ CallHolds(c) /\ CleanCall(c) /\ ~c.clean /\ c \in Call
  <2>1. CallSound(c) /\ CallHolds(c) /\ CleanCall(c) /\ ~c.clean
    BY <1>1, IdleIsSound
  <2>. QED  BY <2>1 DEF CallSound
<1>3. \A t \in Threads : call[t] = c
  BY <1>1 DEF Init
<1>4. \A t \in Threads : CallSound(call[t]) /\ CallHolds(call[t]) /\ CleanCall(call[t])
  BY <1>2, <1>3
<1>5. CleanIsAlone
  BY <1>2, <1>3 DEF CleanIsAlone
<1>6. PICK g : g = [source |-> FALSE, sqlite |-> 0, manifest |-> None]
  OBVIOUS
<1>7. g \in Directory /\ g.sqlite = 0 /\ g.manifest = None
  BY <1>6 DEF Directory
<1>8. disk = [f \in Files |-> g]
  BY <1>6 DEF Init
<1>9. \A d \in Datasources : ~Exists(d)
  BY DEF Init, Exists
<1>10. ExcelTypeOK /\ crashes \in Nat
  <2>1. 0 \in Versions
    BY BoundsAssumption DEF Versions
  <2>2. call \in [Threads -> Call]
    BY <1>1, <1>2 DEF Init
  <2>. QED  BY <1>7, <1>8, <2>1, <2>2 DEF Init, ExcelTypeOK
<1>11. \A d \in Datasources : RowSound(d)
  BY <1>9 DEF RowSound
<1>12. ManifestsSound /\ WrittenOnce
  BY <1>7, <1>8, <1>9 DEF ManifestsSound, WrittenOnce, ReadBy
<1>13. ReadyIsComplete
  BY <1>7, <1>8, <1>9 DEF ReadyIsComplete
<1>. QED  BY <1>4, <1>5, <1>10, <1>11, <1>12, <1>13 DEF Repeatable

\* Doing nothing keeps everything.
LEMMA KeptByStuttering ==
    ASSUME Repeatable, UNCHANGED vars
    PROVE  Repeatable'
<1>1. /\ ExcelTypeOK /\ crashes \in Nat
      /\ \A u \in Threads : CallSound(call[u]) /\ CallHolds(call[u]) /\ CleanCall(call[u])
      /\ \A e \in Datasources : RowSound(e)
      /\ CleanIsAlone /\ ManifestsSound /\ WrittenOnce /\ ReadyIsComplete
  BY DEF Repeatable
<1>2. UNCHANGED <<disk, source, graph, staged, call, doubled, crashes>>
  BY DEF vars
<1>3. ASSUME NEW u \in Threads
      PROVE  CallSound(call[u])' /\ CallHolds(call[u])' /\ CleanCall(call[u])'
  <2>1. CallSound(call[u]) /\ CallHolds(call[u]) /\ CleanCall(call[u])
    BY <1>1
  <2>2. CallSound(call[u])'
    BY <1>2, <2>1 DEF CallSound
  <2>3. CallHolds(call[u])'
    BY SMTT(60), <1>2, <2>1 DEF CallHolds, ReadBy, Exists
  <2>4. CleanCall(call[u])'
    BY <1>2, <2>1 DEF CleanCall, Torn, Active, ReadBy, Exists
  <2>. QED  BY <2>2, <2>3, <2>4
<1>4. ExcelTypeOK' /\ crashes' \in Nat /\ CleanIsAlone' /\ ManifestsSound'
  BY <1>1, <1>2 DEF ExcelTypeOK, CleanIsAlone, ManifestsSound
<1>5. /\ \A e \in Datasources : RowSound(e)'
      /\ WrittenOnce'
  BY <1>1, <1>2 DEF RowSound, Exists, WrittenOnce, ReadBy
<1>6. ReadyIsComplete'
  BY <1>1, <1>2 DEF ReadyIsComplete, ReadBy, Exists
<1>. QED  BY <1>3, <1>4, <1>5, <1>6 DEF Repeatable

\* What the threads have in hand agrees with the directories, the catalog and the graph, and
\* what a clean import saw stays so, whoever imports, scans, deletes or crashes.
THEOREM ExcelInvariant == Spec => []Repeatable
<1>1. Init => Repeatable
  BY InitIsRepeatable
<1>2. Repeatable /\ [Next]_vars => Repeatable'
  <2>. SUFFICES ASSUME Repeatable, [Next]_vars  PROVE Repeatable'
    OBVIOUS
  <2>1. ASSUME NEW t \in Threads, NEW f \in Files, Upload(t, f) \/ ImportFile(t, f)
        PROVE  Repeatable'
    BY <2>1, BeginStep DEF Upload, ImportFile
  <2>2. ASSUME NEW t \in Threads, NEW d \in Datasources, ScanDatasource(t, d) \/ DeleteDatasource(t, d)
        PROVE  Repeatable'
    BY <2>2, BeginStep DEF ScanDatasource, DeleteDatasource
  <2>3. ASSUME NEW t \in Threads, Step(t)
        PROVE  Repeatable'
    BY <2>3, KeptByReadManifest, KeptByConfirm, KeptByRecheck, KeptByRefuse, KeptByReadPrevious,
       KeptByWriteSource, KeptByValidate, KeptByCheckFinalized, KeptByMaterialize, KeptByFind,
       KeptByCreateDatasource, KeptByBeginJob, KeptByReadDatabase, KeptByPublishGraph,
       KeptByCommitScan, KeptByFinishJob, KeptByReadSnapshot, KeptByVerify, KeptByFinish,
       KeptByRecordFailure, KeptByUnpublish, KeptByRemove DEF Step
  <2>4. CASE Crash
    BY <2>4, KeptByCrash
  <2>5. CASE UNCHANGED vars
    BY <2>5, KeptByStuttering
  <2>. QED  BY <2>1, <2>2, <2>3, <2>4, <2>5 DEF Next
<1>. QED  BY <1>1, <1>2, PTL DEF Spec

\* An undisturbed import succeeds, what was imported is there once unless two imports
\* overlapped, and a READY manifest tells the truth, in every reachable state.
THEOREM ImportsCanBeRepeated == Spec => []ImportsAreRepeatable
<1>1. Repeatable => ImportsAreRepeatable
  <2>. SUFFICES ASSUME Repeatable  PROVE ImportsAreRepeatable
    OBVIOUS
  <2>1. UndisturbedImportsSucceed
    <3>. SUFFICES ASSUME NEW t \in Threads, call[t].clean, call[t].file \in Importable
                  PROVE  call[t].pc \notin {"fail", "refuse"}
      BY DEF UndisturbedImportsSucceed
    <3>1. CallSound(call[t]) /\ CleanCall(call[t])
      BY DEF Repeatable
    <3>2. call[t].op = "import"
      BY <3>1, FilesAssumption DEF CallSound
    <3>. QED  BY <3>1, <3>2 DEF CleanCall
  <2>2. ImportedOnce
    <3>. SUFFICES ASSUME NEW f \in Files \ doubled
                  PROVE  disk[f].sqlite <= 1 /\ Cardinality(ReadBy(f)) <= 1
      BY DEF ImportedOnce
    <3>1. disk[f].sqlite <= 1 /\ \A d, e \in ReadBy(f) : d = e
      BY DEF Repeatable, WrittenOnce
    <3>. QED  BY <3>1, AtMostOne
  <2>. QED  BY <2>1, <2>2 DEF Repeatable, ImportsAreRepeatable
<1>. QED  BY <1>1, ExcelInvariant, PTL

=============================================================================
