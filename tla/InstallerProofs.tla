--------------------------- MODULE InstallerProofs ---------------------------
(***************************************************************************)
(* Consistent is an inductive invariant of Installer, hence what this      *)
(* checkout has stored stays readable and a setup that exits with 0 leaves *)
(* a workspace that works, whatever the number of setups, wherever they    *)
(* stop and whatever the operator and the other checkout do in between.    *)
(***************************************************************************)
EXTENDS Installer, TLAPS

-----------------------------------------------------------------------------
(* Checks and environments *)

\* The order of the checks (run_setup()).
LEMMA CheckOrder ==
    /\ Len(Checks) = 13 /\ DOMAIN Checks = 1..13
    /\ Checks[1] = "python" /\ Checks[2] = "docker" /\ Checks[3] = "uv" /\ Checks[4] = "node"
    /\ Checks[5] = "file" /\ Checks[6] = "secrets" /\ Checks[7] = "packages"
    /\ Checks[8] = "frontend" /\ Checks[9] = "model" /\ Checks[10] = "neo4j"
    /\ Checks[11] = "login" /\ Checks[12] = "web" /\ Checks[13] = "browser"
BY DEF Checks

\* No check runs twice.
LEMMA ChecksDiffer == \A i, j \in DOMAIN Checks : Checks[i] = Checks[j] => i = j
<1>. SUFFICES ASSUME NEW i \in 1..13, NEW j \in 1..13, Checks[i] = Checks[j]  PROVE i = j
  BY CheckOrder
<1>1. i \in {1, 2, 3, 4, 5, 6, 7, 8, 9, 10, 11, 12, 13}
  OBVIOUS
<1>2. j \in {1, 2, 3, 4, 5, 6, 7, 8, 9, 10, 11, 12, 13}
  OBVIOUS
<1>. QED  BY <1>1, <1>2, CheckOrder

\* The names of the checks.
LEMMA CheckNamed ==
    CheckNames = {"python", "docker", "uv", "node", "file", "secrets", "packages", "frontend",
                  "model", "neo4j", "login", "web", "browser"}
<1>1. \A i \in 1..13 : i \in {1, 2, 3, 4, 5, 6, 7, 8, 9, 10, 11, 12, 13}
  OBVIOUS
<1>. QED  BY <1>1, CheckOrder DEF CheckNames

\* Values that are no key, and keys that are.
LEMMA ValueFacts ==
    /\ Blank \in Values /\ Other \in Values /\ MaxSetups + 2 \in Values
    /\ 0..MaxSetups \subseteq Values /\ 1..Other \subseteq Values
    /\ ~Usable(Blank) /\ Usable(Other) /\ ~Usable(MaxSetups + 2)
    /\ \A v \in Values : v # Blank /\ ~Usable(v) => v = MaxSetups + 2
    /\ \A n \in 1..MaxSetups : Usable(n) /\ n # Other /\ n # Blank
BY SetupsAssumption DEF Blank, Other, Values, Usable

\* AppendValues() of the graph's fields: they have values then, the others are as they were.
LEMMA AppendGraph ==
    ASSUME NEW e \in Environments, NEW n \in 1..MaxSetups,
           NEW new, new = AppendValues(e, [uri |-> 1, password |-> n])
    PROVE  /\ new \in Environments
           /\ Blank \notin {new.uri, new.password}
           /\ e.password # Blank => new.password = e.password
           /\ new.there = e.there /\ new.store = e.store /\ new.key = e.key /\ new.model = e.model
<1>1. DOMAIN e = {"there", "uri", "password", "store", "key", "model"}
  BY DEF Environments
<1>2. new = [f \in {"there", "uri", "password", "store", "key", "model"} |->
                IF f \in {"uri", "password"} /\ e[f] = Blank
                THEN [uri |-> 1, password |-> n][f] ELSE e[f]]
  BY <1>1 DEF AppendValues
<1>3. /\ new.there = e.there /\ new.store = e.store /\ new.key = e.key /\ new.model = e.model
      /\ new.uri = IF e.uri = Blank THEN 1 ELSE e.uri
      /\ new.password = IF e.password = Blank THEN n ELSE e.password
  BY <1>2
<1>4. new = [there |-> new.there, uri |-> new.uri, password |-> new.password,
             store |-> new.store, key |-> new.key, model |-> new.model]
  BY <1>2
<1>5. /\ new.there \in BOOLEAN /\ new.uri \in {0, 1} /\ new.password \in Values
      /\ new.store \in {0, 1} /\ new.key \in Values /\ new.model \in {0, 1}
  BY <1>3, ValueFacts, SetupsAssumption DEF Environments, Values
<1>6. new \in Environments
  BY <1>4, <1>5 DEF Environments
<1>. QED  BY <1>3, <1>6, SetupsAssumption DEF Blank

\* AppendValues() of the store and its key.
LEMMA AppendStore ==
    ASSUME NEW e \in Environments, NEW n \in 1..MaxSetups,
           NEW new, new = AppendValues(e, [store |-> 1, key |-> n])
    PROVE  /\ new \in Environments
           /\ new.store # Blank
           /\ e.key = Blank => new.key = n
           /\ e.key # Blank => new.key = e.key
           /\ new.there = e.there /\ new.uri = e.uri /\ new.password = e.password
           /\ new.model = e.model
<1>1. DOMAIN e = {"there", "uri", "password", "store", "key", "model"}
  BY DEF Environments
<1>2. new = [f \in {"there", "uri", "password", "store", "key", "model"} |->
                IF f \in {"store", "key"} /\ e[f] = Blank
                THEN [store |-> 1, key |-> n][f] ELSE e[f]]
  BY <1>1 DEF AppendValues
<1>3. /\ new.there = e.there /\ new.uri = e.uri /\ new.password = e.password
      /\ new.model = e.model
      /\ new.store = IF e.store = Blank THEN 1 ELSE e.store
      /\ new.key = IF e.key = Blank THEN n ELSE e.key
  BY <1>2
<1>4. new = [there |-> new.there, uri |-> new.uri, password |-> new.password,
             store |-> new.store, key |-> new.key, model |-> new.model]
  BY <1>2
<1>5. /\ new.there \in BOOLEAN /\ new.uri \in {0, 1} /\ new.password \in Values
      /\ new.store \in {0, 1} /\ new.key \in Values /\ new.model \in {0, 1}
  BY <1>3, ValueFacts, SetupsAssumption DEF Environments, Values
<1>6. new \in Environments
  BY <1>4, <1>5 DEF Environments
<1>. QED  BY <1>3, <1>6 DEF Blank

\* AppendValues() of the model.
LEMMA AppendModel ==
    ASSUME NEW e \in Environments, NEW new, new = AppendValues(e, [model |-> 1])
    PROVE  /\ new \in Environments
           /\ new.there = e.there /\ new.uri = e.uri /\ new.password = e.password
           /\ new.store = e.store /\ new.key = e.key
<1>1. DOMAIN e = {"there", "uri", "password", "store", "key", "model"}
  BY DEF Environments
<1>2. new = [f \in {"there", "uri", "password", "store", "key", "model"} |->
                IF f \in {"model"} /\ e[f] = Blank THEN [model |-> 1][f] ELSE e[f]]
  BY <1>1 DEF AppendValues
<1>3. /\ new.there = e.there /\ new.uri = e.uri /\ new.password = e.password
      /\ new.store = e.store /\ new.key = e.key
      /\ new.model = IF e.model = Blank THEN 1 ELSE e.model
  BY <1>2
<1>4. new = [there |-> new.there, uri |-> new.uri, password |-> new.password,
             store |-> new.store, key |-> new.key, model |-> new.model]
  BY <1>2
<1>. QED  BY <1>3, <1>4 DEF Environments

-----------------------------------------------------------------------------
(* What a check may do *)

\* A check takes nothing away: tools, services and what the file says stay, and a key
\* comes into the file only while the store is empty.  None puts a Node on PATH.
OnlyAdds ==
    /\ have \subseteq have' /\ have' \subseteq Tools
    /\ "node" \in have' => "node" \in have
    /\ file' \in Environments
    /\ file.there => file'.there
    /\ ~file'.there => file' = file
    /\ file.uri # Blank => file'.uri # Blank
    /\ file.store # Blank => file'.store # Blank
    /\ file.password # Blank => file'.password = file.password
    /\ file.key # Blank => file'.key = file.key
    /\ docs = {} \/ file'.key = file.key
    /\ file'.key # Blank /\ ~Usable(file'.key) => file'.store # Blank
    /\ volume' \in Values
    /\ bolt' \in BOOLEAN /\ (bolt => bolt')
    /\ bolt' => {"docker", "daemon"} \subseteq have'
    /\ backend' = backend \/ (~backend.there /\ backend' = file)
    /\ frontend' \in BOOLEAN /\ (frontend => frontend')
    /\ UNCHANGED <<docs, setups, settled>>

\* What the login depends on, once it has been tried.
LoginStands ==
    /\ file'.password = file.password /\ volume' = volume
    /\ {"venv", "driver"} \subseteq have' => {"venv", "driver"} \subseteq have

\* Check c reports s.
Reports(c, s, fresh) ==
    /\ setup' = [setup EXCEPT !.at = @ + 1, !.status[c] = s, !.env = file', !.fresh = fresh]
    /\ OnlyAdds
    /\ setup.at > 10 => LoginStands
    /\ c = "file" /\ ~setup.dry => file'.there
    /\ ~setup.dry /\ s # "blocked" => Vouched(c)'
    /\ settled => /\ LoginStands /\ ~fresh
                  /\ c \notin {"model", "browser"} =>
                         s \in {"ok", "skipped"} \/ (c = "node" /\ "node" \notin have)

\* The fields of the setup after a report.
LEMMA ReportedFields ==
    ASSUME Consistent, NEW c \in CheckNames, At(c), NEW s \in Statuses \ {"none"},
           NEW fresh \in BOOLEAN, Reports(c, s, fresh)
    PROVE  /\ setup.at \in 1..13 /\ c = Checks[setup.at] /\ Running
           /\ setup'.at = setup.at + 1 /\ setup'.dry = setup.dry /\ setup'.fresh = fresh
           /\ setup'.env = file'
           /\ \A d \in CheckNames : setup'.status[d] = IF d = c THEN s ELSE setup.status[d]
           /\ setup'.status \in [CheckNames -> Statuses]
<1>1. setup.at \in 1..13 /\ c = Checks[setup.at]
  BY CheckOrder DEF At
<1>2. setup.status \in [CheckNames -> Statuses]
  BY DEF Consistent, InstallerTypeOK
<1>3. Running
  BY <1>1 DEF Running
<1>4. /\ setup'.at = setup.at + 1 /\ setup'.dry = setup.dry /\ setup'.fresh = fresh
      /\ setup'.env = file' /\ setup'.status = [setup.status EXCEPT ![c] = s]
  BY DEF Reports
<1>. QED  BY <1>1, <1>2, <1>3, <1>4

\* What is vouched for stays so.
LEMMA VouchedStays ==
    ASSUME Consistent, OnlyAdds, NEW d \in CheckNames, Vouched(d), d = "login" => LoginStands
    PROVE  Vouched(d)'
<1>1. /\ file.there => file'.there
      /\ file.uri # Blank => file'.uri # Blank
      /\ file.store # Blank => file'.store # Blank
      /\ file.password # Blank => file'.password = file.password
      /\ Usable(file.key) => file'.key = file.key
      /\ have \subseteq have' /\ (bolt => bolt') /\ (frontend => frontend')
      /\ backend.there => backend'.there
  BY ValueFacts DEF OnlyAdds
<1>2. d = "login" =>
        /\ file'.password = file.password /\ volume' = volume
        /\ {"venv", "driver"} \subseteq have' => {"venv", "driver"} \subseteq have
  BY DEF LoginStands
<1>3. CASE d = "login"
  BY <1>2, <1>3 DEF Vouched
<1>4. CASE d \in {"file", "secrets"}
  BY <1>1, <1>4 DEF Vouched, Usable
<1>5. CASE d \in {"uv", "packages", "frontend", "neo4j", "web"}
  BY <1>1, <1>5 DEF Vouched
<1>6. CASE d \in {"python", "docker", "node", "model", "browser"}
  BY <1>6 DEF Vouched
<1>. QED  BY <1>3, <1>4, <1>5, <1>6, CheckNamed

\* A report keeps the invariant.
LEMMA ReportKeeps ==
    ASSUME Consistent, NEW c \in CheckNames, At(c), NEW s \in Statuses \ {"none"},
           NEW fresh \in BOOLEAN, Reports(c, s, fresh)
    PROVE  Consistent'
<1>1. /\ setup.at \in 1..13 /\ c = Checks[setup.at] /\ Running
      /\ setup'.at = setup.at + 1 /\ setup'.dry = setup.dry /\ setup'.fresh = fresh
      /\ setup'.env = file'
      /\ \A d \in CheckNames : setup'.status[d] = IF d = c THEN s ELSE setup.status[d]
      /\ setup'.status \in [CheckNames -> Statuses]
  BY ReportedFields
<1>2. OnlyAdds
  BY DEF Reports
<1>3. Consistent
  OBVIOUS
<1>4. InstallerTypeOK' /\ setup' \in Setups
  <2>1. setup' \in Setups
    <3>1. setup \in Setups /\ setup.status \in [CheckNames -> Statuses]
      BY DEF Consistent, Setups
    <3>2. setup' = [at |-> setup.at + 1, dry |-> setup.dry, env |-> file', fresh |-> fresh,
                    status |-> setup'.status]
      BY <3>1, <1>1 DEF Setups, Reports
    <3>3. setup.at + 1 \in 0..(Len(Checks) + 1) /\ setup.dry \in BOOLEAN /\ file' \in Environments
      BY <1>1, <1>2, <3>1, CheckOrder DEF Setups, OnlyAdds
    <3>. QED  BY <1>1, <3>2, <3>3 DEF Setups
  <2>. QED  BY <1>1, <1>2, <2>1, CheckOrder DEF Consistent, InstallerTypeOK, OnlyAdds, Setups
<1>5. FileIsRead' /\ FileMakesSense'
  BY <1>1, <1>2 DEF Consistent, FileIsRead, FileMakesSense, OnlyAdds
<1>6. BackendHasTheKey' /\ OneKey' /\ StoredSecretsStayReadable'
  <2>1. OneKey'
    BY <1>2 DEF Consistent, OneKey, OnlyAdds
  <2>2. BackendHasTheKey'
    BY <1>2 DEF Consistent, BackendHasTheKey, FileMakesSense, Nothing, OnlyAdds
  <2>3. StoredSecretsStayReadable'
    BY <1>2 DEF Consistent, StoredSecretsStayReadable, FileMakesSense, Nothing, OnlyAdds
  <2>. QED  BY <2>1, <2>2, <2>3
<1>7. DockerRuns'
  BY <1>2 DEF Consistent, DockerRuns, OnlyAdds
<1>8. ReportsInOrder'
  <2>. SUFFICES ASSUME NEW i \in DOMAIN Checks
                PROVE  (setup'.status[Checks[i]] # "none") <=> (i < setup'.at)
    BY DEF ReportsInOrder
  <2>1. (setup.status[Checks[i]] # "none") <=> (i < setup.at)
    BY <1>1 DEF Consistent, ReportsInOrder
  <2>2. i = setup.at <=> Checks[i] = c
    BY <1>1, ChecksDiffer, CheckOrder
  <2>3. i \in 1..13 /\ Checks[i] \in CheckNames
    BY CheckOrder DEF CheckNames
  <2>. QED  BY <1>1, <2>1, <2>2, <2>3
<1>9. ReportsStayTrue'
  <2>. SUFFICES ASSUME ~setup'.dry, NEW d \in CheckNames,
                       setup'.status[d] \notin {"none", "blocked"}
                PROVE  Vouched(d)'
    BY DEF ReportsStayTrue
  <2>1. CASE d = c
    BY <1>1, <2>1 DEF Reports
  <2>2. CASE d # c
    <3>1. setup.status[d] \notin {"none", "blocked"}
      BY <1>1, <2>2
    <3>2. Vouched(d)
      BY <1>1, <3>1 DEF Consistent, ReportsStayTrue
    <3>3. d = "login" => setup.at > 10
      BY <1>1, <3>1, CheckOrder DEF Consistent, ReportsInOrder
    <3>4. d = "login" => LoginStands
      BY <3>3 DEF Reports
    <3>. QED  BY <1>2, <3>2, <3>4, VouchedStays
  <2>. QED  BY <2>1, <2>2
<1>10. ReadyToTheEnd'
  <2>. SUFFICES ASSUME settled'  PROVE ReadyMeansReady' /\ ReadyToTheEnd'
    BY DEF ReadyToTheEnd, ReadyMeansReady
  <2>1. settled
    BY <1>2 DEF OnlyAdds
  <2>2. /\ LoginStands /\ ~fresh
        /\ c \notin {"model", "browser"} =>
               s \in {"ok", "skipped"} \/ (c = "node" /\ "node" \notin have)
    BY <2>1 DEF Reports
  <2>3. ReadyMeansReady'
    <3>1. /\ {"uv", "dir", "venv", "vite"} \subseteq have'
          /\ file'.there /\ Usable(file'.key) /\ backend'.there /\ frontend' /\ bolt'
      BY <1>2, <2>1, ValueFacts DEF Consistent, ReadyToTheEnd, ReadyMeansReady, OnlyAdds
    <3>2. "driver" \in have' => file'.password = volume'
      BY <2>1, <2>2, <3>1 DEF Consistent, ReadyToTheEnd, ReadyMeansReady, LoginStands
    <3>3. "node" \notin have => "node" \notin have'
      BY <1>2 DEF OnlyAdds
    <3>4. ASSUME NEW d \in CheckNames \ {"model", "browser"}
          PROVE  \/ setup'.status[d] \in {"none", "ok", "skipped"}
                 \/ d = "node" /\ "node" \notin have'
      BY <1>1, <2>1, <2>2, <3>3 DEF Consistent, ReadyToTheEnd, ReadyMeansReady
    <3>. QED  BY <3>1, <3>2, <3>4 DEF ReadyMeansReady, Usable
  <2>4. Blank \notin {file'.uri, file'.password, file'.store} /\ ~setup'.fresh
    BY <1>1, <1>2, <2>1, <2>2 DEF Consistent, ReadyToTheEnd, OnlyAdds
  <2>. QED  BY <2>3, <2>4 DEF ReadyToTheEnd
<1>11. SetupsCount' /\ FileIsWritten'
  <2>1. SetupsCount'
    BY <1>1, <1>2 DEF Consistent, SetupsCount, OnlyAdds
  <2>2. setup.at = 5 => c = "file"
    BY <1>1, CheckOrder
  <2>3. ASSUME ~setup'.dry, setup'.at > 5  PROVE file'.there
    BY <1>1, <1>2, <2>2, <2>3 DEF Consistent, FileIsWritten, OnlyAdds, Reports
  <2>. QED  BY <2>1, <2>3 DEF FileIsWritten
<1>. QED  BY <1>4, <1>5, <1>6, <1>7, <1>8, <1>9, <1>10, <1>11 DEF Consistent

-----------------------------------------------------------------------------
(* The checks *)

\* What a check that leaves everything but its report alone, or only adds tools, adds.
LEMMA PlainReport ==
    ASSUME Consistent, NEW c \in CheckNames, At(c), NEW s \in Statuses, Report(c, s),
           have \subseteq have', have' \subseteq Tools, "node" \in have' => "node" \in have,
           UNCHANGED file, Keeps, KeepsServices
    PROVE  /\ setup' = [setup EXCEPT !.at = @ + 1, !.status[c] = s, !.env = file', !.fresh = setup.fresh]
           /\ OnlyAdds
           /\ Running /\ setup.env = file /\ setup.fresh \in BOOLEAN
<1>1. Running
  BY CheckOrder DEF At, Running
<1>2. setup.env = file
  BY <1>1 DEF Consistent, FileIsRead
<1>3. setup' = [setup EXCEPT !.at = @ + 1, !.status[c] = s, !.env = file', !.fresh = setup.fresh]
  BY <1>2 DEF Report, Consistent, Setups
<1>4. OnlyAdds
  BY DEF OnlyAdds, Keeps, KeepsServices, Consistent, InstallerTypeOK, FileMakesSense, DockerRuns
<1>. QED  BY <1>1, <1>2, <1>3, <1>4 DEF Consistent, Setups

\* The invariant read off at a check.
LEMMA AtCheck ==
    ASSUME Consistent, NEW c, At(c)
    PROVE  /\ Running /\ setup.env = file /\ setup.fresh \in BOOLEAN /\ setup.at \in 1..13
           /\ c = Checks[setup.at] /\ c \in CheckNames
           /\ setups \in 1..MaxSetups /\ file \in Environments /\ have \subseteq Tools
           /\ ~setup.dry /\ c = "secrets" => file.there
           /\ c \notin {"login", "web", "browser"} => setup.at <= 10
BY CheckOrder, ChecksDiffer
   DEF At, Running, CheckNames, Consistent, InstallerTypeOK, FileIsRead, Setups, SetupsCount,
       FileIsWritten

\* A plain report that leaves the tools alone.
LEMMA QuietReport ==
    ASSUME Consistent, NEW c, At(c), NEW s \in Statuses \ {"none"}, Report(c, s),
           UNCHANGED <<have, file>>, Keeps, KeepsServices,
           ~setup.dry /\ s # "blocked" => Vouched(c),
           c = "file" /\ ~setup.dry => file.there,
           settled /\ c \notin {"model", "browser"} =>
               s \in {"ok", "skipped"} \/ (c = "node" /\ "node" \notin have)
    PROVE  Consistent'
<1>1. /\ setup' = [setup EXCEPT !.at = @ + 1, !.status[c] = s, !.env = file', !.fresh = setup.fresh]
      /\ OnlyAdds /\ setup.fresh \in BOOLEAN /\ c \in CheckNames
  BY AtCheck, PlainReport DEF Consistent, InstallerTypeOK
<1>2. LoginStands
  BY DEF LoginStands, KeepsServices
<1>3. Vouched(c) => Vouched(c)'
  BY DEF Vouched, KeepsServices
<1>4. settled => ~setup.fresh
  BY DEF Consistent, ReadyToTheEnd
<1>5. Reports(c, s, setup.fresh)
  BY <1>1, <1>2, <1>3, <1>4 DEF Reports
<1>. QED  BY <1>1, <1>5, ReportKeeps

\* check_python()
LEMMA PythonKeeps == ASSUME Consistent, CheckPython PROVE Consistent'
<1>1. "python" \in have
  BY DEF Consistent, DockerRuns
<1>2. Vouched("python") /\ "ok" \in Statuses
  BY DEF Vouched, Statuses
<1>. QED  BY <1>1, <1>2, QuietReport DEF CheckPython

\* ensure_uv() and the two checks of dependencies: a tool that is missing is brought before
\* anything relies on it.
LEMMA EnsureKeeps ==
    ASSUME Consistent,
           NEW c \in {"uv", "packages", "frontend"}, NEW tool \in Tools, NEW possible,
           NEW brings \in SUBSET Tools, tool \in brings, "node" \notin brings,
           Ensure(c, tool, possible, brings),
           tool \in have => Vouched(c), tool \in have' => Vouched(c)',
           settled => tool \in have
    PROVE  Consistent'
<1>1. At(c) /\ c \in CheckNames /\ ~(setup.at > 10)
  BY AtCheck DEF Ensure
<1>2. {"ok", "fixed", "blocked", "skipped"} \subseteq Statuses \ {"none"}
  BY DEF Statuses
<1>3. CASE tool \in have /\ Report(c, "ok") /\ UNCHANGED have
  BY <1>1, <1>2, <1>3, QuietReport DEF Ensure
<1>4. CASE tool \notin have /\ setup.dry /\ Report(c, "skipped") /\ UNCHANGED have
  BY <1>1, <1>2, <1>4, QuietReport DEF Ensure
<1>5. CASE tool \notin have /\ ~setup.dry /\ Report(c, "blocked") /\ UNCHANGED have
  BY <1>1, <1>2, <1>5, QuietReport DEF Ensure
<1>6. CASE tool \notin have /\ have' = have \cup brings /\ Report(c, "fixed")
  <2>1. have \subseteq have' /\ have' \subseteq Tools /\ tool \in have'
        /\ ("node" \in have' => "node" \in have)
    BY <1>6 DEF Consistent, InstallerTypeOK
  <2>2. /\ setup' = [setup EXCEPT !.at = @ + 1, !.status[c] = "fixed", !.env = file', !.fresh = setup.fresh]
        /\ OnlyAdds /\ setup.fresh \in BOOLEAN
    BY <1>1, <1>2, <1>6, <2>1, PlainReport DEF Ensure
  <2>3. Reports(c, "fixed", setup.fresh)
    BY <1>1, <1>6, <2>1, <2>2 DEF Reports
  <2>. QED  BY <1>1, <1>2, <2>2, <2>3, ReportKeeps
<1>. QED  BY <1>3, <1>4, <1>5, <1>6 DEF Ensure

\* ensure_uv()
LEMMA UvKeeps == ASSUME Consistent, EnsureUv PROVE Consistent'
<1>1. /\ "uv" \in have => Vouched("uv")
      /\ "uv" \in have' => Vouched("uv")'
      /\ settled => "uv" \in have
  BY DEF Vouched, Consistent, ReadyToTheEnd, ReadyMeansReady
<1>. QED  BY <1>1, EnsureKeeps DEF EnsureUv, Tools

\* ensure_node(): what it downloads is not what the next setup finds, so nothing is vouched
\* for, and a workspace that is ready stays so whatever this check reports.
LEMMA NodeKeeps == ASSUME Consistent, EnsureNode PROVE Consistent'
<1>1. /\ At("node") /\ "node" \in CheckNames /\ ~(setup.at > 10) /\ setup.fresh \in BOOLEAN
      /\ {"ok", "fixed", "blocked", "skipped"} \subseteq Statuses \ {"none"}
      /\ Vouched("node") /\ Vouched("node")'
      /\ UNCHANGED file /\ Keeps /\ KeepsServices
  BY AtCheck DEF EnsureNode, Ensure, Statuses, Vouched
<1>2. ASSUME NEW s \in {"ok", "skipped", "blocked"}, Report("node", s), UNCHANGED have,
             s = "blocked" => "node" \notin have
      PROVE  Consistent'
  BY <1>1, <1>2, QuietReport
<1>3. ASSUME "node" \notin have, have' = have \cup {"vendored"}, Report("node", "fixed")
      PROVE  Consistent'
  <2>1. /\ have \subseteq have' /\ have' \subseteq Tools
        /\ "node" \in have' => "node" \in have
    BY <1>3 DEF Tools, Consistent, InstallerTypeOK
  <2>2. /\ setup' = [setup EXCEPT !.at = @ + 1, !.status["node"] = "fixed", !.env = file', !.fresh = setup.fresh]
        /\ OnlyAdds
    BY <1>1, <1>3, <2>1, PlainReport
  <2>3. settled => LoginStands /\ ~setup.fresh
    BY <1>1, <1>3 DEF LoginStands, KeepsServices, Consistent, ReadyToTheEnd
  <2>4. Reports("node", "fixed", setup.fresh)
    BY <1>1, <1>3, <2>2, <2>3 DEF Reports
  <2>. QED  BY <1>1, <2>4, ReportKeeps
<1>. QED  BY <1>2, <1>3 DEF EnsureNode, Ensure

\* check_frontend_dependencies()
LEMMA FrontendKeeps == ASSUME Consistent, CheckFrontendDependencies PROVE Consistent'
<1>1. /\ "vite" \in have => Vouched("frontend")
      /\ "vite" \in have' => Vouched("frontend")'
      /\ settled => "vite" \in have
  BY DEF Vouched, Consistent, ReadyToTheEnd, ReadyMeansReady
<1>. QED  BY <1>1, EnsureKeeps DEF CheckFrontendDependencies, Tools

\* check_python_dependencies(): the login is tried after it.
LEMMA PackagesKeeps == ASSUME Consistent, CheckPythonDependencies PROVE Consistent'
<1>1. /\ "venv" \in have => Vouched("packages")
      /\ "venv" \in have' => Vouched("packages")'
      /\ settled => "venv" \in have /\ "uv" \in have
  BY DEF Vouched, Consistent, ReadyToTheEnd, ReadyMeansReady
<1>2. CASE ~setup.dry /\ "uv" \notin have
  <2>1. "blocked" \in Statuses \ {"none"}
    BY DEF Statuses
  <2>. QED  BY <1>1, <1>2, <2>1, QuietReport DEF CheckPythonDependencies
<1>3. CASE ~(~setup.dry /\ "uv" \notin have)
  BY <1>1, <1>3, EnsureKeeps DEF CheckPythonDependencies, Tools
<1>. QED  BY <1>2, <1>3

\* check_docker(): whatever its installation and the start of its daemon come to.
LEMMA DockerKeeps == ASSUME Consistent, CheckDocker PROVE Consistent'
<1>. DEFINE Brought(d) ==
              /\ d.have \in {have, have \cup {"docker"}, have \cup {"daemon"},
                             have \cup {"docker", "daemon"}}
              /\ d.status \in {"ok", "fixed", "blocked", "skipped"}
            found == IF "docker" \in have THEN {Reached(have, "fixed")} ELSE InstallDocker
            started(d) == IF d.status = "blocked" THEN {d}
                          ELSE IF "daemon" \in d.have THEN {Reached(d.have, "ok")}
                          ELSE StartDocker(d.have)
<1>1. At("docker") /\ "docker" \in CheckNames /\ ~(setup.at > 10) /\ setup.fresh \in BOOLEAN
  BY AtCheck DEF CheckDocker
<1>a. \A i \in found : Brought(i) /\ i.have \in {have, have \cup {"docker"}, have \cup {"docker", "daemon"}}
  BY DEF InstallDocker, Reached
<1>b. ASSUME NEW i \in found, NEW d \in started(i)  PROVE Brought(d)
  <2>1. d = i \/ d = Reached(i.have, "ok") \/ d \in StartDocker(i.have)
    OBVIOUS
  <2>2. Brought(i) /\ i.have \in {have, have \cup {"docker"}, have \cup {"docker", "daemon"}}
    BY <1>a
  <2>3. i.have \cup {"daemon"} \in {have \cup {"daemon"}, have \cup {"docker", "daemon"}}
    BY <2>2
  <2>4. CASE d = i
    BY <2>2, <2>4
  <2>5. CASE d = Reached(i.have, "ok")
    BY <2>2, <2>5 DEF Reached
  <2>6. CASE d \in StartDocker(i.have)
    BY <2>2, <2>3, <2>6 DEF StartDocker, Reached
  <2>. QED  BY <2>1, <2>4, <2>5, <2>6
<1>2. PICK d :
          /\ Brought(d)
          /\ have' = d.have /\ Report("docker", d.status)
          /\ {"docker", "daemon"} \subseteq have => d.status = "ok" /\ d.have = have
  <2>1. PICK d \in IF {"docker", "daemon"} \subseteq have THEN {Reached(have, "ok")}
                   ELSE IF setup.dry THEN {Reached(have, "skipped")}
                   ELSE (IF "docker" \in have THEN {} ELSE {e \in found : e.status = "fixed"})
                            \cup UNION {started(i) : i \in found} :
          have' = d.have /\ Report("docker", d.status)
    BY DEF CheckDocker
  <2>2. CASE {"docker", "daemon"} \subseteq have
    BY <2>1, <2>2 DEF Reached
  <2>3. CASE ~({"docker", "daemon"} \subseteq have) /\ setup.dry
    BY <2>1, <2>3 DEF Reached
  <2>4. CASE ~({"docker", "daemon"} \subseteq have) /\ ~setup.dry
    <3>. HIDE DEF found, started
    <3>1. d \in found \/ \E i \in found : d \in started(i)
      BY <2>1, <2>4
    <3>2. Brought(d)
      BY <3>1, <1>a, <1>b
    <3>. QED  BY <2>1, <2>4, <3>2
  <2>. QED  BY <2>2, <2>3, <2>4
<1>3. /\ have \subseteq d.have /\ d.have \subseteq Tools /\ ("node" \in d.have => "node" \in have)
      /\ d.status \in Statuses \ {"none"}
  BY <1>2 DEF Tools, Statuses, Consistent, InstallerTypeOK
<1>4. /\ setup' = [setup EXCEPT !.at = @ + 1, !.status["docker"] = d.status, !.env = file', !.fresh = setup.fresh]
      /\ OnlyAdds
  BY <1>1, <1>2, <1>3, PlainReport DEF CheckDocker
<1>5. Vouched("docker")'
  BY DEF Vouched
<1>6. settled => LoginStands /\ ~setup.fresh /\ d.status = "ok"
  BY <1>2 DEF CheckDocker, LoginStands, KeepsServices, Consistent, ReadyToTheEnd,
              ReadyMeansReady, DockerRuns
<1>7. Reports("docker", d.status, setup.fresh)
  BY <1>1, <1>4, <1>5, <1>6 DEF Reports
<1>. QED  BY <1>1, <1>3, <1>7, ReportKeeps

\* A report of a check that writes the file: the checks that follow go by what it says then.
LEMMA FileReport ==
    ASSUME Consistent, NEW c, At(c), NEW new, ReportFile(c, "fixed", new),
           have \subseteq have', have' \subseteq Tools, "node" \in have' => "node" \in have,
           Keeps, KeepsServices, new \in Environments, new.there,
           file.uri # Blank => new.uri # Blank,
           file.store # Blank => new.store # Blank,
           file.password # Blank => new.password = file.password,
           file.key # Blank => new.key = file.key,
           docs = {} \/ new.key = file.key,
           new.key # Blank /\ ~Usable(new.key) => new.store # Blank,
           c \in {"file", "secrets", "model"},
           ~setup.dry => Vouched(c)',
           settled => c = "model" /\ UNCHANGED have
    PROVE  Consistent'
<1>1. /\ Running /\ setup.env = file /\ setup.fresh \in BOOLEAN /\ c \in CheckNames
      /\ ~(setup.at > 10)
  BY AtCheck
<1>2. OnlyAdds
  BY DEF OnlyAdds, ReportFile, Keeps, KeepsServices, Consistent, InstallerTypeOK, DockerRuns
<1>3. setup' = [setup EXCEPT !.at = @ + 1, !.status[c] = "fixed", !.env = file', !.fresh = setup.fresh]
  BY DEF ReportFile, Consistent, Setups
<1>4. settled => LoginStands /\ ~setup.fresh
  BY DEF LoginStands, ReportFile, KeepsServices, Consistent, ReadyToTheEnd, ReadyMeansReady
<1>5. Reports(c, "fixed", setup.fresh)
  BY <1>1, <1>2, <1>3, <1>4 DEF Reports, ReportFile
<1>. QED  BY <1>1, <1>5, ReportKeeps DEF Statuses

\* check_environment_file()
LEMMA EnvironmentFileKeeps == ASSUME Consistent, CheckEnvironmentFile PROVE Consistent'
<1>1. /\ {"ok", "skipped"} \subseteq Statuses \ {"none"}
      /\ file.there \/ file = Nothing
  BY DEF Statuses, Consistent, FileMakesSense
<1>2. CASE setup.dry /\ Blank \in {file.uri, file.password} /\ Report("file", "skipped")
  BY <1>1, <1>2, QuietReport DEF CheckEnvironmentFile
<1>3. CASE Blank \notin {file.uri, file.password} /\ Report("file", "ok")
  <2>1. Vouched("file") /\ file.there
    BY <1>1, <1>3 DEF Vouched, Nothing
  <2>. QED  BY <1>1, <1>3, <2>1, QuietReport DEF CheckEnvironmentFile
<1>. QED  BY <1>2, <1>3 DEF CheckEnvironmentFile

\* The template has no key while the store holds documents.
LEMMA CreateFileKeeps == ASSUME Consistent, CreateEnvironmentFile PROVE Consistent'
<1>. DEFINE new == [there |-> TRUE, uri |-> 1, password |-> setups, store |-> 1, model |-> Blank,
                    key |-> IF docs = {} THEN setups ELSE Blank]
<1>1. At("file") /\ file = Nothing /\ setups \in 1..MaxSetups
  BY AtCheck DEF CreateEnvironmentFile, Repairs, Consistent, FileMakesSense
<1>2. /\ new.there /\ new.uri = 1 /\ new.password = setups /\ new.store = 1
      /\ new.key = IF docs = {} THEN setups ELSE Blank
  OBVIOUS
<1>3. new \in Environments
  BY <1>1, ValueFacts, SetupsAssumption DEF Environments, Values, Blank
<1>4. ReportFile("file", "fixed", new) /\ UNCHANGED have /\ Keeps /\ KeepsServices
  BY DEF CreateEnvironmentFile
<1>. HIDE DEF new
<1>5. file' = new
  BY <1>4 DEF ReportFile
<1>6. Vouched("file")'
  BY <1>1, <1>2, <1>5 DEF Vouched, Blank
<1>7. ~settled
  BY <1>1 DEF Consistent, ReadyToTheEnd, ReadyMeansReady, Nothing
<1>8. /\ file.uri = Blank /\ file.store = Blank /\ file.password = Blank /\ file.key = Blank
  BY <1>1 DEF Nothing
<1>9. new.key # Blank => Usable(new.key)
  BY <1>1, <1>2, ValueFacts
<1>10. docs = {} \/ new.key = file.key
  BY <1>2, <1>8
<1>. QED  BY <1>1, <1>2, <1>3, <1>4, <1>6, <1>7, <1>8, <1>9, <1>10, FileReport, AtCheck

\* A file without the graph's part gets it.
LEMMA FillFileKeeps == ASSUME Consistent, FillEnvironmentFile PROVE Consistent'
<1>1. At("file") /\ file.there /\ Blank \in {file.uri, file.password} /\ setups \in 1..MaxSetups
  BY AtCheck DEF FillEnvironmentFile, Repairs
<1>2. PICK new : /\ new = AppendValues(file, [uri |-> 1, password |-> setups])
                 /\ ReportFile("file", "fixed", new)
                 /\ UNCHANGED have /\ Keeps /\ KeepsServices
  BY DEF FillEnvironmentFile
<1>3. file \in Environments
  BY DEF Consistent, InstallerTypeOK
<1>4. /\ new \in Environments
      /\ Blank \notin {new.uri, new.password}
      /\ new.there = file.there /\ new.store = file.store /\ new.key = file.key
      /\ file.password # Blank => new.password = file.password
  BY ZenonT(60), <1>1, <1>2, <1>3, AppendGraph
<1>5. file' = new
  BY <1>2 DEF ReportFile
<1>6. Vouched("file")'
  BY <1>1, <1>4, <1>5 DEF Vouched
<1>7. ~settled
  BY <1>1 DEF Consistent, ReadyToTheEnd
<1>8. new.key # Blank /\ ~Usable(new.key) => new.store # Blank
  BY <1>4 DEF Consistent, FileMakesSense
<1>. QED  BY <1>1, <1>2, <1>4, <1>6, <1>7, <1>8, FileReport, AtCheck

\* check_secret_store(): a key is made only for a store that is empty.
LEMMA ConfigureKeeps == ASSUME Consistent, ConfigureSecretStore PROVE Consistent'
<1>1. /\ At("secrets") /\ setups \in 1..MaxSetups /\ ~setup.dry
      /\ Incomplete /\ setup.env = file /\ file.there
  BY AtCheck DEF ConfigureSecretStore, Repairs
<1>2. ~settled
  BY <1>1, ValueFacts DEF Incomplete, Consistent, ReadyToTheEnd, ReadyMeansReady
<1>3. CASE docs # {} /\ setup.env.key = Blank
  <2>1. "blocked" \in Statuses \ {"none"}
    BY DEF Statuses
  <2>. QED  BY <1>1, <1>2, <1>3, <2>1, QuietReport DEF ConfigureSecretStore
<1>4. CASE ~(docs # {} /\ setup.env.key = Blank)
  <2>1. PICK new : /\ new = AppendValues(file, [store |-> 1, key |-> setups])
                   /\ ReportFile("secrets", "fixed", new)
                   /\ have' = have \cup {"dir"} /\ Keeps /\ KeepsServices
    BY <1>4 DEF ConfigureSecretStore
  <2>2. /\ file \in Environments /\ setups \in 1..MaxSetups
        /\ new = AppendValues(file, [store |-> 1, key |-> setups])
    BY <1>1, <2>1, AtCheck
  <2>3. /\ new \in Environments
        /\ new.store # Blank
        /\ file.key = Blank => new.key = setups
        /\ file.key # Blank => new.key = file.key
        /\ new.there = file.there /\ new.uri = file.uri /\ new.password = file.password
    BY <2>2, AppendStore
  <2>4. file' = new
    BY <2>1 DEF ReportFile
  <2>5. file.store = Blank => file.key = Blank \/ Usable(file.key)
    BY DEF Consistent, FileMakesSense
  <2>6. Usable(new.key)
    BY <1>1, <2>3, <2>5, ValueFacts DEF Incomplete
  <2>7. Vouched("secrets")'
    BY <2>1, <2>3, <2>4, <2>6 DEF Vouched, Usable
  <2>8. docs = {} \/ new.key = file.key
    BY <1>1, <1>4, <2>3
  <2>9. have \subseteq have' /\ have' \subseteq Tools /\ ("node" \in have' => "node" \in have)
    BY <2>1 DEF Tools, Consistent, InstallerTypeOK
  <2>. QED  BY <1>1, <1>2, <2>1, <2>3, <2>6, <2>7, <2>8, <2>9, FileReport
<1>. QED  BY <1>3, <1>4

\* check_secret_store()
LEMMA SecretStoreKeeps == ASSUME Consistent, CheckSecretStore PROVE Consistent'
<1>1. /\ At("secrets") /\ setup.env = file /\ setup.fresh \in BOOLEAN /\ ~(setup.at > 10)
      /\ "secrets" \in CheckNames
      /\ {"ok", "fixed", "skipped", "blocked"} \subseteq Statuses \ {"none"}
  BY AtCheck DEF CheckSecretStore, Statuses
<1>2. settled => ~Incomplete /\ Usable(setup.env.key) /\ "dir" \in have
  BY <1>1, ValueFacts DEF Incomplete, Consistent, ReadyToTheEnd, ReadyMeansReady
<1>3. CASE setup.dry /\ Incomplete /\ Report("secrets", "skipped") /\ UNCHANGED have
  BY <1>1, <1>2, <1>3, QuietReport DEF CheckSecretStore
<1>4. CASE ~Incomplete /\ ~Usable(setup.env.key) /\ Report("secrets", "blocked") /\ UNCHANGED have
  BY <1>1, <1>2, <1>4, QuietReport DEF CheckSecretStore
<1>5. CASE ~Incomplete /\ Usable(setup.env.key) /\ "dir" \in have /\ Report("secrets", "ok") /\ UNCHANGED have
  <2>1. Vouched("secrets")
    BY <1>1, <1>5 DEF Vouched, Incomplete
  <2>. QED  BY <1>1, <1>2, <1>5, <2>1, QuietReport DEF CheckSecretStore
<1>6. CASE /\ ~Incomplete /\ "dir" \notin have /\ setup.dry
           /\ Report("secrets", "skipped") /\ UNCHANGED have
  BY <1>1, <1>2, <1>6, QuietReport DEF CheckSecretStore
<1>7. CASE /\ ~Incomplete /\ Usable(setup.env.key) /\ "dir" \notin have
           /\ Report("secrets", "fixed") /\ have' = have \cup {"dir"}
  <2>1. have \subseteq have' /\ have' \subseteq Tools /\ ("node" \in have' => "node" \in have)
    BY <1>7 DEF Tools, Consistent, InstallerTypeOK
  <2>2. UNCHANGED file /\ Keeps /\ KeepsServices
    BY DEF CheckSecretStore
  <2>3. /\ setup' = [setup EXCEPT !.at = @ + 1, !.status["secrets"] = "fixed", !.env = file', !.fresh = setup.fresh]
        /\ OnlyAdds
    BY <1>1, <1>7, <2>1, <2>2, PlainReport
  <2>4. Vouched("secrets")'
    BY <1>1, <1>7, <2>2 DEF Vouched, Incomplete, Usable
  <2>5. Reports("secrets", "fixed", setup.fresh)
    BY <1>1, <1>2, <1>7, <2>3, <2>4 DEF Reports
  <2>. QED  BY <1>1, <2>5, ReportKeeps
<1>. QED  BY <1>3, <1>4, <1>5, <1>6, <1>7 DEF CheckSecretStore

\* check_model_endpoint(): an answer at the prompt is all it writes.
LEMMA ModelKeeps == ASSUME Consistent, CheckModelEndpoint PROVE Consistent'
<1>1. /\ At("model") /\ setup.env = file /\ file \in Environments /\ have \subseteq Tools
      /\ {"ok", "fixed", "skipped", "blocked"} \subseteq Statuses \ {"none"}
      /\ Vouched("model") /\ Vouched("model")'
      /\ UNCHANGED have /\ Keeps /\ KeepsServices
  BY AtCheck DEF CheckModelEndpoint, Statuses, Vouched
<1>2. ASSUME NEW s \in {"ok", "skipped", "blocked"}, Report("model", s), UNCHANGED file
      PROVE  Consistent'
  BY <1>1, <1>2, QuietReport
<1>3. ASSUME ReportFile("model", "fixed", AppendValues(file, [model |-> 1])), ~setup.dry
      PROVE  Consistent'
  <2>1. PICK new : /\ new = AppendValues(file, [model |-> 1])
                   /\ ReportFile("model", "fixed", new)
    BY <1>3
  <2>2. /\ new \in Environments
        /\ new.there = file.there /\ new.uri = file.uri /\ new.password = file.password
        /\ new.store = file.store /\ new.key = file.key
    BY <1>1, <2>1, AppendModel
  <2>3. file.there
    BY <1>1, <1>3, AtCheck, CheckOrder, ChecksDiffer DEF Consistent, FileIsWritten
  <2>4. new.key # Blank /\ ~Usable(new.key) => new.store # Blank
    BY <2>2 DEF Consistent, FileMakesSense
  <2>. QED  BY <1>1, <2>1, <2>2, <2>3, <2>4, FileReport
<1>. QED  BY <1>2, <1>3 DEF CheckModelEndpoint, PromptForModel

\* check_neo4j(): a volume gets the password of the file, before the login is tried.
LEMMA Neo4jKeeps == ASSUME Consistent, CheckNeo4j PROVE Consistent'
<1>1. /\ At("neo4j") /\ setup.env = file /\ setup.fresh \in BOOLEAN /\ ~(setup.at > 10)
      /\ "neo4j" \in CheckNames
      /\ {"ok", "fixed", "skipped", "blocked"} \subseteq Statuses \ {"none"}
      /\ UNCHANGED <<have, file, backend, frontend>> /\ Keeps
  BY AtCheck DEF CheckNeo4j, Statuses
<1>2. settled => bolt
  BY DEF Consistent, ReadyToTheEnd, ReadyMeansReady
<1>3. CASE bolt /\ Report("neo4j", "ok") /\ UNCHANGED <<volume, bolt>>
  BY <1>1, <1>3, QuietReport DEF Vouched, KeepsServices
<1>4. CASE ~bolt /\ setup.dry /\ Report("neo4j", "skipped") /\ UNCHANGED <<volume, bolt>>
  BY <1>1, <1>2, <1>4, QuietReport DEF KeepsServices
<1>5. CASE ~bolt /\ ~setup.dry /\ Report("neo4j", "blocked") /\ UNCHANGED <<volume, bolt>>
  BY <1>1, <1>2, <1>5, QuietReport DEF KeepsServices
<1>6. CASE /\ ~bolt /\ ~setup.dry /\ {"docker", "daemon"} \subseteq have
           /\ setup.env.password # Blank /\ volume = Blank
           /\ volume' = setup.env.password
           /\ bolt' \in BOOLEAN
           /\ setup' = [setup EXCEPT !.at = @ + 1, !.fresh = bolt',
                          !.status["neo4j"] = IF bolt' THEN "fixed" ELSE "blocked"]
  <2>1. OnlyAdds
    <3>1. /\ file \in Environments /\ have \subseteq Tools /\ frontend \in BOOLEAN
          /\ file.password \in Values
      BY DEF Consistent, InstallerTypeOK, Environments
    <3>2. /\ ~file.there => file = Nothing
          /\ file.key # Blank /\ ~Usable(file.key) => file.store # Blank
      BY DEF Consistent, FileMakesSense
    <3>. QED  BY <1>1, <1>6, <3>1, <3>2 DEF OnlyAdds, Keeps
  <2>. DEFINE s == IF bolt' THEN "fixed" ELSE "blocked"
  <2>2. setup' = [setup EXCEPT !.at = @ + 1, !.status["neo4j"] = s, !.env = file', !.fresh = bolt']
    BY <1>1, <1>6 DEF Consistent, Setups
  <2>3. s # "blocked" => Vouched("neo4j")'
    BY DEF Vouched
  <2>4. Reports("neo4j", s, bolt')
    BY <1>1, <1>2, <1>6, <2>1, <2>2, <2>3 DEF Reports
  <2>5. s \in Statuses \ {"none"}
    BY <1>1
  <2>. HIDE DEF s
  <2>. QED  BY <1>1, <1>6, <2>4, <2>5, ReportKeeps
<1>. QED  BY <1>3, <1>4, <1>5, <1>6 DEF CheckNeo4j

\* check_neo4j_connectivity()
LEMMA LoginKeeps == ASSUME Consistent, CheckNeo4jConnectivity PROVE Consistent'
<1>1. /\ At("login")
      /\ {"ok", "skipped", "blocked"} \subseteq Statuses \ {"none"}
  BY DEF CheckNeo4jConnectivity, Statuses
<1>2. settled => ~setup.fresh /\ bolt /\ ("driver" \in have => file.password = volume)
  BY DEF Consistent, ReadyToTheEnd, ReadyMeansReady
<1>3. setup.env = file
  BY <1>1, AtCheck
<1>4. CASE ~({"venv", "driver"} \subseteq have) /\ Report("login", "skipped")
  BY <1>1, <1>4, QuietReport DEF CheckNeo4jConnectivity, Vouched
<1>5. CASE bolt /\ setup.env.password = volume /\ Report("login", "ok")
  BY <1>1, <1>3, <1>5, QuietReport DEF CheckNeo4jConnectivity, Vouched
<1>6. CASE /\ {"venv", "driver"} \subseteq have
           /\ ~bolt \/ setup.env.password # volume \/ setup.fresh
           /\ Report("login", "blocked")
  BY <1>1, <1>2, <1>3, <1>6, QuietReport DEF CheckNeo4jConnectivity
<1>. QED  BY <1>4, <1>5, <1>6 DEF CheckNeo4jConnectivity

\* check_web_services(): a backend is started in the environment of the file.
LEMMA WebKeeps == ASSUME Consistent, CheckWebServices PROVE Consistent'
<1>1. /\ At("web") /\ setup.env = file /\ setup.fresh \in BOOLEAN /\ "web" \in CheckNames
      /\ {"ok", "fixed", "skipped", "blocked"} \subseteq Statuses \ {"none"}
      /\ UNCHANGED <<have, file, volume, bolt>> /\ Keeps
  BY AtCheck DEF CheckWebServices, Statuses
<1>2. settled => backend.there /\ frontend /\ ~setup.fresh
  BY DEF Consistent, ReadyToTheEnd, ReadyMeansReady
<1>3. CASE backend.there /\ frontend /\ Report("web", "ok") /\ UNCHANGED <<backend, frontend>>
  BY <1>1, <1>3, QuietReport DEF Vouched, KeepsServices
<1>4. CASE /\ ~(backend.there /\ frontend) /\ setup.dry
           /\ Report("web", "skipped") /\ UNCHANGED <<backend, frontend>>
  BY <1>1, <1>2, <1>4, QuietReport DEF KeepsServices
<1>5. CASE /\ ~(backend.there /\ frontend) /\ ~setup.dry
           /\ StartBackend /\ StartFrontend
           /\ \/ backend'.there /\ frontend' /\ Report("web", "fixed")
              \/ Report("web", "blocked")
  <2>1. PICK s \in {"fixed", "blocked"} :
            Report("web", s) /\ (s = "fixed" => backend'.there /\ frontend')
    BY <1>5
  <2>2. OnlyAdds
    <3>1. /\ file \in Environments /\ have \subseteq Tools /\ frontend \in BOOLEAN
          /\ volume \in Values /\ bolt \in BOOLEAN
      BY DEF Consistent, InstallerTypeOK
    <3>2. /\ ~file.there => file = Nothing
          /\ file.key # Blank /\ ~Usable(file.key) => file.store # Blank
          /\ bolt => {"docker", "daemon"} \subseteq have
      BY DEF Consistent, FileMakesSense, DockerRuns
    <3>3. /\ backend' = backend \/ (~backend.there /\ backend' = file)
          /\ frontend' \in BOOLEAN /\ (frontend => frontend')
      BY <1>1, <1>5, <3>1 DEF StartBackend, StartFrontend
    <3>. QED  BY <1>1, <3>1, <3>2, <3>3 DEF OnlyAdds, Keeps
  <2>3. setup' = [setup EXCEPT !.at = @ + 1, !.status["web"] = s, !.env = file', !.fresh = setup.fresh]
    BY <1>1, <2>1 DEF Report, Consistent, Setups
  <2>4. s # "blocked" => Vouched("web")'
    BY <2>1 DEF Vouched
  <2>5. LoginStands
    BY <1>1 DEF LoginStands
  <2>6. Reports("web", s, setup.fresh)
    BY <1>1, <1>2, <1>5, <2>2, <2>3, <2>4, <2>5 DEF Reports
  <2>. QED  BY <1>1, <2>1, <2>6, ReportKeeps
<1>. QED  BY <1>3, <1>4, <1>5 DEF CheckWebServices

\* open_workspace()
LEMMA BrowserKeeps == ASSUME Consistent, OpenWorkspace PROVE Consistent'
<1>1. At("browser") /\ {"fixed", "skipped"} \subseteq Statuses \ {"none"} /\ Vouched("browser")
  BY DEF OpenWorkspace, Statuses, Vouched
<1>2. PICK s \in {"fixed", "skipped"} : Report("browser", s)
  BY DEF OpenWorkspace
<1>. QED  BY <1>1, <1>2, QuietReport DEF OpenWorkspace

-----------------------------------------------------------------------------
(* The other steps *)

\* The exit code is 0 when nothing is blocked; then everything has been vouched for.
LEMMA ExitKeeps == ASSUME Consistent, Exit PROVE Consistent'
<1>1. /\ setup.at = 14 /\ Running /\ setup.env = file
      /\ setup' = Idle /\ UNCHANGED <<have, file, docs, setups, volume, bolt, backend, frontend>>
  BY CheckOrder DEF Exit, KeepsServices, Running, Consistent, FileIsRead
<1>a. settled' \in BOOLEAN
  <2>1. settled \in BOOLEAN
    BY DEF Consistent, InstallerTypeOK
  <2>2. CASE setup.dry
    BY <2>1, <2>2 DEF Exit
  <2>3. CASE ~setup.dry
    <3>1. settled' = (Blocked = {})
      BY <2>3 DEF Exit
    <3>. QED  BY <3>1
  <2>. QED  BY <2>2, <2>3
<1>2. Consistent
  OBVIOUS
<1>3. setup' \in Setups /\ ~setup'.fresh /\ setup'.at = 0 /\ (\A c \in CheckNames : setup'.status[c] = "none")
  BY <1>1, ValueFacts, CheckOrder
  DEF Idle, Setups, Nothing, Environments, Statuses, Blank
<1>4. settled' /\ ~setup.dry => \A c \in CheckNames : Vouched(c)
  <2>. SUFFICES ASSUME settled', ~setup.dry, NEW c \in CheckNames  PROVE Vouched(c)
    OBVIOUS
  <2>1. setup.status[c] # "blocked"
    BY DEF Exit, Blocked
  <2>2. PICK i \in DOMAIN Checks : c = Checks[i]
    BY DEF CheckNames
  <2>3. setup.status[c] # "none"
    BY <1>1, <2>2, CheckOrder DEF Consistent, ReportsInOrder
  <2>. QED  BY <1>1, <2>1, <2>3 DEF Consistent, ReportsStayTrue
<1>5. settled' =>
        /\ {"uv", "dir", "venv", "vite"} \subseteq have
        /\ file.there /\ Usable(file.key) /\ backend.there /\ frontend /\ bolt
        /\ "driver" \in have => file.password = volume
        /\ Blank \notin {file.uri, file.password, file.store}
  <2>1. CASE setup.dry
    BY <2>1 DEF Exit, Consistent, ReadyToTheEnd, ReadyMeansReady
  <2>2. ASSUME \A c \in CheckNames : Vouched(c)
        PROVE  /\ {"uv", "dir", "venv", "vite"} \subseteq have
               /\ file.there /\ Usable(file.key) /\ backend.there /\ frontend /\ bolt
               /\ "driver" \in have => file.password = volume
               /\ Blank \notin {file.uri, file.password, file.store}
    <3>1. /\ Vouched("uv") /\ Vouched("file") /\ Vouched("secrets")
          /\ Vouched("packages") /\ Vouched("frontend") /\ Vouched("neo4j") /\ Vouched("login")
          /\ Vouched("web")
      BY <2>2, CheckNamed
    <3>. QED  BY <3>1 DEF Vouched
  <2>. QED  BY <1>4, <2>1, <2>2
<1>6. ReadyMeansReady' /\ ReadyToTheEnd'
  <2>1. ReadyMeansReady'
    BY <1>1, <1>3, <1>5 DEF ReadyMeansReady, Usable
  <2>. QED  BY <1>1, <1>3, <1>5, <2>1 DEF ReadyToTheEnd
<1>7. InstallerTypeOK'
  BY <1>1, <1>a, <1>3 DEF Consistent, InstallerTypeOK, Setups
<1>8. /\ FileIsRead' /\ FileMakesSense' /\ BackendHasTheKey' /\ OneKey'
      /\ StoredSecretsStayReadable' /\ DockerRuns'
  BY <1>1, <1>3 DEF Consistent, FileIsRead, FileMakesSense, BackendHasTheKey, OneKey,
                    StoredSecretsStayReadable, DockerRuns, Running, Usable
<1>9. SetupsCount' /\ FileIsWritten' /\ ReportsInOrder' /\ ReportsStayTrue'
  BY <1>3 DEF SetupsCount, FileIsWritten, ReportsInOrder, ReportsStayTrue, Running
<1>. QED  BY <1>3, <1>6, <1>7, <1>8, <1>9 DEF Consistent

\* A setup that has ended, or been stopped, claims nothing that was not true before.
LEMMA StopKeeps == ASSUME Consistent, Stop PROVE Consistent'
<1>1. /\ setup' = Idle
      /\ have' = have \/ have' = have \ {"vendored"}
      /\ UNCHANGED <<file, docs, setups, settled, volume, bolt, backend, frontend>>
  BY DEF Stop, Keeps, KeepsServices
<1>a. /\ have' \subseteq have
      /\ \A t \in {"python", "docker", "daemon", "uv", "node", "dir", "venv", "driver", "vite"} :
             t \in have' <=> t \in have
  BY <1>1
<1>2. setup' \in Setups /\ ~setup'.fresh /\ setup'.at = 0 /\ (\A c \in CheckNames : setup'.status[c] = "none")
  BY <1>1, ValueFacts, CheckOrder
  DEF Idle, Setups, Nothing, Environments, Statuses, Blank
<1>3. InstallerTypeOK'
  BY <1>1, <1>a, <1>2 DEF Consistent, InstallerTypeOK, Setups
<1>4. /\ FileIsRead' /\ FileMakesSense' /\ BackendHasTheKey' /\ OneKey'
      /\ StoredSecretsStayReadable' /\ DockerRuns'
  BY <1>1, <1>a, <1>2 DEF Consistent, FileIsRead, FileMakesSense, BackendHasTheKey, OneKey,
                    StoredSecretsStayReadable, DockerRuns, Running, Usable
<1>5. SetupsCount' /\ FileIsWritten' /\ ReportsInOrder' /\ ReportsStayTrue'
  BY <1>2 DEF SetupsCount, FileIsWritten, ReportsInOrder, ReportsStayTrue, Running
<1>6. ReadyMeansReady' /\ ReadyToTheEnd'
  BY <1>1, <1>a, <1>2 DEF Consistent, ReadyToTheEnd, ReadyMeansReady, Usable
<1>. QED  BY <1>2, <1>3, <1>4, <1>5, <1>6 DEF Consistent

\* A setup begins with what the file says.
LEMMA StartKeeps == ASSUME Consistent, NEW dry \in BOOLEAN, Start(dry) PROVE Consistent'
<1>1. /\ setup' = [Idle EXCEPT !.at = 1, !.dry = dry, !.env = file]
      /\ setups' = setups + 1 /\ setups' \in 1..MaxSetups
      /\ UNCHANGED <<have, file, docs, settled, volume, bolt, backend, frontend>>
  BY SetupsAssumption DEF Start, KeepsServices, Consistent, InstallerTypeOK
<1>2. setup' = [at |-> 1, dry |-> dry, env |-> file, fresh |-> FALSE,
                status |-> [c \in CheckNames |-> "none"]]
  BY <1>1 DEF Idle
<1>3. file \in Environments
  BY DEF Consistent, InstallerTypeOK
<1>4. /\ setup' \in Setups /\ setup'.env = file /\ ~setup'.fresh /\ setup'.at = 1
      /\ \A c \in CheckNames : setup'.status[c] = "none"
  BY <1>2, <1>3, CheckOrder DEF Setups, Statuses
<1>5. InstallerTypeOK'
  <2>1. setups' \in 0..MaxSetups
    BY <1>1, SetupsAssumption
  <2>. QED  BY ZenonT(60), <1>1, <1>4, <2>1 DEF Consistent, InstallerTypeOK, Setups
<1>6. /\ FileIsRead' /\ FileMakesSense' /\ BackendHasTheKey' /\ OneKey'
      /\ StoredSecretsStayReadable' /\ DockerRuns'
  BY <1>1, <1>4 DEF Consistent, FileIsRead, FileMakesSense, BackendHasTheKey, OneKey,
                    StoredSecretsStayReadable, DockerRuns, Usable
<1>7. SetupsCount' /\ FileIsWritten'
  BY <1>1, <1>4 DEF SetupsCount, FileIsWritten
<1>8. ReportsInOrder'
  <2>1. \A i \in DOMAIN Checks : Checks[i] \in CheckNames /\ ~(i < 1)
    BY CheckOrder DEF CheckNames
  <2>. QED  BY <1>4, <2>1 DEF ReportsInOrder
<1>9. ReportsStayTrue'
  BY <1>4 DEF ReportsStayTrue
<1>10. ReadyMeansReady' /\ ReadyToTheEnd'
  BY <1>1, <1>4 DEF Consistent, ReadyToTheEnd, ReadyMeansReady, Usable
<1>. QED  BY <1>4, <1>5, <1>6, <1>7, <1>8, <1>9, <1>10 DEF Consistent

\* A backend stores under the key of the file.
LEMMA StoreKeeps == ASSUME Consistent, StoreSecret PROVE Consistent'
<1>1. UNCHANGED <<have, file, setup, setups, settled, volume, bolt, backend, frontend>>
  BY DEF StoreSecret, KeepsServices
<1>2. PICK key : /\ docs' = docs \cup {key} /\ Usable(key)
                 /\ key = Other \/ (key = backend.key /\ backend.there)
  BY ValueFacts DEF StoreSecret
<1>3. key # Other => file.there /\ file.key = key /\ file.key # Blank
  BY <1>2, ValueFacts DEF Consistent, BackendHasTheKey
<1>4. InstallerTypeOK' /\ setup' \in Setups
  BY <1>1, <1>2 DEF Consistent, InstallerTypeOK, Setups, Usable
<1>5. OneKey' /\ StoredSecretsStayReadable'
  <2>1. CASE key = Other
    BY <1>1, <1>2, <2>1 DEF Consistent, OneKey, StoredSecretsStayReadable
  <2>2. CASE key # Other
    <3>1. docs \ {Other} \subseteq {key}
      BY <1>3, <2>2 DEF Consistent, StoredSecretsStayReadable
    <3>2. docs' \ {Other} = {key}
      BY <1>2, <2>2, <3>1
    <3>. QED  BY <1>1, <1>3, <2>2, <3>2 DEF OneKey, StoredSecretsStayReadable
  <2>. QED  BY <2>1, <2>2
<1>6. FileIsRead' /\ FileMakesSense' /\ BackendHasTheKey' /\ DockerRuns'
  BY <1>1 DEF Consistent, FileIsRead, FileMakesSense, BackendHasTheKey, DockerRuns, Running, Usable
<1>7. SetupsCount' /\ FileIsWritten' /\ ReportsInOrder' /\ ReadyMeansReady' /\ ReadyToTheEnd'
  BY <1>1 DEF Consistent, SetupsCount, FileIsWritten, ReportsInOrder, ReadyToTheEnd,
              ReadyMeansReady, Running, Usable
<1>8. ReportsStayTrue'
  <2>1. \A c \in CheckNames : Vouched(c)' <=> Vouched(c)
    BY <1>1 DEF Vouched, Usable
  <2>. QED  BY <1>1, <2>1 DEF Consistent, ReportsStayTrue, Running
<1>. QED  BY <1>4, <1>5, <1>6, <1>7, <1>8 DEF Consistent

\* Between two setups the operator does what a report told, or something else.
LEMMA OperateKeeps == ASSUME Consistent, Operate PROVE Consistent'
<1>1. ~Running /\ settled' = FALSE /\ UNCHANGED <<docs, setup, setups>>
  BY DEF Operate
<1>2. /\ file' \in Environments /\ backend' \in Environments /\ have' \subseteq Tools
      /\ volume' \in Values /\ bolt' \in BOOLEAN /\ frontend' \in BOOLEAN
  <2>1. Nothing \in Environments
    BY ValueFacts DEF Nothing, Environments, Blank
  <2>2. /\ file \in Environments /\ backend \in Environments /\ have \subseteq Tools
        /\ volume \in Values /\ bolt \in BOOLEAN /\ frontend \in BOOLEAN
        /\ \A key \in docs : key \in Values
        /\ file.password \in Values
    BY ValueFacts DEF Consistent, InstallerTypeOK, Environments
  <2>3. \A v \in Values : /\ [file EXCEPT !.key = v] \in Environments
                          /\ [file EXCEPT !.password = v] \in Environments
    BY <2>2 DEF Environments
  <2>4. [file EXCEPT !.model = 1] \in Environments
    BY <2>2 DEF Environments
  <2>. QED  BY <2>1, <2>2, <2>3, <2>4, ValueFacts DEF Operate
<1>3. DockerRuns'
  BY DEF Operate, Consistent, DockerRuns
<1>4. /\ backend' = backend \/ backend' = Nothing
      /\ \/ file' = file
         \/ file' = Nothing /\ ~backend.there
         \/ /\ file.there /\ file'.there /\ file'.store = file.store
            /\ file'.key = file.key \/ (file.key = Blank /\ file'.key \in docs
                                         /\ (docs = {Other} \/ file'.key # Other))
  <2>1. file \in Environments
    BY DEF Consistent, InstallerTypeOK
  <2>2. /\ \A v : /\ [file EXCEPT !.key = v].key = v /\ [file EXCEPT !.key = v].there = file.there
                  /\ [file EXCEPT !.key = v].store = file.store
                  /\ [file EXCEPT !.password = v].key = file.key
                  /\ [file EXCEPT !.password = v].there = file.there
                  /\ [file EXCEPT !.password = v].store = file.store
        /\ [file EXCEPT !.model = 1].key = file.key /\ [file EXCEPT !.model = 1].there = file.there
        /\ [file EXCEPT !.model = 1].store = file.store
    BY <2>1 DEF Environments
  <2>3. backend' = backend \/ backend' = Nothing
    BY DEF Operate
  <2>4. \/ file' = file
        \/ file' = Nothing /\ ~backend.there
        \/ /\ file.there
           /\ \/ \E key \in docs : /\ file.key = Blank /\ (docs = {Other} \/ key # Other)
                                  /\ file' = [file EXCEPT !.key = key]
              \/ file' = [file EXCEPT !.password = volume]
              \/ file' = [file EXCEPT !.model = 1]
    BY DEF Operate
  <2>5. ASSUME NEW key \in docs, file.there, file.key = Blank, docs = {Other} \/ key # Other,
               file' = [file EXCEPT !.key = key]
        PROVE  /\ file'.there /\ file'.store = file.store /\ file'.key = key
    BY <2>2, <2>5
  <2>6. ASSUME file.there, \/ file' = [file EXCEPT !.password = volume]
                           \/ file' = [file EXCEPT !.model = 1]
        PROVE  /\ file'.there /\ file'.store = file.store /\ file'.key = file.key
    <3>1. CASE file' = [file EXCEPT !.password = volume]
      BY <2>1, <2>6, <3>1 DEF Environments
    <3>2. CASE file' = [file EXCEPT !.model = 1]
      BY <2>1, <2>6, <3>2 DEF Environments
    <3>. QED  BY <2>6, <3>1, <3>2
  <2>. QED  BY <2>3, <2>4, <2>5, <2>6
<1>5. \A key \in docs : Usable(key)
  BY DEF Consistent, InstallerTypeOK, Usable
<1>6. FileMakesSense'
  BY <1>4, <1>5, ValueFacts DEF Consistent, FileMakesSense, Nothing, Usable
<1>7. BackendHasTheKey'
  BY <1>4 DEF Consistent, BackendHasTheKey, Nothing
<1>8. OneKey'
  BY <1>1 DEF Consistent, OneKey
<1>9. StoredSecretsStayReadable'
  <2>. DEFINE own == docs \ {Other}
  <2>1. \A k \in own : own \subseteq {k}
    BY DEF Consistent, OneKey
  <2>. SUFFICES ASSUME file'.there, own # {}  PROVE file'.key = Blank \/ own \subseteq {file'.key}
    BY <1>1 DEF StoredSecretsStayReadable
  <2>2. docs # {Other}
    OBVIOUS
  <2>3. CASE file' = file \/ (file.there /\ file'.key = file.key)
    BY <2>3 DEF Consistent, StoredSecretsStayReadable
  <2>4. CASE file' = Nothing
    BY <2>4 DEF Nothing
  <2>5. CASE file.key = Blank /\ file'.key \in docs /\ (docs = {Other} \/ file'.key # Other)
    BY <2>1, <2>2, <2>5
  <2>. QED  BY <1>4, <2>3, <2>4, <2>5
<1>10. InstallerTypeOK' /\ setup' \in Setups
  BY <1>1, <1>2 DEF Consistent, InstallerTypeOK, Setups
<1>11. /\ FileIsRead' /\ SetupsCount' /\ FileIsWritten' /\ ReportsInOrder' /\ ReportsStayTrue'
       /\ ReadyMeansReady' /\ ReadyToTheEnd'
  BY <1>1 DEF FileIsRead, SetupsCount, FileIsWritten, ReportsInOrder, ReportsStayTrue,
              ReadyMeansReady, ReadyToTheEnd, Running
<1>. QED  BY <1>3, <1>6, <1>7, <1>8, <1>9, <1>10, <1>11 DEF Consistent

-----------------------------------------------------------------------------
(* The theorems *)

\* A checkout as it is cloned, or with the file an operator has written.
LEMMA InitConsistent == Init => Consistent
<1>. SUFFICES ASSUME Init  PROVE Consistent
  OBVIOUS
<1>1. Nothing \in Environments
  BY ValueFacts DEF Nothing, Environments, Blank
<1>2. ASSUME NEW e \in Handwritten
      PROVE  /\ e \in Environments /\ e.there
             /\ e.key # Blank /\ ~Usable(e.key) => e.store # Blank
  <2>. DEFINE whole == [there |-> TRUE, uri |-> 1, password |-> Other, store |-> 1,
                        key |-> Other, model |-> 1]
  <2>1. whole \in Environments
    BY ValueFacts DEF Environments
  <2>2. \A x \in Environments :
            LET f == [x EXCEPT !.there = TRUE, !.model = 1]
            IN f \in Environments /\ f.there /\ f.key = x.key
    BY DEF Environments
  <2>3. \A x \in Environments : \A v \in Values :
            LET f == [x EXCEPT !.key = v]
            IN f \in Environments /\ f.there = x.there /\ f.store = x.store
    BY DEF Environments
  <2>4. CASE e = whole
    BY <2>1, <2>4, ValueFacts
  <2>5. CASE e = [Nothing EXCEPT !.there = TRUE, !.model = 1]
    <3>1. Nothing.key = Blank
      BY DEF Nothing
    <3>. QED  BY <1>1, <2>2, <2>5, <3>1
  <2>6. CASE e = [whole EXCEPT !.key = MaxSetups + 2]
    <3>1. whole.there /\ whole.store # Blank
      BY DEF Blank
    <3>. HIDE DEF whole
    <3>. QED  BY <2>1, <2>3, <2>6, <3>1, ValueFacts
  <2>. QED  BY <2>4, <2>5, <2>6 DEF Handwritten
<1>3. /\ setup \in Setups /\ ~Running /\ ~settled
  BY <1>1, CheckOrder DEF Init, Idle, Setups, Statuses, Running
<1>4. InstallerTypeOK
  <2>1. have \subseteq Tools
    BY DEF Init, Tools
  <2>2. file \in Environments /\ backend \in Environments
    BY <1>1, <1>2 DEF Init
  <2>3. docs \subseteq 1..Other
    BY SetupsAssumption DEF Init, Other
  <2>4. volume \in Values /\ setups \in 0..MaxSetups
    BY ValueFacts, SetupsAssumption DEF Init
  <2>. QED  BY <1>3, <2>1, <2>2, <2>3, <2>4 DEF Init, InstallerTypeOK, Setups
<1>5. FileMakesSense
  BY <1>2 DEF Init, FileMakesSense, Nothing
<1>6. OneKey /\ StoredSecretsStayReadable
  <2>1. docs \ {Other} = {}
    BY DEF Init
  <2>. QED  BY <2>1 DEF OneKey, StoredSecretsStayReadable
<1>7. BackendHasTheKey /\ DockerRuns
  BY DEF Init, BackendHasTheKey, Nothing, DockerRuns, Tools
<1>8. /\ FileIsRead /\ SetupsCount /\ FileIsWritten /\ ReportsInOrder /\ ReportsStayTrue
      /\ ReadyMeansReady /\ ReadyToTheEnd
  BY <1>3 DEF FileIsRead, SetupsCount, FileIsWritten, ReportsInOrder, ReportsStayTrue,
              ReadyMeansReady, ReadyToTheEnd, Running
<1>. QED  BY <1>3, <1>4, <1>5, <1>6, <1>7, <1>8 DEF Consistent

\* Every step keeps it.
LEMMA NextConsistent == Consistent /\ [Next]_vars => Consistent'
<1>. SUFFICES ASSUME Consistent, [Next]_vars  PROVE Consistent'
  OBVIOUS
<1>1. CASE UNCHANGED vars
  <2>1. \A c \in CheckNames : Vouched(c)' <=> Vouched(c)
    BY <1>1 DEF vars, Vouched, Usable
  <2>2. ReportsStayTrue'
    BY <1>1, <2>1 DEF vars, Consistent, ReportsStayTrue, Running
  <2>3. InstallerTypeOK' /\ setup' \in Setups
    BY <1>1 DEF vars, Consistent, InstallerTypeOK, Setups
  <2>4. /\ FileIsRead' /\ FileMakesSense' /\ BackendHasTheKey' /\ OneKey'
        /\ StoredSecretsStayReadable' /\ DockerRuns' /\ SetupsCount' /\ FileIsWritten'
        /\ ReportsInOrder' /\ ReadyMeansReady' /\ ReadyToTheEnd'
    BY <1>1 DEF vars, Consistent, FileIsRead, FileMakesSense, BackendHasTheKey, OneKey,
                StoredSecretsStayReadable, DockerRuns, SetupsCount, FileIsWritten,
                ReportsInOrder, ReadyMeansReady, ReadyToTheEnd, Running, Usable
  <2>. QED  BY <2>2, <2>3, <2>4 DEF Consistent
<1>2. CASE Check
  BY <1>2, PythonKeeps, DockerKeeps, UvKeeps, NodeKeeps, EnvironmentFileKeeps, CreateFileKeeps,
     FillFileKeeps, SecretStoreKeeps, ConfigureKeeps, PackagesKeeps, FrontendKeeps, ModelKeeps,
     Neo4jKeeps, LoginKeeps, WebKeeps, BrowserKeeps, ExitKeeps DEF Check
<1>. QED  BY <1>1, <1>2, StartKeeps, StopKeeps, StoreKeeps, OperateKeeps DEF Next

\* The inductive invariant of setups (environment_setup.py): what a setup goes by is what the
\* file says, its reports are in order and stay true, and the keys of the file, of the backend
\* and of what was stored are one.
THEOREM InstallerInvariant == Spec => []Consistent
BY InitConsistent, NextConsistent, PTL DEF Spec

\* What this checkout's backend has stored can be read with the key in its file, or the file
\* says that the key is missing (ensure_environment_file(), ensure_secret_store()).
THEOREM SecretsStayReadable == Spec => []StoredSecretsStayReadable
<1>1. Consistent => StoredSecretsStayReadable
  BY DEF Consistent
<1>. QED  BY <1>1, InstallerInvariant, PTL

\* A dry run reports only (--check): no check of one changes anything but its report.
LEMMA DryRunKeeps ==
    ASSUME Next, Running, setup.dry
    PROVE  UNCHANGED <<have, file, volume, bolt, backend, frontend>>
<1>1. ASSUME NEW c, NEW tool, NEW possible, NEW brings, Ensure(c, tool, possible, brings)
      PROVE  UNCHANGED <<have, file, volume, bolt, backend, frontend>>
  BY <1>1 DEF Ensure, KeepsServices
<1>2. CASE CheckDocker
  BY <1>2 DEF CheckDocker, KeepsServices, Reached
<1>3. CASE \/ CheckPython \/ EnsureUv \/ EnsureNode
           \/ CheckPythonDependencies \/ CheckFrontendDependencies
  BY <1>1, <1>3 DEF CheckPython, EnsureUv, EnsureNode, CheckPythonDependencies,
                    CheckFrontendDependencies, KeepsServices
<1>4. CASE \/ CheckEnvironmentFile \/ CreateEnvironmentFile \/ FillEnvironmentFile
           \/ CheckSecretStore \/ ConfigureSecretStore
  BY <1>4 DEF CheckEnvironmentFile, CreateEnvironmentFile, FillEnvironmentFile, CheckSecretStore,
              ConfigureSecretStore, Repairs, KeepsServices
<1>5. CASE \/ CheckModelEndpoint \/ CheckNeo4j \/ CheckNeo4jConnectivity \/ CheckWebServices
           \/ OpenWorkspace \/ Exit
  BY <1>5 DEF CheckModelEndpoint, CheckNeo4j, CheckNeo4jConnectivity, CheckWebServices,
              OpenWorkspace, Exit, KeepsServices
<1>6. CASE Stop \/ StoreSecret
  BY <1>6 DEF Stop, StoreSecret, Repairs, KeepsServices
<1>7. ~Operate /\ \A dry \in BOOLEAN : ~Start(dry)
  BY DEF Operate, Start
<1>. QED  BY <1>2, <1>3, <1>4, <1>5, <1>6, <1>7 DEF Next, Check

\* A setup that exits with 0 leaves a workspace that works and in which the next one finds
\* nothing to repair but a Node that is not on PATH, and asking for a report costs nothing
\* (run_setup(), --check).
THEOREM SetupsKeepTheirPromise == Spec => SetupsKeepTheirWord
<1>1. Consistent => InstallerTypeOK /\ ReadyMeansReady
  BY DEF Consistent, ReadyToTheEnd
<1>2. [Next]_vars => [Running /\ setup.dry =>
                        UNCHANGED <<have, file, volume, bolt, backend, frontend>>]_vars
  BY DryRunKeeps
<1>. QED  BY <1>1, <1>2, InstallerInvariant, PTL DEF Spec, SetupsKeepTheirWord, DryRunChangesNothing

=============================================================================
