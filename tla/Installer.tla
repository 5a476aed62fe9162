------------------------------ MODULE Installer ------------------------------
(***************************************************************************)
(* setup.py (tools/environment_setup.py): thirteen checks in a row, each of *)
(* which reports and may repair, run again and again over one checkout      *)
(* while its operator, its backend and another checkout of the same machine *)
(* go on.  A setup may stop between any two checks.                         *)
(*                                                                          *)
(* Secrets are numbers: the setup with number n generates the secret n.     *)
(* The variables an operator may export over the file are left out.  "node" *)
(* is a Node.js on PATH that Vite takes, "vendored" the one a setup has     *)
(* put into .tools/node, where no later setup looks.                        *)
(***************************************************************************)
EXTENDS Integers, Sequences, FiniteSets

CONSTANT MaxSetups      \* bound on the number of setups

ASSUME SetupsAssumption == MaxSetups \in Nat \ {0}

VARIABLES
    have,       \* what is installed, and what runs of it
    file,       \* the checkout's .env
    docs,       \* the keys of the documents in the credential store of the machine
    volume,     \* the password Neo4j's data volume was initialised with
    bolt,       \* whether Neo4j answers
    backend,    \* the environment the backend runs in
    frontend,   \* whether Vite answers
    setup,      \* the setup in progress
    setups,     \* how many there were
    settled     \* whether the last one exited with 0, and nobody changed a thing since

vars == <<have, file, docs, volume, bolt, backend, frontend, setup, setups, settled>>

Tools == {"python", "docker", "daemon", "uv", "node", "vendored", "dir", "venv", "driver", "vite"}

Blank == 0
Other == MaxSetups + 1      \* the key of the machine's other checkout
Usable(key) == key \in 1..Other
Values == 0..(MaxSetups + 2)

Nothing == [there |-> FALSE, uri |-> Blank, password |-> Blank, store |-> Blank,
            key |-> Blank, model |-> Blank]

\* A file an operator has written: with what it takes, without the graph's part, or
\* with a key that is no key.
Handwritten ==
    LET whole == [there |-> TRUE, uri |-> 1, password |-> Other, store |-> 1,
                  key |-> Other, model |-> 1]
    IN {whole, [Nothing EXCEPT !.there = TRUE, !.model = 1],
        [whole EXCEPT !.key = MaxSetups + 2]}

Checks == <<"python", "docker", "uv", "node", "file", "secrets", "packages", "frontend",
            "model", "neo4j", "login", "web", "browser">>

CheckNames == {Checks[i] : i \in DOMAIN Checks}
Statuses == {"none", "ok", "fixed", "blocked", "skipped"}

Idle == [at |-> 0, dry |-> FALSE, env |-> Nothing, fresh |-> FALSE,
         status |-> [c \in CheckNames |-> "none"]]

Environments ==
    [there : BOOLEAN, uri : {0, 1}, password : Values, store : {0, 1}, key : Values,
     model : {0, 1}]

\* The state fits the program's types.
InstallerTypeOK ==
    /\ have \subseteq Tools
    /\ {file, backend, setup.env} \subseteq Environments
    /\ docs \subseteq 1..Other
    /\ volume \in Values
    /\ {bolt, frontend, settled, setup.dry, setup.fresh} \subseteq BOOLEAN
    /\ setup.at \in 0..(Len(Checks) + 1)
    /\ setup.status \in [CheckNames -> Statuses]
    /\ setups \in 0..MaxSetups

Init ==
    /\ have \in {{"python"}, {"python", "docker", "uv", "node"}, Tools \ {"dir", "driver", "node"}}
    /\ file \in {Nothing} \cup Handwritten
    /\ docs \in {{}, {Other}}
    /\ volume = Blank /\ bolt = FALSE
    /\ backend = Nothing /\ frontend = FALSE
    /\ setup = Idle /\ setups = 0 /\ settled = FALSE

-----------------------------------------------------------------------------
(* A check and its report *)

Running == setup.at # 0
At(c) == setup.at \in DOMAIN Checks /\ Checks[setup.at] = c
Repairs(c) == At(c) /\ ~setup.dry

Report(c, status) ==
    setup' = [setup EXCEPT !.at = @ + 1, !.status[c] = status]

\* The file has changed: the checks that follow go by it.
ReportFile(c, status, new) ==
    /\ file' = new
    /\ setup' = [setup EXCEPT !.at = @ + 1, !.status[c] = status, !.env = new]

Keeps == UNCHANGED <<docs, setups, settled>>
KeepsServices == UNCHANGED <<volume, bolt, backend, frontend>>

\* Fields of the file that have no value get one; those that have one keep it.
AppendValues(old, new) ==
    [f \in DOMAIN old |-> IF f \in DOMAIN new /\ old[f] = Blank THEN new[f] ELSE old[f]]

Start(dry) ==
    /\ ~Running /\ setups < MaxSetups
    /\ setups' = setups + 1
    /\ setup' = [Idle EXCEPT !.at = 1, !.dry = dry, !.env = file]
    /\ UNCHANGED <<have, file, docs, settled>> /\ KeepsServices

CheckPython ==
    /\ At("python")
    /\ Report("python", IF "python" \in have THEN "ok" ELSE "blocked")
    /\ UNCHANGED <<have, file>> /\ Keeps /\ KeepsServices

\* What is there is fine, a dry run says what is not, a repair works or does not.
Ensure(c, tool, possible, brings) ==
    /\ At(c)
    /\ \/ tool \in have /\ Report(c, "ok") /\ UNCHANGED have
       \/ tool \notin have /\ setup.dry /\ Report(c, "skipped") /\ UNCHANGED have
       \/ /\ tool \notin have /\ ~setup.dry /\ possible
          /\ have' = have \cup brings
          /\ Report(c, "fixed")
       \/ tool \notin have /\ ~setup.dry /\ Report(c, "blocked") /\ UNCHANGED have
    /\ UNCHANGED file /\ Keeps /\ KeepsServices

EnsureUv == Ensure("uv", "uv", TRUE, {"uv"})

\* A Node that an earlier setup has downloaded is not on PATH: it is downloaded again.
EnsureNode == Ensure("node", "node", TRUE, {"vendored"})

\* The setup's own Node: the one on PATH, or the one it has downloaded.
HasNode == "node" \in have \/ setup.status["node"] = "fixed"

CheckFrontendDependencies == Ensure("frontend", "vite", HasNode, {"vite"})

\* Without uv even a healthy environment is reported.
CheckPythonDependencies ==
    IF ~setup.dry /\ "uv" \notin have
    THEN /\ At("packages")
         /\ Report("packages", "blocked")
         /\ UNCHANGED <<have, file>> /\ Keeps /\ KeepsServices
    ELSE Ensure("packages", "venv", "uv" \in have, {"venv", "driver"})

Reached(tools, status) == [have |-> tools, status |-> status]

\* The official installer is not for this machine, wants root or fails, perhaps with the
\* application half copied; or it installs Docker, and on Linux starts its daemon.
InstallDocker ==
    {Reached(have, "blocked"), Reached(have \cup {"docker"}, "blocked"),
     Reached(have \cup {"docker"}, "fixed"), Reached(have \cup {"docker", "daemon"}, "fixed")}

\* The desktop opens and its daemon answers in time, or late, or not at all.
StartDocker(tools) ==
    {Reached(tools \cup {"daemon"}, "fixed"), Reached(tools \cup {"daemon"}, "blocked"),
     Reached(tools, "blocked")}

\* Docker may be installed and still be out of this process's sight; where it is in
\* sight and its daemon does not answer, that is started.
CheckDocker ==
    LET there == {"docker", "daemon"} \subseteq have
        found == IF "docker" \in have THEN {Reached(have, "fixed")} ELSE InstallDocker
        started(d) == IF d.status = "blocked" THEN {d}
                      ELSE IF "daemon" \in d.have THEN {Reached(d.have, "ok")}
                      ELSE StartDocker(d.have)
        unseen == IF "docker" \in have THEN {} ELSE {d \in found : d.status = "fixed"}
    IN /\ At("docker")
       /\ \E d \in IF there THEN {Reached(have, "ok")}
                  ELSE IF setup.dry THEN {Reached(have, "skipped")}
                  ELSE unseen \cup UNION {started(i) : i \in found} :
            have' = d.have /\ Report("docker", d.status)
       /\ UNCHANGED file /\ Keeps /\ KeepsServices

\* A download that fails in the check of Docker or of uv is nobody's to catch: the
\* setup ends without a report.  Ctrl+C ends it anywhere, also between the removal of the
\* Node that was downloaded and the move of the new one to its place.
Stop ==
    /\ Running
    /\ setup' = Idle
    /\ \/ UNCHANGED have
       \/ Repairs("node") /\ "node" \notin have /\ have' = have \ {"vendored"}
    /\ UNCHANGED file /\ Keeps /\ KeepsServices

\* A slip of CreateEnvironmentFile: a key is made whatever the store holds.
CreateEnvironmentFileWithKey ==
    /\ Repairs("file") /\ ~file.there
    /\ ReportFile("file", "fixed",
        [there |-> TRUE, uri |-> 1, password |-> setups, store |-> 1, model |-> Blank, key |-> setups])
    /\ UNCHANGED have /\ Keeps /\ KeepsServices

\* The template, with a password of its own, and a key unless the store holds documents.
CreateEnvironmentFile ==
    /\ Repairs("file") /\ ~file.there
    /\ ReportFile("file", "fixed",
        [there |-> TRUE, uri |-> 1, password |-> setups, store |-> 1, model |-> Blank,
         key |-> IF docs = {} THEN setups ELSE Blank])
    /\ UNCHANGED have /\ Keeps /\ KeepsServices

FillEnvironmentFile ==
    /\ Repairs("file") /\ file.there /\ Blank \in {file.uri, file.password}
    /\ ReportFile("file", "fixed", AppendValues(file, [uri |-> 1, password |-> setups]))
    /\ UNCHANGED have /\ Keeps /\ KeepsServices

CheckEnvironmentFile ==
    /\ At("file")
    /\ \/ setup.dry /\ Blank \in {file.uri, file.password} /\ Report("file", "skipped")
       \/ Blank \notin {file.uri, file.password} /\ Report("file", "ok")
    /\ UNCHANGED <<have, file>> /\ Keeps /\ KeepsServices

Incomplete == Blank \in {setup.env.store, setup.env.key}

\* A store that holds documents has its key already, wherever it is.
ConfigureSecretStore ==
    /\ Repairs("secrets") /\ Incomplete
    /\ IF docs # {} /\ setup.env.key = Blank
       THEN Report("secrets", "blocked") /\ UNCHANGED <<have, file>>
       ELSE /\ ReportFile("secrets", "fixed", AppendValues(file, [store |-> 1, key |-> setups]))
            /\ have' = have \cup {"dir"}
    /\ Keeps /\ KeepsServices

\* A slip of CheckSecretStore: a dry run makes the directory.
CheckSecretStoreAndRepair ==
    /\ At("secrets") /\ ~Incomplete
    /\ IF ~Usable(setup.env.key) THEN Report("secrets", "blocked") /\ UNCHANGED have
       ELSE Report("secrets", "fixed") /\ have' = have \cup {"dir"}
    /\ UNCHANGED file /\ Keeps /\ KeepsServices

\* A key that is no key is for the operator to replace; a directory that is not there is made.
CheckSecretStore ==
    /\ At("secrets")
    /\ \/ setup.dry /\ Incomplete /\ Report("secrets", "skipped") /\ UNCHANGED have
       \/ /\ ~Incomplete
          /\ IF ~Usable(setup.env.key) THEN Report("secrets", "blocked") /\ UNCHANGED have
             ELSE IF "dir" \in have THEN Report("secrets", "ok") /\ UNCHANGED have
             ELSE IF setup.dry THEN Report("secrets", "skipped") /\ UNCHANGED have
             ELSE Report("secrets", "fixed") /\ have' = have \cup {"dir"}
    /\ UNCHANGED file /\ Keeps /\ KeepsServices

\* The operator is asked at a terminal, and answers or does not.
PromptForModel ==
    \/ ReportFile("model", "fixed", AppendValues(file, [model |-> 1]))
    \/ Report("model", "blocked") /\ UNCHANGED file

\* Offline it is skipped; the endpoint may refuse the key, or not answer.
CheckModelEndpoint ==
    /\ At("model")
    /\ \/ Report("model", "skipped") /\ UNCHANGED file
       \/ setup.env.model = Blank /\ ~setup.dry /\ PromptForModel
       \/ Report("model", "blocked") /\ UNCHANGED file
       \/ setup.env.model # Blank /\ Report("model", "ok") /\ UNCHANGED file
    /\ UNCHANGED have /\ Keeps /\ KeepsServices

\* A container is started only where there is no volume yet: its password would be the
\* one it was initialised with.  It may fail to start, or to be ready in time.
CheckNeo4j ==
    /\ At("neo4j")
    /\ \/ bolt /\ Report("neo4j", "ok") /\ UNCHANGED <<volume, bolt>>
       \/ ~bolt /\ setup.dry /\ Report("neo4j", "skipped") /\ UNCHANGED <<volume, bolt>>
       \/ /\ ~bolt /\ ~setup.dry
          /\ Report("neo4j", "blocked")
          /\ UNCHANGED <<volume, bolt>>
       \/ /\ ~bolt /\ ~setup.dry /\ {"docker", "daemon"} \subseteq have
          /\ setup.env.password # Blank /\ volume = Blank
          /\ volume' = setup.env.password
          /\ bolt' \in BOOLEAN
          /\ setup' = [setup EXCEPT !.at = @ + 1, !.fresh = bolt',
                         !.status["neo4j"] = IF bolt' THEN "fixed" ELSE "blocked"]
    /\ UNCHANGED <<have, file, backend, frontend>> /\ Keeps

\* A container that was just started may reject its own password for a while.
CheckNeo4jConnectivity ==
    /\ At("login")
    /\ IF ~({"venv", "driver"} \subseteq have) THEN Report("login", "skipped")
       ELSE \/ bolt /\ setup.env.password = volume /\ Report("login", "ok")
            \/ /\ ~bolt \/ setup.env.password # volume \/ setup.fresh
               /\ Report("login", "blocked")
    /\ UNCHANGED <<have, file>> /\ Keeps /\ KeepsServices

\* A server may exit before it answers.  One that is not ready in time is reported, and
\* left to run in the setup's environment.
StartBackend ==
    \/ backend' = backend
    \/ ~backend.there /\ "venv" \in have /\ backend' = setup.env

StartFrontend ==
    \/ frontend' = frontend
    \/ ~frontend /\ "vite" \in have /\ HasNode /\ frontend' = TRUE

\* What answers is left alone, what does not is started.
CheckWebServices ==
    /\ At("web")
    /\ \/ backend.there /\ frontend /\ Report("web", "ok") /\ UNCHANGED <<backend, frontend>>
       \/ /\ ~(backend.there /\ frontend) /\ setup.dry
          /\ Report("web", "skipped") /\ UNCHANGED <<backend, frontend>>
       \/ /\ ~(backend.there /\ frontend) /\ ~setup.dry
          /\ StartBackend /\ StartFrontend
          /\ \/ backend'.there /\ frontend' /\ Report("web", "fixed")
             \/ Report("web", "blocked")
    /\ UNCHANGED <<have, file, volume, bolt>> /\ Keeps

OpenWorkspace ==
    /\ At("browser")
    /\ \/ Report("browser", "skipped")
       \/ frontend /\ ~setup.dry /\ Report("browser", "fixed")
    /\ UNCHANGED <<have, file>> /\ Keeps /\ KeepsServices

Blocked == {c \in CheckNames : setup.status[c] = "blocked"}

\* The exit code: 0 unless a check is blocked.
Exit ==
    /\ setup.at = Len(Checks) + 1
    /\ setup' = Idle
    /\ settled' = IF setup.dry THEN settled ELSE Blocked = {}
    /\ UNCHANGED <<have, file, docs, setups>> /\ KeepsServices

Check ==
    \/ CheckPython \/ CheckDocker \/ EnsureUv \/ EnsureNode
    \/ CheckEnvironmentFile \/ CreateEnvironmentFile \/ FillEnvironmentFile
    \/ CheckSecretStore \/ ConfigureSecretStore
    \/ CheckPythonDependencies \/ CheckFrontendDependencies \/ CheckModelEndpoint
    \/ CheckNeo4j \/ CheckNeo4jConnectivity \/ CheckWebServices \/ OpenWorkspace
    \/ Exit

-----------------------------------------------------------------------------
(* Everybody else *)

\* A backend that has a key stores under it; so does the other checkout's.
StoreSecret ==
    /\ \/ backend.there /\ Usable(backend.key) /\ backend.store # Blank
          /\ docs' = docs \cup {backend.key}
       \/ docs' = docs \cup {Other}
    /\ UNCHANGED <<have, file, setup, setups, settled>> /\ KeepsServices

\* Between two setups the operator stops the services or the machine, puts back or
\* fills in what a report told, starts Neo4j, or removes its volume.  The file is
\* removed only while no backend runs in it.
Operate ==
    /\ ~Running
    /\ settled' = FALSE
    /\ \/ /\ backend' = Nothing /\ frontend' = FALSE
          /\ \/ UNCHANGED <<have, bolt>>
             \/ bolt' = FALSE /\ have' = have \ {"daemon"}
          /\ UNCHANGED <<file, volume>>
       \/ /\ file.there
          /\ \/ /\ file.key = Blank
                /\ \E key \in (IF docs = {Other} THEN docs ELSE docs \ {Other}) :
                       file' = [file EXCEPT !.key = key]
             \/ volume # Blank /\ file' = [file EXCEPT !.password = volume]
             \/ file' = [file EXCEPT !.model = 1]
          /\ UNCHANGED <<have, volume, bolt, backend, frontend>>
       \/ /\ ~backend.there
          /\ file' = Nothing
          /\ UNCHANGED <<have, volume, bolt, backend, frontend>>
       \/ /\ {"docker", "daemon"} \subseteq have /\ file.there /\ file.password # Blank
          /\ bolt' = TRUE
          /\ volume' = IF volume = Blank THEN file.password ELSE volume
          /\ UNCHANGED <<have, file, backend, frontend>>
       \/ /\ volume' = Blank /\ bolt' = FALSE
          /\ UNCHANGED <<have, file, backend, frontend>>
    /\ UNCHANGED <<docs, setup, setups>>

Next == (\E dry \in BOOLEAN : Start(dry)) \/ Check \/ Stop \/ StoreSecret \/ Operate

Spec == Init /\ [][Next]_vars

-----------------------------------------------------------------------------
(* Properties *)

\* What this checkout's backend has stored can be read with the key in its file, or the
\* file says that the key is missing: however setups stop, the file is lost and written
\* again, and the other checkout uses the store too ("a key is only generated when the
\* store holds no secrets yet").
StoredSecretsStayReadable ==
    LET own == docs \ {Other}
    IN file.there /\ own # {} => file.key = Blank \/ own \subseteq {file.key}

\* A setup that exits with 0 leaves a workspace that works, and the next one finds
\* nothing to repair but a Node that is not on PATH, which it downloads once more or, where
\* it cannot, is blocked by; the login is known to work where the driver is there to try it.
ReadyMeansReady ==
    settled =>
        /\ {"uv", "dir", "venv", "vite"} \subseteq have
        /\ file.there /\ Usable(file.key) /\ backend.there /\ frontend /\ bolt
        /\ "driver" \in have => file.password = volume
        /\ \A c \in CheckNames \ {"model", "browser"} :
               \/ setup.status[c] \in {"none", "ok", "skipped"}
               \/ c = "node" /\ "node" \notin have

\* "--check: report only; change nothing", which is up to every check.
DryRunChangesNothing ==
    [][Running /\ setup.dry =>
        UNCHANGED <<have, file, volume, bolt, backend, frontend>>]_vars

\* Both: a report can be relied on, and asking for one costs nothing.
SetupsKeepTheirWord == [](InstallerTypeOK /\ ReadyMeansReady) /\ DryRunChangesNothing

\* What a workspace reported as ready runs on is what its file says: the backend that
\* was left to run by an earlier setup may never have seen it.
ReadyBackendIsCurrent == settled => backend = file

\* "fixed: it was missing or unhealthy, and this script repaired it", after which a Node
\* is missing as before: .tools/node is a directory, and what is looked for is a file.
RepairedNodeIsFound == settled => setup.status["node"] \in {"none", "ok"}

-----------------------------------------------------------------------------
(* The inductive invariant *)

Setups ==
    [at : 0..(Len(Checks) + 1), dry : BOOLEAN, env : Environments, fresh : BOOLEAN,
     status : [CheckNames -> Statuses]]

\* What a setup goes by is what the file says: nobody else writes it meanwhile.
FileIsRead == Running => setup.env = file

\* A file that is not there says nothing; one with a key that is no key names a store.
FileMakesSense ==
    /\ ~file.there => file = Nothing
    /\ file.key # Blank /\ ~Usable(file.key) => file.store # Blank

\* The key a backend runs with is the one of the file, which is never replaced.
BackendHasTheKey ==
    backend.there /\ backend.key # Blank => file.there /\ file.key = backend.key

\* Whatever file it came from, this checkout has stored under one key.
OneKey == \A j, k \in docs \ {Other} : j = k

\* What a machine has whose Neo4j answers.
DockerRuns == "python" \in have /\ (bolt => {"docker", "daemon"} \subseteq have)

\* What a check vouches for unless it is blocked.
Vouched(c) ==
    CASE c = "uv"       -> "uv" \in have
      [] c = "file"     -> file.there /\ Blank \notin {file.uri, file.password}
      [] c = "secrets"  -> file.store # Blank /\ Usable(file.key) /\ "dir" \in have
      [] c = "packages" -> "venv" \in have
      [] c = "frontend" -> "vite" \in have
      [] c = "neo4j"    -> bolt
      [] c = "login"    -> {"venv", "driver"} \subseteq have => file.password = volume
      [] c = "web"      -> backend.there /\ frontend
      [] OTHER          -> TRUE

\* The checks report in their order.
ReportsInOrder ==
    Running => \A i \in DOMAIN Checks : (setup.status[Checks[i]] # "none") <=> (i < setup.at)

\* What has been vouched for stays so while the setup goes on.
ReportsStayTrue ==
    Running /\ ~setup.dry =>
        \A c \in CheckNames : setup.status[c] \notin {"none", "blocked"} => Vouched(c)

\* A setup has a number, and after the check of the file there is one.
SetupsCount == Running => setups > 0
FileIsWritten == Running /\ ~setup.dry /\ setup.at > 5 => file.there

\* A workspace reported as ready, with what its file must say for the next setup to find
\* nothing to do.
ReadyToTheEnd ==
    /\ ReadyMeansReady
    /\ settled => Blank \notin {file.uri, file.password, file.store} /\ ~setup.fresh

Consistent ==
    /\ InstallerTypeOK /\ setup \in Setups
    /\ FileIsRead /\ FileMakesSense
    /\ BackendHasTheKey /\ OneKey /\ StoredSecretsStayReadable
    /\ DockerRuns
    /\ SetupsCount /\ FileIsWritten
    /\ ReportsInOrder /\ ReportsStayTrue /\ ReadyToTheEnd

=============================================================================
