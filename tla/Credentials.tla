------------------------------ MODULE Credentials ------------------------------
(***************************************************************************)
(* Managed secrets and the connection profiles that name them.  Secrets    *)
(* are files of a store, profiles are rows of the catalog, and nothing     *)
(* locks one against the other: requests of several threads create, use,   *)
(* replace and delete both.                                                *)
(***************************************************************************)
EXTENDS Integers, FiniteSets, TLC

CONSTANTS
    Threads, Datasources, Secrets,
    Fields,         \* the fields of a profile that may name a secret
    TlsFields,      \* those of its TLS configuration
    Environment,    \* a reference to a variable of the environment or to a file
    None, Gone,
    Unmanaged,      \* bound: what a field is tried with besides managed secrets
    MaxCalls,       \* bound: requests about datasources and deletions of secrets
    MaxCrashes      \* bound: crashes

ASSUME CredentialsAssumption ==
    /\ IsFiniteSet(Datasources) /\ IsFiniteSet(Fields) /\ TlsFields \subseteq Fields
    /\ {Environment, None} \cap Secrets = {} /\ Environment # None
    /\ {None, Gone} \cap [Fields -> Secrets \cup {Environment, None}] = {} /\ None # Gone
    /\ Unmanaged \in [Fields -> SUBSET {Environment, None}]
    /\ MaxCalls \in Nat /\ MaxCrashes \in Nat

Reference == Secrets \cup {Environment, None}
Profile == [Fields -> Reference]

VARIABLES
    store,      \* the secrets whose file exists
    known,      \* the secrets whose id some caller was given
    row,        \* the profile of each datasource, None before it is created
    call,       \* what each thread does
    material,   \* the threads whose directory of TLS files exists
    named,      \* history: secrets some row has named
    raced,      \* history: secrets named by a row while they were deleted
    left,       \* history: secrets whose clean-up failed, or that nobody knew of
    calls, crashes

history == <<named, raced, left>>
vars == <<store, known, row, call, material, history, calls, crashes>>

-----------------------------------------------------------------------------
(* What a profile names *)

ManagedIds(profile) == {profile[f] : f \in Fields} \cap Secrets

Stored == {d \in Datasources : row[d] \in Profile}

\* slip: count_managed_secret_references() looks at the login only.
CountOfLogin(secret) ==
    Cardinality({p \in Stored \X (Fields \ TlsFields) : row[p[1]][p[2]] = secret})

Count(secret) == Cardinality({p \in Stored \X Fields : row[p[1]][p[2]] = secret})

Referenced == UNION {ManagedIds(row[d]) : d \in Stored}

-----------------------------------------------------------------------------
(* Threads *)

PC == {"idle", "key", "rollback", "resolve", "connect", "save", "invalidate", "remove",
       "sweep", "exists", "count", "unlink"}

Idle == [op |-> "none", pc |-> "idle", of |-> None, candidate |-> None, previous |-> None,
         secret |-> None, todo |-> {}]

At(t, pc) == call[t].pc = pc

Becomes(t, c) == call' = [call EXCEPT ![t] = c]

Goto(t, pc) == Becomes(t, [call[t] EXCEPT !.pc = pc])

Returns(t) == Becomes(t, Idle)

Begin(t) ==
    /\ At(t, "idle") /\ calls < MaxCalls /\ calls' = calls + 1
    /\ UNCHANGED crashes

Init ==
    /\ store = {} /\ known = {} /\ row = [d \in Datasources |-> None]
    /\ call = [t \in Threads |-> Idle] /\ material = {}
    /\ named = {} /\ raced = {} /\ left = {} /\ calls = 0 /\ crashes = 0

-----------------------------------------------------------------------------
(* Secrets are created: create_secret() and create_client_identity() *)

Fresh == Secrets \ (store \cup known)

\* The id is random and the document replaces nothing: a failed write leaves nothing.
CreateSecret(t) ==
    \E s \in Fresh :
        /\ At(t, "idle")
        /\ store' = store \cup {s} /\ known' = known \cup {s}
        /\ UNCHANGED <<row, call, material, history, calls, crashes>>

WriteCertificate(t) ==
    \E s \in Fresh :
        /\ At(t, "idle")
        /\ store' = store \cup {s}
        /\ Becomes(t, [Idle EXCEPT !.op = "identity", !.pc = "key", !.secret = s])
        /\ UNCHANGED <<known, row, material, history, calls, crashes>>

WriteKey(t) ==
    \E s \in Fresh :
        /\ At(t, "key")
        /\ store' = store \cup {s} /\ known' = known \cup {s, call[t].secret}
        /\ Returns(t)
        /\ UNCHANGED <<row, material, history, calls, crashes>>

WriteKeyFails(t) ==
    /\ At(t, "key") /\ Goto(t, "rollback")
    /\ UNCHANGED <<store, known, row, material, history, calls, crashes>>

\* Best effort: the certificate stays where its deletion fails.
RollBack(t) ==
    /\ At(t, "rollback") /\ Returns(t)
    /\ \/ store' = store \ {call[t].secret} /\ UNCHANGED left
       \/ left' = left \cup {call[t].secret} /\ UNCHANGED store
    /\ UNCHANGED <<known, row, material, named, raced, calls, crashes>>

-----------------------------------------------------------------------------
(* Candidates are proven before anything is written: _test_secure_connection() *)

Candidates == {c \in Profile : \A f \in Fields : c[f] \in known \cup Unmanaged[f]}

Prove(t, op, d, previous, candidate) ==
    /\ Begin(t)
    /\ Becomes(t, [Idle EXCEPT !.op = op, !.pc = "resolve", !.of = d, !.previous = previous,
                               !.candidate = candidate])
    /\ UNCHANGED <<store, known, row, material, history>>

TestSavedDatasource(t) == \E d \in Stored : Prove(t, "test", d, None, row[d])

TestDatasource(t) == \E c \in Candidates : Prove(t, "test", None, None, c)

CreateDatasource(t) == \E c \in Candidates : Prove(t, "create", None, None, c)

UpdateDatasource(t) == \E d \in Stored, c \in Candidates : Prove(t, "update", d, row[d], c)

\* Every reference must resolve; TLS material is written to a directory of its own.
Resolve(t) ==
    LET candidate == call[t].candidate
    IN /\ At(t, "resolve") /\ ManagedIds(candidate) \subseteq store
       /\ material' = IF \E f \in TlsFields : candidate[f] # None THEN material \cup {t}
                      ELSE material
       /\ Goto(t, "connect")
       /\ UNCHANGED <<store, known, row, history, calls, crashes>>

Connect(t) ==
    /\ At(t, "connect")
    /\ material' = material \ {t}
    /\ IF call[t].op = "test" THEN Returns(t) ELSE Goto(t, "save")
    /\ UNCHANGED <<store, known, row, history, calls, crashes>>

Obsolete(previous, candidate) == ManagedIds(previous) \ ManagedIds(candidate)

\* What a thread has still to clean up.
Pending(t) ==
    IF At(t, "invalidate") THEN Obsolete(call[t].previous, call[t].candidate)
    ELSE IF call[t].op \in {"update", "remove"} THEN call[t].todo ELSE {}

\* A reference, the database, the graph or the catalog fails, or the row is gone: an
\* update that has switched its row and fails does not clean up.
CallFails(t) ==
    /\ call[t].pc \in {"resolve", "connect", "save", "invalidate", "remove"}
    /\ material' = material \ {t}
    /\ left' = left \cup Pending(t)
    /\ Returns(t)
    /\ UNCHANGED <<store, known, row, named, raced, calls, crashes>>

-----------------------------------------------------------------------------
(* Rows are written *)

\* The secrets that are deleted already, or that a thread has counted and will delete.
Vanishing(ids) ==
    {s \in ids : s \notin store \/ \E t \in Threads : At(t, "unlink") /\ call[t].secret = s}

Write(d, profile) ==
    /\ row' = [row EXCEPT ![d] = profile]
    /\ named' = named \cup ManagedIds(profile)
    /\ raced' = raced \cup Vanishing(ManagedIds(profile))

Insert(t) ==
    /\ At(t, "save") /\ call[t].op = "create"
    /\ \E d \in Datasources : row[d] = None /\ Write(d, call[t].candidate)
    /\ Returns(t)
    /\ UNCHANGED <<store, known, material, left, calls, crashes>>

\* The profile replaced may not be the one the thread has read.
Switch(t) ==
    LET c == call[t]
    IN /\ At(t, "save") /\ c.op = "update" /\ c.of \in Stored
       /\ Write(c.of, c.candidate)
       /\ left' = left \cup (ManagedIds(row[c.of]) \ ManagedIds(c.previous))
       /\ Goto(t, "invalidate")
       /\ UNCHANGED <<store, known, material, calls, crashes>>

Invalidate(t) ==
    LET c == call[t]
    IN /\ At(t, "invalidate") /\ c.of \in Stored
       /\ Becomes(t, [c EXCEPT !.pc = "sweep", !.todo = Obsolete(c.previous, c.candidate)])
       /\ UNCHANGED <<store, known, row, material, history, calls, crashes>>

DeleteDatasource(t) ==
    \E d \in Stored :
        /\ Begin(t)
        /\ Becomes(t, [Idle EXCEPT !.op = "remove", !.pc = "remove", !.of = d,
                                   !.previous = row[d]])
        /\ UNCHANGED <<store, known, row, material, history>>

RemoveRow(t) ==
    LET c == call[t]
    IN /\ At(t, "remove") /\ c.of \in Stored
       /\ row' = [row EXCEPT ![c.of] = Gone]
       /\ left' = left \cup (ManagedIds(row[c.of]) \ ManagedIds(c.previous))
       /\ Becomes(t, [c EXCEPT !.pc = "sweep", !.todo = ManagedIds(c.previous)])
       /\ UNCHANGED <<store, known, material, named, raced, calls, crashes>>

-----------------------------------------------------------------------------
(* Secrets are deleted: delete_secret() and _cleanup_unreferenced_secrets() *)

DeleteSecret(t) ==
    \E s \in known :
        /\ Begin(t)
        /\ Becomes(t, [Idle EXCEPT !.op = "delete", !.pc = "exists", !.secret = s])
        /\ UNCHANGED <<store, known, row, material, history>>

\* A secret is done with: the sweep goes on, a request of a user returns.
Done(t) ==
    LET c == call[t]
    IN Becomes(t, IF c.op = "delete" THEN Idle
                  ELSE [c EXCEPT !.pc = "sweep", !.secret = None, !.todo = @ \ {c.secret}])

Sweep(t) ==
    /\ At(t, "sweep")
    /\ \/ call[t].todo = {} /\ Returns(t)
       \/ \E s \in call[t].todo :
            Becomes(t, IF Count(s) > 0 THEN [call[t] EXCEPT !.todo = @ \ {s}]
                       ELSE [call[t] EXCEPT !.pc = "exists", !.secret = s])
    /\ UNCHANGED <<store, known, row, material, history, calls, crashes>>

Exists(t) ==
    /\ At(t, "exists")
    /\ IF call[t].secret \in store THEN Goto(t, "count") ELSE Done(t)
    /\ UNCHANGED <<store, known, row, material, history, calls, crashes>>

CountReferences(t) ==
    /\ At(t, "count")
    /\ IF Count(call[t].secret) > 0 THEN Done(t) ELSE Goto(t, "unlink")
    /\ UNCHANGED <<store, known, row, material, history, calls, crashes>>

Unlink(t) ==
    /\ At(t, "unlink")
    /\ store' = store \ {call[t].secret}
    /\ Done(t)
    /\ UNCHANGED <<known, row, material, history, calls, crashes>>

\* A failure is logged and the secret stays; the next one is looked at.
DeletionFails(t) ==
    /\ call[t].pc \in {"exists", "count", "unlink"}
    /\ left' = IF call[t].op = "delete" THEN left ELSE left \cup {call[t].secret}
    /\ Done(t)
    /\ UNCHANGED <<store, known, row, material, named, raced, calls, crashes>>

\* Files and rows outlive the process, the clean-up of its calls does not.
Crash ==
    /\ crashes < MaxCrashes /\ crashes' = crashes + 1
    /\ left' = left \cup (UNION {Pending(t) : t \in Threads})
                    \cup {call[t].secret : t \in {u \in Threads : call[u].op = "identity"}}
    /\ call' = [t \in Threads |-> Idle]
    /\ UNCHANGED <<store, known, row, material, named, raced, calls>>

-----------------------------------------------------------------------------

Request(t) ==
    \/ CreateSecret(t) \/ WriteCertificate(t) \/ TestSavedDatasource(t) \/ TestDatasource(t)
    \/ CreateDatasource(t) \/ UpdateDatasource(t) \/ DeleteDatasource(t) \/ DeleteSecret(t)

Step(t) ==
    \/ WriteKey(t) \/ WriteKeyFails(t) \/ RollBack(t) \/ Resolve(t) \/ Connect(t)
    \/ CallFails(t) \/ Insert(t) \/ Switch(t) \/ Invalidate(t) \/ RemoveRow(t)
    \/ Sweep(t) \/ Exists(t) \/ CountReferences(t) \/ Unlink(t) \/ DeletionFails(t)

Next == Crash \/ \E t \in Threads : Request(t) \/ Step(t)

Spec == Init /\ [][Next]_vars

-----------------------------------------------------------------------------
(* What must hold of secrets, profiles and the files made of them *)

\* A password is managed or of the environment, a certificate managed or not there.
MCUnmanaged == [f \in Fields |-> IF f \in TlsFields THEN {None} ELSE {Environment}]

CredentialSymmetry == Permutations(Threads) \cup Permutations(Secrets) \cup Permutations(Datasources)

\* Calls, rows and files are what the code makes of them; a directory with TLS files
\* exists as long as the connection that reads it, unless the process died with it
\* (open_profile()).
CredentialsTypeOK ==
    /\ store \subseteq Secrets /\ known \subseteq Secrets
    /\ row \in [Datasources -> Profile \cup {None, Gone}]
    /\ \A t \in Threads : call[t].pc \in PC /\ call[t].todo \subseteq Secrets
    /\ crashes = 0 => \A t \in material : At(t, "connect")

\* A secret that a stored profile names can be resolved, whoever shares it and whatever
\* is replaced, deleted or fails, unless it was being deleted at the moment the profile
\* was written (_cleanup_unreferenced_secrets(), delete_secret()).
SharedSecretsSurvive == Referenced \subseteq store \cup raced

\* A secret that profiles have named is named by one, or is about to be collected; the
\* only ones that stay for ever are those whose clean-up failed, or that an update which
\* overlapped another did not know of (_cleanup_obsolete_secrets()).
GarbageIsCollected ==
    store \cap named \subseteq
        Referenced \cup left \cup UNION {Pending(t) : t \in Threads}

\* "A failed import never leaves an orphan credential behind": every file is of a secret
\* a caller was told of, or of an import under way, unless its roll-back failed
\* (create_client_identity()).
NoOrphanCredential ==
    store \subseteq known \cup left \cup {call[t].secret : t \in Threads}

\* No secret is gone that a profile needs, and neither a secret nor a file made from one stays
\* that nothing needs.
SecretsFollowProfiles ==
    CredentialsTypeOK /\ SharedSecretsSurvive /\ GarbageIsCollected /\ NoOrphanCredential

-----------------------------------------------------------------------------
(* The inductive invariant *)

Call == [op : {"none", "identity", "test", "create", "update", "remove", "delete"}, pc : PC,
         of : Datasources \cup {None}, candidate : Profile \cup {None},
         previous : Profile \cup {None}, secret : Secrets \cup {None}, todo : SUBSET Secrets]

Deleting == {"exists", "count", "unlink"}
Sweeping == {"sweep"} \cup Deleting

\* A call is at a point of its own request, and has read what that point uses.
Fits(c) ==
    /\ c.op = "none" => c = Idle
    /\ c.pc = "idle" => c.op = "none"
    /\ c.pc \in {"key", "rollback"} <=> c.op = "identity"
    /\ c.pc \in {"resolve", "connect"} => c.op \in {"test", "create", "update"}
    /\ c.pc = "save" => c.op \in {"create", "update"}
    /\ c.pc \in {"resolve", "connect", "save"} => c.candidate \in Profile
    /\ c.pc = "invalidate" => c.op = "update"
    /\ c.pc = "remove" => c.op = "remove"
    /\ c.pc = "sweep" => c.op \in {"update", "remove"}
    /\ c.pc \in Deleting => c.op \in {"update", "remove", "delete"}
    /\ c.op = "delete" => c.pc \in Deleting
    /\ c.op = "update" => c.of \in Datasources /\ {c.previous, c.candidate} \subseteq Profile
    /\ c.op = "remove" => c.of \in Datasources /\ c.previous \in Profile
    /\ c.pc \in {"key", "rollback"} \cup Deleting => c.secret \in Secrets
    /\ c.pc \notin Sweeping => c.todo = {}
    /\ c.pc \in Deleting /\ c.op # "delete" => c.secret \in c.todo

\* A call uses no secret but those some caller was given, which are no longer created.
Knows(c) ==
    /\ c.candidate \in Profile => ManagedIds(c.candidate) \subseteq known
    /\ c.previous \in Profile => ManagedIds(c.previous) \subseteq known
    /\ c.todo \subseteq known
    /\ c.pc \in Deleting => c.secret \in known

CredentialTypes ==
    /\ store \subseteq Secrets /\ known \subseteq Secrets
    /\ row \in [Datasources -> Profile \cup {None, Gone}]
    /\ call \in [Threads -> Call]
    /\ material \subseteq Threads
    /\ calls \in Nat /\ crashes \in Nat

CallsFit == \A t \in Threads : Fits(call[t]) /\ Knows(call[t])

FilesAreRead == crashes = 0 => \A t \in material : At(t, "connect")

NamedAreKnown == Referenced \subseteq named /\ named \subseteq known

\* A secret that was counted and found unused is still unused when its file goes.
UnlinkedAreUnused ==
    \A t \in Threads : At(t, "unlink") => call[t].secret \notin Referenced \ raced

\* The certificate of an import under way is known to nobody, not to another import either.
ImportsAreApart ==
    \A t \in Threads : call[t].op = "identity" =>
        /\ call[t].secret \in store \ known
        /\ \A u \in Threads \ {t} : call[u].op = "identity" => call[u].secret # call[t].secret

\* A file nobody was told of is that of an import under way.
ImportsAreKnown ==
    \A s \in store \ (known \cup left) :
        \E t \in Threads : call[t].op = "identity" /\ call[t].secret = s

CredentialsInductive ==
    /\ CredentialTypes
    /\ CallsFit
    /\ FilesAreRead
    /\ NamedAreKnown
    /\ SharedSecretsSurvive
    /\ UnlinkedAreUnused
    /\ GarbageIsCollected
    /\ ImportsAreApart
    /\ ImportsAreKnown

-----------------------------------------------------------------------------

\* "Delete one secret, but only while no stored connection profile still references it"
\* (delete_secret()).
NoProfileLosesItsSecret == Referenced \subseteq store

=============================================================================
