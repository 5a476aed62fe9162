-------------------------- MODULE CredentialsProofs --------------------------
(***************************************************************************)
(* CredentialsInductive is an inductive invariant of Credentials: whatever *)
(* threads share, replace and delete, and however many they are, no secret *)
(* goes that a profile needs and none stays that nothing needs.            *)
(***************************************************************************)
EXTENDS Credentials, FiniteSetTheorems, TLAPS

USE DEF At, history

-----------------------------------------------------------------------------
(* What profiles name *)

\* The count of a secret's references is positive exactly where a stored row names it.
LEMMA CountedAreReferenced ==
    ASSUME CredentialTypes, NEW s \in Secrets
    PROVE  Count(s) > 0 <=> s \in Referenced
<1>. DEFINE Naming == {p \in Stored \X Fields : row[p[1]][p[2]] = s}
<1>1. IsFiniteSet(Stored \X Fields)
  <2>1. Stored \subseteq Datasources
    BY DEF Stored
  <2>2. IsFiniteSet(Stored)
    BY <2>1, CredentialsAssumption, FS_Subset
  <2>. QED  BY <2>2, CredentialsAssumption, FS_Product
<1>2. IsFiniteSet(Naming)
  BY <1>1, FS_Subset
<1>3. Cardinality(Naming) \in Nat /\ (Cardinality(Naming) = 0 <=> Naming = {})
  BY <1>2, FS_CardinalityType, FS_EmptySet
<1>4. Naming # {} <=> \E d \in Stored, f \in Fields : row[d][f] = s
  <2>1. ASSUME NEW d \in Stored, NEW f \in Fields, row[d][f] = s
        PROVE  <<d, f>> \in Naming
    BY <2>1
  <2>. QED  BY ZenonT(60), <2>1
<1>5. s \in Referenced <=> \E d \in Stored, f \in Fields : row[d][f] = s
  BY DEF Referenced, ManagedIds
<1>. QED  BY <1>3, <1>4, <1>5 DEF Count

\* The secrets a row names, if it holds a profile.
Ids(p) == IF p \in Profile THEN ManagedIds(p) ELSE {}

\* Writing one row changes what is named by what that row named and names.
LEMMA RowNames ==
    ASSUME CredentialTypes, NEW d \in Datasources, NEW p, row' = [row EXCEPT ![d] = p]
    PROVE  /\ Referenced' \subseteq Referenced \cup Ids(p)
           /\ Referenced \subseteq Referenced' \cup Ids(row[d])
           /\ Ids(p) \subseteq Referenced'
<1>1. row'[d] = p /\ \A e \in Datasources : e # d => row'[e] = row[e]
  BY DEF CredentialTypes
<1>2. Referenced = UNION {Ids(row[e]) : e \in Datasources}
  BY DEF Referenced, Stored, Ids
<1>3. Referenced' = UNION {Ids(row'[e]) : e \in Datasources}
  BY DEF Referenced, Stored, Ids, Profile, Reference, ManagedIds
<1>. HIDE DEF Ids
<1>. QED  BY <1>1, <1>2, <1>3

\* What a call has still to clean up.
Owes(c) ==
    IF c.pc = "invalidate" THEN Obsolete(c.previous, c.candidate)
    ELSE IF c.op \in {"update", "remove"} THEN c.todo ELSE {}

\* Only a call that follows a written row owes anything.
LEMMA OwesBySweep ==
    ASSUME NEW c \in Call, Fits(c), c.pc \notin {"invalidate"} \cup Sweeping
    PROVE  Owes(c) = {}
BY DEF Fits, Owes, Sweeping

-----------------------------------------------------------------------------
(* Steps that write no row *)

\* A call that used known secrets still does: ids that were given stay given.
LEMMA KnowsStays ==
    ASSUME NEW c, Knows(c), known \subseteq known'
    PROVE  Knows(c)'
BY DEF Knows, ManagedIds, Profile, Reference

\* A step of one thread that creates and deletes files but writes no row keeps the invariant
\* if no file that a profile needs goes, no new one is a file a profile ever named, and what
\* the thread had still to do is done, still to be done, or recorded as left.
LEMMA FileStep ==
    ASSUME CredentialsInductive, NEW t \in Threads, NEW k \in Call, Becomes(t, k),
           UNCHANGED <<row, named, raced, crashes>>, calls' \in Nat,
           Fits(k), Knows(k)',
           store' \subseteq Secrets, known' \subseteq Secrets, known \subseteq known',
           left \subseteq left',
           material' \subseteq material \cup {t},
           crashes = 0 /\ t \in material' => k.pc = "connect",
           Referenced \subseteq store' \cup raced,
           (store' \ store) \cap named = {},
           \A s \in store' \ (store \cup known' \cup left') : k.op = "identity" /\ k.secret = s,
           k.pc = "unlink" => k.secret \notin Referenced \ raced,
           Owes(call[t]) \cap store' \subseteq Owes(k) \cup Referenced \cup left',
           call[t].op = "identity" =>
               \/ call[t].secret \in known' \cup left' \/ call[t].secret \notin store'
               \/ k.op = "identity" /\ k.secret = call[t].secret,
           k.op = "identity" => k.secret \in store' \ known',
           \A u \in Threads \ {t} : call[u].op = "identity" =>
               /\ call[u].secret \in store' \ known'
               /\ ~(k.op = "identity" /\ k.secret = call[u].secret)
    PROVE  CredentialsInductive'
<1>1. call'[t] = k /\ \A u \in Threads : u # t => call'[u] = call[u]
  BY DEF Becomes, CredentialsInductive, CredentialTypes
<1>2. Referenced' = Referenced
  BY DEF Referenced, Stored, ManagedIds, Profile, Reference
<1>3. CredentialTypes'
  BY DEF Becomes, CredentialsInductive, CredentialTypes, Profile, Reference, Call
<1>4. CallsFit'
  <2>1. ASSUME NEW c, Fits(c) PROVE Fits(c)'
    BY <2>1 DEF Fits
  <2>. QED  BY <1>1, <2>1, KnowsStays DEF CredentialsInductive, CallsFit
<1>5. FilesAreRead'
  BY <1>1 DEF CredentialsInductive, FilesAreRead, CredentialTypes
<1>6. NamedAreKnown'
  BY <1>2 DEF CredentialsInductive, NamedAreKnown
<1>7. SharedSecretsSurvive'
  BY <1>2 DEF SharedSecretsSurvive
<1>8. UnlinkedAreUnused'
  BY <1>1, <1>2 DEF CredentialsInductive, UnlinkedAreUnused
<1>9. GarbageIsCollected'
  <2>. SUFFICES ASSUME NEW s \in store' \cap named, s \notin Referenced \cup left'
                PROVE  \E u \in Threads : s \in Owes(call'[u])
    BY <1>2 DEF GarbageIsCollected, Pending, Owes
  <2>1. s \in store /\ s \notin left
    OBVIOUS
  <2>2. PICK u \in Threads : s \in Owes(call[u])
    BY <2>1 DEF CredentialsInductive, GarbageIsCollected, Pending, Owes
  <2>3. CASE u = t
    BY <1>1, <2>2, <2>3
  <2>4. CASE u # t
    BY <1>1, <2>2, <2>4
  <2>. QED  BY <2>3, <2>4
<1>10. ImportsAreKnown'
  <2>. SUFFICES ASSUME NEW s \in store' \ (known' \cup left')
                PROVE  \E u \in Threads : call'[u].op = "identity" /\ call'[u].secret = s
    BY DEF ImportsAreKnown
  <2>1. CASE s \notin store
    BY <1>1, <2>1
  <2>2. CASE s \in store
    <3>1. PICK u \in Threads : call[u].op = "identity" /\ call[u].secret = s
      BY <2>2 DEF CredentialsInductive, ImportsAreKnown
    <3>. QED  BY <1>1, <3>1
  <2>. QED  BY <2>1, <2>2
<1>11. ImportsAreApart'
  BY <1>1 DEF CredentialsInductive, ImportsAreApart
<1>. QED  BY <1>3, <1>4, <1>5, <1>6, <1>7, <1>8, <1>9, <1>10, <1>11 DEF CredentialsInductive

\* A step that changes no file either.
LEMMA CallStep ==
    ASSUME CredentialsInductive, NEW t \in Threads, NEW k \in Call, Becomes(t, k),
           UNCHANGED <<store, known, row, named, raced, crashes>>, calls' \in Nat,
           Fits(k), Knows(k), left \subseteq left',
           material' \subseteq material \cup {t},
           crashes = 0 /\ t \in material' => k.pc = "connect",
           k.pc = "unlink" => k.secret \notin Referenced \ raced,
           Owes(call[t]) \cap store \subseteq Owes(k) \cup Referenced \cup left',
           call[t].op = "identity" =>
               \/ call[t].secret \in left'
               \/ k.op = "identity" /\ k.secret = call[t].secret,
           k.op = "identity" => call[t].op = "identity" /\ k.secret = call[t].secret
    PROVE  CredentialsInductive'
<1>1. Knows(k)'
  BY KnowsStays
<1>2. Referenced \subseteq store \cup raced /\ store \subseteq Secrets /\ known \subseteq Secrets
  BY DEF CredentialsInductive, CredentialTypes, SharedSecretsSurvive
<1>3. ImportsAreApart
  BY DEF CredentialsInductive
<1>. QED  BY <1>1, <1>2, <1>3, FileStep DEF ImportsAreApart

\* No call is a call that has nothing to do and owes nothing.
LEMMA IdleFits == Idle \in Call /\ Fits(Idle) /\ Knows(Idle) /\ Owes(Idle) = {}
BY CredentialsAssumption
   DEF Idle, Call, PC, Fits, Knows, Owes, Sweeping, Deleting, Profile, Reference

\* What a thread does has its type, fits, and uses known secrets.
LEMMA CallOf ==
    ASSUME CredentialsInductive, NEW t \in Threads
    PROVE  /\ call[t] \in Call /\ Fits(call[t]) /\ Knows(call[t])
           /\ calls \in Nat /\ material \subseteq Threads
           /\ store \subseteq Secrets /\ known \subseteq Secrets /\ named \subseteq known
           /\ Referenced \subseteq named /\ Referenced \subseteq store \cup raced
BY DEF CredentialsInductive, CredentialTypes, CallsFit, NamedAreKnown, SharedSecretsSurvive

\* A thread with nothing to do is idle.
LEMMA NothingToDo ==
    ASSUME CredentialsInductive, NEW t \in Threads, At(t, "idle")
    PROVE  call[t] = Idle
BY CallOf DEF Fits

\* A thread whose files were read by its connection alone has none at any other point,
\* unless the process has crashed.
LEMMA OwnFiles ==
    ASSUME CredentialsInductive, NEW t \in Threads, crashes = 0, ~At(t, "connect")
    PROVE  t \notin material
BY DEF CredentialsInductive, FilesAreRead

\* The certificate of another import is told to nobody and in the store.
LEMMA OtherImports ==
    ASSUME CredentialsInductive, NEW t \in Threads, call[t].op = "identity"
    PROVE  /\ call[t].secret \in store /\ call[t].secret \notin known
           /\ \A u \in Threads \ {t} : call[u].op = "identity" => call[u].secret # call[t].secret
BY DEF CredentialsInductive, ImportsAreApart

-----------------------------------------------------------------------------
(* Secrets are created *)

\* A secret nobody was told of, and that has no file, was never named.
LEMMA FreshIsUnnamed ==
    ASSUME CredentialsInductive, NEW s \in Fresh
    PROVE  s \in Secrets /\ s \notin store /\ s \notin known /\ s \notin named
BY DEF Fresh, CredentialsInductive, NamedAreKnown

\* A secret is created: its file and its id.
LEMMA CreateSecretStep ==
    ASSUME CredentialsInductive, NEW t \in Threads, CreateSecret(t) PROVE CredentialsInductive'
<1>1. PICK s \in Fresh : /\ store' = store \cup {s} /\ known' = known \cup {s}
                         /\ UNCHANGED <<row, call, material, history, calls, crashes>>
                         /\ At(t, "idle")
  BY DEF CreateSecret
<1>2. call[t] = Idle /\ Becomes(t, Idle)
  BY <1>1, NothingToDo DEF Becomes, CredentialsInductive, CredentialTypes
<1>3. Knows(Idle)'
  BY <1>1, IdleFits, KnowsStays
<1>4. Idle.op = "none" /\ Idle.pc = "idle"
  BY DEF Idle
<1>. HIDE DEF Idle
<1>. QED  BY <1>1, <1>2, <1>3, <1>4, IdleFits, CallOf, FreshIsUnnamed, OwnFiles, FileStep, OtherImports

\* A client identity begins with the file of its certificate, which no caller knows yet.
LEMMA WriteCertificateStep ==
    ASSUME CredentialsInductive, NEW t \in Threads, WriteCertificate(t)
    PROVE  CredentialsInductive'
<1>1. PICK s \in Fresh :
        /\ store' = store \cup {s} /\ At(t, "idle")
        /\ Becomes(t, [Idle EXCEPT !.op = "identity", !.pc = "key", !.secret = s])
        /\ UNCHANGED <<known, row, material, history, calls, crashes>>
  BY DEF WriteCertificate
<1>. DEFINE k == [Idle EXCEPT !.op = "identity", !.pc = "key", !.secret = s]
<1>2. k \in Call /\ Fits(k) /\ Knows(k) /\ k.op = "identity" /\ k.secret = s /\ k.pc = "key"
  BY <1>1, FreshIsUnnamed, CredentialsAssumption
     DEF Idle, Call, PC, Fits, Knows, Sweeping, Deleting, Profile, Reference
<1>3. Knows(k)'
  BY <1>1, <1>2, KnowsStays
<1>4. call[t] = Idle /\ Idle.op = "none" /\ Becomes(t, k)
  BY <1>1, NothingToDo DEF Idle
<1>. HIDE DEF k
<1>. QED  BY <1>1, <1>2, <1>3, <1>4, IdleFits, CallOf, FreshIsUnnamed, OwnFiles, FileStep, OtherImports

\* The key is written, and the caller is told of both.
LEMMA WriteKeyStep ==
    ASSUME CredentialsInductive, NEW t \in Threads, WriteKey(t) PROVE CredentialsInductive'
<1>1. PICK s \in Fresh :
        /\ store' = store \cup {s} /\ known' = known \cup {s, call[t].secret}
        /\ At(t, "key") /\ Becomes(t, Idle)
        /\ UNCHANGED <<row, material, history, calls, crashes>>
  BY DEF WriteKey, Returns
<1>2. call[t].op = "identity" /\ call[t].secret \in Secrets
  BY <1>1, CallOf DEF Fits
<1>3. Owes(call[t]) = {}
  BY <1>1, CallOf, OwesBySweep DEF Sweeping, Deleting
<1>4. Knows(Idle)'
  BY <1>1, IdleFits, KnowsStays
<1>5. Idle.op = "none" /\ Idle.pc = "idle"
  BY DEF Idle
<1>. HIDE DEF Idle
<1>. QED  BY <1>1, <1>2, <1>3, <1>4, <1>5, IdleFits, CallOf, FreshIsUnnamed, OwnFiles, FileStep, OtherImports

\* A key that cannot be written leaves the certificate to be rolled back.
LEMMA WriteKeyFailsStep ==
    ASSUME CredentialsInductive, NEW t \in Threads, WriteKeyFails(t) PROVE CredentialsInductive'
<1>. DEFINE k == [call[t] EXCEPT !.pc = "rollback"]
<1>1. call[t].op = "identity" /\ Becomes(t, k) /\ At(t, "key")
      /\ UNCHANGED <<store, known, row, material, history, calls, crashes>>
  BY CallOf DEF WriteKeyFails, Goto, Fits
<1>2. k \in Call /\ Fits(k) /\ Knows(k)
  <2>1. k \in Call /\ Knows(k)
    BY <1>1, CallOf DEF Call, PC, Knows, Deleting
  <2>2. Fits(k)
    BY <1>1, CallOf DEF Call, Fits, Deleting, Sweeping, Idle
  <2>. QED  BY <2>1, <2>2
<1>3. k.pc = "rollback" /\ k.op = "identity" /\ k.secret = call[t].secret
  BY <1>1, CallOf DEF Call
<1>4. Owes(call[t]) = {}
  BY <1>1, CallOf, OwesBySweep DEF Sweeping, Deleting
<1>. HIDE DEF k
<1>. QED  BY <1>1, <1>2, <1>3, <1>4, CallOf, OwnFiles, CallStep

\* The certificate of a failed import goes, or is recorded as left.
LEMMA RollBackStep ==
    ASSUME CredentialsInductive, NEW t \in Threads, RollBack(t) PROVE CredentialsInductive'
<1>1. Becomes(t, Idle) /\ At(t, "rollback")
      /\ UNCHANGED <<known, row, material, named, raced, calls, crashes>>
  BY DEF RollBack, Returns
<1>2. Owes(call[t]) = {}
  BY <1>1, CallOf, OwesBySweep DEF Sweeping, Deleting
<1>3. Idle.op = "none" /\ Idle.pc = "idle"
  BY DEF Idle
<1>4. Knows(Idle)'
  BY <1>1, IdleFits, KnowsStays
<1>5. call[t].op = "identity" /\ call[t].secret \in Secrets
  BY <1>1, CallOf DEF Fits
<1>6. CASE store' = store \ {call[t].secret} /\ UNCHANGED left
  <2>1. Referenced \subseteq store' \cup raced
    BY <1>5, <1>6, CallOf, OtherImports
  <2>2. ASSUME NEW u \in Threads \ {t}, call[u].op = "identity"
        PROVE  call[u].secret \in store' \ known'
    BY <1>1, <1>5, <1>6, <2>2, OtherImports
  <2>. HIDE DEF Idle
  <2>. QED  BY <1>1, <1>2, <1>3, <1>4, <1>6, <2>1, <2>2, IdleFits, CallOf, OwnFiles, FileStep
<1>7. CASE left' = left \cup {call[t].secret} /\ UNCHANGED store
  <2>. HIDE DEF Idle
  <2>. QED  BY <1>1, <1>2, <1>3, <1>7, IdleFits, CallOf, OwnFiles, CallStep
<1>. QED  BY <1>6, <1>7 DEF RollBack

-----------------------------------------------------------------------------
(* Candidates are proven *)

\* A request about a datasource starts with profiles that name known secrets only.
LEMMA ProveStep ==
    ASSUME CredentialsInductive, NEW t \in Threads,
           NEW op \in {"test", "create", "update"}, NEW d \in Datasources \cup {None},
           NEW previous \in Profile \cup {None}, NEW candidate \in Profile,
           op = "update" => d \in Datasources /\ previous \in Profile,
           ManagedIds(candidate) \subseteq known,
           previous \in Profile => ManagedIds(previous) \subseteq known,
           Prove(t, op, d, previous, candidate)
    PROVE  CredentialsInductive'
<1>. DEFINE k == [Idle EXCEPT !.op = op, !.pc = "resolve", !.of = d, !.previous = previous,
                              !.candidate = candidate]
<1>1. call[t] = Idle /\ Becomes(t, k) /\ calls' \in Nat /\ crashes' = crashes /\ At(t, "idle")
      /\ UNCHANGED <<store, known, row, material, history>>
  BY CallOf, NothingToDo DEF Prove, Begin
<1>2. k \in Call /\ Fits(k) /\ Knows(k)
  BY ZenonT(60), CredentialsAssumption DEF Idle, Call, PC, Fits, Knows, Sweeping, Deleting
<1>3. k.pc = "resolve" /\ k.op = op /\ Idle.op = "none"
  BY DEF Idle
<1>. HIDE DEF k
<1>. QED  BY <1>1, <1>2, <1>3, IdleFits, CallOf, OwnFiles, CallStep

\* The profile of a stored row names known secrets.
LEMMA StoredKnow ==
    ASSUME CredentialsInductive, NEW d \in Stored
    PROVE  d \in Datasources /\ row[d] \in Profile /\ ManagedIds(row[d]) \subseteq known
BY DEF Stored, Referenced, CredentialsInductive, NamedAreKnown

\* A candidate of a request names known secrets.
LEMMA CandidatesKnow ==
    ASSUME NEW c \in Candidates
    PROVE  c \in Profile /\ ManagedIds(c) \subseteq known
<1>1. \A f \in Fields : Unmanaged[f] \subseteq {Environment, None}
  BY CredentialsAssumption
<1>. QED  BY <1>1, CredentialsAssumption DEF Candidates, ManagedIds

\* A candidate is tested, created or replaced: every such request starts in the same way.
LEMMA RequestSteps ==
    ASSUME CredentialsInductive, NEW t \in Threads,
           \/ TestSavedDatasource(t) \/ TestDatasource(t)
           \/ CreateDatasource(t) \/ UpdateDatasource(t)
    PROVE  CredentialsInductive'
<1>1. None \notin Profile
  BY CredentialsAssumption DEF Profile, Reference
<1>2. CASE TestSavedDatasource(t)
  BY <1>1, <1>2, StoredKnow, ProveStep DEF TestSavedDatasource
<1>3. CASE TestDatasource(t)
  BY <1>1, <1>3, CandidatesKnow, ProveStep DEF TestDatasource
<1>4. CASE CreateDatasource(t)
  BY <1>1, <1>4, CandidatesKnow, ProveStep DEF CreateDatasource
<1>5. CASE UpdateDatasource(t)
  BY <1>1, <1>5, CandidatesKnow, StoredKnow, ProveStep DEF UpdateDatasource
<1>. QED  BY <1>2, <1>3, <1>4, <1>5

\* The references of a candidate resolve, and its files are written.
LEMMA ResolveStep ==
    ASSUME CredentialsInductive, NEW t \in Threads, Resolve(t) PROVE CredentialsInductive'
<1>. DEFINE k == [call[t] EXCEPT !.pc = "connect"]
<1>1. /\ At(t, "resolve") /\ Becomes(t, k) /\ material' \subseteq material \cup {t}
      /\ UNCHANGED <<store, known, row, history, calls, crashes>>
  BY DEF Resolve, Goto
<1>2. k \in Call /\ Knows(k)
  BY <1>1, CallOf DEF Call, PC, Knows, Deleting
<1>3. Fits(k)
  BY <1>1, CallOf DEF Call, Fits, Deleting, Sweeping, Idle
<1>4. k.pc = "connect" /\ k.op = call[t].op /\ call[t].op # "identity"
  BY <1>1, CallOf DEF Call, Fits
<1>5. Owes(call[t]) = {}
  BY <1>1, CallOf, OwesBySweep DEF Sweeping, Deleting
<1>. HIDE DEF k
<1>. QED  BY <1>1, <1>2, <1>3, <1>4, <1>5, CallOf, CallStep

\* The files are gone when the connection has been made; a test ends there.
LEMMA ConnectStep ==
    ASSUME CredentialsInductive, NEW t \in Threads, Connect(t) PROVE CredentialsInductive'
<1>. DEFINE k == [call[t] EXCEPT !.pc = "save"]
<1>1. /\ At(t, "connect") /\ material' = material \ {t}
      /\ UNCHANGED <<store, known, row, history, calls, crashes>>
  BY DEF Connect
<1>2. Owes(call[t]) = {} /\ call[t].op # "identity"
  BY <1>1, CallOf, OwesBySweep DEF Sweeping, Deleting, Fits
<1>3. CASE call[t].op = "test"
  <2>1. Becomes(t, Idle) /\ Idle.op = "none" /\ Idle.pc = "idle"
    BY <1>3 DEF Connect, Returns, Idle
  <2>. HIDE DEF Idle
  <2>. QED  BY <1>1, <1>2, <2>1, IdleFits, CallOf, CallStep
<1>4. CASE call[t].op # "test"
  <2>1. Becomes(t, k)
    BY <1>4 DEF Connect, Goto
  <2>2. k \in Call /\ Knows(k)
    BY <1>1, CallOf DEF Call, PC, Knows, Deleting
  <2>3. Fits(k)
    BY <1>1, <1>4, CallOf DEF Call, Fits, Deleting, Sweeping, Idle
  <2>4. k.pc = "save" /\ k.op = call[t].op
    BY CallOf DEF Call
  <2>. HIDE DEF k
  <2>. QED  BY <1>1, <1>2, <2>1, <2>2, <2>3, <2>4, CallOf, CallStep
<1>. QED  BY <1>3, <1>4

\* Whatever fails, what the call had still to clean up is recorded as left.
LEMMA CallFailsStep ==
    ASSUME CredentialsInductive, NEW t \in Threads, CallFails(t) PROVE CredentialsInductive'
<1>1. /\ Becomes(t, Idle) /\ left' = left \cup Owes(call[t]) /\ material' = material \ {t}
      /\ call[t].pc \in {"resolve", "connect", "save", "invalidate", "remove"}
      /\ UNCHANGED <<store, known, row, named, raced, calls, crashes>>
  BY DEF CallFails, Returns, Pending, Owes
<1>2. call[t].op # "identity" /\ Idle.op = "none" /\ Idle.pc = "idle"
  BY <1>1, CallOf DEF Fits, Idle
<1>. HIDE DEF Idle
<1>. QED  BY <1>1, <1>2, IdleFits, CallOf, CallStep

-----------------------------------------------------------------------------
(* Secrets are deleted *)

\* A user asks for the deletion of a secret.
LEMMA DeleteSecretStep ==
    ASSUME CredentialsInductive, NEW t \in Threads, DeleteSecret(t) PROVE CredentialsInductive'
<1>1. PICK s \in known :
        /\ Becomes(t, [Idle EXCEPT !.op = "delete", !.pc = "exists", !.secret = s])
        /\ At(t, "idle") /\ calls' = calls + 1
        /\ UNCHANGED <<store, known, row, material, history, crashes>>
  BY DEF DeleteSecret, Begin
<1>. DEFINE k == [Idle EXCEPT !.op = "delete", !.pc = "exists", !.secret = s]
<1>2. k \in Call /\ Fits(k) /\ Knows(k)
  BY ZenonT(60), <1>1, CallOf, CredentialsAssumption
     DEF Idle, Call, PC, Fits, Knows, Sweeping, Deleting, Profile, Reference
<1>3. call[t] = Idle /\ Becomes(t, k) /\ Idle.op = "none" /\ k.op = "delete" /\ k.pc = "exists"
  BY <1>1, NothingToDo DEF Idle
<1>. HIDE DEF k
<1>. QED  BY <1>1, <1>2, <1>3, IdleFits, CallOf, OwnFiles, CallStep

\* A sweep is done, passes over a secret that is still referenced, or takes up one that is not.
LEMMA SweepStep ==
    ASSUME CredentialsInductive, NEW t \in Threads, Sweep(t) PROVE CredentialsInductive'
<1>1. /\ At(t, "sweep") /\ call[t].op \in {"update", "remove"}
      /\ UNCHANGED <<store, known, row, material, history, calls, crashes>>
  BY CallOf DEF Sweep, Fits
<1>2. Owes(call[t]) = call[t].todo /\ call[t].todo \subseteq Secrets
  BY <1>1, CallOf DEF Owes, Call
<1>3. CASE call[t].todo = {} /\ Becomes(t, Idle)
  <2>1. Idle.op = "none" /\ Idle.pc = "idle"
    BY DEF Idle
  <2>. HIDE DEF Idle
  <2>. QED  BY <1>1, <1>2, <1>3, <2>1, IdleFits, CallOf, OwnFiles, CallStep
<1>4. ASSUME NEW s \in call[t].todo, Count(s) > 0,
             Becomes(t, [call[t] EXCEPT !.todo = @ \ {s}])
      PROVE  CredentialsInductive'
  <2>. DEFINE k == [call[t] EXCEPT !.todo = @ \ {s}]
  <2>1. k \in Call /\ Fits(k) /\ Knows(k)
    BY <1>1, CallOf DEF Call, Fits, Knows, Sweeping, Deleting, Idle
  <2>2. k.pc = "sweep" /\ k.op = call[t].op /\ Owes(k) = Owes(call[t]) \ {s} /\ Becomes(t, k)
    BY <1>1, <1>4, CallOf DEF Call, Owes
  <2>3. s \in Referenced
    BY <1>2, <1>4, CountedAreReferenced DEF CredentialsInductive
  <2>. HIDE DEF k
  <2>. QED  BY <1>1, <1>4, <2>1, <2>2, <2>3, CallOf, OwnFiles, CallStep
<1>5. ASSUME NEW s \in call[t].todo,
             Becomes(t, [call[t] EXCEPT !.pc = "exists", !.secret = s])
      PROVE  CredentialsInductive'
  <2>. DEFINE k == [call[t] EXCEPT !.pc = "exists", !.secret = s]
  <2>1. k \in Call /\ Fits(k) /\ Knows(k)
    BY ZenonT(60), <1>1, <1>2, CallOf DEF Call, PC, Fits, Knows, Sweeping, Deleting, Idle
  <2>2. k.pc = "exists" /\ k.op = call[t].op /\ Owes(k) = Owes(call[t]) /\ Becomes(t, k)
    BY <1>1, <1>5, CallOf DEF Call, Owes
  <2>. HIDE DEF k
  <2>. QED  BY <1>1, <1>5, <2>1, <2>2, CallOf, OwnFiles, CallStep
<1>. QED  BY ZenonT(60), <1>3, <1>4, <1>5 DEF Sweep, Returns

\* A deletion goes one step further without a change to what it is about.
LEMMA DeletingGoesOn ==
    ASSUME CredentialsInductive, NEW t \in Threads, NEW pc \in {"count", "unlink"},
           call[t].pc \in Deleting, Goto(t, pc),
           pc = "unlink" => call[t].secret \notin Referenced \ raced,
           UNCHANGED <<store, known, row, material, history, calls, crashes>>
    PROVE  CredentialsInductive'
<1>. DEFINE k == [call[t] EXCEPT !.pc = pc]
<1>1. k \in Call /\ Fits(k) /\ Knows(k)
  BY CallOf DEF Call, PC, Fits, Knows, Sweeping, Deleting, Idle
<1>2. k.pc = pc /\ k.op = call[t].op /\ k.secret = call[t].secret
      /\ Owes(k) = Owes(call[t]) /\ Becomes(t, k) /\ call[t].op # "identity" /\ ~At(t, "connect")
  BY CallOf DEF Call, Owes, Goto, Deleting, Fits
<1>. HIDE DEF k
<1>. QED  BY <1>1, <1>2, CallOf, OwnFiles, CallStep

\* A secret is done with: its file is gone, or somebody needs it, or it is recorded as left.
LEMMA DoneStep ==
    ASSUME CredentialsInductive, NEW t \in Threads, call[t].pc \in Deleting, Done(t),
           store' \in {store, store \ {call[t].secret}}, left \subseteq left',
           call[t].op # "delete" =>
               call[t].secret \in Referenced \cup left' \/ call[t].secret \notin store',
           Referenced \subseteq store' \cup raced,
           UNCHANGED <<known, row, material, named, raced, calls, crashes>>
    PROVE  CredentialsInductive'
<1>1. /\ call[t].op \in {"update", "remove", "delete"} /\ ~At(t, "connect")
      /\ call[t].secret \in known
  BY CallOf DEF Fits, Knows, Deleting
<1>2. \A u \in Threads \ {t} : call[u].op = "identity" => call[u].secret \in store' \ known'
  BY <1>1, OtherImports
<1>3. CASE call[t].op = "delete"
  <2>1. Becomes(t, Idle) /\ Idle.op = "none" /\ Idle.pc = "idle" /\ Owes(call[t]) = {}
    BY <1>3, CallOf DEF Done, Idle, Owes, Deleting
  <2>2. Knows(Idle)'
    BY IdleFits, KnowsStays
  <2>. HIDE DEF Idle
  <2>. QED  BY <1>1, <1>2, <1>3, <2>1, <2>2, IdleFits, CallOf, OwnFiles, FileStep
<1>4. CASE call[t].op # "delete"
  <2>. PICK k : k = [call[t] EXCEPT !.pc = "sweep", !.secret = None,
                                    !.todo = @ \ {call[t].secret}]
    OBVIOUS
  <2>a. call[t] \in Call /\ Fits(call[t]) /\ Knows(call[t])
    BY CallOf
  <2>b. /\ k \in Call /\ k.pc = "sweep" /\ k.op = call[t].op /\ k.of = call[t].of
        /\ k.candidate = call[t].candidate /\ k.previous = call[t].previous
        /\ k.todo \subseteq call[t].todo
    BY <2>a DEF Call, PC
  <2>c. Fits(k)
    BY <1>1, <1>4, <2>a, <2>b DEF Fits, Sweeping, Deleting
  <2>d. Knows(k)
    BY <2>a, <2>b DEF Knows, Deleting
  <2>e. Becomes(t, k)
    BY <1>4 DEF Done
  <2>1. k \in Call /\ Fits(k) /\ Knows(k) /\ Becomes(t, k)
    BY <2>b, <2>c, <2>d, <2>e
  <2>2. k.pc = "sweep" /\ k.op = call[t].op /\ Owes(k) = Owes(call[t]) \ {call[t].secret}
    BY <1>1, <1>4, CallOf DEF Call, Owes, Deleting
  <2>3. Knows(k)'
    BY <2>1, KnowsStays
  <2>. QED  BY ZenonT(60), <1>1, <1>2, <1>4, <2>1, <2>2, <2>3, CallOf, OwnFiles, FileStep
<1>. QED  BY <1>3, <1>4

\* A file that is not there needs no deletion.
LEMMA ExistsStep ==
    ASSUME CredentialsInductive, NEW t \in Threads, Exists(t) PROVE CredentialsInductive'
<1>1. CASE call[t].secret \in store
  BY <1>1, DeletingGoesOn DEF Exists, Deleting
<1>2. CASE call[t].secret \notin store
  BY <1>2, CallOf, DoneStep DEF Exists, Deleting
<1>. QED  BY <1>1, <1>2

\* A referenced secret is not deleted; an unreferenced one is, a moment later.
LEMMA CountReferencesStep ==
    ASSUME CredentialsInductive, NEW t \in Threads, CountReferences(t)
    PROVE  CredentialsInductive'
<1>1. call[t].secret \in Secrets
  BY CallOf DEF CountReferences, Fits, Deleting
<1>2. Count(call[t].secret) > 0 <=> call[t].secret \in Referenced
  BY <1>1, CountedAreReferenced DEF CredentialsInductive
<1>3. CASE Count(call[t].secret) > 0
  BY <1>2, <1>3, CallOf, DoneStep DEF CountReferences, Deleting
<1>4. CASE ~(Count(call[t].secret) > 0)
  BY <1>2, <1>4, DeletingGoesOn DEF CountReferences, Deleting
<1>. QED  BY <1>3, <1>4

\* The file goes: nobody references it but a row that was written meanwhile.
LEMMA UnlinkStep ==
    ASSUME CredentialsInductive, NEW t \in Threads, Unlink(t) PROVE CredentialsInductive'
<1>1. call[t].secret \notin Referenced \ raced
  BY DEF Unlink, CredentialsInductive, UnlinkedAreUnused
<1>. QED  BY <1>1, CallOf, DoneStep DEF Unlink, Deleting

\* A deletion that fails leaves the secret, and the sweep goes on.
LEMMA DeletionFailsStep ==
    ASSUME CredentialsInductive, NEW t \in Threads, DeletionFails(t) PROVE CredentialsInductive'
BY CallOf, DoneStep DEF DeletionFails, Deleting

-----------------------------------------------------------------------------
(* Rows are written *)

\* A step of one thread that writes one row keeps the invariant: what the row named is named
\* still, to be cleaned up, or recorded as left, and what it names is known.
LEMMA RowStep ==
    ASSUME CredentialsInductive, NEW t \in Threads, NEW k \in Call, Becomes(t, k),
           NEW d \in Datasources, NEW p \in Profile \cup {Gone}, row' = [row EXCEPT ![d] = p],
           Ids(p) \subseteq known,
           named' = named \cup Ids(p), raced' = raced \cup Vanishing(Ids(p)),
           UNCHANGED <<store, known, material, calls, crashes>>,
           Fits(k), Knows(k), ~At(t, "connect"), k.op \in {"none", "update", "remove"},
           k.pc # "unlink", call[t].op # "identity",
           left \subseteq left', Owes(call[t]) = {},
           Ids(row[d]) \subseteq Owes(k) \cup left' \cup Ids(p)
    PROVE  CredentialsInductive'
<1>1. call'[t] = k /\ \A u \in Threads : u # t => call'[u] = call[u]
  BY DEF Becomes, CredentialsInductive, CredentialTypes
<1>2. /\ Referenced' \subseteq Referenced \cup Ids(p)
      /\ Referenced \subseteq Referenced' \cup Ids(row[d])
      /\ Ids(p) \subseteq Referenced'
  BY RowNames DEF CredentialsInductive
<1>3. CredentialTypes'
  BY DEF Becomes, CredentialsInductive, CredentialTypes, Profile, Reference, Call
<1>4. CallsFit'
  <2>1. ASSUME NEW c, Fits(c) PROVE Fits(c)'
    BY <2>1 DEF Fits
  <2>. QED  BY <1>1, <2>1, KnowsStays DEF CredentialsInductive, CallsFit
<1>5. FilesAreRead'
  <2>. SUFFICES ASSUME crashes = 0, NEW u \in material PROVE call'[u].pc = "connect"
    BY DEF FilesAreRead
  <2>. QED  BY <1>1, CallOf DEF CredentialsInductive, FilesAreRead
<1>6. NamedAreKnown'
  BY <1>2 DEF CredentialsInductive, NamedAreKnown
<1>7. SharedSecretsSurvive'
  <2>1. \A s \in Ids(p) : s \in store \/ s \in Vanishing(Ids(p))
    BY DEF Vanishing
  <2>. QED  BY <1>2, <2>1 DEF CredentialsInductive, SharedSecretsSurvive
<1>8. UnlinkedAreUnused'
  <2>. SUFFICES ASSUME NEW u \in Threads, call'[u].pc = "unlink"
                PROVE  call'[u].secret \notin Referenced' \ raced'
    BY DEF UnlinkedAreUnused
  <2>1. u # t /\ call'[u] = call[u]
    BY <1>1
  <2>2. call[u].secret \notin Referenced \ raced
    BY <2>1 DEF CredentialsInductive, UnlinkedAreUnused
  <2>3. call[u].secret \in Ids(p) => call[u].secret \in Vanishing(Ids(p))
    BY <2>1 DEF Vanishing
  <2>. QED  BY <1>2, <2>1, <2>2, <2>3
<1>9. GarbageIsCollected'
  <2>. SUFFICES ASSUME NEW s \in store \cap named', s \notin Referenced' \cup left'
                PROVE  \E u \in Threads : s \in Owes(call'[u])
    BY DEF GarbageIsCollected, Pending, Owes
  <2>1. CASE s \in Ids(row[d])
    BY <1>1, <1>2, <2>1
  <2>2. CASE s \notin Ids(row[d])
    <3>1. s \in named /\ s \notin Referenced /\ s \notin left
      BY <1>2, <2>2
    <3>2. PICK u \in Threads : s \in Owes(call[u])
      BY <3>1 DEF CredentialsInductive, GarbageIsCollected, Pending, Owes
    <3>. QED  BY <1>1, <3>2
  <2>. QED  BY <2>1, <2>2
<1>10. ImportsAreKnown'
  <2>. SUFFICES ASSUME NEW s \in store \ (known \cup left')
                PROVE  \E u \in Threads : call'[u].op = "identity" /\ call'[u].secret = s
    BY DEF ImportsAreKnown
  <2>1. PICK u \in Threads : call[u].op = "identity" /\ call[u].secret = s
    BY DEF CredentialsInductive, ImportsAreKnown
  <2>. QED  BY <1>1, <2>1
<1>11. ImportsAreApart'
  BY <1>1 DEF CredentialsInductive, ImportsAreApart
<1>. QED  BY <1>3, <1>4, <1>5, <1>6, <1>7, <1>8, <1>9, <1>10, <1>11 DEF CredentialsInductive

\* A row before it is created, or after it is deleted, names nothing.
LEMMA NoProfileNamesNothing == Ids(None) = {} /\ Ids(Gone) = {}
BY CredentialsAssumption DEF Ids, Profile, Reference

\* A profile that was proven is inserted.
LEMMA InsertStep ==
    ASSUME CredentialsInductive, NEW t \in Threads, Insert(t) PROVE CredentialsInductive'
<1>1. PICK d \in Datasources : row[d] = None /\ Write(d, call[t].candidate)
  BY DEF Insert
<1>2. /\ At(t, "save") /\ Becomes(t, Idle)
      /\ UNCHANGED <<store, known, material, left, calls, crashes>>
  BY DEF Insert, Returns
<1>3. PICK p : p = call[t].candidate
  OBVIOUS
<1>4. p \in Profile /\ Ids(p) = ManagedIds(p) /\ ManagedIds(p) \subseteq known
  BY <1>2, <1>3, CallOf DEF Fits, Knows, Ids
<1>5. /\ row' = [row EXCEPT ![d] = p]
      /\ named' = named \cup Ids(p) /\ raced' = raced \cup Vanishing(Ids(p))
  BY <1>1, <1>3, <1>4 DEF Write
<1>6. Owes(call[t]) = {} /\ call[t].op # "identity"
  BY <1>2, CallOf, OwesBySweep DEF Sweeping, Deleting, Fits
<1>7. Ids(row[d]) = {} /\ Idle.op = "none" /\ Idle.pc = "idle"
  BY <1>1, NoProfileNamesNothing DEF Idle
<1>. HIDE DEF Idle
<1>. QED  BY <1>2, <1>4, <1>5, <1>6, <1>7, IdleFits, RowStep

\* A profile is replaced: by one that was proven, over one that may be another's already.
LEMMA SwitchStep ==
    ASSUME CredentialsInductive, NEW t \in Threads, Switch(t) PROVE CredentialsInductive'
<1>1. /\ At(t, "save") /\ call[t].op = "update" /\ call[t].of \in Stored
      /\ Write(call[t].of, call[t].candidate)
      /\ left' = left \cup (ManagedIds(row[call[t].of]) \ ManagedIds(call[t].previous))
      /\ Goto(t, "invalidate")
      /\ UNCHANGED <<store, known, material, calls, crashes>>
  BY DEF Switch
<1>2. PICK p, d, k : /\ p = call[t].candidate /\ d = call[t].of
                     /\ k = [call[t] EXCEPT !.pc = "invalidate"]
  OBVIOUS
<1>3. /\ p \in Profile /\ Ids(p) = ManagedIds(p) /\ ManagedIds(p) \subseteq known
      /\ d \in Datasources /\ Ids(row[d]) = ManagedIds(row[d])
  BY <1>1, <1>2, CallOf, StoredKnow DEF Fits, Knows, Ids
<1>4. k \in Call /\ Fits(k) /\ Knows(k) /\ Becomes(t, k)
  BY <1>1, <1>2, CallOf DEF Goto, Call, PC, Fits, Knows, Sweeping, Deleting, Idle
<1>5. /\ k.op = "update" /\ k.pc = "invalidate"
      /\ Owes(k) = ManagedIds(call[t].previous) \ ManagedIds(p)
  BY <1>1, <1>2, CallOf DEF Call, Owes, Obsolete
<1>6. /\ row' = [row EXCEPT ![d] = p]
      /\ named' = named \cup Ids(p) /\ raced' = raced \cup Vanishing(Ids(p))
  BY <1>1, <1>2, <1>3 DEF Write
<1>7. Owes(call[t]) = {} /\ call[t].op # "identity"
  BY <1>1, CallOf, OwesBySweep DEF Sweeping, Deleting
<1>8. left \subseteq left' /\ Ids(row[d]) \subseteq Owes(k) \cup left' \cup Ids(p)
  BY <1>1, <1>2, <1>3, <1>5
<1>. QED  BY ZenonT(60), <1>1, <1>3, <1>4, <1>5, <1>6, <1>7, <1>8, RowStep

\* The graph is told, and the sweep of what the new profile no longer names begins.
LEMMA InvalidateStep ==
    ASSUME CredentialsInductive, NEW t \in Threads, Invalidate(t) PROVE CredentialsInductive'
<1>. DEFINE k == [call[t] EXCEPT !.pc = "sweep",
                                 !.todo = Obsolete(call[t].previous, call[t].candidate)]
<1>1. /\ At(t, "invalidate") /\ Becomes(t, k) /\ call[t].op = "update"
      /\ UNCHANGED <<store, known, row, material, history, calls, crashes>>
  BY CallOf DEF Invalidate, Fits
<1>2. /\ Obsolete(call[t].previous, call[t].candidate) \subseteq known
      /\ Obsolete(call[t].previous, call[t].candidate) \subseteq Secrets
  BY <1>1, CallOf DEF Fits, Knows, Obsolete, ManagedIds
<1>3. k \in Call /\ Fits(k) /\ Knows(k)
  BY ZenonT(60), <1>1, <1>2, CallOf DEF Call, PC, Fits, Knows, Sweeping, Deleting, Idle
<1>4. k.pc = "sweep" /\ k.op = "update" /\ Owes(k) = Owes(call[t])
  BY <1>1, CallOf DEF Call, Owes
<1>. HIDE DEF k
<1>. QED  BY <1>1, <1>3, <1>4, CallOf, OwnFiles, CallStep

\* A datasource is to be deleted: its profile is remembered.
LEMMA DeleteDatasourceStep ==
    ASSUME CredentialsInductive, NEW t \in Threads, DeleteDatasource(t)
    PROVE  CredentialsInductive'
<1>1. PICK d \in Stored :
        /\ Becomes(t, [Idle EXCEPT !.op = "remove", !.pc = "remove", !.of = d, !.previous = row[d]])
        /\ At(t, "idle") /\ calls' = calls + 1
        /\ UNCHANGED <<store, known, row, material, history, crashes>>
  BY DEF DeleteDatasource, Begin
<1>. DEFINE k == [Idle EXCEPT !.op = "remove", !.pc = "remove", !.of = d, !.previous = row[d]]
<1>2. k \in Call /\ Fits(k) /\ Knows(k)
  BY StoredKnow, CredentialsAssumption
     DEF Idle, Call, PC, Fits, Knows, Sweeping, Deleting, Profile, Reference
<1>3. call[t] = Idle /\ Becomes(t, k) /\ Idle.op = "none" /\ k.op = "remove" /\ k.pc = "remove"
  BY <1>1, NothingToDo DEF Idle
<1>. HIDE DEF k
<1>. QED  BY <1>1, <1>2, <1>3, IdleFits, CallOf, OwnFiles, CallStep

\* The row is emptied, and the sweep of what it was read to name begins.
LEMMA RemoveRowStep ==
    ASSUME CredentialsInductive, NEW t \in Threads, RemoveRow(t) PROVE CredentialsInductive'
<1>1. /\ At(t, "remove") /\ call[t].of \in Stored
      /\ row' = [row EXCEPT ![call[t].of] = Gone]
      /\ left' = left \cup (ManagedIds(row[call[t].of]) \ ManagedIds(call[t].previous))
      /\ Becomes(t, [call[t] EXCEPT !.pc = "sweep", !.todo = ManagedIds(call[t].previous)])
      /\ UNCHANGED <<store, known, material, named, raced, calls, crashes>>
  BY DEF RemoveRow
<1>2. PICK d, k : /\ d = call[t].of
                  /\ k = [call[t] EXCEPT !.pc = "sweep", !.todo = ManagedIds(call[t].previous)]
  OBVIOUS
<1>3. /\ call[t].op = "remove" /\ d \in Datasources /\ Ids(row[d]) = ManagedIds(row[d])
      /\ ManagedIds(call[t].previous) \subseteq Secrets
      /\ ManagedIds(call[t].previous) \subseteq known
  BY <1>1, <1>2, CallOf, StoredKnow DEF Fits, Knows, Ids, ManagedIds
<1>4. k \in Call /\ Fits(k) /\ Knows(k) /\ Becomes(t, k)
  BY ZenonT(60), <1>1, <1>2, <1>3, CallOf DEF Call, PC, Fits, Knows, Sweeping, Deleting, Idle
<1>5. k.op = "remove" /\ k.pc = "sweep" /\ Owes(k) = ManagedIds(call[t].previous)
  BY <1>1, <1>2, <1>3, CallOf DEF Call, Owes
<1>6. named' = named \cup Ids(Gone) /\ raced' = raced \cup Vanishing(Ids(Gone))
  BY <1>1, NoProfileNamesNothing DEF Vanishing
<1>7. Owes(call[t]) = {}
  BY <1>1, CallOf, OwesBySweep DEF Sweeping, Deleting
<1>8. left \subseteq left' /\ Ids(row[d]) \subseteq Owes(k) \cup left' \cup Ids(Gone)
  BY <1>1, <1>2, <1>3, <1>5
<1>. QED  BY <1>1, <1>2, <1>3, <1>4, <1>5, <1>6, <1>7, <1>8, NoProfileNamesNothing, RowStep

-----------------------------------------------------------------------------
(* The process dies *)

\* Files and rows stay; what the calls had to clean up is recorded as left.
LEMMA CrashStep == ASSUME CredentialsInductive, Crash PROVE CredentialsInductive'
<1>1. /\ crashes' = crashes + 1 /\ crashes \in Nat
      /\ call' = [t \in Threads |-> Idle]
      /\ UNCHANGED <<store, known, row, material, named, raced, calls>>
  BY DEF Crash, CredentialsInductive, CredentialTypes
<1>2. /\ left \subseteq left'
      /\ \A t \in Threads : Owes(call[t]) \subseteq left'
      /\ \A t \in Threads : call[t].op = "identity" => call[t].secret \in left'
  BY DEF Crash, Pending, Owes
<1>3. \A t \in Threads : call'[t] = Idle
  BY <1>1
<1>4. Referenced' = Referenced
  BY <1>1 DEF Referenced, Stored, ManagedIds, Profile, Reference
<1>5. CredentialTypes'
  BY <1>1, IdleFits DEF CredentialsInductive, CredentialTypes, Profile, Reference, Call
<1>6. CallsFit'
  <2>1. Fits(Idle)'
    BY IdleFits DEF Fits
  <2>2. Knows(Idle)'
    BY <1>1, IdleFits, KnowsStays
  <2>. QED  BY <1>3, <2>1, <2>2 DEF CallsFit
<1>7. FilesAreRead' /\ NamedAreKnown' /\ SharedSecretsSurvive'
  BY <1>1, <1>4 DEF CredentialsInductive, FilesAreRead, NamedAreKnown, SharedSecretsSurvive
<1>8. UnlinkedAreUnused' /\ ImportsAreApart'
  BY <1>3 DEF UnlinkedAreUnused, ImportsAreApart, Idle
<1>9. GarbageIsCollected'
  BY <1>1, <1>2, <1>4 DEF CredentialsInductive, GarbageIsCollected, Pending, Owes
<1>10. ImportsAreKnown'
  BY <1>1, <1>2 DEF CredentialsInductive, ImportsAreKnown
<1>. QED  BY <1>5, <1>6, <1>7, <1>8, <1>9, <1>10 DEF CredentialsInductive

-----------------------------------------------------------------------------
(* The theorems *)

\* Every step of every thread keeps the invariant.
LEMMA CredentialsStep ==
    ASSUME CredentialsInductive, [Next]_vars PROVE CredentialsInductive'
<1>1. CASE Crash
  BY <1>1, CrashStep
<1>2. ASSUME NEW t \in Threads, Request(t) PROVE CredentialsInductive'
  BY <1>2, CreateSecretStep, WriteCertificateStep, RequestSteps, DeleteDatasourceStep,
     DeleteSecretStep
     DEF Request
<1>3. ASSUME NEW t \in Threads, Step(t) PROVE CredentialsInductive'
  BY <1>3, WriteKeyStep, WriteKeyFailsStep, RollBackStep, ResolveStep, ConnectStep, CallFailsStep,
     InsertStep, SwitchStep, InvalidateStep, RemoveRowStep, SweepStep, ExistsStep,
     CountReferencesStep, UnlinkStep, DeletionFailsStep
     DEF Step
<1>4. CASE UNCHANGED vars
  BY <1>4
     DEF vars, CredentialsInductive, CredentialTypes, CallsFit, Fits, Knows, Profile, Reference, Call,
         FilesAreRead, NamedAreKnown, SharedSecretsSurvive, UnlinkedAreUnused, GarbageIsCollected,
         ImportsAreApart, ImportsAreKnown, Referenced, Stored, ManagedIds, Pending
<1>. QED  BY <1>1, <1>2, <1>3, <1>4 DEF Next

\* In every state that threads, failures and crashes lead to, calls fit what they are about,
\* and files, ids and rows fit each other.
THEOREM CredentialsInvariant == Spec => []CredentialsInductive
<1>1. ASSUME Init PROVE CredentialsInductive
  <2>1. Referenced = {}
    BY <1>1, CredentialsAssumption DEF Init, Referenced, Stored, Profile, Reference
  <2>2. \A t \in Threads : call[t] = Idle
    BY <1>1 DEF Init
  <2>3. CredentialTypes
    BY <1>1, IdleFits DEF Init, CredentialTypes
  <2>4. Idle.op = "none" /\ Idle.pc = "idle"
    BY DEF Idle
  <2>5. CallsFit /\ UnlinkedAreUnused /\ ImportsAreApart
    BY <2>2, <2>4, IdleFits DEF CallsFit, UnlinkedAreUnused, ImportsAreApart
  <2>6. FilesAreRead /\ NamedAreKnown /\ SharedSecretsSurvive /\ GarbageIsCollected
        /\ ImportsAreKnown
    BY <1>1, <2>1
       DEF Init, FilesAreRead, NamedAreKnown, SharedSecretsSurvive, GarbageIsCollected,
           ImportsAreKnown
  <2>. QED  BY <2>3, <2>5, <2>6 DEF CredentialsInductive
<1>. QED  BY <1>1, CredentialsStep, PTL DEF Spec

\* Whoever shares a secret, and whatever is replaced, deleted or fails: a secret that a profile
\* names can be resolved unless it was being deleted when the profile was written, one that no
\* profile names any more is collected unless its clean-up failed, no import leaves an orphan,
\* and TLS files live as long as the connection that reads them
\* (delete_secret(), _cleanup_unreferenced_secrets(), create_client_identity(), open_profile()).
THEOREM SecretsAreKept == Spec => []SecretsFollowProfiles
<1>1. ASSUME CredentialsInductive PROVE SecretsFollowProfiles
  <2>1. CredentialsTypeOK
    BY <1>1
       DEF CredentialsInductive, CredentialTypes, FilesAreRead, CredentialsTypeOK, Call
  <2>2. NoOrphanCredential
    BY <1>1 DEF CredentialsInductive, ImportsAreKnown, NoOrphanCredential
  <2>. QED  BY <1>1, <2>1, <2>2 DEF CredentialsInductive, SecretsFollowProfiles
<1>. QED  BY <1>1, CredentialsInvariant, PTL


=============================================================================
