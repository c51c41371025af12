---------------------------- MODULE BackupService ----------------------------
(***************************************************************************)
(* Backup and restore in the backend: the live database, the Fernet key    *)
(* beside it under which its secrets (API keys, passwords, tokens) are     *)
(* encrypted, and the bundles of both that the agent keeps.                *)
(*                                                                         *)
(* do_backup and _apply_restore do not await between their steps, so on    *)
(* the event loop each is alone (`step` is not "free" while one of them    *)
(* has the loop); do_backup gives the loop up while the agent stores the   *)
(* bundle.  Endpoints that are plain `def` run in threads meanwhile, and a *)
(* sync run that waits for its next item may hold the write lock.          *)
(***************************************************************************)
EXTENDS Naturals, FiniteSets

CONSTANTS
    Keys,      \* the Fernet keys that may be generated
    Settings,  \* threads that serve a settings endpoint
    Syncs,     \* sync runs on the event loop
    MaxData,   \* bound: how often application data changes
    MaxBundles, \* bound: bundles on their way or stored at one time
    NoKey,     \* no fernet.key file / a bundle without one
    Nobody,    \* nobody holds the write lock
    Nothing    \* no bundle is being built or restored

ASSUME BackupAssumption ==
    /\ NoKey \notin Keys /\ Nobody \notin Syncs /\ MaxData \in Nat /\ MaxBundles \in Nat
    /\ Nothing \notin [data: Nat, secrets: SUBSET Keys, key: Keys \cup {NoKey}]

VARIABLES
    data,      \* version of the application data in the database
    secrets,   \* the keys under which the database's secrets are encrypted
    key,       \* the content of fernet.key
    lock,      \* the sync run that holds the write lock
    step,      \* what has the event loop
    bundle,    \* what do_backup has read, or what is being restored
    sending,   \* bundles on their way to the agent
    folder,    \* bundles the agent keeps
    pc,        \* where each settings request is
    held       \* the key it encrypted its secret with

disk == <<data, secrets, key>>
vars == <<disk, lock, step, bundle, sending, folder, pc, held>>

Bundle == [data: Nat, secrets: SUBSET Keys, key: Keys \cup {NoKey}]

TypeOK ==
    /\ data \in Nat
    /\ secrets \subseteq Keys
    /\ key \in Keys \cup {NoKey}
    /\ lock \in Syncs \cup {Nobody}
    /\ step \in {"free", "backup", "copy", "key"}
    /\ bundle \in Bundle \cup {Nothing}
    /\ sending \subseteq Bundle /\ folder \subseteq Bundle
    /\ pc \in [Settings -> {"off", "generated", "ready"}]
    /\ held \in [Settings -> Keys \cup {NoKey}]

Idle ==
    /\ lock' = Nobody /\ step' = "free" /\ bundle' = Nothing
    /\ sending' = {}
    /\ pc' = [t \in Settings |-> "off"]
    /\ held' = [t \in Settings |-> NoKey]

Init ==
    /\ data = 0 /\ secrets = {} /\ key = NoKey
    /\ lock = Nobody /\ step = "free" /\ bundle = Nothing
    /\ sending = {} /\ folder = {}
    /\ pc = [t \in Settings |-> "off"]
    /\ held = [t \in Settings |-> NoKey]

-----------------------------------------------------------------------------
(* Threads and sync runs beside the backup. *)

ChangeData ==
    /\ lock = Nobody
    /\ data < MaxData
    /\ data' = data + 1
    /\ UNCHANGED <<secrets, key, lock, step, bundle, sending, folder, pc, held>>

(* _fernet(): the file exists and is read, ... *)
ReadKey(t) ==
    /\ pc[t] = "off"
    /\ key # NoKey
    /\ held' = [held EXCEPT ![t] = key]
    /\ pc' = [pc EXCEPT ![t] = "ready"]
    /\ UNCHANGED <<disk, lock, step, bundle, sending, folder>>

(* ... or it does not, and a fresh key is generated ... *)
KnownKeys ==
    secrets \cup {key} \cup {held[t] : t \in Settings}
      \cup UNION {b.secrets \cup {b.key} : b \in sending \cup folder}

GenerateKey(t) ==
    /\ pc[t] = "off"
    /\ key = NoKey
    /\ \E k \in Keys \ KnownKeys : held' = [held EXCEPT ![t] = k]
    /\ pc' = [pc EXCEPT ![t] = "generated"]
    /\ UNCHANGED <<disk, lock, step, bundle, sending, folder>>

(* ... and written, whatever the file holds by now. *)
WriteKey(t) ==
    /\ pc[t] = "generated"
    /\ key' = held[t]
    /\ pc' = [pc EXCEPT ![t] = "ready"]
    /\ UNCHANGED <<data, secrets, lock, step, bundle, sending, folder, held>>

(* The encrypted value is committed. *)
StoreSecret(t) ==
    /\ pc[t] = "ready"
    /\ lock = Nobody
    /\ secrets' = secrets \cup {held[t]}
    /\ held' = [held EXCEPT ![t] = NoKey]
    /\ pc' = [pc EXCEPT ![t] = "off"]
    /\ UNCHANGED <<data, key, lock, step, bundle, sending, folder>>

(* "database is locked": the request fails and its secret with it. *)
SecretLost(t) ==
    /\ pc[t] = "ready"
    /\ lock # Nobody
    /\ held' = [held EXCEPT ![t] = NoKey]
    /\ pc' = [pc EXCEPT ![t] = "off"]
    /\ UNCHANGED <<disk, lock, step, bundle, sending, folder>>

(* A run flushes its first event, waits for further items, commits. *)
SyncFlush(r) ==
    /\ step = "free" /\ lock = Nobody
    /\ lock' = r
    /\ UNCHANGED <<disk, step, bundle, sending, folder, pc, held>>

SyncCommit(r) ==
    /\ step = "free" /\ lock = r
    /\ lock' = Nobody
    /\ UNCHANGED <<disk, step, bundle, sending, folder, pc, held>>

-----------------------------------------------------------------------------
(* do_backup *)

(* src.backup(tmp): a consistent copy of the committed database. *)
BackupDatabase ==
    /\ step = "free"
    /\ Cardinality(sending \cup folder) < MaxBundles
    /\ step' = "backup"
    /\ bundle' = [data |-> data, secrets |-> secrets, key |-> NoKey]
    /\ UNCHANGED <<disk, lock, sending, folder, pc, held>>

(* zf.write(FERNET_KEY_PATH), if there is one; then the bundle is sent. *)
DatabaseOnly ==                             \* mutant: bundles before the key was added
    /\ step = "backup"
    /\ step' = "free" /\ bundle' = Nothing
    /\ sending' = sending \cup {bundle}
    /\ UNCHANGED <<disk, lock, folder, pc, held>>
BackupKey ==
    /\ step = "backup"
    /\ step' = "free" /\ bundle' = Nothing
    /\ sending' = sending \cup {[bundle EXCEPT !.key = key]}
    /\ UNCHANGED <<disk, lock, folder, pc, held>>

(* The agent stores the bundle, or it is lost on the way; what do_backup     *)
(* reports of it, and in which order, is the subject of BackupDelivery.     *)
AgentStores(b) ==
    /\ sending' = sending \ {b}
    /\ folder' = folder \cup {b}
    /\ UNCHANGED <<disk, lock, step, bundle, pc, held>>

SendFails(b) ==
    /\ sending' = sending \ {b}
    /\ UNCHANGED <<disk, lock, step, bundle, folder, pc, held>>

(* The agent's rotation, or a person, deletes it (which: BackupRotation).   *)
RotateOut(b) ==
    /\ folder' = folder \ {b}
    /\ UNCHANGED <<disk, lock, step, bundle, sending, pc, held>>

-----------------------------------------------------------------------------
(* restore_backup and restore_from_file: the bundle has been fetched from   *)
(* the agent and _apply_restore begins, ...                                 *)
RestoreBegins(b) ==
    /\ step = "free"
    /\ step' = "copy" /\ bundle' = b
    /\ UNCHANGED <<disk, lock, sending, folder, pc, held>>

(* ... src.backup(dst) retries, without giving up the loop, until it gets   *)
(* the write lock, ...                                                      *)
RestoreDatabase ==
    /\ step = "copy"
    /\ lock = Nobody
    /\ data' = bundle.data /\ secrets' = bundle.secrets
    /\ step' = "key"
    /\ UNCHANGED <<key, lock, bundle, sending, folder, pc, held>>

(* ... and the key follows, if the bundle has one. *)
KeyLeftAlone ==                             \* mutant: only the database restored
    /\ step = "key"
    /\ step' = "free" /\ bundle' = Nothing
    /\ UNCHANGED <<disk, lock, sending, folder, pc, held>>
RestoreKey ==
    /\ step = "key"
    /\ key' = IF bundle.key # NoKey THEN bundle.key ELSE key
    /\ step' = "free" /\ bundle' = Nothing
    /\ UNCHANGED <<data, secrets, lock, sending, folder, pc, held>>

-----------------------------------------------------------------------------
(* The process dies: the database rolls back to its last commit. *)
Crash == Idle /\ UNCHANGED <<disk, folder>>

(* The volume is lost, or the app is installed on another machine. *)
FreshVolume ==
    /\ Idle
    /\ data' = 0 /\ secrets' = {} /\ key' = NoKey
    /\ UNCHANGED <<folder>>

SettingsStep(t) ==
    ReadKey(t) \/ GenerateKey(t) \/ WriteKey(t) \/ StoreSecret(t) \/ SecretLost(t)

(* What the backend does by itself, and what somebody asks of it. *)
Working ==
    \/ ChangeData
    \/ \E r \in Syncs : SyncFlush(r) \/ SyncCommit(r)
    \/ BackupDatabase \/ BackupKey
    \/ \E b \in sending : AgentStores(b) \/ SendFails(b)
    \/ \E b \in folder : RotateOut(b)
    \/ RestoreDatabase \/ RestoreKey

Next ==
    \/ Working
    \/ \E t \in Settings : SettingsStep(t)
    \/ \E b \in folder : RestoreBegins(b)
    \/ Crash \/ FreshVolume

(* A request that has the loop goes on as soon as it can, and so does a run *)
(* that has the lock.                                                       *)
Fairness ==
    /\ WF_vars(RestoreDatabase) /\ WF_vars(RestoreKey) /\ WF_vars(BackupKey)
    /\ \A r \in Syncs : WF_vars(SyncCommit(r))

Spec == Init /\ [][Next]_vars /\ Fairness

(* No process dies between the two files of a restore, and a settings       *)
(* request is overtaken neither by another one nor by a restore.            *)
Underway == {t \in Settings : pc[t] # "off"}

CalmNext ==
    \/ Working
    \/ /\ step \notin {"copy", "key"}
       /\ \E t \in Settings : Underway \subseteq {t} /\ SettingsStep(t)
    \/ Underway = {} /\ \E b \in folder : RestoreBegins(b)
    \/ step # "key" /\ (Crash \/ FreshVolume)
CalmSpec == Init /\ [][CalmNext]_vars

-----------------------------------------------------------------------------
(* Properties. *)

(* Every bundle decrypts itself: the key in it is the one its secrets were  *)
(* encrypted with, although the two are read one after the other while      *)
(* endpoints go on.                                                         *)
BundlesSelfContained ==
    \A b \in sending \cup folder : b.secrets \subseteq {b.key}

(* "key and ciphertext must always travel together, otherwise encrypted     *)
(* fields become undecryptable" (_apply_restore): no secret of the live     *)
(* database is encrypted with a key that is no longer there.                *)
SecretsReadable == step # "key" => secrets \subseteq {key}
=============================================================================
