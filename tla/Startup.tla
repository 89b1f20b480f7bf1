------------------------------ MODULE Startup ------------------------------
(***************************************************************************)
(* How the two processes come up: the gateway makes its directories,       *)
(* provisions the golden rootfs and loads or creates its host key; the     *)
(* dashboard loads or creates its token. Both may die, and a call to the   *)
(* file system may fail, at any step; whatever supervises them starts them *)
(* again. While the gateway serves, new_client provisions the golden       *)
(* rootfs again for every session, one at a time since it holds &mut self, *)
(* underneath the sessions that are already reading it.                    *)
(*                                                                         *)
(* What fs::write does is two steps: the open truncates, then the content  *)
(* goes in. A file between the two is torn.                                *)
(***************************************************************************)
EXTENDS Naturals, FiniteSets

CONSTANTS
    Sessions,    \* connections the gateway admits
    Golden,      \* number of files ensure_golden_rootfs writes, in order
    KeyPaths,    \* host_key_path of the configurations the gateway is started
                 \* with; AegisConfig::default() has one of its own
    TokenPaths,  \* token_path likewise, for the dashboard
    NoPath,      \* no host_key_path, or require_auth off
    MaxMishaps   \* bound on deaths and failing calls together

ASSUME StartupAssumption ==
    /\ Golden \in Nat /\ MaxMishaps \in Nat
    /\ (KeyPaths \cap TokenPaths) \subseteq {NoPath}

Procs == {"gateway", "dashboard"}
Paths(p) == IF p = "gateway" THEN KeyPaths ELSE TokenPaths
SecretFiles == (KeyPaths \cup TokenPaths) \ {NoPath}

\* What a secret file holds: nothing yet, less than was written, or a secret.
Absent == 0
Torn == 1
Secret(n) == n + 2

VARIABLES
    phase,       \* of each process
    path,        \* the secret file its configuration names
    secret,      \* the key or token it has in memory
    file,        \* content of each secret file
    issued,      \* secrets generated so far
    golden,      \* state of each file of the golden rootfs
    at,          \* the file ensure_golden_rootfs has come to, 0 if not running
    open,        \* it has truncated that file and not yet filled it
    conn,        \* each session: what root its sandbox has
    mishaps,     \* deaths and failing calls so far
    served,      \* history: the secrets served out of each file
    hurt         \* history: golden files damaged since a session began and not
                 \* written again

secrets == <<path, secret, file, issued, served>>
tree == <<golden, at, open, conn, hurt>>
startup == <<phase, secrets, tree, mishaps>>

Mishap == mishaps < MaxMishaps /\ mishaps' = mishaps + 1

-----------------------------------------------------------------------------
(* Processes *)

\* main(): the configuration, or the defaults when it cannot be read.
Start(p) ==
    /\ phase[p] = "down"
    /\ \E q \in Paths(p) : path' = [path EXCEPT ![p] = q]
    /\ phase' = [phase EXCEPT ![p] = IF p = "gateway" THEN "dirs" ELSE "secret"]
    /\ UNCHANGED <<secret, file, issued, served, tree, mishaps>>

\* What the end of the gateway does to its sessions and to a provisioning.
SessionsEnd ==
    /\ at' = 0 /\ open' = FALSE
    /\ conn' = [s \in Sessions |-> IF conn[s] = "new" THEN "new" ELSE "gone"]
    /\ UNCHANGED <<golden, hurt>>

\* main() returns an error, or the process is killed.
Ends(p) ==
    /\ phase' = [phase EXCEPT ![p] = "down"]
    /\ IF p = "gateway" THEN SessionsEnd ELSE UNCHANGED tree

Die(p) ==
    /\ phase[p] # "down" /\ Mishap
    /\ Ends(p)
    /\ UNCHANGED secrets

\* The quarantine, the sessions directory and the overlay base.
MakeDirs ==
    /\ phase["gateway"] = "dirs"
    /\ \/ /\ phase' = [phase EXCEPT !["gateway"] = "golden"]
          /\ at' = 1
          /\ UNCHANGED <<golden, open, conn, hurt, mishaps>>
       \/ Mishap /\ Ends("gateway")
    /\ UNCHANGED secrets

-----------------------------------------------------------------------------
(* The golden rootfs *)

\* new_client reaches spawn_sandbox, which provisions the rootfs first.
Accept(s) ==
    /\ phase["gateway"] = "up" /\ at = 0 /\ conn[s] = "new"
    /\ conn' = [conn EXCEPT ![s] = "making"]
    /\ at' = 1
    /\ hurt' = [hurt EXCEPT ![s] = {}]
    /\ UNCHANGED <<phase, secrets, golden, open, mishaps>>

\* Mutant: a file that is there already is taken to be the right one.
SkipExisting ==
    /\ at \in 1..Golden /\ ~open
    /\ IF golden[at] = "absent"
       THEN open' = TRUE /\ golden' = [golden EXCEPT ![at] = "torn"] /\ UNCHANGED at
       ELSE at' = at + 1 /\ UNCHANGED <<open, golden>>
    /\ UNCHANGED <<phase, secrets, conn, hurt, mishaps>>

\* write_file, whatever is there: fs::write opens with truncation ...
TruncateGolden ==
    /\ at \in 1..Golden /\ ~open
    /\ open' = TRUE
    /\ golden' = [golden EXCEPT ![at] = "torn"]
    /\ UNCHANGED <<phase, secrets, at, conn, hurt, mishaps>>

\* ... and writes the content, which is not all the file holds, or not in the
\* file any more, if a session has got at it in between.
FillGolden ==
    /\ open
    /\ open' = FALSE /\ at' = at + 1
    /\ \/ /\ golden' = [golden EXCEPT ![at] = "whole"]
          /\ hurt' = [s \in Sessions |-> hurt[s] \ {at}]
       \/ golden[at] = "changed" /\ UNCHANGED <<golden, hurt>>
    /\ UNCHANGED <<phase, secrets, conn, mishaps>>

\* The `?` of write_file and of ensure_golden_rootfs: main only warns, and
\* new_client goes on without a sandbox.
GoldenFails ==
    /\ at \in 1..Golden /\ Mishap
    /\ at' = 0 /\ open' = FALSE
    /\ hurt' = IF open THEN [s \in Sessions |-> hurt[s] \cup {at}] ELSE hurt
    /\ phase' = IF phase["gateway"] = "golden"
                THEN [phase EXCEPT !["gateway"] = "secret"] ELSE phase
    /\ conn' = [s \in Sessions |-> IF conn[s] = "making" THEN "none" ELSE conn[s]]
    /\ UNCHANGED <<secrets, golden>>

\* Provisioned. A session gets a layer of its own, or, when its directories
\* cannot be made, the golden rootfs itself.
GoldenDone ==
    /\ at = Golden + 1
    /\ at' = 0
    /\ phase' = IF phase["gateway"] = "golden"
                THEN [phase EXCEPT !["gateway"] = "secret"] ELSE phase
    /\ \E root \in {"layer", "lower"} :
         /\ IF root = "lower" THEN phase["gateway"] = "up" /\ Mishap
                              ELSE UNCHANGED mishaps
         /\ conn' = [s \in Sessions |-> IF conn[s] = "making" THEN root ELSE conn[s]]
    /\ UNCHANGED <<secrets, golden, open, hurt>>

\* A session whose root is the golden rootfs overwrites or removes a file.
EditGolden(s, f) ==
    /\ conn[s] = "lower"
    /\ golden' = [golden EXCEPT ![f] = "changed"]
    /\ hurt' = [t \in Sessions |-> hurt[t] \cup {f}]
    /\ UNCHANGED <<phase, secrets, at, open, conn, mishaps>>

Leave(s) ==
    /\ conn[s] \in {"layer", "lower", "none"}
    /\ conn' = [conn EXCEPT ![s] = "gone"]
    /\ UNCHANGED <<phase, secrets, golden, at, open, hurt, mishaps>>

-----------------------------------------------------------------------------
(* The host key and the token *)

\* A process serves with the secret v.
Serves(p, v) ==
    /\ secret' = [secret EXCEPT ![p] = v]
    /\ phase' = [phase EXCEPT ![p] = "up"]
    /\ served' = IF path[p] = NoPath THEN served
                 ELSE [served EXCEPT ![path[p]] = @ \cup {v}]

\* generate_ed25519, generate_token.
Generate(p) ==
    /\ secret' = [secret EXCEPT ![p] = Secret(issued)]
    /\ issued' = issued + 1

\* NotFound: a new secret, still to be written.
Create(p) ==
    /\ file[path[p]] = Absent
    /\ Generate(p)
    /\ phase' = [phase EXCEPT ![p] = "create"]
    /\ UNCHANGED <<served, tree>>

\* Without a file the gateway has a key of its own for this run, and the
\* dashboard asks for no token.
Ephemeral(p) ==
    /\ path[p] = NoPath
    /\ Generate(p)
    /\ phase' = [phase EXCEPT ![p] = "up"]
    /\ UNCHANGED <<served, tree>>

\* decode_secret_key: a torn key file ends the process.
LoadHostKey ==
    /\ phase["gateway"] = "secret"
    /\ \/ Ephemeral("gateway")
       \/ path["gateway"] # NoPath /\ Create("gateway")
       \/ /\ path["gateway"] # NoPath /\ file[path["gateway"]] > Torn
          /\ Serves("gateway", file[path["gateway"]])
          /\ UNCHANGED <<issued, tree>>
       \/ /\ path["gateway"] # NoPath /\ file[path["gateway"]] = Torn
          /\ Ends("gateway")
          /\ UNCHANGED <<secret, issued, served>>
    /\ UNCHANGED <<path, file, mishaps>>

\* Mutant: the token file is checked the way the key file is.
LoadTokenChecked ==
    /\ phase["dashboard"] = "secret"
    /\ \/ Ephemeral("dashboard")
       \/ path["dashboard"] # NoPath /\ Create("dashboard")
       \/ /\ path["dashboard"] # NoPath /\ file[path["dashboard"]] > Torn
          /\ Serves("dashboard", file[path["dashboard"]])
          /\ UNCHANGED <<issued, tree>>
       \/ /\ path["dashboard"] # NoPath /\ file[path["dashboard"]] = Torn
          /\ Ends("dashboard")
          /\ UNCHANGED <<secret, issued, served>>
    /\ UNCHANGED <<path, file, mishaps>>

\* The token is whatever the file holds.
LoadToken ==
    /\ phase["dashboard"] = "secret"
    /\ \/ Ephemeral("dashboard")
       \/ path["dashboard"] # NoPath /\ Create("dashboard")
       \/ /\ path["dashboard"] # NoPath /\ file[path["dashboard"]] # Absent
          /\ Serves("dashboard", file[path["dashboard"]])
          /\ UNCHANGED <<issued, tree>>
    /\ UNCHANGED <<path, file, mishaps>>

\* The read fails otherwise, or a step before the file is opened does.
SecretFails(p) ==
    /\ phase[p] \in {"secret", "create", "mode"} /\ path[p] # NoPath /\ Mishap
    /\ Ends(p)
    /\ UNCHANGED secrets

\* tokio::fs::write of the new secret.
OpenSecret(p) ==
    /\ phase[p] = "create"
    /\ file' = [file EXCEPT ![path[p]] = Torn]
    /\ phase' = [phase EXCEPT ![p] = "fill"]
    /\ UNCHANGED <<path, secret, issued, served, tree, mishaps>>

\* Mutant: a secret that could not be saved is used all the same.
FillOrWarn(p) ==
    /\ phase[p] = "fill"
    /\ \/ /\ file' = [file EXCEPT ![path[p]] = secret[p]]
          /\ phase' = [phase EXCEPT ![p] = "mode"]
          /\ UNCHANGED <<mishaps, served, secret>>
       \/ Mishap /\ Serves(p, secret[p]) /\ UNCHANGED file
    /\ UNCHANGED <<path, issued, tree>>

FillSecret(p) ==
    /\ phase[p] = "fill"
    /\ \/ /\ file' = [file EXCEPT ![path[p]] = secret[p]]
          /\ phase' = [phase EXCEPT ![p] = "mode"]
          /\ UNCHANGED <<mishaps, tree>>
       \/ Mishap /\ Ends(p) /\ UNCHANGED file
    /\ UNCHANGED <<path, secret, issued, served>>

\* set_permissions, then the process serves.
SetMode(p) ==
    /\ phase[p] = "mode"
    /\ Serves(p, secret[p])
    /\ UNCHANGED <<path, file, issued, tree, mishaps>>

-----------------------------------------------------------------------------
StartupInit ==
    /\ phase = [p \in Procs |-> "down"]
    /\ path = [p \in Procs |-> NoPath]
    /\ secret = [p \in Procs |-> Absent]
    /\ file = [q \in SecretFiles |-> Absent]
    /\ issued = 0
    /\ golden = [f \in 1..Golden |-> "absent"]
    /\ at = 0 /\ open = FALSE
    /\ conn = [s \in Sessions |-> "new"]
    /\ mishaps = 0
    /\ served = [q \in SecretFiles |-> {}]
    /\ hurt = [s \in Sessions |-> {}]

Step(p) ==
    \/ Start(p) \/ OpenSecret(p) \/ FillSecret(p) \/ SetMode(p)
    \/ p = "gateway" /\ (MakeDirs \/ LoadHostKey)
    \/ p = "dashboard" /\ LoadToken

ProvisionGolden == TruncateGolden \/ FillGolden \/ GoldenDone

StartupNext ==
    \/ \E p \in Procs : Step(p) \/ Die(p) \/ SecretFails(p)
    \/ ProvisionGolden \/ GoldenFails
    \/ \E s \in Sessions : Accept(s) \/ Leave(s) \/ \E f \in 1..Golden : EditGolden(s, f)

\* The runtime takes the next step of a process that is up, and whatever
\* supervises it starts it again. Nothing is owed by clients or by faults.
StartupSpec ==
    /\ StartupInit /\ [][StartupNext]_startup
    /\ WF_startup(ProvisionGolden) /\ \A p \in Procs : WF_startup(Step(p))

-----------------------------------------------------------------------------
\* A secret once served out of a file is the one the file holds from then on,
\* and the only one ever served out of it, whatever dies or fails while it is
\* created or loaded: load_or_create_host_key and load_or_create_token serve a
\* secret only after they have read it or written it whole.
SecretsStable ==
    \A q \in SecretFiles : served[q] # {} => served[q] = {file[q]}

\* Every golden file under a live session is whole, except the one the spawn of
\* another session is just rewriting, and those a failed rewrite or a session
\* without a layer has damaged since the session began: ensure_golden_rootfs
\* writes every file again for every session, so that whatever an earlier death,
\* failure or session left behind is repaired before a new one gets its root.
LowerLayerWhole ==
    \A s \in Sessions : conn[s] \in {"layer", "lower"} =>
        \A f \in 1..Golden :
            golden[f] = "whole" \/ (open /\ at = f) \/ f \in hurt[s]

\* Once deaths and failures stop, the dashboard serves for good, and so does the
\* gateway unless one of its key files was left torn by a death or a failure
\* between the truncation and the write of load_or_create_host_key; then no start
\* from that file ever succeeds again.
ServesAgain ==
    /\ <>[](phase["dashboard"] = "up")
    /\ \/ <>[](phase["gateway"] = "up")
       \/ \E q \in KeyPaths \ {NoPath} : <>[](file[q] = Torn)
=============================================================================
