------------------------------ MODULE Sandbox ------------------------------
(***************************************************************************)
(* The session sandboxes of the gateway: the OverlayFS layer each session  *)
(* gets, the files its shell and its downloads put there, the teardown and *)
(* forensics pass run by the session or by its Drop, the death of the      *)
(* process at any step, and the reclaim of what it left at the next start. *)
(*                                                                         *)
(* A file stands for a path together with its content; the quarantine is   *)
(* keyed by content hash, so it is shared by all sessions.                 *)
(***************************************************************************)
EXTENDS Naturals, FiniteSets

CONSTANTS
    Sessions,    \* session ids; a connection gets a fresh one
    Files,       \* what a shell may write, or a download may bring
    Payloads,    \* the files analyze_file quarantines: scripts and
                 \* executables within max_analysis_bytes
    Faults,      \* which calls of the environment may go wrong
    MaxFetches,  \* forensics.max_fetches_per_session; 0 = fetch_payloads off
    MaxStops     \* bound on the modelled number of process deaths

ASSUME SandboxAssumption ==
    /\ Payloads \subseteq Files
    /\ Faults \subseteq {"provision", "dirs", "mount", "analysis", "late"}
    /\ MaxFetches \in Nat /\ MaxStops \in Nat

VARIABLES
    phase,       \* of the gateway process
    stops,       \* process deaths so far
    conn,        \* of each session's handler
    root,        \* SandboxHandle.root_dir, kept by the VFS as mount_root
    is_mounted,  \* OverlayMount.is_mounted
    mounted,     \* whether the kernel has the overlay mounted
    dirs,        \* the directories of the session that exist
    upper,       \* the files in its upperdir
    stray,       \* files in a mount directory nothing is mounted on
    rootfs,      \* session files in the golden rootfs
    quarantine,  \* state of each quarantine file
    job,         \* the teardown, forensics and removal run for a session
    todo,        \* files the walk of the upperdir has still to visit
    cur,         \* the file the walk is quarantining
    fetch,       \* the blocking download of a session
    fetched,     \* the file it brings
    fetch_count, \* ActiveSession.fetch_count
    waiting,     \* data() awaits the download
    pipe,        \* PayloadCaptured events sent and not yet taken by the collector
    logged,      \* those it has written to the log
    cut,         \* history: those that were in the channel when the process died
    unsaved,     \* history: files whose last analysis or quarantine copy failed,
                 \* or was cut off with the download that wrote it
    drops        \* history: payloads in the session's layer when it ended

vault == <<quarantine, unsaved>>
disk == <<mounted, dirs, upper, stray, rootfs, vault>>
events == <<pipe, logged, cut>>
work == <<job, todo, cur>>
load == <<fetch, fetched, fetch_count, waiting>>
vars == <<phase, stops, conn, root, is_mounted, disk, work, load, events, drops>>

-----------------------------------------------------------------------------
(* Sessions *)

AllDirs == {"session", "upper", "mount"}

\* spawn_sandbox: the root it settles on and the directories it has made.
SpawnOutcomes ==
    {<<"mount", AllDirs>>}
    \cup (IF "mount" \in Faults THEN {<<"upper", AllDirs>>} ELSE {})
    \cup (IF "dirs" \in Faults
          THEN {<<"lower", d>> : d \in {{}, {"session"}, {"session", "upper"}}}
          ELSE {})
    \cup (IF "provision" \in Faults THEN {<<"none", {}>>} ELSE {})

\* new_client provisions the sandbox and hands its root to the VFS.
Spawn(s) ==
    /\ phase = "up" /\ conn[s] = "new"
    /\ conn' = [conn EXCEPT ![s] = "open"]
    /\ \E o \in SpawnOutcomes :
         /\ root' = [root EXCEPT ![s] = o[1]]
         /\ dirs' = [dirs EXCEPT ![s] = o[2]]
         /\ is_mounted' = [is_mounted EXCEPT ![s] = o[1] = "mount"]
         /\ mounted' = [mounted EXCEPT ![s] = o[1] = "mount"]
    /\ UNCHANGED <<phase, stops, upper, stray, rootfs, vault, work, load,
                   events, drops>>

\* data() runs a command; nothing in it asks whether the session has ended.
Reading(s) ==
    /\ phase = "up" /\ ~waiting[s]
    /\ \/ conn[s] = "open"
       \/ conn[s] = "closed" /\ "late" \in Faults

OwnsLayer(s) == root[s] \in {"mount", "upper"}

\* Where a write below the VFS's mount_root lands.
InMount(s) == root[s] = "mount" /\ mounted[s] /\ "upper" \in dirs[s]
LandsInUpper(s) == root[s] = "upper" \/ InMount(s)
LandsAstray(s) == root[s] = "mount" /\ ~mounted[s]

\* mkdir, touch and a redirection create the missing parents, then the file.
Write(s, f) ==
    /\ Reading(s)
    /\ upper' = IF LandsInUpper(s) THEN [upper EXCEPT ![s] = @ \cup {f}] ELSE upper
    /\ stray' = IF LandsAstray(s) THEN [stray EXCEPT ![s] = @ \cup {f}] ELSE stray
    /\ rootfs' = IF root[s] = "lower" THEN rootfs \cup {f} ELSE rootfs
    /\ dirs' = IF OwnsLayer(s) THEN [dirs EXCEPT ![s] = @ \cup {"session", root[s]}]
                               ELSE dirs
    /\ drops' = IF conn[s] = "open" /\ LandsInUpper(s) /\ f \in Payloads
                THEN [drops EXCEPT ![s] = @ \cup {f}] ELSE drops
    /\ UNCHANGED <<phase, stops, conn, root, is_mounted, mounted, vault, work,
                   load, events>>

\* rm on the disk layer.
Remove(s, f) ==
    /\ Reading(s)
    /\ upper' = IF LandsInUpper(s) THEN [upper EXCEPT ![s] = @ \ {f}] ELSE upper
    /\ stray' = IF LandsAstray(s) THEN [stray EXCEPT ![s] = @ \ {f}] ELSE stray
    /\ rootfs' = IF root[s] = "lower" THEN rootfs \ {f} ELSE rootfs
    /\ drops' = IF conn[s] = "open" THEN [drops EXCEPT ![s] = @ \ {f}] ELSE drops
    /\ UNCHANGED <<phase, stops, conn, root, is_mounted, mounted, dirs, vault,
                   work, load, events>>

\* teardown_session, on exit, Ctrl-D or channel_close: is_ended is set and the
\* sandbox is taken. Without an overlay there is nothing to tear down.
Close(s) ==
    /\ phase = "up" /\ conn[s] = "open" /\ ~waiting[s]
    /\ IF OwnsLayer(s)
       THEN /\ conn' = [conn EXCEPT ![s] = "closing"]
            /\ job' = [job EXCEPT ![s] = "umount"]
       ELSE /\ conn' = [conn EXCEPT ![s] = "closed"]
            /\ UNCHANGED job
    /\ UNCHANGED <<phase, stops, root, is_mounted, disk, todo, cur, load,
                   events, drops>>

\* Mutant: Drop leaves the sandbox of an abandoned session to the next start.
DropLeavingSandbox(s) ==
    /\ phase = "up" /\ conn[s] \in {"open", "closed"} /\ ~waiting[s]
    /\ conn' = [conn EXCEPT ![s] = "gone"]
    /\ UNCHANGED <<phase, stops, root, is_mounted, disk, work, load, events, drops>>

\* Drop for ActiveSession: a session that never ended hands its teardown to a
\* task of the runtime.
DropSession(s) ==
    /\ phase = "up" /\ conn[s] \in {"open", "closed"} /\ ~waiting[s]
    /\ conn' = [conn EXCEPT ![s] = "gone"]
    /\ job' = IF conn[s] = "open" /\ OwnsLayer(s)
              THEN [job EXCEPT ![s] = "umount"] ELSE job
    /\ UNCHANGED <<phase, stops, root, is_mounted, disk, todo, cur, load,
                   events, drops>>

-----------------------------------------------------------------------------
(* Downloads: data() waits up to 7 s for a blocking thread that outlives it *)

BeginFetch(s, f) ==
    /\ phase = "up" /\ conn[s] = "open" /\ ~waiting[s]
    /\ fetch[s] = "none" /\ fetch_count[s] < MaxFetches
    /\ fetch' = [fetch EXCEPT ![s] = "running"]
    /\ fetched' = [fetched EXCEPT ![s] = {f}]
    /\ fetch_count' = [fetch_count EXCEPT ![s] = @ + 1]
    /\ waiting' = [waiting EXCEPT ![s] = TRUE]
    /\ UNCHANGED <<phase, stops, conn, root, is_mounted, disk, work, events, drops>>

\* Mutant: the quarantine file is hashed and named but not written.
MarkNothing(fs, state) == quarantine

Mark(fs, state) == [f \in Files |-> IF f \in fs THEN state ELSE quarantine[f]]

\* The writes of a quarantine file in progress.
Writers(f) ==
    {<<s, "job">> : s \in {t \in Sessions : job[t] = "save" /\ f \in cur[t]}}
    \cup {<<s, "fetch">> : s \in {t \in Sessions : fetch[t] = "saving" /\ f \in fetched[t]}}

\* Writer w is done; a file someone else truncated meanwhile is not whole yet.
Filled(fs, w) ==
    LET whole == {f \in fs : Writers(f) \subseteq {w}} IN
    /\ quarantine' = Mark(whole, "whole")
    /\ unsaved' = unsaved \ whole

FetchGoto(s, from, to) ==
    /\ fetch[s] = from
    /\ fetch' = [fetch EXCEPT ![s] = to]
    /\ UNCHANGED <<phase, stops, conn, root, is_mounted, mounted, dirs, job, cur,
                   fetched, fetch_count, events, drops>>

\* std::fs::write truncates the quarantine file before it fills it.
FetchSave(s) ==
    /\ FetchGoto(s, "running", "saving")
    /\ quarantine' = Mark(fetched[s], "partial")
    /\ UNCHANGED <<upper, stray, rootfs, unsaved, todo, waiting>>

FetchSaved(s) ==
    /\ FetchGoto(s, "saving", "saved")
    /\ Filled(fetched[s], <<s, "fetch">>)
    /\ UNCHANGED <<upper, stray, rootfs, todo, waiting>>

\* The quarantine file cannot be opened or filled; the download goes on.
FetchSaveFails(s) ==
    /\ "analysis" \in Faults
    /\ \/ FetchGoto(s, "running", "saved")
       \/ FetchGoto(s, "saving", "saved")
    /\ unsaved' = unsaved \cup fetched[s]
    /\ UNCHANGED <<upper, stray, rootfs, quarantine, todo, waiting>>

\* A file that appears during a walk may or may not be met by it.
LandCopy(s) ==
    /\ upper' = [upper EXCEPT ![s] = @ \cup fetched[s]]
    /\ \/ UNCHANGED todo
       \/ job[s] = "walk" /\ todo' = [todo EXCEPT ![s] = @ \cup fetched[s]]

\* The session's copy goes into its mount: the file is open for a while.
FetchOpenCopy(s) ==
    /\ InMount(s)
    /\ FetchGoto(s, "saved", "writing")
    /\ UNCHANGED <<upper, stray, rootfs, vault, todo, waiting>>

FetchCloseCopy(s) ==
    /\ FetchGoto(s, "writing", "done")
    /\ IF "upper" \in dirs[s] THEN LandCopy(s) ELSE UNCHANGED <<upper, todo>>
    /\ UNCHANGED <<stray, rootfs, vault, waiting>>

\* Without a mount the copy lands below the root if root/ exists there.
FetchCopy(s) ==
    /\ FetchGoto(s, "saved", "done")
    /\ \/ root[s] = "upper" /\ "upper" \in dirs[s] /\ LandCopy(s) /\ UNCHANGED <<stray, rootfs>>
       \/ /\ LandsAstray(s) /\ stray[s] # {}
          /\ stray' = [stray EXCEPT ![s] = @ \cup fetched[s]]
          /\ UNCHANGED <<upper, rootfs, todo>>
       \/ /\ root[s] = "lower"
          /\ rootfs' = rootfs \cup fetched[s]
          /\ UNCHANGED <<upper, stray, todo>>
    /\ UNCHANGED <<vault, waiting>>

\* There is no root/ to copy into: the write fails, which is ignored.
FetchNoCopy(s) ==
    /\ ~InMount(s) /\ root[s] # "lower"
    /\ FetchGoto(s, "saved", "done")
    /\ UNCHANGED <<upper, stray, rootfs, vault, todo, waiting>>

\* The answer reaches data() if it still waits, and is announced only then.
FetchAnswer(s) ==
    /\ fetch[s] = "done"
    /\ fetch' = [fetch EXCEPT ![s] = "none"]
    /\ fetched' = [fetched EXCEPT ![s] = {}]
    /\ waiting' = [waiting EXCEPT ![s] = FALSE]
    /\ pipe' = IF waiting[s] THEN pipe \cup fetched[s] ELSE pipe
    /\ UNCHANGED <<phase, stops, conn, root, is_mounted, disk, work, fetch_count,
                   logged, cut, drops>>

\* The URL is refused, or the request fails: there is no payload.
FetchRefused(s) ==
    /\ fetch[s] = "running"
    /\ fetch' = [fetch EXCEPT ![s] = "none"]
    /\ fetched' = [fetched EXCEPT ![s] = {}]
    /\ waiting' = [waiting EXCEPT ![s] = FALSE]
    /\ UNCHANGED <<phase, stops, conn, root, is_mounted, disk, work, fetch_count,
                   events, drops>>

FetchTimeout(s) ==
    /\ waiting[s]
    /\ waiting' = [waiting EXCEPT ![s] = FALSE]
    /\ UNCHANGED <<phase, stops, conn, root, is_mounted, disk, work, fetch, fetched,
                   fetch_count, events, drops>>

Fetching(s) ==
    \/ FetchSave(s) \/ FetchSaved(s) \/ FetchSaveFails(s) \/ FetchOpenCopy(s)
    \/ FetchCloseCopy(s) \/ FetchCopy(s) \/ FetchNoCopy(s) \/ FetchAnswer(s)
    \/ FetchRefused(s) \/ FetchTimeout(s)

-----------------------------------------------------------------------------
(* Teardown, forensics and removal of a session's directory *)

JobGoto(s, from, to) ==
    /\ phase \in {"up", "reclaim"}
    /\ job[s] = from
    /\ job' = [job EXCEPT ![s] = to]
    /\ UNCHANGED <<phase, stops, root, rootfs, load, drops>>

\* OverlayMount::teardown: a failed umount is only logged.
Umount(s) ==
    /\ JobGoto(s, "umount", "clean")
    /\ mounted' = [mounted EXCEPT ![s] = is_mounted[s] /\ fetch[s] = "writing"]
    /\ is_mounted' = [is_mounted EXCEPT ![s] = FALSE]
    /\ UNCHANGED <<conn, dirs, upper, stray, vault, todo, cur, events>>

\* remove_dir_all of the mount point. What is still mounted there is emptied
\* through the overlay, and the mount point itself cannot go.
Clean(s) ==
    /\ JobGoto(s, "clean", "list")
    /\ IF mounted[s]
       THEN upper' = [upper EXCEPT ![s] = {}] /\ UNCHANGED <<dirs, stray>>
       ELSE /\ dirs' = [dirs EXCEPT ![s] = @ \ {"mount"}]
            /\ stray' = [stray EXCEPT ![s] = {}]
            /\ UNCHANGED upper
    /\ UNCHANGED <<conn, is_mounted, mounted, vault, todo, cur, events>>

\* analyze_upperdir: make the quarantine directory, then walk the files.
ListUpper(s) ==
    /\ JobGoto(s, "list", "walk")
    /\ \/ todo' = [todo EXCEPT ![s] = upper[s]] /\ UNCHANGED unsaved
       \/ "analysis" \in Faults /\ unsaved' = unsaved \cup upper[s] /\ UNCHANGED todo
    /\ UNCHANGED <<conn, is_mounted, mounted, dirs, upper, stray, quarantine, cur,
                   events>>

\* analyze_file: not a payload, or it could not be read (which is logged).
SkipFile(s, f) ==
    /\ JobGoto(s, "walk", "walk")
    /\ f \in todo[s]
    /\ f \notin Payloads \/ "analysis" \in Faults
    /\ unsaved' = IF f \in Payloads THEN unsaved \cup {f} ELSE unsaved
    /\ todo' = [todo EXCEPT ![s] = @ \ {f}]
    /\ UNCHANGED <<conn, is_mounted, mounted, dirs, upper, stray, quarantine, cur,
                   events>>

\* Mutant: a payload that is in the quarantine already is passed over.
QuarantineOnce(s, f) ==
    /\ f \in todo[s] \cap Payloads
    /\ IF quarantine[f] # "whole"
       THEN /\ JobGoto(s, "walk", "save")
            /\ quarantine' = Mark({f}, "partial")
            /\ cur' = [cur EXCEPT ![s] = {f}]
            /\ UNCHANGED todo
       ELSE /\ JobGoto(s, "walk", "walk")
            /\ todo' = [todo EXCEPT ![s] = @ \ {f}]
            /\ UNCHANGED <<quarantine, cur>>
    /\ UNCHANGED <<conn, is_mounted, mounted, dirs, upper, stray, unsaved, events>>

\* analyze_file: fs::write truncates the quarantine file, then fills it.
Quarantine(s, f) ==
    /\ JobGoto(s, "walk", "save")
    /\ f \in todo[s] \cap Payloads
    /\ quarantine' = Mark({f}, "partial")
    /\ cur' = [cur EXCEPT ![s] = {f}]
    /\ UNCHANGED <<conn, is_mounted, mounted, dirs, upper, stray, unsaved, todo, events>>

Quarantined(s) ==
    /\ JobGoto(s, "save", "send")
    /\ Filled(cur[s], <<s, "job">>)
    /\ UNCHANGED <<conn, is_mounted, mounted, dirs, upper, stray, todo, cur, events>>

\* The file is visited; what its analysis returned is only logged.
Visited(s) ==
    /\ todo' = [todo EXCEPT ![s] = @ \ cur[s]]
    /\ cur' = [cur EXCEPT ![s] = {}]

QuarantineFails(s) ==
    /\ "analysis" \in Faults
    /\ JobGoto(s, "save", "walk")
    /\ Visited(s)
    /\ unsaved' = unsaved \cup cur[s]
    /\ UNCHANGED <<conn, is_mounted, mounted, dirs, upper, stray, quarantine, events>>

SendCaptured(s) ==
    /\ JobGoto(s, "send", "walk")
    /\ pipe' = pipe \cup cur[s]
    /\ Visited(s)
    /\ UNCHANGED <<conn, is_mounted, mounted, dirs, upper, stray, vault, logged, cut>>

\* remove_dir_all of the session directory, whatever the analysis returned;
\* it stops at a mount point that is still in use.
RemoveDir(s) ==
    /\ JobGoto(s, "walk", "none")
    /\ todo[s] = {}
    /\ \E left \in IF mounted[s] THEN {AllDirs, AllDirs \ {"upper"}} ELSE {{}} :
         dirs' = [dirs EXCEPT ![s] = @ \cap left]
    /\ upper' = [upper EXCEPT ![s] = {}]
    /\ stray' = [stray EXCEPT ![s] = {}]
    /\ conn' = [conn EXCEPT ![s] = IF @ = "closing" THEN "closed" ELSE @]
    /\ UNCHANGED <<is_mounted, mounted, vault, todo, cur, events>>

Job(s) ==
    \/ Umount(s) \/ Clean(s) \/ ListUpper(s) \/ Quarantined(s) \/ QuarantineFails(s)
    \/ SendCaptured(s) \/ RemoveDir(s)
    \/ \E f \in Files : SkipFile(s, f) \/ Quarantine(s, f)

-----------------------------------------------------------------------------
(* The process *)

\* Everything in memory is gone; m says what remains mounted.
Halt(m) ==
    /\ phase # "down" /\ stops < MaxStops
    /\ phase' = "down"
    /\ stops' = stops + 1
    /\ mounted' = m
    /\ conn' = [s \in Sessions |-> IF conn[s] = "new" THEN "new" ELSE "gone"]
    /\ is_mounted' = [s \in Sessions |-> FALSE]
    /\ job' = [s \in Sessions |-> "none"]
    /\ todo' = [s \in Sessions |-> {}]
    /\ cur' = [s \in Sessions |-> {}]
    /\ fetch' = [s \in Sessions |-> "none"]
    /\ fetched' = [s \in Sessions |-> {}]
    /\ waiting' = [s \in Sessions |-> FALSE]
    /\ pipe' = {} /\ cut' = cut \cup pipe
    /\ unsaved' = unsaved \cup UNION {fetched[s] : s \in {t \in Sessions : fetch[t] = "saving"}}
    /\ UNCHANGED <<root, dirs, upper, stray, rootfs, quarantine, fetch_count, logged,
                   drops>>

\* SIGKILL leaves the mounts, a reboot of the host none of them; a server
\* error ends main and unmounts through Drop for OverlayMount.
Kill == Halt(mounted)
Reboot == Halt([s \in Sessions |-> FALSE])
ServerError ==
    /\ phase = "up"
    /\ Halt([s \in Sessions |-> mounted[s] /\ ~is_mounted[s]])

Start ==
    /\ phase = "down"
    /\ phase' = "scan"
    /\ UNCHANGED <<stops, conn, root, is_mounted, disk, work, load, events, drops>>

Unscanned(s) == "session" \in dirs[s] /\ job[s] = "none"

\* Mutant: every directory left behind is deleted at the next start.
ScanDiscarding(s) ==
    /\ phase = "scan" /\ Unscanned(s)
    /\ mounted' = [mounted EXCEPT ![s] = FALSE]
    /\ dirs' = [dirs EXCEPT ![s] = {}]
    /\ upper' = [upper EXCEPT ![s] = {}]
    /\ stray' = [stray EXCEPT ![s] = {}]
    /\ UNCHANGED <<phase, stops, conn, root, is_mounted, rootfs, vault, work,
                   load, events, drops>>

\* Mutant: the reclaim deletes directories but leaves mounts alone.
ScanLeavingMounts(s) ==
    /\ phase = "scan" /\ Unscanned(s)
    /\ IF "upper" \in dirs[s]
       THEN job' = [job EXCEPT ![s] = "orphan"] /\ UNCHANGED <<dirs, upper, stray>>
       ELSE /\ dirs' = [dirs EXCEPT ![s] = {}]
            /\ upper' = [upper EXCEPT ![s] = {}]
            /\ stray' = [stray EXCEPT ![s] = {}]
            /\ UNCHANGED job
    /\ UNCHANGED <<phase, stops, conn, root, is_mounted, mounted, rootfs, vault,
                   todo, cur, load, events, drops>>

\* reclaim_orphaned_sessions: unmount; an upperdir makes an orphan to analyse,
\* a directory without one is deleted at once.
Scan(s) ==
    /\ phase = "scan" /\ Unscanned(s)
    /\ mounted' = [mounted EXCEPT ![s] = @ /\ "mount" \notin dirs[s]]
    /\ IF "upper" \in dirs[s]
       THEN job' = [job EXCEPT ![s] = "orphan"] /\ UNCHANGED <<dirs, upper, stray>>
       ELSE /\ dirs' = [dirs EXCEPT ![s] = {}]
            /\ upper' = [upper EXCEPT ![s] = {}]
            /\ stray' = [stray EXCEPT ![s] = {}]
            /\ UNCHANGED job
    /\ UNCHANGED <<phase, stops, conn, root, is_mounted, rootfs, vault, todo, cur,
                   load, events, drops>>

ScanDone ==
    /\ phase = "scan" /\ \A s \in Sessions : ~Unscanned(s)
    /\ phase' = "reclaim"
    /\ UNCHANGED <<stops, conn, root, is_mounted, disk, work, load, events, drops>>

\* The orphans are analysed one after the other.
TakeOrphan(s) ==
    /\ phase = "reclaim"
    /\ \A t \in Sessions : job[t] \in {"none", "orphan"}
    /\ JobGoto(s, "orphan", "list")
    /\ UNCHANGED <<conn, is_mounted, mounted, dirs, upper, stray, vault, todo, cur,
                   events>>

Serve ==
    /\ phase = "reclaim" /\ \A s \in Sessions : job[s] = "none"
    /\ phase' = "up"
    /\ UNCHANGED <<stops, conn, root, is_mounted, disk, work, load, events, drops>>

\* The collector, which runs from before the reclaim on, takes an event out of
\* the channel and writes its line.
Log ==
    /\ phase # "down"
    /\ \E f \in pipe : pipe' = pipe \ {f} /\ logged' = logged \cup {f}
    /\ UNCHANGED <<phase, stops, conn, root, is_mounted, disk, work, load, cut, drops>>

Boot == Start \/ ScanDone \/ Serve \/ \E s \in Sessions : Scan(s) \/ TakeOrphan(s)

Init ==
    /\ phase = "down" /\ stops = 0
    /\ conn = [s \in Sessions |-> "new"]
    /\ root = [s \in Sessions |-> "none"]
    /\ is_mounted = [s \in Sessions |-> FALSE]
    /\ mounted = [s \in Sessions |-> FALSE]
    /\ dirs = [s \in Sessions |-> {}]
    /\ upper = [s \in Sessions |-> {}]
    /\ stray = [s \in Sessions |-> {}]
    /\ rootfs = {}
    /\ quarantine = [f \in Files |-> "absent"]
    /\ job = [s \in Sessions |-> "none"]
    /\ todo = [s \in Sessions |-> {}]
    /\ cur = [s \in Sessions |-> {}]
    /\ fetch = [s \in Sessions |-> "none"]
    /\ fetched = [s \in Sessions |-> {}]
    /\ fetch_count = [s \in Sessions |-> 0]
    /\ waiting = [s \in Sessions |-> FALSE]
    /\ pipe = {} /\ logged = {} /\ cut = {} /\ unsaved = {}
    /\ drops = [s \in Sessions |-> {}]

Next ==
    \/ \E s \in Sessions : Spawn(s) \/ Close(s) \/ DropSession(s) \/ Fetching(s) \/ Job(s)
    \/ \E s \in Sessions, f \in Files : Write(s, f) \/ Remove(s, f) \/ BeginFetch(s, f)
    \/ Kill \/ Reboot \/ ServerError
    \/ Boot \/ Log

\* The runtime polls every spawned task, and the supervisor restarts a gateway
\* that died.
Fairness == WF_vars(Boot) /\ WF_vars(Log) /\ \A s \in Sessions : WF_vars(Job(s))

Spec == Init /\ [][Next]_vars /\ Fairness

-----------------------------------------------------------------------------
(* Properties *)

\* A payload a session left in its layer is never destroyed before it is safe:
\* it is whole in the quarantine, or still in an upperdir from which it will
\* be quarantined, whenever the process dies.
EvidenceKept ==
    \A s \in Sessions : \A f \in drops[s] :
        quarantine[f] = "whole" \/ \E t \in Sessions : f \in upper[t]

\* While the gateway serves, a session that is gone and whose teardown has
\* run has left no mount and no directory, however it and the runs before
\* this one ended.
NothingLeftBehind ==
    phase = "up" =>
        \A s \in Sessions : conn[s] = "gone" /\ job[s] = "none" =>
            ~mounted[s] /\ dirs[s] = {}

\* The reclaim at startup leaves nothing of an earlier run on disk, whatever
\* went wrong in that run: a umount that failed, a directory made again after
\* its removal, a sandbox only half set up.
StartupReclaims ==
    [][phase = "reclaim" /\ phase' = "up" =>
          \A s \in Sessions : conn[s] = "gone" => ~mounted[s] /\ dirs[s] = {}]_vars

\* The quarantine file a PayloadCaptured event names is there: whole, being
\* rewritten with the same content, or torn by a death while its file still
\* waits in an upperdir to be quarantined again. The one exception is a copy
\* that failed (fetch_payload_blocking announces it all the same, and a reclaim
\* whose analysis fails still removes the file) or that was cut off by a death in
\* mid-download, and that nothing has written since.
CapturedIsQuarantined ==
    \A f \in pipe \cup logged :
        \/ quarantine[f] = "whole" \/ Writers(f) # {} \/ f \in unsaved
        \/ \E s \in Sessions : f \in upper[s]

\* Every payload of a session that is gone is whole in the quarantine in the end
\* and announced in the log, across any number of process deaths: a death
\* between the copy and the event leaves the file for the reclaim to announce.
\* Only an event that was in the channel when the process died is never logged.
EvidenceCaptured ==
    \A s \in Sessions : \A f \in Payloads :
        conn[s] = "gone" /\ f \in drops[s]
            ~> quarantine[f] = "whole" /\ f \in logged \cup cut
=============================================================================
