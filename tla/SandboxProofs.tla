--------------------------- MODULE SandboxProofs ---------------------------
(***************************************************************************)
(* What holds of the session sandboxes for any number of sessions, files,  *)
(* downloads and process deaths: nothing of an earlier run survives the    *)
(* reclaim, and a file that was announced is in the quarantine. Without    *)
(* downloads, also: no payload is destroyed before it is safe, and nothing *)
(* is left behind while the gateway serves.                                *)
(***************************************************************************)
EXTENDS Sandbox, TLAPS

\* The provers of a leaf that names none, in turn, and the seconds each has.
USE SMTT(20), ZenonT(20), Z3T(20)

-----------------------------------------------------------------------------
(* The invariants *)

JobStates == {"none", "orphan", "umount", "clean", "list", "walk", "save", "send"}
FetchStates == {"none", "running", "saving", "saved", "writing", "done"}

TypeInv ==
    /\ phase \in {"down", "scan", "reclaim", "up"}
    /\ conn \in [Sessions -> {"new", "open", "closing", "closed", "gone"}]
    /\ root \in [Sessions -> {"none", "mount", "upper", "lower"}]
    /\ is_mounted \in [Sessions -> BOOLEAN]
    /\ mounted \in [Sessions -> BOOLEAN]
    /\ dirs \in [Sessions -> SUBSET AllDirs]
    /\ upper \in [Sessions -> SUBSET Files]
    /\ quarantine \in [Files -> {"absent", "partial", "whole"}]
    /\ job \in [Sessions -> JobStates]
    /\ todo \in [Sessions -> SUBSET Files]
    /\ cur \in [Sessions -> SUBSET Files]
    /\ fetch \in [Sessions -> FetchStates]
    /\ fetched \in [Sessions -> SUBSET Files]
    /\ fetch_count \in [Sessions -> Nat]
    /\ pipe \in SUBSET Files
    /\ logged \in SUBSET Files
    /\ unsaved \in SUBSET Files
    /\ drops \in [Sessions -> SUBSET Files]

\* What the disk of a session looks like: an overlay the program believes
\* mounted is mounted, a mount has its mount point, every directory lies in
\* the session's, the files of the upperdir lie in one, and a session that
\* has not begun has none.
LayerInv ==
    \A s \in Sessions :
        /\ is_mounted[s] => mounted[s]
        /\ mounted[s] => "mount" \in dirs[s]
        /\ dirs[s] # {} => "session" \in dirs[s]
        /\ upper[s] # {} => "upper" \in dirs[s]
        /\ conn[s] = "new" => dirs[s] = {}

\* What each phase of the process allows: memory is empty until it serves,
\* only a session that is closing or gone is torn down, and the reclaim has
\* unmounted what it works on and removed what it has finished with.
RunInv ==
    \A s \in Sessions :
        /\ phase # "up" => ~is_mounted[s] /\ fetch[s] = "none" /\ conn[s] \in {"new", "gone"}
        /\ job[s] # "none" => conn[s] \in {"closing", "gone"}
        /\ phase = "down" => job[s] = "none"
        /\ phase = "scan" => job[s] \in {"none", "orphan"}
        /\ phase \in {"scan", "reclaim"} /\ job[s] # "none" => ~mounted[s]
        /\ phase = "reclaim" /\ job[s] = "none" => dirs[s] = {}

\* The walk of an upperdir has only files of that upperdir before it, and
\* quarantines only payloads among them.
WalkInv ==
    \A s \in Sessions :
        /\ todo[s] \subseteq upper[s]
        /\ job[s] \notin {"walk", "save", "send"} => todo[s] = {}
        /\ job[s] \in {"save", "send"} => cur[s] \subseteq todo[s] \cap Payloads

\* With max_fetches_per_session at 0 no download runs, so a umount finds
\* nothing open and the overlay is gone once it was asked for.
DownloadInv ==
    MaxFetches = 0 =>
        \A s \in Sessions :
            /\ fetch[s] = "none"
            /\ job[s] \notin {"none", "umount"} => ~mounted[s]

ShapeInv == LayerInv /\ RunInv /\ WalkInv /\ DownloadInv

SandboxInv == TypeInv /\ ShapeInv

JobWrites(s, f) == job[s] = "save" /\ f \in cur[s]
FetchWrites(s, f) == fetch[s] = "saving" /\ f \in fetched[s]
Writing(f) == \E s \in Sessions : JobWrites(s, f) \/ FetchWrites(s, f)

\* The quarantine holds the file, is being given it, or has failed to take it.
Held(f) == quarantine[f] = "whole" \/ Writing(f) \/ f \in unsaved

\* A death cut its copy off, and a walk that is still to come will meet it.
Torn(f) ==
    /\ phase # "up" /\ f \in Payloads
    /\ \E s \in Sessions :
          f \in upper[s] /\ (job[s] \in {"none", "orphan", "list"} \/ f \in todo[s])

\* Whatever is announced, or about to be, is held; only after a death may an
\* announced file be torn, and only until the gateway serves again.
CaptureInv ==
    /\ \A f \in pipe \cup logged : Held(f) \/ Torn(f)
    /\ \A s \in Sessions :
          fetch[s] \in {"saved", "writing", "done"} => \A f \in fetched[s] : Held(f)
    /\ \A s \in Sessions : job[s] = "send" => \A f \in cur[s] : Held(f)

SavedByJob(f) == \E t \in Sessions : JobWrites(t, f)

\* Where the evidence is. A payload a session left is whole, or in its own
\* upperdir until it is closed, or in the upperdir of a session that can no
\* longer change it; and what a walk has behind it is whole or being written
\* by a walk that has the file too.
EvidenceInv ==
    /\ \A s \in Sessions :
          /\ drops[s] \subseteq Payloads
          /\ conn[s] = "new" \/ root[s] \in {"none", "lower"} => drops[s] = {}
    /\ \A s \in Sessions : \A f \in drops[s] :
          \/ quarantine[f] = "whole"
          \/ conn[s] # "closed" /\ f \in upper[s]
          \/ \E t \in Sessions : conn[t] \in {"closing", "gone"} /\ f \in upper[t]
    /\ \A s \in Sessions : job[s] \in {"walk", "save", "send"} =>
          \A f \in (upper[s] \cap Payloads) \ todo[s] :
              quarantine[f] = "whole" \/ SavedByJob(f)
    /\ \A s \in Sessions : job[s] = "send" =>
          \A f \in cur[s] : quarantine[f] = "whole" \/ SavedByJob(f)

\* Where directories may be while the gateway serves.
ClearInv ==
    \A s \in Sessions :
        /\ root[s] # "lower"
        /\ conn[s] # "new" /\ root[s] = "none" => dirs[s] = {}
        /\ phase = "up" /\ conn[s] \in {"closed", "gone"} /\ job[s] = "none" => dirs[s] = {}

-----------------------------------------------------------------------------
(* What a step keeps *)

\* Writers(f) lists the walks and the downloads that are writing f.
LEMMA WritersAre ==
  ASSUME NEW f
  PROVE  Writers(f) # {} <=> Writing(f)
  BY Zenon DEF Writers, Writing, JobWrites, FetchWrites

\* When the writer that finishes is not alone, there is another one.
LEMMA OtherWriter ==
  ASSUME NEW f, NEW s \in Sessions
  PROVE  /\ ~(Writers(f) \subseteq {<<s, "job">>}) =>
               \E t \in Sessions : FetchWrites(t, f) \/ (t # s /\ JobWrites(t, f))
         /\ ~(Writers(f) \subseteq {<<s, "fetch">>}) =>
               \E t \in Sessions : JobWrites(t, f) \/ (t # s /\ FetchWrites(t, f))
  BY Zenon DEF Writers, JobWrites, FetchWrites

\* With max_fetches_per_session at 0 the only step of a download is one that
\* changes nothing but waiting.
LEMMA NoFetching ==
  ASSUME MaxFetches = 0, SandboxInv, NEW s \in Sessions
  PROVE  /\ \A f \in Files : ~BeginFetch(s, f)
         /\ Fetching(s) => FetchTimeout(s)
<1>1. fetch[s] = "none" /\ fetch_count[s] \in Nat
  BY DEF SandboxInv, TypeInv, ShapeInv, DownloadInv
<1>2. \A f \in Files : ~BeginFetch(s, f)
  BY <1>1 DEF BeginFetch
<1>3. Fetching(s) => FetchTimeout(s)
  BY <1>1 DEF Fetching, FetchSave, FetchSaved, FetchSaveFails, FetchOpenCopy,
              FetchCloseCopy, FetchCopy, FetchNoCopy, FetchAnswer, FetchRefused, FetchGoto
<1> QED
  BY <1>2, <1>3

\* Every step keeps the directories, the phases and the walks as they should be.
LEMMA ShapeStep ==
  ASSUME SandboxInv
  PROVE  [Next]_vars => ShapeInv'
<1>1. UNCHANGED vars => ShapeInv'
  BY DEF vars, disk, vault, events, work, load, ShapeInv, LayerInv, RunInv,
         WalkInv, DownloadInv, AllDirs, SandboxInv
<1>a. /\ conn \in [Sessions -> {"new", "open", "closing", "closed", "gone"}]
      /\ root \in [Sessions -> {"none", "mount", "upper", "lower"}]
      /\ is_mounted \in [Sessions -> BOOLEAN]
      /\ mounted \in [Sessions -> BOOLEAN]
      /\ dirs \in [Sessions -> SUBSET AllDirs]
      /\ upper \in [Sessions -> SUBSET Files]
      /\ job \in [Sessions -> JobStates]
      /\ todo \in [Sessions -> SUBSET Files]
      /\ cur \in [Sessions -> SUBSET Files]
      /\ fetch \in [Sessions -> FetchStates]
      /\ fetch_count \in [Sessions -> Nat]
  BY DEF SandboxInv, TypeInv
<1>b. ShapeInv
  BY DEF SandboxInv
<1> USE <1>a, <1>b
<1>2. \A s \in Sessions : Spawn(s) => ShapeInv'
  BY DEF Spawn, SpawnOutcomes, disk, vault, events, work, load, ShapeInv, LayerInv,
         RunInv, WalkInv, DownloadInv, AllDirs
<1>3. \A s \in Sessions : Close(s) \/ DropSession(s) => ShapeInv'
  BY DEF Close, DropSession, disk, vault, events, work, load, ShapeInv, LayerInv,
         RunInv, WalkInv, DownloadInv, AllDirs
<1>4. \A s \in Sessions, f \in Files : Write(s, f) => ShapeInv'
  BY DEF Write, OwnsLayer, LandsInUpper, InMount, Reading, disk, vault, events,
         work, load, ShapeInv, LayerInv, RunInv, WalkInv, DownloadInv, AllDirs
<1>5. \A s \in Sessions, f \in Files : Remove(s, f) \/ BeginFetch(s, f) => ShapeInv'
  BY DEF Remove, Reading, BeginFetch, disk, vault, events, work, load, ShapeInv,
         LayerInv, RunInv, WalkInv, DownloadInv, AllDirs
<1>6. \A s \in Sessions :
         FetchSave(s) \/ FetchSaved(s) \/ FetchSaveFails(s) => ShapeInv'
  BY DEF FetchSave, FetchGoto, Mark, FetchSaved, Filled, FetchSaveFails, disk,
         vault, events, work, load, ShapeInv, LayerInv, RunInv, WalkInv,
         DownloadInv, AllDirs
<1>7. \A s \in Sessions : FetchOpenCopy(s) \/ FetchNoCopy(s) => ShapeInv'
  BY DEF FetchOpenCopy, FetchGoto, FetchNoCopy, disk, vault, events, work, load,
         ShapeInv, LayerInv, RunInv, WalkInv, DownloadInv, AllDirs
<1>8. \A s \in Sessions : FetchCloseCopy(s) => ShapeInv'
  BY DEF FetchCloseCopy, FetchGoto, LandCopy, disk, vault, events, work, load,
         ShapeInv, LayerInv, RunInv, WalkInv, DownloadInv, AllDirs
<1>9. \A s \in Sessions : FetchCopy(s) => ShapeInv'
  BY DEF FetchCopy, FetchGoto, LandCopy, disk, vault, events, work, load, ShapeInv,
         LayerInv, RunInv, WalkInv, DownloadInv, AllDirs
<1>10. \A s \in Sessions :
         FetchAnswer(s) \/ FetchRefused(s) \/ FetchTimeout(s) => ShapeInv'
  BY DEF FetchAnswer, FetchRefused, FetchTimeout, disk, vault, events, work, load,
         ShapeInv, LayerInv, RunInv, WalkInv, DownloadInv, AllDirs
<1>11. ASSUME NEW s \in Sessions, Umount(s)
       PROVE  ShapeInv'
  <2>1. LayerInv' /\ WalkInv'
    BY <1>11 DEF Umount, JobGoto, disk, events, work, load, ShapeInv, LayerInv,
                  WalkInv, AllDirs
  <2>2. RunInv'
    BY <1>11 DEF Umount, JobGoto, disk, events, work, load, ShapeInv, LayerInv,
                  RunInv, AllDirs
  <2>3. DownloadInv'
    BY <1>11, Zenon
       DEF Umount, JobGoto, disk, events, work, load, ShapeInv, RunInv, DownloadInv
  <2> QED
    BY <2>1, <2>2, <2>3 DEF ShapeInv
<1>12. \A s \in Sessions : Clean(s) => ShapeInv'
  BY DEF Clean, JobGoto, disk, vault, events, work, load, ShapeInv, LayerInv,
         RunInv, WalkInv, DownloadInv, AllDirs
<1>13. \A s \in Sessions : ListUpper(s) => ShapeInv'
  BY DEF ListUpper, JobGoto, disk, vault, events, work, load, ShapeInv, LayerInv,
         RunInv, WalkInv, DownloadInv, AllDirs
<1>14. \A s \in Sessions, f \in Files :
         SkipFile(s, f) \/ Quarantine(s, f) => ShapeInv'
  BY DEF SkipFile, JobGoto, Quarantine, Mark, disk, vault, events, work, load,
         ShapeInv, LayerInv, RunInv, WalkInv, DownloadInv, AllDirs
<1>15. \A s \in Sessions : Quarantined(s) => ShapeInv'
  BY DEF Quarantined, JobGoto, Filled, Mark, disk, vault, events, work, load,
         ShapeInv, LayerInv, RunInv, WalkInv, DownloadInv, AllDirs
<1>16. \A s \in Sessions : QuarantineFails(s) \/ SendCaptured(s) => ShapeInv'
  BY DEF QuarantineFails, JobGoto, Visited, SendCaptured, disk, vault, events, work,
         load, ShapeInv, LayerInv, RunInv, WalkInv, DownloadInv, AllDirs
<1>17. \A s \in Sessions : RemoveDir(s) => ShapeInv'
  BY DEF RemoveDir, JobGoto, disk, vault, events, work, load, ShapeInv, LayerInv,
         RunInv, WalkInv, DownloadInv, AllDirs
<1>18. \A m \in [Sessions -> BOOLEAN] :
         (\A s \in Sessions : m[s] => mounted[s]) /\ Halt(m) => ShapeInv'
  BY DEF Halt, disk, vault, events, work, load, ShapeInv, LayerInv, RunInv, WalkInv,
         DownloadInv, AllDirs
<1>19. Kill \/ Reboot \/ ServerError => ShapeInv'
  BY <1>18, Zenon DEF Kill, Reboot, ServerError
<1>20. \A s \in Sessions : Scan(s) => ShapeInv'
  BY DEF Scan, Unscanned, disk, vault, events, work, load, ShapeInv, LayerInv,
         RunInv, WalkInv, DownloadInv, AllDirs
<1>21. \A s \in Sessions : TakeOrphan(s) => ShapeInv'
  BY DEF TakeOrphan, JobGoto, disk, vault, events, work, load, ShapeInv, LayerInv,
         RunInv, WalkInv, DownloadInv, AllDirs
<1>22. Start \/ ScanDone \/ Serve \/ Log => ShapeInv'
  BY DEF Start, ScanDone, Unscanned, Serve, Log, disk, vault, events, work, load,
         ShapeInv, LayerInv, RunInv, WalkInv, DownloadInv, AllDirs
<1>23. \A s \in Sessions : Fetching(s) => ShapeInv'
  BY <1>6, <1>7, <1>8, <1>9, <1>10, Zenon DEF Fetching
<1>24. \A s \in Sessions : Job(s) => ShapeInv'
  BY <1>11, <1>12, <1>13, <1>14, <1>15, <1>16, <1>17, Zenon DEF Job
<1>25. Boot => ShapeInv'
  BY <1>22, <1>20, <1>21, Zenon DEF Boot
<1> QED
  BY <1>2, <1>3, <1>4, <1>5, <1>22, <1>23, <1>24, <1>25, <1>19, <1>1, Zenon DEF Next

\* Every step keeps the evidence where EvidenceInv says, if no analysis fails.
LEMMA EvidenceStep ==
  ASSUME MaxFetches = 0, "analysis" \notin Faults,
         SandboxInv, EvidenceInv
  PROVE  [Next]_vars => EvidenceInv'
<1>1. UNCHANGED vars => EvidenceInv'
  BY DEF vars, disk, vault, events, work, load, EvidenceInv, SavedByJob,
         JobWrites
<1>a. /\ conn \in [Sessions -> {"new", "open", "closing", "closed", "gone"}]
      /\ root \in [Sessions -> {"none", "mount", "upper", "lower"}]
      /\ upper \in [Sessions -> SUBSET Files]
      /\ quarantine \in [Files -> {"absent", "partial", "whole"}]
      /\ job \in [Sessions -> JobStates]
      /\ todo \in [Sessions -> SUBSET Files]
      /\ cur \in [Sessions -> SUBSET Files]
      /\ drops \in [Sessions -> SUBSET Files]
      /\ mounted \in [Sessions -> BOOLEAN]
      /\ dirs \in [Sessions -> SUBSET AllDirs]
  BY DEF SandboxInv, TypeInv
<1>b. \A s \in Sessions :
        /\ upper[s] # {} => "upper" \in dirs[s]
        /\ conn[s] = "new" => dirs[s] = {}
        /\ phase # "up" => conn[s] \in {"new", "gone"}
        /\ job[s] # "none" => conn[s] \in {"closing", "gone"}
        /\ phase = "scan" => job[s] \in {"none", "orphan"}
        /\ todo[s] \subseteq upper[s]
        /\ job[s] \notin {"walk", "save", "send"} => todo[s] = {}
        /\ job[s] \in {"save", "send"} => cur[s] \subseteq todo[s] \cap Payloads
        /\ fetch[s] = "none"
        /\ job[s] \notin {"none", "umount"} => ~mounted[s]
  BY DEF SandboxInv, ShapeInv, LayerInv, RunInv, WalkInv, DownloadInv
<1> USE <1>a, <1>b
<1>2. \A s \in Sessions : Spawn(s) => EvidenceInv'
  BY DEF Spawn, SpawnOutcomes, disk, vault, events, work, load, EvidenceInv,
         SavedByJob, JobWrites
<1>3. \A s \in Sessions : Close(s) => EvidenceInv'
  BY DEF Close, OwnsLayer, disk, vault, events, work, load, EvidenceInv, SavedByJob,
         JobWrites
<1>4. \A s \in Sessions : DropSession(s) => EvidenceInv'
  BY DEF DropSession, disk, vault, events, work, load, EvidenceInv, SavedByJob,
         JobWrites
<1>5. \A s \in Sessions, f \in Files : Write(s, f) => EvidenceInv'
  BY DEF Write, OwnsLayer, LandsInUpper, InMount, Reading, disk, vault, events,
         work, load, EvidenceInv, SavedByJob, JobWrites
<1>6. \A s \in Sessions, f \in Files : Remove(s, f) => EvidenceInv'
  BY DEF Remove, Reading, disk, vault, events, work, load, EvidenceInv, SavedByJob,
         JobWrites
<1>7. \A s \in Sessions : FetchTimeout(s) => EvidenceInv'
  BY DEF FetchTimeout, disk, vault, events, work, load, EvidenceInv, SavedByJob,
         JobWrites
<1>8. \A s \in Sessions : Umount(s) => EvidenceInv'
  BY DEF Umount, JobGoto, disk, vault, events, work, load, EvidenceInv, SavedByJob,
         JobWrites
<1>9. \A s \in Sessions : Clean(s) => EvidenceInv'
  BY DEF Clean, JobGoto, disk, vault, events, work, load, EvidenceInv, SavedByJob,
         JobWrites
<1>10. \A s \in Sessions : ListUpper(s) => EvidenceInv'
  BY DEF ListUpper, JobGoto, disk, vault, events, work, load, EvidenceInv,
         SavedByJob, JobWrites
<1>11. \A s \in Sessions, f \in Files : SkipFile(s, f) => EvidenceInv'
  BY DEF SkipFile, JobGoto, disk, vault, events, work, load, EvidenceInv,
         SavedByJob, JobWrites
<1>12. \A s \in Sessions, f \in Files : Quarantine(s, f) => EvidenceInv'
  BY DEF Quarantine, JobGoto, Mark, disk, vault, events, work, load, EvidenceInv,
         SavedByJob, JobWrites
<1>13. ASSUME NEW s \in Sessions, Quarantined(s)
       PROVE  EvidenceInv'
  <2>1. /\ UNCHANGED <<conn, root, upper, drops, todo, cur, fetch>>
        /\ \A t \in Sessions : job'[t] = IF t = s THEN "send" ELSE job[t]
        /\ job[s] = "save"
        /\ \A f \in Files \ cur[s] : quarantine'[f] = quarantine[f]
    BY <1>13 DEF Quarantined, JobGoto, Filled, Mark, load
  <2>2. ASSUME NEW f \in cur[s]
        PROVE  quarantine'[f] = "whole" \/ SavedByJob(f)'
    BY <1>13, OtherWriter
       DEF Quarantined, JobGoto, Filled, Mark, SavedByJob, JobWrites, FetchWrites, load
  <2>3. ASSUME NEW f \in Files, quarantine[f] = "whole"
        PROVE  quarantine'[f] = "whole" \/ f \in cur[s]
    BY <2>1, <2>3
  <2>4. ASSUME NEW f \in Files, quarantine[f] = "whole" \/ SavedByJob(f)
        PROVE  quarantine'[f] = "whole" \/ SavedByJob(f)'
    BY <2>1, <2>2, <2>4 DEF SavedByJob, JobWrites
  <2> QED
    BY <2>1, <2>2, <2>3, <2>4 DEF EvidenceInv
<1>14. \A s \in Sessions : QuarantineFails(s) => EvidenceInv'
  BY DEF QuarantineFails, JobGoto, Visited, disk, vault, events, work, load,
         EvidenceInv, SavedByJob, JobWrites
<1>15. \A s \in Sessions : SendCaptured(s) => EvidenceInv'
  BY DEF SendCaptured, JobGoto, Visited, disk, vault, events, work, load,
         EvidenceInv, SavedByJob, JobWrites
<1>16. \A s \in Sessions : RemoveDir(s) => EvidenceInv'
  BY DEF RemoveDir, JobGoto, disk, vault, events, work, load, EvidenceInv,
         SavedByJob, JobWrites
<1>17. \A m \in [Sessions -> BOOLEAN] :
         (\A s \in Sessions : m[s] => mounted[s]) /\ Halt(m) => EvidenceInv'
  BY DEF Halt, disk, vault, events, work, load, EvidenceInv, SavedByJob, JobWrites
<1>18. Kill \/ Reboot \/ ServerError => EvidenceInv'
  BY <1>17, Zenon DEF Kill, Reboot, ServerError
<1>19. \A s \in Sessions : Scan(s) => EvidenceInv'
  BY DEF Scan, disk, vault, events, work, load, EvidenceInv, SavedByJob, JobWrites
<1>20. \A s \in Sessions : TakeOrphan(s) => EvidenceInv'
  BY DEF TakeOrphan, JobGoto, disk, vault, events, work, load, EvidenceInv,
         SavedByJob, JobWrites
<1>21. Start \/ ScanDone \/ Serve \/ Log => EvidenceInv'
  BY DEF Start, ScanDone, Serve, Log, disk, vault, events, work, load, EvidenceInv,
         SavedByJob, JobWrites
<1>22. \A s \in Sessions : Fetching(s) => EvidenceInv'
  BY <1>7, NoFetching, Zenon
<1>23. \A s \in Sessions : Job(s) => EvidenceInv'
  BY <1>8, <1>9, <1>10, <1>11, <1>12, <1>13, <1>14, <1>15, <1>16, Zenon DEF Job
<1>24. Boot => EvidenceInv'
  BY <1>21, <1>19, <1>20, Zenon DEF Boot
<1> QED
  BY <1>2, <1>3, <1>4, <1>5, <1>6, <1>21, <1>22, NoFetching, <1>23, <1>24, <1>18,
     <1>1, Zenon DEF Next

\* Every step keeps announced files held, or torn until they are walked again.
LEMMA CaptureStep ==
  ASSUME SandboxInv, CaptureInv
  PROVE  [Next]_vars => CaptureInv'
<1>1. UNCHANGED vars => CaptureInv'
  BY ZenonT(20) DEF vars, disk, vault, events, work, load, CaptureInv, Held, Torn,
         Writing, JobWrites, FetchWrites
<1>a. /\ mounted \in [Sessions -> BOOLEAN]
      /\ dirs \in [Sessions -> SUBSET AllDirs]
      /\ upper \in [Sessions -> SUBSET Files]
      /\ quarantine \in [Files -> {"absent", "partial", "whole"}]
      /\ job \in [Sessions -> JobStates]
      /\ todo \in [Sessions -> SUBSET Files]
      /\ cur \in [Sessions -> SUBSET Files]
      /\ fetch \in [Sessions -> FetchStates]
      /\ fetched \in [Sessions -> SUBSET Files]
      /\ pipe \in SUBSET Files
      /\ logged \in SUBSET Files
      /\ unsaved \in SUBSET Files
  BY DEF SandboxInv, TypeInv
<1>b. \A s \in Sessions :
        /\ upper[s] # {} => "upper" \in dirs[s]
        /\ phase # "up" => fetch[s] = "none" /\ conn[s] \in {"new", "gone"}
        /\ job[s] # "none" => conn[s] \in {"closing", "gone"}
        /\ phase = "down" => job[s] = "none"
        /\ phase = "scan" => job[s] \in {"none", "orphan"}
        /\ phase \in {"scan", "reclaim"} /\ job[s] # "none" => ~mounted[s]
        /\ phase = "reclaim" /\ job[s] = "none" => dirs[s] = {}
        /\ todo[s] \subseteq upper[s]
        /\ job[s] \notin {"walk", "save", "send"} => todo[s] = {}
        /\ job[s] \in {"save", "send"} => cur[s] \subseteq todo[s] \cap Payloads
  BY DEF SandboxInv, ShapeInv, LayerInv, RunInv, WalkInv
<1> USE <1>a, <1>b
<1>2. \A s \in Sessions : Spawn(s) => CaptureInv'
  BY DEF Spawn, SpawnOutcomes, disk, vault, events, work, load, CaptureInv, Held,
         Torn, Writing, JobWrites, FetchWrites
<1>3. \A s \in Sessions : Close(s) \/ DropSession(s) => CaptureInv'
  BY DEF Close, DropSession, disk, vault, events, work, load, CaptureInv, Held,
         Torn, Writing, JobWrites, FetchWrites
<1>4. \A s \in Sessions, f \in Files : Write(s, f) => CaptureInv'
  BY DEF Write, OwnsLayer, disk, vault, events, work, load, CaptureInv, Held, Torn,
         Writing, JobWrites, FetchWrites
<1>5. \A s \in Sessions, f \in Files : Remove(s, f) => CaptureInv'
  BY DEF Remove, Reading, disk, vault, events, work, load, CaptureInv, Held, Torn,
         Writing, JobWrites, FetchWrites
<1>6. \A s \in Sessions, f \in Files : BeginFetch(s, f) => CaptureInv'
  BY DEF BeginFetch, disk, vault, events, work, load, CaptureInv, Held, Torn,
         Writing, JobWrites, FetchWrites
<1>7. \A s \in Sessions : FetchSave(s) => CaptureInv'
  BY DEF FetchSave, FetchGoto, Mark, disk, vault, events, work, load, CaptureInv,
         Held, Torn, Writing, JobWrites, FetchWrites
<1>8. \A s \in Sessions : FetchSaved(s) => CaptureInv'
  BY OtherWriter DEF FetchSaved, FetchGoto, Filled, Mark, disk, vault, events, work,
         load, CaptureInv, Held, Torn, Writing, JobWrites, FetchWrites
<1>9. \A s \in Sessions : FetchSaveFails(s) => CaptureInv'
  BY DEF FetchSaveFails, FetchGoto, disk, vault, events, work, load, CaptureInv,
         Held, Torn, Writing, JobWrites, FetchWrites
<1>10. \A s \in Sessions : FetchOpenCopy(s) \/ FetchNoCopy(s) => CaptureInv'
  BY DEF FetchOpenCopy, FetchGoto, FetchNoCopy, disk, vault, events, work, load,
         CaptureInv, Held, Torn, Writing, JobWrites, FetchWrites
<1>11. \A s \in Sessions : FetchCloseCopy(s) => CaptureInv'
  BY DEF FetchCloseCopy, FetchGoto, LandCopy, disk, vault, events, work, load,
         CaptureInv, Held, Torn, Writing, JobWrites, FetchWrites
<1>12. \A s \in Sessions : FetchCopy(s) => CaptureInv'
  BY DEF FetchCopy, FetchGoto, LandCopy, disk, vault, events, work, load,
         CaptureInv, Held, Torn, Writing, JobWrites, FetchWrites
<1>13. \A s \in Sessions :
         FetchAnswer(s) \/ FetchRefused(s) \/ FetchTimeout(s) => CaptureInv'
  BY DEF FetchAnswer, FetchRefused, FetchTimeout, disk, vault, events, work, load,
         CaptureInv, Held, Torn, Writing, JobWrites, FetchWrites
<1>14. \A s \in Sessions : Umount(s) \/ Clean(s) => CaptureInv'
  BY DEF Umount, JobGoto, Clean, disk, vault, events, work, load, CaptureInv, Held,
         Torn, Writing, JobWrites, FetchWrites
<1>15. \A s \in Sessions : ListUpper(s) => CaptureInv'
  BY DEF ListUpper, JobGoto, disk, vault, events, work, load, CaptureInv, Held,
         Torn, Writing, JobWrites, FetchWrites
<1>16. \A s \in Sessions, f \in Files : SkipFile(s, f) => CaptureInv'
  BY DEF SkipFile, JobGoto, disk, vault, events, work, load, CaptureInv, Held, Torn,
         Writing, JobWrites, FetchWrites
<1>17. \A s \in Sessions, f \in Files : Quarantine(s, f) => CaptureInv'
  BY DEF Quarantine, JobGoto, Mark, disk, vault, events, work, load, CaptureInv,
         Held, Torn, Writing, JobWrites, FetchWrites
<1>18. ASSUME NEW s \in Sessions, Quarantined(s)
       PROVE  CaptureInv'
  <2>1. ASSUME NEW f \in Files, Held(f)
        PROVE  Held(f)'
    BY <1>18, <2>1, OtherWriter
       DEF Quarantined, JobGoto, Filled, Mark, Held, Writing, JobWrites, FetchWrites, load
  <2>2. ASSUME NEW f \in cur[s]
        PROVE  Held(f)'
    BY <1>18, OtherWriter
       DEF Quarantined, JobGoto, Filled, Mark, Held, Writing, JobWrites, FetchWrites, load
  <2>3. ASSUME NEW f \in Files, Torn(f)
        PROVE  Torn(f)'
    BY <1>18, <2>3 DEF Quarantined, JobGoto, Torn
  <2>4. /\ pipe' \cup logged' = pipe \cup logged
        /\ fetch' = fetch /\ fetched' = fetched /\ cur' = cur
        /\ \A t \in Sessions : job'[t] = "send" => t = s \/ job[t] = "send"
    BY <1>18 DEF Quarantined, JobGoto, load, events
  <2> QED
    BY <2>1, <2>2, <2>3, <2>4 DEF CaptureInv
<1>19. \A s \in Sessions : QuarantineFails(s) => CaptureInv'
  BY DEF QuarantineFails, JobGoto, Visited, disk, vault, events, work, load,
         CaptureInv, Held, Torn, Writing, JobWrites, FetchWrites
<1>20. \A s \in Sessions : SendCaptured(s) => CaptureInv'
  BY DEF SendCaptured, JobGoto, Visited, disk, vault, events, work, load,
         CaptureInv, Held, Torn, Writing, JobWrites, FetchWrites
<1>21. \A s \in Sessions : RemoveDir(s) => CaptureInv'
  BY DEF RemoveDir, JobGoto, disk, vault, events, work, load, CaptureInv, Held,
         Torn, Writing, JobWrites, FetchWrites
<1>22. \A m \in [Sessions -> BOOLEAN] :
         (\A s \in Sessions : m[s] => mounted[s]) /\ Halt(m) => CaptureInv'
  BY DEF Halt, disk, vault, events, work, load, CaptureInv, Held, Torn, Writing,
         JobWrites, FetchWrites
<1>23. Kill \/ Reboot \/ ServerError => CaptureInv'
  BY <1>22, Zenon DEF Kill, Reboot, ServerError
<1>24. \A s \in Sessions : Scan(s) => CaptureInv'
  BY DEF Scan, disk, vault, events, work, load, CaptureInv, Held, Torn, Writing,
         JobWrites, FetchWrites
<1>25. \A s \in Sessions : TakeOrphan(s) => CaptureInv'
  BY DEF TakeOrphan, JobGoto, disk, vault, events, work, load, CaptureInv, Held,
         Torn, Writing, JobWrites, FetchWrites
<1>26. Start \/ ScanDone \/ Serve \/ Log => CaptureInv'
  BY DEF Start, ScanDone, Serve, Log, disk, vault, events, work, load, CaptureInv,
         Held, Torn, Writing, JobWrites, FetchWrites
<1>27. \A s \in Sessions : Fetching(s) => CaptureInv'
  BY <1>7, <1>8, <1>9, <1>10, <1>11, <1>12, <1>13, Zenon DEF Fetching
<1>28. \A s \in Sessions : Job(s) => CaptureInv'
  BY <1>14, <1>15, <1>16, <1>17, <1>18, <1>19, <1>20, <1>21, Zenon DEF Job
<1>29. Boot => CaptureInv'
  BY <1>26, <1>24, <1>25, Zenon DEF Boot
<1> QED
  BY <1>2, <1>3, <1>4, <1>5, <1>6, <1>26, <1>27, <1>28, <1>29, <1>23, <1>1, Zenon
     DEF Next

\* Every step of the gateway keeps its variables in their types.
LEMMA TypeStep ==
  ASSUME TypeInv
  PROVE  [Next]_vars => TypeInv'
<1>1. UNCHANGED vars => TypeInv'
  BY DEF vars, disk, vault, events, work, load, TypeInv, JobStates,
         FetchStates, AllDirs
<1>2. \A s \in Sessions : Spawn(s) => TypeInv'
  BY DEF Spawn, SpawnOutcomes, disk, vault, events, work, load, TypeInv, JobStates,
         FetchStates, AllDirs
<1>3. \A s \in Sessions : Close(s) \/ DropSession(s) => TypeInv'
  BY DEF Close, DropSession, disk, vault, events, work, load, TypeInv, JobStates,
         FetchStates, AllDirs
<1>4. \A s \in Sessions, f \in Files : Write(s, f) => TypeInv'
  BY DEF Write, OwnsLayer, disk, vault, events, work, load, TypeInv, JobStates,
         FetchStates, AllDirs
<1>5. \A s \in Sessions, f \in Files : Remove(s, f) \/ BeginFetch(s, f) => TypeInv'
  BY DEF Remove, BeginFetch, disk, vault, events, work, load, TypeInv, JobStates,
         FetchStates, AllDirs
<1>6. \A s \in Sessions : FetchSave(s) \/ FetchSaveFails(s) => TypeInv'
  BY DEF FetchSave, FetchGoto, Mark, FetchSaveFails, disk, vault, events, work,
         load, TypeInv, JobStates, FetchStates, AllDirs
<1>7. \A s \in Sessions : FetchSaved(s) => TypeInv'
  BY DEF FetchSaved, FetchGoto, Filled, Mark, disk, vault, events, work, load,
         TypeInv, JobStates, FetchStates, AllDirs
<1>8. \A s \in Sessions :
         FetchOpenCopy(s) \/ FetchCloseCopy(s) \/ FetchCopy(s) \/ FetchNoCopy(s) => TypeInv'
  BY DEF FetchOpenCopy, FetchGoto, FetchCloseCopy, LandCopy, FetchCopy, FetchNoCopy,
         disk, vault, events, work, load, TypeInv, JobStates, FetchStates, AllDirs
<1>9. \A s \in Sessions : FetchAnswer(s) \/ FetchRefused(s) => TypeInv'
  BY DEF FetchAnswer, FetchRefused, disk, vault, events, work, load, TypeInv,
         JobStates, FetchStates, AllDirs
<1>10. \A s \in Sessions : FetchTimeout(s) => TypeInv'
  BY DEF FetchTimeout, disk, vault, events, work, load, TypeInv, JobStates,
         FetchStates, AllDirs
<1>11. \A s \in Sessions : Umount(s) => TypeInv'
  BY DEF Umount, JobGoto, disk, vault, events, work, load, TypeInv, JobStates,
         FetchStates, AllDirs
<1>12. \A s \in Sessions : Clean(s) => TypeInv'
  BY DEF Clean, JobGoto, disk, vault, events, work, load, TypeInv, JobStates,
         FetchStates, AllDirs
<1>13. \A s \in Sessions : RemoveDir(s) => TypeInv'
  BY DEF RemoveDir, JobGoto, disk, vault, events, work, load, TypeInv, JobStates,
         FetchStates, AllDirs
<1>14. \A s \in Sessions : ListUpper(s) \/ Quarantined(s) => TypeInv'
  BY DEF ListUpper, JobGoto, Quarantined, Filled, Mark, disk, vault, events, work,
         load, TypeInv, JobStates, FetchStates, AllDirs
<1>15. \A s \in Sessions, f \in Files : SkipFile(s, f) => TypeInv'
  BY DEF SkipFile, JobGoto, disk, vault, events, work, load, TypeInv, JobStates,
         FetchStates, AllDirs
<1>16. \A s \in Sessions, f \in Files : Quarantine(s, f) => TypeInv'
  BY DEF Quarantine, JobGoto, Mark, disk, vault, events, work, load, TypeInv,
         JobStates, FetchStates, AllDirs
<1>17. \A s \in Sessions : QuarantineFails(s) \/ SendCaptured(s) => TypeInv'
  BY DEF QuarantineFails, JobGoto, Visited, SendCaptured, disk, vault, events, work,
         load, TypeInv, JobStates, FetchStates, AllDirs
<1>18. \A m \in [Sessions -> BOOLEAN] :
         (\A s \in Sessions : m[s] => mounted[s]) /\ Halt(m) => TypeInv'
  BY DEF Halt, disk, vault, events, work, load, TypeInv, JobStates, FetchStates,
         AllDirs
<1>19. Kill \/ Reboot \/ ServerError => TypeInv'
  BY <1>18, Zenon DEF Kill, Reboot, ServerError, TypeInv
<1>20. \A s \in Sessions : Scan(s) => TypeInv'
  BY DEF Scan, disk, vault, events, work, load, TypeInv, JobStates, FetchStates,
         AllDirs
<1>21. \A s \in Sessions : TakeOrphan(s) => TypeInv'
  BY DEF TakeOrphan, JobGoto, disk, vault, events, work, load, TypeInv, JobStates,
         FetchStates, AllDirs
<1>22. Start \/ ScanDone \/ Serve \/ Log => TypeInv'
  BY DEF Start, ScanDone, Serve, Log, disk, vault, events, work, load, TypeInv,
         JobStates, FetchStates, AllDirs
<1>23. \A s \in Sessions : Fetching(s) => TypeInv'
  BY <1>6, <1>7, <1>8, <1>9, <1>10, Zenon DEF Fetching
<1>24. \A s \in Sessions : Job(s) => TypeInv'
  BY <1>11, <1>12, <1>14, <1>15, <1>16, <1>17, <1>13, Zenon DEF Job
<1>25. Boot => TypeInv'
  BY <1>22, <1>20, <1>21, Zenon DEF Boot
<1> QED
  BY <1>2, <1>3, <1>4, <1>5, <1>22, <1>23, <1>24, <1>25, <1>19, <1>1, Zenon DEF Next

\* Every step keeps the directories of finished sessions away.
LEMMA ClearStep ==
  ASSUME MaxFetches = 0, "dirs" \notin Faults, "late" \notin Faults,
         SandboxInv, ClearInv
  PROVE  [Next]_vars => ClearInv'
<1>1. UNCHANGED vars => ClearInv'
  BY ZenonT(20) DEF vars, disk, vault, events, work, load, ClearInv
<1>a. /\ conn \in [Sessions -> {"new", "open", "closing", "closed", "gone"}]
      /\ root \in [Sessions -> {"none", "mount", "upper", "lower"}]
      /\ dirs \in [Sessions -> SUBSET AllDirs]
      /\ mounted \in [Sessions -> BOOLEAN]
      /\ job \in [Sessions -> JobStates]
  BY DEF SandboxInv, TypeInv
<1>b. \A s \in Sessions :
        /\ phase # "up" => conn[s] \in {"new", "gone"}
        /\ job[s] # "none" => conn[s] \in {"closing", "gone"}
        /\ phase = "reclaim" /\ job[s] = "none" => dirs[s] = {}
        /\ job[s] \notin {"none", "umount"} => ~mounted[s]
  BY DEF SandboxInv, ShapeInv, RunInv, DownloadInv
<1> USE <1>a, <1>b
<1>2. \A s \in Sessions : Spawn(s) => ClearInv'
  BY DEF Spawn, SpawnOutcomes, disk, vault, events, work, load, ClearInv
<1>3. \A s \in Sessions : Close(s) \/ DropSession(s) => ClearInv'
  BY DEF Close, OwnsLayer, DropSession, disk, vault, events, work, load, ClearInv
<1>4. \A s \in Sessions, f \in Files : Write(s, f) \/ Remove(s, f) => ClearInv'
  BY DEF Write, OwnsLayer, Reading, Remove, disk, vault, events, work, load,
         ClearInv
<1>5. \A s \in Sessions : FetchTimeout(s) => ClearInv'
  BY DEF FetchTimeout, disk, vault, events, work, load, ClearInv
<1>6. \A s \in Sessions : Umount(s) => ClearInv'
  BY DEF Umount, JobGoto, disk, vault, events, work, load, ClearInv
<1>7. \A s \in Sessions : Clean(s) => ClearInv'
  BY DEF Clean, JobGoto, disk, vault, events, work, load, ClearInv
<1>8. \A s \in Sessions : RemoveDir(s) => ClearInv'
  BY DEF RemoveDir, JobGoto, disk, vault, events, work, load, ClearInv
<1>9. \A s \in Sessions : ListUpper(s) \/ Quarantined(s) => ClearInv'
  BY DEF ListUpper, JobGoto, Quarantined, Filled, Mark, disk, vault, events, work,
         load, ClearInv
<1>10. \A s \in Sessions, f \in Files :
         SkipFile(s, f) \/ Quarantine(s, f) => ClearInv'
  BY DEF SkipFile, JobGoto, Quarantine, Mark, disk, vault, events, work, load,
         ClearInv
<1>11. \A s \in Sessions : QuarantineFails(s) \/ SendCaptured(s) => ClearInv'
  BY DEF QuarantineFails, JobGoto, Visited, SendCaptured, disk, vault, events, work,
         load, ClearInv
<1>12. \A m \in [Sessions -> BOOLEAN] :
         (\A s \in Sessions : m[s] => mounted[s]) /\ Halt(m) => ClearInv'
  BY Zenon DEF Halt, disk, vault, events, work, load, ClearInv
<1>13. Kill \/ Reboot \/ ServerError => ClearInv'
  BY <1>12, Zenon DEF Kill, Reboot, ServerError
<1>14. \A s \in Sessions : Scan(s) => ClearInv'
  BY DEF Scan, disk, vault, events, work, load, ClearInv
<1>15. \A s \in Sessions : TakeOrphan(s) => ClearInv'
  BY DEF TakeOrphan, JobGoto, disk, vault, events, work, load, ClearInv
<1>16. Start \/ ScanDone \/ Serve \/ Log => ClearInv'
  BY DEF Start, ScanDone, Serve, Log, disk, vault, events, work, load, ClearInv
<1>17. \A s \in Sessions : Fetching(s) => ClearInv'
  BY <1>5, NoFetching, Zenon
<1>18. \A s \in Sessions : Job(s) => ClearInv'
  BY <1>6, <1>7, <1>9, <1>10, <1>11, <1>8, Zenon DEF Job
<1>19. Boot => ClearInv'
  BY <1>16, <1>14, <1>15, Zenon DEF Boot
<1> QED
  BY <1>2, <1>3, <1>4, <1>16, <1>17, NoFetching, <1>18, <1>19, <1>13, <1>1, Zenon
     DEF Next

-----------------------------------------------------------------------------
(* What holds in every reachable state *)

\* The initial states satisfy the invariant.
LEMMA SandboxInit == Init => SandboxInv
  BY DEF Init, SandboxInv, TypeInv, ShapeInv, LayerInv, RunInv, WalkInv,
         DownloadInv, JobStates, FetchStates

\* The layers, the phases and the walk are as SandboxInv says in every
\* reachable state, whatever fails and however often the process dies.
THEOREM SandboxKept == Spec => []SandboxInv
<1>1. SandboxInv /\ [Next]_vars => SandboxInv'
  BY TypeStep, ShapeStep, Zenon DEF SandboxInv
<1> QED
  BY <1>1, SandboxInit, PTL DEF Spec

\* The gateway serves only once the reclaim has left nothing of an earlier run
\* on disk: when Serve takes the process from reclaim_orphaned_sessions to its
\* listener, every session that is gone has neither a mount nor a directory.
THEOREM ReclaimComplete == Spec => StartupReclaims
<1> DEFINE Reclaimed ==
        phase = "reclaim" /\ phase' = "up" =>
            \A s \in Sessions : conn[s] = "gone" => ~mounted[s] /\ dirs[s] = {}
<1>1. ASSUME SandboxInv, Next, phase = "reclaim", phase' = "up"
      PROVE  Serve
  <2>1. ASSUME NEW s \in Sessions, Spawn(s) \/ Close(s) \/ DropSession(s) \/ Fetching(s)
        PROVE  phase' = phase
    BY <2>1, Zenon DEF Spawn, Close, DropSession, Fetching, FetchSave, FetchSaved,
                FetchSaveFails, FetchOpenCopy, FetchCloseCopy, FetchCopy, FetchNoCopy,
                FetchAnswer, FetchRefused, FetchTimeout, FetchGoto
  <2>2. ASSUME NEW s \in Sessions, Job(s) \/ TakeOrphan(s) \/ Scan(s)
        PROVE  phase' = phase
    BY <2>2, Zenon DEF Job, TakeOrphan, Scan, Umount, Clean, ListUpper, SkipFile, Quarantine,
                Quarantined, QuarantineFails, SendCaptured, RemoveDir, JobGoto
  <2>3. ASSUME NEW s \in Sessions, NEW f \in Files,
               Write(s, f) \/ Remove(s, f) \/ BeginFetch(s, f)
        PROVE  phase' = phase
    BY <2>3, Zenon DEF Write, Remove, BeginFetch
  <2>4. ASSUME Kill \/ Reboot \/ ServerError \/ Start \/ ScanDone \/ Log
        PROVE  phase' \in {phase, "down", "scan", "reclaim"}
    BY <2>4 DEF Kill, Reboot, ServerError, Halt, Start, ScanDone, Log
  <2>5. phase' # phase /\ phase' \notin {phase, "down", "scan", "reclaim"}
    BY <1>1
  <2> QED
    BY <1>1, <2>1, <2>2, <2>3, <2>4, <2>5, Zenon DEF Next, Boot
<1>2. SandboxInv /\ [Next]_vars => [Reclaimed]_vars
  <2>1. ASSUME SandboxInv, Serve
        PROVE  \A s \in Sessions : ~mounted[s] /\ dirs[s] = {}
    BY <2>1, Zenon DEF Serve, SandboxInv, ShapeInv, LayerInv, RunInv
  <2> QED
    BY <1>1, <2>1, Zenon
<1> QED
  BY <1>2, SandboxKept, PTL DEF Spec, StartupReclaims

\* The quarantine file an announced payload is named by is there, for any
\* sessions, downloads and deaths: the walk of analyze_upperdir and the
\* downloads of fetch_payload_blocking overwrite each other's copies only with
\* one of their own, and a copy a death cuts off leaves its file to the reclaim.
THEOREM AnnouncedIsHeld == Spec => []CapturedIsQuarantined
<1>1. Init => CaptureInv
  BY DEF Init, CaptureInv, Held, Torn, Writing, JobWrites, FetchWrites
<1>2. SandboxInv /\ CaptureInv /\ [Next]_vars => CaptureInv'
  BY CaptureStep
<1>3. CaptureInv => CapturedIsQuarantined
  BY WritersAre DEF CaptureInv, CapturedIsQuarantined, Held, Torn, Writing,
                        JobWrites, FetchWrites
<1> QED
  BY <1>1, <1>2, <1>3, SandboxKept, PTL DEF Spec

\* Without downloads, and as long as the files can be analysed, no payload a
\* session left in its layer is destroyed before the quarantine has it whole,
\* for any number of sessions and deaths: not by remove_dir_all, not by the
\* reclaim, not by another session's teardown rewriting the same file.
THEOREM EvidencePreserved ==
  ASSUME MaxFetches = 0, "analysis" \notin Faults
  PROVE  Spec => []EvidenceKept
<1>1. Init => EvidenceInv
  BY SMTT(30) DEF Init, EvidenceInv, SavedByJob, JobWrites
<1>2. SandboxInv /\ EvidenceInv /\ [Next]_vars => EvidenceInv'
  BY EvidenceStep
<1>3. EvidenceInv => EvidenceKept
  BY Zenon DEF EvidenceInv, EvidenceKept
<1> QED
  BY <1>1, <1>2, <1>3, SandboxKept, PTL DEF Spec

\* Without downloads, when spawn_sandbox makes all directories or none and no
\* command runs after the teardown, a session that is gone and torn down has
\* left neither a mount nor a directory while the gateway serves, even if
\* every analysis fails.
THEOREM NothingStaysBehind ==
  ASSUME MaxFetches = 0, "dirs" \notin Faults, "late" \notin Faults
  PROVE  Spec => []NothingLeftBehind
<1>1. Init => ClearInv
  BY DEF Init, ClearInv
<1>2. SandboxInv /\ ClearInv /\ [Next]_vars => ClearInv'
  BY ClearStep
<1>3. SandboxInv /\ ClearInv => NothingLeftBehind
  BY DEF SandboxInv, ShapeInv, LayerInv, ClearInv, NothingLeftBehind
<1> QED
  BY <1>1, <1>2, <1>3, SandboxKept, PTL DEF Spec

====
