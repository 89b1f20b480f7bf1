-------------------------------- MODULE Vfs --------------------------------
(***************************************************************************)
(* The file system a session's shell shows (aegis-gateway vfs.rs, with the *)
(* redirections of shell.rs and the file a download leaves).               *)
(*                                                                         *)
(* Three trees lie over one another.  The commands change the tree at      *)
(* mount_root (if the session has one) and the tree in memory; they read   *)
(* the first of mount_root, golden rootfs and memory that has the path.    *)
(* mount_root is the session's own tree: the overlay, which starts as the  *)
(* golden rootfs, or the bare upperdir if the mount failed, which starts   *)
(* empty.  If the session has no directory at all it is the golden rootfs, *)
(* and if the sandbox failed altogether there is none.                     *)
(*                                                                         *)
(* A path is a sequence of names, a tree a function on the paths it has    *)
(* (its root is always there), a file's text a sequence of lines.          *)
(***************************************************************************)
EXTENDS Integers, Sequences, FiniteSets, Functions

CONSTANTS
    Home,         \* the name of root's home directory
    Shadows,      \* the names that contain "shadow"
    Lines,        \* what echo prints
    Payloads,     \* what a download consists of
    Garbled,      \* the payloads that are not UTF-8
    Blank,        \* the empty line
    Refusal,      \* an error message
    Golden,       \* the golden rootfs
    Default,      \* the tree of build_default_fs
    Targets,      \* the paths typed
    Fetched,      \* the file names of downloads
    MaxDepth,     \* bound on the length of paths
    MaxLines,     \* bound on the length of texts
    MaxCommands   \* bound on the number of commands and downloads

VARIABLES
    root,         \* the tree at mount_root: "session", "golden" or "none"
    tree,         \* the three trees
    current_path,
    commands      \* how many commands and downloads had an effect

vars == <<root, tree, current_path, commands>>

Dir == [dir |-> TRUE, text |-> <<>>]
File(text) == [dir |-> FALSE, text |-> text]
IsNode(node) == node.dir \in BOOLEAN /\ (node.dir => node.text = <<>>)

Dots == {".", ".."}
Names == STRING \ Dots

\* The directory a path is in, and its name there.
Parent(p) == SubSeq(p, 1, Len(p) - 1)
Name(p) == p[Len(p)]

(***************************************************************************)
(* Trees, as std::fs and the walks over DirNode see them.                  *)
(***************************************************************************)

Exists(t, p) == p = <<>> \/ p \in DOMAIN t
Node(t, p) == IF p = <<>> THEN Dir ELSE t[p]
IsDir(t, p) == Exists(t, p) /\ Node(t, p).dir
IsFile(t, p) == Exists(t, p) /\ ~Node(t, p).dir

\* Everything is below a directory, and no path has "." or ".." in it.
IsTree(t) ==
    /\ DOMAIN t \subseteq Seq(Names) \ {<<>>}
    /\ \A p \in DOMAIN t : IsDir(t, Parent(p)) /\ IsNode(t[p])

\* safe_filename names no directory above.
ASSUME VfsAssumption ==
    /\ Home \in Names /\ Fetched \subseteq Names
    /\ Targets \subseteq [from : {"root", "home", "here"}, comps : Seq(STRING)]
    /\ IsTree(Golden) /\ IsTree(Default)
    /\ {MaxDepth, MaxLines, MaxCommands} \subseteq Nat

\* The paths above p and p itself, without the root.
Upto(p) == {SubSeq(p, 1, i) : i \in 1..Len(p)}

\* p is q or above q.
Above(p, q) == Len(p) <= Len(q) /\ SubSeq(q, 1, Len(p)) = p

Without(t, p) == [q \in {r \in DOMAIN t : ~Above(p, r)} |-> t[q]]

\* The node takes the place of whatever was at p.
With(t, p, node) ==
    [q \in DOMAIN Without(t, p) \cup {p} |-> IF q = p THEN node ELSE t[q]]

\* create_dir_all, and the walk of mkdir -p: a file on the way stops both
\* before they have made anything.
CreateDirAll(t, p) ==
    IF \E q \in Upto(p) : IsFile(t, q) THEN t
    ELSE [q \in DOMAIN t \cup Upto(p) |-> IF q \in DOMAIN t THEN t[q] ELSE Dir]

\* A new node whose directory is there.
Add(t, p, node) ==
    IF IsDir(t, Parent(p)) /\ ~Exists(t, p) THEN With(t, p, node) ELSE t

\* The text of the file once written; the old text of a file stays if append.
Written(t, p, text, append) ==
    File(IF append /\ IsFile(t, p) THEN t[p].text \o text ELSE text)

(***************************************************************************)
(* Path resolution.                                                        *)
(***************************************************************************)

Base(target) ==
    CASE target.from = "root" -> <<>>
      [] target.from = "home" -> <<Home>>
      [] target.from = "here" -> current_path

\* Mutant of Component: ".." is kept as if it were a name.
ComponentLiteral(parts, c) == IF c = "." THEN parts ELSE Append(parts, c)

\* A ".." at the root stays there.
Component(parts, c) ==
    CASE c = "."  -> parts
      [] c = ".." -> IF parts = <<>> THEN parts ELSE Parent(parts)
      [] OTHER    -> Append(parts, c)

resolve(target) ==
    LET parts[i \in 0..Len(target.comps)] ==
            IF i = 0 THEN Base(target) ELSE Component(parts[i - 1], target.comps[i])
    IN  parts[Len(target.comps)]

(***************************************************************************)
(* Reading.                                                                *)
(***************************************************************************)

Layers == {root, "golden", "memory"} \ {"none"}

\* The first of the layers that have what is asked for; memory if none has.
First(having) ==
    IF root \in having THEN root
    ELSE IF "golden" \in having THEN "golden" ELSE "memory"

\* The layer p is looked up in.
Top(p) == First({l \in Layers : Exists(tree[l], p)})

\* cd looks at the first layer that has the path.
SeenDir(p) == IsDir(tree[Top(p)], p)
SeenFile(p, text) == IsFile(tree[Top(p)], p) /\ Node(tree[Top(p)], p) = File(text)

\* read_to_string refuses what is not UTF-8, and cat goes on to the next layer.
Readable(l, p) ==
    /\ Exists(tree[l], p)
    /\ IsFile(tree[l], p) => Range(tree[l][p].text) \cap Garbled = {}

cat(target) ==
    LET p == resolve(target)
        l == First({k \in Layers : Readable(k, p)})
    IN  IF Range(target.comps) \cap Shadows # {} \/ ~Readable(l, p) \/ IsDir(tree[l], p)
        THEN <<Refusal>>
        ELSE IF tree[l][p].text = <<>> THEN <<Blank>> ELSE tree[l][p].text

\* The names directly below p in layer l, with their kind.
Children(l, p) == {Name(q) : q \in {r \in DOMAIN tree[l] : Parent(r) = p}}
Entries(l, p) == [n \in Children(l, p) |-> tree[l][Append(p, n)].dir]

\* Inserting the entries of one layer into those gathered so far.
Inserted(old, new) ==
    [n \in DOMAIN old \cup DOMAIN new |-> IF n \in DOMAIN new THEN new[n] ELSE old[n]]

\* Mutant of ls: an entry keeps the kind the last layer gives it.
lsMemoryLast(p) ==
    LET disk == Inserted(IF root = "none" THEN <<>> ELSE Entries(root, p), Entries("golden", p))
    IN  Inserted(disk, Entries("memory", p))

\* The entries ls gathers for a directory: memory first, then each layer over
\* what is there.
ls(p) ==
    LET lower == Inserted(Entries("memory", p), Entries("golden", p))
    IN  IF root = "none" THEN lower ELSE Inserted(lower, Entries(root, p))

\* ls takes the path for a file if it is one on disk.
ListedAsFile(p) == \E l \in Layers \ {"memory"} : IsFile(tree[l], p)

(***************************************************************************)
(* The commands.  One that fails without effect is a step that changes     *)
(* nothing; one with several targets is as many commands.                  *)
(***************************************************************************)

\* Bound: MaxCommands.
Counted == commands < MaxCommands /\ commands' = commands + 1

\* The disk operation on the tree at mount_root and the operation on memory.
Change(disk, memory) ==
    /\ Counted
    /\ tree' = [l \in DOMAIN tree |->
                  CASE l = "memory" -> memory
                    [] l = root     -> disk
                    [] OTHER        -> tree[l]]
    /\ UNCHANGED <<root, current_path>>

\* The tree a command changes on disk; what it does there has no effect if
\* there is no mount_root.
Disk == IF root = "none" THEN <<>> ELSE tree[root]

\* "/" is refused.  Bound: MaxDepth.
Operand(p) == Len(p) \in 1..MaxDepth

cd(target) ==
    /\ Counted
    /\ Len(resolve(target)) <= MaxDepth
    /\ SeenDir(resolve(target))
    /\ current_path' = resolve(target)
    /\ UNCHANGED <<root, tree>>

\* Without -p the directories above are made on disk all the same, in memory
\* they are not; what exists on disk is refused.
mkdir(target, parents) ==
    LET p == resolve(target)
    IN  /\ Operand(p)
        /\ parents \/ ~Exists(Disk, p)
        /\ Change(CreateDirAll(Disk, p),
                  IF parents THEN CreateDirAll(tree["memory"], p)
                             ELSE Add(tree["memory"], p, Dir))

touch(target) ==
    LET p == resolve(target)
    IN  /\ Operand(p)
        /\ Change(Add(CreateDirAll(Disk, Parent(p)), p, File(<<>>)),
                  Add(tree["memory"], p, File(<<>>)))

\* What remains of a tree: a directory goes only with -r.
Removed(t, p, recursive) == IF recursive \/ IsFile(t, p) THEN Without(t, p) ELSE t

\* Mutant of rm: a path that is on disk is removed there only.
rmDiskOnly(target, recursive, force) ==
    LET p == resolve(target)
    IN  /\ Operand(p)
        /\ IsDir(Disk, p) => recursive \/ force
        /\ Change(Removed(Disk, p, recursive),
                  IF Exists(Disk, p) THEN tree["memory"]
                                     ELSE Removed(tree["memory"], p, recursive))

\* A directory on disk is refused without -r, or kept in silence with -f.
rm(target, recursive, force) ==
    LET p == resolve(target)
    IN  /\ Operand(p)
        /\ IsDir(Disk, p) => recursive \/ force
        /\ Change(Removed(Disk, p, recursive), Removed(tree["memory"], p, recursive))

\* The write on disk: it makes the directories above and fails on a directory.
DiskWritten(t, p, text, append) ==
    LET u == CreateDirAll(t, Parent(p))
    IN  IF IsDir(u, Parent(p)) /\ ~IsDir(u, p)
        THEN With(u, p, Written(u, p, text, append)) ELSE u

\* Mutant of write_file: the directories above the file are not made on disk.
write_fileShallow(target, text, append) ==
    LET p == resolve(target)
        m == tree["memory"]
    IN  /\ Operand(p)
        /\ Change(IF IsDir(Disk, Parent(p)) THEN DiskWritten(Disk, p, text, append) ELSE Disk,
                  IF IsDir(m, Parent(p)) THEN With(m, p, Written(m, p, text, append)) ELSE m)

\* In memory the file takes the place even of a directory.
write_file(target, text, append) ==
    LET p == resolve(target)
        m == tree["memory"]
    IN  /\ Operand(p)
        /\ Change(DiskWritten(Disk, p, text, append),
                  IF IsDir(m, Parent(p)) THEN With(m, p, Written(m, p, text, append)) ELSE m)

\* What a command prints: nothing, a line, or the text of a file.
Outputs == {<<>>} \cup {<<l>> : l \in Lines} \cup {cat(t) : t \in Targets}

\* Bound: no text grows past MaxLines.
Short == \A l \in DOMAIN tree' : \A p \in DOMAIN tree'[l] : Len(tree'[l][p].text) <= MaxLines

\* cmd > file and cmd >> file: the command runs first, then its output is written.
Redirect(target, text, append) ==
    /\ write_file(target, text, append)
    /\ Short

\* A download writes into root's home on disk, where it is a directory, at any
\* moment: the blocking task outlives the command that started it.
FetchLands(name, payload) ==
    LET p == <<Home, name>>
    IN  /\ IsDir(Disk, <<Home>>) /\ ~IsDir(Disk, p)
        /\ Change(With(Disk, p, File(<<payload>>)), tree["memory"])

Init ==
    /\ root \in {"session", "golden", "none"}
    /\ tree \in [session : {Golden, <<>>}, golden : {Golden}, memory : {Default}]
    /\ tree.session = Golden => root = "session"
    /\ current_path = <<Home>>
    /\ commands = 0

Next ==
    \/ \E t \in Targets :
        \/ cd(t)
        \/ \E parents \in BOOLEAN : mkdir(t, parents)
        \/ touch(t)
        \/ \E recursive, force \in BOOLEAN : rm(t, recursive, force)
    \/ \E text \in Outputs, t \in Targets, append \in BOOLEAN : Redirect(t, text, append)
    \/ \E n \in Fetched, payload \in Payloads : FetchLands(n, payload)

Spec == Init /\ [][Next]_vars

(***************************************************************************)
(* Properties.                                                             *)
(***************************************************************************)

\* The places of the names in s that no later ".." takes back: those after which
\* the ".." never outnumber the names.
Surviving(s) ==
    LET Count(i, j, dots) == Cardinality({k \in i..j : s[k] # "." /\ ((s[k] = "..") = dots)})
    IN  {i \in 1..Len(s) : /\ s[i] \notin Dots
                           /\ \A j \in i..Len(s) : Count(i + 1, j, TRUE) <= Count(i + 1, j, FALSE)}

\* resolve computes what its definition by push and pop means, from wherever
\* the session is: a name stays exactly if no ".." takes it back, and those
\* that stay keep their order.
ResolveNormal ==
    \A t \in Targets :
        LET s    == Base(t) \o t.comps
            kept == Surviving(s)
        IN  /\ Len(resolve(t)) = Cardinality(kept)
            /\ \A i \in kept : resolve(t)[Cardinality({j \in kept : j <= i})] = s[i]

\* What a session with a sandbox writes it reads back: after cmd > file the
\* file has the output, as long as the session sees directories above it and
\* none in its place.
ReadYourWrites ==
    [][\A t \in Targets : \A l \in Lines :
          LET p == resolve(t)
          IN  /\ root # "none"
              /\ write_file(t, <<l>>, FALSE)
              /\ ~SeenDir(p)
              /\ \A q \in Upto(Parent(p)) : SeenDir(q)
              => SeenFile(p, <<l>>)']_vars

\* After rm -r nothing of the path is left, in any layer, but what the golden
\* rootfs has there.
RemovedIsGone ==
    [][\A t \in Targets :
          rm(t, TRUE, FALSE) =>
             \A l \in Layers : \A q \in DOMAIN tree'[l] :
                Above(resolve(t), q) => l = "golden" /\ root # "golden"]_vars

\* Each layer stays a tree, whatever part of a command fails: nothing is left
\* hanging below a file or a removed path. So where ls lists a directory it
\* lists the names cd and cat find there, each as the kind cd takes it for.
LsAgrees ==
    LET places == {<<>>} \cup UNION {DOMAIN tree[l] : l \in Layers}
    IN  /\ \A l \in DOMAIN tree : IsTree(tree[l])
        /\ \A p \in places : ~ListedAsFile(p) =>
            /\ {Append(p, n) : n \in DOMAIN ls(p)} = {q \in places \ {<<>>} : Parent(q) = p}
            /\ \A n \in DOMAIN ls(p) : ls(p)[n] = SeenDir(Append(p, n))
=============================================================================
