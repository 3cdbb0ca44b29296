----------------------------- MODULE SourceTree -----------------------------
(* The pure half of the source sync: manifests, fingerprints and what each   *)
(* step of a sync does to a directory, as operators on trees.                *)
(* A tree maps every path to its contents, or to Absent.  blake3 is taken to *)
(* be injective, so a manifest (path to hash) is the tree of the contents.   *)
EXTENDS FiniteSets

CONSTANTS
    Path,        \* the relative paths that may occur
    TargetPath,  \* those with a component named "target"
    RootTarget,  \* those inside the workspace's own target directory
    Above,       \* path -> the paths that are directories it lies in
    Version,     \* states of a file on a workstation: contents and mtime
    Content,     \* file contents
    Stat,        \* (mtime in seconds, size) pairs
    ContentOf,   \* version -> its contents
    StatOf,      \* version -> what fs::metadata says of it
    Torn,        \* what a write that failed half-way leaves in the file
    Absent       \* no such file

Tree == [Path -> Content \cup {Absent}]
Checkout == [Path -> Version \cup {Absent}]
Fingerprint == [Path -> Stat \cup {Absent}]
Disk == [file : [Path -> Content \cup {Torn, Absent}], dir : SUBSET Path]

EmptyTree == [p \in Path |-> Absent]
EmptyDisk == [file |-> EmptyTree, dir |-> {}]

Files(t) == {p \in Path : t[p] # Absent}

(* A path is not a file and a directory at once.                             *)
WellFormed(t) == \A p \in Files(t) : Above[p] \cap Files(t) = {}

-----------------------------------------------------------------------------
(* The workstation's side.                                                   *)

(* Variant: what identifies a file is its version, not its contents.         *)
ManifestOfVersions(w) == w

BuildManifest(w) ==
    [p \in Path |-> IF w[p] = Absent THEN Absent ELSE ContentOf[w[p]]]

(* Path, mtime seconds and size of every file; no contents are read.         *)
FingerprintOf(w) ==
    [p \in Path |-> IF w[p] = Absent THEN Absent ELSE StatOf[w[p]]]

(* What differs from the manifest of the last build the agent remembers; a   *)
(* hint of {} (nothing remembered) yields nothing.                           *)
ChangedPaths(files, hint) ==
    {p \in Files(files) : \E last \in hint : last[p] # files[p]}

(* Contents are read after hashing: a file gone since then is left out.      *)
Bundle(w, paths) ==
    [p \in Path |-> IF p \in paths THEN BuildManifest(w)[p] ELSE Absent]

-----------------------------------------------------------------------------
(* The daemon's side.                                                        *)

(* walk_workspace skips every path with a "target" component; a file that    *)
(* cannot be walked or read drops out unnoticed.                             *)
LocalManifest(d, unread) ==
    [p \in Path |-> IF p \in TargetPath \cup unread THEN Absent ELSE d.file[p]]

(* Variant: a file that is there is taken to be the right one.               *)
MissingFiles(files, loc) == {p \in Files(files) : loc[p] = Absent}

NeededFiles(files, loc) == {p \in Files(files) : loc[p] # files[p]}

(* Variant: nothing is ever removed.                                         *)
DeleteNothing(d, loc, files, stuck) == d

(* Files only: the directories they leave empty stay.  That a file could not *)
(* be removed is ignored.                                                    *)
DeleteStale(d, loc, files, stuck) ==
    LET stale == Files(loc) \ Files(files) IN
    [file |-> [p \in Path |-> IF p \in stale \ stuck THEN Absent ELSE d.file[p]],
     dir  |-> d.dir]

(* create_dir_all fails on a file in the way, fs::write on a directory.      *)
CanWrite(d, p) ==
    /\ p \notin d.dir
    /\ \A q \in Above[p] : d.file[q] = Absent

WriteFile(d, p, c) ==
    [file |-> [d.file EXCEPT ![p] = c], dir |-> d.dir \cup Above[p]]

(* handle_clean: remove_dir_all of the workspace's own target directory,     *)
(* which may fail before it comes to what is left.                           *)
CleanTarget(d, left) ==
    LET gone == RootTarget \ (left \cup UNION {Above[p] : p \in left}) IN
    [file |-> [p \in Path |-> IF p \in gone THEN Absent ELSE d.file[p]],
     dir  |-> d.dir \ gone]

-----------------------------------------------------------------------------
(* What a fingerprint says of a tree, outside "target": each file is a       *)
(* version of that mtime and size.                                           *)
Describes(fp, t) ==
    \A p \in Path \ TargetPath :
        IF fp[p] = Absent THEN t[p] = Absent
        ELSE \E v \in Version : StatOf[v] = fp[p] /\ t[p] = ContentOf[v]

(* And what it is taken to say: each file is any version of that mtime and   *)
(* size.                                                                     *)
Determines(fp, t) ==
    \A p \in Path \ TargetPath :
        IF fp[p] = Absent THEN t[p] = Absent
        ELSE \A v \in Version : StatOf[v] = fp[p] => t[p] = ContentOf[v]

(* The mtime and size of a file tell its contents.  Not assumed: it fails    *)
(* for two edits of one size within one second.                              *)
StatDistinguishes ==
    \A v, w \in Version : StatOf[v] = StatOf[w] => ContentOf[v] = ContentOf[w]

ASSUME SourceTreeAssumption ==
    /\ RootTarget \subseteq TargetPath
    /\ TargetPath \subseteq Path
    /\ Above \in [Path -> SUBSET Path]
    /\ ContentOf \in [Version -> Content]
    /\ StatOf \in [Version -> Stat]
    /\ Absent \notin Content \cup Version \cup Stat
    /\ Torn \notin Content \cup {Absent}
=============================================================================
