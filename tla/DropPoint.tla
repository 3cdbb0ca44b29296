----------------------------- MODULE DropPoint ------------------------------
(* drop-point, the rustc wrapper of the build host: concurrent invocations   *)
(* share one directory of cache entries, which the daemon may expunge under  *)
(* them.  An entry is a zip file published by rename; a published entry is   *)
(* never fsynced, so a power failure may leave it unreadable.                *)
EXTENDS Digest

CONSTANTS
    Command,          \* the calls cargo makes, a sequence of records:
                      \*   unit: sources, settings and dependencies, all that
                      \*     decides what this rustc makes; a member of the
                      \*     workspace has sources that are edited, too
                      \*   by: the rustc that is called, and its environment
                      \*   dir: the target directory; line: drop-point's arguments
                      \*   prints: what rustc --print file-names lists
                      \*   writes: the files rustc makes; inputs: other files it
                      \*     reads, with what is in them
                      \* A relative name is that of a file in the out-dir, any other
                      \* file goes by its path.
    Script,           \* the builds to consider, each a sequence of places in Command
    WorkspaceWrapper, \* the value of RUSTC_WORKSPACE_WRAPPER
    NoKey, NoEntry, Broken, Absent,
    MaxCrashes,       \* bound: power failures
    MaxExpunges,      \* bound: `clean --expunge` commands
    MaxEdits          \* bound: edits of the workspace's members

-----------------------------------------------------------------------------
(* What the wrapper makes of a command line before it does anything.         *)

(* Variant: every call takes the path of third-party crates.                 *)
ThirdPartyAlways(line) == TRUE

(* classify: behind the workspace wrapper the call goes straight to rustc.   *)
ThirdParty(line) == line[1] # <<WorkspaceWrapper>>

Rest(line) == SubSeq(line, IF ThirdParty(line) THEN 2 ELSE 3, Len(line))

Arguments(c) == ParsedArguments(Rest(Command[c].line))

EndsIn(suffix, names) == {f \in names : Last(f) = suffix}

Metadata(names) == {Front(f) \o <<".rmeta">> : f \in EndsIn(".rlib", names)}

(* Variant: the library is expected even if it is only checked.              *)
RefineKeepsLibrary(p, names) ==
    names \cup (IF "metadata" \in p.emit THEN Metadata(names) ELSE {})

(* refine_outputs: what is printed, corrected to what is made.  A call with  *)
(* neither link nor metadata is not cached.                                  *)
RefineOutputs(p, names) ==
    (IF "link" \in p.emit THEN names ELSE EndsIn(".rmeta", names))
        \cup (IF "metadata" \in p.emit THEN Metadata(names) ELSE {})

DepInfo(p) == p.crate_name \o p.extra \o <<".d">>

(* plan_outputs joins every name to the out-dir, which is to place the       *)
(* relative ones there: the profile too, which rustc reads elsewhere.  Only  *)
(* an absolute one is planned where it is.                                   *)
PlanOutputs(c) ==
    RefineOutputs(Arguments(c), Command[c].prints)
        \cup (IF "dep-info" \in Arguments(c).emit THEN {DepInfo(Arguments(c))} ELSE {})
        \cup ({Arguments(c).profile} \ {<<>>})

Cached(c) == ThirdParty(Command[c].line) /\ Cacheable(Rest(Command[c].line))

(* The arguments alone: not the rustc that is called, or its environment.    *)
KeyText == [c \in {d \in DOMAIN Command : Cached(d)} |-> HashRustcArgs(Arguments(c))]

(* plan_cache.  A key goes by the first command that has it.                 *)
KeyOf == [c \in DOMAIN Command |->
             IF c \in DOMAIN KeyText
             THEN Min({d \in DOMAIN KeyText : KeyText[d] = KeyText[c]}) ELSE NoKey]

PlanOf == [c \in DOMAIN Command |-> IF KeyOf[c] = NoKey THEN {} ELSE PlanOutputs(c)]

IsDepInfo(f) == Last(f) = ".d"

(* What this rustc writes.  Dep-info names the target directory, the rest    *)
(* does not.                                                                 *)
MadeBy(rustc, c, f, r) ==
    [file |-> f, unit |-> Command[c].unit, by |-> rustc,
     dir |-> IF IsDepInfo(f) THEN Command[c].dir ELSE "",
     revision |-> IF Command[c].member THEN r ELSE 0]

Product(c, f, r) == MadeBy(Command[c].by, c, f, r)

IsPath(f) == IsPrefix(<<"/">>, f)

(* Of rustc, which drop-point calls: with link in --emit it makes the files  *)
(* that it prints, with metadata that of each library and the .rmeta that it *)
(* prints, with dep-info the .d file; and a profile that is given by its     *)
(* path is there to be read.                                                 *)
RustcMakes(c) ==
    LET made == Command[c].writes
        emit == Arguments(c).emit
    IN  /\ "link" \in emit => Command[c].prints \subseteq made
        /\ "metadata" \in emit =>
              Metadata(Command[c].prints) \cup EndsIn(".rmeta", Command[c].prints) \subseteq made
        /\ "dep-info" \in emit => DepInfo(Arguments(c)) \in made
        /\ IsPath(Arguments(c).profile) => Arguments(c).profile \in DOMAIN Command[c].inputs

(* rustc leaves alone what it reads, and a file is there.                    *)
ASSUME DropPointAssumption ==
    /\ Command \in Seq(Range(Command))
    /\ Script \subseteq Seq(DOMAIN Command)
    /\ \A c \in DOMAIN Command :
          /\ Command[c].writes \cap DOMAIN Command[c].inputs = {}
          /\ Cached(c) => RustcMakes(c)
          /\ \A f \in DOMAIN Command[c].inputs : Command[c].inputs[f] # Absent
          /\ \A f \in Command[c].writes : \A r \in 0 .. MaxEdits : Product(c, f, r) # Absent
    /\ MaxCrashes \in Nat /\ MaxExpunges \in Nat /\ MaxEdits \in Nat

-----------------------------------------------------------------------------
VARIABLES
    argv,       \* invocation -> the command it is for
    entries,    \* key -> the cache entry, NoEntry, or Broken
    call,       \* invocation -> [pc, entry, todo]: cache_path and its locals
    out,        \* invocation -> file name -> what is there
    since,      \* invocation -> the revision it found when it began
    revision,   \* of the workspace members' sources
    expunging,  \* keys remove_dir_all has yet to come to
    crashes, expunges

vars == <<argv, entries, call, out, since, revision, expunging, crashes, expunges>>

Invocation == DOMAIN argv
Key        == DOMAIN entries

KeyFor(i)  == KeyOf[argv[i]]
PlanFor(i) == PlanOf[argv[i]]
Writes(i)  == Command[argv[i]].writes
Inputs(i)  == Command[argv[i]].inputs

At(pc) == [pc |-> pc, entry |-> NoEntry, todo |-> {}]

Extracting(entry, todo) == [pc |-> "extract", entry |-> entry, todo |-> todo]

Init ==
    /\ argv \in Script
    /\ entries = [k \in {KeyFor(i) : i \in Invocation} \ {NoKey} |-> NoEntry]
    /\ call = [i \in Invocation |-> At("start")]
    /\ out = [i \in Invocation |->
          [f \in Writes(i) \cup PlanFor(i) \cup DOMAIN Inputs(i) |->
              IF f \in DOMAIN Inputs(i) THEN Inputs(i)[f] ELSE Absent]]
    /\ since = [i \in Invocation |-> 0]
    /\ revision = 0
    /\ expunging = {}
    /\ crashes = 0 /\ expunges = 0

Ended == {"served", "built", "failed", "killed"}

Goto(i, state) == call' = [call EXCEPT ![i] = state]

hostVars == <<argv, revision, expunging, crashes, expunges>>

-----------------------------------------------------------------------------
(* try_serve_from_cache: the entry is opened; from here on the file handle   *)
(* keeps it readable, whatever becomes of its name.                          *)
Hit(i) ==
    /\ call[i].pc = "start"
    /\ KeyFor(i) # NoKey
    /\ entries[KeyFor(i)] \notin {NoEntry, Broken}
    /\ Goto(i, Extracting(entries[KeyFor(i)], PlanFor(i)))
    /\ since' = [since EXCEPT ![i] = revision]
    /\ UNCHANGED <<entries, out, hostVars>>

(* exec_rustc; or no key, no entry, a zip that does not open, an error on    *)
(* the way to one, or rustc refusing to name its files.                      *)
Miss(i) ==
    /\ call[i].pc = "start"
    /\ Goto(i, At("compile"))
    /\ since' = [since EXCEPT ![i] = revision]
    /\ UNCHANGED <<entries, out, hostVars>>

(* Variant: every file is given the same member of the entry.                *)
ExtractOneMember(i) ==
    /\ call[i].pc = "extract"
    /\ \E f \in call[i].todo :
          /\ out' = [out EXCEPT ![i][f] = call[i].entry[CHOOSE g \in PlanFor(i) : TRUE]]
          /\ Goto(i, Extracting(call[i].entry, call[i].todo \ {f}))
    /\ UNCHANGED <<entries, since, hostVars>>

(* One turn of extract_objects: temporary file, rename, mode.  The files     *)
(* come in the order of the plan; any order will do here.                    *)
ExtractObject(i) ==
    /\ call[i].pc = "extract"
    /\ \E f \in call[i].todo \cap DOMAIN call[i].entry :
          /\ out' = [out EXCEPT ![i][f] = call[i].entry[f]]
          /\ Goto(i, Extracting(call[i].entry, call[i].todo \ {f}))
    /\ UNCHANGED <<entries, since, hostVars>>

(* Variant: files that cannot be extracted are passed over.                  *)
ExtractPassesOver(i) ==
    /\ call[i].pc = "extract"
    /\ \E f \in call[i].todo : Goto(i, Extracting(call[i].entry, call[i].todo \ {f}))
    /\ UNCHANGED <<entries, out, since, hostVars>>

(* A member is missing or the disk is full: some files are already replaced. *)
ExtractFails(i) ==
    /\ call[i].pc = "extract"
    /\ call[i].todo # {}
    /\ Goto(i, At("compile"))
    /\ UNCHANGED <<entries, out, since, hostVars>>

Serve(i) ==
    /\ call[i].pc = "extract"
    /\ call[i].todo = {}
    /\ Goto(i, At("served"))
    /\ UNCHANGED <<entries, out, since, hostVars>>

(* rustc writes these files, and no others.                                  *)
Make(i, files) ==
    out' = [out EXCEPT ![i] =
        [f \in DOMAIN @ |-> IF f \in files THEN Product(argv[i], f, revision) ELSE @[f]]]

(* run_rustc with exit code 0; without a key there is nothing to save.       *)
Compile(i) ==
    /\ call[i].pc = "compile"
    /\ Make(i, Writes(i))
    /\ Goto(i, At(IF KeyFor(i) = NoKey THEN "built" ELSE "save"))
    /\ UNCHANGED <<entries, since, hostVars>>

CompileFails(i) ==
    /\ call[i].pc = "compile"
    /\ \E written \in SUBSET Writes(i) : Make(i, written)
    /\ Goto(i, At("failed"))
    /\ UNCHANGED <<entries, since, hostVars>>

(* save_outputs: every planned file is read into the entry, or none is kept. *)
Collect(i) ==
    /\ call[i].pc = "save"
    /\ \A f \in PlanFor(i) : out[i][f] # Absent
    /\ Goto(i, [pc |-> "put", entry |-> [f \in PlanFor(i) |-> out[i][f]], todo |-> {}])
    /\ UNCHANGED <<entries, out, since, hostVars>>

(* put, its first look: an entry of that name is left as it is, readable or  *)
(* not.                                                                      *)
AlreadyThere(i) ==
    /\ call[i].pc = "put"
    /\ entries[KeyFor(i)] # NoEntry
    /\ Goto(i, At("built"))
    /\ UNCHANGED <<entries, out, since, hostVars>>

(* The temporary file is written next to the final name.                     *)
WriteTemp(i) ==
    /\ call[i].pc = "put"
    /\ entries[KeyFor(i)] = NoEntry
    /\ Goto(i, [call[i] EXCEPT !.pc = "persist"])
    /\ UNCHANGED <<entries, out, since, hostVars>>

(* Variant: a plain rename, which replaces what is there.                    *)
PersistClobbers(i) ==
    /\ call[i].pc = "persist"
    /\ entries' = [entries EXCEPT ![KeyFor(i)] = call[i].entry]
    /\ Goto(i, At("built"))
    /\ UNCHANGED <<out, since, hostVars>>

(* persist_noclobber: put-if-absent in one step.                             *)
Persist(i) ==
    /\ call[i].pc = "persist"
    /\ entries' = [entries EXCEPT ![KeyFor(i)] = IF @ = NoEntry THEN call[i].entry ELSE @]
    /\ Goto(i, At("built"))
    /\ UNCHANGED <<out, since, hostVars>>

(* An error anywhere in save_outputs, such as the shard directory expunged   *)
(* from under the temporary file, is logged; the exit code stays 0.          *)
SaveFails(i) ==
    /\ call[i].pc \in {"save", "put", "persist"}
    /\ Goto(i, At("built"))
    /\ UNCHANGED <<entries, out, since, hostVars>>

(* cargo is interrupted, its rustc calls with it.                            *)
Kill(i) ==
    /\ call[i].pc \notin Ended
    /\ Goto(i, At("killed"))
    /\ UNCHANGED <<entries, out, since, hostVars>>

-----------------------------------------------------------------------------
(* The daemon syncs new sources of a member.                                 *)
EditMember ==
    /\ revision < MaxEdits
    /\ \E i \in Invocation : Command[argv[i]].member
    /\ revision' = revision + 1
    /\ UNCHANGED <<argv, entries, call, out, since, expunging, crashes, expunges>>

(* expunge_drop_point_cache in the daemon: remove_dir_all, entry by entry,   *)
(* beside whatever is running.                                               *)
Expunge ==
    /\ expunging = {}
    /\ expunges < MaxExpunges
    /\ expunges' = expunges + 1
    /\ expunging' = Key
    /\ UNCHANGED <<argv, entries, call, out, since, revision, crashes>>

RemoveEntry(k) ==
    /\ k \in expunging
    /\ entries' = [entries EXCEPT ![k] = NoEntry]
    /\ expunging' = expunging \ {k}
    /\ UNCHANGED <<argv, call, out, since, revision, crashes, expunges>>

(* Power fails: whatever runs is gone, and any entry may have lost its data. *)
(* What it does to the files of a target directory is left out.              *)
PowerFails ==
    /\ crashes < MaxCrashes
    /\ crashes' = crashes + 1
    /\ \E lost \in SUBSET Key :
          entries' = [k \in Key |-> IF k \in lost /\ entries[k] # NoEntry
                                    THEN Broken ELSE entries[k]]
    /\ call' = [i \in Invocation |->
          IF call[i].pc \in Ended \cup {"start"} THEN call[i] ELSE At("killed")]
    /\ expunging' = {}
    /\ UNCHANGED <<argv, out, since, revision, expunges>>

CallStep(i) ==
    \/ Hit(i) \/ Miss(i) \/ ExtractObject(i) \/ ExtractFails(i) \/ Serve(i)
    \/ Compile(i) \/ CompileFails(i) \/ Collect(i)
    \/ AlreadyThere(i) \/ WriteTemp(i) \/ Persist(i) \/ SaveFails(i)

Next ==
    \/ \E i \in Invocation : CallStep(i) \/ Kill(i)
    \/ EditMember
    \/ Expunge
    \/ \E k \in Key : RemoveEntry(k)
    \/ PowerFails

Spec == Init /\ [][Next]_vars

-----------------------------------------------------------------------------
TypeOK ==
    /\ \A i \in Invocation :
          /\ call[i].pc \in Ended \cup {"start", "extract", "compile", "save", "put", "persist"}
          /\ \A f \in DOMAIN out[i] \ DOMAIN Inputs(i) : out[i][f] = Absent \/ out[i][f].file = f
          /\ since[i] \in 0 .. revision
    /\ revision \in 0 .. MaxEdits
    /\ expunging \subseteq Key
    /\ crashes \in 0 .. MaxCrashes /\ expunges \in 0 .. MaxExpunges

(* What it may be if the rustc that made it is left open.                    *)
Products(c, f, r) ==
    {MadeBy(Command[d].by, c, f, r) : d \in DOMAIN Command}

(* A wrapper that exits with 0 leaves what rustc would have made of the      *)
(* sources as they are at some moment of the call, and its inputs as they    *)
(* were: whether it hit, missed, hit half-way and fell back, raced another   *)
(* writer or an expunge, or came after a power failure; and however alike    *)
(* the command lines of the others were.  Two exceptions: a hit brings the   *)
(* dep-info of another target directory, and what another rustc made, or     *)
(* this one in another environment, since neither is in the key.             *)
OutputsAreOwn ==
    \A i \in Invocation : call[i].pc \in {"served", "built"} =>
        /\ \A f \in Writes(i) : IsDepInfo(f) \/
              \E r \in since[i] .. revision : out[i][f] \in Products(argv[i], f, r)
        /\ \A f \in DOMAIN Inputs(i) : out[i][f] = Inputs(i)[f]

(* Whatever the wrapper expects of a compile that went well is there, so     *)
(* that a crate with a key does get an entry, also after a hit that was      *)
(* extracted half-way.  The exception is a profile with a relative path: it  *)
(* is expected in the out-dir, and such a crate is never cached.             *)
PlannedExists ==
    \A i \in Invocation : call[i].pc = "save" =>
        \A f \in PlanFor(i) :
            out[i][f] # Absent \/ (f = Arguments(argv[i]).profile /\ ~IsPath(f))

(* "Two workspaces compiling the same crate from the same registry produce   *)
(* the same key" (digest.rs:11): no crate is in the cache under two keys,    *)
(* in whatever order and spelling cargo gives its arguments.                 *)
OneEntryPerUnit ==
    LET units(k) == IF entries[k] \in {NoEntry, Broken} THEN {}
                    ELSE {entries[k][f].unit : f \in {g \in DOMAIN entries[k] : IsDepInfo(g)}}
    IN  \A k, l \in Key : k # l => units(k) \cap units(l) = {}

(* A published entry is never replaced by another, by whatever order two     *)
(* writers come in: a reader that opened it and one that comes later agree.  *)
PublishedOnce ==
    [][\A k \in Key : entries[k] # NoEntry => entries'[k] \in {entries[k], NoEntry, Broken}]_vars
=============================================================================
