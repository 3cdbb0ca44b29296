------------------------------- MODULE Digest --------------------------------
(* drop-point/src/digest.rs: what of a command line goes into the cache key. *)
(* blake3 is taken to be injective, so a key is the text that is hashed.     *)
EXTENDS RustcArgs

CONSTANTS
    Rank,   \* token -> its place in the order of byte strings
    NUL

(* Variant: the settings of code generation are left out too.                *)
ShouldHashNoCodegen(a, json) ==
    /\ a.flag \notin {"--extern", "-L", "--check-cfg", "--out-dir", "--diagnostic-width", "-C"}
    /\ ~(json /\ a.flag = "--target")

(* Paths and noise are left out; a target specification is hashed by its     *)
(* contents.                                                                 *)
ShouldHash(a, json) ==
    /\ a.flag \notin {"--extern", "-L", "--check-cfg", "--out-dir", "--diagnostic-width"}
    /\ ~(json /\ a.flag = "--target")

(* Words in the order of their bytes.                                        *)
Before(s, t) ==
    \/ IsStrictPrefix(s, t)
    \/ \E i \in DOMAIN s \cap DOMAIN t :
          /\ SubSeq(s, 1, i - 1) = SubSeq(t, 1, i - 1)
          /\ s[i] # t[i] /\ Rank[s[i]] < Rank[t[i]]

Wires(args) == [i \in DOMAIN args |-> Wire(args[i])]

(* join puts words together with nothing between them; the --cfg arguments   *)
(* come last, in order.                                                      *)
HashArgv(p) ==
    LET hashed == SelectSeq(p.arguments, LAMBDA a : ShouldHash(a, p.target_json # <<>>))
        cfgs   == SelectSeq(hashed, LAMBDA a : a.flag = "--cfg")
        others == SelectSeq(hashed, LAMBDA a : a.flag # "--cfg")
    IN  FlattenSeq(Wires(others)) \o FlattenSeq(SortSeq(Wires(cfgs), Before))

(* Variant: in the order they came.                                          *)
HashNamesUnsorted(names) == FlattenSeq([i \in DOMAIN names |-> <<names[i], NUL>>])

HashBasenames(names) ==
    LET sorted == SortSeq(names, LAMBDA m, n : Rank[m] < Rank[n])
    IN  FlattenSeq([i \in DOMAIN sorted |-> <<sorted[i], NUL>>])

(* A specification that cannot be opened leaves the call to rustc, which     *)
(* cannot open it either; the ones here exist.                               *)
HashRustcArgs(p) ==
    HashArgv(p) \o HashBasenames(p.externs) \o HashBasenames(p.staticlibs)
        \o (IF p.target_json = <<>> THEN <<>> ELSE JsonTarget[p.target_json])
=============================================================================
