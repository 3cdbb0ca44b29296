----------------------------- MODULE RustcArgs ------------------------------
(* drop-point/src/rustc_args.rs: how a rustc command line is read, and which *)
(* ones can be cached.  A word of the command line is a sequence of tokens:  *)
(* `--cfg=unix` is <<"--cfg", "=", "unix">>, `-Copt-level=3` is              *)
(* <<"-C", "opt-level", "=", "3">>, and a path is a directory and a name.    *)
EXTENDS Naturals, FiniteSets, SequencesExt

CONSTANTS
    OtherFlag,     \* tokens that begin with a dash and are not in the table
    JsonTarget,    \* target specification (a word that ends in .json) -> its
                   \*   contents
    UnsureTarget,  \* other targets X for which a file X.json exists
    Archive        \* <<directory, library>> -> the name of its archive there

-----------------------------------------------------------------------------
(* The table ARGS.  The value of a long flag may be joined to it by "=", that *)
(* of a short one by nothing; either may be the next word.  Bare flags take  *)
(* none.                                                                     *)

PassThrough ==
    {"--allow", "--cap-lints", "--cfg", "--check-cfg", "--deny",
     "--diagnostic-width", "--edition", "--env-set", "--error-format",
     "--forbid", "--force-warn", "--remap-path-prefix", "--remap-path-scope",
     "--warn", "-A", "-D", "-F", "-W"}

TooHard == {"-", "--sysroot", "-o"}

NotCompilation ==
    {"--explain", "--help", "--pretty", "--print", "--unpretty", "--version", "-V"}

CodeGen == {"--codegen", "-C"}

BareFlag == {"-", "--help", "--version", "-V"}

ShortFlag == {"-A", "-C", "-D", "-F", "-L", "-W", "-Z", "-l", "-o"}

LongFlag ==
    (PassThrough \cup TooHard \cup NotCompilation \cup CodeGen
        \cup {"--color", "--crate-name", "--crate-type", "--emit", "--extern",
              "--json", "--out-dir", "--target"}) \ (BareFlag \cup ShortFlag)

-----------------------------------------------------------------------------
(* ArgsIter: words to arguments.  A positional word or an unknown flag is an *)
(* argument without a flag.                                                  *)

Argument(flag, joined, value) == [flag |-> flag, joined |-> joined, value |-> value]

Unfinished == Argument("unfinished", FALSE, <<>>)

(* search, cmp_arg: is the word that of a flag of the table?                 *)
Spells(word) ==
    \/ Head(word) \in BareFlag /\ Len(word) = 1
    \/ Head(word) \in ShortFlag
    \/ Head(word) \in LongFlag /\ (Len(word) = 1 \/ word[2] = "=")

TakesNext(word) == Spells(word) /\ Len(word) = 1 /\ Head(word) \notin BareFlag

ClassifyArg(line, i) ==
    LET word == line[i]
        flag == Head(word)
    IN  CASE ~Spells(word)       -> Argument("", FALSE, word)
          [] flag \in BareFlag   -> Argument(flag, FALSE, <<>>)
          [] Len(word) > 1       -> Argument(flag, TRUE,
                                        SubSeq(word, IF flag \in LongFlag THEN 3 ELSE 2, Len(word)))
          [] i < Len(line)       -> Argument(flag, FALSE, line[i + 1])
          [] flag \in ShortFlag  -> Argument(flag, TRUE, <<>>)
          [] OTHER               -> Unfinished

ArgsIter(line) ==
    LET From[i \in 1 .. Len(line) + 2] ==
            IF i > Len(line) THEN <<>>
            ELSE <<ClassifyArg(line, i)>> \o From[IF TakesNext(line[i]) THEN i + 2 ELSE i + 1]
    IN  From[1]

IsRaw(a) ==
    a.flag = "" /\ Head(a.value) \notin BareFlag \cup ShortFlag \cup LongFlag \cup OtherFlag

(* Variant: the spelling stays as it was.                                    *)
KeepSpelling(a) == a

(* Argument::normalize: as two words, however it was written.  (A short flag *)
(* without a value, which it leaves as it is, is written the same.)          *)
Normalize(a) == [a EXCEPT !.joined = FALSE]

-----------------------------------------------------------------------------
(* FromArg and IntoArg: values with a structure, and how they are written    *)
(* again.                                                                    *)

HasKey(value) == \E i \in DOMAIN value : value[i] = "="

KeyPart(value) == SubSeq(value, 1, SelectInSeq(value, LAMBDA t : t = "=") - 1)

ValuePart(value) == SubSeq(value, SelectInSeq(value, LAMBDA t : t = "=") + 1, Len(value))

(* A list separated by commas.                                               *)
Listed(value) == Range(value) \ {","}

CrateTypes(value) == {IF t = "lib" THEN "rlib" ELSE t : t \in Listed(value)}

IntoArg(a) ==
    CASE a.flag = "-l" /\ ~HasKey(a.value) -> <<"dylib", "=">> \o a.value
      [] a.flag = "-L" /\ ~HasKey(a.value) -> <<"all", "=">> \o a.value
      [] a.flag = "--crate-type" ->
             IF CrateTypes(a.value) = {"rlib", "staticlib"}
             THEN <<"rlib", ",", "staticlib">> ELSE SetToSeq(CrateTypes(a.value))
      [] OTHER -> a.value

(* Argument::iter_os_strings, the words one after the other.                 *)
Wire(a) ==
    CASE a.flag = "" -> a.value
      [] a.joined /\ a.flag \in LongFlag /\ a.value # <<>> -> <<a.flag, "=">> \o IntoArg(a)
      [] OTHER -> <<a.flag>> \o IntoArg(a)

-----------------------------------------------------------------------------
(* parse_arguments.  Its two refusals, CannotCache and NotCompilation, differ *)
(* in what is logged only.                                                   *)

ValuesOf(args, flags) ==
    LET given == SelectSeq(args, LAMBDA a : a.flag \in flags)
    IN  [i \in DOMAIN given |-> given[i].value]

(* The values of -C opt=value.                                               *)
OptionsOf(args, opt) ==
    SelectSeq(ValuesOf(args, CodeGen), LAMBDA v :
        IF HasKey(v) THEN KeyPart(v) = <<opt>> ELSE v = <<opt>>)

Given(values, otherwise) == IF values = <<>> THEN otherwise ELSE Last(values)

(* Called by way of clippy-driver, the first word is rustc and no input.     *)
WithoutRustc(args) ==
    IF args # <<>> /\ args[1].flag = "" /\ args[1].value = <<"rustc">> THEN Tail(args) ELSE args

CanParse(args) ==
    /\ Unfinished \notin Range(args)
    /\ \A v \in Range(ValuesOf(args, {"--extern"})) : HasKey(v)
    /\ \A a \in Range(args) : a.flag \notin TooHard \cup NotCompilation

OutputsKnown(args) ==
    LET emits == ValuesOf(args, {"--emit"})
        types == ValuesOf(args, {"--crate-type"})
    IN  /\ Len(emits) = 1
        /\ Listed(emits[1]) \cap {"link", "metadata"} # {}
        /\ Listed(emits[1]) \subseteq {"link", "metadata", "dep-info"}
        /\ types # <<>>
        /\ \A v \in Range(types) : CrateTypes(v) \subseteq {"rlib", "staticlib"}
        /\ OptionsOf(args, "incremental") = <<>>
        /\ \A v \in Range(OptionsOf(args, "extra-filename")) : HasKey(v)
        /\ ValuesOf(args, {"--out-dir"}) # <<>>
        /\ ValuesOf(args, {"--crate-name"}) # <<>>

InputsKnown(args) ==
    /\ Len(SelectSeq(args, IsRaw)) = 1
    /\ \A v \in Range(ValuesOf(args, {"--target"})) : v \notin UnsureTarget

Cacheable(line) ==
    LET args == WithoutRustc(ArgsIter(line))
    IN  CanParse(args) /\ OutputsKnown(args) /\ InputsKnown(args)

(* The archives of -l static=NAME, each in the first of the -L directories   *)
(* that has it.                                                              *)
StaticLibs(args) ==
    LET names == SelectSeq(ValuesOf(args, {"-l"}), LAMBDA v : HasKey(v) /\ KeyPart(v) = <<"static">>)
        paths == SelectSeq(ValuesOf(args, {"-L"}), LAMBDA v :
                     HasKey(v) => KeyPart(v) \in {<<"native">>, <<"all">>})
        DirOf(v) == IF HasKey(v) THEN ValuePart(v) ELSE v
        Has(d, n) == <<DirOf(d), ValuePart(n)>> \in DOMAIN Archive
        found == SelectSeq(names, LAMBDA n : \E d \in Range(paths) : Has(d, n))
        First(n) == DirOf(SelectSeq(paths, LAMBDA d : Has(d, n))[1])
    IN  [i \in DOMAIN found |-> Archive[<<First(found[i]), ValuePart(found[i])>>]]

(* ParsedArguments, for a line that is Cacheable.                            *)
ParsedArguments(line) ==
    LET args  == WithoutRustc(ArgsIter(line))
        kept  == SelectSeq(args, LAMBDA a : a.flag # "--color")
        emit  == Listed(ValuesOf(args, {"--emit"})[1])
        json  == SelectSeq(ValuesOf(args, {"--target"}), LAMBDA v : v \in DOMAIN JsonTarget)
        use   == SelectSeq(OptionsOf(args, "profile-use"), HasKey)
    IN  [arguments   |-> [i \in DOMAIN kept |-> Normalize(kept[i])],
         crate_name  |-> Last(ValuesOf(args, {"--crate-name"})),
         extra       |-> LET extras == OptionsOf(args, "extra-filename")
                         IN  IF extras = <<>> THEN <<>> ELSE ValuePart(Last(extras)),
         crate_types |-> UNION {CrateTypes(v) : v \in Range(ValuesOf(args, {"--crate-type"}))},
         emit        |-> emit,
         externs     |-> LET values == ValuesOf(args, {"--extern"})
                         IN  [i \in DOMAIN values |-> Last(values[i])],
         staticlibs  |-> StaticLibs(args),
         profile     |-> IF "link" \in emit /\ use # <<>> THEN ValuePart(Last(use)) ELSE <<>>,
         target_json |-> Given(json, <<>>)]
=============================================================================
