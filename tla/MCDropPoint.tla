---------------------------- MODULE MCDropPoint -----------------------------
(* Values for the constants of DropPoint: calls cargo makes for one crate of *)
(* the registry, in two workspaces, each different from the first in one     *)
(* respect; and calls that are not to be cached.                             *)
EXTENDS DropPoint

(* The usual call: one crate, two features, two dependencies.                *)
Usual ==
    [crate    |-> <<<<"--crate-name">>, <<"krate">>, <<"--edition", "=", "2021">>>>,
     types    |-> <<<<"--crate-type">>, <<"lib">>>>,
     emit     |-> <<<<"--emit", "=", "dep-info", ",", "metadata", ",", "link">>>>,
     codegen  |-> <<<<"-C", "opt-level", "=", "3">>>>,
     cfgs     |-> <<<<"--cfg">>, <<"fast">>, <<"--cfg">>, <<"std">>>>,
     externs  |-> <<"a-1.rmeta", "b-1.rmeta">>,
     others   |-> <<>>]

LineOf(u, dir) ==
    <<<<"rustc">>>> \o u.crate \o <<<<"registry", "krate.rs">>>> \o u.types \o u.emit \o u.codegen \o u.cfgs
        \o <<<<"-C">>, <<"extra-filename", "=", "-x">>,
             <<"--out-dir">>, <<dir, "deps">>, <<"-L">>, <<"dependency", "=", dir, "deps">>>>
        \o FlattenSeq([i \in DOMAIN u.externs |->
               <<<<"--extern">>, <<u.externs[i], "=", dir, u.externs[i]>>>>])
        \o u.others

File(suffix) == <<"krate", "-x", suffix>>

Call(unit, dir, line) ==
    [unit |-> unit, by |-> "stable", member |-> FALSE, dir |-> dir, line |-> line,
     prints |-> {File(".rlib")}, writes |-> {File(".rlib"), File(".rmeta"), File(".d")},
     inputs |-> <<>>]

Checks(c) == [c EXCEPT !.writes = {File(".rmeta"), File(".d")}]

Static(c) == [c EXCEPT !.prints = @ \cup {File(".a")}, !.writes = @ \cup {File(".a")}]

Check  == [Usual EXCEPT !.emit = <<<<"--emit", "=", "dep-info", ",", "metadata">>>>]
Native(dir, lib) == [Usual EXCEPT
    !.types = <<<<"--crate-type", "=", "rlib", ",", "staticlib">>>>,
    !.others = <<<<"-L">>, <<"native", "=", dir, "native">>, <<"-l", "static", "=", lib>>>>]
ForTarget(word) == [Usual EXCEPT !.others = <<<<"--target">>, word>>]
Tuned(path) == [Usual EXCEPT !.others = <<<<"-C", "profile-use", "=">> \o path>>]

Profile == <<"/", "ws1", "data.profdata">>

Profiled(unit, path) ==
    [Call(unit, "ws1", LineOf(Tuned(path), "ws1")) EXCEPT
        !.inputs = Profile :> [file |-> "profile", unit |-> "profile"]]

Registry ==
    <<Call("usual", "ws1", LineOf(Usual, "ws1")),
      \* the same in another workspace, in other words and another order
      Call("usual", "ws2", LineOf([Usual EXCEPT
          !.crate = <<<<"rustc">>, <<"--color", "=", "always">>, <<"--crate-name", "=", "krate">>,
                      <<"--edition">>, <<"2021">>>>,
          !.types = <<<<"--crate-type", "=", "rlib">>>>,
          !.codegen = <<<<"-C">>, <<"opt-level", "=", "3">>>>,
          !.cfgs = <<<<"--cfg", "=", "std">>, <<"--cfg", "=", "fast">>>>,
          !.externs = <<"b-1.rmeta", "a-1.rmeta">>,
          !.others = <<<<"--check-cfg">>, <<"seen">>, <<"--diagnostic-width", "=", "80">>>>], "ws2")),
      Call("slow", "ws1", LineOf([Usual EXCEPT !.cfgs = <<<<"--cfg">>, <<"std">>>>], "ws1")),
      Call("newer dependency", "ws1", LineOf([Usual EXCEPT !.externs[1] = "a-2.rmeta"], "ws1")),
      Call("debug", "ws1", LineOf([Usual EXCEPT !.codegen = <<<<"-C", "opt-level", "=", "0">>>>], "ws1")),
      Checks(Call("check", "ws1", LineOf(Check, "ws1"))),
      Checks(Call("check", "ws2", LineOf(Check, "ws2"))),
      Static(Call("zlib", "ws1", LineOf(Native("ws1", "z"), "ws1"))),
      Static(Call("zlib", "ws2", LineOf([Native("ws2", "z") EXCEPT
          !.types = <<<<"--crate-type">>, <<"staticlib", ",", "lib">>>>], "ws2"))),
      Static(Call("zlib.lib", "ws3", LineOf(Native("ws3", "z"), "ws3"))),
      Call("spec 1", "ws1", LineOf(ForTarget(<<"ws1", "spec.json">>), "ws1")),
      Call("spec 2", "ws2", LineOf(ForTarget(<<"ws2", "spec.json">>), "ws2")),
      Call("arm", "ws1", LineOf(ForTarget(<<"arm">>), "ws1")),
      \* a profile given by its path, and one named from the working directory
      Profiled("tuned", Profile),
      Profiled("tuned here", <<"data.profdata">>),
      \* the usual call of another rustc
      [Call("usual", "ws1", LineOf(Usual, "ws1")) EXCEPT !.by = "nightly"]>>

(* A name rustc may take for a built-in target or a file, an unknown kind of *)
(* crate, incremental compilation, and a crate of the workspace.             *)
Uncached ==
    <<Call("odd", "ws1", LineOf(ForTarget(<<"odd">>), "ws1")),
      Call("macro", "ws1", LineOf([Usual EXCEPT !.types = <<<<"--crate-type">>, <<"proc-macro">>>>], "ws1")),
      Call("steps", "ws1", LineOf([Usual EXCEPT !.others = <<<<"-C">>, <<"incremental", "=", "dir">>>>], "ws1")),
      [Call("own", "ws1", <<<<"drop-point-skip">>>> \o LineOf(Usual, "ws1")) EXCEPT !.member = TRUE]>>

Calls == Registry \o Uncached

(* Any two calls, and some three of which two or all share an entry.         *)
Builds ==
    {<<c, d>> \in (DOMAIN Calls) \X (DOMAIN Calls) : c <= d}
        \cup {<<1, 1, 2>>, <<1, 2, 3>>}

Odd == {<<"odd">>}

Specs == (<<"ws1", "spec.json">> :> <<"contents 1">>) @@ (<<"ws2", "spec.json">> :> <<"contents 2">>)

Archives ==
    [d \in {<<<<"ws1", "native">>, <<"z">>>>, <<<<"ws2", "native">>, <<"z">>>>} |-> "libz.a"]
        @@ (<<<<"ws3", "native">>, <<"z">>>> :> "z.lib")

(* In the order of their bytes.                                              *)
Tokens == <<"=", "a-1.rmeta", "a-2.rmeta", "b-1.rmeta", "fast", "libz.a", "std", "z.lib">>

Bytes == [t \in Range(Tokens) |-> CHOOSE i \in DOMAIN Tokens : Tokens[i] = t]
=============================================================================
