--------------------------- MODULE DropPoint_proofs ---------------------------
(* The cache store, for any commands, invocations, edits, expunges and power *)
(* failures: given a sound key, no interleaving gives a call another's files.*)
EXTENDS DropPoint, TLAPS

(* The key tells apart what must be told apart: of two calls that share one, *)
(* the other's entry holds all that this one would make (a list of outputs   *)
(* left short is a file missing after a hit), and the same rustc would make  *)
(* the same of both.                                                         *)
KeysSound ==
    \A c, d \in DOMAIN Command : KeyOf[c] = KeyOf[d] /\ KeyOf[c] # NoKey =>
        /\ ~Command[c].member
        /\ Command[c].unit = Command[d].unit
        /\ Command[c].inputs = Command[d].inputs
        /\ PlanOf[c] = PlanOf[d]
        /\ {f \in Command[c].writes : ~IsDepInfo(f)} \subseteq PlanOf[c] \cap Command[d].writes

(* What an entry holds that is right for the call i.                         *)
EntryFor(i, e) ==
    /\ \A f \in Writes(i) \cap DOMAIN e : ~IsDepInfo(f) => e[f] \in Products(argv[i], f, 0)
    /\ \A f \in DOMAIN Inputs(i) \cap DOMAIN e : e[f] = Inputs(i)[f]

Shape ==
    /\ argv \in Seq(DOMAIN Command)
    /\ entries = [k \in Key |-> entries[k]]
    /\ \A i \in Invocation : KeyFor(i) # NoKey => KeyFor(i) \in Key
    /\ call = [i \in Invocation |-> call[i]]
    /\ \A i \in Invocation :
          call[i] = [pc |-> call[i].pc, entry |-> call[i].entry, todo |-> call[i].todo]
    /\ out = [i \in Invocation |-> out[i]]
    /\ \A i \in Invocation :
          out[i] = [f \in Writes(i) \cup PlanFor(i) \cup DOMAIN Inputs(i) |-> out[i][f]]
    /\ since = [i \in Invocation |-> since[i]]
    /\ revision \in Nat
    /\ \A i \in Invocation : since[i] \in 0 .. revision

(* Of the call i in the state s, with the files g, begun at n: inputs stay,  *)
InputsKept(i, g) == \A f \in DOMAIN Inputs(i) : g[f] = Inputs(i)[f]

(* what has been extracted so far is right, and so is what is to come,       *)
ExtractOK(i, s, g) ==
    s.pc = "extract" =>
        /\ KeyFor(i) # NoKey
        /\ EntryFor(i, s.entry)
        /\ s.todo \subseteq PlanFor(i)
        /\ \A f \in Writes(i) \cap (PlanFor(i) \ s.todo) :
              ~IsDepInfo(f) => g[f] \in Products(argv[i], f, 0)

(* what rustc has made is there until the wrapper exits,                     *)
Made(i, s, g, n) ==
    s.pc \in {"save", "put", "persist", "built", "served"} =>
        \A f \in Writes(i) : IsDepInfo(f) \/
            \E r \in n .. revision : g[f] \in Products(argv[i], f, r)

(* and only that is saved.                                                   *)
Saving(i, s) ==
    /\ s.pc \in {"save", "put", "persist"} => KeyFor(i) # NoKey
    /\ s.pc \in {"put", "persist"} => EntryFor(i, s.entry)

CallOK(i, s, g, n) ==
    InputsKept(i, g) /\ ExtractOK(i, s, g) /\ Made(i, s, g, n) /\ Saving(i, s)

CallsOK == \A i \in Invocation : CallOK(i, call[i], out[i], since[i])

(* An entry is right for every call that may hit it.                         *)
EntriesOK ==
    \A i \in Invocation :
        KeyFor(i) # NoKey /\ entries[KeyFor(i)] \notin {NoEntry, Broken}
            => EntryFor(i, entries[KeyFor(i)])

StoreInv == Shape /\ CallsOK /\ EntriesOK

-----------------------------------------------------------------------------
(* With a key, a product does not depend on edits, and what one call makes   *)
(* is what another of that key would make.                                   *)
LEMMA SameProducts ==
    ASSUME KeysSound, NEW c \in DOMAIN Command, NEW d \in DOMAIN Command,
           KeyOf[c] = KeyOf[d], KeyOf[c] # NoKey, NEW f, ~IsDepInfo(f)
    PROVE  /\ Products(c, f, 0) = Products(d, f, 0)
           /\ \A r : Products(c, f, r) = Products(c, f, 0)
<1>1. /\ ~Command[c].member /\ ~Command[d].member
      /\ Command[c].unit = Command[d].unit
    BY DEF KeysSound
<1>2. ASSUME NEW rustc, NEW r
      PROVE  MadeBy(rustc, c, f, r) = MadeBy(rustc, c, f, 0) /\ MadeBy(rustc, c, f, 0) = MadeBy(rustc, d, f, 0)
    BY <1>1 DEF MadeBy
<1> QED BY <1>2 DEF Products

(* What a rustc makes of a command is one of its products.                   *)
LEMMA ProductIsOne ==
    ASSUME NEW c \in DOMAIN Command, NEW f, NEW r
    PROVE  Product(c, f, r) \in Products(c, f, r)
BY DEF Products, Product

(* An entry that is right for one call is right for all that share its key.  *)
LEMMA EntryForAll ==
    ASSUME KeysSound, argv \in Seq(DOMAIN Command), NEW i \in Invocation, NEW j \in Invocation,
           KeyFor(i) = KeyFor(j), KeyFor(i) # NoKey, NEW e, EntryFor(i, e)
    PROVE  EntryFor(j, e)
<1>1. argv[i] \in DOMAIN Command /\ argv[j] \in DOMAIN Command
    BY DEF Invocation
<1>2. /\ Inputs(i) = Inputs(j)
      /\ \A f \in Writes(j) : ~IsDepInfo(f) => f \in Writes(i)
    BY <1>1 DEF KeysSound, KeyFor, Inputs, Writes
<1>3. ASSUME NEW f \in Writes(j) \cap DOMAIN e, ~IsDepInfo(f)
      PROVE  e[f] \in Products(argv[j], f, 0)
    BY <1>1, <1>2, <1>3, SameProducts DEF EntryFor, KeyFor
<1> QED BY <1>2, <1>3 DEF EntryFor

-----------------------------------------------------------------------------
(* Before the first call nothing is claimed but that inputs are inputs.      *)
LEMMA InitInv == Init => StoreInv
<1> SUFFICES ASSUME Init PROVE StoreInv
    OBVIOUS
<1> USE DEF Init, At
<1>1. Shape
    <2>1. argv \in Seq(DOMAIN Command)
        BY DropPointAssumption
    <2>2. /\ entries = [k \in Key |-> entries[k]]
          /\ call = [i \in Invocation |-> call[i]]
          /\ out = [i \in Invocation |-> out[i]]
          /\ since = [i \in Invocation |-> since[i]]
          /\ \A i \in Invocation : KeyFor(i) # NoKey => KeyFor(i) \in Key
        BY DEF Key
    <2>3. \A i \in Invocation :
              call[i] = [pc |-> call[i].pc, entry |-> call[i].entry, todo |-> call[i].todo]
        OBVIOUS
    <2>4. \A i \in Invocation :
              out[i] = [f \in Writes(i) \cup PlanFor(i) \cup DOMAIN Inputs(i) |-> out[i][f]]
        OBVIOUS
    <2>5. revision \in Nat /\ \A i \in Invocation : since[i] \in 0 .. revision
        OBVIOUS
    <2> HIDE DEF Init, At
    <2> QED BY <2>1, <2>2, <2>3, <2>4, <2>5 DEF Shape
<1>2. CallsOK
    BY DEF CallsOK, CallOK, InputsKept, ExtractOK, Made, Saving
<1>3. EntriesOK
    BY DEF EntriesOK
<1> QED BY <1>1, <1>2, <1>3 DEF StoreInv

(* Calls stand still, or are killed.                                         *)
LEMMA StoreStepInv ==
    ASSUME StoreInv, UNCHANGED <<argv, out, since>>,
           call' = [i \in Invocation |-> call'[i]],
           \A i \in Invocation : call'[i] \in {call[i], At("killed")},
           revision' \in Nat, revision <= revision',
           entries' = [k \in Key |-> entries'[k]],
           \A k \in Key : entries'[k] \in {entries[k], NoEntry, Broken}
    PROVE  StoreInv'
<1> USE DEF StoreInv
<1>1. Shape'
    <2>1. Key' = Key
        BY DEF Key
    <2>2. \A i \in Invocation : since'[i] \in 0 .. revision'
        BY DEF Shape
    <2>3. \A i \in Invocation :
              call'[i] = [pc |-> call'[i].pc, entry |-> call'[i].entry, todo |-> call'[i].todo]
        BY DEF Shape, At
    <2> QED BY <2>1, <2>2, <2>3 DEF Shape, Invocation, Writes, Inputs, PlanFor, KeyFor
<1>2. CallsOK'
    <2> SUFFICES ASSUME NEW i \in Invocation
                 PROVE  CallOK(i, call[i], out[i], since[i])'
        BY DEF CallsOK, Invocation
    <2>1. CallOK(i, call[i], out[i], since[i])
        BY DEF CallsOK
    <2>2. since[i] .. revision \subseteq since[i] .. revision'
        BY DEF Shape
    <2>3. CASE call'[i] = call[i]
        BY <2>1, <2>2, <2>3
           DEF CallOK, InputsKept, ExtractOK, Made, Saving, EntryFor, Writes, Inputs, PlanFor, KeyFor
    <2>4. CASE call'[i] = At("killed")
        BY <2>1, <2>4 DEF CallOK, InputsKept, ExtractOK, Made, Saving, At, Inputs
    <2> QED BY <2>3, <2>4
<1>3. EntriesOK'
    <2> SUFFICES ASSUME NEW i \in Invocation,
                        KeyFor(i) # NoKey, entries'[KeyFor(i)] \notin {NoEntry, Broken}
                 PROVE  EntryFor(i, entries[KeyFor(i)])'
        BY DEF EntriesOK, Invocation, KeyFor
    <2>1. entries'[KeyFor(i)] = entries[KeyFor(i)]
        BY DEF Shape
    <2>2. EntryFor(i, entries[KeyFor(i)])
        BY <2>1 DEF EntriesOK
    <2> QED BY <2>1, <2>2 DEF EntryFor, KeyFor, Writes, Inputs
<1> QED BY <1>1, <1>2, <1>3

(* One call moves.                                                           *)
LEMMA CallStepInv ==
    ASSUME StoreInv, NEW i \in Invocation, NEW s, NEW g, NEW n \in 0 .. revision,
           s = [pc |-> s.pc, entry |-> s.entry, todo |-> s.todo],
           g = [f \in Writes(i) \cup PlanFor(i) \cup DOMAIN Inputs(i) |-> g[f]],
           CallOK(i, s, g, n),
           UNCHANGED <<argv, revision>>,
           call' = [call EXCEPT ![i] = s],
           out' = [out EXCEPT ![i] = g],
           since' = [since EXCEPT ![i] = n],
           entries' = [k \in Key |-> entries'[k]],
           EntriesOK'
    PROVE  StoreInv'
<1> USE DEF StoreInv
<1>1. Invocation' = Invocation /\ Key' = Key
    BY DEF Invocation, Key
<1>2. /\ call'[i] = s /\ out'[i] = g /\ since'[i] = n
      /\ \A j \in Invocation \ {i} : call'[j] = call[j] /\ out'[j] = out[j] /\ since'[j] = since[j]
    <2>1. /\ call'[i] = s /\ out'[i] = g /\ since'[i] = n
        BY ZenonT(40) DEF Shape
    <2>2. \A j \in Invocation : j # i => call'[j] = call[j] /\ out'[j] = out[j] /\ since'[j] = since[j]
        BY ZenonT(40) DEF Shape
    <2> QED BY <2>1, <2>2, ZenonT(40)
<1>3. Shape'
    <2>1. /\ call' = [j \in Invocation |-> call'[j]]
          /\ out' = [j \in Invocation |-> out'[j]]
          /\ since' = [j \in Invocation |-> since'[j]]
        BY DEF Shape
    <2>2. \A j \in Invocation :
              call'[j] = [pc |-> call'[j].pc, entry |-> call'[j].entry, todo |-> call'[j].todo]
        BY <1>2 DEF Shape
    <2>3. \A j \in Invocation :
              /\ out'[j] = [f \in Writes(j) \cup PlanFor(j) \cup DOMAIN Inputs(j) |-> out'[j][f]]
              /\ since'[j] \in 0 .. revision
        BY <1>2 DEF Shape
    <2> QED BY <1>1, <2>1, <2>2, <2>3 DEF Shape, Writes, Inputs, PlanFor, KeyFor
<1>4. CallsOK'
    <2> SUFFICES ASSUME NEW j \in Invocation
                 PROVE  CallOK(j, call[j], out[j], since[j])'
        BY <1>1 DEF CallsOK
    <2>1. CallOK(j, call'[j], out'[j], since'[j])
        BY <1>2 DEF CallsOK
    <2>2. /\ Writes(j)' = Writes(j) /\ Inputs(j)' = Inputs(j)
          /\ PlanFor(j)' = PlanFor(j) /\ KeyFor(j)' = KeyFor(j)
        BY DEF Writes, Inputs, PlanFor, KeyFor
    <2>3. InputsKept(j, out[j])'
        BY <2>1, <2>2 DEF CallOK, InputsKept
    <2>4. ExtractOK(j, call[j], out[j])'
        BY <2>1, <2>2 DEF CallOK, ExtractOK, EntryFor
    <2>5. Made(j, call[j], out[j], since[j])'
        BY <2>1, <2>2 DEF CallOK, Made
    <2>6. Saving(j, call[j])'
        BY <2>1, <2>2 DEF CallOK, Saving, EntryFor
    <2> QED BY <2>3, <2>4, <2>5, <2>6 DEF CallOK
<1> QED BY <1>3, <1>4

(* The entries stay.                                                         *)
LEMMA SameEntries ==
    ASSUME StoreInv, UNCHANGED <<argv, entries>>
    PROVE  entries' = [k \in Key |-> entries'[k]] /\ EntriesOK'
BY DEF StoreInv, Shape, EntriesOK, EntryFor, Invocation, Key, KeyFor, Writes, Inputs

(* A step that changes only where a call is.                                 *)
LEMMA MoveInv ==
    ASSUME StoreInv, NEW i \in Invocation, NEW s,
           s = [pc |-> s.pc, entry |-> s.entry, todo |-> s.todo],
           ExtractOK(i, s, out[i]), Made(i, s, out[i], since[i]), Saving(i, s),
           Goto(i, s), UNCHANGED <<entries, out, since, hostVars>>
    PROVE  StoreInv'
<1>1. /\ call' = [call EXCEPT ![i] = s]
      /\ UNCHANGED <<argv, revision, entries, out, since>>
    BY DEF Goto, hostVars
<1>2. /\ out' = [out EXCEPT ![i] = out[i]]
      /\ since' = [since EXCEPT ![i] = since[i]]
      /\ since[i] \in 0 .. revision
      /\ out[i] = [f \in Writes(i) \cup PlanFor(i) \cup DOMAIN Inputs(i) |-> out[i][f]]
    BY <1>1 DEF StoreInv, Shape
<1>3. CallOK(i, s, out[i], since[i])
    BY DEF StoreInv, CallsOK, CallOK
<1> QED BY <1>1, <1>2, <1>3, SameEntries, CallStepInv

-----------------------------------------------------------------------------
(* The wrapper looks into the cache.                                         *)
LEMMA BeginInv ==
    ASSUME StoreInv, NEW i \in Invocation, Hit(i) \/ Miss(i)
    PROVE  StoreInv'
<1> DEFINE hit == [pc |-> "extract", entry |-> entries[KeyFor(i)], todo |-> PlanFor(i)]
<1>1. PICK s : ((s = hit /\ Hit(i)) \/ s = At("compile")) /\ call' = [call EXCEPT ![i] = s]
    BY DEF Hit, Miss, Goto, Extracting
<1>2. /\ s = [pc |-> s.pc, entry |-> s.entry, todo |-> s.todo]
      /\ UNCHANGED <<argv, revision, entries, out>>
      /\ since' = [since EXCEPT ![i] = revision]
    BY <1>1 DEF At, Hit, Miss, hostVars
<1>3. /\ out' = [out EXCEPT ![i] = out[i]]
      /\ revision \in 0 .. revision
      /\ out[i] = [f \in Writes(i) \cup PlanFor(i) \cup DOMAIN Inputs(i) |-> out[i][f]]
    <2>1. revision \in Nat /\ out = [j \in Invocation |-> out[j]]
        BY DEF StoreInv, Shape
    <2>2. out[i] = [f \in Writes(i) \cup PlanFor(i) \cup DOMAIN Inputs(i) |-> out[i][f]]
        BY DEF StoreInv, Shape
    <2>3. revision \in 0 .. revision
        BY <2>1
    <2>4. out' = [out EXCEPT ![i] = out[i]]
        BY <1>2, <2>1
    <2> QED BY <2>2, <2>3, <2>4
<1>4. CallOK(i, s, out[i], revision)
    <2>1. InputsKept(i, out[i])
        BY DEF StoreInv, CallsOK, CallOK
    <2>2. CASE s = At("compile")
        BY <2>1, <2>2 DEF CallOK, ExtractOK, Made, Saving, At
    <2>3. CASE s = hit /\ Hit(i)
        <3>1. KeyFor(i) # NoKey /\ EntryFor(i, entries[KeyFor(i)])
            BY <2>3 DEF Hit, StoreInv, EntriesOK
        <3> QED BY <2>1, <2>3, <3>1 DEF CallOK, ExtractOK, Made, Saving
    <2> QED BY <2>1, <2>2, <2>3, <1>1
<1> QED BY <1>1, <1>2, <1>3, <1>4, SameEntries, CallStepInv

(* Steps to the end of a call, or to the compiler, or on with what it has.   *)
LEMMA MovesInv ==
    ASSUME StoreInv, NEW i \in Invocation,
           \/ ExtractFails(i) \/ AlreadyThere(i) \/ WriteTemp(i) \/ SaveFails(i) \/ Kill(i)
    PROVE  StoreInv'
<1>1. CallOK(i, call[i], out[i], since[i])
    BY DEF StoreInv, CallsOK
<1>2. CASE ExtractFails(i)
    <2>1. Goto(i, At("compile")) /\ UNCHANGED <<entries, out, since, hostVars>>
        BY <1>2 DEF ExtractFails
    <2> QED BY <2>1, MoveInv DEF At, ExtractOK, Made, Saving
<1>3. CASE AlreadyThere(i) \/ SaveFails(i)
    <2>1. /\ Goto(i, At("built")) /\ UNCHANGED <<entries, out, since, hostVars>>
          /\ call[i].pc \in {"save", "put", "persist"}
        BY <1>3 DEF AlreadyThere, SaveFails
    <2> QED BY <1>1, <2>1, MoveInv DEF At, CallOK, ExtractOK, Made, Saving
<1>4. CASE WriteTemp(i)
    <2> DEFINE s == [call[i] EXCEPT !.pc = "persist"]
    <2>1. /\ Goto(i, s) /\ UNCHANGED <<entries, out, since, hostVars>>
          /\ call[i].pc = "put"
        BY <1>4 DEF WriteTemp
    <2>2. s = [pc |-> "persist", entry |-> call[i].entry, todo |-> call[i].todo]
        BY DEF StoreInv, Shape
    <2> QED BY <1>1, <2>1, <2>2, MoveInv DEF CallOK, ExtractOK, Made, Saving
<1>5. CASE Kill(i)
    <2>1. Goto(i, At("killed")) /\ UNCHANGED <<entries, out, since, hostVars>>
        BY <1>5 DEF Kill
    <2> QED BY <2>1, MoveInv DEF At, ExtractOK, Made, Saving
<1> QED BY <1>2, <1>3, <1>4, <1>5

(* A hit has extracted all that rustc would have made.                       *)
LEMMA ServeInv ==
    ASSUME StoreInv, KeysSound, NEW i \in Invocation, Serve(i)
    PROVE  StoreInv'
<1>1. /\ Goto(i, At("served")) /\ UNCHANGED <<entries, out, since, hostVars>>
      /\ call[i].pc = "extract" /\ call[i].todo = {}
    BY DEF Serve
<1>2. /\ KeyFor(i) # NoKey
      /\ \A f \in Writes(i) \cap PlanFor(i) :
            ~IsDepInfo(f) => out[i][f] \in Products(argv[i], f, 0)
    BY <1>1 DEF StoreInv, CallsOK, CallOK, ExtractOK
<1>3. argv[i] \in DOMAIN Command
    BY DEF StoreInv, Shape, Invocation
<1>4. since[i] \in since[i] .. revision
    BY DEF StoreInv, Shape
<1>5. \A f \in Writes(i) : ~IsDepInfo(f) => out[i][f] \in Products(argv[i], f, since[i])
    <2>1. \A f \in Writes(i) : ~IsDepInfo(f) => f \in PlanFor(i)
        BY <1>2, <1>3 DEF KeysSound, KeyFor, Writes, PlanFor
    <2> QED BY <1>2, <1>3, <2>1, SameProducts DEF KeyFor
<1>6. Made(i, At("served"), out[i], since[i])
    BY <1>4, <1>5 DEF Made
<1> QED BY <1>1, <1>6, MoveInv DEF At, ExtractOK, Saving

(* What goes into an entry is what rustc has just made, and inputs.          *)
LEMMA CollectInv ==
    ASSUME StoreInv, KeysSound, NEW i \in Invocation, Collect(i)
    PROVE  StoreInv'
<1> DEFINE e == [f \in PlanFor(i) |-> out[i][f]]
           s == [pc |-> "put", entry |-> e, todo |-> {}]
<1>1. /\ Goto(i, s) /\ UNCHANGED <<entries, out, since, hostVars>>
      /\ call[i].pc = "save"
    BY DEF Collect
<1>2. /\ CallOK(i, call[i], out[i], since[i]) /\ KeyFor(i) # NoKey
    BY <1>1 DEF StoreInv, CallsOK, CallOK, Saving
<1>3. EntryFor(i, e)
    <2>1. ASSUME NEW f \in Writes(i), ~IsDepInfo(f)
          PROVE  out[i][f] \in Products(argv[i], f, 0)
        <3>1. argv[i] \in DOMAIN Command
            BY DEF StoreInv, Shape, Invocation
        <3>2. PICK r \in since[i] .. revision : out[i][f] \in Products(argv[i], f, r)
            BY <1>1, <1>2, <2>1 DEF CallOK, Made
        <3> QED BY <1>2, <2>1, <3>1, <3>2, SameProducts DEF KeyFor
    <2> QED BY <1>2, <2>1 DEF EntryFor, CallOK, InputsKept
<1>4. ExtractOK(i, s, out[i]) /\ Made(i, s, out[i], since[i]) /\ Saving(i, s)
    BY <1>1, <1>2, <1>3 DEF CallOK, ExtractOK, Made, Saving
<1> QED BY <1>1, <1>4, MoveInv

(* One more file is taken out of the entry.                                  *)
LEMMA ExtractObjectInv ==
    ASSUME StoreInv, NEW i \in Invocation, ExtractObject(i)
    PROVE  StoreInv'
<1>1. PICK h \in call[i].todo \cap DOMAIN call[i].entry :
          /\ out' = [out EXCEPT ![i][h] = call[i].entry[h]]
          /\ Goto(i, Extracting(call[i].entry, call[i].todo \ {h}))
    BY DEF ExtractObject
<1> DEFINE e == call[i].entry
           s == [pc |-> "extract", entry |-> e, todo |-> call[i].todo \ {h}]
           g == [out[i] EXCEPT ![h] = e[h]]
           files == Writes(i) \cup PlanFor(i) \cup DOMAIN Inputs(i)
<1>0. /\ call[i].pc = "extract"
      /\ call' = [call EXCEPT ![i] = s]
      /\ UNCHANGED <<argv, revision, entries, since>>
    BY <1>1 DEF ExtractObject, Goto, Extracting, hostVars
<1>2. /\ CallOK(i, call[i], out[i], since[i])
      /\ call[i] = [pc |-> call[i].pc, entry |-> e, todo |-> call[i].todo]
      /\ out[i] = [f \in files |-> out[i][f]]
      /\ out = [j \in Invocation |-> out[j]]
      /\ since = [j \in Invocation |-> since[j]] /\ since[i] \in 0 .. revision
    BY DEF StoreInv, Shape, CallsOK
<1>3. call' = [call EXCEPT ![i] = s] /\ out' = [out EXCEPT ![i] = g]
    BY <1>0, <1>1, <1>2
<1>4. /\ call[i].todo \subseteq PlanFor(i)
      /\ KeyFor(i) # NoKey /\ EntryFor(i, e)
      /\ \A f \in Writes(i) \cap (PlanFor(i) \ call[i].todo) :
            ~IsDepInfo(f) => out[i][f] \in Products(argv[i], f, 0)
    BY <1>0, <1>2 DEF CallOK, ExtractOK
<1>5. h \in PlanFor(i) /\ call[i].todo \ {h} \subseteq PlanFor(i)
    BY <1>4
<1>6. /\ g = [f \in files |-> g[f]]
      /\ \A f \in files : g[f] = IF f = h THEN e[h] ELSE out[i][f]
    BY <1>2, <1>5
<1> HIDE DEF g
<1>7. InputsKept(i, g)
    BY <1>1, <1>2, <1>4, <1>6 DEF CallOK, InputsKept, EntryFor
<1>8. ASSUME NEW f \in Writes(i) \cap (PlanFor(i) \ (call[i].todo \ {h})),
             ~IsDepInfo(f)
      PROVE  g[f] \in Products(argv[i], f, 0)
    <2>1. CASE f = h
        BY <1>1, <1>4, <1>6, <1>8, <2>1 DEF EntryFor
    <2>2. CASE f # h
        BY <1>4, <1>5, <1>6, <1>8, <2>2
    <2> QED BY <2>1, <2>2
<1>9. CallOK(i, s, g, since[i])
    BY <1>4, <1>5, <1>7, <1>8 DEF CallOK, ExtractOK, Made, Saving
<1>10. since' = [since EXCEPT ![i] = since[i]]
    BY <1>0, <1>2
<1>11. since[i] \in 0 .. revision /\ UNCHANGED <<argv, revision, entries>>
    BY <1>0, <1>2
<1>12. s = [pc |-> s.pc, entry |-> s.entry, todo |-> s.todo]
    OBVIOUS
<1> HIDE DEF s
<1> QED BY <1>3, <1>6, <1>9, <1>10, <1>11, <1>12, SameEntries, CallStepInv

(* rustc writes what it does and leaves its inputs alone.                    *)
LEMMA CompilesInv ==
    ASSUME StoreInv, NEW i \in Invocation, Compile(i) \/ CompileFails(i)
    PROVE  StoreInv'
<1> DEFINE files == Writes(i) \cup PlanFor(i) \cup DOMAIN Inputs(i)
           g(w) == [f \in files |-> IF f \in w THEN Product(argv[i], f, revision) ELSE out[i][f]]
<1>1. /\ DOMAIN out[i] = files /\ since[i] \in 0 .. revision /\ revision \in Nat
      /\ out = [j \in Invocation |-> out[j]] /\ since = [j \in Invocation |-> since[j]]
      /\ InputsKept(i, out[i])
    BY DEF StoreInv, Shape, CallsOK, CallOK
<1>2. PICK w \in SUBSET Writes(i), pc \in {"built", "save", "failed"} :
          /\ Make(i, w) /\ call' = [call EXCEPT ![i] = At(pc)]
          /\ pc # "failed" => w = Writes(i)
          /\ pc = "save" => KeyFor(i) # NoKey
    BY DEF Compile, CompileFails, Goto
<1>3. out' = [out EXCEPT ![i] = g(w)]
    BY <1>1, <1>2 DEF Make
<1>4. /\ UNCHANGED <<argv, revision, entries>>
      /\ since' = [since EXCEPT ![i] = since[i]]
    BY <1>1 DEF Compile, CompileFails, hostVars
<1>5. InputsKept(i, g(w))
    <2>1. Writes(i) \cap DOMAIN Inputs(i) = {}
        BY DropPointAssumption DEF StoreInv, Shape, Writes, Inputs, Invocation
    <2> QED BY <1>1, <2>1 DEF InputsKept
<1>6. Made(i, At(pc), g(w), since[i])
    <2>1. revision \in since[i] .. revision
        BY <1>1
    <2>2. argv[i] \in DOMAIN Command
        BY DEF StoreInv, Shape, Invocation
    <2>3. ASSUME NEW f \in Writes(i), pc # "failed"
          PROVE  g(w)[f] \in Products(argv[i], f, revision)
        BY <1>2, <2>2, <2>3, ProductIsOne
    <2> QED BY <2>1, <2>3 DEF Made, At
<1>7. CallOK(i, At(pc), g(w), since[i])
    BY <1>2, <1>5, <1>6 DEF CallOK, ExtractOK, Saving, At
<1>8. /\ At(pc) = [pc |-> At(pc).pc, entry |-> At(pc).entry, todo |-> At(pc).todo]
      /\ g(w) = [f \in files |-> g(w)[f]]
    BY DEF At
<1> HIDE DEF g
<1> QED BY <1>1, <1>2, <1>3, <1>4, <1>7, <1>8, SameEntries, CallStepInv

(* An entry is published, if there is none, for every call of its key.       *)
LEMMA PersistInv ==
    ASSUME StoreInv, KeysSound, NEW i \in Invocation, Persist(i)
    PROVE  StoreInv'
<1> DEFINE e == call[i].entry
           K == KeyFor(i)
<1>1. /\ call[i].pc = "persist" /\ call' = [call EXCEPT ![i] = At("built")]
      /\ entries' = [entries EXCEPT ![K] = IF @ = NoEntry THEN e ELSE @]
      /\ UNCHANGED <<argv, revision, out, since>>
    BY DEF Persist, Goto, hostVars
<1>2. /\ CallOK(i, call[i], out[i], since[i]) /\ K # NoKey /\ EntryFor(i, e)
    BY <1>1 DEF StoreInv, CallsOK, CallOK, Saving
<1>3. /\ entries' = [k \in Key |-> entries'[k]]
      /\ \A k \in Key : k # K => entries'[k] = entries[k]
      /\ entries'[K] = IF entries[K] = NoEntry THEN e ELSE entries[K]
    BY <1>1, <1>2 DEF StoreInv, Shape
<1>4. EntriesOK'
    <2> SUFFICES ASSUME NEW j \in Invocation,
                        KeyFor(j) # NoKey, entries'[KeyFor(j)] \notin {NoEntry, Broken}
                 PROVE  EntryFor(j, entries'[KeyFor(j)])
        BY <1>1 DEF EntriesOK, EntryFor, Invocation, KeyFor, Writes, Inputs
    <2>1. CASE KeyFor(j) = K /\ entries[K] = NoEntry
        <3>1. argv \in Seq(DOMAIN Command)
            BY DEF StoreInv, Shape
        <3> QED BY <1>2, <1>3, <2>1, <3>1, EntryForAll
    <2>2. CASE KeyFor(j) # K \/ entries[K] # NoEntry
        <3>1. KeyFor(j) \in Key
            BY DEF StoreInv, Shape
        <3>2. entries'[KeyFor(j)] = entries[KeyFor(j)]
            BY <1>3, <2>2, <3>1
        <3> QED BY <3>2 DEF StoreInv, EntriesOK
    <2> QED BY <2>1, <2>2
<1>5. CallOK(i, At("built"), out[i], since[i])
    BY <1>1, <1>2 DEF CallOK, ExtractOK, Made, Saving, At
<1>6. /\ out' = [out EXCEPT ![i] = out[i]]
      /\ since' = [since EXCEPT ![i] = since[i]]
      /\ since[i] \in 0 .. revision
      /\ out[i] = [f \in Writes(i) \cup PlanFor(i) \cup DOMAIN Inputs(i) |-> out[i][f]]
    BY <1>1 DEF StoreInv, Shape
<1>7. At("built") = [pc |-> At("built").pc, entry |-> At("built").entry, todo |-> At("built").todo]
    BY DEF At
<1> QED BY <1>1, <1>3, <1>4, <1>5, <1>6, <1>7, CallStepInv

(* Edits, expunges and power failures.                                       *)
LEMMA WorldInv ==
    ASSUME StoreInv, EditMember \/ Expunge \/ (\E k \in Key : RemoveEntry(k)) \/ PowerFails
                     \/ UNCHANGED vars
    PROVE  StoreInv'
<1>1. /\ call = [i \in Invocation |-> call[i]] /\ entries = [k \in Key |-> entries[k]]
      /\ revision \in Nat
    BY DEF StoreInv, Shape
<1>2. CASE EditMember \/ Expunge \/ UNCHANGED vars
    <2>1. /\ UNCHANGED <<argv, out, since, call, entries>>
          /\ revision' \in Nat /\ revision <= revision'
        BY <1>1, <1>2 DEF EditMember, Expunge, vars
    <2> QED BY <1>1, <2>1, StoreStepInv
<1>3. ASSUME NEW k \in Key, RemoveEntry(k) PROVE StoreInv'
    <2>1. /\ UNCHANGED <<argv, out, since, call, revision>>
          /\ entries' = [entries EXCEPT ![k] = NoEntry]
        BY <1>3 DEF RemoveEntry
    <2>2. /\ entries' = [l \in Key |-> entries'[l]]
          /\ \A l \in Key : entries'[l] \in {entries[l], NoEntry, Broken}
        BY <1>1, <2>1
    <2> QED BY <1>1, <2>1, <2>2, StoreStepInv
<1>4. CASE PowerFails
    <2>1. /\ UNCHANGED <<argv, out, since, revision>>
          /\ call' = [i \in Invocation |-> call'[i]]
          /\ \A i \in Invocation : call'[i] \in {call[i], At("killed")}
          /\ entries' = [k \in Key |-> entries'[k]]
          /\ \A k \in Key : entries'[k] \in {entries[k], NoEntry, Broken}
        BY <1>4 DEF PowerFails
    <2> QED BY <1>1, <2>1, StoreStepInv
<1> QED BY <1>2, <1>3, <1>4

(* Every step keeps the invariant.                                           *)
LEMMA StepInv == StoreInv /\ KeysSound /\ [Next]_vars => StoreInv'
<1> SUFFICES ASSUME StoreInv, KeysSound, [Next]_vars PROVE StoreInv'
    OBVIOUS
<1>1. ASSUME NEW i \in Invocation, CallStep(i) \/ Kill(i) PROVE StoreInv'
    BY <1>1, BeginInv, ExtractObjectInv, ServeInv, CompilesInv, CollectInv, PersistInv, MovesInv
       DEF CallStep
<1> QED BY <1>1, WorldInv DEF Next

(* A command is what it is from its first step to its last.                  *)
LEMMA ArgvStays == [Next]_vars => UNCHANGED argv
<1> SUFFICES ASSUME [Next]_vars PROVE UNCHANGED argv
    OBVIOUS
<1>1. ASSUME NEW i \in Invocation, CallStep(i) \/ Kill(i) PROVE UNCHANGED argv
    BY <1>1 DEF CallStep, Kill, Hit, Miss, ExtractObject, ExtractFails, Serve, Compile,
          CompileFails, Collect, AlreadyThere, WriteTemp, Persist, SaveFails, hostVars
<1>2. ASSUME NEW k \in Key, RemoveEntry(k) PROVE UNCHANGED argv
    BY <1>2 DEF RemoveEntry
<1> QED BY <1>1, <1>2 DEF Next, EditMember, Expunge, PowerFails, vars

-----------------------------------------------------------------------------
(* Where the key is sound, whatever the commands are and whichever way calls *)
(* of any number, edits, expunges and power failures interleave: a wrapper   *)
(* that exits with 0 leaves what rustc would have made, and its inputs.      *)
THEOREM OutputsTheorem ==
    ASSUME KeysSound
    PROVE  Spec => []OutputsAreOwn
<1>1. StoreInv => OutputsAreOwn
    BY DEF StoreInv, CallsOK, CallOK, InputsKept, Made, OutputsAreOwn
<1>2. StoreInv /\ [Next]_vars => StoreInv'
    BY StepInv
<1> QED BY <1>1, <1>2, InitInv, PTL DEF Spec

(* An entry that is published stays as it is until it is expunged or lost.   *)
THEOREM PublishedTheorem == Spec => PublishedOnce
<1> DEFINE Kept == \A k \in Key : entries[k] # NoEntry => entries'[k] \in {entries[k], NoEntry, Broken}
<1>1. ASSUME NEW i \in Invocation, CallStep(i) \/ Kill(i) PROVE Kept
    <2>1. CASE Persist(i)
        BY <2>1 DEF Persist, Key
    <2>2. CASE ~Persist(i)
        BY <1>1, <2>2 DEF CallStep, Kill, Hit, Miss, ExtractObject, ExtractFails, Serve, Compile,
              CompileFails, Collect, AlreadyThere, WriteTemp, SaveFails
    <2> QED BY <2>1, <2>2
<1>2. ASSUME NEW k \in Key, RemoveEntry(k) PROVE Kept
    BY <1>2 DEF RemoveEntry, Key
<1>3. ASSUME EditMember \/ Expunge \/ PowerFails PROVE Kept
    BY <1>3 DEF EditMember, Expunge, PowerFails
<1>4. [Next]_vars => [Kept]_vars
    BY <1>1, <1>2, <1>3 DEF Next
<1> QED BY <1>4, PTL DEF Spec, PublishedOnce
-----------------------------------------------------------------------------
(* Where files come from, whether keys are sound or not.  A file of the call *)
(* i is missing, or rustc made it, or it is an input, for i or for a call    *)
(* that has the key of i.                                                    *)
Sharing(i) == {j \in Invocation : j = i \/ (KeyFor(i) # NoKey /\ KeyFor(j) = KeyFor(i))}

Comes(f, v, j) ==
    \/ f \in Writes(j) /\ \E r \in Nat : v = Product(argv[j], f, r)
    \/ f \in DOMAIN Inputs(j) /\ v = Inputs(j)[f]

Origin(i, f, v) == v # Absent => \E j \in Sharing(i) : Comes(f, v, j)

(* An entry of the key of i has all of its files.                            *)
Complete(i, e) == \A f \in DOMAIN e : e[f] # Absent /\ Origin(i, f, e[f])

Frame ==
    /\ argv \in Seq(DOMAIN Command)
    /\ entries = [k \in Key |-> entries[k]]
    /\ Key = {KeyFor(i) : i \in Invocation} \ {NoKey}
    /\ call = [i \in Invocation |-> call[i]]
    /\ out = [i \in Invocation |-> out[i]]
    /\ since = [i \in Invocation |-> since[i]]
    /\ \A i \in Invocation :
          out[i] = [f \in Writes(i) \cup PlanFor(i) \cup DOMAIN Inputs(i) |-> out[i][f]]

Bounds ==
    /\ revision \in 0 .. MaxEdits
    /\ \A i \in Invocation : since[i] \in 0 .. revision
    /\ expunging \subseteq Key
    /\ crashes \in 0 .. MaxCrashes /\ expunges \in 0 .. MaxExpunges

Place == Ended \cup {"start", "extract", "compile", "save", "put", "persist"}

(* Of the call i in the state s, with the files g.                           *)
FilesOK(i, s, g) ==
    /\ s.pc \in Place
    /\ s.pc \in {"extract", "save", "put", "persist"} => KeyFor(i) # NoKey
    /\ s.pc \in {"extract", "put", "persist"} => Complete(i, s.entry)
    /\ \A f \in DOMAIN g : Origin(i, f, g[f])
    /\ \A f \in DOMAIN Inputs(i) : g[f] # Absent
    /\ s.pc = "save" => \A f \in Writes(i) : g[f] # Absent

EntriesComplete ==
    \A i \in Invocation :
        KeyFor(i) # NoKey /\ entries[KeyFor(i)] \notin {NoEntry, Broken}
            => Complete(i, entries[KeyFor(i)])

OriginInv ==
    /\ Frame /\ Bounds
    /\ \A i \in Invocation : FilesOK(i, call[i], out[i])
    /\ EntriesComplete

(* Calls with one key share one set of origins.                              *)
LEMMA SharedOrigins ==
    ASSUME NEW i \in Invocation, NEW j \in Invocation,
           KeyFor(i) = KeyFor(j), KeyFor(i) # NoKey, NEW e, Complete(i, e)
    PROVE  Complete(j, e)
<1>1. Sharing(i) = Sharing(j)
    BY DEF Sharing
<1> QED BY <1>1 DEF Complete, Origin

(* Whose file it may be is settled by the commands.                          *)
LEMMA OriginsStay ==
    ASSUME UNCHANGED argv, NEW i \in Invocation
    PROVE  /\ Invocation' = Invocation /\ KeyFor(i)' = KeyFor(i)
           /\ Writes(i)' = Writes(i) /\ Inputs(i)' = Inputs(i) /\ PlanFor(i)' = PlanFor(i)
           /\ Sharing(i)' = Sharing(i)
<1>1. \A j : KeyFor(j)' = KeyFor(j)
    BY DEF KeyFor
<1>2. Invocation' = Invocation
    BY DEF Invocation
<1>3. Sharing(i)' = Sharing(i)
    BY <1>1, <1>2 DEF Sharing
<1> QED BY <1>1, <1>2, <1>3 DEF Writes, Inputs, PlanFor

LEMMA FilesPrimed ==
    ASSUME UNCHANGED argv, NEW i \in Invocation, FilesOK(i, call'[i], out'[i])
    PROVE  FilesOK(i, call[i], out[i])'
<1>1. \A j : Writes(j)' = Writes(j) /\ Inputs(j)' = Inputs(j)
    BY DEF Writes, Inputs
<1>2. KeyFor(i)' = KeyFor(i) /\ Sharing(i)' = Sharing(i)
    BY OriginsStay
<1>3. ASSUME \A f \in DOMAIN out'[i] : Origin(i, f, out'[i][f])
      PROVE  \A f \in DOMAIN out'[i] : Origin(i, f, out[i][f])'
    BY <1>1, <1>2, <1>3 DEF Origin, Comes
<1>4. ASSUME Complete(i, call'[i].entry)
      PROVE  Complete(i, call[i].entry)'
    BY <1>1, <1>2, <1>4 DEF Complete, Origin, Comes
<1> QED BY <1>1, <1>2, <1>3, <1>4 DEF FilesOK

LEMMA EntriesPrimed ==
    ASSUME UNCHANGED argv,
           \A i \in Invocation :
               KeyFor(i) # NoKey /\ entries'[KeyFor(i)] \notin {NoEntry, Broken}
                   => Complete(i, entries'[KeyFor(i)])
    PROVE  EntriesComplete'
<1> SUFFICES ASSUME NEW i \in Invocation,
                    KeyFor(i) # NoKey, entries'[KeyFor(i)] \notin {NoEntry, Broken}
             PROVE  Complete(i, entries[KeyFor(i)])'
    BY OriginsStay DEF EntriesComplete, Invocation, KeyFor
<1>1. \A j : Writes(j)' = Writes(j) /\ Inputs(j)' = Inputs(j)
    BY DEF Writes, Inputs
<1>2. KeyFor(i)' = KeyFor(i) /\ Sharing(i)' = Sharing(i)
    BY OriginsStay
<1>3. Complete(i, entries'[KeyFor(i)])
    OBVIOUS
<1> QED BY <1>1, <1>2, <1>3 DEF Complete, Origin, Comes

(* Before the first call there are inputs, and nothing else.                 *)
LEMMA OriginInit == Init => OriginInv
<1> SUFFICES ASSUME Init PROVE OriginInv
    OBVIOUS
<1> USE DEF Init, At
<1>1. Frame
    <2>1. argv \in Seq(DOMAIN Command)
        BY DropPointAssumption
    <2>2. /\ entries = [k \in Key |-> entries[k]]
          /\ Key = {KeyFor(i) : i \in Invocation} \ {NoKey}
          /\ call = [i \in Invocation |-> call[i]]
          /\ out = [i \in Invocation |-> out[i]]
          /\ since = [i \in Invocation |-> since[i]]
        BY DEF Key
    <2>3. \A i \in Invocation :
              out[i] = [f \in Writes(i) \cup PlanFor(i) \cup DOMAIN Inputs(i) |-> out[i][f]]
        OBVIOUS
    <2> QED BY <2>1, <2>2, <2>3 DEF Frame
<1>2. Bounds
    BY DropPointAssumption DEF Bounds, Key
<1>3. ASSUME NEW i \in Invocation PROVE FilesOK(i, call[i], out[i])
    <2>1. argv[i] \in DOMAIN Command
        BY <1>1 DEF Frame, Invocation
    <2>2. \A f \in DOMAIN Inputs(i) : out[i][f] = Inputs(i)[f] /\ out[i][f] # Absent
        BY <2>1, DropPointAssumption DEF Inputs
    <2>3. \A f \in DOMAIN out[i] : f \notin DOMAIN Inputs(i) => out[i][f] = Absent
        OBVIOUS
    <2>4. i \in Sharing(i)
        BY DEF Sharing
    <2>5. \A f \in DOMAIN out[i] : Origin(i, f, out[i][f])
        BY <2>2, <2>3, <2>4 DEF Origin, Comes
    <2> QED BY <2>2, <2>5 DEF FilesOK, Place, Ended
<1>4. EntriesComplete
    BY DEF EntriesComplete
<1> QED BY <1>1, <1>2, <1>3, <1>4 DEF OriginInv

(* Calls stand still, or are killed; entries stay, or go.                    *)
LEMMA WorldOrigins ==
    ASSUME OriginInv, UNCHANGED <<argv, out, since>>,
           call' = [i \in Invocation |-> call'[i]],
           \A i \in Invocation : call'[i] \in {call[i], At("killed")},
           entries' = [k \in Key |-> entries'[k]],
           \A k \in Key : entries'[k] \in {entries[k], NoEntry, Broken},
           Bounds'
    PROVE  OriginInv'
<1> USE DEF OriginInv
<1>1. Frame'
    <2>1. Key' = Key /\ Invocation' = Invocation
        BY DEF Key, Invocation
    <2>2. \A i : KeyFor(i)' = KeyFor(i)
        BY DEF KeyFor
    <2>3. Key' = {KeyFor(i)' : i \in Invocation'} \ {NoKey}
        BY <2>1, <2>2 DEF Frame
    <2>4. \A i \in Invocation' :
              out'[i] = [f \in Writes(i)' \cup PlanFor(i)' \cup DOMAIN Inputs(i)' |-> out'[i][f]]
        BY <2>1 DEF Frame, Writes, Inputs, PlanFor
    <2> QED BY <2>1, <2>3, <2>4 DEF Frame
<1>2. ASSUME NEW i \in Invocation PROVE FilesOK(i, call[i], out[i])'
    <2>1. FilesOK(i, call[i], out[i])
        OBVIOUS
    <2>2. FilesOK(i, call'[i], out'[i])
        <3>1. CASE call'[i] = call[i]
            BY <2>1, <3>1
        <3>2. CASE call'[i] = At("killed")
            BY <2>1, <3>2 DEF FilesOK, At, Place, Ended
        <3> QED BY <3>1, <3>2
    <2> QED BY <2>2, FilesPrimed
<1>3. EntriesComplete'
    <2>1. ASSUME NEW i \in Invocation,
                 KeyFor(i) # NoKey, entries'[KeyFor(i)] \notin {NoEntry, Broken}
          PROVE  Complete(i, entries'[KeyFor(i)])
        <3>1. KeyFor(i) \in Key
            BY <2>1 DEF Frame
        <3> QED BY <2>1, <3>1 DEF EntriesComplete
    <2> QED BY <2>1, EntriesPrimed
<1>4. Invocation' = Invocation
    BY DEF Invocation
<1> QED BY <1>1, <1>2, <1>3, <1>4

(* One call moves, and may publish what it has.                              *)
LEMMA CallOrigins ==
    ASSUME OriginInv, NEW i \in Invocation, NEW s, NEW g, NEW n \in 0 .. revision,
           DOMAIN g = DOMAIN out[i], g = [f \in DOMAIN g |-> g[f]],
           FilesOK(i, s, g),
           UNCHANGED hostVars,
           call' = [call EXCEPT ![i] = s],
           out' = [out EXCEPT ![i] = g],
           since' = [since EXCEPT ![i] = n],
           entries' = [k \in Key |-> entries'[k]],
           \A k \in Key : \/ entries'[k] = entries[k]
                          \/ k = KeyFor(i) /\ Complete(i, entries'[k])
    PROVE  OriginInv'
<1> USE DEF OriginInv
<1>1. Invocation' = Invocation /\ Key' = Key /\ UNCHANGED argv
    BY DEF Invocation, Key, hostVars
<1>2. /\ call'[i] = s /\ out'[i] = g /\ since'[i] = n
      /\ \A j \in Invocation : j # i => call'[j] = call[j] /\ out'[j] = out[j] /\ since'[j] = since[j]
    BY DEF Frame
<1>3. Frame'
    <2>1. /\ call' = [j \in Invocation |-> call'[j]]
          /\ out' = [j \in Invocation |-> out'[j]]
          /\ since' = [j \in Invocation |-> since'[j]]
        BY DEF Frame
    <2>2. \A j : KeyFor(j)' = KeyFor(j)
        BY <1>1 DEF KeyFor
    <2>3. Key' = {KeyFor(j)' : j \in Invocation'} \ {NoKey}
        BY <1>1, <2>2 DEF Frame
    <2>4. \A j \in Invocation :
              out'[j] = [f \in Writes(j) \cup PlanFor(j) \cup DOMAIN Inputs(j) |-> out'[j][f]]
        BY <1>2, ZenonT(40) DEF Frame
    <2>5. \A j \in Invocation' :
              out'[j] = [f \in Writes(j)' \cup PlanFor(j)' \cup DOMAIN Inputs(j)' |-> out'[j][f]]
        BY <1>1, <2>4 DEF Writes, Inputs, PlanFor
    <2>6. argv' \in Seq(DOMAIN Command)
        BY <1>1 DEF Frame
    <2> QED BY <1>1, <2>1, <2>3, <2>5, <2>6 DEF Frame
<1>4. Bounds'
    BY <1>1, <1>2 DEF Bounds, hostVars
<1>5. ASSUME NEW j \in Invocation PROVE FilesOK(j, call[j], out[j])'
    <2>1. FilesOK(j, call'[j], out'[j])
        BY <1>2
    <2> QED BY <1>1, <2>1, FilesPrimed
<1>6. EntriesComplete'
    <2>1. ASSUME NEW j \in Invocation,
                 KeyFor(j) # NoKey, entries'[KeyFor(j)] \notin {NoEntry, Broken}
          PROVE  Complete(j, entries'[KeyFor(j)])
        <3>1. KeyFor(j) \in Key
            BY <2>1 DEF Frame
        <3>2. CASE entries'[KeyFor(j)] = entries[KeyFor(j)]
            BY <2>1, <3>2 DEF EntriesComplete
        <3>3. CASE KeyFor(j) = KeyFor(i) /\ Complete(i, entries'[KeyFor(j)])
            BY <2>1, <3>3, SharedOrigins
        <3> QED BY <3>1, <3>2, <3>3
    <2> QED BY <1>1, <2>1, EntriesPrimed
<1> QED BY <1>1, <1>3, <1>4, <1>5, <1>6

(* A step that changes only where a call is.                                 *)
LEMMA MoveOrigins ==
    ASSUME OriginInv, NEW i \in Invocation, NEW s, FilesOK(i, s, out[i]),
           Goto(i, s), NEW n \in {since[i], revision}, since' = [since EXCEPT ![i] = n],
           UNCHANGED <<entries, out, hostVars>>
    PROVE  OriginInv'
<1>1. call' = [call EXCEPT ![i] = s] /\ UNCHANGED <<entries, out, hostVars>>
    BY DEF Goto
<1>2. /\ out' = [out EXCEPT ![i] = out[i]]
      /\ entries' = [k \in Key |-> entries'[k]]
    BY DEF OriginInv, Frame
<1>3. out[i] = [f \in DOMAIN out[i] |-> out[i][f]]
    BY DEF OriginInv, Frame
<1>4. n \in 0 .. revision
    BY DropPointAssumption DEF OriginInv, Bounds
<1>5. \A k \in Key : entries'[k] = entries[k]
    BY <1>1
<1> QED BY <1>1, <1>2, <1>3, <1>4, <1>5, CallOrigins

(* The steps of a call that leave its files as they are.                     *)
LEMMA QuietOrigins ==
    ASSUME OriginInv, NEW i \in Invocation,
           \/ Hit(i) \/ Miss(i) \/ ExtractFails(i) \/ Serve(i) \/ Collect(i)
           \/ AlreadyThere(i) \/ WriteTemp(i) \/ SaveFails(i) \/ Kill(i)
    PROVE  OriginInv'
<1> USE DEF OriginInv
<1>1. FilesOK(i, call[i], out[i])
    OBVIOUS
<1>2. since = [since EXCEPT ![i] = since[i]]
    BY DEF Frame
<1>3. CASE Hit(i)
    <2> DEFINE s == Extracting(entries[KeyFor(i)], PlanFor(i))
    <2>1. /\ Goto(i, s) /\ since' = [since EXCEPT ![i] = revision]
          /\ UNCHANGED <<entries, out, hostVars>>
          /\ KeyFor(i) # NoKey /\ entries[KeyFor(i)] \notin {NoEntry, Broken}
        BY <1>3 DEF Hit
    <2>2. Complete(i, entries[KeyFor(i)])
        BY <2>1 DEF EntriesComplete
    <2>3. FilesOK(i, s, out[i])
        BY <1>1, <2>1, <2>2 DEF FilesOK, Extracting, Place
    <2> QED BY <2>1, <2>3, MoveOrigins
<1>4. CASE Collect(i)
    <2> DEFINE e == [f \in PlanFor(i) |-> out[i][f]]
               s == [pc |-> "put", entry |-> e, todo |-> {}]
    <2>1. /\ Goto(i, s) /\ UNCHANGED <<entries, out, since, hostVars>>
          /\ call[i].pc = "save" /\ \A f \in PlanFor(i) : out[i][f] # Absent
        BY <1>4 DEF Collect
    <2>2. PlanFor(i) \subseteq DOMAIN out[i]
        BY DEF Frame
    <2>3. Complete(i, e)
        BY <1>1, <2>1, <2>2 DEF Complete, FilesOK
    <2>4. FilesOK(i, s, out[i])
        BY <1>1, <2>1, <2>3 DEF FilesOK, Place
    <2> QED BY <1>2, <2>1, <2>4, MoveOrigins
<1>5. CASE WriteTemp(i)
    <2> DEFINE s == [call[i] EXCEPT !.pc = "persist"]
    <2>1. /\ Goto(i, s) /\ UNCHANGED <<entries, out, since, hostVars>>
          /\ call[i].pc = "put"
        BY <1>5 DEF WriteTemp
    <2>2. FilesOK(i, s, out[i])
        BY <1>1, <2>1 DEF FilesOK, Place
    <2> QED BY <1>2, <2>1, <2>2, MoveOrigins
<1>6. CASE Miss(i)
    <2>1. /\ Goto(i, At("compile")) /\ since' = [since EXCEPT ![i] = revision]
          /\ UNCHANGED <<entries, out, hostVars>>
        BY <1>6 DEF Miss
    <2>2. FilesOK(i, At("compile"), out[i])
        BY <1>1 DEF FilesOK, At, Place
    <2> QED BY <2>1, <2>2, MoveOrigins
<1>7. CASE ExtractFails(i) \/ Serve(i) \/ AlreadyThere(i) \/ SaveFails(i) \/ Kill(i)
    <2>1. PICK p \in {"compile", "served", "built", "killed"} : Goto(i, At(p))
        BY <1>7 DEF ExtractFails, Serve, AlreadyThere, SaveFails, Kill
    <2>2. UNCHANGED <<entries, out, since, hostVars>>
        BY <1>7 DEF ExtractFails, Serve, AlreadyThere, SaveFails, Kill
    <2>3. FilesOK(i, At(p), out[i])
        BY <1>1 DEF FilesOK, At, Place, Ended
    <2> QED BY <1>2, <2>1, <2>2, <2>3, MoveOrigins
<1> QED BY <1>3, <1>4, <1>5, <1>6, <1>7

(* A file out of an entry is from where the entry's files are.               *)
LEMMA ExtractOrigins ==
    ASSUME OriginInv, NEW i \in Invocation, ExtractObject(i)
    PROVE  OriginInv'
<1> USE DEF OriginInv
<1>0. PICK f \in call[i].todo \cap DOMAIN call[i].entry :
          /\ out' = [out EXCEPT ![i][f] = call[i].entry[f]]
          /\ Goto(i, Extracting(call[i].entry, call[i].todo \ {f}))
    BY DEF ExtractObject
<1> DEFINE g == [out[i] EXCEPT ![f] = call[i].entry[f]]
           s == Extracting(call[i].entry, call[i].todo \ {f})
<1>1. /\ call[i].pc = "extract" /\ f \in DOMAIN call[i].entry
      /\ out' = [out EXCEPT ![i] = g]
      /\ call' = [call EXCEPT ![i] = s]
      /\ UNCHANGED <<entries, since, hostVars>>
    BY <1>0 DEF ExtractObject, Goto, Frame
<1>2. FilesOK(i, call[i], out[i]) /\ Complete(i, call[i].entry) /\ KeyFor(i) # NoKey
    BY <1>1 DEF FilesOK
<1>3. \A h \in DOMAIN g : g[h] = IF h = f THEN call[i].entry[f] ELSE out[i][h]
    OBVIOUS
<1>4. /\ \A h \in DOMAIN g : Origin(i, h, g[h])
      /\ \A h \in DOMAIN Inputs(i) : g[h] # Absent
    <2>1. DOMAIN g = DOMAIN out[i] /\ DOMAIN Inputs(i) \subseteq DOMAIN out[i]
        BY ZenonT(40) DEF Frame
    <2>2. call[i].entry[f] # Absent /\ Origin(i, f, call[i].entry[f])
        BY <1>1, <1>2 DEF Complete
    <2> QED BY <1>2, <1>3, <2>1, <2>2 DEF FilesOK
<1>5. FilesOK(i, s, g)
    BY <1>2, <1>4 DEF FilesOK, Extracting, Place
<1>6. /\ DOMAIN g = DOMAIN out[i] /\ g = [h \in DOMAIN g |-> g[h]]
      /\ since' = [since EXCEPT ![i] = since[i]] /\ since[i] \in 0 .. revision
      /\ entries' = [k \in Key |-> entries'[k]] /\ \A k \in Key : entries'[k] = entries[k]
    BY <1>1 DEF Frame, Bounds
<1> HIDE DEF g, s
<1> QED BY <1>1, <1>5, <1>6, CallOrigins

(* What rustc writes is its own.                                             *)
LEMMA MakeOrigins ==
    ASSUME OriginInv, NEW i \in Invocation, Compile(i) \/ CompileFails(i)
    PROVE  OriginInv'
<1> USE DEF OriginInv
<1>1. PICK files \in SUBSET Writes(i) :
          Make(i, files) /\ (Compile(i) => files = Writes(i))
    BY DEF Compile, CompileFails
<1> DEFINE g == [f \in DOMAIN out[i] |->
                    IF f \in files THEN Product(argv[i], f, revision) ELSE out[i][f]]
           p == IF ~Compile(i) THEN "failed" ELSE IF KeyFor(i) = NoKey THEN "built" ELSE "save"
<1>2. /\ out' = [out EXCEPT ![i] = g]
      /\ call' = [call EXCEPT ![i] = At(p)]
      /\ UNCHANGED <<entries, since, hostVars>>
    BY <1>1 DEF Make, Goto, Compile, CompileFails, Frame
<1>3. FilesOK(i, call[i], out[i])
    OBVIOUS
<1>4. /\ DOMAIN out[i] = Writes(i) \cup PlanFor(i) \cup DOMAIN Inputs(i)
      /\ i \in Sharing(i) /\ revision \in Nat /\ revision \in 0 .. MaxEdits
      /\ argv[i] \in DOMAIN Command
    <2>1. revision \in 0 .. MaxEdits /\ MaxEdits \in Nat
        BY DropPointAssumption DEF Bounds
    <2>2. argv[i] \in DOMAIN Command
        BY DEF Frame, Invocation
    <2>3. i \in Sharing(i)
        BY DEF Sharing
    <2>4. DOMAIN out[i] = Writes(i) \cup PlanFor(i) \cup DOMAIN Inputs(i)
        BY DEF Frame
    <2> QED BY <2>1, <2>2, <2>3, <2>4
<1>5. \A f \in DOMAIN g : Origin(i, f, g[f])
    BY <1>3, <1>4 DEF FilesOK, Origin, Comes
<1>6. \A f \in Writes(i) : Product(argv[i], f, revision) # Absent
    BY <1>4, DropPointAssumption DEF Writes
<1>7. \A f \in DOMAIN Inputs(i) : g[f] # Absent
    BY <1>3, <1>4, <1>6 DEF FilesOK
<1>8. p = "save" => \A f \in Writes(i) : g[f] # Absent
    BY <1>1, <1>4, <1>6
<1>9. FilesOK(i, At(p), g)
    BY <1>5, <1>7, <1>8 DEF FilesOK, At, Place, Ended
<1>10. /\ DOMAIN g = DOMAIN out[i] /\ g = [h \in DOMAIN g |-> g[h]]
       /\ since' = [since EXCEPT ![i] = since[i]] /\ since[i] \in 0 .. revision
       /\ entries' = [k \in Key |-> entries'[k]] /\ \A k \in Key : entries'[k] = entries[k]
    BY <1>2 DEF Frame, Bounds
<1> HIDE DEF g, p
<1> QED BY <1>2, <1>9, <1>10, CallOrigins

(* A call publishes what it collected.                                       *)
LEMMA PersistOrigins ==
    ASSUME OriginInv, NEW i \in Invocation, Persist(i)
    PROVE  OriginInv'
<1> USE DEF OriginInv
<1>1. FilesOK(i, call[i], out[i])
    OBVIOUS
<1>2. /\ call[i].pc = "persist" /\ call' = [call EXCEPT ![i] = At("built")]
      /\ entries' = [entries EXCEPT ![KeyFor(i)] = IF @ = NoEntry THEN call[i].entry ELSE @]
      /\ UNCHANGED <<out, since, hostVars>>
    BY DEF Persist, Goto
<1>3. Complete(i, call[i].entry)
    BY <1>1, <1>2 DEF FilesOK
<1>4. FilesOK(i, At("built"), out[i])
    BY <1>1 DEF FilesOK, At, Place, Ended
<1>5. /\ entries' = [k \in Key |-> entries'[k]]
      /\ \A k \in Key : entries'[k] = entries[k] \/ (k = KeyFor(i) /\ entries'[k] = call[i].entry)
    BY <1>2 DEF Frame
<1>6. /\ out' = [out EXCEPT ![i] = out[i]] /\ out[i] = [h \in DOMAIN out[i] |-> out[i][h]]
      /\ since' = [since EXCEPT ![i] = since[i]] /\ since[i] \in 0 .. revision
    BY <1>2 DEF Frame, Bounds
<1> QED BY <1>2, <1>3, <1>4, <1>5, <1>6, CallOrigins

LEMMA OriginStep == OriginInv /\ [Next]_vars => OriginInv'
<1> SUFFICES ASSUME OriginInv, [Next]_vars PROVE OriginInv'
    OBVIOUS
<1>1. /\ call = [i \in Invocation |-> call[i]] /\ entries = [k \in Key |-> entries[k]]
      /\ revision \in 0 .. MaxEdits /\ MaxEdits \in Nat
    BY DropPointAssumption DEF OriginInv, Frame, Bounds
<1>2. ASSUME NEW i \in Invocation, CallStep(i) \/ Kill(i) PROVE OriginInv'
    BY <1>2, QuietOrigins, ExtractOrigins, MakeOrigins, PersistOrigins DEF CallStep
<1>3. CASE EditMember \/ Expunge \/ UNCHANGED vars
    <2>1. UNCHANGED <<argv, out, since, call, entries>>
        BY <1>3 DEF EditMember, Expunge, vars
    <2>2. Bounds'
        BY <1>1, <1>3, <2>1, DropPointAssumption
           DEF EditMember, Expunge, vars, OriginInv, Bounds, Invocation, Key
    <2> QED BY <1>1, <2>1, <2>2, WorldOrigins
<1>4. ASSUME NEW k \in Key, RemoveEntry(k) PROVE OriginInv'
    <2>1. /\ UNCHANGED <<argv, out, since, call, revision, crashes, expunges>>
          /\ entries' = [entries EXCEPT ![k] = NoEntry]
          /\ expunging' \subseteq expunging
        BY <1>4 DEF RemoveEntry
    <2>2. /\ entries' = [l \in Key |-> entries'[l]]
          /\ \A l \in Key : entries'[l] \in {entries[l], NoEntry, Broken}
        BY <1>1, <2>1
    <2>3. Bounds'
        BY <2>1, <2>2 DEF OriginInv, Bounds, Invocation, Key
    <2> QED BY <1>1, <2>1, <2>2, <2>3, WorldOrigins
<1>5. CASE PowerFails
    <2>1. /\ UNCHANGED <<argv, out, since, revision, expunges>>
          /\ call' = [i \in Invocation |-> call'[i]]
          /\ \A i \in Invocation : call'[i] \in {call[i], At("killed")}
          /\ entries' = [k \in Key |-> entries'[k]]
          /\ \A k \in Key : entries'[k] \in {entries[k], NoEntry, Broken}
        BY <1>5 DEF PowerFails
    <2>2. Bounds'
        BY <1>5, <2>1, DropPointAssumption DEF PowerFails, OriginInv, Bounds, Invocation
    <2> QED BY <1>1, <2>1, <2>2, WorldOrigins
<1> QED BY <1>2, <1>3, <1>4, <1>5 DEF Next

-----------------------------------------------------------------------------
(* Whatever the commands and their keys are: each file of a call, and each   *)
(* member of an entry, was made by rustc for a call of that key, or is one   *)
(* of its inputs; and an entry has all of its members.                       *)
THEOREM OriginSafety == Spec => []OriginInv
BY OriginInit, OriginStep, PTL DEF Spec

(* What every product says of itself.                                        *)
LEMMA ProductFields ==
    ASSUME NEW c, NEW f, NEW r
    PROVE  Product(c, f, r).file = f /\ Product(c, f, r).unit = Command[c].unit
BY DEF Product, MadeBy

(* The variables of the store keep their types; of two calls that share a    *)
(* key, neither has an input the other makes.                                *)
THEOREM StoreTypes ==
    ASSUME KeysSound
    PROVE  Spec => []TypeOK
<1>1. OriginInv => TypeOK
    <2> SUFFICES ASSUME OriginInv PROVE TypeOK
        OBVIOUS
    <2>1. ASSUME NEW i \in Invocation, NEW f \in DOMAIN out[i] \ DOMAIN Inputs(i), out[i][f] # Absent
          PROVE  out[i][f].file = f
        <3>1. PICK j \in Sharing(i) : Comes(f, out[i][f], j)
            BY <2>1 DEF OriginInv, FilesOK, Origin
        <3>2. Inputs(j) = Inputs(i)
            BY DEF Sharing, KeysSound, KeyFor, Inputs, OriginInv, Frame, Invocation
        <3>3. PICK r \in Nat : out[i][f] = Product(argv[j], f, r)
            BY <2>1, <3>1, <3>2 DEF Comes
        <3> QED BY <3>3, ProductFields
    <2>2. Bounds
        BY DEF OriginInv
    <2>3. \A i \in Invocation : call[i].pc \in Place
        BY DEF OriginInv, FilesOK
    <2> QED BY <2>1, <2>2, <2>3 DEF TypeOK, Bounds, Place
<1> QED BY <1>1, OriginSafety, PTL

(* With rustc making what RustcMakes says, what plan_outputs plans is made,  *)
(* or is an input, or is the profile that is looked for in the out-dir.      *)
LEMMA PlansAreMade ==
    ASSUME NEW c \in DOMAIN Command, KeyOf[c] # NoKey, NEW f \in PlanOf[c]
    PROVE  \/ f \in Command[c].writes \cup DOMAIN Command[c].inputs
           \/ f = Arguments(c).profile /\ ~IsPath(f)
<1> DEFINE p == Arguments(c)
           names == Command[c].prints
<1>1. c \in DOMAIN KeyText /\ Cached(c)
    BY DEF KeyOf, KeyText
<1>2. RustcMakes(c)
    BY <1>1, DropPointAssumption
<1>3. "link" \in p.emit \/ "metadata" \in p.emit
    <2>1. OutputsKnown(WithoutRustc(ArgsIter(Rest(Command[c].line))))
        BY <1>1 DEF Cached, Cacheable
    <2> QED BY <2>1 DEF OutputsKnown, Arguments, ParsedArguments
<1>4. f \in PlanOutputs(c)
    BY DEF PlanOf
<1>5. CASE f \in RefineOutputs(p, names)
    <2>1. EndsIn(".rmeta", names) \subseteq names
        BY DEF EndsIn
    <2> QED BY <1>2, <1>3, <1>5, <2>1 DEF RefineOutputs, RustcMakes
<1>6. CASE "dep-info" \in p.emit /\ f = DepInfo(p)
    BY <1>2, <1>6 DEF RustcMakes
<1>7. CASE f = p.profile
    BY <1>2, <1>7 DEF RustcMakes
<1> QED BY <1>4, <1>5, <1>6, <1>7 DEF PlanOutputs

(* Whatever refine_outputs makes of what rustc prints, and plan_outputs adds *)
(* to it, is there when the call comes to save it, also after a hit that was *)
(* extracted half-way, and whatever the others do; a profile with a relative *)
(* path is not.                                                              *)
THEOREM PlannedTheorem == Spec => []PlannedExists
<1>1. OriginInv => PlannedExists
    <2> SUFFICES ASSUME OriginInv, NEW i \in Invocation, call[i].pc = "save", NEW f \in PlanFor(i),
                        ~(f = Arguments(argv[i]).profile /\ ~IsPath(f))
                 PROVE  out[i][f] # Absent
        BY DEF PlannedExists
    <2>1. argv[i] \in DOMAIN Command /\ KeyFor(i) # NoKey
        BY DEF OriginInv, Frame, FilesOK, Invocation
    <2>2. f \in Writes(i) \cup DOMAIN Inputs(i)
        BY <2>1, PlansAreMade DEF KeyFor, PlanFor, Writes, Inputs
    <2> QED BY <2>2 DEF OriginInv, FilesOK
<1> QED BY <1>1, OriginSafety, PTL

(* Calls that make the same have the same key, if they have one, and none    *)
(* reads dep-info.                                                           *)
UnitsKeyed ==
    \A i \in Invocation :
        /\ \A j \in Invocation :
              KeyFor(i) # NoKey /\ KeyFor(j) # NoKey /\ Command[argv[i]].unit = Command[argv[j]].unit
                  => KeyFor(i) = KeyFor(j)
        /\ \A f \in DOMAIN Inputs(i) : ~IsDepInfo(f)

(* If the key does not depend on the workspace or on the order and spelling  *)
(* of arguments, no crate is ever in the cache twice: no race, half-served   *)
(* hit or power failure puts what one call made under the key of another.    *)
THEOREM OneEntryTheorem == Spec /\ UnitsKeyed => []OneEntryPerUnit
<1>1. OriginInv /\ UnitsKeyed => OneEntryPerUnit
    <2> SUFFICES ASSUME OriginInv, UnitsKeyed PROVE OneEntryPerUnit
        OBVIOUS
    <2>1. ASSUME NEW k \in Key, entries[k] \notin {NoEntry, Broken},
                 NEW f \in DOMAIN entries[k], IsDepInfo(f)
          PROVE  \E j \in Invocation :
                     KeyFor(j) = k /\ k # NoKey /\ entries[k][f].unit = Command[argv[j]].unit
        <3>1. PICK i \in Invocation : KeyFor(i) = k /\ k # NoKey
            BY DEF OriginInv, Frame
        <3>2. Complete(i, entries[k])
            BY <2>1, <3>1 DEF OriginInv, EntriesComplete
        <3>3. PICK j \in Sharing(i) : Comes(f, entries[k][f], j)
            BY <2>1, <3>2 DEF Complete, Origin
        <3>4. j \in Invocation /\ KeyFor(j) = k
            BY <3>1 DEF Sharing
        <3>5. entries[k][f].unit = Command[argv[j]].unit
            BY <2>1, <3>3, <3>4, ProductFields DEF Comes, UnitsKeyed
        <3> QED BY <3>1, <3>4, <3>5
    <2>2. ASSUME NEW k \in Key, NEW l \in Key, k # l,
                 entries[k] \notin {NoEntry, Broken}, entries[l] \notin {NoEntry, Broken},
                 NEW f \in DOMAIN entries[k], IsDepInfo(f),
                 NEW g \in DOMAIN entries[l], IsDepInfo(g)
          PROVE  entries[k][f].unit # entries[l][g].unit
        BY <2>1, <2>2 DEF UnitsKeyed
    <2> QED BY <2>2 DEF OneEntryPerUnit
<1>2. UnitsKeyed /\ [Next]_vars => UnitsKeyed'
    BY ArgvStays DEF UnitsKeyed, Invocation, KeyFor, Inputs
<1> QED BY <1>1, <1>2, OriginSafety, PTL DEF Spec
=============================================================================
