-------------------------------- MODULE Store --------------------------------
(***************************************************************************)
(* Compiled code and where it is kept: the module cache of wasm/cache.rs,   *)
(* the compilers of wasm/compiler.rs and the commands that compile and run. *)
(*                                                                          *)
(* Every query has its own command executor and its own memory cache; the   *)
(* queries a server runs at once share the directory on disk, where a file  *)
(* is written in place.  Source texts are known by what the validators look *)
(* for in them.                                                             *)
(***************************************************************************)
EXTENDS Naturals, SequencesExt

CONSTANTS
  Executors,   \* queries that run at once
  Sources,     \* source texts that are compiled
  Parts,       \* what each source contains, of Patterns and Headings
  Requests,    \* bound: what each asks for, pairs of a kind and a source
  HasDisk,     \* cache_dir is set and could be created
  MemorySize,  \* CacheConfig.memory_size
  MaxCrashes   \* bound: crashes of the server

Kinds == {"analyze", "reduce", "map", "cli"}

\* What no code may contain, what modules may not (the standard library's
\* environment, text searches that panic in WASM) and what programs may not.
Patterns == {"never", "std", "search", "unsafe"}
Headings == {"fn analyze", "pub fn analyze", "struct State", "fn init_state",
             "fn process_line", "fn finalize", "fn map_line"}

ASSUME PartsAssumption ==
  Parts \in [Sources -> SUBSET (Patterns \union Headings)]
ASSUME RequestsAssumption == Requests \in [Executors -> SUBSET (Kinds \X Sources)]
ASSUME CrashesAssumption == MaxCrashes \in Nat
ASSUME MemoryAssumption == MemorySize \in Nat \ {0} /\ HasDisk \in BOOLEAN

VARIABLES
  disk,      \* what each file holds: nothing, part of a file, or a build
  memory,    \* the LRU cache of each executor, the latest first
  task,      \* the command each executor runs
  crashes,
  accidents  \* history: files that two executors worked with at once, or whose
             \* writing failed or was cut short

vars == <<disk, memory, task, crashes, accidents>>

Lacks(source, patterns) == Parts[source] \intersect patterns = {}
OfModules == {"never", "std", "search"}

ValidateSource(source) ==
  Lacks(source, OfModules) /\ {"fn analyze", "pub fn analyze"} \subseteq Parts[source]

ValidateReduce(source) ==
  /\ Lacks(source, OfModules)
  /\ {"struct State", "fn init_state", "fn process_line", "fn finalize"} \subseteq Parts[source]

ValidateMap(source) == Lacks(source, OfModules) /\ "fn map_line" \in Parts[source]

ValidateCli(source) == Lacks(source, {"never", "unsafe"}) /\ "fn analyze" \in Parts[source]

Accepts(kind, source) ==
  \/ kind = "analyze" /\ ValidateSource(source)
  \/ kind = "reduce" /\ ValidateReduce(source)
  \/ kind = "map" /\ ValidateMap(source)
  \/ kind = "cli" /\ ValidateCli(source)

\* A source has one key in the module cache, whatever it is compiled as, and
\* a file of its own among the native binaries.
Key(kind, source) == <<IF kind = "cli" THEN "binary" ELSE "module", source>>
Files == {"binary", "module"} \X Sources
Absent == "absent"
Torn == "torn"

Idle == [pc |-> "idle", kind |-> Absent, source |-> Absent, got |-> Absent]

Init ==
  /\ disk = [f \in Files |-> Absent]
  /\ memory = [e \in Executors |-> <<>>]
  /\ task = [e \in Executors |-> Idle]
  /\ crashes = 0
  /\ accidents = {}

At(e, pc) == task[e].pc = pc
File(e) == Key(task[e].kind, task[e].source)
IsCli(e) == task[e].kind = "cli"
Goto(e, pc, got) == task' = [task EXCEPT ![e].pc = pc, ![e].got = got]
Ends(e) == task' = [task EXCEPT ![e] = Idle]

Without(cache, source) ==
  LET at == {i \in DOMAIN cache : cache[i].source = source}
  IN IF at = {} THEN cache ELSE RemoveAt(cache, CHOOSE i \in at : TRUE)

\* Mutant: the last one leaves one put too late.
Touched_Over(cache, source, build) ==
  LET others == Without(cache, source)
      all == <<[source |-> source, build |-> build]>> \o others
  IN SubSeq(all, 1, IF Len(others) > MemorySize THEN Len(others) ELSE Len(all))

\* LruCache::put, and get of a present key: the key comes first, the last one
\* leaves when there is no room.
Touched(cache, source, build) ==
  LET all == <<[source |-> source, build |-> build]>> \o Without(cache, source)
  IN SubSeq(all, 1, IF Len(all) > MemorySize THEN MemorySize ELSE Len(all))

Put(e, build) ==
  memory' = [memory EXCEPT ![e] = Touched(@, task[e].source, build)]

Cached(e) == {m \in {memory[e][i] : i \in DOMAIN memory[e]} : m.source = task[e].source}

-----------------------------------------------------------------------------
(* A command that compiles: the code is the model's, or generated for it.   *)

Ask(e) == \E kind \in Kinds, source \in Sources :
  /\ At(e, "idle") /\ <<kind, source>> \in Requests[e]
  /\ task' = [task EXCEPT ![e] = [pc |-> "lookup", kind |-> kind,
                                  source |-> source, got |-> Absent]]
  /\ accidents' =
       accidents \union {Key(kind, source) : o \in {x \in Executors \ {e} :
                           ~At(x, "idle") /\ File(x) = Key(kind, source)}}
  /\ UNCHANGED <<disk, memory, crashes>>

\* ModuleCache::get, in memory.
MemoryHit(e) ==
  /\ At(e, "lookup") /\ ~IsCli(e)
  /\ \E m \in Cached(e) : Goto(e, "run", m.build) /\ Put(e, m.build)
  /\ UNCHANGED <<disk, crashes, accidents>>

InMemory(e) == ~IsCli(e) /\ Cached(e) # {}
OnDisk(e) == (HasDisk \/ IsCli(e)) /\ disk[File(e)] # Absent
Valid(e) == Accepts(task[e].kind, task[e].source)

\* ModuleCache::get, on disk: what the file holds now is kept in memory.  A
\* native binary that exists is run as it is, once the source is validated.
DiskHit(e) ==
  /\ At(e, "lookup") /\ ~InMemory(e) /\ OnDisk(e)
  /\ IsCli(e) => Valid(e)
  /\ Goto(e, "run", disk[File(e)])
  /\ IF IsCli(e) THEN UNCHANGED memory ELSE Put(e, disk[File(e)])
  /\ UNCHANGED <<disk, crashes, accidents>>

\* Mutant: only the memory is looked at.
Miss_MemoryOnly(e) ==
  /\ At(e, "lookup") /\ ~InMemory(e)
  /\ Goto(e, "compile", Absent)
  /\ UNCHANGED <<disk, memory, crashes, accidents>>

Miss(e) ==
  /\ At(e, "lookup") /\ ~InMemory(e) /\ ~OnDisk(e)
  /\ IsCli(e) => Valid(e)
  /\ Goto(e, "compile", Absent)
  /\ UNCHANGED <<disk, memory, crashes, accidents>>

\* The validator of the kind refuses the source: of a module when no build of
\* it is cached, of a program at once.
Refused(e) ==
  /\ At(e, IF IsCli(e) THEN "lookup" ELSE "compile") /\ ~Valid(e)
  /\ Ends(e)
  /\ UNCHANGED <<disk, memory, crashes, accidents>>

\* Mutant: a build that fails leaves its output.
BuildFails_LeavesOutput(e) ==
  /\ (At(e, "compile") /\ Valid(e)) \/ At(e, "link")
  /\ Ends(e)
  /\ disk' = IF At(e, "link") THEN [disk EXCEPT ![File(e)] = Torn] ELSE disk
  /\ UNCHANGED <<memory, crashes, accidents>>

\* rustc refuses the source: no output is left.
BuildFails(e) ==
  /\ (At(e, "compile") /\ Valid(e)) \/ At(e, "link")
  /\ Ends(e)
  /\ disk' = IF At(e, "link") THEN [disk EXCEPT ![File(e)] = Absent] ELSE disk
  /\ UNCHANGED <<memory, crashes, accidents>>

\* rustc builds a module in a temporary directory.
Builds(e, kind) ==
  /\ At(e, "compile") /\ task[e].kind = kind
  /\ Goto(e, "write", kind)
  /\ UNCHANGED <<disk, memory, crashes, accidents>>

Compile(e) == Builds(e, "analyze") /\ ValidateSource(task[e].source)
CompileReduce(e) == Builds(e, "reduce") /\ ValidateReduce(task[e].source)
CompileMap(e) == Builds(e, "map") /\ ValidateMap(task[e].source)

\* compile_cli: rustc writes the binary where it is looked for.
StartLink(e) ==
  /\ At(e, "compile") /\ IsCli(e)
  /\ Goto(e, "link", Absent)
  /\ disk' = [disk EXCEPT ![File(e)] = Torn]
  /\ UNCHANGED <<memory, crashes, accidents>>

Link(e) ==
  /\ At(e, "link")
  /\ Goto(e, "run", "cli")
  /\ disk' = [disk EXCEPT ![File(e)] = "cli"]
  /\ UNCHANGED <<memory, crashes, accidents>>

\* ModuleCache::put: std::fs::write empties the file, then fills it.  A file
\* that cannot be opened stays as it was.
StartWrite(e) ==
  /\ At(e, "write")
  /\ \/ /\ HasDisk
        /\ disk' = [disk EXCEPT ![File(e)] = Torn]
        /\ Goto(e, "writing", task[e].got)
        /\ UNCHANGED memory
     \/ Goto(e, "run", task[e].got) /\ Put(e, task[e].got) /\ UNCHANGED disk
  /\ UNCHANGED <<crashes, accidents>>

\* The write ends, or fails half way: a warning, and the part stays.
EndWrite(e) ==
  /\ At(e, "writing")
  /\ \/ disk' = [disk EXCEPT ![File(e)] = task[e].got] /\ UNCHANGED accidents
     \/ accidents' = accidents \union {File(e)} /\ UNCHANGED disk
  /\ Goto(e, "run", task[e].got) /\ Put(e, task[e].got)
  /\ UNCHANGED crashes

\* Mutant: a build that cannot be loaded is looked up again.
Run_Retry(e) ==
  /\ At(e, "run")
  /\ IF task[e].got = task[e].kind THEN Ends(e) ELSE Goto(e, "lookup", Absent)
  /\ UNCHANGED <<disk, memory, crashes, accidents>>

\* The build runs, or cannot be loaded: part of a file, or the exports of
\* another kind.  Either way the cache keeps what it has.
Run(e) ==
  /\ At(e, "run")
  /\ Ends(e)
  /\ UNCHANGED <<disk, memory, crashes, accidents>>

-----------------------------------------------------------------------------

\* The query is over and another one gets a new executor.
NewQuery(e) ==
  /\ At(e, "idle") /\ memory[e] # <<>>
  /\ memory' = [memory EXCEPT ![e] = <<>>]
  /\ UNCHANGED <<disk, task, crashes, accidents>>

Writing(e) == At(e, "writing") \/ At(e, "link")

\* The server dies; the directory stays as it is.
Crash ==
  /\ crashes < MaxCrashes
  /\ crashes' = crashes + 1
  /\ accidents' = accidents \union {File(e) : e \in {x \in Executors : Writing(x)}}
  /\ memory' = [e \in Executors |-> <<>>]
  /\ task' = [e \in Executors |-> Idle]
  /\ UNCHANGED disk

Proceeds(e) ==
  \/ MemoryHit(e) \/ DiskHit(e) \/ Miss(e)
  \/ Refused(e) \/ Compile(e) \/ CompileReduce(e) \/ CompileMap(e) \/ StartLink(e)
  \/ StartWrite(e) \/ EndWrite(e)
\* rustc and the program that was built, whose ends the executor waits for.
ChildEnds(e) == BuildFails(e) \/ Link(e) \/ Run(e)

Next ==
  \/ \E e \in Executors : Ask(e) \/ Proceeds(e) \/ ChildEnds(e) \/ NewQuery(e)
  \/ Crash

Spec == Init /\ [][Next]_vars /\ \A e \in Executors : WF_vars(Proceeds(e))
\* ... provided that what it waits for ends by itself.
FairSpec == Spec /\ \A e \in Executors : WF_vars(ChildEnds(e))

-----------------------------------------------------------------------------
(* Properties.                                                              *)

Modules == Kinds \ {"cli"}
Tasks == [pc : {"idle", "lookup", "compile", "link", "write", "writing", "run"},
          kind : Kinds \union {Absent}, source : Sources \union {Absent},
          got : Kinds \union {Torn, Absent}]

\* The variables have their types; a memory cache holds a source once and no
\* more sources than its size.
TypeOK ==
  /\ disk \in [Files -> Kinds \union {Torn, Absent}]
  /\ memory \in [Executors -> Seq([source : Sources, build : Modules \union {Torn}])]
  /\ \A e \in Executors :
       /\ Len(memory[e]) <= MemorySize
       /\ \A i, j \in DOMAIN memory[e] :
            memory[e][i].source = memory[e][j].source => i = j
  /\ task \in [Executors -> Tasks]
  /\ crashes \in 0..MaxCrashes
  /\ accidents \subseteq Files

Loaded(e) ==
  (IF At(e, "run") THEN {<<File(e), task[e].got>>} ELSE {})
  \union {<<Key("map", memory[e][i].source), memory[e][i].build>> : i \in DOMAIN memory[e]}

\* Nobody runs or keeps part of a build unless its write was cut short, or two
\* queries worked with the file at once.  (Both happen: the file is not written
\* aside and renamed, and what was read is not checked.)
TornOnlyByAccident ==
  /\ \A f \in Files :
       disk[f] = Torn =>
         f \in accidents \/ \E e \in Executors : Writing(e) /\ File(e) = f
  /\ \A e \in Executors : \A l \in Loaded(e) :
       l[2] = Torn => l[1] \in accidents

\* A whole build on disk is replaced only by queries that missed it together.
WholeFileStays == [][\A f \in Files :
  (disk[f] \in Kinds /\ disk'[f] # disk[f]) => f \in accidents]_vars

\* Every command ends, when the compiler and the program it runs do.
CommandEnds == \A e \in Executors : ~At(e, "idle") ~> At(e, "idle")

\* What the repository says, and the code does not do.
\* commands/mod.rs, timeout_secs of rust_cli_intent: "Timeout in seconds
\* (default: 30)".  It is looked at when the program has ended.
CliTimesOut == \A e \in Executors : (At(e, "run") /\ IsCli(e)) ~> At(e, "idle")

=============================================================================
