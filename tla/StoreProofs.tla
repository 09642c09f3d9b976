---------------------------- MODULE StoreProofs ----------------------------
(***************************************************************************)
(* Proofs about the module cache for any executors, sources and bounds.     *)
(***************************************************************************)
EXTENDS Store, SequenceTheorems, TLAPS

Entries == [source : Sources, build : Modules \union {Torn}]
Busy(e) == ~At(e, "idle")

\* What a command knows of its code at each place.
Knows(e) ==
  /\ Busy(e) => task[e].kind \in Kinds /\ task[e].source \in Sources
  /\ At(e, "link") => IsCli(e)
  /\ (At(e, "write") \/ At(e, "writing")) => task[e].got = task[e].kind /\ ~IsCli(e)
  /\ At(e, "run") => task[e].got # Absent

\* Modules and programs have directories of their own.
KindInv == \A s \in Sources : disk[<<"module", s>>] # "cli"

\* Two commands that work with one file are an accident of that file.
SharingInv == \A e, o \in Executors :
  e # o /\ Busy(e) /\ Busy(o) /\ File(e) = File(o) => File(e) \in accidents

\* The file a command has missed is still absent, and the one it writes is
\* partial, or somebody else works with it too.
Owns(e) ==
  /\ (At(e, "compile") \/ At(e, "write")) /\ (HasDisk \/ IsCli(e)) =>
       disk[File(e)] = Absent \/ File(e) \in accidents
  /\ Writing(e) => disk[File(e)] = Torn \/ File(e) \in accidents

IInv ==
  /\ TypeOK /\ KindInv /\ SharingInv /\ TornOnlyByAccident
  /\ \A e \in Executors : Knows(e) /\ Owns(e)

-----------------------------------------------------------------------------
(* The memory cache.                                                        *)

Once(cache) == \A i, j \in DOMAIN cache : cache[i].source = cache[j].source => i = j

LEMMA RemovedAt ==
  ASSUME NEW cache \in Seq(Entries), NEW i \in 1..Len(cache)
  PROVE  /\ RemoveAt(cache, i) \in Seq(Entries)
         /\ Len(RemoveAt(cache, i)) = Len(cache) - 1
         /\ \A k \in 1..Len(cache) - 1 :
              /\ k < i => RemoveAt(cache, i)[k] = cache[k]
              /\ k >= i => RemoveAt(cache, i)[k] = cache[k + 1]
<1> DEFINE before == SubSeq(cache, 1, i - 1)
           after == SubSeq(cache, i + 1, Len(cache))
<1>1. Len(cache) \in Nat /\ i \in Nat /\ i >= 1 /\ i <= Len(cache)
      /\ \A k \in 1..Len(cache) : cache[k] \in Entries
  BY LenProperties, ElementOfSeq
<1>2. before \in Seq(Entries) /\ Len(before) = i - 1
      /\ \A k \in 1..i - 1 : before[k] = cache[k]
  BY <1>1
<1>3. after \in Seq(Entries) /\ Len(after) = Len(cache) - i
      /\ \A k \in 1..Len(cache) - i : after[k] = cache[i + k]
  BY <1>1
<1>4. /\ before \o after \in Seq(Entries)
      /\ Len(before \o after) = Len(before) + Len(after)
      /\ \A k \in 1..Len(before) + Len(after) :
           (before \o after)[k] = IF k <= Len(before) THEN before[k]
                                  ELSE after[k - Len(before)]
  BY <1>2, <1>3, ConcatProperties
<1> HIDE DEF before, after
<1>5. ASSUME NEW k \in 1..Len(cache) - 1
      PROVE  /\ k < i => (before \o after)[k] = cache[k]
             /\ k >= i => (before \o after)[k] = cache[k + 1]
  <2>1. CASE k < i
    BY <1>1, <1>2, <1>3, <1>4, <2>1
  <2>2. CASE k >= i
    <3>1. k - (i - 1) \in 1..Len(cache) - i /\ i + (k - (i - 1)) = k + 1
      BY <1>1, <2>2
    <3>2. (before \o after)[k] = after[k - (i - 1)]
      BY <1>1, <1>2, <1>3, <1>4, <2>2
    <3>3. after[k - (i - 1)] = cache[i + (k - (i - 1))]
      BY <1>3, <3>1
    <3>4. (before \o after)[k] = cache[k + 1]
      BY <3>1, <3>2, <3>3
    <3>5. ~(k < i)
      BY <1>1, <2>2
    <3> QED BY <3>4, <3>5
  <2> QED BY <2>1, <2>2
<1>6. RemoveAt(cache, i) = before \o after
  BY DEF RemoveAt, before, after
<1>7. Len(before) + Len(after) = Len(cache) - 1
  BY <1>1, <1>2, <1>3
<1> QED BY <1>4, <1>5, <1>6, <1>7

\* Without a source the cache has the entries of the others, each once.
LEMMA WithoutIs ==
  ASSUME NEW cache \in Seq(Entries), NEW source, Once(cache)
  PROVE  LET rest == Without(cache, source)
         IN /\ rest \in Seq(Entries) /\ Once(rest)
            /\ \A k \in DOMAIN rest : /\ rest[k].source # source
                                       /\ \E j \in DOMAIN cache : rest[k] = cache[j]
<1> DEFINE at == {i \in DOMAIN cache : cache[i].source = source}
           rest == Without(cache, source)
<1>1. DOMAIN cache = 1..Len(cache) /\ Len(cache) \in Nat
  BY LenProperties
<1>2. CASE at = {}
  BY <1>2 DEF Without
<1>3. CASE at # {}
  <2>1. PICK i \in 1..Len(cache) : cache[i].source = source /\ rest = RemoveAt(cache, i)
    BY <1>1, <1>3 DEF Without
  <2>2. rest \in Seq(Entries) /\ DOMAIN rest = 1..Len(cache) - 1
        /\ \A k \in 1..Len(cache) - 1 : /\ k < i => rest[k] = cache[k]
                                        /\ k >= i => rest[k] = cache[k + 1]
    <3>1. /\ rest \in Seq(Entries) /\ Len(rest) = Len(cache) - 1
          /\ \A k \in 1..Len(cache) - 1 : /\ k < i => rest[k] = cache[k]
                                          /\ k >= i => rest[k] = cache[k + 1]
      BY <2>1, RemovedAt
    <3> QED BY <3>1, LenProperties
  <2> HIDE DEF rest
  <2>3. ASSUME NEW k \in 1..Len(cache) - 1
        PROVE  \E j \in DOMAIN cache : j # i /\ rest[k] = cache[j]
    <3>1. k \in DOMAIN cache /\ k + 1 \in DOMAIN cache
      BY <1>1
    <3>2. CASE k < i
      BY <1>1, <2>2, <3>1, <3>2
    <3>3. CASE k >= i
      BY <1>1, <2>2, <3>1, <3>3
    <3> QED BY <1>1, <3>2, <3>3
  <2>4. \A k \in DOMAIN rest : /\ rest[k].source # source
                              /\ \E j \in DOMAIN cache : rest[k] = cache[j]
    BY <1>1, <2>1, <2>2, <2>3 DEF Once
  <2>5. Once(rest)
    <3> SUFFICES ASSUME NEW k \in 1..Len(cache) - 1, NEW l \in 1..Len(cache) - 1,
                        rest[k].source = rest[l].source
                 PROVE  k = l
      BY <2>2 DEF Once
    <3>1. /\ rest[k] = cache[IF k < i THEN k ELSE k + 1]
          /\ rest[l] = cache[IF l < i THEN l ELSE l + 1]
      BY <2>2
    <3>2. (IF k < i THEN k ELSE k + 1) \in DOMAIN cache
          /\ (IF l < i THEN l ELSE l + 1) \in DOMAIN cache
      BY <1>1
    <3>3. (IF k < i THEN k ELSE k + 1) = (IF l < i THEN l ELSE l + 1)
      BY <3>1, <3>2 DEF Once
    <3> QED BY <1>1, <3>3
  <2> QED BY <2>2, <2>4, <2>5 DEF rest
<1> QED BY <1>2, <1>3

\* A source that is touched comes first; the cache stays within its size.
LEMMA TouchedIs ==
  ASSUME NEW cache \in Seq(Entries), NEW source \in Sources,
         NEW build \in Modules \union {Torn}, Once(cache)
  PROVE  LET new == Touched(cache, source, build)
         IN /\ new \in Seq(Entries) /\ Once(new) /\ Len(new) <= MemorySize
            /\ \A k \in DOMAIN new :
                 \/ new[k] = [source |-> source, build |-> build]
                 \/ \E j \in DOMAIN cache : new[k] = cache[j]
<1> DEFINE rest == Without(cache, source)
           first == [source |-> source, build |-> build]
           all == <<first>> \o rest
           size == IF Len(all) > MemorySize THEN MemorySize ELSE Len(all)
           new == SubSeq(all, 1, size)
<1>1. /\ rest \in Seq(Entries) /\ Once(rest)
      /\ \A k \in DOMAIN rest : /\ rest[k].source # source
                                 /\ \E j \in DOMAIN cache : rest[k] = cache[j]
  BY WithoutIs
<1>2. first \in Entries /\ first.source = source
  BY DEF Entries
<1> HIDE DEF rest, first
<1>3. /\ all \in Seq(Entries) /\ Len(all) = 1 + Len(rest)
      /\ \A k \in 1..1 + Len(rest) : all[k] = IF k = 1 THEN first ELSE rest[k - 1]
  <2>1. <<first>> \in Seq(Entries) /\ Len(<<first>>) = 1 /\ <<first>>[1] = first
    BY <1>2
  <2> QED BY <1>1, <2>1, ConcatProperties, LenProperties
<1> HIDE DEF all
<1>4. size \in Nat /\ size <= MemorySize /\ size <= Len(all)
  BY <1>3, LenProperties, MemoryAssumption
<1> HIDE DEF size
<1>5. /\ new \in Seq(Entries) /\ Len(new) = size /\ DOMAIN new = 1..size
      /\ \A k \in 1..size : new[k] = all[k]
  <2>1. Len(all) \in Nat /\ \A k \in 1..Len(all) : all[k] \in Entries
    BY <1>3, LenProperties, ElementOfSeq
  <2> QED BY <1>4, <2>1
<1>6. Len(rest) \in Nat /\ DOMAIN rest = 1..Len(rest)
  BY <1>1, LenProperties
<1> HIDE DEF new
<1>7. ASSUME NEW k \in DOMAIN new
      PROVE  \/ k = 1 /\ new[k] = first
             \/ k # 1 /\ k - 1 \in DOMAIN rest /\ new[k] = rest[k - 1]
  BY <1>3, <1>4, <1>5, <1>6
<1>8. Once(new)
  <2> SUFFICES ASSUME NEW k \in DOMAIN new, NEW l \in DOMAIN new,
                      new[k].source = new[l].source
               PROVE  k = l
    BY DEF Once
  <2>1. CASE k = 1 \/ l = 1
    BY <1>1, <1>2, <1>7, <2>1
  <2>2. CASE k # 1 /\ l # 1
    <3>1. k - 1 \in DOMAIN rest /\ l - 1 \in DOMAIN rest
          /\ rest[k - 1].source = rest[l - 1].source
      BY <1>7, <2>2
    <3>2. k - 1 = l - 1
      BY <1>1, <3>1 DEF Once
    <3> QED BY <1>5, <1>4, <3>2
  <2> QED BY <2>1, <2>2
<1>9. Touched(cache, source, build) = new
  BY DEF Touched, new, all, rest, first, size
<1> QED BY <1>1, <1>4, <1>5, <1>7, <1>8, <1>9 DEF first

-----------------------------------------------------------------------------
(* Steps of one command.                                                    *)

\* A command's step changes its own task, file and memory only, and keeps its
\* file or gives it up; a file that had an accident keeps its mark.
Local(e) ==
  /\ Busy(e) /\ File(e) \in Files
  /\ \/ task'[e] = Idle
     \/ Busy(e)' /\ File(e)' = File(e)
  /\ \A o \in Executors \ {e} : task'[o] = task[o] /\ memory'[o] = memory[o]
  /\ \A f \in Files \ {File(e)} : disk'[f] = disk[f]
  /\ accidents \subseteq accidents'

\* What it must see to.
Fine(e) ==
  /\ Knows(e)' /\ Owns(e)'
  /\ disk'[File(e)] = "cli" => IsCli(e)
  /\ disk'[File(e)] = Torn =>
       \/ File(e) \in accidents'
       \/ Writing(e)' /\ File(e)' = File(e)
       \/ disk[File(e)] = Torn /\ ~Writing(e)
  /\ \A l \in Loaded(e)' : l[2] = Torn => l[1] \in accidents'

\* Then the others keep what they know.
LEMMA LocalKeeps ==
  ASSUME IInv, TypeOK', NEW e \in Executors, Local(e), Fine(e)
  PROVE  IInv'
<1>1. ASSUME NEW o \in Executors \ {e}
      PROVE  /\ \A pc : At(o, pc)' = At(o, pc)
             /\ Busy(o)' = Busy(o) /\ File(o)' = File(o) /\ IsCli(o)' = IsCli(o)
             /\ Writing(o)' = Writing(o) /\ Loaded(o)' = Loaded(o)
             /\ Knows(o)' = Knows(o)
             /\ Busy(o) /\ File(o) = File(e) => File(e) \in accidents
  <2>1. task'[o] = task[o] /\ memory'[o] = memory[o]
    BY DEF Local
  <2> QED BY <2>1 DEF At, Busy, File, IsCli, Writing, Loaded, Knows, Local, IInv, SharingInv
<1>2. KindInv'
  <2> SUFFICES ASSUME NEW s \in Sources, disk'[<<"module", s>>] = "cli" PROVE FALSE
    BY DEF KindInv
  <2>1. <<"module", s>> \in Files /\ disk[<<"module", s>>] # "cli"
    BY DEF Files, IInv, KindInv
  <2>2. File(e) = <<"module", s>> => ~IsCli(e)
    BY DEF File, Key, IsCli
  <2> QED BY <2>1, <2>2 DEF Local, Fine
<1>3. SharingInv'
  <2> SUFFICES ASSUME NEW a \in Executors, NEW o \in Executors, a # o,
                      Busy(a)', Busy(o)', File(a)' = File(o)'
               PROVE  File(a)' \in accidents'
    BY DEF SharingInv
  <2>1. ~Busy(e)' \/ File(e)' = File(e)
    BY DEF Local, Busy, At, Idle
  <2> QED BY <1>1, <2>1 DEF IInv, SharingInv, Local
<1>4. ASSUME NEW o \in Executors PROVE Knows(o)' /\ Owns(o)'
  <2>1. CASE o = e
    BY <2>1 DEF Fine
  <2>2. CASE o # e
    <3>1. o \in Executors \ {e} /\ Knows(o) /\ Owns(o)
      BY <2>2 DEF IInv
    <3>2. Busy(o) => File(o) \in Files
      BY <3>1 DEF Knows, File, Key, Files
    <3>3. At(o, "compile") \/ At(o, "write") \/ Writing(o) => Busy(o)
      BY DEF At, Busy, Writing
    <3>4. Busy(o) => disk'[File(o)] = disk[File(o)] \/ File(o) \in accidents
      BY <1>1, <3>1, <3>2 DEF Local
    <3> QED BY <1>1, <3>1, <3>3, <3>4 DEF Owns, Local
  <2> QED BY <2>1, <2>2
<1>5. TornOnlyByAccident'
  <2>1. ASSUME NEW f \in Files, disk'[f] = Torn
        PROVE  f \in accidents' \/ \E o \in Executors : Writing(o)' /\ File(o)' = f
    <3>1. CASE f # File(e)
      <4>1. f \in accidents \/ \E o \in Executors : Writing(o) /\ File(o) = f
        BY <2>1, <3>1 DEF IInv, TornOnlyByAccident, Local
      <4> QED BY <1>1, <3>1, <4>1 DEF Local
    <3>2. CASE f = File(e) /\ disk[f] = Torn /\ ~Writing(e)
      <4>1. f \in accidents \/ \E o \in Executors : Writing(o) /\ File(o) = f
        BY <2>1, <3>2 DEF IInv, TornOnlyByAccident
      <4>2. \A o \in Executors : Writing(o) => Busy(o)
        BY DEF Writing, At, Busy
      <4> QED BY <1>1, <3>2, <4>1, <4>2 DEF Local
    <3> QED BY <2>1, <3>1, <3>2 DEF Fine
  <2>2. ASSUME NEW o \in Executors, NEW l \in Loaded(o)', l[2] = Torn
        PROVE  l[1] \in accidents'
    BY <1>1, <2>2 DEF Fine, IInv, TornOnlyByAccident, Local
  <2> QED BY <2>1, <2>2 DEF TornOnlyByAccident
<1> QED BY <1>2, <1>3, <1>4, <1>5 DEF IInv

-----------------------------------------------------------------------------
(* The steps.                                                               *)

PCs == {"idle", "lookup", "compile", "link", "write", "writing", "run"}
Gots == Kinds \union {Torn, Absent}

LEMMA Going ==
  ASSUME IInv, NEW e \in Executors, Busy(e),
         NEW pc \in PCs \ {"idle"}, NEW got \in Gots, Goto(e, pc, got)
  PROVE  /\ task' \in [Executors -> Tasks]
         /\ task'[e] = [task[e] EXCEPT !.pc = pc, !.got = got]
         /\ \A q : At(e, q)' <=> pc = q
         /\ task'[e].got = got /\ task'[e].kind = task[e].kind
         /\ task'[e].source = task[e].source
         /\ Busy(e)' /\ File(e)' = File(e) /\ IsCli(e)' = IsCli(e)
         /\ task[e].kind \in Kinds /\ task[e].source \in Sources /\ File(e) \in Files
         /\ \A o \in Executors \ {e} : task'[o] = task[o]
<1>1. /\ task \in [Executors -> Tasks] /\ task[e].kind \in Kinds
      /\ task[e].source \in Sources
  BY DEF IInv, TypeOK, Knows
<1>2. task' = [task EXCEPT ![e] = [task[e] EXCEPT !.pc = pc, !.got = got]]
  BY <1>1 DEF Goto, Tasks
<1>3. [task[e] EXCEPT !.pc = pc, !.got = got] \in Tasks
  BY <1>1 DEF Tasks, PCs, Gots
<1>4. File(e) \in Files
  BY <1>1 DEF File, Key, Files
<1>5. /\ task'[e].pc = pc /\ task'[e].got = got /\ task'[e].kind = task[e].kind
      /\ task'[e].source = task[e].source
  BY <1>1, <1>2 DEF Tasks
<1> QED BY <1>1, <1>2, <1>3, <1>4, <1>5 DEF At, Busy, File, IsCli

LEMMA Ending ==
  ASSUME IInv, NEW e \in Executors, Busy(e), Ends(e)
  PROVE  /\ task' \in [Executors -> Tasks]
         /\ task'[e] = Idle /\ \A q : At(e, q)' <=> q = "idle"
         /\ File(e) \in Files
         /\ \A o \in Executors \ {e} : task'[o] = task[o]
<1>1. /\ task \in [Executors -> Tasks] /\ task[e].kind \in Kinds
      /\ task[e].source \in Sources
  BY DEF IInv, TypeOK, Knows
<1>2. File(e) \in Files
  BY <1>1 DEF File, Key, Files
<1>3. Idle \in Tasks
  BY DEF Idle, Tasks
<1> QED BY <1>1, <1>2, <1>3 DEF Ends, At, Idle

MemoryOK ==
  /\ memory \in [Executors -> Seq(Entries)]
  /\ \A e \in Executors : Len(memory[e]) <= MemorySize /\ Once(memory[e])

LEMMA TypeIs ==
  TypeOK <=> /\ disk \in [Files -> Gots] /\ MemoryOK
             /\ task \in [Executors -> Tasks]
             /\ crashes \in 0..MaxCrashes /\ accidents \subseteq Files
  BY DEF TypeOK, MemoryOK, Entries, Once, Gots

LEMMA TypeNext ==
  ASSUME disk' \in [Files -> Gots], MemoryOK', task' \in [Executors -> Tasks],
         crashes' \in 0..MaxCrashes, accidents' \subseteq Files
  PROVE  TypeOK'
  BY DEF TypeOK, MemoryOK, Entries, Once, Gots

\* A build that is put is what the cache learns.
LEMMA Putting ==
  ASSUME IInv, NEW e \in Executors, task[e].source \in Sources,
         NEW build \in Modules \union {Torn}, Put(e, build)
  PROVE  /\ MemoryOK'
         /\ \A o \in Executors \ {e} : memory'[o] = memory[o]
         /\ \A k \in DOMAIN memory'[e] :
              \/ memory'[e][k] = [source |-> task[e].source, build |-> build]
              \/ \E j \in DOMAIN memory[e] : memory'[e][k] = memory[e][j]
<1>1. MemoryOK
  BY TypeIs DEF IInv
<1>2. /\ memory[e] \in Seq(Entries) /\ Once(memory[e])
      /\ memory' = [memory EXCEPT ![e] = Touched(memory[e], task[e].source, build)]
  BY <1>1 DEF Put, MemoryOK
<1>3. LET new == Touched(memory[e], task[e].source, build)
      IN /\ new \in Seq(Entries) /\ Once(new) /\ Len(new) <= MemorySize
         /\ \A k \in DOMAIN new :
              \/ new[k] = [source |-> task[e].source, build |-> build]
              \/ \E j \in DOMAIN memory[e] : new[k] = memory[e][j]
  BY <1>2, TouchedIs
<1> QED BY <1>1, <1>2, <1>3 DEF MemoryOK

\* What a command has loaded after a step.
LEMMA Loading ==
  ASSUME IInv, NEW e \in Executors, task[e].source \in Sources,
         NEW build \in Modules \union {Torn},
         \A k \in DOMAIN memory'[e] :
           \/ memory'[e][k] = [source |-> task[e].source, build |-> build]
           \/ \E j \in DOMAIN memory[e] : memory'[e][k] = memory[e][j],
         ~IsCli(e), build = Torn => File(e) \in accidents',
         accidents \subseteq accidents'
  PROVE  \A k \in DOMAIN memory'[e] :
           memory'[e][k].build = Torn =>
             Key("map", memory'[e][k].source) \in accidents'
<1> SUFFICES ASSUME NEW k \in DOMAIN memory'[e], memory'[e][k].build = Torn
             PROVE  Key("map", memory'[e][k].source) \in accidents'
  OBVIOUS
<1>1. CASE memory'[e][k] = [source |-> task[e].source, build |-> build]
  BY <1>1 DEF File, Key, IsCli
<1>2. ASSUME NEW j \in DOMAIN memory[e], memory'[e][k] = memory[e][j]
      PROVE  Key("map", memory'[e][k].source) \in accidents'
  <2>1. <<Key("map", memory[e][j].source), memory[e][j].build>> \in Loaded(e)
    BY DEF Loaded
  <2> QED BY <1>2, <2>1 DEF IInv, TornOnlyByAccident
<1> QED BY <1>1, <1>2

LEMMA Remembering ==
  ASSUME IInv, NEW e \in Executors, NEW k \in DOMAIN memory[e],
         memory[e][k].build = Torn
  PROVE  Key("map", memory[e][k].source) \in accidents
<1>1. <<Key("map", memory[e][k].source), memory[e][k].build>> \in Loaded(e)
  BY DEF Loaded
<1> QED BY <1>1 DEF IInv, TornOnlyByAccident

\* The file of a command that does not write, if it is partial, is marked or
\* somebody else's at this moment, which marks it as well.
LEMMA OthersTorn ==
  ASSUME IInv, NEW e \in Executors, Busy(e), ~Writing(e), File(e) \in Files,
         disk[File(e)] = Torn
  PROVE  File(e) \in accidents
<1>1. File(e) \in accidents \/ \E o \in Executors : Writing(o) /\ File(o) = File(e)
  BY DEF IInv, TornOnlyByAccident
<1>2. \A o \in Executors : Writing(o) => Busy(o) /\ o # e
  BY DEF Writing, At, Busy
<1> QED BY <1>1, <1>2 DEF IInv, SharingInv

Step(e) == TypeOK' /\ Local(e) /\ Fine(e)

\* The memories after a step of e.
MemoryFine(e) ==
  /\ MemoryOK'
  /\ \A o \in Executors \ {e} : memory'[o] = memory[o]
  /\ \A k \in DOMAIN memory'[e] :
       memory'[e][k].build = Torn => Key("map", memory'[e][k].source) \in accidents'

LEMMA SameMemory ==
  ASSUME IInv, NEW e \in Executors, memory' = memory, accidents \subseteq accidents'
  PROVE  MemoryFine(e)
<1>1. MemoryOK'
  BY TypeIs DEF IInv, MemoryOK
<1> QED BY <1>1, Remembering DEF MemoryFine

LEMMA PutMemory ==
  ASSUME IInv, NEW e \in Executors, task[e].source \in Sources, ~IsCli(e),
         NEW build \in Modules \union {Torn}, Put(e, build),
         build = Torn => File(e) \in accidents', accidents \subseteq accidents'
  PROVE  MemoryFine(e)
<1>1. /\ MemoryOK' /\ \A o \in Executors \ {e} : memory'[o] = memory[o]
      /\ \A k \in DOMAIN memory'[e] :
           \/ memory'[e][k] = [source |-> task[e].source, build |-> build]
           \/ \E i \in DOMAIN memory[e] : memory'[e][k] = memory[e][i]
  BY Putting
<1>2. \A k \in DOMAIN memory'[e] :
        memory'[e][k].build = Torn => Key("map", memory'[e][k].source) \in accidents'
  BY <1>1, Loading
<1> QED BY <1>1, <1>2 DEF MemoryFine

\* What a step may do to the disk.
DiskFine(e) ==
  /\ disk' \in [Files -> Gots]
  /\ \A f \in Files \ {File(e)} : disk'[f] = disk[f]
  /\ disk'[File(e)] = "cli" => IsCli(e)
  /\ accidents \subseteq accidents' /\ accidents' \subseteq Files
  /\ crashes' = crashes

LEMMA SameDisk ==
  ASSUME IInv, NEW e \in Executors, Busy(e), UNCHANGED <<disk, crashes>>,
         accidents \subseteq accidents', accidents' \subseteq Files
  PROVE  DiskFine(e)
<1>1. disk \in [Files -> Gots]
  BY TypeIs DEF IInv
<1>2. task[e].source \in Sources /\ KindInv
  BY DEF IInv, Knows
<1>3. disk[File(e)] = "cli" => IsCli(e)
  BY <1>2 DEF KindInv, File, Key, IsCli
<1> QED BY <1>1, <1>3 DEF DiskFine

LEMMA OneFile ==
  ASSUME IInv, NEW e \in Executors, Busy(e), NEW got \in Gots, got = "cli" => IsCli(e),
         disk' = [disk EXCEPT ![File(e)] = got], UNCHANGED <<crashes, accidents>>
  PROVE  DiskFine(e) /\ disk'[File(e)] = got
<1>1. disk \in [Files -> Gots] /\ accidents \subseteq Files
  BY TypeIs DEF IInv
<1>2. File(e) \in Files
  BY DEF IInv, Knows, File, Key, Files
<1> QED BY <1>1, <1>2 DEF DiskFine

\* A step to another place keeps everything when it keeps what is known there.
LEMMA GoStep ==
  ASSUME IInv, NEW e \in Executors, Busy(e), NEW pc \in PCs \ {"idle"}, NEW got \in Gots,
         Goto(e, pc, got), MemoryFine(e), DiskFine(e),
         pc = "link" => IsCli(e),
         pc \in {"write", "writing"} => got = task[e].kind /\ ~IsCli(e),
         pc = "run" => (got # Absent /\ (got = Torn => File(e) \in accidents')),
         (pc \in {"compile", "write"} /\ (HasDisk \/ IsCli(e))) =>
           (disk'[File(e)] = Absent \/ File(e) \in accidents'),
         pc \in {"link", "writing"} => (disk'[File(e)] = Torn \/ File(e) \in accidents'),
         disk'[File(e)] = Torn => \/ File(e) \in accidents'
                                 \/ pc \in {"link", "writing"}
                                 \/ (disk[File(e)] = Torn /\ ~Writing(e))
  PROVE  Step(e)
<1>1. /\ task' \in [Executors -> Tasks] /\ \A q : At(e, q)' <=> pc = q
      /\ task'[e].got = got /\ task'[e].kind = task[e].kind
      /\ Busy(e)' /\ File(e)' = File(e) /\ IsCli(e)' = IsCli(e)
      /\ task'[e].kind \in Kinds /\ task'[e].source \in Sources /\ File(e) \in Files
      /\ \A o \in Executors \ {e} : task'[o] = task[o]
  BY Going
<1>2. TypeOK'
  BY <1>1, TypeIs, TypeNext DEF IInv, MemoryFine, DiskFine
<1>3. Local(e)
  BY <1>1 DEF Local, MemoryFine, DiskFine
<1>4. Writing(e)' <=> pc \in {"link", "writing"}
  BY <1>1 DEF Writing
<1>5. Knows(e)' /\ Owns(e)'
  BY <1>1, <1>4 DEF Knows, Owns
<1>6. \A l \in Loaded(e)' : l[2] = Torn => l[1] \in accidents'
  BY <1>1 DEF Loaded, MemoryFine
<1>7. Fine(e)
  BY <1>1, <1>4, <1>5, <1>6 DEF Fine, DiskFine
<1> QED BY <1>2, <1>3, <1>7 DEF Step

LEMMA EndStep ==
  ASSUME IInv, NEW e \in Executors, Busy(e), Ends(e), memory' = memory, DiskFine(e),
         disk'[File(e)] = Torn =>
           File(e) \in accidents' \/ (disk[File(e)] = Torn /\ ~Writing(e))
  PROVE  Step(e)
<1>1. /\ task' \in [Executors -> Tasks] /\ task'[e] = Idle
      /\ \A q : At(e, q)' <=> q = "idle"
      /\ File(e) \in Files
      /\ \A o \in Executors \ {e} : task'[o] = task[o]
  BY Ending
<1>2. MemoryFine(e)
  BY SameMemory DEF DiskFine
<1>3. TypeOK'
  BY <1>1, <1>2, TypeIs, TypeNext DEF IInv, MemoryFine, DiskFine
<1>4. Local(e)
  BY <1>1, <1>2 DEF Local, MemoryFine, DiskFine
<1>5. Knows(e)' /\ Owns(e)'
  BY <1>1 DEF Knows, Owns, Busy, Writing
<1>6. \A l \in Loaded(e)' : l[2] = Torn => l[1] \in accidents'
  BY <1>1, <1>2 DEF Loaded, MemoryFine
<1>7. Fine(e)
  BY <1>5, <1>6 DEF Fine, DiskFine
<1> QED BY <1>3, <1>4, <1>7 DEF Step

LEMMA WorkStep ==
  ASSUME IInv, NEW e \in Executors, Proceeds(e) \/ ChildEnds(e) PROVE Step(e)
<1>1. Busy(e) /\ task[e].kind \in Kinds /\ task[e].source \in Sources
      /\ File(e) \in Files /\ accidents \subseteq Files
  <2>1. Busy(e)
    BY DEF Proceeds, ChildEnds, Busy, At, IsCli, MemoryHit, DiskHit, Miss, Refused,
           Compile, CompileReduce, CompileMap, Builds, StartLink, StartWrite, EndWrite,
           BuildFails, Link, Run
  <2> QED BY <2>1, TypeIs DEF IInv, Knows, File, Key, Files
<1>2. CASE MemoryHit(e)
  <2>1. PICK m \in Cached(e) : Goto(e, "run", m.build) /\ Put(e, m.build)
    BY <1>2 DEF MemoryHit
  <2>2. ~Writing(e) /\ ~IsCli(e) /\ UNCHANGED <<disk, crashes, accidents>>
    BY <1>2 DEF MemoryHit, At, Writing
  <2>3. PICK j \in DOMAIN memory[e] : m = memory[e][j] /\ m.source = task[e].source
    BY DEF Cached
  <2>4. m \in Entries
    BY <2>3, TypeIs, ElementOfSeq, LenProperties DEF IInv, MemoryOK
  <2>5. m.build \in Modules \union {Torn} /\ m.build \in Gots \ {Absent}
    BY <2>4 DEF Entries, Modules, Gots, Kinds, Absent, Torn
  <2>6. m.build = Torn => File(e) \in accidents
    BY <2>2, <2>3, Remembering DEF File, Key, IsCli
  <2>7. MemoryFine(e) /\ DiskFine(e)
    BY <1>1, <2>1, <2>2, <2>5, <2>6, PutMemory, SameDisk
  <2> QED BY <1>1, <2>1, <2>2, <2>5, <2>6, <2>7, GoStep DEF PCs
<1>3. CASE DiskHit(e)
  <2>1. /\ Goto(e, "run", disk[File(e)]) /\ ~Writing(e) /\ disk[File(e)] # Absent
        /\ UNCHANGED <<disk, crashes, accidents>>
    BY <1>3 DEF DiskHit, OnDisk, At, Writing
  <2>2. DiskFine(e) /\ disk[File(e)] \in Gots
    BY <1>1, <2>1, SameDisk, TypeIs DEF IInv
  <2>3. disk[File(e)] = Torn => File(e) \in accidents
    BY <1>1, <2>1, OthersTorn
  <2>4. MemoryFine(e)
    <3>1. CASE IsCli(e)
      BY <1>3, <2>1, <3>1, SameMemory DEF DiskHit
    <3>2. CASE ~IsCli(e)
      <4>1. Put(e, disk[File(e)]) /\ disk[File(e)] \in Modules \union {Torn}
        BY <1>3, <2>1, <2>2, <3>2 DEF DiskHit, DiskFine, Gots, Modules
      <4> QED BY <1>1, <2>1, <2>3, <3>2, <4>1, PutMemory
    <3> QED BY <3>1, <3>2
  <2> QED BY <1>1, <2>1, <2>2, <2>3, <2>4, GoStep DEF PCs
<1>4. CASE Miss(e)
  <2>1. /\ Goto(e, "compile", Absent) /\ ~Writing(e)
        /\ (HasDisk \/ IsCli(e)) => disk[File(e)] = Absent
        /\ UNCHANGED <<disk, memory, crashes, accidents>>
    BY <1>4 DEF Miss, OnDisk, At, Writing
  <2>2. MemoryFine(e) /\ DiskFine(e)
    BY <1>1, <2>1, SameMemory, SameDisk
  <2> QED BY <1>1, <2>1, <2>2, GoStep DEF PCs, Gots
<1>5. CASE Compile(e) \/ CompileReduce(e) \/ CompileMap(e)
  <2>1. /\ Goto(e, "write", task[e].kind) /\ ~Writing(e) /\ ~IsCli(e) /\ At(e, "compile")
        /\ UNCHANGED <<disk, memory, crashes, accidents>>
    BY <1>5 DEF Compile, CompileReduce, CompileMap, Builds, At, Writing, IsCli
  <2>2. MemoryFine(e) /\ DiskFine(e)
    BY <1>1, <2>1, SameMemory, SameDisk
  <2>3. HasDisk => disk[File(e)] = Absent \/ File(e) \in accidents
    BY <2>1 DEF IInv, Owns
  <2> QED BY <1>1, <2>1, <2>2, <2>3, GoStep DEF PCs, Gots
<1>6. CASE StartLink(e)
  <2>1. /\ Goto(e, "link", Absent) /\ IsCli(e) /\ memory' = memory
        /\ disk' = [disk EXCEPT ![File(e)] = Torn] /\ UNCHANGED <<crashes, accidents>>
    BY <1>6 DEF StartLink
  <2>2. DiskFine(e) /\ disk'[File(e)] = Torn /\ MemoryFine(e)
    BY <1>1, <2>1, OneFile, SameMemory DEF Gots, Torn
  <2>3. "link" \in PCs \ {"idle"} /\ Absent \in Gots
    BY DEF PCs, Gots
  <2> QED BY <1>1, <2>1, <2>2, <2>3, GoStep
<1>7. CASE Link(e)
  <2>1. /\ Goto(e, "run", "cli") /\ At(e, "link") /\ memory' = memory
        /\ disk' = [disk EXCEPT ![File(e)] = "cli"] /\ UNCHANGED <<crashes, accidents>>
    BY <1>7 DEF Link
  <2>2. IsCli(e)
    BY <2>1 DEF IInv, Knows
  <2>3. DiskFine(e) /\ disk'[File(e)] = "cli" /\ MemoryFine(e)
    BY <1>1, <2>1, <2>2, OneFile, SameMemory DEF Gots, Kinds
  <2> QED BY <1>1, <2>1, <2>2, <2>3, GoStep DEF PCs, Gots, Kinds, Torn, Absent
<1>8. CASE StartWrite(e)
  <2>1. At(e, "write") /\ task[e].got = task[e].kind /\ ~IsCli(e) /\ ~Writing(e)
        /\ UNCHANGED <<crashes, accidents>> /\ task[e].got \in Modules
    BY <1>1, <1>8 DEF StartWrite, IInv, Knows, At, Writing, IsCli, Modules
  <2>2. CASE /\ disk' = [disk EXCEPT ![File(e)] = Torn]
             /\ Goto(e, "writing", task[e].got) /\ UNCHANGED memory
    <3>1. DiskFine(e) /\ disk'[File(e)] = Torn /\ MemoryFine(e)
      BY <1>1, <2>1, <2>2, OneFile, SameMemory DEF Gots, Torn
    <3> QED BY <1>1, <2>1, <2>2, <3>1, GoStep DEF PCs, Gots
  <2>3. CASE Goto(e, "run", task[e].got) /\ Put(e, task[e].got) /\ UNCHANGED disk
    <3>1. task[e].got # Torn /\ task[e].got # Absent
      BY <2>1 DEF Modules, Kinds, Torn, Absent
    <3>2. DiskFine(e) /\ MemoryFine(e)
      BY <1>1, <2>1, <2>3, <3>1, PutMemory, SameDisk
    <3> QED BY <1>1, <2>1, <2>3, <3>1, <3>2, GoStep DEF PCs, Gots, Modules
  <2> QED BY <1>8, <2>2, <2>3 DEF StartWrite
<1>9. CASE EndWrite(e)
  <2>1. At(e, "writing") /\ task[e].got = task[e].kind /\ ~IsCli(e) /\ crashes' = crashes
        /\ task[e].got \in Modules /\ Goto(e, "run", task[e].got) /\ Put(e, task[e].got)
    BY <1>1, <1>9 DEF EndWrite, IInv, Knows, At, IsCli, Modules
  <2>2. task[e].got # Torn /\ task[e].got # Absent /\ task[e].got # "cli"
        /\ task[e].got \in Gots
    BY <2>1 DEF Modules, Kinds, Torn, Absent, Gots
  <2>3. CASE disk' = [disk EXCEPT ![File(e)] = task[e].got] /\ UNCHANGED accidents
    <3>1. DiskFine(e) /\ disk'[File(e)] = task[e].got /\ MemoryFine(e)
      BY <1>1, <2>1, <2>2, <2>3, OneFile, PutMemory
    <3> QED BY <1>1, <2>1, <2>2, <3>1, GoStep DEF PCs
  <2>4. CASE accidents' = accidents \union {File(e)} /\ UNCHANGED disk
    <3>1. DiskFine(e) /\ MemoryFine(e)
      BY <1>1, <2>1, <2>2, <2>4, SameDisk, PutMemory
    <3>2. "run" \in PCs \ {"idle"} /\ File(e) \in accidents'
      BY <2>4 DEF PCs
    <3> QED BY <1>1, <2>1, <2>2, <3>1, <3>2, GoStep
  <2> QED BY <1>9, <2>3, <2>4 DEF EndWrite
<1>10. CASE Refused(e) \/ Run(e) \/ (BuildFails(e) /\ At(e, "compile"))
  <2>1. Ends(e) /\ ~Writing(e) /\ UNCHANGED <<disk, memory, crashes, accidents>>
    BY <1>10 DEF Refused, Run, BuildFails, At, Writing
  <2>2. DiskFine(e)
    BY <1>1, <2>1, SameDisk
  <2> QED BY <1>1, <2>1, <2>2, EndStep
<1>11. CASE BuildFails(e) /\ At(e, "link")
  <2>1. /\ Ends(e) /\ memory' = memory
        /\ disk' = [disk EXCEPT ![File(e)] = Absent] /\ UNCHANGED <<crashes, accidents>>
    BY <1>11 DEF BuildFails
  <2>2. DiskFine(e) /\ disk'[File(e)] = Absent
    BY <1>1, <2>1, OneFile DEF Gots, Absent
  <2> QED BY <1>1, <2>1, <2>2, EndStep DEF Absent, Torn
<1> QED BY <1>2, <1>3, <1>4, <1>5, <1>6, <1>7, <1>8, <1>9, <1>10, <1>11
        DEF Proceeds, ChildEnds, BuildFails

\* A new command shares its file with nobody, or the file is marked.
LEMMA AskKeeps ==
  ASSUME IInv, NEW e \in Executors, Ask(e) PROVE IInv'
<1>1. PICK kind \in Kinds, source \in Sources :
        /\ task' = [task EXCEPT ![e] = [pc |-> "lookup", kind |-> kind,
                                        source |-> source, got |-> Absent]]
        /\ accidents' =
             accidents \union {Key(kind, source) : o \in {x \in Executors \ {e} :
                                 ~At(x, "idle") /\ File(x) = Key(kind, source)}}
        /\ UNCHANGED <<disk, memory, crashes>>
  BY DEF Ask
<1>2. At(e, "idle") /\ task \in [Executors -> Tasks]
  BY TypeIs DEF Ask, IInv
<1>3. Key(kind, source) \in Files /\ accidents \subseteq accidents'
  BY <1>1 DEF Key, Files
<1>4. /\ task' \in [Executors -> Tasks] /\ \A q : At(e, q)' <=> q = "lookup"
      /\ task'[e].kind = kind /\ task'[e].source = source
      /\ File(e)' = Key(kind, source)
      /\ \A o \in Executors \ {e} : task'[o] = task[o]
  BY <1>1, <1>2 DEF Tasks, Kinds, Absent, At, File
<1>5. TypeOK'
  <2>1. disk' \in [Files -> Gots] /\ MemoryOK' /\ crashes' \in 0..MaxCrashes
        /\ accidents \subseteq Files
    BY <1>1, TypeIs DEF IInv, MemoryOK
  <2>2. accidents' \subseteq Files
    BY <1>1, <1>3, <2>1
  <2> QED BY <1>4, <2>1, <2>2, TypeNext
<1>6. ASSUME NEW o \in Executors \ {e}
      PROVE  /\ \A q : At(o, q)' = At(o, q)
             /\ Busy(o)' = Busy(o) /\ File(o)' = File(o) /\ IsCli(o)' = IsCli(o)
             /\ Writing(o)' = Writing(o) /\ Loaded(o)' = Loaded(o)
             /\ Knows(o)' = Knows(o) /\ Knows(o) /\ Owns(o)
  BY <1>1, <1>4 DEF At, Busy, File, IsCli, Writing, Loaded, Knows, IInv
<1>7. KindInv'
  BY <1>1 DEF IInv, KindInv
<1>8. SharingInv'
  <2>1. ASSUME NEW o \in Executors \ {e}, Busy(o), File(o) = Key(kind, source)
        PROVE  Key(kind, source) \in accidents'
    BY <1>1, <2>1 DEF Busy
  <2> QED BY <1>3, <1>4, <1>6, <2>1 DEF IInv, SharingInv
<1>9. ASSUME NEW o \in Executors PROVE Knows(o)' /\ Owns(o)'
  <2>1. CASE o = e
    BY <1>4, <2>1 DEF Knows, Owns, Writing
  <2>2. CASE o # e
    BY <1>1, <1>3, <1>6, <2>2 DEF Owns
  <2> QED BY <2>1, <2>2
<1>10. TornOnlyByAccident'
  <2>1. ~Writing(e)
    BY <1>2 DEF Writing, At
  <2>2. Loaded(e)' \subseteq Loaded(e)
    BY <1>1, <1>4 DEF Loaded
  <2> QED BY <1>1, <1>3, <1>6, <2>1, <2>2 DEF IInv, TornOnlyByAccident
<1> QED BY <1>5, <1>7, <1>8, <1>9, <1>10 DEF IInv

\* A new executor knows nothing.
LEMMA NewQueryKeeps ==
  ASSUME IInv, NEW e \in Executors, NewQuery(e) PROVE IInv'
<1>1. /\ memory' = [memory EXCEPT ![e] = <<>>] /\ At(e, "idle")
      /\ UNCHANGED <<disk, task, crashes, accidents>>
  BY DEF NewQuery
<1>2. MemoryOK'
  <2>1. <<>> \in Seq(Entries) /\ Len(<<>>) <= MemorySize /\ Once(<<>>)
    BY MemoryAssumption DEF Once
  <2> QED BY <1>1, <2>1, TypeIs DEF IInv, MemoryOK
<1>3. TypeOK'
  BY <1>1, <1>2, TypeIs, TypeNext DEF IInv
<1>4. \A o \in Executors : /\ Knows(o)' = Knows(o) /\ Owns(o)' = Owns(o)
                            /\ Busy(o)' = Busy(o) /\ File(o)' = File(o)
                            /\ Writing(o)' = Writing(o)
  BY <1>1 DEF Knows, Owns, Busy, At, File, IsCli, Writing
<1>5. \A o \in Executors : Loaded(o)' \subseteq Loaded(o)
  <2>1. \A o \in Executors : DOMAIN memory'[o] \subseteq DOMAIN memory[o]
                              /\ \A k \in DOMAIN memory'[o] : memory'[o][k] = memory[o][k]
    BY <1>1, TypeIs DEF IInv, MemoryOK
  <2> QED BY <1>1, <2>1 DEF Loaded, At, File
<1> QED BY <1>1, <1>3, <1>4, <1>5 DEF IInv, KindInv, SharingInv, TornOnlyByAccident

\* After a crash nobody works; what was being written is marked.
LEMMA CrashKeeps ==
  ASSUME IInv, Crash PROVE IInv'
<1>1. /\ crashes < MaxCrashes /\ crashes' = crashes + 1 /\ disk' = disk
      /\ accidents' = accidents \union {File(e) : e \in {x \in Executors : Writing(x)}}
      /\ memory' = [e \in Executors |-> <<>>]
      /\ task' = [e \in Executors |-> Idle]
  BY DEF Crash
<1>2. \A e \in Executors : Writing(e) => File(e) \in Files
  BY DEF IInv, Knows, Writing, Busy, At, File, Key, Files
<1>3. TypeOK'
  <2>1. Idle \in Tasks
    BY DEF Idle, Tasks
  <2>2. MemoryOK'
    <3>1. <<>> \in Seq(Entries) /\ Len(<<>>) <= MemorySize /\ Once(<<>>)
      BY MemoryAssumption DEF Once
    <3> QED BY <1>1, <3>1 DEF MemoryOK
  <2>3. crashes' \in 0..MaxCrashes
    BY <1>1, CrashesAssumption DEF IInv, TypeOK
  <2>4. accidents' \subseteq Files
    BY <1>1, <1>2, TypeIs DEF IInv
  <2> QED BY <1>1, <2>1, <2>2, <2>3, <2>4, TypeIs, TypeNext DEF IInv
<1>4. \A e \in Executors : \A q : At(e, q)' <=> q = "idle"
  BY <1>1 DEF At, Idle
<1>5. \A e \in Executors : Loaded(e)' = {}
  BY <1>1, <1>4 DEF Loaded
<1>6. ASSUME NEW f \in Files, disk'[f] = Torn PROVE f \in accidents'
  BY <1>1, <1>6 DEF IInv, TornOnlyByAccident
<1>7. SharingInv' /\ \A e \in Executors : Knows(e)' /\ Owns(e)'
  BY <1>4 DEF SharingInv, Knows, Owns, Busy, Writing
<1>8. KindInv'
  BY <1>1 DEF IInv, KindInv
<1> QED BY <1>3, <1>5, <1>6, <1>7, <1>8 DEF IInv, TornOnlyByAccident

LEMMA InitKeeps == Init => IInv
<1> SUFFICES ASSUME Init PROVE IInv
  OBVIOUS
<1>1. TypeOK
  <2>1. Idle \in Tasks /\ Absent \in Gots
    BY DEF Idle, Tasks, Gots
  <2>2. MemoryOK
    <3>1. <<>> \in Seq(Entries) /\ Len(<<>>) <= MemorySize /\ Once(<<>>)
      BY MemoryAssumption DEF Once
    <3> QED BY <3>1 DEF Init, MemoryOK
  <2>3. crashes \in 0..MaxCrashes
    BY CrashesAssumption DEF Init
  <2> QED BY <2>1, <2>2, <2>3, TypeIs DEF Init
<1>2. \A e \in Executors : \A q : At(e, q) <=> q = "idle"
  BY DEF Init, At, Idle
<1>3. \A e \in Executors : Loaded(e) = {}
  BY <1>2 DEF Init, Loaded
<1>4. SharingInv /\ \A e \in Executors : Knows(e) /\ Owns(e)
  BY <1>2 DEF SharingInv, Knows, Owns, Busy, Writing
<1>5. KindInv /\ \A f \in Files : disk[f] # Torn
  BY DEF Init, KindInv, Files, Absent, Torn
<1> QED BY <1>1, <1>3, <1>4, <1>5 DEF IInv, TornOnlyByAccident

LEMMA StutterKeeps == IInv /\ UNCHANGED vars => IInv'
<1> SUFFICES ASSUME IInv, UNCHANGED vars PROVE IInv'
  OBVIOUS
<1>1. UNCHANGED <<disk, memory, task, crashes, accidents>>
  BY DEF vars
<1>2. TypeOK' /\ KindInv'
  BY <1>1 DEF IInv, TypeOK, KindInv
<1>3. \A e \in Executors : /\ Knows(e)' = Knows(e) /\ Owns(e)' = Owns(e)
                           /\ Busy(e)' = Busy(e) /\ File(e)' = File(e)
                           /\ Writing(e)' = Writing(e) /\ Loaded(e)' = Loaded(e)
  BY <1>1 DEF Knows, Owns, Busy, At, File, IsCli, Writing, Loaded
<1> QED BY <1>1, <1>2, <1>3 DEF IInv, SharingInv, TornOnlyByAccident

LEMMA NextKeeps == IInv /\ [Next]_vars => IInv'
<1> SUFFICES ASSUME IInv, [Next]_vars PROVE IInv'
  OBVIOUS
<1>1. ASSUME NEW e \in Executors, Proceeds(e) \/ ChildEnds(e) PROVE IInv'
  BY <1>1, WorkStep, LocalKeeps DEF Step
<1> QED BY <1>1, AskKeeps, NewQueryKeeps, CrashKeeps, StutterKeeps DEF Next

-----------------------------------------------------------------------------

\* The invariant holds for any queries, sources, cache sizes and crashes.
THEOREM StoreInvariant == Spec => []IInv
  BY InitKeeps, NextKeeps, PTL DEF Spec

\* Tasks, files and memories keep their types; a memory cache keeps its size.
THEOREM StoreTypeCorrect == Spec => []TypeOK
<1>1. IInv => TypeOK
  BY DEF IInv
<1> QED BY <1>1, StoreInvariant, PTL

\* Part of a build is found, kept or run only after an accident of its file,
\* however many queries share the directory.
THEOREM PartialOnlyByAccident == Spec => []TornOnlyByAccident
<1>1. IInv => TornOnlyByAccident
  BY DEF IInv
<1> QED BY <1>1, StoreInvariant, PTL

\* A command replaces a whole build only where several worked with the file.
LEMMA ReplacesOnlyShared ==
  ASSUME IInv, NEW e \in Executors, Proceeds(e) \/ ChildEnds(e),
         NEW f \in Files, disk[f] \in Kinds, disk'[f] # disk[f]
  PROVE  f \in accidents
<1>1. Local(e)
  BY WorkStep DEF Step
<1>2. f = File(e)
  BY <1>1 DEF Local
<1>3. CASE StartLink(e)
  BY <1>2, <1>3 DEF StartLink, IInv, Owns, Kinds, Absent
<1>4. CASE StartWrite(e)
  BY <1>2, <1>4 DEF StartWrite, IInv, Owns, Kinds, Absent
<1>5. CASE EndWrite(e) \/ Link(e) \/ (BuildFails(e) /\ At(e, "link"))
  <2>1. Writing(e)
    BY <1>5 DEF EndWrite, Link, Writing
  <2> QED BY <1>2, <2>1 DEF IInv, Owns, Kinds, Torn
<1>6. CASE disk' = disk
  BY <1>6
<1> QED BY <1>3, <1>4, <1>5, <1>6
        DEF Proceeds, ChildEnds, MemoryHit, DiskHit, Miss, Refused, Compile, CompileReduce,
            CompileMap, Builds, BuildFails, Run

\* Whole builds stay, whatever queries, failures and crashes do.
THEOREM WholeBuildsStay == Spec => WholeFileStays
<1>1. IInv /\ [Next]_vars =>
        [\A f \in Files : (disk[f] \in Kinds /\ disk'[f] # disk[f]) => f \in accidents]_vars
  <2> SUFFICES ASSUME IInv, Next, NEW f \in Files, disk[f] \in Kinds, disk'[f] # disk[f]
               PROVE  f \in accidents
    OBVIOUS
  <2> QED BY ReplacesOnlyShared DEF Next, Ask, NewQuery, Crash
<1> QED BY <1>1, StoreInvariant, PTL DEF Spec, WholeFileStays
=============================================================================
