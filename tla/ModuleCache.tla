----------------------------- MODULE ModuleCache -----------------------------
(***************************************************************************)
(* The cache of compiled modules: compiler.rs compile_pre_forms,           *)
(* try_from_cache and compile_module, diskcache.rs, and what of the        *)
(* preprocessor decides the cache's key.                                   *)
(*                                                                         *)
(* A module's exports are kept on disk under a hash of the fingerprints of *)
(* everything the module reads and of its own forms.  Processes compile    *)
(* the main module and with it the modules it imports, while the sources   *)
(* are edited, and may be killed at any point.                             *)
(*                                                                         *)
(* A source text is abstracted to what it imports and exports; a compiled  *)
(* value to the name of the export and the texts it is made of.            *)
(***************************************************************************)
EXTENDS Sequences, FiniteSets, SequencesExt, Functions, TLC

CONSTANTS
  Procs,
  Main,         \* the file that is compiled, a module
  TextsOf,      \* file |-> the texts it may have
  Kind,         \* text |-> "module", "program" or "forms" (.clinc and includes)
  Imports,      \* text |-> sequence of [how, file], how "import" or "include"
  Exports       \* text |-> sequence of [name, as]; as is name if not renamed

Files == DOMAIN TextsOf
Texts == UNION {TextsOf[f] : f \in Files}

ASSUME SourcesAssumption ==
  /\ Main \in Files /\ \A t \in TextsOf[Main] : Kind[t] = "module"
  /\ \A t \in Texts :
       /\ Exports[t] \in Seq(Range(Exports[t]))
       /\ Imports[t] \in Seq(Range(Imports[t]))
       /\ \A i \in DOMAIN Imports[t] :
            Imports[t][i].file \in Files /\ Imports[t][i].how \in {"import", "include"}
       /\ Kind[t] \in {"module", "program", "forms"}

VARIABLES
  files,     \* file |-> its text
  cache,     \* (key, file, export) |-> the value kept there
  outputs,   \* (file, export) |-> the hex file and the hash file next to it
  job        \* what each process is doing

vars == <<files, cache, outputs, job>>

Torn == <<"torn">>

\* phase is "idle", "expand", "lookup", "write", "entry" or "done"; seen are
\* the texts that were fingerprinted and used those that are compiled.
Idle ==
  [phase |-> "idle", seen |-> <<>>, used |-> <<>>, todo |-> <<>>, got |-> <<>>, left |-> <<>>]

\* The texts the files may have.
Sources == {s \in [Files -> Texts] : \A f \in Files : s[f] \in TextsOf[f]}

\* A map with one more entry or another value of it.
Put(map, key, value) == [k \in DOMAIN map \cup {key} |-> IF k = key THEN value ELSE map[k]]

Init ==
  /\ files \in Sources
  /\ cache = <<>> /\ outputs = <<>>
  /\ job = [p \in Procs |-> Idle]

\* The files that are compiled as they were fingerprinted.  The others are
\* read by recurse_dependencies for the fingerprint, and by process_include
\* once more.
ImportedFiles(t) == {Imports[t][i].file : i \in {j \in DOMAIN Imports[t] : Imports[t][j].how = "import"}}
ReadOnce(texts) == {Main} \cup UNION {ImportedFiles(t) : t \in Range(texts)}
IsModule(imp, texts) == imp.how = "import" /\ Kind[texts[imp.file]] = "module"

(***************************************************************************)
(* The key.                                                                *)
(***************************************************************************)
\* The fingerprints one import or include adds: import_new_module,
\* import_program and recurse_dependencies.  A module brings those of its own
\* compile along; a program is compiled and they are dropped.
fingerprints(imp, texts, forms) ==
  LET t == texts[imp.file]
  IN CASE IsModule(imp, texts) -> <<t>> \o Append(forms[t], <<"main", t>>)
       [] imp.how = "import" /\ Kind[t] = "program" -> <<t>>
       [] imp.how = "import" /\ Kind[t] = "forms" -> Append(forms[t], t)
       [] imp.how = "include" -> <<t>> \o forms[t]

\* What the imports and includes of a text add, one after the other.
include_forms(text, texts) ==
  LET forms[t \in Texts] ==
        FoldLeft(LAMBDA found, imp : found \o fingerprints(imp, texts, forms), <<>>, Imports[t])
  IN forms[text]

\* add_main_fingerprint, behind the fingerprints of what was read.
main_fingerprint(t, texts) == Append(include_forms(t, texts), <<"main", t>>)

cache_key(t, texts) == main_fingerprint(t, texts)

(***************************************************************************)
(* What a module compiles to, given what the modules it imports came to.   *)
(***************************************************************************)
Expanded(text, texts, got) ==
  LET expanded[t \in Texts] ==
        <<t, [i \in DOMAIN Imports[t] |->
                LET f == Imports[t][i].file
                IN IF IsModule(Imports[t][i], texts) THEN got[f] ELSE expanded[texts[f]]]>>
  IN expanded[text]

Value(e, m, texts, got) == <<e.name, Expanded(texts[m], texts, got)>>

\* The components of a compile go by the names they are exported under ...
Components(m, texts, got) ==
  LET ex == Exports[texts[m]]
  IN [n \in {ex[i].as : i \in DOMAIN ex} |->
        LET e == CHOOSE e \in Range(ex) : e.as = n IN Value(e, m, texts, got)]

\* The modules reached from a text, each behind those it imports itself.
ModulesIn(text, texts) ==
  LET modules[t \in Texts] ==
        FoldLeft(LAMBDA found, imp :
                   LET below == found \o modules[texts[imp.file]]
                   IN IF IsModule(imp, texts) THEN Append(below, imp.file) ELSE below,
                 <<>>, Imports[t])
  IN modules[text]

\* The order of a whole compile, and what one module of it goes by.
Order(texts) == Append(ModulesIn(texts[Main], texts), Main)
Below(m, texts) == Range(ModulesIn(texts[m], texts))
CompileModule(m, texts, got) == Components(m, texts, [f \in Below(m, texts) |-> got[f]])

(***************************************************************************)
(* A compile.                                                              *)
(***************************************************************************)
\* The preprocessor reads imports and fingerprints them.
Start(p) ==
  /\ job[p].phase \in {"idle", "done"}
  /\ job' = [job EXCEPT ![p] = [Idle EXCEPT !.phase = "expand", !.seen = files]]
  /\ UNCHANGED <<files, cache, outputs>>

\* The includes are read where they are.
Expand(p) ==
  LET used == [f \in Files |-> IF f \in ReadOnce(job[p].seen) THEN job[p].seen[f] ELSE files[f]]
  IN /\ job[p].phase = "expand"
     /\ job' = [job EXCEPT ![p].phase = "lookup", ![p].used = used, ![p].todo = Order(used)]
     /\ UNCHANGED <<files, cache, outputs>>

Module(p) == Head(job[p].todo)
ExportsOf(p) == Exports[job[p].used[Module(p)]]
Slot(p, e) == <<cache_key(job[p].seen[Module(p)], job[p].seen), Module(p), e.as>>

\* Fault: an entry that was not written to its end is taken.
Loads_Torn(slot) == slot \in DOMAIN cache

\* try_element_from_cache and the parse after it.
Loads(slot) == slot \in DOMAIN cache /\ cache[slot] # Torn

\* Fault: there is always one more module to look up.
Proceed_AlwaysLooksUp(p, got) ==
  [job EXCEPT ![p].got = got, ![p].todo = Tail(@), ![p].left = <<>>, ![p].phase = "lookup"]

\* The module at hand is done; after the last one the compile is.
Proceed(p, got) ==
  [job EXCEPT ![p].got = got, ![p].todo = Tail(@), ![p].left = <<>>,
              ![p].phase = IF Len(job[p].todo) = 1 THEN "done" ELSE "lookup"]

\* try_from_cache: every export loads.  The components go by the names the
\* functions have in the module; the files are written as they were kept, and
\* each gets a file with its bare hash.
Hit(p) ==
  LET ex == ExportsOf(p)
      content == [n \in {ex[i].name : i \in DOMAIN ex} |->
                    cache[Slot(p, CHOOSE e \in Range(ex) : e.name = n)]]
      written == [x \in {<<Module(p), ex[i].as>> : i \in DOMAIN ex} |->
                    LET v == cache[Slot(p, CHOOSE e \in Range(ex) : e.as = x[2])]
                    IN [hex |-> v, hash |-> <<"bare", v>>]]
  IN /\ job[p].phase = "lookup"
     /\ \A i \in DOMAIN ex : Loads(Slot(p, ex[i]))
     /\ job' = Proceed(p, Put(job[p].got, Module(p), content))
     /\ outputs' = written @@ outputs
     /\ UNCHANGED <<files, cache>>

\* An export does not load: the module is compiled.
Miss(p) ==
  LET ex == ExportsOf(p)
  IN /\ job[p].phase = "lookup"
     /\ \E i \in DOMAIN ex : ~Loads(Slot(p, ex[i]))
     /\ job' = [job EXCEPT ![p].phase = "write", ![p].left = ex,
                           ![p].got = Put(@, Module(p), CompileModule(Module(p), job[p].used, @))]
     /\ UNCHANGED <<files, cache, outputs>>

\* set_cache_element: write_new_file empties the file and then fills it ...
OpenEntry(p) ==
  /\ job[p].phase = "write" /\ job[p].left # <<>>
  /\ cache' = Put(cache, Slot(p, Head(job[p].left)), Torn)
  /\ job' = [job EXCEPT ![p].phase = "entry"]
  /\ UNCHANGED <<files, outputs>>

\* Fault: the entry is kept under the file and the export alone.
FillEntry_OtherSlot(p) ==
  LET e == Head(job[p].left)
      v == job[p].got[Module(p)][e.as]
  IN /\ job[p].phase = "entry"
     /\ \E slot \in DOMAIN cache :
          /\ slot[2] = Module(p) /\ slot[3] = e.as
          /\ cache' = Put(cache, slot, v)
     /\ outputs' = Put(outputs, <<Module(p), e.as>>, [hex |-> v, hash |-> <<"atom", v>>])
     /\ job' = [job EXCEPT ![p].phase = "write", ![p].left = Tail(@)]
     /\ UNCHANGED files

\* ... and the output file is written, and that of the exported hash.
FillEntry(p) ==
  LET e == Head(job[p].left)
      v == job[p].got[Module(p)][e.as]
  IN /\ job[p].phase = "entry"
     /\ cache' = Put(cache, Slot(p, e), v)
     /\ outputs' = Put(outputs, <<Module(p), e.as>>, [hex |-> v, hash |-> <<"atom", v>>])
     /\ job' = [job EXCEPT ![p].phase = "write", ![p].left = Tail(@)]
     /\ UNCHANGED files

Compiled(p) ==
  /\ job[p].phase = "write" /\ job[p].left = <<>>
  /\ job' = Proceed(p, job[p].got)
  /\ UNCHANGED <<files, cache, outputs>>

(***************************************************************************)
(* The world.                                                              *)
(***************************************************************************)
\* The process is killed.
Crash(p) ==
  /\ job[p].phase \notin {"idle", "done"}
  /\ job' = [job EXCEPT ![p] = Idle]
  /\ UNCHANGED <<files, cache, outputs>>

Edit(f) ==
  /\ files' \in {[files EXCEPT ![f] = t] : t \in TextsOf[f] \ {files[f]}}
  /\ UNCHANGED <<cache, outputs, job>>

Next ==
  \/ \E p \in Procs :
       \/ Start(p) \/ Expand(p) \/ Hit(p) \/ Miss(p)
       \/ OpenEntry(p) \/ FillEntry(p) \/ Compiled(p) \/ Crash(p)
  \/ \E f \in Files : Edit(f)

Spec == Init /\ [][Next]_vars

(***************************************************************************)
(* Properties                                                              *)
(***************************************************************************)

Phases == {"idle", "expand", "lookup", "write", "entry", "done"}

\* The type of the state; a process has a module at hand while it looks up or
\* writes, and an export at hand while it fills an entry.
TypeOK ==
  /\ \A f \in Files : files[f] \in TextsOf[f]
  /\ \A p \in Procs :
       /\ job[p].phase \in Phases
       /\ job[p].phase \in {"lookup", "write", "entry"} => job[p].todo # <<>>
       /\ job[p].phase = "entry" => job[p].left # <<>>

\* What a module compiles to when there is no cache.
Meaning(m, texts) ==
  LET meaning[f \in Files] == CompileModule(f, texts, meaning)
  IN meaning[m]

MeaningOf(texts) == Meaning(Main, texts)

(***************************************************************************)
(* When the key is a key.  A file may be edited between two readings of    *)
(* it, and a fingerprint may leave a file out; which of the properties     *)
(* below hold depends on what the files may be.                            *)
(***************************************************************************)
\* What may be compiled after s was fingerprinted.
MayUse(s) == {u \in Sources : \A f \in ReadOnce(s) : u[f] = s[f]}

\* Modules and includes do not read each other in a circle, of which the
\* preprocessor would find no end: in every set of texts there is one that
\* reads none of the set.
ImportsEnd ==
  /\ IsFiniteSet(Texts)
  /\ \A S \in SUBSET Texts : S # {} =>
       \E t \in S : \A i \in DOMAIN Imports[t] : TextsOf[Imports[t][i].file] \cap S = {}

\* Of the files that a compile reads, none was edited after it was fingerprinted.
ReadsAgree ==
  \A s \in Sources : \A u \in MayUse(s) :
    \E read \in SUBSET Files :
      /\ Main \in read
      /\ \A f \in read :
           u[f] = s[f] /\ \A i \in DOMAIN Imports[s[f]] : Imports[s[f]][i].file \in read

\* Sources with the same key mean the same.
KeysAgree ==
  \A s, t \in Sources : \A m \in Files :
    cache_key(s[m], s) = cache_key(t[m], t) => Meaning(m, s) = Meaning(m, t)

\* Nothing is exported under another name.
NamesAgree == \A t \in Texts : \A e \in Range(Exports[t]) : e.as = e.name

\* What is imported and is no module reads nothing itself, so that the key leaves
\* nothing out of a program or a .clinc file.
LeavesImported ==
  \A t \in Texts : \A i \in DOMAIN Imports[t] :
    Imports[t][i].how = "import" =>
      \A u \in TextsOf[Imports[t][i].file] : Kind[u] # "module" => Imports[u] = <<>>

KeysTell == ImportsEnd /\ ReadsAgree /\ KeysAgree /\ NamesAgree

\* However compiles, crashes and edits are interleaved, a compile comes to
\* what the sources it read mean: nothing shows that there is a cache
\* (compiler.rs compile_pre_forms).
Plain == INSTANCE Compiling WITH
  Meaning <- MeaningOf,
  reading <- [p \in Procs |-> job[p].seen],
  answer  <- [p \in Procs |-> IF job[p].phase = "done" THEN {job[p].got[Main]} ELSE {}]

CacheIsInvisible == Plain!Spec

\* An entry is never replaced by another value: the comment above
\* try_element_from_cache says the output of each export is fully determined
\* by what the key is made from.
EntriesAgree ==
  [][\A slot \in DOMAIN cache \cap DOMAIN cache' :
       cache[slot] = Torn \/ cache'[slot] \in {cache[slot], Torn}]_vars

\* The same comment, of a whole compile whose sources stay as they are while it
\* reads them: what it finds under the key is what they mean.
KeyDeterminesOutput ==
  \A p \in Procs :
    job[p].phase = "done" /\ job[p].used = job[p].seen
      => job[p].got[Main] = MeaningOf(job[p].seen)

\* tests/compiler/module_cache.rs disk_cache_hit_after_full_compile: a module
\* compiled again has components of the same names.
ComponentsKeepTheirNames ==
  \A p \in Procs : job[p].phase = "done" =>
    DOMAIN job[p].got[Main] = DOMAIN MeaningOf(job[p].seen)
=============================================================================
