-------------------------- MODULE ModuleCacheProofs --------------------------
(***************************************************************************)
(* When the key is a key (KeysTell), any number of processes may share the *)
(* cache, be killed anywhere and see the sources edited: nothing shows     *)
(* that there is a cache.                                                  *)
(***************************************************************************)
EXTENDS ModuleCache, SequenceTheorems, FiniteSetTheorems, WellFoundedInduction, NaturalsInduction, TLAPS

JobFields == {"phase", "seen", "used", "todo", "got", "left"}
Compiles == {"lookup", "write", "entry", "done"}

\* The first n modules of a compile are done and came to what they mean.
At(j, n) ==
  LET order == Order(j.used)
  IN /\ n \in 0..Len(order)
     /\ j.todo \in Seq(Files) /\ Len(j.todo) = Len(order) - n
     /\ \A i \in 1..Len(j.todo) : j.todo[i] = order[n + i]
     /\ \A i \in 1..n : order[i] \in DOMAIN j.got /\ j.got[order[i]] = Meaning(order[i], j.seen)

JobOK(j) ==
  /\ DOMAIN j = JobFields /\ j.phase \in Phases
  /\ j.phase # "idle" => j.seen \in Sources
  /\ j.phase \in Compiles =>
       /\ j.used \in MayUse(j.seen)
       /\ \E n \in Nat : At(j, n)
       /\ j.phase = "done" <=> j.todo = <<>>
  /\ j.phase \in {"write", "entry"} =>
       /\ Head(j.todo) \in DOMAIN j.got /\ j.got[Head(j.todo)] = Meaning(Head(j.todo), j.seen)
       /\ j.left \in Seq(Range(Exports[j.used[Head(j.todo)]]))
  /\ j.phase = "entry" => j.left # <<>>

EntryOf(m, s, e) == <<cache_key(s[m], s), m, e.as>>

\* What is kept for sources is what they mean, or torn.
CacheOK(c) ==
  \A s \in Sources, m \in Files : \A e \in Range(Exports[s[m]]) :
    EntryOf(m, s, e) \in DOMAIN c => c[EntryOf(m, s, e)] \in {Torn, Meaning(m, s)[e.as]}

\* The inductive invariant.
IInv ==
  /\ files \in Sources
  /\ DOMAIN job = Procs /\ job = [p \in Procs |-> job[p]]
  /\ \A p \in Procs : JobOK(job[p])
  /\ CacheOK(cache)

LEMMA InitHolds == Init => IInv
<1> SUFFICES ASSUME Init PROVE IInv
  OBVIOUS
<1>1. JobOK(Idle)
  BY DEF JobOK, Idle, JobFields, Phases, Compiles
<1>2. CacheOK(<<>>)
  BY DEF CacheOK
<1> QED
  BY <1>1, <1>2 DEF Init, IInv

(***************************************************************************)
(* Induction over imports.                                                 *)
(***************************************************************************)

\* Induction over the numbers, with a set in the place of a predicate.
LEMMA SetInduction ==
  ASSUME NEW S, 0 \in S, \A n \in Nat : n \in S => n + 1 \in S
  PROVE  \A n \in Nat : n \in S
<1> DEFINE T == Nat \ S
           R == OpToRel(<, Nat)
<1>1. IsWellFoundedOn(R, Nat)
  BY NatLessThanWellFounded
<1> SUFFICES ASSUME T # {} PROVE FALSE
  OBVIOUS
<1>2. \A x, y \in Nat : x < y => <<x, y>> \in R
  BY DEF OpToRel
<1> HIDE DEF R
<1>3. T \subseteq Nat
  OBVIOUS
<1>4. PICK x \in T : \A y \in T : ~ (<<y, x>> \in R)
  <2> HIDE DEF T
  <2> QED
    BY <1>1, <1>3, WFMin
<1>5. x # 0 /\ x - 1 \in Nat /\ x - 1 < x /\ (x - 1) + 1 = x
  OBVIOUS
<1>6. x - 1 \notin T
  BY <1>2, <1>4, <1>5
<1> QED
  BY <1>4, <1>5, <1>6

\* The files a text reads, and the texts that may come with them.
Imported(t) == {Imports[t][i].file : i \in DOMAIN Imports[t]}
Sub(t) == UNION {TextsOf[f] : f \in Imported(t)}
Closed(D) == \A t \in D : Sub(t) \subseteq D

\* What holds of no texts, and of one text more when it holds of those it
\* reads, holds of all: P has the sets of texts of which it holds.
LEMMA ImportInduction ==
  ASSUME ImportsEnd, NEW P, {} \in P,
         \A D \in SUBSET Texts : \A t \in Texts :
           D \in P /\ Closed(D) /\ t \notin D /\ Sub(t) \subseteq D => D \cup {t} \in P
  PROVE  Texts \in P
<1>1. PICK n \in Nat : n = Cardinality(Texts) /\ IsFiniteSet(Texts)
  BY FS_CardinalityType DEF ImportsEnd
<1> DEFINE Has(k) == \E D \in SUBSET Texts : D \in P /\ Closed(D) /\ Cardinality(D) = k
           S == {k \in Nat : k <= n => Has(k)}
<1>2. 0 \in S
  BY FS_EmptySet DEF Closed
<1>3. ASSUME NEW k \in Nat, k \in S PROVE k + 1 \in S
  <2> SUFFICES ASSUME k + 1 <= n PROVE Has(k + 1)
    OBVIOUS
  <2>1. PICK D \in SUBSET Texts : D \in P /\ Closed(D) /\ Cardinality(D) = k
    BY <1>3
  <2>2. IsFiniteSet(D) /\ D # Texts
    BY <1>1, <2>1, FS_Subset
  <2>3. Texts \ D # {} /\ Texts \ D \in SUBSET Texts
    BY <2>2
  <2>4. PICK t \in Texts \ D : \A i \in DOMAIN Imports[t] : TextsOf[Imports[t][i].file] \cap (Texts \ D) = {}
    BY <2>3 DEF ImportsEnd
  <2>5. Sub(t) \subseteq D
    <3> SUFFICES ASSUME NEW i \in DOMAIN Imports[t], NEW u \in TextsOf[Imports[t][i].file] PROVE u \in D
      BY DEF Sub, Imported
    <3>1. Imports[t][i].file \in Files
      BY SourcesAssumption
    <3>2. u \in Texts
      BY <3>1 DEF Texts
    <3> QED
      BY <2>4, <3>2
  <2>6. D \cup {t} \in P
    BY <2>1, <2>4, <2>5
  <2>7. Closed(D \cup {t})
    BY <2>1, <2>5 DEF Closed
  <2>8. Cardinality(D \cup {t}) = k + 1
    BY <2>1, <2>2, <2>4, FS_AddElement
  <2> QED
    BY <2>4, <2>6, <2>7, <2>8
<1>4. n \in S
  <2> HIDE DEF S
  <2> QED
    BY <1>2, <1>3, SetInduction
<1>5. PICK D \in SUBSET Texts : D \in P /\ Cardinality(D) = n
  BY <1>4
<1>6. D = Texts
  BY <1>1, <1>5, FS_Subset
<1> QED
  BY <1>5, <1>6

(***************************************************************************)
(* The modules reached from a text.                                        *)
(***************************************************************************)

\* What one import adds to the modules found, and what all of a text's do.
Turn(found, imp, mods, texts) ==
  LET below == found \o mods[texts[imp.file]]
  IN IF IsModule(imp, texts) THEN Append(below, imp.file) ELSE below

Found(q, mods, texts) ==
  FoldLeft(LAMBDA found, imp :
             LET below == found \o mods[texts[imp.file]]
             IN IF IsModule(imp, texts) THEN Append(below, imp.file) ELSE below,
           <<>>, q)

LEMMA MaxIs ==
  ASSUME NEW k \in Nat, NEW s \in SUBSET (1..k), k \in s
  PROVE  Max(s) = k
<1>1. k \in s /\ \A y \in s : k >= y
  OBVIOUS
<1>2. \A x \in s : (\A y \in s : x >= y) => x = k
  <2> SUFFICES ASSUME NEW x \in s, \A y \in s : x >= y PROVE x = k
    OBVIOUS
  <2>1. x >= k /\ x <= k /\ x \in Nat
    OBVIOUS
  <2> QED
    BY <2>1
<1>3. Max(s) = CHOOSE x \in s : \A y \in s : x >= y
  BY DEF Max
<1> QED
  BY <1>1, <1>2, <1>3

\* A fold goes through the imports one after the other.
LEMMA FoldSteps ==
  ASSUME NEW q, NEW n \in Nat, DOMAIN q = 1..n, NEW mods, NEW texts
  PROVE  \E acc : /\ acc[0] = <<>> /\ acc[n] = Found(q, mods, texts)
                  /\ \A k \in 1..n : acc[k] = Turn(acc[k - 1], q[k], mods, texts)
<1> DEFINE Body(g, s) == IF s = {} THEN <<>> ELSE Turn(g[s \ {Max(s)}], q[Max(s)], mods, texts)
           S == {k \in Nat : \E g : g = [s \in SUBSET (1..k) |-> Body(g, s)]}
<1>1. 0 \in S
  <2> DEFINE g == [s \in SUBSET (1..0) |-> <<>>]
  <2>1. \A s \in SUBSET (1..0) : Body(g, s) = <<>>
    OBVIOUS
  <2>2. g = [s \in SUBSET (1..0) |-> Body(g, s)]
    BY <2>1
  <2> QED
    BY <2>2
<1>2. ASSUME NEW k \in Nat, k \in S PROVE k + 1 \in S
  <2>1. PICK g : g = [s \in SUBSET (1..k) |-> Body(g, s)]
    BY <1>2
  <2> DEFINE h == [s \in SUBSET (1..(k + 1)) |->
                     IF k + 1 \in s THEN Turn(g[s \ {k + 1}], q[k + 1], mods, texts) ELSE g[s]]
  <2>2. \A s \in SUBSET (1..k) : s \in SUBSET (1..(k + 1)) /\ h[s] = g[s]
    OBVIOUS
  <2>3. \A s \in SUBSET (1..(k + 1)) :
          h[s] = IF k + 1 \in s THEN Turn(g[s \ {k + 1}], q[k + 1], mods, texts) ELSE g[s]
    OBVIOUS
  <2>4. DOMAIN h = SUBSET (1..(k + 1)) /\ h = [s \in DOMAIN h |-> h[s]]
    OBVIOUS
  <2> HIDE DEF h
  <2>5. ASSUME NEW s \in SUBSET (1..(k + 1)) PROVE h[s] = Body(h, s)
    <3>1. CASE k + 1 \in s
      <4>1. Max(s) = k + 1
        BY <3>1, MaxIs
      <4>2. s \ {k + 1} \in SUBSET (1..k)
        OBVIOUS
      <4>3. h[s \ {k + 1}] = g[s \ {k + 1}]
        BY <2>2, <4>2
      <4> QED
        BY <2>3, <3>1, <4>1, <4>3
    <3>2. CASE k + 1 \notin s
      <4>1. s \in SUBSET (1..k)
        BY <3>2
      <4>2. h[s] = Body(g, s)
        BY <2>1, <2>3, <3>2, <4>1
      <4>3. h[s \ {Max(s)}] = g[s \ {Max(s)}]
        BY <2>2, <4>1
      <4> QED
        BY <4>2, <4>3
    <3> QED
      BY <3>1, <3>2
  <2>6. h = [s \in SUBSET (1..(k + 1)) |-> Body(h, s)]
    BY <2>4, <2>5
  <2> HIDE DEF Body
  <2>7. k + 1 \in Nat /\ \E f : f = [s \in SUBSET (1..(k + 1)) |-> Body(f, s)]
    BY <2>6
  <2> QED
    BY <2>7
<1>3. n \in S
  <2> HIDE DEF S
  <2> QED
    BY <1>1, <1>2, SetInduction
<1> DEFINE iter == CHOOSE g : g = [s \in SUBSET (1..n) |-> Body(g, s)]
<1>4. iter = [s \in SUBSET (1..n) |-> Body(iter, s)]
  BY <1>3
<1>5. Found(q, mods, texts) = iter[1..n]
  BY DEF Found, FoldLeft, MapThenFoldSet, Turn
<1> HIDE DEF iter
<1> DEFINE acc == [k \in 0..n |-> iter[1..k]]
<1>6. acc[0] = <<>>
  <2>1. 1..0 = {} /\ {} \in SUBSET (1..n)
    OBVIOUS
  <2>2. iter[{}] = <<>>
    BY <1>4, <2>1
  <2> QED
    BY <2>1, <2>2
<1>7. ASSUME NEW k \in 1..n PROVE acc[k] = Turn(acc[k - 1], q[k], mods, texts)
  <2>1. 1..k \in SUBSET (1..n) /\ 1..k # {} /\ k \in 1..k /\ (1..k) \ {k} = 1..(k - 1)
    OBVIOUS
  <2>2. Max(1..k) = k
    BY <2>1, MaxIs
  <2>3. iter[1..k] = Body(iter, 1..k)
    BY <1>4, <2>1
  <2>4. iter[1..k] = Turn(iter[1..(k - 1)], q[k], mods, texts)
    BY <2>1, <2>2, <2>3
  <2> QED
    BY <2>4
<1>8. acc[n] = Found(q, mods, texts)
  BY <1>5
<1> QED
  BY <1>6, <1>7, <1>8

\* It depends only on what it is told of the files imported.
LEMMA FoundSame ==
  ASSUME NEW q, NEW n \in Nat, DOMAIN q = 1..n, NEW mods, NEW other, NEW texts, NEW used,
         \A i \in 1..n : used[q[i].file] = texts[q[i].file] /\ other[texts[q[i].file]] = mods[texts[q[i].file]]
  PROVE  Found(q, other, used) = Found(q, mods, texts)
<1>1. PICK acc : /\ acc[0] = <<>> /\ acc[n] = Found(q, mods, texts)
                 /\ \A k \in 1..n : acc[k] = Turn(acc[k - 1], q[k], mods, texts)
  BY FoldSteps
<1>2. PICK bcc : /\ bcc[0] = <<>> /\ bcc[n] = Found(q, other, used)
                 /\ \A k \in 1..n : bcc[k] = Turn(bcc[k - 1], q[k], other, used)
  BY FoldSteps
<1> DEFINE S == {k \in Nat : k <= n => acc[k] = bcc[k]}
<1>3. 0 \in S
  BY <1>1, <1>2
<1>4. ASSUME NEW k \in Nat, k \in S PROVE k + 1 \in S
  <2> SUFFICES ASSUME k + 1 <= n PROVE acc[k + 1] = bcc[k + 1]
    OBVIOUS
  <2>1. k + 1 \in 1..n /\ (k + 1) - 1 = k /\ acc[k] = bcc[k]
    BY <1>4
  <2>2. \A found : Turn(found, q[k + 1], mods, texts) = Turn(found, q[k + 1], other, used)
    BY <2>1 DEF Turn, IsModule
  <2> QED
    BY <1>1, <1>2, <2>1, <2>2
<1>5. n \in S
  <2> HIDE DEF S
  <2> QED
    BY <1>3, <1>4, SetInduction
<1> QED
  BY <1>1, <1>2, <1>5

\* A text's imports are files.
LEMMA ImportsOf ==
  ASSUME NEW t \in Texts
  PROVE  /\ \E n \in Nat : DOMAIN Imports[t] = 1..n
         /\ \A i \in DOMAIN Imports[t] : Imports[t][i].file \in Imported(t) /\ Imports[t][i].file \in Files
         /\ Imported(t) \in SUBSET Files
<1>1. PICK S : Imports[t] \in Seq(S)
  BY SourcesAssumption
<1>2. DOMAIN Imports[t] = 1..Len(Imports[t]) /\ Len(Imports[t]) \in Nat
  BY <1>1, LenProperties
<1> QED
  BY <1>2, SourcesAssumption DEF Imported

\* Their texts are among those that may come with them.
LEMMA TextOf ==
  ASSUME NEW texts \in Sources, NEW f \in Files
  PROVE  /\ texts[f] \in Texts
         /\ \A t : f \in Imported(t) => texts[f] \in Sub(t)
BY DEF Sources, Texts, Sub

AllModules(texts) == [t \in Texts |-> ModulesIn(t, texts)]

\* The definition of the modules reached has the solution it is meant to have.
LEMMA ModulesFound ==
  ASSUME ImportsEnd, NEW texts \in Sources, NEW t \in Texts
  PROVE  ModulesIn(t, texts) = Found(Imports[t], AllModules(texts), texts)
<1> DEFINE P == {D \in SUBSET Texts : \E g : g = [u \in D |-> Found(Imports[u], g, texts)]}
<1>1. {} \in P
  <2> DEFINE g == [u \in {} |-> 0]
  <2>1. g = [u \in {} |-> Found(Imports[u], g, texts)]
    OBVIOUS
  <2> QED
    BY <2>1
<1>2. ASSUME NEW D \in SUBSET Texts, NEW u \in Texts, D \in P, Closed(D), u \notin D, Sub(u) \subseteq D
      PROVE  D \cup {u} \in P
  <2>1. PICK g : g = [v \in D |-> Found(Imports[v], g, texts)]
    BY <1>2
  <2> DEFINE h == [v \in D \cup {u} |-> Found(Imports[v], g, texts)]
  <2>2. \A v \in D : h[v] = g[v]
    BY <2>1
  <2>3. DOMAIN h = D \cup {u} /\ h = [v \in DOMAIN h |-> h[v]]
        /\ \A v \in D \cup {u} : h[v] = Found(Imports[v], g, texts)
    OBVIOUS
  <2> HIDE DEF h
  <2>4. ASSUME NEW v \in D \cup {u} PROVE h[v] = Found(Imports[v], h, texts)
    <3>1. v \in Texts /\ Sub(v) \subseteq D
      BY <1>2 DEF Closed
    <3>2. PICK n \in Nat : DOMAIN Imports[v] = 1..n
      BY <3>1, ImportsOf
    <3>3. ASSUME NEW i \in 1..n PROVE h[texts[Imports[v][i].file]] = g[texts[Imports[v][i].file]]
      <4>1. texts[Imports[v][i].file] \in Sub(v)
        BY <3>1, <3>2, ImportsOf, TextOf
      <4> QED
        BY <2>2, <3>1, <4>1
    <3>4. Found(Imports[v], h, texts) = Found(Imports[v], g, texts)
      BY <3>2, <3>3, FoundSame
    <3> QED
      BY <2>3, <3>4
  <2>5. h = [v \in D \cup {u} |-> Found(Imports[v], h, texts)]
    BY <2>3, <2>4
  <2>6. D \cup {u} \in SUBSET Texts
    OBVIOUS
  <2> QED
    BY <2>5, <2>6
<1>3. Texts \in P
  <2> HIDE DEF P
  <2> QED
    BY <1>1, <1>2, ImportInduction
<1> DEFINE modules == CHOOSE g : g = [u \in Texts |-> Found(Imports[u], g, texts)]
<1>4. modules = [u \in Texts |-> Found(Imports[u], modules, texts)]
  BY <1>3
<1>5. \A u : ModulesIn(u, texts) = modules[u]
  BY DEF ModulesIn, Found
<1> HIDE DEF modules
<1>6. AllModules(texts) = modules
  <2>1. AllModules(texts) = [u \in Texts |-> modules[u]]
    BY <1>5 DEF AllModules
  <2>2. DOMAIN modules = Texts /\ modules = [u \in DOMAIN modules |-> modules[u]]
    BY <1>4
  <2> QED
    BY <2>1, <2>2
<1> QED
  BY <1>4, <1>5, <1>6

\* Each module stands behind those it needs.
Ordered(w, texts) ==
  /\ w \in Seq(Files)
  /\ \A k \in 1..Len(w) : Below(w[k], texts) \subseteq {w[j] : j \in 1..(k - 1)}

LEMMA OrderedConcat ==
  ASSUME NEW texts, NEW v, NEW w, Ordered(v, texts), Ordered(w, texts)
  PROVE  Ordered(v \o w, texts)
<1> DEFINE z == v \o w
           m == Len(v)
           n == Len(w)
<1>1. v \in Seq(Files) /\ w \in Seq(Files) /\ m \in Nat /\ n \in Nat
  BY LenProperties DEF Ordered
<1>2. /\ z \in Seq(Files) /\ Len(z) = m + n
      /\ \A k \in 1..(m + n) : z[k] = IF k <= m THEN v[k] ELSE w[k - m]
  BY <1>1, ConcatProperties
<1> HIDE DEF z, m, n
<1>3. /\ \A k \in 1..m : Below(v[k], texts) \subseteq {v[j] : j \in 1..(k - 1)}
      /\ \A k \in 1..n : Below(w[k], texts) \subseteq {w[j] : j \in 1..(k - 1)}
  BY DEF Ordered, m, n
<1>4. ASSUME NEW k \in 1..(m + n), NEW f \in Below(z[k], texts) PROVE f \in {z[j] : j \in 1..(k - 1)}
  <2>1. CASE k <= m
    <3>1. k \in 1..m /\ z[k] = v[k]
      BY <1>1, <1>2, <2>1
    <3>2. PICK j \in 1..(k - 1) : f = v[j]
      BY <1>3, <1>4, <3>1
    <3>3. j \in 1..(m + n) /\ j <= m
      BY <1>1, <2>1
    <3> QED
      BY <1>2, <3>2, <3>3
  <2>2. CASE ~(k <= m)
    <3>1. k - m \in 1..n /\ z[k] = w[k - m]
      BY <1>1, <1>2, <2>2
    <3>2. PICK j \in 1..((k - m) - 1) : f = w[j]
      BY <1>3, <1>4, <3>1
    <3>3. m + j \in 1..(m + n) /\ ~(m + j <= m) /\ (m + j) - m = j /\ m + j \in 1..(k - 1)
      BY <1>1, <2>2
    <3> QED
      BY <1>2, <3>2, <3>3
  <2> QED
    BY <2>1, <2>2
<1> QED
  BY <1>2, <1>4 DEF Ordered, z

LEMMA OrderedAppend ==
  ASSUME NEW texts, NEW v, Ordered(v, texts), NEW f \in Files,
         Below(f, texts) \subseteq {v[j] : j \in 1..Len(v)}
  PROVE  Ordered(Append(v, f), texts)
<1> DEFINE z == Append(v, f)
           m == Len(v)
<1>1. v \in Seq(Files) /\ m \in Nat
  BY LenProperties DEF Ordered
<1>2. /\ z \in Seq(Files) /\ Len(z) = m + 1 /\ z[m + 1] = f
      /\ \A k \in 1..m : z[k] = v[k]
  BY <1>1, AppendProperties
<1> HIDE DEF z, m
<1>3. /\ \A k \in 1..m : Below(v[k], texts) \subseteq {v[j] : j \in 1..(k - 1)}
      /\ Below(f, texts) \subseteq {v[j] : j \in 1..m}
  BY DEF Ordered, m
<1>4. ASSUME NEW k \in 1..(m + 1), NEW g \in Below(z[k], texts) PROVE g \in {z[j] : j \in 1..(k - 1)}
  <2>1. CASE k <= m
    <3>1. k \in 1..m /\ z[k] = v[k]
      BY <1>1, <1>2, <2>1
    <3>2. PICK j \in 1..(k - 1) : g = v[j]
      BY <1>3, <1>4, <3>1
    <3>3. j \in 1..m
      BY <1>1, <2>1
    <3> QED
      BY <1>2, <3>2, <3>3
  <2>2. CASE ~(k <= m)
    <3>1. k = m + 1 /\ k - 1 = m
      BY <1>1, <2>2
    <3>2. PICK j \in 1..m : g = v[j]
      BY <1>2, <1>3, <1>4, <3>1
    <3> QED
      BY <1>2, <3>1, <3>2
  <2> QED
    BY <2>1, <2>2
<1> QED
  BY <1>2, <1>4 DEF Ordered, z

\* The modules reached from a text stand behind those they need.
LEMMA ModulesOrdered ==
  ASSUME ImportsEnd, NEW texts \in Sources, NEW t \in Texts
  PROVE  Ordered(ModulesIn(t, texts), texts)
<1> DEFINE P == {D \in SUBSET Texts : \A u \in D : Ordered(ModulesIn(u, texts), texts)}
<1>1. {} \in P
  OBVIOUS
<1>2. ASSUME NEW D \in SUBSET Texts, NEW u \in Texts, D \in P, Closed(D), u \notin D, Sub(u) \subseteq D
      PROVE  D \cup {u} \in P
  <2> DEFINE q == Imports[u]
             mods == AllModules(texts)
  <2>1. PICK n \in Nat : DOMAIN q = 1..n
    BY ImportsOf
  <2>2. PICK acc : /\ acc[0] = <<>> /\ acc[n] = Found(q, mods, texts)
                   /\ \A k \in 1..n : acc[k] = Turn(acc[k - 1], q[k], mods, texts)
    <3> HIDE DEF q, mods
    <3> QED
      BY <2>1, FoldSteps
  <2> DEFINE S == {k \in Nat : k <= n => Ordered(acc[k], texts)}
  <2>3. 0 \in S
    <3>1. Ordered(<<>>, texts)
      BY DEF Ordered
    <3> QED
      BY <2>2, <3>1
  <2>4. ASSUME NEW k \in Nat, k \in S PROVE k + 1 \in S
    <3> SUFFICES ASSUME k + 1 <= n PROVE Ordered(acc[k + 1], texts)
      OBVIOUS
    <3>1. k + 1 \in 1..n /\ (k + 1) - 1 = k /\ Ordered(acc[k], texts)
      BY <2>4
    <3> DEFINE f == q[k + 1].file
               below == acc[k] \o mods[texts[f]]
    <3>2. f \in Files /\ f \in Imported(u)
      BY <2>1, <3>1, ImportsOf
    <3>3. texts[f] \in Texts /\ texts[f] \in D
      BY <1>2, <3>2, TextOf
    <3>4. mods[texts[f]] = ModulesIn(texts[f], texts) /\ Ordered(mods[texts[f]], texts)
      BY <1>2, <3>3 DEF AllModules
    <3>5. Ordered(below, texts)
      BY <3>1, <3>4, OrderedConcat
    <3>6. Below(f, texts) \subseteq {below[j] : j \in 1..Len(below)}
      <4>1. PICK v \in Seq(Files), w \in Seq(Files) : v = acc[k] /\ w = mods[texts[f]]
        BY <3>1, <3>4 DEF Ordered
      <4>2. Below(f, texts) = {w[j] : j \in 1..Len(w)}
        BY <3>4, <4>1 DEF Below, Range
      <4>3. below = v \o w
        BY <4>1
      <4>4. /\ Len(below) = Len(v) + Len(w)
            /\ \A j \in 1..(Len(v) + Len(w)) : below[j] = IF j <= Len(v) THEN v[j] ELSE w[j - Len(v)]
        BY <4>1, <4>3, ConcatProperties
      <4>5. PICK m \in Nat, l \in Nat : m = Len(v) /\ l = Len(w)
        BY <4>1, LenProperties
      <4> HIDE DEF below
      <4>6. ASSUME NEW j \in 1..l PROVE w[j] = below[m + j] /\ m + j \in 1..Len(below)
        <5>1. m + j \in 1..(m + l) /\ ~(m + j <= m) /\ (m + j) - m = j
          OBVIOUS
        <5> QED
          BY <4>4, <4>5, <5>1
      <4> QED
        BY <4>2, <4>5, <4>6
    <3>7. acc[k + 1] = IF IsModule(q[k + 1], texts) THEN Append(below, f) ELSE below
      BY <2>2, <3>1 DEF Turn
    <3> HIDE DEF f, below
    <3>8. Ordered(Append(below, f), texts)
      BY <3>2, <3>5, <3>6, OrderedAppend
    <3> QED
      BY <3>5, <3>7, <3>8
  <2>5. n \in S
    <3> HIDE DEF S
    <3> QED
      BY <2>3, <2>4, SetInduction
  <2>6. Ordered(ModulesIn(u, texts), texts)
    BY <2>2, <2>5, ModulesFound
  <2> QED
    BY <1>2, <2>6
<1>3. Texts \in P
  <2> HIDE DEF P
  <2> QED
    BY <1>1, <1>2, ImportInduction
<1> QED
  BY <1>3

\* Files of which the texts read no others.
Sealed(R, texts) == \A f \in R : Imported(texts[f]) \subseteq R

\* Texts that are the same in what is read lead to the same modules, and these
\* are among what is read.
LEMMA ModulesSame ==
  ASSUME ImportsEnd, NEW texts \in Sources, NEW used \in Sources, NEW R \in SUBSET Files,
         Sealed(R, texts), \A f \in R : used[f] = texts[f],
         NEW t \in Texts, Imported(t) \subseteq R
  PROVE  /\ ModulesIn(t, used) = ModulesIn(t, texts)
         /\ \A k \in DOMAIN ModulesIn(t, texts) : ModulesIn(t, texts)[k] \in R
<1> DEFINE Inside(w) == w \in Seq(R)
           P == {D \in SUBSET Texts : \A u \in D : Imported(u) \subseteq R =>
                   ModulesIn(u, used) = ModulesIn(u, texts) /\ Inside(ModulesIn(u, texts))}
<1>1. {} \in P
  OBVIOUS
<1>2. ASSUME NEW D \in SUBSET Texts, NEW u \in Texts, D \in P, Closed(D), u \notin D, Sub(u) \subseteq D
      PROVE  D \cup {u} \in P
  <2> SUFFICES ASSUME Imported(u) \subseteq R
               PROVE  ModulesIn(u, used) = ModulesIn(u, texts) /\ Inside(ModulesIn(u, texts))
    BY <1>2
  <2> DEFINE q == Imports[u]
             mods == AllModules(texts)
             other == AllModules(used)
  <2>1. PICK n \in Nat : DOMAIN q = 1..n
    BY ImportsOf
  <2>2. ASSUME NEW i \in 1..n
        PROVE  /\ used[q[i].file] = texts[q[i].file]
               /\ other[texts[q[i].file]] = mods[texts[q[i].file]]
               /\ Inside(mods[texts[q[i].file]]) /\ q[i].file \in R
    <3> DEFINE f == q[i].file
    <3>1. f \in Imported(u) /\ f \in Files /\ f \in R
      BY <2>1, ImportsOf
    <3>2. texts[f] \in Texts /\ texts[f] \in D /\ Imported(texts[f]) \subseteq R
      BY <1>2, <3>1, TextOf DEF Sealed
    <3> HIDE DEF f
    <3> QED
      BY <1>2, <3>1, <3>2 DEF f, AllModules
  <2>3. Found(q, other, used) = Found(q, mods, texts)
    <3> HIDE DEF q, mods, other, Inside
    <3> QED
      BY <2>1, <2>2, FoundSame
  <2>4. PICK acc : /\ acc[0] = <<>> /\ acc[n] = Found(q, mods, texts)
                   /\ \A k \in 1..n : acc[k] = Turn(acc[k - 1], q[k], mods, texts)
    <3> HIDE DEF q, mods
    <3> QED
      BY <2>1, FoldSteps
  <2> DEFINE S == {k \in Nat : k <= n => Inside(acc[k])}
  <2>5. 0 \in S
    <3>1. Inside(<<>>)
      BY EmptySeq
    <3> HIDE DEF Inside, q, mods
    <3> QED
      BY <2>4, <3>1
  <2>6. ASSUME NEW k \in Nat, k \in S PROVE k + 1 \in S
    <3> SUFFICES ASSUME k + 1 <= n PROVE Inside(acc[k + 1])
      OBVIOUS
    <3>1. k + 1 \in 1..n /\ (k + 1) - 1 = k /\ Inside(acc[k])
      BY <2>6
    <3>2. Inside(mods[texts[q[k + 1].file]]) /\ q[k + 1].file \in R
      BY <2>2, <3>1
    <3>3. acc[k + 1] = Turn(acc[k], q[k + 1], mods, texts)
      BY <2>4, <3>1
    <3> HIDE DEF q, mods
    <3> QED
      BY <3>1, <3>2, <3>3, ConcatProperties, AppendProperties DEF Turn
  <2>7. n \in S
    <3> HIDE DEF S
    <3> QED
      BY <2>5, <2>6, SetInduction
  <2>8. ModulesIn(u, used) = Found(q, other, used) /\ ModulesIn(u, texts) = Found(q, mods, texts)
    BY ModulesFound
  <2> QED
    BY <2>3, <2>4, <2>7, <2>8
<1>3. Texts \in P
  <2> HIDE DEF P
  <2> QED
    BY <1>1, <1>2, ImportInduction
<1>4. ModulesIn(t, used) = ModulesIn(t, texts) /\ ModulesIn(t, texts) \in Seq(R)
  BY <1>3
<1> QED
  BY <1>4, ElementOfSeq, LenProperties

(***************************************************************************)
(* What a module comes to.                                                 *)
(***************************************************************************)

\* The definition of what a text is made of has the solution it is meant to have.
LEMMA ExpandedIs ==
  ASSUME ImportsEnd, NEW texts \in Sources, NEW got, NEW t \in Texts
  PROVE  Expanded(t, texts, got) =
           <<t, [i \in DOMAIN Imports[t] |->
                   LET f == Imports[t][i].file
                   IN IF IsModule(Imports[t][i], texts) THEN got[f] ELSE Expanded(texts[f], texts, got)]>>
<1> DEFINE Part(g, u, i) ==
             IF IsModule(Imports[u][i], texts) THEN got[Imports[u][i].file] ELSE g[texts[Imports[u][i].file]]
           Body(g, u) == <<u, [i \in DOMAIN Imports[u] |-> Part(g, u, i)]>>
           P == {D \in SUBSET Texts : \E g : g = [u \in D |-> Body(g, u)]}
<1>1. {} \in P
  <2> DEFINE g == [u \in {} |-> 0]
  <2>1. g = [u \in {} |-> Body(g, u)]
    OBVIOUS
  <2> QED
    BY <2>1
<1>2. ASSUME NEW D \in SUBSET Texts, NEW u \in Texts, D \in P, Closed(D), u \notin D, Sub(u) \subseteq D
      PROVE  D \cup {u} \in P
  <2>1. PICK g : g = [v \in D |-> Body(g, v)]
    BY <1>2
  <2> DEFINE h == [v \in D \cup {u} |-> Body(g, v)]
  <2>2. \A v \in D : h[v] = g[v]
    <3> HIDE DEF Body
    <3> QED
      BY <2>1
  <2>3. DOMAIN h = D \cup {u} /\ h = [v \in DOMAIN h |-> h[v]]
        /\ \A v \in D \cup {u} : h[v] = Body(g, v)
    OBVIOUS
  <2> HIDE DEF h
  <2>4. ASSUME NEW v \in D \cup {u} PROVE h[v] = Body(h, v)
    <3>1. v \in Texts /\ Sub(v) \subseteq D
      BY <1>2 DEF Closed
    <3>2. ASSUME NEW i \in DOMAIN Imports[v] PROVE Part(h, v, i) = Part(g, v, i)
      <4>1. texts[Imports[v][i].file] \in Sub(v)
        BY <3>1, ImportsOf, TextOf
      <4> QED
        BY <2>2, <3>1, <4>1
    <3> HIDE DEF Part
    <3>3. Body(h, v) = Body(g, v)
      BY <3>2
    <3> QED
      BY <2>3, <3>3
  <2>5. h = [v \in D \cup {u} |-> Body(h, v)]
    BY <2>3, <2>4
  <2>6. D \cup {u} \in SUBSET Texts
    OBVIOUS
  <2> HIDE DEF Body
  <2> QED
    BY <2>5, <2>6
<1>3. Texts \in P
  <2> HIDE DEF P
  <2> QED
    BY <1>1, <1>2, ImportInduction
<1> DEFINE expanded == CHOOSE g : g = [u \in Texts |-> Body(g, u)]
<1>4. expanded = [u \in Texts |-> Body(expanded, u)]
  BY <1>3
<1>5. \A u : Expanded(u, texts, got) = expanded[u]
  BY DEF Expanded
<1> HIDE DEF expanded
<1>6. expanded[t] = Body(expanded, t)
  BY <1>4
<1> QED
  BY <1>5, <1>6

\* Texts that are the same in what is read make the same of a module.
LEMMA ExpandedSame ==
  ASSUME ImportsEnd, NEW texts \in Sources, NEW used \in Sources, NEW R \in SUBSET Files,
         Sealed(R, texts), \A f \in R : used[f] = texts[f],
         NEW t \in Texts, Imported(t) \subseteq R, NEW got
  PROVE  Expanded(t, used, got) = Expanded(t, texts, got)
<1> DEFINE P == {D \in SUBSET Texts : \A u \in D : Imported(u) \subseteq R =>
                   Expanded(u, used, got) = Expanded(u, texts, got)}
<1>1. {} \in P
  OBVIOUS
<1>2. ASSUME NEW D \in SUBSET Texts, NEW u \in Texts, D \in P, Closed(D), u \notin D, Sub(u) \subseteq D
      PROVE  D \cup {u} \in P
  <2> SUFFICES ASSUME Imported(u) \subseteq R PROVE Expanded(u, used, got) = Expanded(u, texts, got)
    BY <1>2
  <2> DEFINE Part(s, i) ==
               LET f == Imports[u][i].file
               IN IF IsModule(Imports[u][i], s) THEN got[f] ELSE Expanded(s[f], s, got)
  <2>1. ASSUME NEW i \in DOMAIN Imports[u] PROVE Part(used, i) = Part(texts, i)
    <3> DEFINE f == Imports[u][i].file
    <3>1. f \in Imported(u) /\ f \in Files /\ f \in R
      BY ImportsOf
    <3>2. texts[f] \in D /\ Imported(texts[f]) \subseteq R /\ used[f] = texts[f]
      BY <1>2, <3>1, TextOf DEF Sealed
    <3>3. Expanded(used[f], used, got) = Expanded(texts[f], texts, got)
      BY <1>2, <3>2
    <3> QED
      BY <3>2, <3>3 DEF IsModule
  <2>2. Expanded(u, used, got) = <<u, [i \in DOMAIN Imports[u] |-> Part(used, i)]>>
    BY ExpandedIs
  <2>3. Expanded(u, texts, got) = <<u, [i \in DOMAIN Imports[u] |-> Part(texts, i)]>>
    BY ExpandedIs
  <2> HIDE DEF Part
  <2> QED
    BY <2>1, <2>2, <2>3
<1>3. Texts \in P
  <2> HIDE DEF P
  <2> QED
    BY <1>1, <1>2, ImportInduction
<1> QED
  BY <1>3

\* ... and it compiles to the same.
LEMMA CompiledSame ==
  ASSUME ImportsEnd, NEW texts \in Sources, NEW used \in Sources, NEW R \in SUBSET Files,
         Sealed(R, texts), \A f \in R : used[f] = texts[f],
         NEW m \in R, NEW got
  PROVE  /\ Below(m, used) = Below(m, texts) /\ Below(m, texts) \subseteq R
         /\ CompileModule(m, used, got) = CompileModule(m, texts, got)
<1>1. used[m] = texts[m] /\ texts[m] \in Texts /\ Imported(texts[m]) \subseteq R
  BY TextOf DEF Sealed
<1>2. Below(m, used) = Below(m, texts) /\ Below(m, texts) \subseteq R
  BY <1>1, ModulesSame DEF Below, Range
<1>3. \A g : Expanded(used[m], used, g) = Expanded(texts[m], texts, g)
  BY <1>1, ExpandedSame
<1>4. \A g : Components(m, used, g) = Components(m, texts, g)
  BY <1>1, <1>3 DEF Components, Value
<1> QED
  BY <1>2, <1>4 DEF CompileModule

Meanings(texts) == [f \in Files |-> Meaning(f, texts)]

\* The definition of what a module means has the solution it is meant to have:
\* what it comes to when the modules it imports come to what they mean.
LEMMA MeaningIs ==
  ASSUME ImportsEnd, NEW texts \in Sources, NEW m \in Files
  PROVE  Meaning(m, texts) = CompileModule(m, texts, Meanings(texts))
<1> DEFINE Of(D) == {f \in Files : texts[f] \in D}
           P == {D \in SUBSET Texts : \E g : g = [f \in Of(D) |-> CompileModule(f, texts, g)]}
<1>1. {} \in P
  <2> DEFINE g == [f \in {} |-> 0]
  <2>1. g = [f \in {} |-> CompileModule(f, texts, g)] /\ Of({}) = {}
    OBVIOUS
  <2> QED
    BY <2>1
<1>2. ASSUME NEW D \in SUBSET Texts, NEW u \in Texts, D \in P, Closed(D), u \notin D, Sub(u) \subseteq D
      PROVE  D \cup {u} \in P
  <2>1. PICK g : g = [f \in Of(D) |-> CompileModule(f, texts, g)]
    BY <1>2
  <2>2. ASSUME NEW v \in Texts, Sub(v) \subseteq D PROVE Imported(v) \subseteq Of(D)
    BY <2>2, ImportsOf, TextOf
  <2>3. Of(D) \in SUBSET Files /\ Sealed(Of(D), texts)
    <3>1. \A f \in Of(D) : texts[f] \in Texts /\ Sub(texts[f]) \subseteq D
      BY <1>2 DEF Closed
    <3> QED
      BY <2>2, <3>1 DEF Sealed
  <2>4. ASSUME NEW f \in Of(D \cup {u}) PROVE Below(f, texts) \subseteq Of(D)
    <3>1. f \in Files /\ texts[f] \in Texts /\ Sub(texts[f]) \subseteq D
      BY <1>2 DEF Closed
    <3>2. Imported(texts[f]) \subseteq Of(D)
      BY <2>2, <3>1
    <3> HIDE DEF Of
    <3> QED
      BY <2>3, <3>1, <3>2, ModulesSame DEF Below, Range
  <2> DEFINE h == [f \in Of(D \cup {u}) |-> CompileModule(f, texts, g)]
  <2>5. \A f \in Of(D) : h[f] = g[f] /\ f \in Of(D \cup {u})
    BY <2>1
  <2>6. DOMAIN h = Of(D \cup {u}) /\ h = [f \in DOMAIN h |-> h[f]]
        /\ \A f \in Of(D \cup {u}) : h[f] = CompileModule(f, texts, g)
    OBVIOUS
  <2> HIDE DEF h, Of
  <2>7. ASSUME NEW f \in Of(D \cup {u}) PROVE h[f] = CompileModule(f, texts, h)
    <3>1. [e \in Below(f, texts) |-> h[e]] = [e \in Below(f, texts) |-> g[e]]
      BY <2>4, <2>5
    <3>2. CompileModule(f, texts, h) = CompileModule(f, texts, g)
      BY <3>1 DEF CompileModule
    <3> QED
      BY <2>6, <3>2
  <2>8. h = [f \in Of(D \cup {u}) |-> CompileModule(f, texts, h)]
    BY <2>6, <2>7
  <2> QED
    BY <2>8
<1>3. Texts \in P
  <2> HIDE DEF P
  <2> QED
    BY <1>1, <1>2, ImportInduction
<1>4. Of(Texts) = Files
  BY TextOf
<1>5. \E g : g = [f \in Files |-> CompileModule(f, texts, g)]
  <2> HIDE DEF Of
  <2> QED
    BY <1>3, <1>4
<1> DEFINE meaning == CHOOSE g : g = [f \in Files |-> CompileModule(f, texts, g)]
<1>6. meaning = [f \in Files |-> CompileModule(f, texts, meaning)]
  BY <1>5
<1>7. \A f : Meaning(f, texts) = meaning[f]
  BY DEF Meaning
<1> HIDE DEF meaning
<1>8. Meanings(texts) = meaning
  <2>1. Meanings(texts) = [f \in Files |-> meaning[f]]
    BY <1>7 DEF Meanings
  <2>2. DOMAIN meaning = Files /\ meaning = [f \in DOMAIN meaning |-> meaning[f]]
    BY <1>6
  <2> QED
    BY <2>1, <2>2
<1> QED
  BY <1>6, <1>7, <1>8

\* In their order the modules of a compile come to what they mean for the
\* sources that were fingerprinted.
LEMMA OrderTells ==
  ASSUME ImportsEnd, ReadsAgree, NEW s \in Sources, NEW u \in MayUse(s)
  PROVE  LET order == Order(u)
         IN /\ order \in Seq(Files) /\ Len(order) > 0 /\ order[Len(order)] = Main
            /\ \A i \in DOMAIN order :
                 /\ u[order[i]] = s[order[i]]
                 /\ Below(order[i], u) \subseteq {order[j] : j \in 1..(i - 1)}
                 /\ CompileModule(order[i], u, Meanings(s)) = Meaning(order[i], s)
<1> DEFINE below == ModulesIn(u[Main], u)
           order == Order(u)
<1>1. u \in Sources /\ Main \in Files
  BY SourcesAssumption DEF MayUse
<1>2. PICK R \in SUBSET Files :
        /\ Main \in R
        /\ \A f \in R : u[f] = s[f] /\ \A i \in DOMAIN Imports[s[f]] : Imports[s[f]][i].file \in R
  BY DEF ReadsAgree
<1>3. Sealed(R, s)
  BY <1>2 DEF Sealed, Imported
<1>4. /\ u[Main] = s[Main] /\ u[Main] \in Texts /\ Imported(s[Main]) \subseteq R
  BY <1>1, <1>2, <1>3, TextOf DEF Sealed
<1>5. \A k \in DOMAIN below : below[k] \in R
  BY <1>1, <1>2, <1>3, <1>4, ModulesSame
<1>6. Ordered(below, u)
  BY <1>1, <1>4, ModulesOrdered
<1>7. Below(Main, u) = {below[j] : j \in 1..Len(below)} /\ below \in Seq(Files)
  BY <1>6 DEF Ordered, Below, Range
<1>8. order = Append(below, Main)
  BY DEF Order
<1> HIDE DEF below
<1>9. Ordered(order, u)
  BY <1>1, <1>6, <1>7, <1>8, OrderedAppend
<1>10. Len(order) = Len(below) + 1 /\ order[Len(order)] = Main /\ Len(below) \in Nat
       /\ \A k \in 1..Len(below) : order[k] = below[k]
  BY <1>1, <1>7, <1>8, AppendProperties, LenProperties
<1>11. DOMAIN order = 1..Len(order) /\ order \in Seq(Files)
  BY <1>9 DEF Ordered
<1>12. ASSUME NEW i \in DOMAIN order PROVE order[i] \in R
  <2>1. i = Len(below) + 1 \/ i \in 1..Len(below)
    BY <1>10, <1>11
  <2>2. DOMAIN below = 1..Len(below)
    BY <1>7
  <2> QED
    BY <1>2, <1>5, <1>10, <2>1, <2>2
<1> HIDE DEF order
<1>13. ASSUME NEW i \in DOMAIN order
       PROVE  /\ u[order[i]] = s[order[i]]
              /\ Below(order[i], u) \subseteq {order[j] : j \in 1..(i - 1)}
              /\ CompileModule(order[i], u, Meanings(s)) = Meaning(order[i], s)
  <2>1. order[i] \in R /\ order[i] \in Files
    BY <1>12
  <2>2. CompileModule(order[i], u, Meanings(s)) = CompileModule(order[i], s, Meanings(s))
    BY <1>1, <1>2, <1>3, <2>1, CompiledSame
  <2>3. Meaning(order[i], s) = CompileModule(order[i], s, Meanings(s))
    BY <2>1, MeaningIs
  <2>4. Below(order[i], u) \subseteq {order[j] : j \in 1..(i - 1)}
    BY <1>9, <1>11 DEF Ordered
  <2> QED
    BY <1>2, <2>1, <2>2, <2>3, <2>4
<1>14. Len(order) > 0
  BY <1>10
<1> QED
  BY <1>10, <1>11, <1>13, <1>14 DEF order

(***************************************************************************)
(* The key.                                                                *)
(***************************************************************************)

\* The fingerprints that one import adds, and those of all of a text's imports.
Adds(found, imp, forms, texts) == found \o fingerprints(imp, texts, forms)

Listed(q, forms, texts) ==
  FoldLeft(LAMBDA found, imp : found \o fingerprints(imp, texts, forms), <<>>, q)

\* Once more a fold goes through the imports one after the other.
LEMMA ListSteps ==
  ASSUME NEW q, NEW n \in Nat, DOMAIN q = 1..n, NEW forms, NEW texts
  PROVE  \E acc : /\ acc[0] = <<>> /\ acc[n] = Listed(q, forms, texts)
                  /\ \A k \in 1..n : acc[k] = Adds(acc[k - 1], q[k], forms, texts)
<1> DEFINE Body(g, s) == IF s = {} THEN <<>> ELSE Adds(g[s \ {Max(s)}], q[Max(s)], forms, texts)
           S == {k \in Nat : \E g : g = [s \in SUBSET (1..k) |-> Body(g, s)]}
<1>1. 0 \in S
  <2> DEFINE g == [s \in SUBSET (1..0) |-> <<>>]
  <2>1. \A s \in SUBSET (1..0) : Body(g, s) = <<>>
    OBVIOUS
  <2>2. g = [s \in SUBSET (1..0) |-> Body(g, s)]
    BY <2>1
  <2> HIDE DEF Body, g
  <2>3. \E f : f = [s \in SUBSET (1..0) |-> Body(f, s)]
    BY <2>2
  <2> QED
    BY <2>3
<1>2. ASSUME NEW k \in Nat, k \in S PROVE k + 1 \in S
  <2>1. PICK g : g = [s \in SUBSET (1..k) |-> Body(g, s)]
    BY <1>2
  <2> DEFINE h == [s \in SUBSET (1..(k + 1)) |-> IF k + 1 \in s THEN Adds(g[s \ {k + 1}], q[k + 1], forms, texts) ELSE g[s]]
  <2>2. \A s \in SUBSET (1..k) : s \in SUBSET (1..(k + 1)) /\ h[s] = g[s]
    OBVIOUS
  <2>3. \A s \in SUBSET (1..(k + 1)) :
          h[s] = IF k + 1 \in s THEN Adds(g[s \ {k + 1}], q[k + 1], forms, texts) ELSE g[s]
    OBVIOUS
  <2>4. DOMAIN h = SUBSET (1..(k + 1)) /\ h = [s \in DOMAIN h |-> h[s]]
    OBVIOUS
  <2> HIDE DEF h
  <2>5. ASSUME NEW s \in SUBSET (1..(k + 1)) PROVE h[s] = Body(h, s)
    <3>1. CASE k + 1 \in s
      <4>1. Max(s) = k + 1
        BY <3>1, MaxIs
      <4>2. s \ {k + 1} \in SUBSET (1..k)
        OBVIOUS
      <4>3. h[s \ {k + 1}] = g[s \ {k + 1}]
        BY <2>2, <4>2
      <4> QED
        BY <2>3, <3>1, <4>1, <4>3
    <3>2. CASE k + 1 \notin s
      <4>1. s \in SUBSET (1..k)
        BY <3>2
      <4>2. h[s] = Body(g, s)
        BY <2>1, <2>3, <3>2, <4>1
      <4>3. h[s \ {Max(s)}] = g[s \ {Max(s)}]
        BY <2>2, <4>1
      <4> QED
        BY <4>2, <4>3
    <3> QED
      BY <3>1, <3>2
  <2>6. h = [s \in SUBSET (1..(k + 1)) |-> Body(h, s)]
    BY <2>4, <2>5
  <2> HIDE DEF Body
  <2>7. k + 1 \in Nat /\ \E f : f = [s \in SUBSET (1..(k + 1)) |-> Body(f, s)]
    BY <2>6
  <2> QED
    BY <2>7
<1>3. n \in S
  <2> HIDE DEF S
  <2> QED
    BY <1>1, <1>2, SetInduction
<1> DEFINE iter == CHOOSE g : g = [s \in SUBSET (1..n) |-> Body(g, s)]
<1>4. iter = [s \in SUBSET (1..n) |-> Body(iter, s)]
  BY <1>3
<1>5. Listed(q, forms, texts) = iter[1..n]
  BY DEF Listed, FoldLeft, MapThenFoldSet, Adds
<1> HIDE DEF iter
<1> DEFINE acc == [k \in 0..n |-> iter[1..k]]
<1>6. acc[0] = <<>>
  <2>1. 1..0 = {} /\ {} \in SUBSET (1..n)
    OBVIOUS
  <2>2. iter[{}] = <<>>
    BY <1>4, <2>1
  <2> QED
    BY <2>1, <2>2
<1>7. ASSUME NEW k \in 1..n PROVE acc[k] = Adds(acc[k - 1], q[k], forms, texts)
  <2>1. 1..k \in SUBSET (1..n) /\ 1..k # {} /\ k \in 1..k /\ (1..k) \ {k} = 1..(k - 1)
    OBVIOUS
  <2>2. Max(1..k) = k
    BY <2>1, MaxIs
  <2>3. iter[1..k] = Body(iter, 1..k)
    BY <1>4, <2>1
  <2>4. iter[1..k] = Adds(iter[1..(k - 1)], q[k], forms, texts)
    BY <2>1, <2>2, <2>3
  <2> QED
    BY <2>4
<1>8. acc[n] = Listed(q, forms, texts)
  BY <1>5
<1> QED
  BY <1>6, <1>7, <1>8

LEMMA ListedSame ==
  ASSUME NEW q, NEW n \in Nat, DOMAIN q = 1..n, NEW forms, NEW other, NEW texts,
         \A i \in 1..n : other[texts[q[i].file]] = forms[texts[q[i].file]]
  PROVE  Listed(q, other, texts) = Listed(q, forms, texts)
<1>0. \A g : \E acc : /\ acc[0] = <<>> /\ acc[n] = Listed(q, g, texts)
                      /\ \A k \in 1..n : acc[k] = Adds(acc[k - 1], q[k], g, texts)
  BY ListSteps
<1>1. PICK acc : /\ acc[0] = <<>> /\ acc[n] = Listed(q, forms, texts)
                 /\ \A k \in 1..n : acc[k] = Adds(acc[k - 1], q[k], forms, texts)
  BY <1>0
<1>2. PICK bcc : /\ bcc[0] = <<>> /\ bcc[n] = Listed(q, other, texts)
                 /\ \A k \in 1..n : bcc[k] = Adds(bcc[k - 1], q[k], other, texts)
  BY <1>0
<1> DEFINE S == {k \in Nat : k <= n => acc[k] = bcc[k]}
<1>3. 0 \in S
  BY <1>1, <1>2
<1>4. ASSUME NEW k \in Nat, k \in S PROVE k + 1 \in S
  <2> SUFFICES ASSUME k + 1 <= n PROVE acc[k + 1] = bcc[k + 1]
    OBVIOUS
  <2>1. k + 1 \in 1..n /\ (k + 1) - 1 = k /\ acc[k] = bcc[k]
    BY <1>4
  <2>2. \A found : Adds(found, q[k + 1], forms, texts) = Adds(found, q[k + 1], other, texts)
    BY <2>1 DEF Adds, fingerprints
  <2> QED
    BY <1>1, <1>2, <2>1, <2>2
<1>5. n \in S
  <2> HIDE DEF S
  <2> QED
    BY <1>3, <1>4, SetInduction
<1> QED
  BY <1>1, <1>2, <1>5

AllForms(texts) == [t \in Texts |-> include_forms(t, texts)]

\* The definition of the fingerprints has the solution it is meant to have.
LEMMA FormsListed ==
  ASSUME ImportsEnd, NEW texts \in Sources, NEW t \in Texts
  PROVE  include_forms(t, texts) = Listed(Imports[t], AllForms(texts), texts)
<1> DEFINE P == {D \in SUBSET Texts : \E g : g = [u \in D |-> Listed(Imports[u], g, texts)]}
<1>1. {} \in P
  <2> DEFINE g == [u \in {} |-> 0]
  <2>1. g = [u \in {} |-> Listed(Imports[u], g, texts)]
    OBVIOUS
  <2> QED
    BY <2>1
<1>2. ASSUME NEW D \in SUBSET Texts, NEW u \in Texts, D \in P, Closed(D), u \notin D, Sub(u) \subseteq D
      PROVE  D \cup {u} \in P
  <2>1. PICK g : g = [v \in D |-> Listed(Imports[v], g, texts)]
    BY <1>2
  <2> DEFINE h == [v \in D \cup {u} |-> Listed(Imports[v], g, texts)]
  <2>2. \A v \in D : h[v] = g[v]
    BY <2>1
  <2>3. DOMAIN h = D \cup {u} /\ h = [v \in DOMAIN h |-> h[v]]
        /\ \A v \in D \cup {u} : h[v] = Listed(Imports[v], g, texts)
    OBVIOUS
  <2> HIDE DEF h
  <2>4. ASSUME NEW v \in D \cup {u} PROVE h[v] = Listed(Imports[v], h, texts)
    <3>1. v \in Texts /\ Sub(v) \subseteq D
      BY <1>2 DEF Closed
    <3>2. PICK n \in Nat : DOMAIN Imports[v] = 1..n
      BY <3>1, ImportsOf
    <3>3. ASSUME NEW i \in 1..n PROVE h[texts[Imports[v][i].file]] = g[texts[Imports[v][i].file]]
      <4>1. texts[Imports[v][i].file] \in Sub(v)
        BY <3>1, <3>2, ImportsOf, TextOf
      <4> QED
        BY <2>2, <3>1, <4>1
    <3>4. Listed(Imports[v], h, texts) = Listed(Imports[v], g, texts)
      BY <3>2, <3>3, ListedSame
    <3> QED
      BY <2>3, <3>4
  <2>5. h = [v \in D \cup {u} |-> Listed(Imports[v], h, texts)]
    BY <2>3, <2>4
  <2>6. D \cup {u} \in SUBSET Texts
    OBVIOUS
  <2> QED
    BY <2>5, <2>6
<1>3. Texts \in P
  <2> HIDE DEF P
  <2> QED
    BY <1>1, <1>2, ImportInduction
<1> DEFINE forms == CHOOSE g : g = [u \in Texts |-> Listed(Imports[u], g, texts)]
<1>4. forms = [u \in Texts |-> Listed(Imports[u], forms, texts)]
  BY <1>3
<1>5. \A u : include_forms(u, texts) = forms[u]
  BY DEF include_forms, Listed
<1> HIDE DEF forms
<1>6. AllForms(texts) = forms
  <2>1. AllForms(texts) = [u \in Texts |-> forms[u]]
    BY <1>5 DEF AllForms
  <2>2. DOMAIN forms = Texts /\ forms = [u \in DOMAIN forms |-> forms[u]]
    BY <1>4
  <2> QED
    BY <2>1, <2>2
<1> QED
  BY <1>4, <1>5, <1>6

\* What keys are made of.
Marks == Texts \cup {<<"main", t>> : t \in Texts}

\* One import's fingerprints begin with its text; this is what follows it.
Behind(how, t, form) ==
  IF how = "include" THEN form
  ELSE IF Kind[t] = "module" THEN Append(form, <<"main", t>>) ELSE <<>>

\* Files that read nothing leave nothing behind.
LEMMA LeafForms ==
  ASSUME ImportsEnd, NEW texts \in Sources, NEW t \in Texts, Imports[t] = <<>>
  PROVE  include_forms(t, texts) = <<>>
<1>1. DOMAIN Imports[t] = 1..0
  OBVIOUS
<1>2. PICK acc : acc[0] = <<>> /\ acc[0] = Listed(Imports[t], AllForms(texts), texts)
  BY <1>1, ListSteps
<1> QED
  BY <1>2, FormsListed

LEMMA OneImport ==
  ASSUME ImportsEnd, LeavesImported, NEW texts \in Sources, NEW u \in Texts, NEW i \in DOMAIN Imports[u],
         NEW t, t = texts[Imports[u][i].file], NEW form, form = include_forms(t, texts),
         form \in Seq(Marks)
  PROVE  /\ fingerprints(Imports[u][i], texts, AllForms(texts)) = <<t>> \o Behind(Imports[u][i].how, t, form)
         /\ Behind(Imports[u][i].how, t, form) \in Seq(Marks) /\ t \in Marks
         /\ Imports[u][i].how # "include" /\ Kind[t] # "module" => Imports[t] = <<>>
<1> DEFINE imp == Imports[u][i]
<1>1. imp.file \in Files /\ imp.how \in {"import", "include"}
  BY SourcesAssumption
<1>2. t \in Texts /\ t \in TextsOf[imp.file] /\ AllForms(texts)[t] = form
  BY <1>1, TextOf DEF AllForms, Sources
<1>3. Kind[t] \in {"module", "program", "forms"}
  BY <1>2, SourcesAssumption
<1>4. t \in Marks /\ <<"main", t>> \in Marks
  BY <1>2 DEF Marks
<1>5. imp.how # "include" /\ Kind[t] # "module" => Imports[t] = <<>>
  BY <1>1, <1>2 DEF LeavesImported
<1>6. CASE imp.how = "include"
  <2>1. fingerprints(imp, texts, AllForms(texts)) = <<t>> \o form
    BY <1>2, <1>6 DEF fingerprints, IsModule
  <2> QED
    BY <1>4, <1>6, <2>1 DEF Behind
<1>7. CASE imp.how = "import" /\ Kind[t] = "module"
  <2>1. fingerprints(imp, texts, AllForms(texts)) = <<t>> \o Append(form, <<"main", t>>)
    BY <1>2, <1>7 DEF fingerprints, IsModule
  <2>2. Append(form, <<"main", t>>) \in Seq(Marks)
    BY <1>4, AppendProperties
  <2> QED
    BY <1>4, <1>7, <2>1, <2>2 DEF Behind
<1>8. CASE imp.how = "import" /\ Kind[t] \in {"program", "forms"}
  <2>1. form = <<>>
    BY <1>2, <1>5, <1>8, LeafForms
  <2>2. fingerprints(imp, texts, AllForms(texts)) = <<t>>
    <3>1. Append(<<>>, t) = <<t>>
      OBVIOUS
    <3> QED
      BY <1>2, <1>8, <2>1, <3>1 DEF fingerprints, IsModule
  <2>3. <<t>> = <<t>> \o <<>> /\ <<>> \in Seq(Marks)
    BY <1>4
  <2> QED
    BY <1>4, <1>5, <1>8, <2>2, <2>3 DEF Behind
<1> QED
  BY <1>1, <1>3, <1>6, <1>7, <1>8

LEMMA FormsTyped ==
  ASSUME ImportsEnd, LeavesImported, NEW texts \in Sources, NEW t \in Texts
  PROVE  include_forms(t, texts) \in Seq(Marks)
<1> DEFINE P == {D \in SUBSET Texts : \A u \in D : include_forms(u, texts) \in Seq(Marks)}
<1>1. {} \in P
  OBVIOUS
<1>2. ASSUME NEW D \in SUBSET Texts, NEW u \in Texts, D \in P, Closed(D), u \notin D, Sub(u) \subseteq D
      PROVE  D \cup {u} \in P
  <2> DEFINE q == Imports[u]
             forms == AllForms(texts)
  <2>1. PICK n \in Nat : DOMAIN q = 1..n
    BY ImportsOf
  <2>2. PICK acc : /\ acc[0] = <<>> /\ acc[n] = Listed(q, forms, texts)
                   /\ \A k \in 1..n : acc[k] = Adds(acc[k - 1], q[k], forms, texts)
    <3> HIDE DEF q, forms
    <3> QED
      BY <2>1, ListSteps
  <2> DEFINE S == {k \in Nat : k <= n => acc[k] \in Seq(Marks)}
  <2>3. 0 \in S
    <3> HIDE DEF q, forms
    <3>1. acc[0] \in Seq(Marks)
      BY <2>2
    <3> QED
      BY <3>1
  <2>4. ASSUME NEW k \in Nat, k \in S PROVE k + 1 \in S
    <3> SUFFICES ASSUME k + 1 <= n PROVE acc[k + 1] \in Seq(Marks)
      OBVIOUS
    <3>1. k + 1 \in 1..n /\ (k + 1) - 1 = k /\ acc[k] \in Seq(Marks)
      BY <2>4
    <3> DEFINE t1 == texts[q[k + 1].file]
    <3>2. t1 \in D
      BY <1>2, <2>1, <3>1, ImportsOf, TextOf
    <3>3. include_forms(t1, texts) \in Seq(Marks)
      BY <1>2, <3>2
    <3>4. fingerprints(q[k + 1], texts, forms) \in Seq(Marks)
      <4>1. /\ fingerprints(q[k + 1], texts, forms) = <<t1>> \o Behind(q[k + 1].how, t1, include_forms(t1, texts))
            /\ Behind(q[k + 1].how, t1, include_forms(t1, texts)) \in Seq(Marks) /\ t1 \in Marks
        BY <2>1, <3>1, <3>3, OneImport
      <4> HIDE DEF t1, q, forms
      <4> QED
        BY <4>1, ConcatProperties
    <3>5. acc[k + 1] = acc[k] \o fingerprints(q[k + 1], texts, forms)
      BY <2>2, <3>1 DEF Adds
    <3> HIDE DEF q, forms
    <3> QED
      BY <3>1, <3>4, <3>5, ConcatProperties
  <2>5. n \in S
    <3> HIDE DEF S
    <3> QED
      BY <2>3, <2>4, SetInduction
  <2>6. include_forms(u, texts) \in Seq(Marks)
    BY <2>2, <2>5, FormsListed
  <2> QED
    BY <1>2, <2>6
<1>3. Texts \in P
  <2> HIDE DEF P
  <2> QED
    BY <1>1, <1>2, ImportInduction
<1> QED
  BY <1>3

\* The files that are the same in two sources, with all that they read.
Shared(s, t) == UNION {R \in SUBSET Files : Sealed(R, s) /\ \A f \in R : t[f] = s[f]}

LEMMA SharedSealed ==
  ASSUME NEW s, NEW t
  PROVE  /\ Shared(s, t) \in SUBSET Files /\ Sealed(Shared(s, t), s)
         /\ \A f \in Shared(s, t) : t[f] = s[f]
         /\ \A f \in Files : t[f] = s[f] /\ Imported(s[f]) \subseteq Shared(s, t) => f \in Shared(s, t)
<1> DEFINE R == Shared(s, t)
<1>1. R \in SUBSET Files /\ Sealed(R, s) /\ \A f \in R : t[f] = s[f]
  BY DEF Shared, Sealed
<1>2. ASSUME NEW f \in Files, t[f] = s[f], Imported(s[f]) \subseteq R PROVE f \in R
  <2>1. Sealed(R \cup {f}, s) /\ \A g \in R \cup {f} : t[g] = s[g]
    BY <1>1, <1>2 DEF Sealed
  <2>2. R \cup {f} \in SUBSET Files
    BY <1>1
  <2>3. \A Q : Q \in SUBSET Files /\ Sealed(Q, s) /\ (\A g \in Q : t[g] = s[g]) => Q \subseteq R
    BY DEF Shared
  <2>4. R \cup {f} \subseteq R
    BY <2>1, <2>2, <2>3
  <2> QED
    BY <2>4
<1> QED
  BY <1>1, <1>2

\* Sequences of fingerprints, their concatenation and those of one: folded, for
\* the provers.
Prints == Seq(Marks)
Cat(s, t) == s \o t
One(x) == <<x>>

LEMMA CatIn == \A s, t \in Prints : Cat(s, t) \in Prints
BY ConcatProperties DEF Cat, Prints

LEMMA CatAssoc == \A s, t, u \in Prints : Cat(Cat(s, t), u) = Cat(s, Cat(t, u))
BY ConcatAssociative DEF Cat, Prints

LEMMA CatCancel == \A s, t, u \in Prints : Cat(s, t) = Cat(s, u) => t = u
BY ConcatSimplifications DEF Cat, Prints

LEMMA OneIn == \A x \in Marks : One(x) \in Prints
BY DEF One, Prints

LEMMA OneCat ==
  ASSUME NEW x \in Marks, NEW y \in Marks, NEW s \in Prints, NEW t \in Prints, Cat(One(x), s) = Cat(One(y), t)
  PROVE  x = y /\ s = t
<1>1. /\ One(x) \in Prints /\ Len(One(x)) = 1 /\ One(x)[1] = x
      /\ One(y) \in Prints /\ Len(One(y)) = 1 /\ One(y)[1] = y
  BY DEF One, Prints
<1> DEFINE p == One(x)
           q == One(y)
<1>2. p \in Prints /\ q \in Prints /\ Len(p) = 1 /\ Len(q) = 1 /\ p[1] = x /\ q[1] = y
  BY <1>1
<1> HIDE DEF p, q
<1>3. (p \o s)[1] = x
  <2>1. \A m \in 1..(Len(p) + Len(s)) : (p \o s)[m] = IF m <= Len(p) THEN p[m] ELSE s[m - Len(p)]
    BY <1>2, ConcatProperties DEF Prints
  <2>2. Len(s) \in Nat
    BY LenProperties DEF Prints
  <2>3. 1 \in 1..(Len(p) + Len(s))
    BY <1>2, <2>2
  <2> QED
    BY <1>2, <2>1, <2>3
<1>4. (q \o t)[1] = y
  <2>1. \A m \in 1..(Len(q) + Len(t)) : (q \o t)[m] = IF m <= Len(q) THEN q[m] ELSE t[m - Len(q)]
    BY <1>2, ConcatProperties DEF Prints
  <2>2. Len(t) \in Nat
    BY LenProperties DEF Prints
  <2>3. 1 \in 1..(Len(q) + Len(t))
    BY <1>2, <2>2
  <2> QED
    BY <1>2, <2>1, <2>3
<1>5. x = y
  BY <1>3, <1>4 DEF Cat, p, q
<1> QED
  BY <1>1, <1>5, CatCancel

LEMMA BlocksAgree ==
  ASSUME NEW a \in Prints, NEW x \in Marks, NEW y \in Marks,
         NEW g \in Prints, NEW h \in Prints, NEW v \in Prints, NEW w \in Prints,
         Cat(a, Cat(Cat(One(x), g), v)) = Cat(a, Cat(Cat(One(y), h), w))
  PROVE  x = y /\ Cat(g, v) = Cat(h, w)
<1>1. Cat(Cat(One(x), g), v) = Cat(Cat(One(y), h), w)
  <2>1. Cat(Cat(One(x), g), v) \in Prints /\ Cat(Cat(One(y), h), w) \in Prints
    BY CatIn, OneIn
  <2> QED
    BY <2>1, CatCancel
<1>2. Cat(Cat(One(x), g), v) = Cat(One(x), Cat(g, v)) /\ Cat(Cat(One(y), h), w) = Cat(One(y), Cat(h, w))
  BY CatAssoc, OneIn
<1>3. Cat(g, v) \in Prints /\ Cat(h, w) \in Prints
  BY CatIn
<1>4. PICK k \in Prints, l \in Prints : k = Cat(g, v) /\ l = Cat(h, w)
  BY <1>3
<1>5. Cat(One(x), k) = Cat(One(y), l)
  BY <1>1, <1>2, <1>4
<1>6. x = y /\ k = l
  BY <1>5, OneCat
<1> QED
  BY <1>4, <1>6

\* What an import leaves behind its text tells where the next one begins, if
\* the fingerprints of the text do.
Tells(v, s, t) ==
  \A y, z \in Prints :
    Cat(include_forms(v, s), y) = Cat(include_forms(v, t), z) =>
      include_forms(v, s) = include_forms(v, t) /\ Imported(v) \subseteq Shared(s, t)

LEMMA BehindTells ==
  ASSUME NEW how, NEW v \in Texts, NEW s, NEW t, Tells(v, s, t),
         how # "include" /\ Kind[v] # "module" => Imports[v] = <<>>,
         NEW e \in Prints, e = include_forms(v, s), NEW f \in Prints, f = include_forms(v, t),
         NEW y \in Prints, NEW z \in Prints,
         Cat(Behind(how, v, e), y) = Cat(Behind(how, v, f), z)
  PROVE  Behind(how, v, e) = Behind(how, v, f) /\ Imported(v) \subseteq Shared(s, t)
<1>1. \A p, q \in Prints : Cat(e, p) = Cat(f, q) => e = f /\ Imported(v) \subseteq Shared(s, t)
  BY DEF Tells
<1>2. CASE how = "include"
  <2>1. Behind(how, v, e) = e /\ Behind(how, v, f) = f
    BY <1>2 DEF Behind
  <2> QED
    BY <1>1, <2>1
<1>3. CASE how # "include" /\ Kind[v] = "module"
  <2>1. PICK m \in Marks : m = <<"main", v>>
    BY DEF Marks
  <2>2. PICK c \in Prints : c = One(m)
    BY OneIn
  <2>3. Behind(how, v, e) = Cat(e, c) /\ Behind(how, v, f) = Cat(f, c)
    <3>1. Append(e, m) = e \o <<m>> /\ Append(f, m) = f \o <<m>>
      BY AppendIsConcat
    <3> QED
      BY <1>3, <2>1, <2>2, <3>1 DEF Behind, Cat, One
  <2>4. Cat(Cat(e, c), y) = Cat(e, Cat(c, y)) /\ Cat(Cat(f, c), z) = Cat(f, Cat(c, z))
    BY CatAssoc
  <2>5. Cat(c, y) \in Prints /\ Cat(c, z) \in Prints
    BY CatIn
  <2>6. Cat(e, Cat(c, y)) = Cat(f, Cat(c, z))
    BY <2>3, <2>4
  <2>7. e = f /\ Imported(v) \subseteq Shared(s, t)
    BY <1>1, <2>5, <2>6
  <2> QED
    BY <2>7
<1>4. CASE how # "include" /\ Kind[v] # "module"
  <2>1. Imported(v) = {}
    BY <1>4 DEF Imported
  <2> QED
    BY <1>4, <2>1 DEF Behind
<1> QED
  BY <1>2, <1>3, <1>4

\* The text that an import brings, and what is fingerprinted for it.
Brought(u, i, texts) == texts[Imports[u][i].file]
Block(u, i, texts) ==
  LET t == Brought(u, i, texts)
  IN Cat(One(t), Behind(Imports[u][i].how, t, include_forms(t, texts)))

LEMMA BlockIs ==
  ASSUME ImportsEnd, LeavesImported, NEW texts \in Sources, NEW u \in Texts, NEW i \in DOMAIN Imports[u]
  PROVE  LET t == Brought(u, i, texts)
             g == Behind(Imports[u][i].how, t, include_forms(t, texts))
         IN /\ t \in Texts /\ t \in Sub(u) /\ t \in Marks
            /\ include_forms(t, texts) \in Prints /\ g \in Prints
            /\ Imports[u][i].how # "include" /\ Kind[t] # "module" => Imports[t] = <<>>
            /\ Block(u, i, texts) = fingerprints(Imports[u][i], texts, AllForms(texts))
            /\ Block(u, i, texts) \in Prints
<1> DEFINE t == Brought(u, i, texts)
           form == include_forms(t, texts)
           g == Behind(Imports[u][i].how, t, form)
<1>1. t \in Texts /\ t \in Sub(u)
  BY ImportsOf, TextOf DEF Brought
<1>2. form \in Prints
  BY <1>1, FormsTyped DEF Prints
<1>3. /\ fingerprints(Imports[u][i], texts, AllForms(texts)) = <<t>> \o g
      /\ g \in Prints /\ t \in Marks
      /\ Imports[u][i].how # "include" /\ Kind[t] # "module" => Imports[t] = <<>>
  BY <1>2, OneImport DEF Brought, Prints
<1>4. Block(u, i, texts) = <<t>> \o g
  BY DEF Block, Cat, One
<1>5. Cat(One(t), g) \in Prints
  BY <1>3, CatIn, OneIn
<1> QED
  BY <1>1, <1>2, <1>3, <1>4, <1>5 DEF Cat, One

\* The fingerprints of a text are the blocks of its imports, one after the other.
LEMMA BlocksListed ==
  ASSUME ImportsEnd, LeavesImported, NEW texts \in Sources, NEW u \in Texts, NEW n \in Nat, DOMAIN Imports[u] = 1..n
  PROVE  \E acc : /\ acc[0] = <<>> /\ acc[n] = include_forms(u, texts)
                  /\ \A k \in 0..n : acc[k] \in Prints
                  /\ \A k \in 1..n : acc[k] = Cat(acc[k - 1], Block(u, k, texts))
<1> DEFINE q == Imports[u]
           forms == AllForms(texts)
<1>1. PICK acc : /\ acc[0] = <<>> /\ acc[n] = Listed(q, forms, texts)
                 /\ \A k \in 1..n : acc[k] = Adds(acc[k - 1], q[k], forms, texts)
  <2>1. DOMAIN q = 1..n
    OBVIOUS
  <2> HIDE DEF q, forms
  <2> QED
    BY <2>1, ListSteps
<1>2. acc[n] = include_forms(u, texts)
  BY <1>1, FormsListed
<1>3. \A k \in 1..n : Block(u, k, texts) \in Prints /\ Block(u, k, texts) = fingerprints(q[k], texts, forms)
  BY BlockIs
<1>4. \A k \in 1..n : acc[k] = Cat(acc[k - 1], Block(u, k, texts))
  BY <1>1, <1>3 DEF Adds, Cat
<1> DEFINE S == {k \in Nat : k <= n => acc[k] \in Prints}
<1> HIDE DEF q, forms
<1>5. 0 \in S
  <2>1. acc[0] \in Prints
    BY <1>1 DEF Prints
  <2> QED
    BY <2>1
<1>6. ASSUME NEW k \in Nat, k \in S PROVE k + 1 \in S
  <2> SUFFICES ASSUME k + 1 <= n PROVE acc[k + 1] \in Prints
    OBVIOUS
  <2>1. k + 1 \in 1..n /\ (k + 1) - 1 = k /\ acc[k] \in Prints
    BY <1>6
  <2>2. acc[k + 1] = Cat(acc[k], Block(u, k + 1, texts)) /\ Block(u, k + 1, texts) \in Prints
    BY <1>3, <1>4, <2>1
  <2> QED
    BY <2>1, <2>2, CatIn
<1>7. \A k \in Nat : k \in S
  <2> HIDE DEF S
  <2> QED
    BY <1>5, <1>6, SetInduction
<1>8. \A k \in 0..n : acc[k] \in Prints
  BY <1>7
<1> QED
  BY <1>1, <1>2, <1>4, <1>8

\* What follows the first k blocks.
LEMMA Tails ==
  ASSUME NEW n \in Nat, NEW acc, NEW y \in Prints,
         \A k \in 0..n : acc[k] \in Prints,
         \A k \in 1..n : \E b \in Prints : acc[k] = Cat(acc[k - 1], b)
  PROVE  \A k \in 0..n : \E w \in Prints : Cat(acc[n], y) = Cat(acc[k], w)
<1> DEFINE S == {j \in Nat : j <= n => \E w \in Prints : Cat(acc[n], y) = Cat(acc[n - j], w)}
<1>1. 0 \in S
  <2>1. Cat(acc[n], y) = Cat(acc[n - 0], y)
    OBVIOUS
  <2> QED
    BY <2>1
<1>2. ASSUME NEW j \in Nat, j \in S PROVE j + 1 \in S
  <2> SUFFICES ASSUME j + 1 <= n PROVE \E w \in Prints : Cat(acc[n], y) = Cat(acc[n - (j + 1)], w)
    OBVIOUS
  <2>1. PICK w \in Prints : Cat(acc[n], y) = Cat(acc[n - j], w)
    BY <1>2
  <2>2. PICK k \in 1..n : k = n - j /\ n - (j + 1) = k - 1 /\ k - 1 \in 0..n
    OBVIOUS
  <2>3. PICK b \in Prints : acc[k] = Cat(acc[k - 1], b) /\ acc[k - 1] \in Prints
    BY <2>2
  <2>4. Cat(Cat(acc[k - 1], b), w) = Cat(acc[k - 1], Cat(b, w))
    BY <2>3, CatAssoc
  <2>5. Cat(b, w) \in Prints
    BY <2>3, CatIn
  <2>6. Cat(acc[n], y) = Cat(acc[n - (j + 1)], Cat(b, w))
    BY <2>1, <2>2, <2>3, <2>4
  <2> QED
    BY <2>5, <2>6
<1>3. \A j \in Nat : j \in S
  <2> HIDE DEF S
  <2> QED
    BY <1>1, <1>2, SetInduction
<1>4. ASSUME NEW k \in 0..n PROVE \E w \in Prints : Cat(acc[n], y) = Cat(acc[k], w)
  <2>1. n - k \in Nat /\ n - k <= n /\ n - (n - k) = k
    OBVIOUS
  <2> QED
    BY <1>3, <2>1
<1> QED
  BY <1>4

\* When the fingerprints of what a text reads tell where they end, so do its own.
LEMMA TextTells ==
  ASSUME ImportsEnd, LeavesImported, NEW s \in Sources, NEW t \in Sources, NEW u \in Texts,
         \A v \in Sub(u) : Tells(v, s, t)
  PROVE  Tells(u, s, t)
<1> SUFFICES ASSUME NEW y \in Prints, NEW z \in Prints,
                    Cat(include_forms(u, s), y) = Cat(include_forms(u, t), z)
             PROVE  include_forms(u, s) = include_forms(u, t) /\ Imported(u) \subseteq Shared(s, t)
  BY DEF Tells
<1>1. PICK n \in Nat : DOMAIN Imports[u] = 1..n
  BY ImportsOf
<1>2. PICK acc : /\ acc[0] = <<>> /\ acc[n] = include_forms(u, s)
                 /\ \A k \in 0..n : acc[k] \in Prints
                 /\ \A k \in 1..n : acc[k] = Cat(acc[k - 1], Block(u, k, s))
  BY <1>1, BlocksListed
<1>3. PICK bcc : /\ bcc[0] = <<>> /\ bcc[n] = include_forms(u, t)
                 /\ \A k \in 0..n : bcc[k] \in Prints
                 /\ \A k \in 1..n : bcc[k] = Cat(bcc[k - 1], Block(u, k, t))
  BY <1>1, BlocksListed
<1>4. \A k \in 1..n : Block(u, k, s) \in Prints /\ Block(u, k, t) \in Prints
  BY <1>1, BlockIs
<1>5. \A k \in 0..n : \E w \in Prints : Cat(acc[n], y) = Cat(acc[k], w)
  <2>1. \A k \in 1..n : \E b \in Prints : acc[k] = Cat(acc[k - 1], b)
    BY <1>2, <1>4
  <2>2. \A k \in 0..n : acc[k] \in Prints
    BY <1>2
  <2> QED
    BY <2>1, <2>2, Tails
<1>6. \A k \in 0..n : \E w \in Prints : Cat(bcc[n], z) = Cat(bcc[k], w)
  <2>1. \A k \in 1..n : \E b \in Prints : bcc[k] = Cat(bcc[k - 1], b)
    BY <1>3, <1>4
  <2>2. \A k \in 0..n : bcc[k] \in Prints
    BY <1>3
  <2> QED
    BY <2>1, <2>2, Tails
<1>7. Cat(acc[n], y) = Cat(bcc[n], z)
  BY <1>2, <1>3
<1> DEFINE S == {k \in Nat : k <= n => /\ acc[k] = bcc[k]
                                       /\ \A i \in 1..k : Imports[u][i].file \in Shared(s, t)}
<1>8. 0 \in S
  BY <1>2, <1>3
<1>9. ASSUME NEW k \in Nat, k \in S PROVE k + 1 \in S
  <2> SUFFICES ASSUME k + 1 <= n
               PROVE  acc[k + 1] = bcc[k + 1] /\ \A i \in 1..(k + 1) : Imports[u][i].file \in Shared(s, t)
    OBVIOUS
  <2>1. /\ k + 1 \in 1..n /\ (k + 1) - 1 = k /\ k \in 0..n /\ k + 1 \in 0..n
        /\ acc[k] = bcc[k] /\ \A i \in 1..k : Imports[u][i].file \in Shared(s, t)
    BY <1>9
  <2>2. PICK j \in DOMAIN Imports[u] : j = k + 1
    BY <1>1, <2>1
  <2> DEFINE imp == Imports[u][j]
             f == imp.file
             x1 == Brought(u, j, s)
             x2 == Brought(u, j, t)
             e1 == include_forms(x1, s)
             e2 == include_forms(x2, t)
             g1 == Behind(imp.how, x1, e1)
             g2 == Behind(imp.how, x2, e2)
  <2>3. /\ x1 \in Texts /\ x1 \in Sub(u) /\ x1 \in Marks /\ e1 \in Prints /\ g1 \in Prints
        /\ imp.how # "include" /\ Kind[x1] # "module" => Imports[x1] = <<>>
    BY <2>2, BlockIs
  <2>4. /\ x2 \in Marks /\ e2 \in Prints /\ g2 \in Prints
    BY <2>2, BlockIs
  <2>5. Block(u, j, s) = Cat(One(x1), g1) /\ Block(u, j, t) = Cat(One(x2), g2)
    BY DEF Block
  <2>6. PICK v \in Prints : Cat(acc[n], y) = Cat(acc[k + 1], v)
    BY <1>5, <2>1
  <2>7. PICK w \in Prints : Cat(bcc[n], z) = Cat(bcc[k + 1], w)
    BY <1>6, <2>1
  <2>8. PICK a \in Prints : a = acc[k] /\ a = bcc[k]
    BY <1>2, <2>1
  <2> HIDE DEF imp, f, x1, x2, e1, e2, g1, g2
  <2>9. acc[k + 1] = Cat(a, Cat(One(x1), g1)) /\ bcc[k + 1] = Cat(a, Cat(One(x2), g2))
    BY <1>2, <1>3, <2>1, <2>2, <2>5, <2>8
  <2>10. Cat(One(x1), g1) \in Prints /\ Cat(One(x2), g2) \in Prints
    BY <2>3, <2>4, CatIn, OneIn
  <2>11. /\ Cat(Cat(a, Cat(One(x1), g1)), v) = Cat(a, Cat(Cat(One(x1), g1), v))
         /\ Cat(Cat(a, Cat(One(x2), g2)), w) = Cat(a, Cat(Cat(One(x2), g2), w))
    BY <2>10, CatAssoc
  <2>12. Cat(a, Cat(Cat(One(x1), g1), v)) = Cat(a, Cat(Cat(One(x2), g2), w))
    BY <1>7, <2>6, <2>7, <2>9, <2>11
  <2>13. x1 = x2 /\ Cat(g1, v) = Cat(g2, w)
    <3>1. x1 \in Marks /\ x2 \in Marks /\ g1 \in Prints /\ g2 \in Prints
      BY <2>3, <2>4
    <3> QED
      BY <2>12, <3>1, BlocksAgree
  <2>14. Tells(x1, s, t)
    BY <2>3
  <2>15. g1 = g2 /\ Imported(x1) \subseteq Shared(s, t)
    <3>1. e1 = include_forms(x1, s) /\ e2 = include_forms(x1, t)
      BY <2>13 DEF e1, e2
    <3>2. g1 = Behind(imp.how, x1, e1) /\ g2 = Behind(imp.how, x1, e2)
      BY <2>13 DEF g1, g2
    <3>3. Cat(Behind(imp.how, x1, e1), v) = Cat(Behind(imp.how, x1, e2), w)
      BY <2>13, <3>2
    <3>4. Behind(imp.how, x1, e1) = Behind(imp.how, x1, e2) /\ Imported(x1) \subseteq Shared(s, t)
      <4>1. x1 \in Texts /\ e1 \in Prints /\ e2 \in Prints
        BY <2>3, <2>4
      <4>2. imp.how # "include" /\ Kind[x1] # "module" => Imports[x1] = <<>>
        BY <2>3
      <4> QED
        BY <2>14, <3>1, <3>3, <4>1, <4>2, BehindTells
    <3> QED
      BY <3>2, <3>4
  <2>16. f \in Shared(s, t)
    <3>1. f \in Files /\ s[f] = x1 /\ t[f] = x2
      BY <2>2, ImportsOf DEF f, imp, x1, x2, Brought
    <3> QED
      BY <2>13, <2>15, <3>1, SharedSealed
  <2>17. acc[k + 1] = bcc[k + 1]
    BY <2>9, <2>13, <2>15
  <2>18. \A i \in 1..(k + 1) : i \in 1..k \/ i = j
    BY <2>2
  <2> QED
    BY <2>1, <2>16, <2>17, <2>18 DEF f, imp
<1>10. n \in S
  <2> HIDE DEF S
  <2> QED
    BY <1>8, <1>9, SetInduction
<1>11. Imported(u) \subseteq Shared(s, t)
  BY <1>1, <1>10 DEF Imported
<1> QED
  BY <1>2, <1>3, <1>10, <1>11

LEMMA AllTell ==
  ASSUME ImportsEnd, LeavesImported, NEW s \in Sources, NEW t \in Sources
  PROVE  \A u \in Texts : Tells(u, s, t)
<1> DEFINE P == {D \in SUBSET Texts : \A u \in D : Tells(u, s, t)}
<1>1. {} \in P
  OBVIOUS
<1>2. ASSUME NEW D \in SUBSET Texts, NEW u \in Texts, D \in P, Closed(D), u \notin D, Sub(u) \subseteq D
      PROVE  D \cup {u} \in P
  <2>1. \A v \in Sub(u) : Tells(v, s, t)
    BY <1>2
  <2>2. Tells(u, s, t)
    BY <2>1, TextTells
  <2> QED
    BY <1>2, <2>2
<1>3. Texts \in P
  <2> HIDE DEF P
  <2> QED
    BY <1>1, <1>2, ImportInduction
<1> QED
  BY <1>3

\* Files that are the same in two sources, with all that they read, mean the same.
LEMMA SharedMeans ==
  ASSUME ImportsEnd, NEW s \in Sources, NEW t \in Sources, NEW R \in SUBSET Files,
         Sealed(R, s), \A f \in R : t[f] = s[f]
  PROVE  \A m \in R : Meaning(m, s) = Meaning(m, t)
<1> DEFINE Of(D) == {f \in R : s[f] \in D}
           P == {D \in SUBSET Texts : \A f \in Of(D) : Meaning(f, s) = Meaning(f, t)}
<1>1. {} \in P
  OBVIOUS
<1>2. ASSUME NEW D \in SUBSET Texts, NEW u \in Texts, D \in P, Closed(D), u \notin D, Sub(u) \subseteq D
      PROVE  D \cup {u} \in P
  <2>1. ASSUME NEW f \in R, Sub(s[f]) \subseteq D PROVE Imported(s[f]) \subseteq Of(D)
    <3>1. s[f] \in Texts /\ Imported(s[f]) \subseteq R
      BY TextOf DEF Sealed
    <3>2. \A g \in Imported(s[f]) : g \in Files /\ s[g] \in Sub(s[f])
      BY <3>1, TextOf
    <3> QED
      BY <2>1, <3>1, <3>2
  <2>2. Of(D) \in SUBSET Files /\ Sealed(Of(D), s)
    <3>1. \A f \in Of(D) : f \in R /\ Sub(s[f]) \subseteq D
      BY <1>2 DEF Closed
    <3> QED
      BY <2>1, <3>1 DEF Sealed
  <2>3. \A f \in Of(D) : Meaning(f, s) = Meaning(f, t)
    BY <1>2
  <2>4. \A f \in Of(D \cup {u}) : f \in R /\ f \in Files /\ s[f] \in Texts /\ Sub(s[f]) \subseteq D
    BY <1>2, TextOf DEF Closed
  <2> HIDE DEF Of
  <2>5. ASSUME NEW f \in Of(D \cup {u}) PROVE Meaning(f, s) = Meaning(f, t)
    <3>1. f \in R /\ f \in Files /\ s[f] \in Texts /\ Imported(s[f]) \subseteq Of(D)
      BY <2>1, <2>4
    <3>2. Below(f, s) \subseteq Of(D)
      BY <2>2, <3>1, ModulesSame DEF Below, Range
    <3>3. [e \in Below(f, s) |-> Meanings(t)[e]] = [e \in Below(f, s) |-> Meanings(s)[e]]
      BY <2>2, <2>3, <3>2 DEF Meanings
    <3>4. CompileModule(f, s, Meanings(t)) = CompileModule(f, s, Meanings(s))
      BY <3>3 DEF CompileModule
    <3>5. CompileModule(f, t, Meanings(t)) = CompileModule(f, s, Meanings(t))
      BY <3>1, CompiledSame
    <3>6. Meaning(f, s) = CompileModule(f, s, Meanings(s)) /\ Meaning(f, t) = CompileModule(f, t, Meanings(t))
      BY <3>1, MeaningIs
    <3> QED
      BY <3>4, <3>5, <3>6
  <2> QED
    BY <1>2, <2>5
<1>3. Texts \in P
  <2> HIDE DEF P
  <2> QED
    BY <1>1, <1>2, ImportInduction
<1>4. Of(Texts) = R
  BY TextOf
<1> QED
  BY <1>3, <1>4

\* Where what is imported and is no module reads nothing itself, sources with the
\* same key mean the same: the fingerprints of add_main_fingerprint and
\* import_new_module can be read back, and tell every text that is read.
THEOREM KeyIsAKey == ImportsEnd /\ LeavesImported => KeysAgree
<1> SUFFICES ASSUME ImportsEnd, LeavesImported,
                    NEW s \in Sources, NEW t \in Sources, NEW m \in Files,
                    cache_key(s[m], s) = cache_key(t[m], t)
             PROVE  Meaning(m, s) = Meaning(m, t)
  BY DEF KeysAgree
<1> DEFINE a == include_forms(s[m], s)
           b == include_forms(t[m], t)
<1>1. s[m] \in Texts /\ t[m] \in Texts
  BY TextOf
<1>2. a \in Seq(Marks) /\ b \in Seq(Marks)
  BY <1>1, FormsTyped
<1>3. <<"main", s[m]>> \in Marks /\ <<"main", t[m]>> \in Marks
  BY <1>1 DEF Marks
<1>4. Append(a, <<"main", s[m]>>) = Append(b, <<"main", t[m]>>)
  BY DEF cache_key, main_fingerprint
<1>5. a = b /\ <<"main", s[m]>> = <<"main", t[m]>>
  <2> HIDE DEF a, b
  <2> QED
    BY <1>2, <1>3, <1>4, AppendInjective
<1>6. s[m] = t[m]
  BY <1>5
<1>7. Imported(s[m]) \subseteq Shared(s, t)
  <2>1. PICK y \in Prints : TRUE
    <3>1. <<>> \in Prints
      BY DEF Prints
    <3> QED
      BY <3>1
  <2>2. Tells(s[m], s, t)
    BY <1>1, AllTell
  <2>3. Cat(include_forms(s[m], s), y) = Cat(include_forms(s[m], t), y)
    BY <1>5, <1>6
  <2> QED
    BY <2>2, <2>3 DEF Tells
<1>8. m \in Shared(s, t)
  BY <1>6, <1>7, SharedSealed
<1> QED
  BY <1>8, SharedSealed, SharedMeans

(***************************************************************************)
(* The module at hand.                                                     *)
(***************************************************************************)

\* The order of a compile ends with the main module.
LEMMA OrderShape ==
  ASSUME KeysTell, NEW s \in Sources, NEW u \in MayUse(s)
  PROVE  Order(u) \in Seq(Files) /\ Len(Order(u)) > 0 /\ Order(u)[Len(Order(u))] = Main
BY OrderTells DEF KeysTell

\* The module at hand is a place in the order, and what it compiles to is what
\* it means: the modules it needs are done.
LEMMA ModuleAtHand ==
  ASSUME KeysTell, NEW j, JobOK(j), j.phase \in Compiles, j.todo # <<>>,
         NEW n \in Nat, At(j, n)
  PROVE  LET m == Head(j.todo)
         IN /\ n + 1 \in 1..Len(Order(j.used)) /\ m = Order(j.used)[n + 1]
            /\ m \in Files /\ j.used[m] = j.seen[m] /\ j.seen[m] \in Texts
            /\ CompileModule(m, j.used, j.got) = Meaning(m, j.seen)
<1> DEFINE order == Order(j.used)
           m == Head(j.todo)
           mean == Meanings(j.seen)
<1>1. j.seen \in Sources /\ j.used \in MayUse(j.seen)
  BY DEF JobOK, Compiles
<1>2. /\ order \in Seq(Files)
      /\ \A i \in DOMAIN order :
           /\ j.used[order[i]] = j.seen[order[i]]
           /\ Below(order[i], j.used) \subseteq {order[k] : k \in 1..(i - 1)}
           /\ CompileModule(order[i], j.used, mean) = Meaning(order[i], j.seen)
  BY <1>1, OrderTells DEF KeysTell
<1>3. /\ j.todo \in Seq(Files) /\ Len(j.todo) = Len(order) - n
      /\ \A i \in 1..Len(j.todo) : j.todo[i] = order[n + i]
      /\ \A i \in 1..n : j.got[order[i]] = mean[order[i]]
  BY <1>2 DEF At, Meanings
<1>4. Len(j.todo) \in Nat /\ Len(j.todo) > 0 /\ m = j.todo[1]
  BY <1>3, HeadTailProperties, EmptySeq
<1>5. n + 1 \in 1..Len(order) /\ m = order[n + 1] /\ m \in Files
  BY <1>2, <1>3, <1>4
<1>6. \A f \in Below(m, j.used) : f \in Files /\ j.got[f] = mean[f]
  <2> SUFFICES ASSUME NEW f \in Below(m, j.used) PROVE f \in Files /\ j.got[f] = mean[f]
    OBVIOUS
  <2>0. n + 1 \in DOMAIN order /\ (n + 1) - 1 = n
    BY <1>2, <1>5
  <2>0a. Below(order[n + 1], j.used) \subseteq {order[k] : k \in 1..((n + 1) - 1)}
    BY <1>2, <2>0
  <2>0b. f \in Below(order[n + 1], j.used)
    BY <1>5
  <2>1. PICK k \in 1..n : f = order[k]
    BY <2>0, <2>0a, <2>0b
  <2> QED
    BY <2>1, <1>2, <1>3, <1>5
<1>7. CompileModule(m, j.used, j.got) = CompileModule(m, j.used, mean)
  BY <1>6 DEF CompileModule
<1>8. j.seen[m] \in Texts
  BY <1>1, <1>5 DEF Sources
<1> QED
  BY <1>2, <1>5, <1>7, <1>8

\* What it means has a component for each export.
LEMMA MeaningShape ==
  ASSUME KeysTell, NEW j, JobOK(j), j.phase \in Compiles, j.todo # <<>>
  PROVE  LET m == Head(j.todo)
             ex == Exports[j.used[m]]
         IN /\ m \in Files /\ j.used[m] = j.seen[m] /\ ex \in Seq(Range(ex))
            /\ CompileModule(m, j.used, j.got) = Meaning(m, j.seen)
            /\ Meaning(m, j.seen) = [a \in {ex[i].as : i \in DOMAIN ex} |-> Meaning(m, j.seen)[a]]
            /\ \A e \in Range(ex) : e.as = e.name
<1> DEFINE m == Head(j.todo)
           ex == Exports[j.used[m]]
<1>1. PICK n \in Nat : At(j, n)
  BY DEF JobOK
<1>2. /\ m \in Files /\ j.used[m] = j.seen[m] /\ j.seen[m] \in Texts
      /\ CompileModule(m, j.used, j.got) = Meaning(m, j.seen)
  BY <1>1, ModuleAtHand
<1>3. ex \in Seq(Range(ex)) /\ \A e \in Range(ex) : e.as = e.name
  BY <1>2, SourcesAssumption DEF KeysTell, NamesAgree
<1>4. CompileModule(m, j.used, j.got)
        = [a \in {ex[i].as : i \in DOMAIN ex} |-> CompileModule(m, j.used, j.got)[a]]
  <2> DEFINE given == [f \in Below(m, j.used) |-> j.got[f]]
  <2>1. Components(m, j.used, given)
          = [a \in {ex[i].as : i \in DOMAIN ex} |->
               LET e == CHOOSE e \in Range(ex) : e.as = a IN Value(e, m, j.used, given)]
    BY DEF Components
  <2>2. CompileModule(m, j.used, j.got) = Components(m, j.used, given)
    BY DEF CompileModule
  <2> QED
    BY <2>1, <2>2
<1> QED
  BY <1>2, <1>3, <1>4

\* The compile goes on to the next module, or has come to its end.
LEMMA Proceeds ==
  ASSUME KeysTell, NEW j, JobOK(j), j.phase \in Compiles, j.todo # <<>>,
         NEW k, DOMAIN k = JobFields,
         k.seen = j.seen, k.used = j.used, k.todo = Tail(j.todo),
         k.phase = IF Len(j.todo) = 1 THEN "done" ELSE "lookup",
         \A f \in DOMAIN j.got : f \in DOMAIN k.got /\ (f # Head(j.todo) => k.got[f] = j.got[f]),
         Head(j.todo) \in DOMAIN k.got, k.got[Head(j.todo)] = Meaning(Head(j.todo), j.seen)
  PROVE  JobOK(k)
<1> DEFINE order == Order(j.used)
           m == Head(j.todo)
<1>1. PICK n \in Nat : At(j, n)
  BY DEF JobOK
<1>2. n + 1 \in 1..Len(order) /\ m = order[n + 1]
  BY <1>1, ModuleAtHand
<1>3. /\ j.todo \in Seq(Files) /\ Len(j.todo) = Len(order) - n
      /\ \A i \in 1..Len(j.todo) : j.todo[i] = order[n + i]
      /\ \A i \in 1..n : order[i] \in DOMAIN j.got /\ j.got[order[i]] = Meaning(order[i], j.seen)
  BY <1>1 DEF At
<1>4. /\ k.todo \in Seq(Files) /\ Len(k.todo) = Len(j.todo) - 1
      /\ \A i \in 1..Len(k.todo) : k.todo[i] = j.todo[i + 1]
  BY <1>3, HeadTailProperties
<1>5. ASSUME NEW i \in 1..(n + 1)
      PROVE  order[i] \in DOMAIN k.got /\ k.got[order[i]] = Meaning(order[i], j.seen)
  <2>1. CASE order[i] = m
    BY <2>1
  <2>2. CASE order[i] # m
    <3>1. i \in 1..n
      BY <1>2, <2>2
    <3> QED
      BY <1>3, <2>2, <3>1
  <2> QED
    BY <2>1, <2>2
<1>6. Len(j.todo) \in Nat /\ Len(order) \in Nat
  BY <1>2, <1>3
<1>7. At(k, n + 1)
  <2>1. \A i \in 1..Len(k.todo) : k.todo[i] = order[(n + 1) + i]
    <3> SUFFICES ASSUME NEW i \in 1..Len(k.todo) PROVE k.todo[i] = order[(n + 1) + i]
      OBVIOUS
    <3>1. i + 1 \in 1..Len(j.todo) /\ n + (i + 1) = (n + 1) + i
      BY <1>4, <1>6
    <3> QED
      BY <1>3, <1>4, <3>1
  <2> QED
    BY <2>1, <1>2, <1>3, <1>4, <1>5, <1>6 DEF At
<1>8. k.phase = "done" <=> k.todo = <<>>
  <2>1. k.todo = <<>> <=> Len(k.todo) = 0
    BY <1>4, EmptySeq
  <2> QED
    BY <2>1, <1>4, <1>6
<1> QED
  BY <1>7, <1>8 DEF JobOK, Phases, Compiles

\* A compile that is done came to what its sources mean.
LEMMA DoneMeans ==
  ASSUME KeysTell, NEW j, JobOK(j), j.phase = "done"
  PROVE  j.got[Main] = MeaningOf(j.seen)
<1> DEFINE order == Order(j.used)
<1>1. PICK n \in Nat : At(j, n)
  BY DEF JobOK, Compiles
<1>2. j.todo = <<>> /\ j.seen \in Sources /\ j.used \in MayUse(j.seen)
  BY DEF JobOK, Compiles
<1>3. order \in Seq(Files) /\ Len(order) > 0 /\ order[Len(order)] = Main
  BY <1>2, OrderShape
<1>4. n \in 0..Len(order) /\ Len(j.todo) = Len(order) - n
  BY <1>1 DEF At
<1>5. n = Len(order) /\ n \in 1..n
  BY <1>2, <1>3, <1>4
<1> QED
  BY <1>1, <1>3, <1>5 DEF At, MeaningOf

(***************************************************************************)
(* The steps.                                                              *)
(***************************************************************************)

\* An entry keeps its value, or is being written.
Kept ==
  \A slot \in DOMAIN cache \cap DOMAIN cache' :
    cache[slot] = Torn \/ cache'[slot] \in {cache[slot], Torn}

\* What a step of process p does to what the properties are about.  It begins
\* or gives up a compile, or goes on with one that is not done.
Moves(p) ==
  /\ DOMAIN job' = Procs /\ job' = [q \in Procs |-> job'[q]]
  /\ \A q \in Procs \ {p} : job'[q] = job[q]
  /\ JobOK(job'[p])
  /\ files' = files
  /\ CacheOK(cache') /\ Kept
  /\ \/ job'[p].phase \in {"idle", "expand"}
     \/ job[p].phase # "done" /\ job'[p].seen = job[p].seen

LEMMA StartMoves ==
  ASSUME KeysTell, IInv, NEW p \in Procs, Start(p)
  PROVE  Moves(p)
<1>1. job'[p] = [Idle EXCEPT !.phase = "expand", !.seen = files]
  BY DEF Start, IInv
<1>2. JobOK(job'[p]) /\ job'[p].phase = "expand"
  BY <1>1 DEF Idle, JobOK, JobFields, Phases, Compiles, IInv
<1> QED
  BY <1>2 DEF Start, IInv, Moves, Kept

LEMMA CrashMoves ==
  ASSUME KeysTell, IInv, NEW p \in Procs, Crash(p)
  PROVE  Moves(p)
<1>1. job'[p] = Idle
  BY DEF Crash, IInv
<1>2. JobOK(job'[p]) /\ job'[p].phase = "idle"
  BY <1>1 DEF Idle, JobOK, JobFields, Phases, Compiles
<1> QED
  BY <1>2 DEF Crash, IInv, Moves, Kept

LEMMA ExpandMoves ==
  ASSUME KeysTell, IInv, NEW p \in Procs, Expand(p)
  PROVE  Moves(p)
<1> DEFINE j == job[p]
           used == [f \in Files |-> IF f \in ReadOnce(j.seen) THEN j.seen[f] ELSE files[f]]
           k == job'[p]
<1>1. JobOK(j) /\ j.phase = "expand" /\ j.seen \in Sources /\ files \in Sources
  BY DEF Expand, IInv, JobOK
<1>2. used \in MayUse(j.seen)
  <2>1. \A f \in Files : used[f] \in TextsOf[f] /\ used[f] \in Texts
    BY <1>1 DEF Sources
  <2>2. used \in Sources
    BY <2>1 DEF Sources
  <2>3. \A f \in ReadOnce(j.seen) : f \in Files
    <3>1. \A t \in Range(j.seen) : t \in Texts
      BY <1>1 DEF Sources, Range
    <3>2. \A t \in Texts : \A f \in ImportedFiles(t) : f \in Files
      BY SourcesAssumption DEF ImportedFiles
    <3>3. Main \in Files
      BY SourcesAssumption
    <3> QED
      BY <3>1, <3>2, <3>3 DEF ReadOnce
  <2> QED
    BY <2>2, <2>3 DEF MayUse
<1>3. Order(used) \in Seq(Files) /\ Len(Order(used)) > 0
  BY <1>1, <1>2, OrderShape
<1>4. job' = [job EXCEPT ![p].phase = "lookup", ![p].used = used, ![p].todo = Order(used)]
  BY DEF Expand
<1> HIDE DEF used
<1>5. /\ DOMAIN k = JobFields /\ k.phase = "lookup" /\ k.seen = j.seen
      /\ k.used = used /\ k.todo = Order(used)
  BY <1>1, <1>4 DEF IInv, JobOK, JobFields
<1>6. At(k, 0)
  BY <1>3, <1>5 DEF At
<1>7. JobOK(k)
  <2>1. k.todo # <<>>
    BY <1>3, <1>5, EmptySeq
  <2> QED
    BY <1>1, <1>2, <1>5, <1>6, <2>1 DEF JobOK, Phases, Compiles
<1>8. /\ DOMAIN job' = Procs /\ job' = [q \in Procs |-> job'[q]]
      /\ \A q \in Procs \ {p} : job'[q] = job[q]
  BY <1>4 DEF IInv
<1>9. files' = files /\ cache' = cache
  BY DEF Expand
<1> QED
  BY <1>1, <1>5, <1>7, <1>8, <1>9 DEF IInv, Moves, Kept

\* What every export is kept as is what it means, and is taken for it.
LEMMA HitMoves ==
  ASSUME KeysTell, IInv, NEW p \in Procs, Hit(p)
  PROVE  Moves(p)
<1> DEFINE j == job[p]
           m == Module(p)
           ex == ExportsOf(p)
           content == [n \in {ex[i].name : i \in DOMAIN ex} |->
                         cache[Slot(p, CHOOSE e \in Range(ex) : e.name = n)]]
           k == job'[p]
<1>1. /\ JobOK(j) /\ j.phase = "lookup" /\ j.phase \in Compiles /\ j.todo # <<>>
      /\ \A i \in DOMAIN ex : Loads(Slot(p, ex[i]))
      /\ job' = Proceed(p, Put(j.got, m, content))
      /\ files' = files /\ cache' = cache
  BY DEF Hit, IInv, JobOK, Compiles
<1>2. /\ m \in Files /\ j.used[m] = j.seen[m] /\ ex \in Seq(Range(ex))
      /\ Meaning(m, j.seen) = [a \in {ex[i].as : i \in DOMAIN ex} |-> Meaning(m, j.seen)[a]]
      /\ \A e \in Range(ex) : e.as = e.name
  BY <1>1, MeaningShape DEF Module, ExportsOf
<1>3. j.seen \in Sources
  BY <1>1 DEF JobOK
<1>4. \A e \in Range(ex) : cache[Slot(p, e)] = Meaning(m, j.seen)[e.as]
  <2> SUFFICES ASSUME NEW e \in Range(ex) PROVE cache[Slot(p, e)] = Meaning(m, j.seen)[e.as]
    OBVIOUS
  <2>1. Slot(p, e) = EntryOf(m, j.seen, e)
    BY DEF Slot, EntryOf
  <2>2. Loads(Slot(p, e))
    BY <1>1 DEF Range
  <2>3. ex = Exports[j.seen[m]]
    BY <1>2 DEF ExportsOf
  <2> QED
    BY <1>2, <1>3, <2>1, <2>2, <2>3 DEF IInv, CacheOK, Loads
<1>5. content = Meaning(m, j.seen)
  <2>1. \A i \in DOMAIN ex : ex[i] \in Range(ex) /\ ex[i].name = ex[i].as
    BY <1>2 DEF Range
  <2>2. {ex[i].name : i \in DOMAIN ex} = {ex[i].as : i \in DOMAIN ex}
    BY <2>1
  <2>3. ASSUME NEW n \in {ex[i].name : i \in DOMAIN ex}
        PROVE  content[n] = Meaning(m, j.seen)[n]
    <3> DEFINE e == CHOOSE e \in Range(ex) : e.name = n
    <3>1. e \in Range(ex) /\ e.name = n
      BY <2>1, <2>3
    <3>2. content[n] = cache[Slot(p, e)]
      BY <2>3
    <3> HIDE DEF e, content
    <3> QED
      BY <1>2, <1>4, <3>1, <3>2
  <2> QED
    BY <1>2, <2>2, <2>3
<1> HIDE DEF content
<1>6. /\ DOMAIN k = JobFields /\ k.seen = j.seen /\ k.used = j.used /\ k.todo = Tail(j.todo)
      /\ k.phase = IF Len(j.todo) = 1 THEN "done" ELSE "lookup"
      /\ k.got = Put(j.got, m, content)
  BY <1>1 DEF IInv, JobOK, JobFields, Proceed
<1>7. JobOK(k)
  <2>1. /\ m \in DOMAIN k.got /\ k.got[m] = Meaning(m, j.seen)
        /\ \A f \in DOMAIN j.got : f \in DOMAIN k.got /\ (f # m => k.got[f] = j.got[f])
    BY <1>5, <1>6 DEF Put
  <2> QED
    BY <1>1, <1>6, <2>1, Proceeds DEF Module
<1>8. /\ DOMAIN job' = Procs /\ job' = [q \in Procs |-> job'[q]]
      /\ \A q \in Procs \ {p} : job'[q] = job[q]
  BY <1>1 DEF IInv, Proceed
<1> QED
  BY <1>1, <1>6, <1>7, <1>8 DEF IInv, Moves, Kept

LEMMA MissMoves ==
  ASSUME KeysTell, IInv, NEW p \in Procs, Miss(p)
  PROVE  Moves(p)
<1> DEFINE j == job[p]
           m == Module(p)
           ex == ExportsOf(p)
           v == CompileModule(m, j.used, j.got)
           k == job'[p]
<1>1. /\ JobOK(j) /\ j.phase = "lookup" /\ j.phase \in Compiles /\ j.todo # <<>>
      /\ job' = [job EXCEPT ![p].phase = "write", ![p].left = ex,
                            ![p].got = Put(@, Module(p), CompileModule(Module(p), job[p].used, @))]
      /\ files' = files /\ cache' = cache
  BY DEF Miss, IInv, JobOK, Compiles
<1>2. ex \in Seq(Range(ex)) /\ v = Meaning(m, j.seen) /\ ex = Exports[j.used[m]]
  BY <1>1, MeaningShape DEF Module, ExportsOf
<1>3. /\ DOMAIN k = JobFields /\ k.phase = "write" /\ k.seen = j.seen /\ k.used = j.used
      /\ k.todo = j.todo /\ k.got = Put(j.got, m, v) /\ k.left = ex
  BY <1>1 DEF IInv, JobOK, JobFields
<1> HIDE DEF v
<1>4. /\ \A f \in DOMAIN j.got : f \in DOMAIN k.got /\ (f # m => k.got[f] = j.got[f])
      /\ m \in DOMAIN k.got /\ k.got[m] = Meaning(m, j.seen)
  BY <1>2, <1>3 DEF Put
<1>5. ASSUME NEW n \in Nat, At(j, n)
      PROVE  At(k, n)
  <2>1. \A f \in DOMAIN j.got : j.got[f] = Meaning(f, j.seen) => k.got[f] = Meaning(f, j.seen)
    BY <1>4
  <2> QED
    BY <1>3, <1>4, <1>5, <2>1 DEF At
<1>6. JobOK(k)
  BY <1>1, <1>2, <1>3, <1>4, <1>5 DEF JobOK, Phases, Compiles, Module
<1>7. /\ DOMAIN job' = Procs /\ job' = [q \in Procs |-> job'[q]]
      /\ \A q \in Procs \ {p} : job'[q] = job[q]
  BY <1>1 DEF IInv
<1> QED
  BY <1>1, <1>3, <1>6, <1>7 DEF IInv, Moves, Kept

\* A process that writes puts under an export's key what the export means, or
\* tears what is there.
LEMMA Writes ==
  ASSUME KeysTell, IInv, NEW p \in Procs, job[p].phase \in {"write", "entry"},
         NEW e \in Range(ExportsOf(p)),
         NEW v \in {Torn, Meaning(Module(p), job[p].seen)[e.as]},
         cache' = Put(cache, Slot(p, e), v)
  PROVE  CacheOK(cache') /\ Kept
<1> DEFINE j == job[p]
           m == Module(p)
           slot == Slot(p, e)
<1>1. JobOK(j) /\ j.phase \in Compiles /\ j.todo # <<>>
  BY DEF IInv, JobOK, Compiles
<1>2. j.seen \in Sources /\ m \in Files /\ e \in Range(Exports[j.seen[m]])
  BY <1>1, MeaningShape DEF Module, ExportsOf, JobOK
<1>3. slot = EntryOf(m, j.seen, e)
  BY DEF Slot, EntryOf
<1>4. /\ DOMAIN cache' = DOMAIN cache \cup {slot} /\ cache'[slot] = v
      /\ \A other \in DOMAIN cache : other # slot => cache'[other] = cache[other]
  BY DEF Put
<1>5. slot \in DOMAIN cache => cache[slot] \in {Torn, Meaning(m, j.seen)[e.as]}
  BY <1>2, <1>3 DEF IInv, CacheOK
<1>6. Kept
  BY <1>4, <1>5 DEF Kept
<1>7. ASSUME NEW s \in Sources, NEW f \in Files, NEW d \in Range(Exports[s[f]]),
             EntryOf(f, s, d) \in DOMAIN cache'
      PROVE  cache'[EntryOf(f, s, d)] \in {Torn, Meaning(f, s)[d.as]}
  <2>1. CASE EntryOf(f, s, d) = slot
    <3>1. f = m /\ d.as = e.as /\ cache_key(s[m], s) = cache_key(j.seen[m], j.seen)
      BY <1>3, <2>1 DEF EntryOf
    <3>2. Meaning(m, s) = Meaning(m, j.seen)
      BY <1>2, <3>1 DEF KeysTell, KeysAgree
    <3> QED
      BY <1>4, <2>1, <3>1, <3>2
  <2>2. CASE EntryOf(f, s, d) # slot
    BY <1>4, <1>7, <2>2 DEF IInv, CacheOK
  <2> QED
    BY <2>1, <2>2
<1> QED
  BY <1>6, <1>7 DEF CacheOK

LEMMA OpenEntryMoves ==
  ASSUME KeysTell, IInv, NEW p \in Procs, OpenEntry(p)
  PROVE  Moves(p)
<1> DEFINE j == job[p]
           e == Head(j.left)
           k == job'[p]
<1>1. /\ JobOK(j) /\ j.phase = "write" /\ j.left # <<>>
      /\ job' = [job EXCEPT ![p].phase = "entry"]
      /\ files' = files /\ cache' = Put(cache, Slot(p, e), Torn)
  BY DEF OpenEntry, IInv
<1>2. e \in Range(ExportsOf(p))
  BY <1>1, HeadTailProperties DEF JobOK, ExportsOf, Module
<1>3. CacheOK(cache') /\ Kept
  BY <1>1, <1>2, Writes
<1>4. /\ DOMAIN k = JobFields /\ k.phase = "entry" /\ k.seen = j.seen /\ k.used = j.used
      /\ k.todo = j.todo /\ k.got = j.got /\ k.left = j.left
  BY <1>1 DEF IInv, JobOK, JobFields
<1>5. JobOK(k)
  BY <1>1, <1>4 DEF JobOK, Phases, Compiles, At
<1>6. /\ DOMAIN job' = Procs /\ job' = [q \in Procs |-> job'[q]]
      /\ \A q \in Procs \ {p} : job'[q] = job[q]
  BY <1>1 DEF IInv
<1> QED
  BY <1>1, <1>3, <1>4, <1>5, <1>6 DEF IInv, Moves

LEMMA FillEntryMoves ==
  ASSUME KeysTell, IInv, NEW p \in Procs, FillEntry(p)
  PROVE  Moves(p)
<1> DEFINE j == job[p]
           e == Head(j.left)
           v == j.got[Module(p)][e.as]
           k == job'[p]
<1>1. /\ JobOK(j) /\ j.phase = "entry" /\ j.left # <<>>
      /\ job' = [job EXCEPT ![p].phase = "write", ![p].left = Tail(@)]
      /\ files' = files /\ cache' = Put(cache, Slot(p, e), v)
  BY DEF FillEntry, IInv, JobOK
<1>2. e \in Range(ExportsOf(p)) /\ Tail(j.left) \in Seq(Range(ExportsOf(p)))
  BY <1>1, HeadTailProperties DEF JobOK, ExportsOf, Module
<1>3. v = Meaning(Module(p), j.seen)[e.as]
  BY <1>1 DEF JobOK, Module
<1>4. CacheOK(cache') /\ Kept
  BY <1>1, <1>2, <1>3, Writes
<1>5. /\ DOMAIN k = JobFields /\ k.phase = "write" /\ k.seen = j.seen /\ k.used = j.used
      /\ k.todo = j.todo /\ k.got = j.got /\ k.left = Tail(j.left)
  BY <1>1 DEF IInv, JobOK, JobFields
<1>6. JobOK(k)
  BY <1>1, <1>2, <1>5 DEF JobOK, Phases, Compiles, At, ExportsOf, Module
<1>7. /\ DOMAIN job' = Procs /\ job' = [q \in Procs |-> job'[q]]
      /\ \A q \in Procs \ {p} : job'[q] = job[q]
  BY <1>1 DEF IInv
<1> QED
  BY <1>1, <1>4, <1>5, <1>6, <1>7 DEF IInv, Moves

LEMMA CompiledMoves ==
  ASSUME KeysTell, IInv, NEW p \in Procs, Compiled(p)
  PROVE  Moves(p)
<1> DEFINE j == job[p]
           k == job'[p]
<1>1. /\ JobOK(j) /\ j.phase = "write" /\ j.phase \in Compiles /\ j.todo # <<>>
      /\ job' = Proceed(p, j.got)
      /\ files' = files /\ cache' = cache
  BY DEF Compiled, IInv, JobOK, Compiles
<1>2. /\ DOMAIN k = JobFields /\ k.seen = j.seen /\ k.used = j.used /\ k.todo = Tail(j.todo)
      /\ k.phase = IF Len(j.todo) = 1 THEN "done" ELSE "lookup"
      /\ k.got = j.got
  BY <1>1 DEF IInv, JobOK, JobFields, Proceed
<1>3. Head(j.todo) \in DOMAIN j.got /\ j.got[Head(j.todo)] = Meaning(Head(j.todo), j.seen)
  BY <1>1 DEF JobOK
<1>4. JobOK(k)
  BY <1>1, <1>2, <1>3, Proceeds
<1>5. /\ DOMAIN job' = Procs /\ job' = [q \in Procs |-> job'[q]]
      /\ \A q \in Procs \ {p} : job'[q] = job[q]
  BY <1>1 DEF IInv, Proceed
<1> QED
  BY <1>1, <1>2, <1>4, <1>5 DEF IInv, Moves, Kept

\* A source may be edited at any time.
LEMMA EditKeeps ==
  ASSUME IInv, NEW f \in Files, Edit(f)
  PROVE  files' \in Sources /\ UNCHANGED <<cache, outputs, job>>
<1>1. PICK t \in TextsOf[f] : files' = [files EXCEPT ![f] = t]
  BY DEF Edit
<1>2. t \in Texts
  BY DEF Texts
<1> QED
  BY <1>1, <1>2 DEF Edit, IInv, Sources

\* Every step is one of a process, an edit, or a stutter.
LEMMA Steps ==
  ASSUME KeysTell, IInv, [Next]_vars
  PROVE  \/ \E p \in Procs : Moves(p)
         \/ files' \in Sources /\ UNCHANGED <<cache, job>>
<1>1. CASE \E p \in Procs :
             \/ Start(p) \/ Expand(p) \/ Hit(p) \/ Miss(p)
             \/ OpenEntry(p) \/ FillEntry(p) \/ Compiled(p) \/ Crash(p)
  BY <1>1, StartMoves, ExpandMoves, HitMoves, MissMoves, OpenEntryMoves, FillEntryMoves,
     CompiledMoves, CrashMoves
<1>2. CASE \E f \in Files : Edit(f)
  BY <1>2, EditKeeps
<1>3. CASE UNCHANGED vars
  BY <1>3 DEF vars, IInv
<1> QED
  BY <1>1, <1>2, <1>3 DEF Next

LEMMA NextKeeps ==
  ASSUME KeysTell, IInv, [Next]_vars
  PROVE  IInv' /\ Kept
<1>1. ASSUME NEW p \in Procs, Moves(p)
      PROVE  IInv' /\ Kept
  <2>1. \A q \in Procs : JobOK(job'[q])
    BY <1>1 DEF IInv, Moves
  <2> QED
    BY <1>1, <2>1 DEF IInv, Moves
<1>2. ASSUME files' \in Sources, UNCHANGED <<cache, job>>
      PROVE  IInv' /\ Kept
  BY <1>2 DEF IInv, Kept
<1> QED
  BY <1>1, <1>2, Steps

LEMMA Always == KeysTell => (Spec => []IInv)
<1> SUFFICES ASSUME KeysTell PROVE Spec => []IInv
  OBVIOUS
<1>1. IInv /\ [Next]_vars => IInv'
  BY NextKeeps
<1> QED
  BY <1>1, InitHolds, PTL DEF Spec

\* A file has one of its texts, and a process that looks up or writes has a
\* module and an export at hand (compile_pre_forms, compile_module).
THEOREM TypeCorrect == KeysTell => (Spec => []TypeOK)
<1> SUFFICES ASSUME KeysTell PROVE Spec => []TypeOK
  OBVIOUS
<1>1. IInv => TypeOK
  BY DEF IInv, JobOK, TypeOK, Sources, Compiles
<1>2. Spec => []IInv
  BY Always
<1> QED
  BY <1>1, <1>2, PTL

\* No process ever replaces an entry by another value: what is kept under a key
\* is determined by what the key is made from (diskcache.rs).
THEOREM EntriesKept == KeysTell => (Spec => EntriesAgree)
<1> SUFFICES ASSUME KeysTell PROVE Spec => EntriesAgree
  OBVIOUS
<1>1. IInv /\ [Next]_vars =>
        [\A slot \in DOMAIN cache \cap DOMAIN cache' :
           cache[slot] = Torn \/ cache'[slot] \in {cache[slot], Torn}]_vars
  BY NextKeeps DEF Kept
<1>2. Spec => []IInv
  BY Always
<1> QED
  BY <1>1, <1>2, PTL DEF Spec, EntriesAgree

(***************************************************************************)
(* Nothing shows that there is a cache.                                    *)
(***************************************************************************)

LEMMA BeginsPlain == Init => Plain!Init
<1> SUFFICES ASSUME Init PROVE Plain!Init
  OBVIOUS
<1> QED
  BY DEF Init, Plain!Init, Idle

\* Beginning and giving up are a reading; the last step of a compile is the
\* answer; the steps before it change nothing that is seen.
LEMMA Implements ==
  ASSUME KeysTell, IInv, [Next]_vars
  PROVE  [Plain!Next]_(Plain!vars)
<1> DEFINE reading == [p \in Procs |-> job[p].seen]
           answer == [p \in Procs |-> IF job[p].phase = "done" THEN {job[p].got[Main]} ELSE {}]
<1>1. CASE UNCHANGED job
  BY <1>1 DEF Plain!vars
<1>2. ASSUME NEW p \in Procs, Moves(p), job'[p].phase \in {"idle", "expand"}
      PROVE  Plain!Read(p)
  <2>1. /\ \A q \in Procs \ {p} : reading'[q] = reading[q] /\ answer'[q] = answer[q]
        /\ answer'[p] = {}
    BY <1>2 DEF Moves
  <2> QED
    BY <2>1 DEF Plain!Read
<1>3. ASSUME NEW p \in Procs, Moves(p), job[p].phase # "done", job'[p].seen = job[p].seen
      PROVE  Plain!Answer(p) \/ UNCHANGED Plain!vars
  <2>1. UNCHANGED reading /\ answer[p] = {}
    BY <1>3 DEF Moves
  <2>2. \A q \in Procs \ {p} : answer'[q] = answer[q]
    BY <1>3 DEF Moves
  <2>3. CASE job'[p].phase = "done"
    <3>1. job'[p].got[Main] = MeaningOf(reading[p])
      BY <1>3, <2>3, DoneMeans DEF Moves
    <3>2. answer'[p] = {MeaningOf(reading[p])}
      BY <2>3, <3>1
    <3> QED
      BY <2>1, <2>2, <3>2 DEF Plain!Answer
  <2>4. CASE job'[p].phase # "done"
    <3>1. UNCHANGED answer
      BY <2>1, <2>2, <2>4
    <3> QED
      BY <2>1, <3>1 DEF Plain!vars
  <2> QED
    BY <2>3, <2>4
<1> QED
  BY <1>1, <1>2, <1>3, Steps DEF Moves, Plain!Next

\* However compiles, crashes and edits are interleaved, nothing shows that
\* there is a cache: the cached compile implements Compiling.
THEOREM NothingShowsTheCache == KeysTell => (Spec => CacheIsInvisible)
<1> SUFFICES ASSUME KeysTell PROVE Spec => CacheIsInvisible
  OBVIOUS
<1>1. IInv /\ [Next]_vars => [Plain!Next]_(Plain!vars)
  BY Implements
<1>2. Spec => []IInv
  BY Always
<1> QED
  BY <1>1, <1>2, BeginsPlain, PTL DEF Spec, CacheIsInvisible, Plain!Spec
=============================================================================
