-------------------------- MODULE ObjectCacheProofs --------------------------
(***************************************************************************)
(* However many objects Javascript holds, and however small the cache: as  *)
(* long as the counter of ids has not come around, what is found for an    *)
(* object is what its content says.                                        *)
(***************************************************************************)
EXTENDS ObjectCache, SequenceTheorems, TLAPS

Contents == {Hex(v) : v \in SExps}
Ids == 0..(Half - 1)

\* A cache, on its own.
CacheType(c) ==
  /\ c = [next_id |-> c.next_id, data |-> c.data, order |-> c.order]
  /\ c.next_id \in Nat
  /\ DOMAIN c.data \subseteq Ids /\ c.data \in [DOMAIN c.data -> SExps]
  /\ c.order \in Seq(Ids) /\ Len(c.order) <= cache_length + 1
  /\ \A k \in DOMAIN c.data : \E i \in 1..Len(c.order) : c.order[i] = k

\* The objects held: an id for each number the counter has given out.
ObjectsType(c, objs) ==
  /\ \A o \in objs :
       /\ o.serial \in 0..(c.next_id - 1)
       /\ o.id = get_next_id(o.serial)
       /\ o.content \in Contents
  /\ \A o, p \in objs : o.serial = p.serial => o = p

\* Before the counter comes around: a value is cached under an id that was
\* taken, and is the content of the object that has it.
Coherent(c, objs) ==
  c.next_id <= 2 * Half =>
    /\ DOMAIN c.data \subseteq 0..(c.next_id - 1)
    /\ \A o \in objs : o.id \in DOMAIN c.data => Hex(c.data[o.id]) = o.content

Good(c, objs) == CacheType(c) /\ ObjectsType(c, objs) /\ Coherent(c, objs)

IInv ==
  /\ Good(cache, objects)
  /\ cache.next_id <= MaxIds
  /\ cache.next_id <= 2 * Half => \A a \in answer : Hex(a.value) = a.object.content

\* The ids: a number below 2 * Half is kept or goes below zero, so that no two
\* get the same id.
LEMMA IdsAreSigned ==
  ASSUME NEW n \in Nat
  PROVE  get_next_id(n) \in (-Half)..(Half - 1)
<1>1. 2 * Half \in Nat /\ 2 * Half > 0 /\ Half \in Nat
  BY NumbersAssumption
<1>2. n % (2 * Half) \in 0..(2 * Half - 1)
  BY <1>1
<1> QED
  BY <1>1, <1>2 DEF get_next_id

LEMMA FirstIds ==
  ASSUME NEW n \in Nat, n < 2 * Half
  PROVE  get_next_id(n) = IF n < Half THEN n ELSE n - 2 * Half
<1>1. 2 * Half \in Nat /\ 2 * Half > 0
  BY NumbersAssumption
<1>2. n % (2 * Half) = n
  BY <1>1
<1> QED
  BY <1>2 DEF get_next_id

LEMMA FirstIdsDiffer ==
  ASSUME NEW m \in Nat, NEW n \in Nat, m < 2 * Half, n < 2 * Half, get_next_id(m) = get_next_id(n)
  PROVE  m = n
BY FirstIds, NumbersAssumption

(***************************************************************************)
(* The operations on the cache.                                            *)
(***************************************************************************)

\* An entry is made, for an id that is taken.
LEMMA EntryKeepsType ==
  ASSUME NEW c, CacheType(c), NEW id \in Int, id < Half, NEW v \in SExps
  PROVE  LET n == create_or_update_cache_entry(c, id, v)
         IN /\ CacheType(n) /\ n.next_id = c.next_id
            /\ id < 0 => n = c
            /\ id >= 0 => /\ n.data[id] = v /\ DOMAIN n.data \subseteq DOMAIN c.data \cup {id}
                          /\ \A k \in DOMAIN n.data : k # id => k \in DOMAIN c.data /\ n.data[k] = c.data[k]
<1> DEFINE full == Len(c.order) > cache_length
           kept == IF full THEN Restrict(c.data, DOMAIN c.data \ {c.order[1]}) ELSE c.data
           order == IF full THEN Tail(c.order) ELSE c.order
           n == create_or_update_cache_entry(c, id, v)
<1>1. CASE id < 0
  BY <1>1 DEF create_or_update_cache_entry
<1>2. CASE id >= 0
  <2>1. n = [c EXCEPT !.data = Store(kept, id, v), !.order = Append(order, id)]
    BY <1>2 DEF create_or_update_cache_entry
  <2>2. n = [next_id |-> c.next_id, data |-> Store(kept, id, v), order |-> Append(order, id)]
    BY <2>1 DEF CacheType
  <2>3. DOMAIN kept \subseteq DOMAIN c.data /\ \A k \in DOMAIN kept : kept[k] = c.data[k]
    BY DEF Restrict
  <2>4. order \in Seq(Ids)
    <3>1. c.order \in Seq(Ids)
      BY DEF CacheType
    <3>2. CASE full
      <4>1. c.order # <<>>
        <5>1. Len(<<>>) = 0
          OBVIOUS
        <5> QED
          BY <5>1, <3>2, NumbersAssumption
      <4> QED
        BY <3>1, <3>2, <4>1, HeadTailProperties
    <3> QED
      BY <3>1, <3>2
  <2>5. id \in Ids
    BY <1>2, NumbersAssumption DEF Ids
  <2>6. Append(order, id) \in Seq(Ids)
    BY <2>4, <2>5, AppendProperties
  <2>6a. /\ Len(order) <= cache_length
         /\ \A k \in DOMAIN kept : \E i \in 1..Len(order) : order[i] = k
    <3>1. /\ c.order \in Seq(Ids) /\ Len(c.order) \in Nat /\ Len(c.order) <= cache_length + 1
          /\ \A k \in DOMAIN c.data : \E i \in 1..Len(c.order) : c.order[i] = k
      BY DEF CacheType
    <3>2. CASE full
      <4>1. c.order # <<>>
        <5>1. Len(<<>>) = 0
          OBVIOUS
        <5> QED
          BY <5>1, <3>2, NumbersAssumption
      <4>2. Len(order) = Len(c.order) - 1 /\ \A i \in 1..Len(order) : order[i] = c.order[i + 1]
        BY <3>1, <3>2, <4>1, HeadTailProperties
      <4>3. DOMAIN kept = DOMAIN c.data \ {c.order[1]}
        BY <3>2 DEF Restrict
      <4>4. ASSUME NEW k \in DOMAIN kept PROVE \E i \in 1..Len(order) : order[i] = k
        <5>1. PICK i \in 1..Len(c.order) : c.order[i] = k
          BY <3>1, <4>3
        <5>2. i # 1
          BY <4>3, <5>1
        <5>3. i - 1 \in 1..Len(order) /\ order[i - 1] = k
          BY <3>1, <4>2, <5>1, <5>2
        <5> QED
          BY <5>3
      <4>5. Len(order) <= cache_length
        BY <3>1, <4>2, NumbersAssumption
      <4> QED
        BY <4>4, <4>5
    <3>3. CASE ~full
      BY <3>1, <3>3, NumbersAssumption
    <3> QED
      BY <3>2, <3>3
  <2> HIDE DEF kept, order, n
  <2>7. /\ DOMAIN Store(kept, id, v) = DOMAIN kept \cup {id}
        /\ Store(kept, id, v)[id] = v
        /\ \A k \in DOMAIN kept : k # id => Store(kept, id, v)[k] = c.data[k]
        /\ Store(kept, id, v) = [k \in DOMAIN Store(kept, id, v) |-> Store(kept, id, v)[k]]
    BY <2>3 DEF Store
  <2>8. \A k \in DOMAIN Store(kept, id, v) : Store(kept, id, v)[k] \in SExps
    BY <2>3, <2>7 DEF CacheType
  <2>9. Store(kept, id, v) \in [DOMAIN Store(kept, id, v) -> SExps]
    BY <2>7, <2>8
  <2>9a. /\ Len(Append(order, id)) <= cache_length + 1
         /\ \A k \in DOMAIN n.data : \E i \in 1..Len(Append(order, id)) : Append(order, id)[i] = k
    <3>1. /\ Len(order) \in Nat /\ Len(Append(order, id)) = Len(order) + 1
          /\ \A i \in 1..Len(order) : Append(order, id)[i] = order[i]
          /\ Append(order, id)[Len(order) + 1] = id
      BY <2>4, <2>5, AppendProperties
    <3>2. DOMAIN n.data = DOMAIN kept \cup {id}
      BY <2>2, <2>7
    <3> QED
      BY <2>6a, <3>1, <3>2, NumbersAssumption
  <2>10. CacheType(n)
    BY <2>2, <2>3, <2>5, <2>6, <2>7, <2>9, <2>9a DEF CacheType
  <2>11. /\ n.next_id = c.next_id /\ n.data[id] = v
         /\ DOMAIN n.data \subseteq DOMAIN c.data \cup {id}
         /\ \A k \in DOMAIN n.data : k # id => k \in DOMAIN c.data /\ n.data[k] = c.data[k]
    BY <2>2, <2>3, <2>7
  <2> QED
    BY <1>2, <2>10, <2>11 DEF n
<1> QED
  BY <1>1, <1>2

\* What an object is looked up as.  Its own entry is made if there is none.
LEMMA FindKeeps ==
  ASSUME NEW c, NEW objs, Good(c, objs), NEW o \in objs
  PROVE  LET f == find_cached_sexp(c, o)
         IN /\ Good(f.cache, objs) /\ f.cache.next_id = c.next_id
            /\ f.value \in SExps
            /\ c.next_id <= 2 * Half => Hex(f.value) = o.content
<1> DEFINE f == find_cached_sexp(c, o)
           parsed == Parsed(o.content)
           n == create_or_update_cache_entry(c, o.id, parsed)
<1>1. /\ parsed \in SExps /\ Hex(parsed) = o.content
      /\ o.serial \in Nat /\ o.serial < c.next_id /\ o.id = get_next_id(o.serial)
      /\ c.next_id \in Nat
  BY ValuesAssumption DEF Good, ObjectsType, CacheType, Contents
<1>2. CASE o.content = Hex(EmptyValue)
  BY <1>2, ValuesAssumption DEF find_cached_sexp
<1>3. CASE o.content # Hex(EmptyValue) /\ o.id \in DOMAIN c.data
  <2>1. f = [cache |-> c, value |-> c.data[o.id]]
    BY <1>3 DEF find_cached_sexp
  <2>2. c.data[o.id] \in SExps
    BY <1>3 DEF Good, CacheType
  <2> QED
    BY <1>3, <2>1, <2>2 DEF Good, Coherent
<1>4. CASE o.content # Hex(EmptyValue) /\ o.id \notin DOMAIN c.data
  <2>1. f = [cache |-> n, value |-> parsed]
    BY <1>4 DEF find_cached_sexp
  <2>2. o.id \in Int /\ o.id < Half
    BY <1>1, IdsAreSigned, NumbersAssumption
  <2>3. /\ CacheType(n) /\ n.next_id = c.next_id
        /\ o.id < 0 => n = c
        /\ o.id >= 0 => /\ n.data[o.id] = parsed /\ DOMAIN n.data \subseteq DOMAIN c.data \cup {o.id}
                        /\ \A k \in DOMAIN n.data : k # o.id => k \in DOMAIN c.data /\ n.data[k] = c.data[k]
    BY <1>1, <2>2, EntryKeepsType DEF Good
  <2> HIDE DEF n, parsed
  <2>4. ObjectsType(n, objs)
    BY <2>3 DEF Good, ObjectsType
  <2>5. Coherent(n, objs)
    <3>1. CASE o.id < 0
      BY <3>1, <2>3 DEF Good
    <3>2. CASE o.id >= 0 /\ c.next_id <= 2 * Half
      <4>1. o.serial < 2 * Half
        BY <1>1, <3>2, NumbersAssumption
      <4>2. o.id = o.serial
        BY <1>1, <3>2, <4>1, FirstIds, NumbersAssumption
      <4>3. DOMAIN n.data \subseteq 0..(c.next_id - 1)
        BY <1>1, <2>3, <3>2, <4>2 DEF Good, Coherent
      <4>4. ASSUME NEW p \in objs, p.id \in DOMAIN n.data
            PROVE  Hex(n.data[p.id]) = p.content
        <5>1. CASE p.id = o.id
          <6>1. /\ p.serial \in Nat /\ p.serial < 2 * Half /\ p.id = get_next_id(p.serial)
            BY <1>1, <3>2, NumbersAssumption DEF Good, ObjectsType
          <6>2. p.serial = o.serial
            BY <1>1, <4>1, <5>1, <6>1, FirstIdsDiffer
          <6>3. p = o
            BY <6>2 DEF Good, ObjectsType
          <6> QED
            BY <6>3, <1>1, <2>3, <3>2
        <5>2. CASE p.id # o.id
          BY <4>4, <5>2, <2>3, <3>2 DEF Good, Coherent
        <5> QED
          BY <5>1, <5>2
      <4> QED
        BY <4>3, <4>4, <2>3 DEF Coherent
    <3> QED
      BY <3>1, <3>2, <2>2, <2>3 DEF Coherent
  <2>6. Good(n, objs)
    BY <2>3, <2>4, <2>5 DEF Good
  <2> QED
    BY <1>1, <2>1, <2>3, <2>6
<1> QED
  BY <1>2, <1>3, <1>4

\* An id is taken for a new object: it is nobody else's.
LEMMA TakenKeeps ==
  ASSUME NEW c, NEW objs, Good(c, objs), NEW v \in SExps
  PROVE  LET o == Object(c, Hex(v))
             t == Taken(c)
         IN /\ Good(t, objs \cup {o})
            /\ t.next_id = c.next_id + 1
            /\ o = [id |-> get_next_id(c.next_id), content |-> Hex(v), serial |-> c.next_id]
            /\ o.id \in Int /\ o.id < Half /\ c.next_id \in Nat
<1> DEFINE o == Object(c, Hex(v))
           t == Taken(c)
<1>1. c.next_id \in Nat /\ c = [next_id |-> c.next_id, data |-> c.data, order |-> c.order]
  BY DEF Good, CacheType
<1>2. t = [next_id |-> c.next_id + 1, data |-> c.data, order |-> c.order]
  BY <1>1 DEF Taken
<1>3. o = [id |-> get_next_id(c.next_id), content |-> Hex(v), serial |-> c.next_id]
  BY DEF Object
<1>4. o.id \in (-Half)..(Half - 1)
  BY <1>1, <1>3, IdsAreSigned
<1> HIDE DEF o, t
<1>5. CacheType(t)
  BY <1>1, <1>2 DEF Good, CacheType
<1>6. ObjectsType(t, objs \cup {o})
  <2>1. \A p \in objs : p.serial \in 0..(c.next_id - 1) /\ p.serial # o.serial
    BY <1>1, <1>3 DEF Good, ObjectsType
  <2>2. o.content \in Contents
    BY <1>3 DEF Contents
  <2> QED
    BY <1>1, <1>2, <1>3, <2>1, <2>2 DEF Good, ObjectsType
<1>7. Coherent(t, objs \cup {o})
  <2> SUFFICES ASSUME c.next_id + 1 <= 2 * Half
               PROVE  /\ DOMAIN c.data \subseteq 0..c.next_id
                      /\ \A p \in objs \cup {o} : p.id \in DOMAIN c.data => Hex(c.data[p.id]) = p.content
    BY <1>1, <1>2 DEF Coherent
  <2>1. /\ DOMAIN c.data \subseteq 0..(c.next_id - 1)
        /\ \A p \in objs : p.id \in DOMAIN c.data => Hex(c.data[p.id]) = p.content
    BY <1>1, NumbersAssumption DEF Good, Coherent
  <2>2. o.id = c.next_id \/ o.id < 0
    BY <1>1, <1>3, FirstIds, NumbersAssumption
  <2>3. o.id \notin DOMAIN c.data
    BY <1>1, <2>1, <2>2
  <2> QED
    BY <1>1, <2>1, <2>3
<1> QED
  BY <1>1, <1>2, <1>3, <1>4, <1>5, <1>6, <1>7, NumbersAssumption DEF Good, o, t

\* An object for a value, cached as it is made.
LEMMA CreatedKeeps ==
  ASSUME NEW c, NEW objs, Good(c, objs), NEW v \in SExps
  PROVE  LET n == Created(c, v)
         IN /\ Good(n.cache, objs \cup {n.object})
            /\ n.cache.next_id = c.next_id + 1
<1> DEFINE o == Object(c, Hex(v))
           t == Taken(c)
           n == create_or_update_cache_entry(t, o.id, v)
<1>1. /\ Good(t, objs \cup {o}) /\ t.next_id = c.next_id + 1
      /\ o = [id |-> get_next_id(c.next_id), content |-> Hex(v), serial |-> c.next_id]
      /\ o.id \in Int /\ o.id < Half /\ c.next_id \in Nat
  BY TakenKeeps
<1>2. Created(c, v) = [cache |-> n, object |-> o]
  BY <1>1 DEF Created
<1> HIDE DEF o, t
<1>3. /\ CacheType(n) /\ n.next_id = t.next_id
      /\ o.id < 0 => n = t
      /\ o.id >= 0 => /\ n.data[o.id] = v /\ DOMAIN n.data \subseteq DOMAIN t.data \cup {o.id}
                      /\ \A k \in DOMAIN n.data : k # o.id => k \in DOMAIN t.data /\ n.data[k] = t.data[k]
  BY <1>1, EntryKeepsType DEF Good
<1> HIDE DEF n
<1>4. ObjectsType(n, objs \cup {o})
  BY <1>1, <1>3 DEF Good, ObjectsType
<1>5. Coherent(n, objs \cup {o})
  <2>1. CASE o.id < 0
    BY <2>1, <1>1, <1>3 DEF Good
  <2>2. CASE o.id >= 0 /\ t.next_id <= 2 * Half
    <3>1. c.next_id < 2 * Half
      BY <1>1, <2>2, NumbersAssumption
    <3>2. o.id = c.next_id
      BY <1>1, <2>2, <3>1, FirstIds, NumbersAssumption
    <3>3. DOMAIN n.data \subseteq 0..(t.next_id - 1)
      BY <1>1, <1>3, <2>2, <3>2 DEF Good, Coherent
    <3>4. ASSUME NEW p \in objs \cup {o}, p.id \in DOMAIN n.data
          PROVE  Hex(n.data[p.id]) = p.content
      <4>1. CASE p.id = o.id
        <5>1. /\ p.serial \in Nat /\ p.serial < 2 * Half /\ p.id = get_next_id(p.serial)
          BY <1>1, <2>2, NumbersAssumption DEF Good, ObjectsType
        <5>2. p.serial = o.serial
          BY <1>1, <3>1, <4>1, <5>1, FirstIdsDiffer
        <5>3. p = o
          BY <5>2, <1>1 DEF Good, ObjectsType
        <5> QED
          BY <5>3, <1>1, <1>3, <2>2
      <4>2. CASE p.id # o.id
        BY <3>4, <4>2, <1>1, <1>3, <2>2 DEF Good, Coherent
      <4> QED
        BY <4>1, <4>2
    <3> QED
      BY <3>3, <3>4, <1>3 DEF Coherent
  <2> QED
    BY <2>1, <2>2, <1>1, <1>3 DEF Coherent
<1> QED
  BY <1>1, <1>2, <1>3, <1>4, <1>5 DEF Good

(***************************************************************************)
(* The steps.                                                              *)
(***************************************************************************)
LEMMA InitHolds == Init => IInv
<1> SUFFICES ASSUME Init PROVE IInv
  OBVIOUS
<1>1. /\ cache = [next_id |-> 0, data |-> <<>>, order |-> <<>>] /\ objects = {} /\ answer = {}
  BY DEF Init
<1>2. DOMAIN cache.data = {} /\ cache.order \in Seq(Ids)
  BY <1>1
<1>3. cache.data \in [DOMAIN cache.data -> SExps]
  BY <1>1, <1>2
<1> QED
  BY <1>1, <1>2, <1>3, NumbersAssumption DEF IInv, Good, CacheType, ObjectsType, Coherent

LEMMA NextKeeps == IInv /\ [Next]_vars => IInv'
<1> SUFFICES ASSUME IInv, [Next]_vars PROVE IInv'
  OBVIOUS
<1>1. Good(cache, objects) /\ cache.next_id \in Nat /\ cache.next_id <= MaxIds
  BY DEF IInv, Good, CacheType
<1>2. ASSUME NEW v \in Values, To(v)
      PROVE  IInv'
  <2>1. v \in SExps
    BY <1>2, ValuesAssumption
  <2>2. /\ Good(Created(cache, v).cache, objects \cup {Created(cache, v).object})
        /\ Created(cache, v).cache.next_id = cache.next_id + 1
    BY <1>1, <2>1, CreatedKeeps
  <2>3. /\ cache' = Created(cache, v).cache /\ objects' = objects \cup {Created(cache, v).object}
        /\ answer' = {} /\ cache.next_id + 1 <= MaxIds
    BY <1>2 DEF To, Room
  <2> QED
    BY <2>2, <2>3 DEF IInv
<1>3. ASSUME NEW v \in Values, FromHex(Hex(v))
      PROVE  IInv'
  <2> DEFINE o == Object(cache, Hex(v))
             f == find_cached_sexp(Taken(cache), o)
  <2>1. v \in SExps
    BY <1>3, ValuesAssumption
  <2>2. Good(Taken(cache), objects \cup {o}) /\ Taken(cache).next_id = cache.next_id + 1
    BY <1>1, <2>1, TakenKeeps
  <2>3. cache' = f.cache /\ objects' = objects \cup {o} /\ answer' = {} /\ cache.next_id + 1 <= MaxIds
    BY <1>3 DEF FromHex, Room
  <2> HIDE DEF o
  <2>4. Good(f.cache, objects \cup {o}) /\ f.cache.next_id = cache.next_id + 1
    BY <2>2, FindKeeps
  <2> QED
    BY <2>3, <2>4 DEF IInv
<1>4. ASSUME NEW o \in objects
      PROVE  LET f == find_cached_sexp(cache, o)
             IN /\ Good(f.cache, objects) /\ f.cache.next_id = cache.next_id
                /\ f.value \in SExps
                /\ cache.next_id <= 2 * Half => Hex(f.value) = o.content
  BY <1>1, <1>4, FindKeeps
<1>5. ASSUME NEW o \in objects, Read(o)
      PROVE  IInv'
  <2> DEFINE f == find_cached_sexp(cache, o)
  <2>1. cache' = f.cache /\ answer' = {[object |-> o, value |-> f.value]} /\ objects' = objects
    BY <1>5 DEF Read
  <2> HIDE DEF f
  <2>2. /\ Good(f.cache, objects) /\ f.cache.next_id = cache.next_id
        /\ cache.next_id <= 2 * Half => Hex(f.value) = o.content
    BY <1>4 DEF f
  <2> QED
    BY <1>1, <2>1, <2>2 DEF IInv
<1>6. ASSUME NEW o \in objects, NEW left \in BOOLEAN, Part(o, left)
      PROVE  IInv'
  <2> DEFINE f == find_cached_sexp(cache, o)
             part == IF left THEN LeftOf(f.value) ELSE RightOf(f.value)
             new == Created(f.cache, part)
  <2>1. /\ answer' = {[object |-> o, value |-> f.value]} /\ cache.next_id + 1 <= MaxIds
        /\ IF IsPair(f.value)
           THEN cache' = new.cache /\ objects' = objects \cup {new.object}
           ELSE cache' = f.cache /\ objects' = objects
    BY <1>6 DEF Part, Room
  <2>2. /\ Good(f.cache, objects) /\ f.cache.next_id = cache.next_id /\ f.value \in SExps
        /\ cache.next_id <= 2 * Half => Hex(f.value) = o.content
    BY <1>4
  <2>3. IsPair(f.value) => part \in SExps
    BY <2>2, ValuesAssumption
  <2> HIDE DEF f, part
  <2>4. IsPair(f.value) => /\ Good(new.cache, objects \cup {new.object})
                           /\ new.cache.next_id = cache.next_id + 1
    BY <2>2, <2>3, CreatedKeeps
  <2> HIDE DEF new
  <2>5. \A a \in answer' : cache.next_id <= 2 * Half => Hex(a.value) = a.object.content
    BY <2>1, <2>2
  <2>6. CASE IsPair(f.value)
    <3>1. Good(cache', objects') /\ cache'.next_id = cache.next_id + 1
      BY <2>6, <2>1, <2>4
    <3>2. cache'.next_id <= 2 * Half => cache.next_id <= 2 * Half
      BY <3>1, <1>1, NumbersAssumption
    <3> QED
      BY <3>1, <3>2, <2>1, <2>5 DEF IInv
  <2>7. CASE ~IsPair(f.value)
    BY <2>7, <2>1, <2>2, <2>5, <1>1 DEF IInv
  <2> QED
    BY <2>6, <2>7
<1>7. ASSUME NEW o \in objects, AsPair(o)
      PROVE  IInv'
  <2> DEFINE f == find_cached_sexp(cache, o)
             a == Created(f.cache, LeftOf(f.value))
             b == Created(a.cache, RightOf(f.value))
  <2>1. /\ answer' = {[object |-> o, value |-> f.value]} /\ cache.next_id + 2 <= MaxIds
        /\ IF IsPair(f.value)
           THEN cache' = b.cache /\ objects' = objects \cup {a.object, b.object}
           ELSE cache' = f.cache /\ objects' = objects
    BY <1>7 DEF AsPair, Room
  <2>2. /\ Good(f.cache, objects) /\ f.cache.next_id = cache.next_id /\ f.value \in SExps
        /\ cache.next_id <= 2 * Half => Hex(f.value) = o.content
    BY <1>4
  <2> HIDE DEF f
  <2>3. IsPair(f.value) => LeftOf(f.value) \in SExps /\ RightOf(f.value) \in SExps
    BY <2>2, ValuesAssumption
  <2>4. IsPair(f.value) => /\ Good(a.cache, objects \cup {a.object})
                           /\ a.cache.next_id = cache.next_id + 1
    BY <2>2, <2>3, CreatedKeeps
  <2> HIDE DEF a
  <2>5. IsPair(f.value) => /\ Good(b.cache, (objects \cup {a.object}) \cup {b.object})
                           /\ b.cache.next_id = (cache.next_id + 1) + 1
    BY <2>3, <2>4, CreatedKeeps
  <2> HIDE DEF b
  <2>6. (objects \cup {a.object}) \cup {b.object} = objects \cup {a.object, b.object}
    OBVIOUS
  <2>7. \A x \in answer' : cache.next_id <= 2 * Half => Hex(x.value) = x.object.content
    BY <2>1, <2>2
  <2>8. CASE IsPair(f.value)
    <3>1. Good(cache', objects') /\ cache'.next_id = (cache.next_id + 1) + 1
      BY <2>8, <2>1, <2>5, <2>6
    <3>2. /\ cache'.next_id <= MaxIds
          /\ cache'.next_id <= 2 * Half => cache.next_id <= 2 * Half
      BY <3>1, <2>1, <1>1, NumbersAssumption
    <3> QED
      BY <3>1, <3>2, <2>7 DEF IInv
  <2>9. CASE ~IsPair(f.value)
    BY <2>9, <2>1, <2>2, <2>7, <1>1 DEF IInv
  <2> QED
    BY <2>8, <2>9
<1>8. ASSUME NEW o \in objects, NEW p \in objects
      PROVE  LET f == find_cached_sexp(cache, o)
                 g == find_cached_sexp(f.cache, p)
             IN /\ Good(g.cache, objects) /\ g.cache.next_id = cache.next_id
                /\ cache.next_id <= 2 * Half =>
                     \A a \in {[object |-> o, value |-> f.value], [object |-> p, value |-> g.value]} :
                       Hex(a.value) = a.object.content
  <2> DEFINE f == find_cached_sexp(cache, o)
             g == find_cached_sexp(f.cache, p)
  <2>1. /\ Good(f.cache, objects) /\ f.cache.next_id = cache.next_id
        /\ cache.next_id <= 2 * Half => Hex(f.value) = o.content
    BY <1>4
  <2> HIDE DEF f
  <2>2. /\ Good(g.cache, objects) /\ g.cache.next_id = f.cache.next_id
        /\ f.cache.next_id <= 2 * Half => Hex(g.value) = p.content
    BY <2>1, FindKeeps
  <2> HIDE DEF g
  <2>3. /\ Good(g.cache, objects) /\ g.cache.next_id = cache.next_id
        /\ cache.next_id <= 2 * Half =>
             \A a \in {[object |-> o, value |-> f.value], [object |-> p, value |-> g.value]} :
               Hex(a.value) = a.object.content
    BY <2>1, <2>2
  <2> QED
    BY <2>3 DEF f, g
<1>9. ASSUME NEW o \in objects, NEW p \in objects, ConsOf(o, p)
      PROVE  IInv'
  <2> DEFINE f == find_cached_sexp(cache, o)
             g == find_cached_sexp(f.cache, p)
             v == PairOf(f.value, g.value)
             new == Created(g.cache, v)
  <2>1. /\ cache' = new.cache /\ objects' = objects \cup {new.object}
        /\ answer' = {[object |-> o, value |-> f.value], [object |-> p, value |-> g.value]}
        /\ cache.next_id + 1 <= MaxIds /\ v \in SExps
    BY <1>9 DEF ConsOf, Room
  <2>2. /\ Good(g.cache, objects) /\ g.cache.next_id = cache.next_id
        /\ cache.next_id <= 2 * Half =>
             \A a \in {[object |-> o, value |-> f.value], [object |-> p, value |-> g.value]} :
               Hex(a.value) = a.object.content
    BY <1>8
  <2> HIDE DEF g, v
  <2>3. Good(new.cache, objects \cup {new.object}) /\ new.cache.next_id = cache.next_id + 1
    BY <2>1, <2>2, CreatedKeeps
  <2> HIDE DEF new, f
  <2> QED
    BY <2>1, <2>2, <2>3, <1>1, NumbersAssumption DEF IInv
<1>10. ASSUME NEW o \in objects, NEW p \in objects, EqualTo(o, p)
       PROVE  IInv'
  <2> DEFINE f == find_cached_sexp(cache, o)
             g == find_cached_sexp(f.cache, p)
  <2>1. /\ cache' = g.cache /\ objects' = objects
        /\ answer' = {[object |-> o, value |-> f.value], [object |-> p, value |-> g.value]}
    BY <1>10 DEF EqualTo
  <2>2. /\ Good(g.cache, objects) /\ g.cache.next_id = cache.next_id
        /\ cache.next_id <= 2 * Half =>
             \A a \in {[object |-> o, value |-> f.value], [object |-> p, value |-> g.value]} :
               Hex(a.value) = a.object.content
    BY <1>8
  <2> HIDE DEF f, g
  <2> QED
    BY <2>1, <2>2, <1>1 DEF IInv
<1>11. ASSUME NEW o \in objects, Forget(o)
       PROVE  IInv'
  <2>1. objects' = objects \ {o} /\ answer' = {} /\ cache' = cache
    BY <1>11 DEF Forget
  <2> QED
    BY <2>1, <1>1 DEF IInv, Good, ObjectsType, Coherent
<1>12. CASE UNCHANGED vars
  BY <1>12 DEF vars, IInv
<1> QED
  BY <1>2, <1>3, <1>5, <1>6, <1>7, <1>9, <1>10, <1>11, <1>12 DEF Next

LEMMA Inductive == Spec => []IInv
  BY InitHolds, NextKeeps, PTL DEF Spec

\* The types of all states, around the counter and beyond.
THEOREM CacheTypeCorrect == Spec => []TypeOK
<1>1. IInv => TypeOK
  <2> SUFFICES ASSUME IInv PROVE TypeOK
    OBVIOUS
  <2>1. \A o \in objects : o.id \in (-Half)..(Half - 1) /\ o.serial < cache.next_id
    BY IdsAreSigned DEF IInv, Good, ObjectsType, CacheType
  <2>2. CacheType(cache) /\ cache.next_id \in Nat /\ cache.next_id <= MaxIds
    BY DEF IInv, Good, CacheType
  <2>3. DOMAIN cache.data \subseteq {cache.order[i] : i \in 1..Len(cache.order)}
    BY <2>2 DEF CacheType
  <2>4. cache.order \in Seq(0..(Half - 1)) /\ Len(cache.order) <= cache_length + 1
    BY <2>2 DEF CacheType, Ids
  <2> QED
    BY <2>1, <2>2, <2>3, <2>4, NumbersAssumption DEF TypeOK
<1> QED
  BY Inductive, <1>1, PTL

\* What a method finds for an object is written as the object's content,
\* whatever was cached, pushed out and cached again under its id (objects.rs
\* find_cached_sexp), for as long as the ids are fresh ("Cache hints are never
\* reused", objects.rs:319).
THEOREM ContentIsFound == Spec => []FindsTheContent
<1>1. IInv => FindsTheContent
  BY DEF IInv, Good, Coherent, FindsTheContent
<1> QED
  BY Inductive, <1>1, PTL
=============================================================================
