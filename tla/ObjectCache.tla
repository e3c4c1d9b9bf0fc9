----------------------------- MODULE ObjectCache -----------------------------
(***************************************************************************)
(* wasm/src/objects.rs: Program objects given to Javascript.  An object    *)
(* carries its value in hex (content) and the id of an entry in a cache of *)
(* parsed values.  The cache is a queue: the entry made first goes first.  *)
(* Ids come from a 32 bit counter (api.rs get_next_id) read as signed;     *)
(* nothing is cached under a negative id.                                  *)
(***************************************************************************)
EXTENDS Integers, Sequences, FiniteSets, Functions

CONSTANTS
  SExps,           \* bound: the values in play
  Values,          \* those of them Program.to is called with
  Hex(_),          \* sexp_to_stream of convert_to_clvm_rs
  Parsed(_),       \* convert_from_clvm_rs of sexp_from_stream
  EmptyValue, IsPair(_), LeftOf(_), RightOf(_), PairOf(_, _),    \* external: SExp
  cache_length,    \* DEFAULT_CACHE_ENTRIES, a number
  Half,            \* half the range of the counter: 2^31, not 0
  MaxIds,          \* bound: how many ids are taken
  MaxObjects       \* bound: how many objects Javascript holds on to

ASSUME NumbersAssumption ==
  cache_length \in Nat /\ Half \in Nat \ {0} /\ MaxIds \in Nat

\* What is written is read as a value that is written the same
\* (WhatIsWrittenIsRead of Serialize), though it need not be the same value:
\* the number 0 comes back as nil.
ASSUME ValuesAssumption ==
  /\ Values \subseteq SExps /\ EmptyValue \in SExps
  /\ \A v \in SExps :
       /\ Parsed(Hex(v)) \in SExps
       /\ Hex(Parsed(Hex(v))) = Hex(v)
       /\ IsPair(v) => LeftOf(v) \in SExps /\ RightOf(v) \in SExps

VARIABLES
  cache,      \* next_id, data (id |-> value) and order
  objects,    \* the objects Javascript holds: id, content and serial
  answer      \* what the latest call found for its objects

vars == <<cache, objects, answer>>

Init ==
  /\ cache = [next_id |-> 0, data |-> <<>>, order |-> <<>>]
  /\ objects = {}
  /\ answer = {}

\* The n-th id: fetch_add wraps around, as i32 makes the upper half negative.
get_next_id(n) ==
  LET m == n % (2 * Half) IN IF m < Half THEN m ELSE m - 2 * Half

Store(data, id, v) == [k \in DOMAIN data \cup {id} |-> IF k = id THEN v ELSE data[k]]

\* Fault: the entry that goes leaves the queue and not the table.
create_or_update_cache_entry_KeepsData(c, id, v) ==
  IF id < 0 THEN c
  ELSE [c EXCEPT
         !.data = Store(@, id, v),
         !.order = Append(IF Len(@) > cache_length THEN Tail(@) ELSE @, id)]

\* Nothing is kept under a negative id; in a full cache the entry made first
\* goes.
create_or_update_cache_entry(c, id, v) ==
  LET full == Len(c.order) > cache_length
      kept == IF full THEN Restrict(c.data, DOMAIN c.data \ {c.order[1]}) ELSE c.data
  IN IF id < 0 THEN c
     ELSE [c EXCEPT
            !.data = Store(kept, id, v),
            !.order = Append(IF full THEN Tail(@) ELSE @, id)]

\* find_cached_sexp: the cache as the look-up leaves it, and the value.
find_cached_sexp(c, o) ==
  IF o.content = Hex(EmptyValue) THEN [cache |-> c, value |-> EmptyValue]
  ELSE IF o.id \in DOMAIN c.data THEN [cache |-> c, value |-> c.data[o.id]]
  ELSE [cache |-> create_or_update_cache_entry(c, o.id, Parsed(o.content)),
        value |-> Parsed(o.content)]

\* finish_new_object for the next id, with nothing cached yet.
Object(c, content) == [id |-> get_next_id(c.next_id), content |-> content, serial |-> c.next_id]
Taken(c) == [c EXCEPT !.next_id = @ + 1]

\* Fault: the two objects of a pair under one id.
Created_SameId(c, v) ==
  [cache  |-> create_or_update_cache_entry(IF IsPair(v) THEN Taken(c) ELSE c, get_next_id(c.next_id), v),
   object |-> Object(c, Hex(v))]

\* get_next_id, create_cached_sexp and finish_new_object.
Created(c, v) ==
  [cache  |-> create_or_update_cache_entry(Taken(c), get_next_id(c.next_id), v),
   object |-> Object(c, Hex(v))]

Room(n) == cache.next_id + n <= MaxIds /\ Cardinality(objects) + n <= MaxObjects

\* Program.to on a value, and Program.null.
To(v) ==
  LET new == Created(cache, v)
  IN /\ Room(1)
     /\ cache' = new.cache
     /\ objects' = objects \cup {new.object}
     /\ answer' = {}

\* from_hex: the value is looked up under the id just taken.
FromHex(content) ==
  LET o == Object(cache, content)
  IN /\ Room(1)
     /\ cache' = find_cached_sexp(Taken(cache), o).cache
     /\ objects' = objects \cup {o}
     /\ answer' = {}

\* A method that reads the object's value: sha256tree, as_int, as_bigint,
\* list_len, as_javascript.
Read(o) ==
  LET f == find_cached_sexp(cache, o)
  IN /\ cache' = f.cache
     /\ answer' = {[object |-> o, value |-> f.value]}
     /\ UNCHANGED objects

\* first or rest: the part becomes an object of its own.
Part(o, left) ==
  LET f   == find_cached_sexp(cache, o)
      new == Created(f.cache, IF left THEN LeftOf(f.value) ELSE RightOf(f.value))
  IN /\ Room(1)
     /\ answer' = {[object |-> o, value |-> f.value]}
     /\ IF IsPair(f.value)
        THEN cache' = new.cache /\ objects' = objects \cup {new.object}
        ELSE cache' = f.cache /\ UNCHANGED objects

\* as_pair makes objects of both parts.
AsPair(o) ==
  LET f == find_cached_sexp(cache, o)
      a == Created(f.cache, LeftOf(f.value))
      b == Created(a.cache, RightOf(f.value))
  IN /\ Room(2)
     /\ answer' = {[object |-> o, value |-> f.value]}
     /\ IF IsPair(f.value)
        THEN cache' = b.cache /\ objects' = objects \cup {a.object, b.object}
        ELSE cache' = f.cache /\ UNCHANGED objects

\* cons, and tuple_to_program.
ConsOf(o, p) ==
  LET f   == find_cached_sexp(cache, o)
      g   == find_cached_sexp(f.cache, p)
      new == Created(g.cache, PairOf(f.value, g.value))
  IN /\ Room(1) /\ PairOf(f.value, g.value) \in SExps
     /\ cache' = new.cache
     /\ objects' = objects \cup {new.object}
     /\ answer' = {[object |-> o, value |-> f.value], [object |-> p, value |-> g.value]}

\* equal_to reads two objects.
EqualTo(o, p) ==
  LET f == find_cached_sexp(cache, o)
      g == find_cached_sexp(f.cache, p)
  IN /\ cache' = g.cache
     /\ answer' = {[object |-> o, value |-> f.value], [object |-> p, value |-> g.value]}
     /\ UNCHANGED objects

\* Javascript lets go of an object; the cache is not told.
Forget(o) ==
  /\ objects' = objects \ {o}
  /\ answer' = {}
  /\ UNCHANGED cache

Next ==
  \/ \E v \in Values : To(v) \/ FromHex(Hex(v))
  \/ \E o \in objects :
       \/ Read(o)
       \/ Part(o, TRUE)
       \/ Part(o, FALSE)
       \/ AsPair(o)
       \/ Forget(o)
  \/ \E o, p \in objects : ConsOf(o, p) \/ EqualTo(o, p)

Spec == Init /\ [][Next]_vars

(***************************************************************************)
(* Properties                                                              *)
(***************************************************************************)

\* The type of the state.  Whatever is cached is in the queue, so that it goes
\* in its turn, and the queue never grows beyond its bound: the cache does not
\* grow with the objects (objects.rs create_or_update_cache_entry).
TypeOK ==
  /\ cache.next_id \in 0..MaxIds
  /\ cache.order \in Seq(0..(Half - 1)) /\ Len(cache.order) <= cache_length + 1
  /\ DOMAIN cache.data \subseteq {cache.order[i] : i \in 1..Len(cache.order)}
  /\ \A o \in objects : o.id \in (-Half)..(Half - 1) /\ o.serial < cache.next_id

\* While the counter has not come around, a method finds for each object a
\* value that is written as the object's content, cached or not.
FindsTheContent ==
  cache.next_id <= 2 * Half =>
    /\ \A a \in answer : Hex(a.value) = a.object.content
    /\ \A o \in objects : o.id \in DOMAIN cache.data => Hex(cache.data[o.id]) = o.content
=============================================================================
