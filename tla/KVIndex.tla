------------------------------ MODULE KVIndex ------------------------------
(***************************************************************************)
(* internal/serving/kvcache, vllm_index_impl.go: the block index behind    *)
(* the event streams.  Pods run vLLM engines that cache KV blocks and      *)
(* announce every change in an event; Apply turns events into entries of   *)
(* one index shared by all pods, Lookup asks it for each pod's longest     *)
(* cached prefix of a prompt.                                              *)
(*                                                                         *)
(* A canonical request key hashes a block's tokens, its extra keys and its *)
(* parent's key: it is modelled as the chain of blocks it stands for, so   *)
(* request keys never collide.  Engine hashes are opaque: Hash(_) may give *)
(* two chains the same value.                                              *)
(***************************************************************************)
EXTENDS Naturals, Sequences, FiniteSets, SequencesExt

CONSTANTS
  Pods,
  Prompts,        \* [salt, tokens]; salt "" is none
  BlockSize,      \* Config.BlockSizeTokens
  Hash(_),        \* the engine's hash of a chain; 0 is the root
  MaxKeys,        \* Config.MaxIndexKeys: capacity of each of the upstream index's two LRU tables
  MaxQueue,       \* bound: events of a pod not yet applied
  MaxEvents       \* bound: events published

ASSUME IndexAssumption == BlockSize \in Nat \ {0} /\ MaxKeys \in Nat \ {0}

VARIABLES
  held,           \* the chains each engine caches
  queue,          \* events published by a pod and not yet applied
  index,          \* PodCache entries: <<request key, pod>>
  known,          \* engine key -> request key, as a set of pairs
  status,         \* "ok" or the reason of the fault that made the pod's stream invalid
  events, dropped  \* events so far; the tables that were full and dropped an entry

vars == <<held, queue, index, known, status, events, dropped>>

-----------------------------------------------------------------------------
(* Keys.                                                                   *)

FullBlocks(tokens) == Len(tokens) \div BlockSize
BlockTokens(tokens, i) == SubSeq(tokens, (i - 1) * BlockSize + 1, i * BlockSize)

\* foldCacheSalt: the salt is an extra key of the first block only.
ExtraKeys(salt, i) == IF i = 1 THEN salt ELSE ""

\* requestKeys: key i is the chain of the first i blocks.
RequestKeys(salt, tokens) ==
  [i \in 1..FullBlocks(tokens) |->
     [j \in 1..i |-> [tokens |-> BlockTokens(tokens, j), extra |-> ExtraKeys(salt, j)]]]

PodsOf(key) == {x[2] : x \in {y \in index : y[1] = key}}

-----------------------------------------------------------------------------
(* Apply.  An event is applied to st = [index, known, fault].              *)

\* index.GetRequestKey of the upstream index; {} when the engine key is unknown.
GetRequestKey(st, e) == {c[2] : c \in {k \in st.known : k[1] = e}}

\* index.Add.
Add(st, p, engineKeys, requestKeys) ==
  LET n == DOMAIN engineKeys
  IN  [st EXCEPT !.index = @ \union {<<requestKeys[i], p>> : i \in n},
                 !.known = {k \in @ : \A i \in n : k[1] # engineKeys[i]}
                           \union {<<engineKeys[i], requestKeys[i]>> : i \in n}]

Bug_EvictKey(st, p, e) ==
  LET keys == GetRequestKey(st, e)
  IN  [st EXCEPT !.index = {x \in @ : ~(x[1] \in keys /\ x[2] = p)}, !.known = {k \in @ : k[1] # e}]
\* index.Evict by engine key: nothing for a key that is not known; the mapping
\* goes with the last pod of its request key.
EvictKey(st, p, e) ==
  LET keys == GetRequestKey(st, e)
      left == {x \in st.index : ~(x[1] \in keys /\ x[2] = p)}
  IN  [st EXCEPT !.index = left,
                 !.known = {k \in @ : k[1] = e => \E x \in left : x[1] = k[2]}]

\* index.Clear of a pod's entries; the mappings stay.
ClearPod(st, p) == [st EXCEPT !.index = {x \in @ : x[2] # p}]

Bug_ApplyStored(st, p, e) ==
  LET parents == IF e.parent = 0 THEN {<<>>} ELSE GetRequestKey(st, e.parent)
      Keys(q) == [i \in DOMAIN e.hashes |-> q \o SubSeq(e.blocks, 1, i)]
  IN  IF parents = {} THEN [st EXCEPT !.fault = "event_apply_failed"]
      ELSE Add(st, p, e.hashes, Keys(CHOOSE k \in parents : TRUE))
\* applyStored: the parent is found by its engine key, and an engine key that
\* already stands for another request key is a fault.
ApplyStored(st, p, e) ==
  LET parents == IF e.parent = 0 THEN {<<>>} ELSE GetRequestKey(st, e.parent)
      Keys(q) == [i \in DOMAIN e.hashes |-> q \o SubSeq(e.blocks, 1, i)]
      keys    == Keys(CHOOSE k \in parents : TRUE)
  IN  IF parents = {} THEN [st EXCEPT !.fault = "event_apply_failed"]
      ELSE IF \E i \in DOMAIN keys : GetRequestKey(st, e.hashes[i]) \notin {{}, {keys[i]}}
      THEN [st EXCEPT !.fault = "engine_request_key_mismatch"]
      ELSE Add(st, p, e.hashes, keys)

\* applyOne; "foreign" stands for LoRA, HMA groups, another block size or tier.
ApplyOne(st, p, e) ==
  CASE e.kind = "stored"  -> ApplyStored(st, p, e)
    [] e.kind = "removed" -> EvictKey(st, p, e.hash)
    [] e.kind = "cleared" -> ClearPod(st, p)
    [] OTHER -> [st EXCEPT !.fault = "unsupported_event"]

\* Apply: the events of a batch in order, up to the first that fails; what the
\* earlier ones did stays.
ApplyBatch(st, p, batch) ==
  FoldLeft(LAMBDA s, e : IF s.fault = "ok" THEN ApplyOne(s, p, e) ELSE s, st, batch)

-----------------------------------------------------------------------------
(* Lookup.                                                                 *)

\* lookupRequestKeysUntilMiss: how many keys have some allowed pod.
HitKeys(keys, pods) ==
  LET misses == {i \in DOMAIN keys : PodsOf(keys[i]) \intersect pods = {}}
  IN  IF misses = {} THEN Len(keys) ELSE (CHOOSE i \in misses : \A j \in misses : i <= j) - 1

\* The upstream LongestPrefixMatch scorer: a pod counts while it holds every key so far.
Score(keys, n, p) == Cardinality({i \in 1..n : \A j \in 1..i : p \in PodsOf(keys[j])})

\* Lookup: matched blocks of each pod, summed over the token groups.
Lookup(salt, groups, pods) ==
  [p \in pods |->
     FoldSeq(LAMBDA tokens, sum :
               LET keys == RequestKeys(salt, tokens) IN sum + Score(keys, HitKeys(keys, pods), p),
             0, groups)]

-----------------------------------------------------------------------------
(* The engines (external), their events, and what the store does.          *)

Init ==
  /\ held = [p \in Pods |-> {}] /\ queue = [p \in Pods |-> <<>>]
  /\ index = {} /\ known = {} /\ status = [p \in Pods |-> "ok"] /\ events = 0 /\ dropped = {}

Publish(p, e) ==
  /\ Len(queue[p]) < MaxQueue /\ events < MaxEvents /\ events' = events + 1
  /\ queue' = [queue EXCEPT ![p] = Append(@, e)]

\* An engine prefills a prompt: the blocks after its longest cached prefix are
\* stored, under the hash of that prefix.
Prefill(p) ==
  \E prompt \in Prompts :
    LET keys   == RequestKeys(prompt.salt, prompt.tokens)
        cached == Cardinality({i \in DOMAIN keys : \A j \in 1..i : keys[j] \in held[p]})
        fresh  == SubSeq(keys, cached + 1, Len(keys))
    IN  /\ fresh # <<>>
        /\ held' = [held EXCEPT ![p] = @ \union Range(fresh)]
        /\ Publish(p, [kind |-> "stored", parent |-> IF cached = 0 THEN 0 ELSE Hash(keys[cached]),
                       hashes |-> [i \in DOMAIN fresh |-> Hash(fresh[i])],
                       blocks |-> SubSeq(keys[Len(keys)], cached + 1, Len(keys))])
        /\ UNCHANGED <<index, known, status, dropped>>

\* An engine drops any of its blocks.
Drop(p) ==
  \E key \in held[p] :
    /\ held' = [held EXCEPT ![p] = @ \ {key}]
    /\ Publish(p, [kind |-> "removed", hash |-> Hash(key)])
    /\ UNCHANGED <<index, known, status, dropped>>

\* An engine resets its prefix cache.
ResetCache(p) ==
  /\ held[p] # {} /\ held' = [held EXCEPT ![p] = {}]
  /\ Publish(p, [kind |-> "cleared"])
  /\ UNCHANGED <<index, known, status, dropped>>

PublishForeign(p) ==
  /\ Publish(p, [kind |-> "foreign"])
  /\ UNCHANGED <<held, index, known, status, dropped>>

\* A table over its capacity drops entries, some other key's.
Bounded(st) ==
  LET keys == {x[1] : x \in st.index}
  IN  {[index |-> {x \in st.index : x[1] \in ks}, known |-> es] :
         ks \in {k \in SUBSET keys : Cardinality(k) = (IF Cardinality(keys) > MaxKeys THEN MaxKeys ELSE Cardinality(keys))},
         es \in {k \in SUBSET st.known :
                   Cardinality(k) = (IF Cardinality(st.known) > MaxKeys THEN MaxKeys ELSE Cardinality(st.known))}}

\* accept, around Apply: a batch of one or two events of a stream that is not
\* faulted; a fault makes the stream invalid and clears the pod's entries.
Apply(p) ==
  /\ status[p] = "ok"
  /\ \E n \in {1, 2} \intersect DOMAIN queue[p] :
       LET done == ApplyBatch([index |-> index, known |-> known, fault |-> "ok"], p, SubSeq(queue[p], 1, n))
           st   == IF done.fault = "ok" THEN done ELSE ClearPod(done, p)
       IN  /\ queue' = [queue EXCEPT ![p] = SubSeq(@, n + 1, Len(@))]
           /\ status' = [status EXCEPT ![p] = st.fault]
           /\ \E b \in Bounded(st) :
                /\ index' = b.index /\ known' = b.known
                /\ dropped' = dropped \union (IF b.index = st.index THEN {} ELSE {"requests"})
                                     \union (IF b.known = st.known THEN {} ELSE {"engines"})
  /\ UNCHANGED <<held, events>>

\* The pod is replaced: its stream is closed and its entries are cleared.
Replace(p) ==
  /\ held' = [held EXCEPT ![p] = {}] /\ queue' = [queue EXCEPT ![p] = <<>>]
  /\ status' = [status EXCEPT ![p] = "ok"]
  /\ index' = ClearPod([index |-> index], p).index
  /\ UNCHANGED <<known, events, dropped>>

Next == \E p \in Pods :
  Prefill(p) \/ Drop(p) \/ ResetCache(p) \/ PublishForeign(p) \/ Apply(p) \/ Replace(p)

Spec == Init /\ [][Next]_vars

-----------------------------------------------------------------------------

\* The longest prefix of a prompt that a pod's engine really caches.
CachedPrefix(p, salt, tokens) ==
  LET keys == RequestKeys(salt, tokens)
  IN  Cardinality({i \in DOMAIN keys : \A j \in 1..i : keys[j] \in held[p]})

\* For a pod whose stream is valid and whose events are all applied, Lookup
\* reports exactly the blocks its engine would reuse for the prompt and salt,
\* whatever other pods stored, removed or failed on in the shared tables, as
\* long as neither table had to drop an entry (Lookup, Apply).
LookupIsExact ==
  dropped # {} \/ \A a, b \in Prompts :
    LET pods  == {p \in Pods : status[p] = "ok"}
        match == Lookup(a.salt, <<a.tokens, b.tokens>>, pods)
    IN  \A p \in pods : queue[p] = <<>> =>
          match[p] = CachedPrefix(p, a.salt, a.tokens) + CachedPrefix(p, a.salt, b.tokens)

\* A pod is only credited with a block it announced, under the salt it was
\* announced with: an entry of a valid pod with nothing left to apply is a
\* block of its engine, also when the request-key table has dropped entries
\* (the engine-key table has not).
NoPhantomBlock ==
  "engines" \in dropped \/ \A x \in index : status[x[2]] = "ok" /\ queue[x[2]] = <<>> => x[1] \in held[x[2]]
=============================================================================
