---------------------------- MODULE RestoreProofs ----------------------------
(***************************************************************************)
(* The restore for any store, sound or damaged, any recipe and any size of *)
(* the caches and the buffer: what the caches hold agrees with itself and  *)
(* with the containers, no truncated container goes unnoticed, the buffer  *)
(* is big enough, and of a sound store the file becomes the version.       *)
(***************************************************************************)
EXTENDS RestoreRefinement, WellFoundedInduction, FiniteSetTheorems, TLAPS

\* A non-empty set of numbers has a least one.
LEMMA HasLeast ==
  ASSUME NEW T \in SUBSET Nat, T # {}
  PROVE  \E t \in T : \A u \in T : t <= u
<1> DEFINE R == {ss \in Nat \X Nat : ss[1] < ss[2]}
<1>1. IsWellFoundedOn(R, Nat)
  BY NatLessThanWellFounded DEF OpToRel
<1>2. \A x, y \in Nat : <<y, x>> \in R <=> y < x
  <2> TAKE x, y \in Nat
  <2>1. <<y, x>> \in Nat \X Nat /\ <<y, x>>[1] = y /\ <<y, x>>[2] = x
    OBVIOUS
  <2> QED BY <2>1
<1> HIDE DEF R
<1>3. \E x \in T : \A y \in T : ~(<<y, x>> \in R)
  BY <1>1, WFMin
<1>4. \A x, y \in T : ~(<<y, x>> \in R) => x <= y
  BY <1>2
<1> QED BY <1>3, <1>4

\* A non-empty set of numbers that has a bound has a greatest one.
LEMMA HasGreatest ==
  ASSUME NEW b \in Nat, NEW T \in SUBSET (0..b), T # {}
  PROVE  \E t \in T : \A u \in T : u <= t
<1> DEFINE D == {n \in 0..b : b - n \in T}
<1>1. D \in SUBSET Nat
  OBVIOUS
<1>2. PICK t \in T : TRUE
  OBVIOUS
<1>3. b - t \in D
  <2>1. b - t \in 0..b /\ b - (b - t) = t
    OBVIOUS
  <2> QED BY <2>1
<1>4. PICK n \in D : \A u \in D : n <= u
  BY <1>1, <1>3, HasLeast
<1>5. \A u \in T : b - u \in D
  <2> TAKE u \in T
  <2>1. b - u \in 0..b /\ b - (b - u) = u
    OBVIOUS
  <2> QED BY <2>1
<1>6. n \in 0..b /\ b - n \in T
  BY <1>4
<1>7. \A u \in T : u <= b - n
  BY <1>4, <1>5, <1>6
<1> QED BY <1>6, <1>7

\* A number is reached from 0 where every step leads on.
LEMMA Reached ==
  ASSUME NEW b \in Nat, NEW T, 0 \in T, \A n \in 0..b : n \in T => n + 1 \in T
  PROVE  \A n \in 0..(b + 1) : n \in T
<1> DEFINE Missed == {n \in 0..(b + 1) : n \notin T}
<1>1. SUFFICES ASSUME Missed # {} PROVE FALSE
  OBVIOUS
<1>2. PICK n \in Missed : \A u \in Missed : n <= u
  <2>1. Missed \in SUBSET Nat
    OBVIOUS
  <2> QED BY <1>1, <2>1, HasLeast
<1>3. n \in 1..(b + 1) /\ n - 1 \in 0..b /\ n - 1 \in 0..(b + 1)
  BY <1>2
<1>4. n - 1 \in T
  BY <1>2, <1>3
<1> QED BY <1>2, <1>3, <1>4

-------------------------------------------------------------------------------
\* The container cache.

\* What set, queue and map are to each other and to the store.
Agrees(set, queue, cache) ==
  /\ queue \in Seq(DOMAIN store.containers)
  /\ set = {queue[i] : i \in DOMAIN queue}
  /\ \A i, j \in DOMAIN queue : queue[i] = queue[j] => i = j
  /\ cache = [n \in set |-> ReadContainer(n, 0, ContainerSize)]

CacheInv ==
  /\ Agrees(index_set, index_queue, container_cache)
  /\ Len(index_queue) <= CacheMax["container_cache"]

LEMMA CacheSizes ==
  \A m \in CacheMethods : CacheMax[m] \in Nat \ {0}
BY RestoreAssumption

\* An eviction keeps the three in step and leaves room for one container.
LEMMA EvictionAgrees ==
  ASSUME CacheInv
  PROVE  /\ Agrees(EvictFIFO.set, EvictFIFO.queue, EvictFIFO.cache)
         /\ Len(EvictFIFO.queue) < CacheMax["container_cache"]
<1> DEFINE max == CacheMax["container_cache"]
<1>1. max \in Nat \ {0} /\ Len(index_queue) \in Nat /\ Len(index_queue) <= max
  BY CacheSizes DEF CacheInv, Agrees, CacheMethods
<1>2. CASE Len(index_queue) < max
  BY <1>2 DEF EvictFIFO, CacheInv
<1>3. CASE ~(Len(index_queue) < max)
  <2>1. /\ EvictFIFO.set = index_set \ {Head(index_queue)}
        /\ EvictFIFO.queue = Tail(index_queue)
        /\ EvictFIFO.cache = Restrict(container_cache,
                                      DOMAIN container_cache \ {Head(index_queue)})
    BY <1>3 DEF EvictFIFO
  <2>2. index_queue \in Seq(DOMAIN store.containers) /\ Len(index_queue) = max
    BY <1>1, <1>3 DEF CacheInv, Agrees
  <2>3. /\ Tail(index_queue) \in Seq(DOMAIN store.containers)
        /\ Len(Tail(index_queue)) = max - 1
        /\ DOMAIN Tail(index_queue) = 1..(max - 1)
        /\ \A i \in 1..(max - 1) : Tail(index_queue)[i] = index_queue[i + 1]
        /\ Head(index_queue) = index_queue[1] /\ DOMAIN index_queue = 1..max
    BY <1>1, <2>2
  <2>4. \A i, j \in 1..(max - 1) : Tail(index_queue)[i] = Tail(index_queue)[j] => i = j
    BY <1>1, <2>3 DEF CacheInv, Agrees
  <2>5. index_set \ {Head(index_queue)}
          = {Tail(index_queue)[i] : i \in DOMAIN Tail(index_queue)}
    <3>1. index_set = {index_queue[i] : i \in 1..max}
      BY <2>3 DEF CacheInv, Agrees
    <3>2. \A i \in 1..max : index_queue[i] # index_queue[1] <=> i # 1
      BY <1>1, <2>3 DEF CacheInv, Agrees
    <3>3. \A i \in 1..max : i # 1 <=> \E j \in 1..(max - 1) : i = j + 1
      <4> TAKE i \in 1..max
      <4>1. i # 1 => i - 1 \in 1..(max - 1) /\ i = (i - 1) + 1
        BY <1>1
      <4> QED BY <1>1, <4>1
    <3>4. ASSUME NEW n \in index_set, n # Head(index_queue)
          PROVE  \E j \in 1..(max - 1) : n = Tail(index_queue)[j]
      <4>1. PICK i \in 1..max : n = index_queue[i]
        BY <3>1
      <4>2. PICK j \in 1..(max - 1) : i = j + 1
        BY <2>3, <3>2, <3>3, <3>4, <4>1
      <4> QED BY <2>3, <4>1, <4>2
    <3>5. ASSUME NEW j \in 1..(max - 1)
          PROVE  Tail(index_queue)[j] \in index_set \ {Head(index_queue)}
      <4>1. j + 1 \in 1..max /\ j + 1 # 1
        BY <1>1
      <4> QED BY <2>3, <3>1, <3>2, <4>1
    <3>6. {Tail(index_queue)[i] : i \in DOMAIN Tail(index_queue)}
            = {Tail(index_queue)[i] : i \in 1..(max - 1)}
      BY <2>3
    <3> DEFINE tail == Tail(index_queue)
    <3> HIDE DEF tail, max
    <3>7. index_set \ {Head(index_queue)} = {tail[i] : i \in 1..(max - 1)}
      BY <3>4, <3>5 DEF tail
    <3> QED BY <3>6, <3>7 DEF tail
  <2>6. Restrict(container_cache, DOMAIN container_cache \ {Head(index_queue)})
          = [n \in index_set \ {Head(index_queue)} |-> ReadContainer(n, 0, ContainerSize)]
    <3>1. /\ DOMAIN container_cache = index_set
          /\ \A n \in index_set : container_cache[n] = ReadContainer(n, 0, ContainerSize)
      BY DEF CacheInv, Agrees
    <3> QED BY <3>1 DEF Restrict
  <2> DEFINE set == index_set \ {Head(index_queue)}
  <2> DEFINE queue == Tail(index_queue)
  <2> DEFINE cache == Restrict(container_cache, DOMAIN container_cache \ {Head(index_queue)})
  <2>7. /\ queue \in Seq(DOMAIN store.containers) /\ Len(queue) < max
        /\ \A i, j \in DOMAIN queue : queue[i] = queue[j] => i = j
    BY <1>1, <2>3, <2>4
  <2>8. set = {queue[i] : i \in DOMAIN queue}
    BY <2>5
  <2>9. cache = [n \in set |-> ReadContainer(n, 0, ContainerSize)]
    BY <2>6
  <2>10. EvictFIFO.set = set /\ EvictFIFO.queue = queue /\ EvictFIFO.cache = cache
    BY <2>1
  <2> HIDE DEF set, queue, cache
  <2>11. Agrees(set, queue, cache)
    BY <2>7, <2>8, <2>9 DEF Agrees
  <2> QED BY <2>7, <2>10, <2>11
<1> QED BY <1>2, <1>3

\* A container that is new and loaded keeps them in step.
LEMMA LoadAgrees ==
  ASSUME NEW set, NEW queue, NEW cache, Agrees(set, queue, cache),
         NEW n \in DOMAIN store.containers, n \notin set
  PROVE  Agrees(set \cup {n}, Append(queue, n),
                [m \in DOMAIN cache \cup {n} |->
                   IF m = n THEN ReadContainer(n, 0, ContainerSize) ELSE cache[m]])
<1> DEFINE longer == Append(queue, n)
<1>1. /\ queue \in Seq(DOMAIN store.containers) /\ Len(queue) \in Nat
      /\ DOMAIN queue = 1..Len(queue)
  BY DEF Agrees
<1>2. /\ longer \in Seq(DOMAIN store.containers)
      /\ DOMAIN longer = 1..(Len(queue) + 1)
      /\ longer[Len(queue) + 1] = n
      /\ \A i \in 1..Len(queue) : longer[i] = queue[i]
  BY <1>1
<1>3. \A i \in 1..Len(queue) : queue[i] # n
  BY <1>1 DEF Agrees
<1>4. \A i \in 1..(Len(queue) + 1) : i \in 1..Len(queue) \/ i = Len(queue) + 1
  BY <1>1
<1> HIDE DEF longer
<1>5. \A i, j \in DOMAIN longer : longer[i] = longer[j] => i = j
  BY <1>1, <1>2, <1>3, <1>4 DEF Agrees
<1>6. set \cup {n} = {longer[i] : i \in DOMAIN longer}
  <2>1. \A i \in 1..Len(queue) : i \in DOMAIN longer
    BY <1>1, <1>2
  <2>2. Len(queue) + 1 \in DOMAIN longer
    BY <1>1, <1>2
  <2>3. set = {queue[i] : i \in 1..Len(queue)}
    BY <1>1 DEF Agrees
  <2> QED BY <1>2, <1>4, <2>1, <2>2, <2>3
<1>7. [m \in DOMAIN cache \cup {n} |->
         IF m = n THEN ReadContainer(n, 0, ContainerSize) ELSE cache[m]]
        = [m \in set \cup {n} |-> ReadContainer(m, 0, ContainerSize)]
  BY DEF Agrees
<1> QED BY <1>2, <1>5, <1>6, <1>7 DEF Agrees, longer

LEMMA InitCache == Init => CacheInv
<1> SUFFICES ASSUME Init PROVE CacheInv
  OBVIOUS
<1>1. index_set = {} /\ index_queue = <<>> /\ container_cache = [n \in {} |-> <<>>]
  BY DEF Init
<1>2. CacheMax["container_cache"] \in Nat
  BY CacheSizes DEF CacheMethods
<1> QED BY <1>1, <1>2 DEF CacheInv, Agrees

LEMMA NextCache == CacheInv /\ [Next]_vars => CacheInv'
<1> SUFFICES ASSUME CacheInv, [Next]_vars PROVE CacheInv'
  OBVIOUS
<1>1. ASSUME UNCHANGED <<task, containerCache>> PROVE CacheInv'
  BY <1>1 DEF task, containerCache, CacheInv, Agrees, ReadContainer
<1>2. ASSUME ContainerMiss, ~UNCHANGED containerCache PROVE CacheInv'
  <2> DEFINE n == EV.container_number
  <2> DEFINE kept == EvictFIFO
  <2>1. /\ n \in DOMAIN store.containers /\ n \notin index_set
        /\ index_set' = kept.set \cup {n}
        /\ index_queue' = Append(kept.queue, n)
        /\ container_cache' = [m \in DOMAIN kept.cache \cup {n} |->
                                 IF m = n THEN ReadContainer(n, 0, ContainerSize)
                                 ELSE kept.cache[m]]
        /\ UNCHANGED task
    BY <1>2 DEF ContainerMiss
  <2>2. kept.set \subseteq index_set
    BY DEF EvictFIFO
  <2> HIDE DEF n, kept
  <2>3. Agrees(kept.set, kept.queue, kept.cache) /\ Len(kept.queue) < CacheMax["container_cache"]
    BY EvictionAgrees DEF kept
  <2>4. Agrees(index_set', index_queue', container_cache')
    <3>1. n \in DOMAIN store.containers /\ n \notin kept.set
      BY <2>1, <2>2
    <3>2. Agrees(kept.set \cup {n}, Append(kept.queue, n),
                 [m \in DOMAIN kept.cache \cup {n} |->
                    IF m = n THEN ReadContainer(n, 0, ContainerSize) ELSE kept.cache[m]])
      BY <2>3, <3>1, LoadAgrees
    <3> QED BY <2>1, <3>2
  <2>5. Len(index_queue') <= CacheMax["container_cache"]
    <3>1. kept.queue \in Seq(DOMAIN store.containers)
      BY <2>3 DEF Agrees
    <3>2. CacheMax["container_cache"] \in Nat
      BY CacheSizes DEF CacheMethods
    <3> QED BY <2>1, <2>3, <3>1, <3>2
  <2>6. store' = store
    BY <2>1 DEF task
  <2> QED BY <2>4, <2>5, <2>6 DEF CacheInv, Agrees, ReadContainer
<1>3. ContainerMiss => UNCHANGED task
  BY DEF ContainerMiss
<1>4. UNCHANGED vars \/ Start \/ UnknownChunk \/ ContainerHit \/ NoVersion \/ Unsupported
        => UNCHANGED <<task, containerCache>>
  BY DEF vars, Start, UnknownChunk, ContainerHit, NoVersion, Unsupported, End
<1>5. ChunkHit \/ ChunkMiss \/ Finish => UNCHANGED <<task, containerCache>>
  BY DEF ChunkHit, ChunkMiss, Finish
<1>6. FaaFill \/ FaaEmpty \/ FaaEnd \/ FaaPass \/ FaaFlush => UNCHANGED <<task, containerCache>>
  BY DEF FaaFill, FaaEmpty, FaaEnd, FaaPass, FaaFlush, End
<1> QED BY <1>1, <1>2, <1>3, <1>4, <1>5, <1>6 DEF Next

\* Set, queue and map of the container cache name the same containers, each
\* once and within the limit, and hold what is on disk (ContainerCache.cpp).
THEOREM ContainerCacheAgreesHolds == Spec => []ContainerCacheAgrees
<1>1. CacheInv => ContainerCacheAgrees
  BY DEF CacheInv, Agrees, ContainerCacheAgrees
<1> QED BY <1>1, InitCache, NextCache, PTL DEF Spec

-------------------------------------------------------------------------------
\* The chunk cache.

\* Every cached chunk has one place in the stack, every place its chunk.
InStep(cache, stack, now) ==
  /\ \A k \in DOMAIN cache :
       /\ cache[k].stamp \in DOMAIN stack /\ stack[cache[k].stamp] = k
       /\ cache[k] = [data |-> cache[k].data, stamp |-> cache[k].stamp]
  /\ \A t \in DOMAIN stack :
       stack[t] \in DOMAIN cache /\ cache[stack[t]].stamp = t /\ t \in 1..now
  /\ IsFiniteSet(DOMAIN cache)

LruInv ==
  /\ LRUtimestamp \in Nat
  /\ InStep(chunk_cache, LRUstack, LRUtimestamp)
  /\ Cardinality(DOMAIN chunk_cache) <= CacheMax["chunk_cache"]

\* A hit moves its chunk to the top of the stack and no other chunk.
LEMMA HitInStep ==
  ASSUME LruInv, NEW key \in DOMAIN chunk_cache
  PROVE  InStep([chunk_cache EXCEPT ![key].stamp = LRUtimestamp + 1], Restack(key),
                LRUtimestamp + 1)
<1> DEFINE now == LRUtimestamp + 1
<1> DEFINE cache == [chunk_cache EXCEPT ![key].stamp = now]
<1> DEFINE stack == Restack(key)
<1>1. /\ DOMAIN cache = DOMAIN chunk_cache
      /\ \A k \in DOMAIN cache : k # key => cache[k] = chunk_cache[k]
      /\ cache[key] = [chunk_cache[key] EXCEPT !.stamp = now]
  OBVIOUS
<1>2. cache[key] = [data |-> chunk_cache[key].data, stamp |-> now]
  BY <1>1 DEF LruInv, InStep
<1>3. /\ DOMAIN stack = (DOMAIN LRUstack \ {chunk_cache[key].stamp}) \cup {now}
      /\ stack[now] = key
      /\ \A t \in DOMAIN stack : t # now => stack[t] = LRUstack[t]
  BY DEF Restack
<1>4. LRUtimestamp \in Nat /\ now \notin DOMAIN LRUstack
  BY DEF LruInv, InStep
<1> HIDE DEF cache, stack
<1>5. \A k \in DOMAIN cache :
         /\ cache[k].stamp \in DOMAIN stack /\ stack[cache[k].stamp] = k
         /\ cache[k] = [data |-> cache[k].data, stamp |-> cache[k].stamp]
  <2> TAKE k \in DOMAIN cache
  <2>1. CASE k = key
    BY <1>2, <1>3, <2>1
  <2>2. CASE k # key
    <3>1. /\ chunk_cache[k].stamp \in DOMAIN LRUstack
          /\ LRUstack[chunk_cache[k].stamp] = k
          /\ LRUstack[chunk_cache[key].stamp] = key
      BY <1>1 DEF LruInv, InStep
    <3>2. cache[k] = chunk_cache[k]
      BY <1>1, <2>2
    <3>3. chunk_cache[k].stamp # chunk_cache[key].stamp /\ chunk_cache[k].stamp # now
      BY <1>4, <2>2, <3>1
    <3>4. cache[k].stamp \in DOMAIN stack /\ stack[cache[k].stamp] = k
      BY <1>3, <3>1, <3>2, <3>3
    <3> QED BY <1>1, <3>2, <3>4 DEF LruInv, InStep
  <2> QED BY <2>1, <2>2
<1>6. \A t \in DOMAIN stack :
         stack[t] \in DOMAIN cache /\ cache[stack[t]].stamp = t /\ t \in 1..now
  <2> TAKE t \in DOMAIN stack
  <2>1. CASE t = now
    BY <1>1, <1>2, <1>3, <1>4, <2>1
  <2>2. CASE t # now
    <3>1. t \in DOMAIN LRUstack /\ t # chunk_cache[key].stamp /\ stack[t] = LRUstack[t]
      BY <1>3, <2>2
    <3>2. /\ LRUstack[t] \in DOMAIN chunk_cache /\ chunk_cache[LRUstack[t]].stamp = t
          /\ t \in 1..LRUtimestamp
      BY <3>1 DEF LruInv, InStep
    <3>3. LRUstack[t] # key
      BY <3>1, <3>2
    <3>4. cache[stack[t]].stamp = t /\ stack[t] \in DOMAIN cache
      BY <1>1, <3>1, <3>2, <3>3
    <3> QED BY <1>4, <3>2, <3>4
  <2> QED BY <2>1, <2>2
<1>7. IsFiniteSet(DOMAIN cache)
  BY <1>1 DEF LruInv, InStep
<1> QED BY <1>5, <1>6, <1>7 DEF InStep, cache, stack

\* An eviction takes one chunk out of both and leaves room for another.
LEMMA EvictionInStep ==
  ASSUME LruInv
  PROVE  /\ InStep(EvictLRU.cache, EvictLRU.stack, LRUtimestamp)
         /\ Cardinality(DOMAIN EvictLRU.cache) < CacheMax["chunk_cache"]
         /\ DOMAIN EvictLRU.cache \subseteq DOMAIN chunk_cache
<1> DEFINE max == CacheMax["chunk_cache"]
<1> DEFINE size == Cardinality(DOMAIN chunk_cache)
<1>1. /\ max \in Nat \ {0} /\ size \in Nat /\ size <= max
      /\ IsFiniteSet(DOMAIN chunk_cache)
  BY CacheSizes, FS_CardinalityType DEF LruInv, InStep, CacheMethods
<1>2. CASE size < max
  BY <1>2 DEF EvictLRU, LruInv
<1>3. CASE ~(size < max)
  <2> DEFINE gone == LRUstack[Oldest]
  <2> DEFINE cache == Restrict(chunk_cache, DOMAIN chunk_cache \ {gone})
  <2> DEFINE stack == Restrict(LRUstack, DOMAIN LRUstack \ {Oldest})
  <2>1. EvictLRU = [cache |-> cache, stack |-> stack]
    BY <1>3 DEF EvictLRU
  <2>2. Oldest \in DOMAIN LRUstack
    <3>1. DOMAIN chunk_cache # {}
      BY <1>1, <1>3, FS_EmptySet
    <3>2. DOMAIN LRUstack # {} /\ DOMAIN LRUstack \subseteq Nat
      BY <3>1 DEF LruInv, InStep
    <3> QED BY <3>2, HasLeast DEF Oldest
  <2>3. /\ gone \in DOMAIN chunk_cache /\ chunk_cache[gone].stamp = Oldest
    BY <2>2 DEF LruInv, InStep
  <2>4. /\ DOMAIN cache = DOMAIN chunk_cache \ {gone}
        /\ DOMAIN stack = DOMAIN LRUstack \ {Oldest}
        /\ \A k \in DOMAIN cache : cache[k] = chunk_cache[k]
        /\ \A t \in DOMAIN stack : stack[t] = LRUstack[t]
    BY DEF Restrict
  <2>5. IsFiniteSet(DOMAIN cache) /\ Cardinality(DOMAIN cache) = size - 1
    BY <1>1, <2>3, <2>4, FS_RemoveElement
  <2> HIDE DEF cache, stack, gone
  <2>6. \A k \in DOMAIN cache :
           /\ cache[k].stamp \in DOMAIN stack /\ stack[cache[k].stamp] = k
           /\ cache[k] = [data |-> cache[k].data, stamp |-> cache[k].stamp]
    <3> TAKE k \in DOMAIN cache
    <3>1. /\ k \in DOMAIN chunk_cache /\ k # gone /\ cache[k] = chunk_cache[k]
      BY <2>4
    <3>2. /\ chunk_cache[k].stamp \in DOMAIN LRUstack /\ LRUstack[chunk_cache[k].stamp] = k
          /\ chunk_cache[k] = [data |-> chunk_cache[k].data, stamp |-> chunk_cache[k].stamp]
      BY <3>1 DEF LruInv, InStep
    <3>3. chunk_cache[k].stamp # Oldest
      BY <3>1, <3>2 DEF gone
    <3>4. cache[k].stamp \in DOMAIN stack
      BY <2>4, <3>1, <3>2, <3>3
    <3> QED BY <2>4, <3>1, <3>2, <3>4
  <2>7. \A t \in DOMAIN stack :
           stack[t] \in DOMAIN cache /\ cache[stack[t]].stamp = t /\ t \in 1..LRUtimestamp
    <3> TAKE t \in DOMAIN stack
    <3>1. t \in DOMAIN LRUstack /\ t # Oldest /\ stack[t] = LRUstack[t]
      BY <2>4
    <3>2. /\ LRUstack[t] \in DOMAIN chunk_cache /\ chunk_cache[LRUstack[t]].stamp = t
          /\ t \in 1..LRUtimestamp
      BY <3>1 DEF LruInv, InStep
    <3>3. LRUstack[t] # gone
      BY <2>3, <3>1, <3>2
    <3> QED BY <2>4, <3>1, <3>2, <3>3
  <2> QED BY <1>1, <1>3, <2>1, <2>4, <2>5, <2>6, <2>7 DEF InStep
<1> QED BY <1>2, <1>3

\* A chunk that is new goes on top.
WithChunk(cache, key, data, now) ==
  [k \in DOMAIN cache \cup {key} |->
     IF k = key THEN [data |-> data, stamp |-> now + 1] ELSE cache[k]]

OnTop(stack, key, now) ==
  [t \in DOMAIN stack \cup {now + 1} |-> IF t = now + 1 THEN key ELSE stack[t]]

LEMMA LoadInStep ==
  ASSUME NEW cache, NEW stack, NEW now \in Nat, InStep(cache, stack, now),
         NEW key, key \notin DOMAIN cache, NEW data
  PROVE  InStep(WithChunk(cache, key, data, now), OnTop(stack, key, now), now + 1)
<1> DEFINE larger == WithChunk(cache, key, data, now)
<1> DEFINE higher == OnTop(stack, key, now)
<1>1. /\ DOMAIN larger = DOMAIN cache \cup {key}
      /\ larger[key] = [data |-> data, stamp |-> now + 1]
      /\ \A k \in DOMAIN cache : larger[k] = cache[k]
  BY DEF WithChunk
<1>2. now + 1 \notin DOMAIN stack
  BY DEF InStep
<1>3. /\ DOMAIN higher = DOMAIN stack \cup {now + 1}
      /\ higher[now + 1] = key
      /\ \A t \in DOMAIN stack : higher[t] = stack[t] /\ t \in 1..(now + 1)
  BY <1>2 DEF InStep, OnTop
<1> HIDE DEF larger, higher
<1>4. IsFiniteSet(DOMAIN larger)
  BY <1>1, FS_AddElement DEF InStep
<1>5. \A k \in DOMAIN larger :
         /\ larger[k].stamp \in DOMAIN higher /\ higher[larger[k].stamp] = k
         /\ larger[k] = [data |-> larger[k].data, stamp |-> larger[k].stamp]
  <2> TAKE k \in DOMAIN larger
  <2>1. CASE k = key
    BY <1>1, <1>3, <2>1
  <2>2. CASE k # key
    BY <1>1, <1>3, <2>2 DEF InStep
  <2> QED BY <2>1, <2>2
<1>6. \A t \in DOMAIN higher :
         higher[t] \in DOMAIN larger /\ larger[higher[t]].stamp = t /\ t \in 1..(now + 1)
  <2> TAKE t \in DOMAIN higher
  <2>1. CASE t = now + 1
    BY <1>1, <1>3, <2>1
  <2>2. CASE t # now + 1
    BY <1>1, <1>3, <2>2 DEF InStep
  <2> QED BY <2>1, <2>2
<1> QED BY <1>4, <1>5, <1>6 DEF InStep, larger, higher

LEMMA InitLru == Init => LruInv
<1> SUFFICES ASSUME Init PROVE LruInv
  OBVIOUS
<1>1. DOMAIN chunk_cache = {} /\ DOMAIN LRUstack = {} /\ LRUtimestamp = 0
  BY DEF Init
<1>2. CacheMax["chunk_cache"] \in Nat
  BY CacheSizes DEF CacheMethods
<1> QED BY <1>1, <1>2, FS_EmptySet DEF LruInv, InStep

LEMMA NextLru == LruInv /\ [Next]_vars => LruInv'
<1> SUFFICES ASSUME LruInv, [Next]_vars PROVE LruInv'
  OBVIOUS
<1>1. ASSUME UNCHANGED chunkCache PROVE LruInv'
  BY <1>1 DEF chunkCache, LruInv, InStep
<1>2. ASSUME ChunkHit PROVE LruInv'
  <2> DEFINE key == ChunkGlobalID(Next1)
  <2>1. /\ key \in DOMAIN chunk_cache
        /\ chunk_cache' = [chunk_cache EXCEPT ![key].stamp = LRUtimestamp + 1]
        /\ LRUstack' = Restack(key) /\ LRUtimestamp' = LRUtimestamp + 1
    BY <1>2 DEF ChunkHit
  <2> HIDE DEF key
  <2>2. DOMAIN chunk_cache' = DOMAIN chunk_cache /\ LRUtimestamp' \in Nat
    BY <2>1 DEF LruInv
  <2>3. InStep(chunk_cache', LRUstack', LRUtimestamp')
    BY <2>1, HitInStep
  <2> QED BY <2>2, <2>3 DEF LruInv, InStep
<1>3. ASSUME ChunkMiss PROVE LruInv'
  <2> DEFINE key == ChunkGlobalID(Next1)
  <2> DEFINE kept == EvictLRU
  <2> DEFINE data == SubSeq(container_buf', 1, EV.chunk_length)
  <2>1. /\ key \notin DOMAIN chunk_cache
        /\ LRUstack' = OnTop(kept.stack, key, LRUtimestamp)
        /\ chunk_cache' = WithChunk(kept.cache, key, data, LRUtimestamp)
        /\ LRUtimestamp' = LRUtimestamp + 1
    BY <1>3 DEF ChunkMiss, OnTop, WithChunk
  <2> HIDE DEF key, kept, data
  <2>2. /\ InStep(kept.cache, kept.stack, LRUtimestamp)
        /\ Cardinality(DOMAIN kept.cache) < CacheMax["chunk_cache"]
        /\ key \notin DOMAIN kept.cache
    BY <2>1, EvictionInStep DEF kept
  <2>3. InStep(chunk_cache', LRUstack', LRUtimestamp')
    <3>1. LRUtimestamp \in Nat
      BY DEF LruInv
    <3>2. InStep(WithChunk(kept.cache, key, data, LRUtimestamp),
                 OnTop(kept.stack, key, LRUtimestamp), LRUtimestamp + 1)
      BY <2>2, <3>1, LoadInStep
    <3> QED BY <2>1, <3>2
  <2>4. Cardinality(DOMAIN chunk_cache') <= CacheMax["chunk_cache"]
    <3>1. IsFiniteSet(DOMAIN kept.cache) /\ DOMAIN chunk_cache' = DOMAIN kept.cache \cup {key}
      BY <2>1, <2>2 DEF InStep, WithChunk
    <3>2. Cardinality(DOMAIN kept.cache) \in Nat /\ CacheMax["chunk_cache"] \in Nat
      BY <3>1, CacheSizes, FS_CardinalityType DEF CacheMethods
    <3>3. Cardinality(DOMAIN chunk_cache') = Cardinality(DOMAIN kept.cache) + 1
      BY <2>2, <3>1, FS_AddElement
    <3> QED BY <2>2, <3>2, <3>3
  <2>5. LRUtimestamp' \in Nat
    BY <2>1 DEF LruInv
  <2> HIDE DEF InStep
  <2> QED BY <2>3, <2>4, <2>5 DEF LruInv, InStep
<1>4. UNCHANGED vars \/ Start \/ UnknownChunk \/ ContainerHit \/ NoVersion \/ Unsupported
        => UNCHANGED chunkCache
  BY DEF vars, Start, UnknownChunk, ContainerHit, NoVersion, Unsupported, End
<1>5. ContainerMiss \/ Finish => UNCHANGED chunkCache
  BY DEF ContainerMiss, Finish
<1>6. FaaFill \/ FaaEmpty \/ FaaEnd \/ FaaPass \/ FaaFlush => UNCHANGED chunkCache
  BY DEF FaaFill, FaaEmpty, FaaEnd, FaaPass, FaaFlush, End
<1> QED BY <1>1, <1>2, <1>3, <1>4, <1>5, <1>6 DEF Next

\* Each cached chunk has exactly one place in the LRU stack and each place its
\* chunk, and the cache keeps its limit (ChunkCache.cpp).
THEOREM LruInStepHolds == Spec => []LruInStep
<1>1. LruInv => LruInStep
  BY DEF LruInv, InStep, LruInStep
<1> QED BY <1>1, InitLru, NextLru, PTL DEF Spec

-------------------------------------------------------------------------------
\* The size check of the loop.

\* The container of chunk c reaches to the end of c.
InFull(c) ==
  Len(ReadContainer(store.index[c].container_number, store.index[c].offset,
                    store.index[c].chunk_length)) = store.index[c].chunk_length

\* With the container cache every chunk that was fetched is there in full.
FetchInv ==
  /\ store \in Stores /\ recipes \in RecipeDirs
  /\ pc = "start" => pos = 0
  /\ pc \in {"loop", "fill", "assemble"} => version \in DOMAIN recipes
  /\ pc \in {"fill", "assemble"} => method = "faa_fixed"
  /\ pc \in {"loop", "done"} /\ method = "container_cache" =>
       /\ version \in DOMAIN recipes
       /\ pos \in 0..Len(Recipe)
       /\ pc = "done" => pos = Len(Recipe)
       /\ \A i \in 1..pos : InFull(Recipe[i])

\* A piece that is complete in what was read of a file is complete in the file.
LEMMA PieceOfPrefix ==
  ASSUME NEW file \in Seq(Cell), NEW size \in Nat, NEW off \in Nat, NEW n \in Nat,
         off <= Len(Part(file, 0, size)),
         Len(Part(Part(file, 0, size), off, n)) = n
  PROVE  Len(Part(file, off, n)) = n
<1> DEFINE end == IF size <= Len(file) THEN size ELSE Len(file)
<1> DEFINE prefix == Part(file, 0, size)
<1>1. Len(file) \in Nat /\ end \in Nat /\ end <= Len(file)
  OBVIOUS
<1>2. prefix = SubSeq(file, 1, end)
  BY DEF Part
<1>3. prefix \in Seq(Cell) /\ Len(prefix) = end
  BY <1>1, <1>2
<1> HIDE DEF end, prefix
<1>4. CASE off + n <= end
  <2>1. off + n <= Len(file)
    BY <1>1, <1>4
  <2>2. Part(file, off, n) = SubSeq(file, off + 1, off + n)
    BY <2>1 DEF Part
  <2> QED BY <1>1, <2>1, <2>2
<1>5. CASE ~(off + n <= end)
  <2>1. Part(prefix, off, n) = SubSeq(prefix, off + 1, end)
    BY <1>3, <1>5 DEF Part
  <2>2. Len(Part(prefix, off, n)) = end - off
    <3>1. off <= Len(prefix)
      BY DEF prefix
    <3>2. Len(SubSeq(prefix, off + 1, end)) = end - off
      BY <1>1, <1>3, <3>1
    <3> QED BY <2>1, <3>2
  <2>3. end - off # n
    BY <1>1, <1>5
  <2> QED BY <2>2, <2>3 DEF prefix
<1> QED BY <1>4, <1>5

\* The entries and containers of a store have their types.
LEMMA StoreTyped ==
  ASSUME FetchInv, NEW c \in DOMAIN store.index, store.index[c].container_number \in DOMAIN store.containers
  PROVE  /\ store.containers[store.index[c].container_number] \in Seq(Cell)
         /\ store.index[c].offset \in Nat /\ store.index[c].chunk_length \in Nat
<1>1. store \in Stores
  BY DEF FetchInv
<1>2. store.index[c] \in EntryType
  BY <1>1, StoreAssumption
<1>3. store.containers[store.index[c].container_number] \in Seq(Cell)
  BY <1>1, StoreAssumption
<1> QED BY <1>2, <1>3 DEF EntryType

\* A piece of a cached container that has the size of the entry is all of the chunk.
LEMMA CachedInFull ==
  ASSUME FetchInv, Next1 \in DOMAIN store.index,
         EV.container_number \in DOMAIN store.containers,
         NEW content, content = ReadContainer(EV.container_number, 0, ContainerSize),
         EV.offset <= Len(content),
         Len(Part(content, EV.offset, EV.chunk_length)) = EV.chunk_length
  PROVE  InFull(Next1)
<1> DEFINE file == store.containers[EV.container_number]
<1>1. file \in Seq(Cell) /\ EV.offset \in Nat /\ EV.chunk_length \in Nat
  BY StoreTyped DEF EV
<1>2. content = Part(file, 0, ContainerSize)
  BY DEF ReadContainer
<1>3. ContainerSize \in Nat
  BY ChunkAssumption
<1> HIDE DEF file
<1>4. Len(Part(file, EV.offset, EV.chunk_length)) = EV.chunk_length
  BY <1>1, <1>2, <1>3, PieceOfPrefix
<1> QED BY <1>4 DEF InFull, EV, ReadContainer, file

LEMMA InitFetch == Init => FetchInv
BY DEF Init, FetchInv

\* A fetch from the container cache, hit or miss.
LEMMA FetchKeeps ==
  ASSUME FetchInv, Fetching("container_cache"), Next1 \in DOMAIN store.index,
         EV.container_number \in DOMAIN store.containers,
         NEW content, content = ReadContainer(EV.container_number, 0, ContainerSize),
         Substring(content), UNCHANGED task
  PROVE  FetchInv'
<1>1. pc = "loop" /\ version \in DOMAIN recipes /\ pos \in 0..Len(Recipe)
  BY DEF FetchInv, Fetching
<1>2. /\ store' = store /\ recipes' = recipes /\ version' = version /\ method' = method
      /\ Recipe' = Recipe /\ \A c : InFull(c)' <=> InFull(c)
  BY DEF task, Recipe, InFull, ReadContainer
<1>3. CASE pc' \in {"thrown", "fatal"}
  BY <1>2, <1>3 DEF FetchInv
<1>4. CASE pc' \notin {"thrown", "fatal"}
  <2>1. /\ ~(EV.offset > Len(content))
        /\ Deliver(Part(content, EV.offset, EV.chunk_length))
    BY <1>4 DEF Substring
  <2>2. /\ Len(Part(content, EV.offset, EV.chunk_length)) = EV.chunk_length
        /\ pc' = "loop" /\ pos' = pos + 1
    BY <1>4, <2>1 DEF Deliver
  <2>3. EV.offset <= Len(content)
    <3> DEFINE file == store.containers[EV.container_number]
    <3>1. file \in Seq(Cell) /\ EV.offset \in Nat
      BY StoreTyped DEF EV
    <3>2. content = Part(file, 0, ContainerSize) /\ ContainerSize \in Nat
      BY ChunkAssumption DEF ReadContainer
    <3> HIDE DEF file
    <3>3. Len(content) \in Nat
      BY <3>1, <3>2 DEF Part
    <3> QED BY <2>1, <3>1, <3>3
  <2>4. InFull(Next1)
    BY <2>2, <2>3, CachedInFull
  <2>5. pos' \in 0..Len(Recipe) /\ \A i \in 1..pos' : i \in 1..pos \/ i = pos + 1
    <3>1. Recipe \in Seq(Chunk)
      BY <1>1, RestoreAssumption DEF Recipe, FetchInv
    <3> QED BY <1>1, <2>2, <3>1 DEF Fetching
  <2>6. \A i \in 1..pos' : InFull(Recipe[i])
    BY <1>1, <2>4, <2>5 DEF FetchInv, Next1, Fetching
  <2> QED BY <1>1, <1>2, <2>2, <2>5, <2>6 DEF FetchInv
<1> QED BY <1>3, <1>4

LEMMA NextFetch == CacheInv /\ FetchInv /\ [Next]_vars => FetchInv'
<1> SUFFICES ASSUME CacheInv, FetchInv, [Next]_vars PROVE FetchInv'
  OBVIOUS
<1>1. UNCHANGED task
        => /\ store' = store /\ recipes' = recipes /\ version' = version /\ method' = method
           /\ Recipe' = Recipe /\ \A c : InFull(c)' <=> InFull(c)
  BY DEF task, Recipe, InFull, ReadContainer
<1>2. CASE UNCHANGED vars
  BY <1>1, <1>2 DEF vars, FetchInv
<1>3. CASE NoVersion \/ Unsupported \/ UnknownChunk \/ FaaEmpty
  <2>1. UNCHANGED <<task, pos>> /\ pc' \in {"missing", "unsupported", "fatal", "undefined"}
    BY <1>3 DEF NoVersion, Unsupported, UnknownChunk, FaaEmpty, End
  <2> QED BY <1>1, <2>1 DEF FetchInv
<1>4. CASE Start
  <2>1. /\ UNCHANGED <<task, pos>> /\ pos = 0 /\ version \in DOMAIN recipes
        /\ pc' = IF method = "faa_fixed" THEN "fill" ELSE "loop"
    BY <1>4 DEF Start, FetchInv
  <2>2. Recipe \in Seq(Chunk)
    BY <2>1, RestoreAssumption DEF Recipe, FetchInv
  <2>3. pos \in 0..Len(Recipe) /\ 1..pos = {}
    BY <2>1, <2>2
  <2> QED BY <1>1, <2>1, <2>3 DEF FetchInv
<1>5. CASE ContainerHit
  <2>1. EV.container_number \in DOMAIN store.containers
        /\ container_cache[EV.container_number]
             = ReadContainer(EV.container_number, 0, ContainerSize)
    BY <1>5 DEF ContainerHit, CacheInv, Agrees
  <2> QED BY <1>5, <2>1, FetchKeeps DEF ContainerHit
<1>6. CASE ContainerMiss
  <2>1. CASE EV.container_number \notin DOMAIN store.containers
    <3>1. UNCHANGED <<task, pos>> /\ pc' = "thrown"
      BY <1>6, <2>1 DEF ContainerMiss
    <3> QED BY <1>1, <3>1 DEF FetchInv
  <2>2. CASE EV.container_number \in DOMAIN store.containers
    <3>1. /\ Fetching("container_cache") /\ Next1 \in DOMAIN store.index
          /\ Substring(ReadContainer(EV.container_number, 0, ContainerSize))
          /\ UNCHANGED task
      BY <1>6, <2>2 DEF ContainerMiss
    <3> QED BY <2>2, <3>1, FetchKeeps
  <2> QED BY <2>1, <2>2
<1>7. CASE ChunkHit \/ ChunkMiss
  <2>1. /\ UNCHANGED task /\ pc' \in {"loop", "fatal"} /\ method = "chunk_cache"
        /\ version \in DOMAIN recipes
    BY <1>7 DEF ChunkHit, ChunkMiss, Fetching, Deliver, FetchInv
  <2> QED BY <1>1, <2>1 DEF FetchInv
<1>8. CASE Finish
  <2>1. UNCHANGED <<task, pos>> /\ pc = "loop" /\ pos = Len(Recipe) /\ pc' = "done"
    BY <1>8 DEF Finish
  <2> QED BY <1>1, <2>1 DEF FetchInv
<1>9. CASE FaaFill \/ FaaEnd \/ FaaPass \/ FaaFlush
  <2>1. /\ UNCHANGED task /\ pc \in {"fill", "assemble"}
        /\ pc' \in {"fill", "assemble", "done", "undefined"}
    BY <1>9 DEF FaaFill, FaaEnd, FaaPass, FaaFlush, End
  <2>2. method = "faa_fixed" /\ version \in DOMAIN recipes
    BY <2>1 DEF FetchInv
  <2> QED BY <1>1, <2>1, <2>2 DEF FetchInv
<1> QED BY <1>2, <1>3, <1>4, <1>5, <1>6, <1>7, <1>8, <1>9 DEF Next

\* A restore through the container cache that reports success has met no
\* container that ends before one of its chunks does (main.cpp:592).
THEOREM TruncationNoticedHolds == Spec => []TruncationNoticed
<1>1. FetchInv => TruncationNoticed
  <2> SUFFICES ASSUME FetchInv, pc = "done", method = "container_cache",
                      NEW c \in Range(Recipe)
               PROVE  InFull(c)
    BY DEF TruncationNoticed, InFull
  <2>1. Recipe \in Seq(Chunk)
    BY RestoreAssumption DEF Recipe, FetchInv
  <2>2. PICK i \in 1..Len(Recipe) : c = Recipe[i]
    BY <2>1 DEF Range
  <2> QED BY <2>1, <2>2 DEF FetchInv
<1>2. Init => CacheInv /\ FetchInv
  BY InitCache, InitFetch
<1>3. CacheInv /\ FetchInv /\ [Next]_vars => (CacheInv /\ FetchInv)'
  BY NextCache, NextFetch
<1> QED BY <1>1, <1>2, <1>3, PTL DEF Spec

-------------------------------------------------------------------------------
\* The assembling buffer and the file.

\* Where the task is in its recipe, in the buffer and in the file.
OutInv ==
  /\ version \in Requests /\ old \in Olds /\ method \in Methods
  /\ pc \in Ended \cup {"start", "loop", "fill", "assemble"}
  /\ pos \in Nat /\ (pc \in {"loop", "fill", "assemble"} => pos \in 0..Len(Recipe))
  /\ out \in Seq(Cell) /\ written \in Nat /\ written <= Len(out)
  /\ asm \in Seq(Cell) /\ Len(asm) = FileCache
  /\ write_buffer_offset \in 0..FileCache

\* What the chunk cache reads into and holds.
DataInv ==
  /\ container_buf \in Seq(Cell) /\ ContainerSize <= Len(container_buf)
  /\ \A k \in DOMAIN chunk_cache : chunk_cache[k].data \in Seq(Cell)

FaaEntry == [CID : Nat, length : Nat, container_offset : Nat, faa_start : Nat, used : BOOLEAN]

FaaInv == recipe_buffer \in Seq(FaaEntry)

LEMMA Sizes ==
  FileCache \in Nat \ {0} /\ ContainerSize \in Nat /\ Hole \in Cell
BY RestoreAssumption, ChunkAssumption DEF Hole, Cell

LEMMA WriteAtTyped ==
  ASSUME NEW file \in Seq(Cell), NEW data \in Seq(Cell), NEW at \in Nat, at <= Len(file)
  PROVE  /\ WriteAt(file, at, data) \in Seq(Cell)
         /\ Len(WriteAt(file, at, data)) = Larger(Len(file), at + Len(data))
         /\ Larger(Len(file), at + Len(data)) \in Nat
<1> DEFINE n == Larger(Len(file), at + Len(data))
<1>1. /\ n \in Nat /\ Len(file) \in Nat /\ Len(data) \in Nat
      /\ DOMAIN file = 1..Len(file) /\ DOMAIN data = 1..Len(data)
  BY DEF Larger
<1>2. \A i \in 1..n : i \in (at + 1)..(at + Len(data)) => i - at \in 1..Len(data)
  BY <1>1
<1>3. \A i \in 1..n : i \notin (at + 1)..(at + Len(data)) => i \in 1..Len(file)
  BY <1>1 DEF Larger
<1> DEFINE new == WriteAt(file, at, data)
<1>4. new = [i \in 1..n |-> IF i \in (at + 1)..(at + Len(data)) THEN data[i - at] ELSE file[i]]
  BY DEF WriteAt
<1> HIDE DEF n, new
<1>5. \A i \in 1..n : new[i] \in Cell
  <2>1. (\A i \in 1..Len(data) : data[i] \in Cell) /\ (\A i \in 1..Len(file) : file[i] \in Cell)
    OBVIOUS
  <2> QED BY <1>2, <1>3, <1>4, <2>1
<1>6. new = [i \in 1..n |-> new[i]]
  BY <1>4
<1>7. new \in Seq(Cell) /\ Len(new) = n
  BY <1>1, <1>5, <1>6
<1> QED BY <1>1, <1>7 DEF n, new

LEMMA PartTyped ==
  ASSUME NEW file \in Seq(Cell), NEW off \in Nat, NEW n \in Nat
  PROVE  Part(file, off, n) \in Seq(Cell) /\ Len(Part(file, off, n)) \in 0..n
<1> DEFINE end == IF off + n <= Len(file) THEN off + n ELSE Len(file)
<1>1. end \in Nat /\ end <= Len(file) /\ end <= off + n
  OBVIOUS
<1>2. Part(file, off, n) = SubSeq(file, off + 1, end)
  BY DEF Part
<1> HIDE DEF end
<1>3. \A i \in (off + 1)..end : file[i] \in Cell
  BY <1>1
<1>4. SubSeq(file, off + 1, end) \in Seq(Cell) /\ Len(SubSeq(file, off + 1, end)) \in 0..n
  BY <1>1, <1>3
<1> QED BY <1>2, <1>4

\* What is read of a container, if it is there, is typed and not too long.
LEMMA ReadTyped ==
  ASSUME FetchInv, NEW number, NEW off \in Nat, NEW n \in Nat
  PROVE  ReadContainer(number, off, n) \in Seq(Cell) /\ Len(ReadContainer(number, off, n)) \in 0..n
<1>1. CASE number \in DOMAIN store.containers
  <2>1. store.containers[number] \in Seq(Cell)
    BY <1>1, StoreAssumption DEF FetchInv
  <2> QED BY <1>1, <2>1, PartTyped DEF ReadContainer
<1>2. CASE number \notin DOMAIN store.containers
  BY <1>2 DEF ReadContainer
<1> QED BY <1>1, <1>2

LEMMA HolesTyped ==
  ASSUME NEW n \in Nat
  PROVE  Holes(n) \in Seq(Cell) /\ Len(Holes(n)) = n
BY Sizes DEF Holes

LEMMA EntryTyped ==
  ASSUME FetchInv, NEW c \in DOMAIN store.index
  PROVE  /\ store.index[c].offset \in Nat /\ store.index[c].chunk_length \in Nat
         /\ store.index[c].container_number \in Nat
         /\ store.index[c].chunk_length <= FileCache /\ store.index[c].chunk_length <= ContainerSize
<1>1. store \in Stores
  BY DEF FetchInv
<1>2. store.index[c] \in EntryType /\ store.index[c].chunk_length <= FileCache
      /\ store.index[c].chunk_length <= ContainerSize
  BY <1>1, StoreAssumption
<1> QED BY <1>2 DEF EntryType

LEMMA InitOut == Init => OutInv /\ DataInv /\ FaaInv
<1> SUFFICES ASSUME Init PROVE OutInv /\ DataInv /\ FaaInv
  OBVIOUS
<1>1. asm \in Seq(Cell) /\ Len(asm) = FileCache
  BY Sizes, HolesTyped DEF Init
<1>2. container_buf \in Seq(Cell) /\ Len(container_buf) = ContainerSize
  BY Sizes, HolesTyped DEF Init
<1>3. out \in Seq(Cell) /\ written = 0 /\ 0 <= Len(out)
  BY RestoreAssumption DEF Init
<1>4. 0 \in 0..FileCache
  BY Sizes
<1>5. OutInv
  BY <1>1, <1>3, <1>4 DEF Init, OutInv
<1>6. DataInv
  BY <1>2, Sizes DEF Init, DataInv
<1> QED BY <1>5, <1>6 DEF Init, FaaInv

\* A flush of what the buffer holds.
LEMMA FlushTyped ==
  ASSUME OutInv, Flush(write_buffer_offset)
  PROVE  out' \in Seq(Cell) /\ written' \in Nat /\ written' <= Len(out')
<1> DEFINE data == SubSeq(asm, 1, write_buffer_offset)
<1>1. data \in Seq(Cell) /\ Len(data) = write_buffer_offset
  BY Sizes DEF OutInv
<1>2. /\ out' = WriteAt(out, written, data) /\ written' = written + write_buffer_offset
      /\ out \in Seq(Cell) /\ written \in Nat /\ written <= Len(out)
      /\ write_buffer_offset \in Nat
  BY Sizes DEF Flush, OutInv
<1> HIDE DEF data
<1>3. /\ out' \in Seq(Cell) /\ Len(out') = Larger(Len(out), written + Len(data))
  BY <1>1, <1>2, WriteAtTyped
<1>4. Len(out') >= written + write_buffer_offset
  BY <1>1, <1>2, <1>3 DEF Larger
<1> QED BY <1>2, <1>3, <1>4

\* A chunk that is delivered goes into the buffer, which has room for it.
LEMMA DeliverTyped ==
  ASSUME FetchInv, OutInv, pc = "loop", pos < Len(Recipe), Next1 \in DOMAIN store.index,
         NEW data \in Seq(Cell), Deliver(data), UNCHANGED task
  PROVE  OutInv'
<1>1. Recipe' = Recipe /\ version' \in Requests /\ old' \in Olds /\ method' \in Methods
  BY DEF task, Recipe, OutInv
<1>2. CASE Len(data) # EV.chunk_length
  <2>1. pc' = "fatal" /\ UNCHANGED <<pos, output, buffer>>
    BY <1>2 DEF Deliver
  <2> QED BY <1>1, <2>1 DEF OutInv, output, buffer, Ended
<1>3. CASE Len(data) = EV.chunk_length
  <2> DEFINE full == write_buffer_offset + Len(data) >= FileCache
  <2> DEFINE at == IF full THEN 0 ELSE write_buffer_offset
  <2>1. /\ pc' = "loop" /\ pos' = pos + 1 /\ Assemble(data)
    BY <1>3 DEF Deliver
  <2>2. /\ IF full THEN Flush(write_buffer_offset) ELSE UNCHANGED output
        /\ asm' = WriteAt(asm, at, data)
        /\ write_buffer_offset' = at + Len(data)
    BY <2>1 DEF Assemble
  <2>3. Len(data) \in Nat /\ Len(data) <= FileCache
    BY <1>3, EntryTyped DEF EV
  <2>4. at \in Nat /\ at + Len(data) <= FileCache /\ at <= FileCache /\ FileCache \in Nat
    BY <2>3, Sizes DEF OutInv
  <2>5. out' \in Seq(Cell) /\ written' \in Nat /\ written' <= Len(out')
    BY <2>2, FlushTyped DEF OutInv, output
  <2> HIDE DEF at, full
  <2>6. asm' \in Seq(Cell) /\ Len(asm') = FileCache
    <3>1. asm \in Seq(Cell) /\ Len(asm) = FileCache
      BY DEF OutInv
    <3>2. asm' \in Seq(Cell) /\ Len(asm') = Larger(FileCache, at + Len(data))
      BY <2>2, <2>4, <3>1, WriteAtTyped
    <3> QED BY <2>3, <2>4, <3>2 DEF Larger
  <2>7. write_buffer_offset' \in 0..FileCache
    BY <2>2, <2>3, <2>4
  <2>8. pos' \in Nat /\ pos' \in 0..Len(Recipe)
    <3>1. Recipe \in Seq(Chunk)
      BY RestoreAssumption DEF Recipe, FetchInv
    <3> QED BY <2>1, <3>1 DEF OutInv
  <2> QED BY <1>1, <2>1, <2>5, <2>6, <2>7, <2>8 DEF OutInv
<1> QED BY <1>2, <1>3

\* An entry of the forward assembly, of a chunk that is indexed or not.
LEMMA EntryOfTyped ==
  ASSUME FetchInv, NEW c
  PROVE  /\ EntryOf(c).offset \in Nat /\ EntryOf(c).chunk_length \in Nat
         /\ EntryOf(c).container_number \in Nat
<1>1. CASE c \in DOMAIN store.index
  BY <1>1, EntryTyped DEF EntryOf
<1>2. CASE c \notin DOMAIN store.index
  BY <1>2 DEF EntryOf, Entry
<1> QED BY <1>1, <1>2

\* The places of the chunks in the buffer are the sums of their lengths.
LEMMA StartsAre ==
  ASSUME FetchInv, NEW n \in Nat, n = Len(Recipe) - pos
  PROVE  \A k \in 0..n :
           faa_start[k] = IF k = 0 THEN 0
                          ELSE faa_start[k - 1] + EntryOf(Recipe[pos + k]).chunk_length
<1> DEFINE len(k) == EntryOf(Recipe[pos + k]).chunk_length
<1> DEFINE Sums(f, m) == [k \in 0..m |-> IF k = 0 THEN 0 ELSE f[k - 1] + len(k)]
<1> DEFINE Built == {m \in Nat : \E f : f = Sums(f, m) /\ \A k \in 0..m : f[k] \in Nat}
<1>1. \A k : len(k) \in Nat
  BY EntryOfTyped
<1>2. 0 \in Built
  <2> DEFINE f == [k \in {0} |-> 0]
  <2>1. 0..0 = {0}
    OBVIOUS
  <2>2. f = Sums(f, 0) /\ \A k \in 0..0 : f[k] \in Nat
    BY <2>1
  <2> QED BY <2>2
<1>3. ASSUME NEW m \in 0..n, m \in Built PROVE m + 1 \in Built
  <2>1. PICK f : f = Sums(f, m) /\ \A k \in 0..m : f[k] \in Nat
    BY <1>3
  <2> DEFINE g == [k \in 0..(m + 1) |-> IF k <= m THEN f[k] ELSE f[m] + len(m + 1)]
  <2>2. \A k \in 0..(m + 1) : k <= m => k \in 0..m
    BY <1>3
  <2>3. \A k \in 0..(m + 1) : k # 0 => k - 1 \in 0..m /\ k - 1 <= m /\ k - 1 \in 0..(m + 1)
    BY <1>3
  <2>4. \A k \in 0..(m + 1) : ~(k <= m) => k = m + 1 /\ k # 0 /\ k - 1 = m
    BY <1>3
  <2>5. \A k \in 0..m : f[k] = IF k = 0 THEN 0 ELSE f[k - 1] + len(k)
    <3> HIDE DEF len
    <3> QED BY <2>1
  <2>6. m \in 0..m /\ f[m] \in Nat
    BY <1>3, <2>1
  <2> HIDE DEF len
  <2>7. \A k \in 0..(m + 1) : g[k] \in Nat
    BY <1>1, <2>1, <2>2, <2>6
  <2>8. \A k \in 0..(m + 1) : k # 0 => g[k - 1] = f[k - 1]
    BY <2>3
  <2>9. \A k \in 0..(m + 1) : g[k] = IF k = 0 THEN 0 ELSE g[k - 1] + len(k)
    <3> TAKE k \in 0..(m + 1)
    <3>1. CASE k <= m
      <4>1. k \in 0..m /\ g[k] = f[k]
        BY <2>2, <3>1
      <4> QED BY <2>5, <2>8, <4>1
    <3>2. CASE ~(k <= m)
      <4>1. k = m + 1 /\ k # 0 /\ k - 1 = m
        BY <2>4, <3>2
      <4>2. g[k] = f[m] + len(m + 1)
        BY <3>2
      <4> QED BY <2>8, <4>1, <4>2
    <3> QED BY <3>1, <3>2
  <2>10. g = Sums(g, m + 1)
    <3>1. g = [k \in 0..(m + 1) |-> g[k]]
      OBVIOUS
    <3> HIDE DEF g
    <3> QED BY <2>9, <3>1
  <2>11. m + 1 \in Nat
    BY <1>3
  <2> HIDE DEF g
  <2> QED BY <2>7, <2>10, <2>11
<1>4. n \in Built
  <2> HIDE DEF Built
  <2>1. \A m \in 0..(n + 1) : m \in Built
    BY <1>2, <1>3, Reached
  <2> QED BY <2>1
<1>5. \E f : f = Sums(f, n)
  BY <1>4
<1>6. faa_start = CHOOSE f : f = Sums(f, n)
  BY DEF faa_start
<1>7. faa_start = Sums(faa_start, n)
  <2> HIDE DEF Sums
  <2> QED BY <1>5, <1>6
<1> HIDE DEF len
<1>8. \A k \in 0..n : faa_start[k] = IF k = 0 THEN 0 ELSE faa_start[k - 1] + len(k)
  <2> DEFINE f == faa_start
  <2>1. f = Sums(f, n)
    BY <1>7
  <2> HIDE DEF f
  <2>2. \A k \in 0..n : f[k] = IF k = 0 THEN 0 ELSE f[k - 1] + len(k)
    BY <2>1
  <2> QED BY <2>2 DEF f
<1> QED BY <1>8 DEF len

LEMMA StartsTyped ==
  ASSUME FetchInv, NEW n \in Nat, n = Len(Recipe) - pos
  PROVE  faa_start[0] = 0 /\ \A k \in 0..n : faa_start[k] \in Nat
<1> DEFINE len(k) == EntryOf(Recipe[pos + k]).chunk_length
<1>1. \A k : len(k) \in Nat
  BY EntryOfTyped
<1> DEFINE Fine == {k \in Nat : k \in 0..n => faa_start[k] \in Nat}
<1>2. \A k \in 0..n : faa_start[k] = IF k = 0 THEN 0 ELSE faa_start[k - 1] + len(k)
  BY StartsAre
<1> HIDE DEF len
<1>3. faa_start[0] = 0
  BY <1>2
<1>4. ASSUME NEW k \in 0..n, k \in Fine PROVE k + 1 \in Fine
  <2>1. k + 1 # 0 /\ (k + 1) - 1 = k /\ k + 1 \in Nat
    BY <1>4
  <2>2. faa_start[k] \in Nat
    BY <1>4
  <2>3. CASE k + 1 \in 0..n
    <3>1. faa_start[k + 1] = faa_start[k] + len(k + 1)
      BY <1>2, <2>1, <2>3
    <3>2. faa_start[k + 1] \in Nat
      BY <1>1, <2>2, <3>1
    <3> QED BY <2>1, <3>2
  <2> QED BY <2>1, <2>3
<1>5. 0 \in Fine
  BY <1>3
<1> HIDE DEF Fine
<1>6. \A k \in 0..(n + 1) : k \in Fine
  BY <1>4, <1>5, Reached
<1> QED BY <1>3, <1>6 DEF Fine

\* There is a number of chunks that fills the buffer as far as it goes.
LEMMA CountTyped ==
  ASSUME FetchInv, NEW n \in Nat, n = Len(Recipe) - pos
  PROVE  FaaCount \in 0..n /\ faa_start[FaaCount] \in 0..FileCache
<1>1. faa_start[0] = 0 /\ \A k \in 0..n : faa_start[k] \in Nat
  BY StartsTyped
<1> DEFINE T == {k \in 0..n : faa_start[k] <= FileCache}
<1>2. 0 \in T /\ T \in SUBSET (0..n)
  BY <1>1, Sizes
<1>3. PICK k \in T : \A u \in T : u <= k
  BY <1>2, HasGreatest
<1>4. k \in 0..n /\ faa_start[k] <= FileCache
  BY <1>3
<1>5. k < n => faa_start[k + 1] > FileCache
  <2>1. SUFFICES ASSUME k < n PROVE faa_start[k + 1] > FileCache
    OBVIOUS
  <2>2. k + 1 \in 0..n /\ ~(k + 1 <= k)
    BY <1>4, <2>1
  <2>3. k + 1 \notin T
    BY <1>3, <2>2
  <2> QED BY <1>1, <2>2, <2>3, Sizes
<1>6. \E m \in 0..n : faa_start[m] <= FileCache /\ (m < n => faa_start[m + 1] > FileCache)
  BY <1>4, <1>5
<1>7. FaaCount \in 0..n /\ faa_start[FaaCount] <= FileCache
  BY <1>6 DEF FaaCount
<1> QED BY <1>1, <1>7, Sizes

LEMMA FillTyped ==
  ASSUME FetchInv, OutInv, FaaFill
  PROVE  OutInv' /\ FaaInv'
<1> DEFINE n == Len(Recipe) - pos
<1>1. pc = "fill" /\ version \in DOMAIN recipes /\ pos \in 0..Len(Recipe)
  BY DEF FaaFill, FetchInv, OutInv
<1>2. Recipe \in Seq(Chunk) /\ Len(Recipe) \in Nat
  BY <1>1, RestoreAssumption DEF Recipe, FetchInv
<1>3. n \in Nat
  BY <1>1, <1>2
<1>4. FaaCount \in 0..n /\ faa_start[FaaCount] \in 0..FileCache
  BY <1>3, CountTyped
<1>5. \A k \in 0..n : faa_start[k] \in Nat
  BY <1>3, StartsTyped
<1>6. /\ recipe_buffer' =
           [k \in 1..FaaCount |->
              recipe_buffer_entry(EntryOf(Recipe[pos + k]), faa_start[k - 1])]
      /\ write_buffer_offset' = faa_start[FaaCount]
      /\ pos' = pos + FaaCount
      /\ pc' = "assemble"
      /\ UNCHANGED <<task, output, asm, containerCache, chunkCache>>
  BY DEF FaaFill
<1>7. \A k \in 1..FaaCount :
         recipe_buffer_entry(EntryOf(Recipe[pos + k]), faa_start[k - 1]) \in FaaEntry
  <2> TAKE k \in 1..FaaCount
  <2>1. k - 1 \in 0..n
    BY <1>3, <1>4
  <2>2. faa_start[k - 1] \in Nat
    BY <1>5, <2>1
  <2> QED BY <2>2, EntryOfTyped DEF recipe_buffer_entry, FaaEntry
<1>8. recipe_buffer' \in Seq(FaaEntry)
  <2>1. FaaCount \in Nat
    BY <1>4
  <2> QED BY <1>6, <1>7, <2>1
<1>9. pos' \in Nat /\ pos' \in 0..Len(Recipe)
  BY <1>1, <1>2, <1>4, <1>6
<1>10. Recipe' = Recipe
  BY <1>6 DEF task, Recipe
<1>11. OutInv'
  BY <1>4, <1>6, <1>9, <1>10 DEF OutInv, task, output
<1> QED BY <1>8, <1>11 DEF FaaInv


\* A container in memory is a whole buffer.
LEMMA LoadedTyped ==
  ASSUME FetchInv, NEW cid
  PROVE  loadContainer(cid) \in Seq(Cell) /\ Len(loadContainer(cid)) = ContainerSize
<1> DEFINE data == ReadContainer(cid, 0, ContainerSize)
<1>1. ContainerSize \in Nat /\ data \in Seq(Cell) /\ Len(data) \in 0..ContainerSize
  BY Sizes, ReadTyped
<1> DEFINE holes == Holes(ContainerSize)
<1>2. holes \in Seq(Cell) /\ Len(holes) = ContainerSize /\ 0 <= Len(holes)
  BY <1>1, HolesTyped
<1> HIDE DEF data, holes
<1>3. WriteAt(holes, 0, data) \in Seq(Cell)
      /\ Len(WriteAt(holes, 0, data)) = Larger(ContainerSize, 0 + Len(data))
  BY <1>1, <1>2, WriteAtTyped
<1>4. Larger(ContainerSize, 0 + Len(data)) = ContainerSize
  BY <1>1 DEF Larger
<1> QED BY <1>3, <1>4 DEF loadContainer, data, holes

\* A pass of the forward assembly copies into the buffer from within the
\* container and keeps the size of both.
LEMMA PassTyped ==
  ASSUME FetchInv, OutInv, FaaInv, FaaPass
  PROVE  OutInv' /\ FaaInv'
<1> DEFINE first == CHOOSE k \in Unused : \A j \in Unused : k <= j
<1> DEFINE cid == recipe_buffer[first].CID
<1> DEFINE loaded == loadContainer(cid)
<1> DEFINE At(i) == {k \in Served(cid) :
                       i \in (recipe_buffer[k].faa_start + 1)
                             ..(recipe_buffer[k].faa_start + recipe_buffer[k].length)}
<1> DEFINE Beyond == \E k \in Served(cid) :
              recipe_buffer[k].container_offset + recipe_buffer[k].length > ContainerSize
<1>1. /\ pc = "assemble"
      /\ UNCHANGED <<task, pos, output, write_buffer_offset, containerCache, chunkCache>>
  BY DEF FaaPass
<1>2. Recipe' = Recipe
  BY <1>1 DEF task, Recipe
<1>3. CASE Beyond
  <2>1. pc' = "undefined" /\ UNCHANGED <<asm, recipe_buffer>>
    BY <1>3 DEF FaaPass
  <2> QED BY <1>1, <1>2, <2>1 DEF OutInv, FaaInv, task, output, Ended
<1>4. CASE ~Beyond
  <2>1. /\ asm' = [i \in 1..Len(asm) |->
                     IF At(i) = {} THEN asm[i]
                     ELSE LET x == recipe_buffer[CHOOSE k \in At(i) : TRUE]
                          IN  loaded[x.container_offset + i - x.faa_start]]
        /\ recipe_buffer' = [k \in DOMAIN recipe_buffer |->
                               IF k \in Served(cid)
                               THEN [recipe_buffer[k] EXCEPT !.used = TRUE]
                               ELSE recipe_buffer[k]]
        /\ pc' = "assemble"
    BY <1>4 DEF FaaPass
  <2>2. loaded \in Seq(Cell) /\ Len(loaded) = ContainerSize /\ ContainerSize \in Nat
    BY LoadedTyped, Sizes
  <2>3. /\ DOMAIN recipe_buffer = 1..Len(recipe_buffer) /\ Len(recipe_buffer) \in Nat
        /\ \A k \in DOMAIN recipe_buffer : recipe_buffer[k] \in FaaEntry
    BY DEF FaaInv
  <2>4. Served(cid) \subseteq DOMAIN recipe_buffer
    BY DEF Served, Unused
  <2>5. \A k \in Served(cid) :
           recipe_buffer[k].container_offset + recipe_buffer[k].length <= ContainerSize
    <3> TAKE k \in Served(cid)
    <3>1. recipe_buffer[k].container_offset \in Nat /\ recipe_buffer[k].length \in Nat
      BY <2>3, <2>4 DEF FaaEntry
    <3>2. ~(recipe_buffer[k].container_offset + recipe_buffer[k].length > ContainerSize)
      BY <1>4
    <3> QED BY <2>2, <3>1, <3>2
  <2> HIDE DEF loaded, cid, Beyond
  <2>6. ASSUME NEW i \in 1..Len(asm), NEW k \in At(i)
        PROVE  loaded[recipe_buffer[k].container_offset + i - recipe_buffer[k].faa_start] \in Cell
    <3> DEFINE x == recipe_buffer[k]
    <3>1. /\ x.container_offset \in Nat /\ x.length \in Nat /\ x.faa_start \in Nat
          /\ x.container_offset + x.length <= ContainerSize
          /\ i \in (x.faa_start + 1)..(x.faa_start + x.length)
      BY <2>3, <2>4, <2>5 DEF FaaEntry
    <3> HIDE DEF x
    <3>2. x.container_offset + i - x.faa_start \in 1..ContainerSize
      BY <2>2, <3>1
    <3>3. \A j \in 1..ContainerSize : loaded[j] \in Cell
      BY <2>2
    <3> QED BY <3>2, <3>3 DEF x
  <2>7. asm \in Seq(Cell) /\ Len(asm) = FileCache /\ FileCache \in Nat
    BY Sizes DEF OutInv
  <2>8. \A i \in 1..Len(asm) : asm'[i] \in Cell
    <3> TAKE i \in 1..Len(asm)
    <3>1. CASE At(i) = {}
      <4>1. asm'[i] = asm[i]
        BY <2>1, <3>1
      <4> QED BY <2>7, <4>1
    <3>2. CASE At(i) # {}
      <4> DEFINE k == CHOOSE k \in At(i) : TRUE
      <4>1. k \in At(i)
        BY <3>2
      <4>2. asm'[i] = loaded[recipe_buffer[k].container_offset + i - recipe_buffer[k].faa_start]
        BY <2>1, <3>2
      <4> HIDE DEF k, At
      <4> QED BY <2>6, <4>1, <4>2
    <3> QED BY <3>1, <3>2
  <2>9. asm' \in Seq(Cell) /\ Len(asm') = FileCache
    <3> DEFINE Byte(i) == IF At(i) = {} THEN asm[i]
                          ELSE LET x == recipe_buffer[CHOOSE k \in At(i) : TRUE]
                               IN  loaded[x.container_offset + i - x.faa_start]
    <3>1. asm' = [i \in DOMAIN asm |-> Byte(i)]
      BY <2>1
    <3> HIDE DEF Byte
    <3>2. DOMAIN asm = 1..FileCache
      BY <2>7
    <3>3. asm' = [i \in 1..FileCache |-> asm'[i]]
      BY <3>1, <3>2
    <3> QED BY <2>7, <2>8, <3>3
  <2>10. OutInv'
    BY <1>1, <1>2, <2>1, <2>9 DEF OutInv, task, output
  <2>11. recipe_buffer' \in Seq(FaaEntry)
    <3>1. \A k \in 1..Len(recipe_buffer) : recipe_buffer'[k] \in FaaEntry
      <4> TAKE k \in 1..Len(recipe_buffer)
      <4>1. recipe_buffer[k] \in FaaEntry
        BY <2>3
      <4>2. [recipe_buffer[k] EXCEPT !.used = TRUE] \in FaaEntry
        BY <4>1 DEF FaaEntry
      <4>3. recipe_buffer'[k] = IF k \in Served(cid)
                                THEN [recipe_buffer[k] EXCEPT !.used = TRUE]
                                ELSE recipe_buffer[k]
        BY <2>1, <2>3
      <4> QED BY <4>1, <4>2, <4>3
    <3>2. recipe_buffer' = [k \in 1..Len(recipe_buffer) |-> recipe_buffer'[k]]
      BY <2>1, <2>3
    <3> QED BY <2>3, <3>1, <3>2
  <2> QED BY <2>10, <2>11 DEF FaaInv
<1> QED BY <1>3, <1>4

\* A fetch from the container cache delivers a piece of a container.
LEMMA SubstringTyped ==
  ASSUME FetchInv, OutInv, pc = "loop", pos < Len(Recipe), Next1 \in DOMAIN store.index,
         NEW content \in Seq(Cell), Substring(content), UNCHANGED task
  PROVE  OutInv'
<1>1. CASE EV.offset > Len(content)
  <2>1. pc' = "thrown" /\ UNCHANGED <<pos, output, buffer>>
    BY <1>1 DEF Substring
  <2> QED BY <2>1 DEF OutInv, task, output, buffer, Ended
<1>2. CASE ~(EV.offset > Len(content))
  <2> DEFINE data == Part(content, EV.offset, EV.chunk_length)
  <2>1. Deliver(data)
    BY <1>2 DEF Substring
  <2>2. data \in Seq(Cell)
    BY EntryTyped, PartTyped DEF EV
  <2> HIDE DEF data
  <2> QED BY <2>1, <2>2, DeliverTyped
<1> QED BY <1>1, <1>2

LEMMA MissTyped ==
  ASSUME FetchInv, OutInv, DataInv, ChunkMiss
  PROVE  OutInv' /\ DataInv'
<1> DEFINE key == ChunkGlobalID(Next1)
<1> DEFINE kept == EvictLRU
<1> DEFINE data == SubSeq(container_buf', 1, EV.chunk_length)
<1> DEFINE read == ReadContainer(EV.container_number, EV.offset, EV.chunk_length)
<1>1. /\ pc = "loop" /\ pos < Len(Recipe) /\ Next1 \in DOMAIN store.index
      /\ container_buf' = WriteAt(container_buf, 0, read)
      /\ chunk_cache' = [k \in DOMAIN kept.cache \cup {key} |->
                           IF k = key THEN [data |-> data, stamp |-> LRUtimestamp + 1]
                                      ELSE kept.cache[k]]
      /\ Deliver(data) /\ UNCHANGED task
  BY DEF ChunkMiss, Fetching
<1>2. /\ EV.offset \in Nat /\ EV.chunk_length \in Nat /\ EV.chunk_length <= ContainerSize
  BY <1>1, EntryTyped DEF EV
<1>3. read \in Seq(Cell) /\ Len(read) \in Nat
  BY <1>2, ReadTyped
<1> HIDE DEF read, key
<1>4. /\ container_buf' \in Seq(Cell)
      /\ Len(container_buf') = Larger(Len(container_buf), 0 + Len(read))
  <2>1. container_buf \in Seq(Cell) /\ 0 <= Len(container_buf)
    BY DEF DataInv
  <2> QED BY <1>1, <1>3, <2>1, WriteAtTyped
<1>5. ContainerSize <= Len(container_buf') /\ Len(container_buf') \in Nat
  BY <1>3, <1>4, Sizes DEF DataInv, Larger
<1>6. data \in Seq(Cell)
  <2> DEFINE buf == container_buf'
  <2>1. buf \in Seq(Cell) /\ EV.chunk_length <= Len(buf) /\ EV.chunk_length \in Nat
    BY <1>2, <1>4, <1>5, Sizes
  <2> HIDE DEF buf
  <2>2. SubSeq(buf, 1, EV.chunk_length) \in Seq(Cell)
    BY <2>1
  <2> QED BY <2>2 DEF buf
<1> HIDE DEF data
<1>7. OutInv'
  BY <1>1, <1>6, DeliverTyped
<1>8. \A k \in DOMAIN kept.cache : kept.cache[k].data \in Seq(Cell)
  <2>1. \A k \in DOMAIN kept.cache : k \in DOMAIN chunk_cache /\ kept.cache[k] = chunk_cache[k]
    BY DEF EvictLRU, Restrict
  <2> QED BY <2>1 DEF DataInv
<1> HIDE DEF kept
<1>9. \A k \in DOMAIN chunk_cache' : chunk_cache'[k].data \in Seq(Cell)
  BY <1>1, <1>6, <1>8
<1> QED BY <1>4, <1>5, <1>7, <1>9 DEF DataInv

LEMMA HitTyped ==
  ASSUME FetchInv, LruInv, OutInv, DataInv, ChunkHit
  PROVE  OutInv' /\ DataInv'
<1> DEFINE key == ChunkGlobalID(Next1)
<1>1. /\ pc = "loop" /\ pos < Len(Recipe) /\ Next1 \in DOMAIN store.index
      /\ key \in DOMAIN chunk_cache
      /\ chunk_cache' = [chunk_cache EXCEPT ![key].stamp = LRUtimestamp + 1]
      /\ Deliver(chunk_cache[key].data) /\ UNCHANGED <<task, container_buf>>
  BY DEF ChunkHit, Fetching
<1> HIDE DEF key
<1>2. OutInv'
  <2>1. chunk_cache[key].data \in Seq(Cell)
    BY <1>1 DEF DataInv
  <2> QED BY <1>1, <2>1, DeliverTyped
<1>3. \A k \in DOMAIN chunk_cache' :
         k \in DOMAIN chunk_cache /\ chunk_cache'[k].data \in Seq(Cell)
  <2> TAKE k \in DOMAIN chunk_cache'
  <2>1. k \in DOMAIN chunk_cache /\ chunk_cache[k].data \in Seq(Cell)
    BY <1>1 DEF DataInv
  <2>2. CASE k # key
    BY <1>1, <2>1, <2>2
  <2>3. CASE k = key
    <3>1. chunk_cache[k] = [data |-> chunk_cache[k].data, stamp |-> chunk_cache[k].stamp]
      BY <2>1 DEF LruInv, InStep
    <3>2. chunk_cache'[k] = [chunk_cache[k] EXCEPT !.stamp = LRUtimestamp + 1]
      BY <1>1, <2>1, <2>3
    <3>3. chunk_cache'[k].data = chunk_cache[k].data
      BY <3>1, <3>2
    <3> QED BY <2>1, <3>3
  <2> QED BY <2>1, <2>2, <2>3
<1> QED BY <1>1, <1>2, <1>3 DEF DataInv


LEMMA NextOut ==
  CacheInv /\ FetchInv /\ LruInv /\ OutInv /\ DataInv /\ FaaInv /\ [Next]_vars
    => (OutInv /\ DataInv /\ FaaInv)'
<1> SUFFICES ASSUME CacheInv, FetchInv, LruInv, OutInv, DataInv, FaaInv, [Next]_vars
             PROVE  OutInv' /\ DataInv' /\ FaaInv'
  OBVIOUS
<1>1. UNCHANGED chunkCache => DataInv'
  BY DEF chunkCache, DataInv
<1>2. UNCHANGED recipe_buffer => FaaInv'
  BY DEF FaaInv
<1>3. UNCHANGED task => Recipe' = Recipe /\ version' = version /\ old' = old /\ method' = method
  BY DEF task, Recipe
<1>4. CASE UNCHANGED vars
  <2>1. UNCHANGED <<task, pc, pos, output, buffer, chunkCache, recipe_buffer>>
    BY <1>4 DEF vars
  <2> QED BY <1>1, <1>2, <1>3, <2>1 DEF OutInv, output, buffer
<1>5. CASE NoVersion \/ Unsupported \/ UnknownChunk \/ FaaEmpty \/ FaaEnd
  <2>1. /\ UNCHANGED <<task, pos, output, buffer, chunkCache, recipe_buffer>>
        /\ pc' \in Ended
    BY <1>5 DEF NoVersion, Unsupported, UnknownChunk, FaaEmpty, FaaEnd, End, Ended
  <2> QED BY <1>1, <1>2, <1>3, <2>1 DEF OutInv, output, buffer, Ended
<1>6. CASE Start
  <2>1. /\ UNCHANGED <<task, pos, output, buffer, chunkCache, recipe_buffer>>
        /\ pc' \in {"fill", "loop"} /\ pos = 0 /\ version \in DOMAIN recipes
    BY <1>6 DEF Start, FetchInv
  <2>2. Recipe \in Seq(Chunk)
    BY <2>1, RestoreAssumption DEF Recipe, FetchInv
  <2>3. pos \in 0..Len(Recipe)
    BY <2>1, <2>2
  <2> QED BY <1>1, <1>2, <1>3, <2>1, <2>3 DEF OutInv, output, buffer
<1>7. CASE ContainerHit
  <2> DEFINE content == container_cache[EV.container_number]
  <2>1. /\ pc = "loop" /\ pos < Len(Recipe) /\ Next1 \in DOMAIN store.index
        /\ Substring(content) /\ EV.container_number \in index_set
        /\ UNCHANGED <<task, chunkCache, recipe_buffer>>
    BY <1>7 DEF ContainerHit, Fetching
  <2>2. content = ReadContainer(EV.container_number, 0, ContainerSize)
    BY <2>1 DEF CacheInv, Agrees
  <2> HIDE DEF content
  <2>3. content \in Seq(Cell)
    BY <2>2, ReadTyped, Sizes
  <2> QED BY <1>1, <1>2, <2>1, <2>3, SubstringTyped
<1>8. CASE ContainerMiss
  <2>1. CASE EV.container_number \notin DOMAIN store.containers
    <3>1. UNCHANGED <<task, pos, output, buffer, chunkCache, recipe_buffer>> /\ pc' = "thrown"
      BY <1>8, <2>1 DEF ContainerMiss
    <3> QED BY <1>1, <1>2, <1>3, <3>1 DEF OutInv, output, buffer, Ended
  <2>2. CASE EV.container_number \in DOMAIN store.containers
    <3> DEFINE content == ReadContainer(EV.container_number, 0, ContainerSize)
    <3>1. /\ pc = "loop" /\ pos < Len(Recipe) /\ Next1 \in DOMAIN store.index
          /\ Substring(content) /\ UNCHANGED <<task, chunkCache, recipe_buffer>>
      BY <1>8, <2>2 DEF ContainerMiss, Fetching
    <3>2. content \in Seq(Cell)
      BY ReadTyped, Sizes
    <3> HIDE DEF content
    <3> QED BY <1>1, <1>2, <3>1, <3>2, SubstringTyped
  <2> QED BY <2>1, <2>2
<1>9. CASE ChunkHit
  <2>1. UNCHANGED recipe_buffer
    BY <1>9 DEF ChunkHit
  <2> QED BY <1>2, <1>9, <2>1, HitTyped
<1>10. CASE ChunkMiss
  <2>1. UNCHANGED recipe_buffer
    BY <1>10 DEF ChunkMiss
  <2> QED BY <1>2, <1>10, <2>1, MissTyped
<1>11. CASE Finish
  <2>1. /\ UNCHANGED <<task, pos, buffer, chunkCache, recipe_buffer>> /\ pc' = "done"
        /\ Flush(write_buffer_offset)
    BY <1>11 DEF Finish, LastFlush
  <2>2. out' \in Seq(Cell) /\ written' \in Nat /\ written' <= Len(out')
    BY <2>1, FlushTyped
  <2> QED BY <1>1, <1>2, <1>3, <2>1, <2>2 DEF OutInv, buffer, Ended
<1>12. CASE FaaFill
  <2>1. UNCHANGED chunkCache
    BY <1>12 DEF FaaFill
  <2> QED BY <1>1, <1>12, <2>1, FillTyped
<1>13. CASE FaaPass
  <2>1. UNCHANGED chunkCache
    BY <1>13 DEF FaaPass
  <2> QED BY <1>1, <1>13, <2>1, PassTyped
<1>14. CASE FaaFlush
  <2>1. /\ UNCHANGED <<task, pos, buffer, chunkCache, recipe_buffer>>
        /\ pc = "assemble" /\ pc' = "fill" /\ Flush(write_buffer_offset)
    BY <1>14 DEF FaaFlush
  <2>2. out' \in Seq(Cell) /\ written' \in Nat /\ written' <= Len(out')
    BY <2>1, FlushTyped
  <2> QED BY <1>1, <1>2, <1>3, <2>1, <2>2 DEF OutInv, buffer
<1> QED BY <1>4, <1>5, <1>6, <1>7, <1>8, <1>9, <1>10, <1>11, <1>12, <1>13, <1>14 DEF Next

\* Whatever the store and the recipe are, no memcpy goes beyond the assembling
\* buffer, what is flushed lies within it, and every variable keeps its type:
\* the entries' lengths, below FILE_CACHE, are all that this rests on.
THEOREM BufferFitsHolds == Spec => []BufferFits
<1> DEFINE Inv == CacheInv /\ FetchInv /\ LruInv /\ OutInv /\ DataInv /\ FaaInv
<1>1. Inv => BufferFits
  <2> SUFFICES ASSUME Inv PROVE BufferFits
    OBVIOUS
  <2>1. \A n \in DOMAIN store.containers : n \in Nat
    BY StoreAssumption DEF FetchInv
  <2>2. index_queue \in Seq(Nat)
    BY <2>1 DEF CacheInv, Agrees
  <2>3. index_set \subseteq Nat
    BY <2>1 DEF CacheInv, Agrees
  <2>4. LRUtimestamp \in Nat /\ DOMAIN LRUstack \subseteq Nat
    BY DEF LruInv, InStep
  <2>5. write_buffer_offset <= FileCache
    BY Sizes DEF OutInv
  <2> QED BY <2>2, <2>3, <2>4, <2>5 DEF BufferFits, TypeOK, OutInv, FetchInv, DataInv
<1>2. Init => Inv
  BY InitCache, InitFetch, InitLru, InitOut
<1>3. Inv /\ [Next]_vars => Inv'
  BY NextCache, NextFetch, NextLru, NextOut
<1> HIDE DEF Inv
<1> QED BY <1>1, <1>2, <1>3, PTL DEF Spec

-------------------------------------------------------------------------------
\* The content of a version.

\* f[k] is the concatenation of the first k of the n sequences, s[k] its length.
Joined(seqs, f, s, k) ==
  /\ f[k] = IF k = 1 THEN seqs[k] ELSE f[k - 1] \o seqs[k]
  /\ s[k] = s[k - 1] + Len(seqs[k])
  /\ f[k] \in Seq(Cell) /\ Len(f[k]) = s[k]
  /\ \A i \in 0..k : s[i] <= s[k]
  /\ \A i \in 1..k : \A j \in 1..Len(seqs[i]) : f[k][s[i - 1] + j] = seqs[i][j]

Joins(seqs, m) ==
  \E f \in [1..m -> Seq(Cell)], s \in [0..m -> Nat] :
    s[0] = 0 /\ \A k \in 1..m : Joined(seqs, f, s, k)

\* One more sequence behind those that are joined.
LEMMA JoinedOneMore ==
  ASSUME NEW n \in Nat, NEW seqs \in [1..n -> Seq(Cell)], NEW m \in Nat, m < n,
         Joins(seqs, m)
  PROVE  Joins(seqs, m + 1)
<1>1. PICK f \in [1..m -> Seq(Cell)], s \in [0..m -> Nat] :
         s[0] = 0 /\ \A k \in 1..m : Joined(seqs, f, s, k)
  BY DEF Joins
<1> DEFINE more == seqs[m + 1]
<1> DEFINE new == IF m = 0 THEN more ELSE f[m] \o more
<1> DEFINE g == [k \in 1..(m + 1) |-> IF k <= m THEN f[k] ELSE new]
<1> DEFINE t == [k \in 0..(m + 1) |-> IF k <= m THEN s[k] ELSE s[m] + Len(more)]
<1>2. more \in Seq(Cell) /\ Len(more) \in Nat
  BY m + 1 \in 1..n
<1>3. m # 0 => m \in 1..m /\ Joined(seqs, f, s, m)
  BY <1>1
<1>4. s[m] \in Nat /\ (m # 0 => f[m] \in Seq(Cell) /\ Len(f[m]) = s[m])
  BY <1>3 DEF Joined
<1> HIDE DEF more
<1>5. new \in Seq(Cell) /\ Len(new) = s[m] + Len(more)
  <2>1. CASE m = 0
    <3>1. s[m] = 0 /\ new = more
      BY <1>1, <2>1
    <3> HIDE DEF new
    <3> QED BY <1>2, <3>1
  <2>2. CASE m # 0
    <3>1. new = f[m] \o more
      BY <2>2
    <3>2. PICK before \in Seq(Cell) : before = f[m] /\ Len(before) = s[m]
      BY <1>4, <2>2
    <3>3. before \o more \in Seq(Cell) /\ Len(before \o more) = Len(before) + Len(more)
      BY <1>2
    <3> HIDE DEF new
    <3> QED BY <3>1, <3>2, <3>3
  <2> QED BY <2>1, <2>2
<1>6. \A j \in 1..Len(more) : new[s[m] + j] = more[j]
  <2>1. CASE m = 0
    <3>1. s[m] = 0 /\ new = more
      BY <1>1, <2>1
    <3> HIDE DEF new
    <3> QED BY <1>2, <3>1
  <2>2. CASE m # 0
    <3>1. new = f[m] \o more
      BY <2>2
    <3>2. PICK before \in Seq(Cell) : before = f[m] /\ Len(before) = s[m]
      BY <1>4, <2>2
    <3>3. \A j \in 1..Len(more) : (before \o more)[Len(before) + j] = more[j]
      BY <1>2
    <3> HIDE DEF new
    <3> QED BY <3>1, <3>2, <3>3
  <2> QED BY <2>1, <2>2
<1>7. m # 0 => \A i \in 1..s[m] : new[i] = f[m][i]
  BY <1>2, <1>4
<1> HIDE DEF new
<1>8. /\ g \in [1..(m + 1) -> Seq(Cell)] /\ t \in [0..(m + 1) -> Nat]
      /\ \A k \in 1..m : g[k] = f[k]
      /\ \A k \in 0..m : t[k] = s[k]
      /\ g[m + 1] = new /\ t[m + 1] = s[m] + Len(more)
  BY <1>2, <1>4, <1>5
<1> HIDE DEF g, t
<1>9. ASSUME NEW k \in 1..m PROVE Joined(seqs, g, t, k)
  <2>1. g[k] = f[k] /\ t[k] = s[k] /\ t[k - 1] = s[k - 1] /\ (k # 1 => g[k - 1] = f[k - 1])
    <3>1. k - 1 \in 0..m /\ k \in 0..m /\ (k # 1 => k - 1 \in 1..m)
      OBVIOUS
    <3> QED BY <1>8, <3>1
  <2>2. \A i \in 0..k : t[i] = s[i]
    BY <1>8
  <2>3. \A i \in 1..k : t[i - 1] = s[i - 1]
    <3>1. \A i \in 1..k : i - 1 \in 0..m
      OBVIOUS
    <3> QED BY <1>8, <3>1
  <2>4. /\ f[k] = IF k = 1 THEN seqs[k] ELSE f[k - 1] \o seqs[k]
        /\ s[k] = s[k - 1] + Len(seqs[k])
        /\ f[k] \in Seq(Cell) /\ Len(f[k]) = s[k]
        /\ \A i \in 0..k : s[i] <= s[k]
        /\ \A i \in 1..k : \A j \in 1..Len(seqs[i]) : f[k][s[i - 1] + j] = seqs[i][j]
    BY <1>1 DEF Joined
  <2>5. g[k] = IF k = 1 THEN seqs[k] ELSE g[k - 1] \o seqs[k]
    BY <2>1, <2>4
  <2>6. t[k] = t[k - 1] + Len(seqs[k]) /\ g[k] \in Seq(Cell) /\ Len(g[k]) = t[k]
    BY <2>1, <2>4
  <2>7. \A i \in 0..k : t[i] <= t[k]
    BY <2>1, <2>2, <2>4
  <2>8. \A i \in 1..k : \A j \in 1..Len(seqs[i]) : g[k][t[i - 1] + j] = seqs[i][j]
    BY <2>1, <2>3, <2>4
  <2> QED BY <2>5, <2>6, <2>7, <2>8 DEF Joined
<1>10. Joined(seqs, g, t, m + 1)
  <2>1. g[m + 1] = IF m + 1 = 1 THEN seqs[m + 1] ELSE g[(m + 1) - 1] \o seqs[m + 1]
    <3>1. CASE m = 0
      BY <1>8, <3>1 DEF new, more
    <3>2. CASE m # 0
      <4>1. m \in 1..m /\ (m + 1) - 1 = m /\ m + 1 # 1
        BY <3>2
      <4> QED BY <1>8, <3>2, <4>1 DEF new, more
    <3> QED BY <3>1, <3>2
  <2>2. t[m + 1] = t[(m + 1) - 1] + Len(seqs[m + 1])
    <3>1. m \in 0..m /\ (m + 1) - 1 = m
      OBVIOUS
    <3> QED BY <1>8, <3>1 DEF more
  <2>3. g[m + 1] \in Seq(Cell) /\ Len(g[m + 1]) = t[m + 1]
    BY <1>5, <1>8
  <2>4. \A i \in 0..m : s[i] <= s[m]
    <3>1. CASE m = 0
      <4>1. s[m] <= s[m]
        BY <1>4
      <4>2. \A i \in 0..m : i = m
        BY <3>1
      <4> QED BY <4>1, <4>2, Zenon
    <3>2. CASE m # 0
      BY <1>3, <3>2 DEF Joined
    <3> QED BY <3>1, <3>2
  <2>5. \A i \in 0..(m + 1) : t[i] <= t[m + 1]
    <3> TAKE i \in 0..(m + 1)
    <3>1. CASE i \in 0..m
      <4>1. s[i] \in Nat /\ t[i] = s[i] /\ s[i] <= s[m]
        BY <1>8, <2>4, <3>1
      <4> QED BY <1>2, <1>4, <1>8, <4>1
    <3>2. CASE i = m + 1
      BY <1>2, <1>4, <1>8, <3>2
    <3> QED BY <3>1, <3>2
  <2>6. ASSUME NEW i \in 1..(m + 1), NEW j \in 1..Len(seqs[i])
        PROVE  g[m + 1][t[i - 1] + j] = seqs[i][j]
    <3>1. CASE i = m + 1
      <4>1. t[i - 1] = s[m]
        BY <1>8, <3>1
      <4> QED BY <1>6, <1>8, <3>1, <4>1 DEF more
    <3>2. CASE i # m + 1
      <4>1. i \in 1..m /\ i - 1 \in 0..m /\ m # 0 /\ m \in 1..m
        BY <3>2
      <4>2. t[i - 1] = s[i - 1] /\ s[i - 1] \in Nat
        BY <1>8, <4>1
      <4>3. f[m][s[i - 1] + j] = seqs[i][j]
        BY <1>3, <4>1 DEF Joined
      <4>4. s[i - 1] + j \in 1..s[m]
        <5>1. s[i] = s[i - 1] + Len(seqs[i])
          BY <1>1, <4>1 DEF Joined
        <5>2. s[i] <= s[m] /\ s[i] \in Nat
          BY <2>4, <4>1
        <5>3. j \in Nat /\ j >= 1 /\ j <= Len(seqs[i]) /\ Len(seqs[i]) \in Nat
          <6>1. seqs[i] \in Seq(Cell)
            BY <4>1
          <6> QED BY <6>1
        <5>4. PICK a \in Nat, b \in Nat, l \in Nat :
                a = s[i - 1] /\ b = s[m] /\ l = Len(seqs[i]) /\ s[i] = a + l
          BY <1>4, <4>2, <5>1, <5>3
        <5>5. a + l <= b /\ j \in 1..l
          BY <5>2, <5>3, <5>4
        <5>6. a + j \in 1..b
          BY <5>5
        <5> QED BY <5>4, <5>6
      <4>5. new[s[i - 1] + j] = f[m][s[i - 1] + j]
        BY <1>7, <4>1, <4>4
      <4> QED BY <1>8, <4>2, <4>3, <4>5
    <3> QED BY <3>1, <3>2
  <2> QED BY <2>1, <2>2, <2>3, <2>5, <2>6 DEF Joined
<1>11. \A k \in 1..(m + 1) : Joined(seqs, g, t, k)
  <2>1. \A k \in 1..(m + 1) : k \in 1..m \/ k = m + 1
    OBVIOUS
  <2> QED BY <1>9, <1>10, <2>1
<1>12. t[0] = 0
  BY <1>8, <1>1
<1> QED BY <1>8, <1>11, <1>12 DEF Joins

\* A concatenation has its sequences one behind the other.
LEMMA FlattenLaid ==
  ASSUME NEW n \in Nat, NEW seqs \in [1..n -> Seq(Cell)]
  PROVE  \E s \in [0..n -> Nat] :
           /\ s[0] = 0 /\ \A k \in 1..n : s[k] = s[k - 1] + Len(seqs[k])
           /\ \A k \in 0..n : \A i \in 0..k : s[i] <= s[k]
           /\ FlattenSeq(seqs) \in Seq(Cell) /\ Len(FlattenSeq(seqs)) = s[n]
           /\ \A k \in 1..n : \A j \in 1..Len(seqs[k]) :
                FlattenSeq(seqs)[s[k - 1] + j] = seqs[k][j]
<1> DEFINE Done == {m \in Nat : m <= n => Joins(seqs, m)}
<1>1. 0 \in Done
  <2> DEFINE f == [k \in 1..0 |-> <<>>]
  <2> DEFINE s == [k \in 0..0 |-> 0]
  <2>1. f \in [1..0 -> Seq(Cell)] /\ s \in [0..0 -> Nat] /\ s[0] = 0
    OBVIOUS
  <2>2. 1..0 = {}
    OBVIOUS
  <2> HIDE DEF f, s
  <2>3. Joins(seqs, 0)
    BY <2>1, <2>2 DEF Joins
  <2> QED BY <2>3
<1>2. ASSUME NEW m \in 0..n, m \in Done PROVE m + 1 \in Done
  <2> SUFFICES ASSUME m + 1 <= n PROVE Joins(seqs, m + 1)
    BY <1>2
  <2>1. Joins(seqs, m) /\ m \in Nat /\ m < n
    BY <1>2
  <2> QED BY <2>1, JoinedOneMore
<1>3. PICK f \in [1..n -> Seq(Cell)], s \in [0..n -> Nat] :
         s[0] = 0 /\ \A k \in 1..n : Joined(seqs, f, s, k)
  <2>1. \A m \in 0..(n + 1) : m \in Done
    <3> HIDE DEF Done
    <3> QED BY <1>1, <1>2, Reached
  <2>2. Joins(seqs, n)
    BY <2>1
  <2> QED BY <2>2 DEF Joins
<1>4. /\ s[0] = 0
      /\ \A k \in 1..n : /\ f[k] = IF k = 1 THEN seqs[k] ELSE f[k - 1] \o seqs[k]
                         /\ s[k] = s[k - 1] + Len(seqs[k])
                         /\ f[k] \in Seq(Cell) /\ Len(f[k]) = s[k]
                         /\ \A i \in 0..k : s[i] <= s[k]
                         /\ \A i \in 1..k : \A j \in 1..Len(seqs[i]) :
                              f[k][s[i - 1] + j] = seqs[i][j]
  BY <1>3 DEF Joined
<1>5. \A k \in 0..n : \A i \in 0..k : s[i] <= s[k]
  <2> TAKE k \in 0..n
  <2>1. CASE k = 0
    <3>1. \A i \in 0..k : i = k
      BY <2>1
    <3>2. s[k] <= s[k]
      OBVIOUS
    <3> QED BY <3>1, <3>2, Zenon
  <2>2. CASE k # 0
    BY <1>4, <2>2
  <2> QED BY <2>1, <2>2
<1>6. Len(seqs) = n
  OBVIOUS
<1>7. CASE n = 0
  <2>1. FlattenSeq(seqs) = seqs /\ seqs \in Seq(Cell) /\ 1..n = {}
    BY <1>6, <1>7 DEF FlattenSeq
  <2> QED BY <1>4, <1>5, <1>6, <1>7, <2>1
<1>8. CASE n # 0
  <2> DEFINE Step(g) == [i \in 1..n |-> IF i = 1 THEN seqs[i] ELSE g[i - 1] \o seqs[i]]
  <2> DEFINE flatten == CHOOSE g : g = Step(g)
  <2>1. FlattenSeq(seqs) = flatten[n]
    BY <1>6, <1>8 DEF FlattenSeq
  <2>2. f = Step(f)
    <3>1. f = [i \in 1..n |-> f[i]]
      OBVIOUS
    <3>2. \A i \in 1..n : f[i] = IF i = 1 THEN seqs[i] ELSE f[i - 1] \o seqs[i]
      BY <1>4
    <3> QED BY <3>1, <3>2
  <2>3. flatten = Step(flatten)
    <3> HIDE DEF Step
    <3> QED BY <2>2
  <2> HIDE DEF flatten
  <2> DEFINE Same == {m \in Nat : m + 1 <= n => flatten[m + 1] = f[m + 1]}
  <2>4. 0 \in Same
    <3>1. 0 + 1 = 1 /\ 1 \in 1..n
      BY <1>8
    <3>2. flatten[1] = seqs[1]
      BY <2>3, <3>1
    <3>3. f[1] = seqs[1]
      BY <1>4, <3>1
    <3> QED BY <3>1, <3>2, <3>3
  <2>5. ASSUME NEW m \in 0..n, m \in Same PROVE m + 1 \in Same
    <3> SUFFICES ASSUME (m + 1) + 1 <= n PROVE flatten[(m + 1) + 1] = f[(m + 1) + 1]
      BY <2>5
    <3> DEFINE k == (m + 1) + 1
    <3>1. k \in 1..n /\ k # 1 /\ k - 1 = m + 1
      BY <2>5
    <3>2. flatten[k - 1] = f[k - 1]
      BY <2>5, <3>1
    <3>3. flatten[k] = flatten[k - 1] \o seqs[k]
      <4> HIDE DEF k
      <4> QED BY <2>3, <3>1
    <3>4. f[k] = f[k - 1] \o seqs[k]
      <4> HIDE DEF k
      <4> QED BY <1>4, <3>1
    <3> QED BY <3>2, <3>3, <3>4
  <2>6. \A m \in 0..(n + 1) : m \in Same
    <3> HIDE DEF Same
    <3> QED BY <2>4, <2>5, Reached
  <2>7. flatten[n] = f[n]
    <3>1. PICK m \in 0..(n + 1) : m + 1 = n
      BY <1>8
    <3>2. m \in Same
      BY <2>6
    <3>3. flatten[m + 1] = f[m + 1]
      BY <3>1, <3>2
    <3> QED BY <3>1, <3>3
  <2>8. n \in 1..n
    BY <1>8
  <2>9. /\ FlattenSeq(seqs) \in Seq(Cell) /\ Len(FlattenSeq(seqs)) = s[n]
        /\ \A k \in 1..n : \A j \in 1..Len(seqs[k]) :
             FlattenSeq(seqs)[s[k - 1] + j] = seqs[k][j]
    <3>1. FlattenSeq(seqs) = f[n]
      BY <2>1, <2>7
    <3>2. /\ f[n] \in Seq(Cell) /\ Len(f[n]) = s[n]
          /\ \A k \in 1..n : \A j \in 1..Len(seqs[k]) : f[n][s[k - 1] + j] = seqs[k][j]
      BY <1>4, <2>8
    <3> QED BY <3>1, <3>2, Zenon
  <2> QED BY <1>4, <1>5, <2>9
<1> QED BY <1>7, <1>8

\* The bytes of a chunk.
LEMMA ChunkBytes ==
  ASSUME NEW c \in Chunk
  PROVE  /\ AppendChunk(<<>>, c) \in Seq(Cell) /\ Len(AppendChunk(<<>>, c)) = ChunkLen[c]
         /\ ChunkLen[c] \in Nat \ {0}
         /\ \A j \in 1..ChunkLen[c] : AppendChunk(<<>>, c)[j] = <<c, j>>
<1> DEFINE len == ChunkLen[c]
<1> DEFINE data == AppendChunk(<<>>, c)
<1>1. len \in Nat \ {0}
  BY ChunkAssumption
<1>2. data = [i \in 1..len |-> <<c, i>>]
  <2>1. Len(<<>>) = 0 /\ 0 + len = len /\ \A i \in 1..len : ~(i <= 0) /\ i - 0 = i
    BY <1>1
  <2>2. data = [i \in 1..(Len(<<>>) + len) |->
                  IF i <= Len(<<>>) THEN <<>>[i] ELSE <<c, i - Len(<<>>)>>]
    BY DEF AppendChunk
  <2> QED BY <2>1, <2>2
<1> HIDE DEF len, data
<1>3. \A i \in 1..len : <<c, i>> \in Cell
  BY DEF Cell
<1>4. data \in Seq(Cell) /\ Len(data) = len /\ \A i \in 1..len : data[i] = <<c, i>>
  BY <1>1, <1>2, <1>3
<1> QED BY <1>1, <1>4 DEF len, data

\* s says how much of the content the first k chunks of the recipe make up.
Laid(s) ==
  /\ s \in [0..Len(Recipe) -> Nat]
  /\ s[0] = 0 /\ \A k \in 1..Len(Recipe) : s[k] = s[k - 1] + ChunkLen[Recipe[k]]
  /\ \A k \in 0..Len(Recipe) : \A i \in 0..k : s[i] <= s[k]
  /\ Len(Content) = s[Len(Recipe)]
  /\ \A k \in 1..Len(Recipe) : \A j \in 1..ChunkLen[Recipe[k]] :
       Content[s[k - 1] + j] = <<Recipe[k], j>>

LEMMA ContentLaid ==
  ASSUME FetchInv, version \in DOMAIN recipes
  PROVE  /\ Recipe \in Seq(Chunk) /\ Content \in Seq(Cell)
         /\ \E s : Laid(s)
<1> DEFINE n == Len(Recipe)
<1> DEFINE seqs == [i \in DOMAIN Recipe |-> AppendChunk(<<>>, Recipe[i])]
<1>1. Recipe \in Seq(Chunk) /\ n \in Nat /\ DOMAIN Recipe = 1..n
  BY RestoreAssumption DEF Recipe, FetchInv
<1>2. Content = FlattenSeq(seqs)
  BY DEF Content
<1>3. \A k \in 1..n : Recipe[k] \in Chunk
  BY <1>1
<1>4. seqs \in [1..n -> Seq(Cell)] /\ \A k \in 1..n : seqs[k] = AppendChunk(<<>>, Recipe[k])
  BY <1>1, <1>3, ChunkBytes
<1>5. \A k \in 1..n : /\ Len(seqs[k]) = ChunkLen[Recipe[k]]
                      /\ \A j \in 1..ChunkLen[Recipe[k]] : seqs[k][j] = <<Recipe[k], j>>
  BY <1>3, <1>4, ChunkBytes
<1> HIDE DEF n, seqs
<1>6. PICK s \in [0..n -> Nat] :
           /\ s[0] = 0 /\ \A k \in 1..n : s[k] = s[k - 1] + Len(seqs[k])
           /\ \A k \in 0..n : \A i \in 0..k : s[i] <= s[k]
           /\ FlattenSeq(seqs) \in Seq(Cell) /\ Len(FlattenSeq(seqs)) = s[n]
           /\ \A k \in 1..n : \A j \in 1..Len(seqs[k]) :
                FlattenSeq(seqs)[s[k - 1] + j] = seqs[k][j]
  BY <1>1, <1>4, FlattenLaid
<1>7. \A k \in 1..n : s[k] = s[k - 1] + ChunkLen[Recipe[k]]
  BY <1>5, <1>6
<1>8. \A k \in 1..n : \A j \in 1..ChunkLen[Recipe[k]] : Content[s[k - 1] + j] = <<Recipe[k], j>>
  <2> SUFFICES ASSUME NEW k \in 1..n, NEW j \in 1..ChunkLen[Recipe[k]]
               PROVE  Content[s[k - 1] + j] = <<Recipe[k], j>>
    OBVIOUS
  <2>1. j \in 1..Len(seqs[k]) /\ seqs[k][j] = <<Recipe[k], j>>
    BY <1>5
  <2>2. FlattenSeq(seqs)[s[k - 1] + j] = seqs[k][j]
    BY <1>6, <2>1
  <2> QED BY <1>2, <2>1, <2>2
<1>9. Laid(s)
  BY <1>2, <1>6, <1>7, <1>8 DEF Laid, n
<1> QED BY <1>1, <1>2, <1>6, <1>9

-------------------------------------------------------------------------------
\* What the output file and the buffers hold, for the layout s of the content.
FileHolds ==
  written <= Len(Content) /\ out = Overlay(SubSeq(Content, 1, written), old)

\* The first n bytes of the assembling buffer are the next of the content.
Collected(n) == \A i \in 1..n : asm[i] = Content[written + i]

Base == pos - Len(recipe_buffer)

\* The k-th entry of the forward assembly tells of the chunk c at place p.
Describes(k, c, p) ==
  LET x == recipe_buffer[k] IN
    /\ x.CID = store.index[c].container_number /\ x.container_offset = store.index[c].offset
    /\ x.length = ChunkLen[c] /\ x.faa_start = p
    /\ x.used => \A j \in 1..ChunkLen[c] : asm[p + j] = <<c, j>>

Assembling(s) ==
  /\ Base \in Nat
  /\ written = s[Base] /\ written + write_buffer_offset = s[pos]
  /\ \A k \in 1..Len(recipe_buffer) :
       Describes(k, Recipe[Base + k], s[Base + k - 1] - s[Base])

Placed(s) ==
  /\ FileHolds
  /\ pc = "loop" => written + write_buffer_offset = s[pos] /\ Collected(write_buffer_offset)
  /\ pc = "fill" => written = s[pos]
  /\ pc = "assemble" => Assembling(s)

PlaceInv ==
  /\ pc = "start" => out = old /\ written = 0 /\ write_buffer_offset = 0
  /\ Reliable /\ pc \in {"loop", "fill", "assemble"} => \E s : Laid(s) /\ Placed(s)

\* The task does not change, nor what is said of it alone.
LEMMA TaskKept ==
  ASSUME UNCHANGED task
  PROVE  /\ store' = store /\ recipes' = recipes /\ version' = version /\ old' = old /\ method' = method
         /\ Recipe' = Recipe /\ Content' = Content /\ Sound' = Sound /\ Reliable' = Reliable
         /\ \A s : Laid(s)' = Laid(s)
<1>1. store' = store /\ recipes' = recipes /\ version' = version /\ old' = old /\ method' = method
  BY DEF task
<1>2. Recipe' = Recipe
  BY <1>1 DEF Recipe
<1>3. Content' = Content
  BY <1>1, <1>2 DEF Content
<1>4. Sound' = Sound
  BY <1>1 DEF Sound, ReadContainer, ChunkGlobalID
<1>5. Reliable' = Reliable
  BY <1>1, <1>3, <1>4 DEF Reliable
<1>6. \A s : Laid(s)' = Laid(s)
  BY <1>2, <1>3 DEF Laid
<1> QED BY <1>1, <1>2, <1>3, <1>4, <1>5, <1>6

LEMMA InitPlace == Init => PlaceInv
BY DEF Init, PlaceInv

\* What the index says of a chunk of the recipe of a sound store.
LEMMA SoundChunk ==
  ASSUME FetchInv, Sound, version \in DOMAIN recipes, NEW i \in 1..Len(Recipe)
  PROVE  LET c == Recipe[i]
             e == store.index[c]
         IN  /\ c \in Chunk /\ c \in DOMAIN store.index
             /\ e.chunk_length = ChunkLen[c] /\ ChunkLen[c] \in Nat \ {0} /\ ChunkLen[c] <= FileCache
             /\ e.offset \in Nat /\ e.container_number \in Nat
             /\ e.offset + ChunkLen[c] <= ContainerSize
             /\ ReadContainer(e.container_number, e.offset, e.chunk_length) = AppendChunk(<<>>, c)
<1> DEFINE c == Recipe[i]
<1>1. Recipe \in Seq(Chunk)
  BY RestoreAssumption DEF Recipe, FetchInv
<1>2. c \in Chunk /\ c \in Range(Recipe)
  BY <1>1 DEF Range
<1>3. c \in DOMAIN store.index
  BY <1>2 DEF Sound, Recipe
<1> HIDE DEF c
<1>4. ChunkLen[c] \in Nat \ {0}
  BY <1>2, ChunkBytes
<1>5. /\ store.index[c].offset \in Nat /\ store.index[c].chunk_length \in Nat
      /\ store.index[c].container_number \in Nat /\ store.index[c].chunk_length <= FileCache
  BY <1>3, EntryTyped
<1>6. /\ store.index[c].chunk_length = ChunkLen[c]
      /\ store.index[c].offset + ChunkLen[c] <= ContainerSize
      /\ ReadContainer(store.index[c].container_number, store.index[c].offset,
                       store.index[c].chunk_length) = AppendChunk(<<>>, c)
  BY <1>3 DEF Sound
<1> QED BY <1>2, <1>3, <1>4, <1>5, <1>6 DEF c

\* A flush of the next n bytes of the content.
LEMMA Flushed ==
  ASSUME NEW file \in Seq(Cell), NEW before \in Seq(Cell), NEW content \in Seq(Cell), NEW buf \in Seq(Cell),
         NEW w \in Nat, NEW n \in Nat, w + n <= Len(content), n <= Len(buf),
         file = Overlay(SubSeq(content, 1, w), before),
         \A i \in 1..n : buf[i] = content[w + i]
  PROVE  WriteAt(file, w, SubSeq(buf, 1, n)) = Overlay(SubSeq(content, 1, w + n), before)
<1> DEFINE data == SubSeq(buf, 1, n)
<1> DEFINE pre == SubSeq(content, 1, w)
<1> DEFINE more == SubSeq(content, 1, w + n)
<1>1. Len(content) \in Nat /\ Len(before) \in Nat /\ Len(buf) \in Nat
  OBVIOUS
<1>2. data \in Seq(Cell) /\ Len(data) = n /\ \A i \in 1..n : data[i] = buf[i]
  BY <1>1
<1>3. pre \in Seq(Cell) /\ Len(pre) = w /\ \A i \in 1..w : pre[i] = content[i]
  BY <1>1
<1>4. more \in Seq(Cell) /\ Len(more) = w + n /\ \A i \in 1..(w + n) : more[i] = content[i]
  BY <1>1
<1> HIDE DEF data, pre, more
<1>5. file = [i \in 1..Larger(w, Len(before)) |-> IF i <= w THEN pre[i] ELSE before[i]]
  BY <1>3 DEF Overlay, pre
<1>6. Len(file) = Larger(w, Len(before))
  BY <1>1, <1>5 DEF Larger
<1> DEFINE size == Larger(w + n, Len(before))
<1>7. Larger(Len(file), w + Len(data)) = size /\ size \in Nat
  <2>1. \A b \in Nat : /\ Larger(w + n, b) \in Nat
                       /\ Larger(Larger(w, b), w + n) = Larger(w + n, b)
    BY DEF Larger
  <2> QED BY <1>1, <1>2, <1>6, <2>1
<1>8. WriteAt(file, w, data) =
        [i \in 1..size |-> IF i \in (w + 1)..(w + n) THEN data[i - w] ELSE file[i]]
  BY <1>2, <1>7 DEF WriteAt
<1>9. Overlay(more, before) = [i \in 1..size |-> IF i <= w + n THEN more[i] ELSE before[i]]
  BY <1>4 DEF Overlay
<1>10. ASSUME NEW i \in 1..size
       PROVE  (IF i \in (w + 1)..(w + n) THEN data[i - w] ELSE file[i])
                = IF i <= w + n THEN more[i] ELSE before[i]
  <2>1. CASE i \in (w + 1)..(w + n)
    <3>1. i - w \in 1..n /\ w + (i - w) = i /\ i <= w + n /\ i \in 1..(w + n)
      BY <2>1, <1>7
    <3>2. data[i - w] = content[i]
      BY <1>2, <3>1
    <3> QED BY <1>4, <2>1, <3>1, <3>2
  <2>2. CASE i <= w
    <3>1. i \in 1..Larger(w, Len(before)) /\ i \in 1..w /\ i \in 1..(w + n) /\ i <= w + n
          /\ ~(i \in (w + 1)..(w + n))
      BY <1>1, <1>7, <2>2 DEF Larger
    <3>2. file[i] = pre[i]
      BY <1>5, <2>2, <3>1
    <3>3. file[i] = content[i]
      BY <1>3, <3>1, <3>2
    <3> QED BY <1>4, <3>1, <3>3
  <2>3. CASE i > w + n
    <3>1. i \in 1..Larger(w, Len(before)) /\ ~(i <= w) /\ ~(i <= w + n)
          /\ ~(i \in (w + 1)..(w + n))
      BY <1>1, <1>7, <2>3 DEF Larger
    <3> QED BY <1>5, <3>1
  <2>4. i \in (w + 1)..(w + n) \/ i <= w \/ i > w + n
    BY <1>7
  <2> QED BY <2>1, <2>2, <2>3, <2>4
<1> HIDE DEF size
<1>11. WriteAt(file, w, data) = Overlay(more, before)
  BY <1>8, <1>9, <1>10
<1> QED BY <1>11 DEF data, more

\* What a file or buffer holds after a write.
LEMMA WriteAtHolds ==
  ASSUME NEW file \in Seq(Cell), NEW data \in Seq(Cell), NEW at \in Nat, at <= Len(file)
  PROVE  /\ \A i \in 1..at : WriteAt(file, at, data)[i] = file[i]
         /\ \A j \in 1..Len(data) : WriteAt(file, at, data)[at + j] = data[j]
<1> DEFINE n == Larger(Len(file), at + Len(data))
<1>1. n \in Nat /\ n >= Len(file) /\ n >= at + Len(data) /\ Len(data) \in Nat /\ Len(file) \in Nat
  BY DEF Larger
<1>2. WriteAt(file, at, data)
        = [i \in 1..n |-> IF i \in (at + 1)..(at + Len(data)) THEN data[i - at] ELSE file[i]]
  BY DEF WriteAt
<1> DEFINE new == WriteAt(file, at, data)
<1> HIDE DEF n, new
<1>3. ASSUME NEW i \in 1..at PROVE new[i] = file[i]
  <2>1. i \in 1..n /\ ~(i \in (at + 1)..(at + Len(data)))
    BY <1>1
  <2> QED BY <1>2, <2>1 DEF new
<1>4. ASSUME NEW j \in 1..Len(data) PROVE new[at + j] = data[j]
  <2>1. at + j \in 1..n /\ at + j \in (at + 1)..(at + Len(data)) /\ (at + j) - at = j
    BY <1>1
  <2> QED BY <1>2, <2>1 DEF new
<1> QED BY <1>3, <1>4 DEF new

\* A flush of bytes that are the next of the content.
LEMMA FlushHolds ==
  ASSUME OutInv, Content \in Seq(Cell), FileHolds, Collected(write_buffer_offset),
         written + write_buffer_offset <= Len(Content), Flush(write_buffer_offset), UNCHANGED task
  PROVE  FileHolds' /\ written' = written + write_buffer_offset
<1>1. /\ out \in Seq(Cell) /\ asm \in Seq(Cell) /\ old \in Seq(Cell) /\ written \in Nat
      /\ write_buffer_offset \in Nat /\ write_buffer_offset <= Len(asm)
  BY RestoreAssumption, Sizes DEF OutInv
<1>2. out' = WriteAt(out, written, SubSeq(asm, 1, write_buffer_offset))
      /\ written' = written + write_buffer_offset
  BY DEF Flush
<1>3. out = Overlay(SubSeq(Content, 1, written), old)
      /\ \A i \in 1..write_buffer_offset : asm[i] = Content[written + i]
  BY DEF FileHolds, Collected
<1>4. out' = Overlay(SubSeq(Content, 1, written'), old)
  BY <1>1, <1>2, <1>3, Flushed
<1>5. Content' = Content /\ old' = old
  BY TaskKept
<1> QED BY <1>2, <1>4, <1>5 DEF FileHolds

\* Where the i-th chunk of the recipe is in the content.
LEMMA LaidAt ==
  ASSUME Recipe \in Seq(Chunk), Content \in Seq(Cell), NEW s, Laid(s), NEW i \in 1..Len(Recipe)
  PROVE  /\ s[i - 1] \in Nat /\ s[i] \in Nat /\ ChunkLen[Recipe[i]] \in Nat \ {0}
         /\ s[i] = s[i - 1] + ChunkLen[Recipe[i]] /\ s[i] <= Len(Content)
         /\ \A j \in 1..ChunkLen[Recipe[i]] : Content[s[i - 1] + j] = <<Recipe[i], j>>
<1>1. Len(Recipe) \in Nat /\ Recipe[i] \in Chunk
  OBVIOUS
<1>2. i \in 0..Len(Recipe) /\ i - 1 \in 0..Len(Recipe) /\ Len(Recipe) \in 0..Len(Recipe)
      /\ i \in 0..Len(Recipe)
  BY <1>1
<1>3. s \in [0..Len(Recipe) -> Nat] /\ Len(Content) = s[Len(Recipe)]
  BY DEF Laid
<1>4. s[i - 1] \in Nat /\ s[i] \in Nat
  BY <1>2, <1>3
<1>5. s[i] <= Len(Content)
  <2>1. \A k \in 0..Len(Recipe) : \A j \in 0..k : s[j] <= s[k]
    BY DEF Laid
  <2> QED BY <1>2, <1>3, <2>1
<1>6. /\ s[i] = s[i - 1] + ChunkLen[Recipe[i]]
      /\ \A j \in 1..ChunkLen[Recipe[i]] : Content[s[i - 1] + j] = <<Recipe[i], j>>
  BY DEF Laid
<1> QED BY <1>1, <1>4, <1>5, <1>6, ChunkBytes

\* A chunk that is delivered goes behind those before it.
LEMMA Assembled ==
  ASSUME FetchInv, OutInv, Sound, pc = "loop", pos < Len(Recipe), UNCHANGED task,
         Deliver(AppendChunk(<<>>, Next1)), NEW s, Laid(s), Placed(s)
  PROVE  pc' = "loop" /\ Placed(s)' /\ written' >= written
<1> DEFINE c == Next1
<1> DEFINE data == AppendChunk(<<>>, c)
<1>1. version \in DOMAIN recipes /\ pos \in Nat
  BY DEF FetchInv, OutInv
<1>2. Recipe \in Seq(Chunk) /\ Len(Recipe) \in Nat /\ Content \in Seq(Cell)
  BY <1>1, ContentLaid
<1>3. pos \in 0..Len(Recipe) /\ pos + 1 \in 1..Len(Recipe) /\ (pos + 1) - 1 = pos
      /\ pos + 1 \in 0..Len(Recipe)
  BY <1>1, <1>2
<1>4. c \in Chunk /\ EV.chunk_length = ChunkLen[c] /\ ChunkLen[c] \in Nat
  BY <1>1, <1>3, SoundChunk DEF Next1, EV
<1> DEFINE len == ChunkLen[c]
<1>5. data \in Seq(Cell) /\ Len(data) = len /\ \A j \in 1..len : data[j] = <<c, j>>
  BY <1>4, ChunkBytes
<1>6. /\ s[pos] \in Nat /\ s[pos + 1] \in Nat /\ s[pos + 1] = s[pos] + len
      /\ s[pos + 1] <= Len(Content) /\ Len(Content) \in Nat
      /\ \A j \in 1..len : Content[s[pos] + j] = <<c, j>>
  <2>1. /\ s[(pos + 1) - 1] \in Nat /\ s[pos + 1] \in Nat
        /\ s[pos + 1] = s[(pos + 1) - 1] + len /\ s[pos + 1] <= Len(Content)
        /\ \A j \in 1..len : Content[s[(pos + 1) - 1] + j] = <<c, j>>
    BY <1>2, <1>3, LaidAt DEF Next1
  <2>2. (pos + 1) - 1 = pos
    BY <1>3
  <2>3. Len(Content) \in Nat
    BY <1>2
  <2> HIDE DEF len, c
  <2> QED BY <2>1, <2>2, <2>3, Zenon
<1>7. pc' = "loop" /\ pos' = pos + 1 /\ Assemble(data)
  BY <1>4, <1>5 DEF Deliver
<1>8. FileHolds /\ written + write_buffer_offset = s[pos] /\ Collected(write_buffer_offset)
  BY DEF Placed
<1>9. asm \in Seq(Cell) /\ Len(asm) = FileCache /\ written \in Nat /\ write_buffer_offset \in Nat
      /\ write_buffer_offset <= FileCache /\ FileCache \in Nat
  BY Sizes DEF OutInv
<1>10. Content' = Content /\ old' = old
  BY TaskKept
<1> HIDE DEF data, len, c
<1>11. CASE write_buffer_offset + Len(data) >= FileCache
  <2>1. Flush(write_buffer_offset) /\ asm' = WriteAt(asm, 0, data) /\ write_buffer_offset' = 0 + len
    BY <1>5, <1>7, <1>11 DEF Assemble
  <2>2. FileHolds' /\ written' = s[pos]
    <3>1. s[pos] <= Len(Content)
      BY <1>4, <1>6 DEF len
    <3>2. FileHolds' /\ written' = written + write_buffer_offset
      BY <1>2, <1>8, <2>1, <3>1, FlushHolds
    <3> QED BY <1>8, <3>2
  <2>3. \A j \in 1..len : asm'[j] = data[j]
    <3>1. \A j \in 1..Len(data) : asm'[0 + j] = data[j]
      <4>1. 0 \in Nat /\ 0 <= Len(asm)
        BY <1>9
      <4> QED BY <1>5, <1>9, <2>1, <4>1, WriteAtHolds
    <3>2. \A j \in 1..len : 0 + j = j
      BY <1>4 DEF len
    <3> QED BY <1>5, <3>1, <3>2
  <2>4. write_buffer_offset' = len
    BY <1>4, <2>1 DEF len
  <2>5. \A j \in 1..write_buffer_offset' : asm'[j] = Content'[written' + j]
    BY <1>5, <1>6, <1>10, <2>2, <2>3, <2>4
  <2>6. written' + write_buffer_offset' = s[pos'] /\ written' >= written
    BY <1>6, <1>7, <1>8, <1>9, <2>2, <2>4
  <2> QED BY <1>7, <2>2, <2>5, <2>6 DEF Placed, Collected
<1>12. CASE ~(write_buffer_offset + Len(data) >= FileCache)
  <2>1. UNCHANGED output /\ asm' = WriteAt(asm, write_buffer_offset, data)
        /\ write_buffer_offset' = write_buffer_offset + len
    BY <1>5, <1>7, <1>12 DEF Assemble
  <2>2. FileHolds' /\ written' = written
    BY <1>8, <1>10, <2>1 DEF FileHolds, output
  <2>3. /\ \A i \in 1..write_buffer_offset : asm'[i] = asm[i]
        /\ \A j \in 1..len : asm'[write_buffer_offset + j] = data[j]
    BY <1>5, <1>9, <2>1, WriteAtHolds
  <2>4. \A i \in 1..write_buffer_offset' : asm'[i] = Content'[written' + i]
    <3> TAKE i \in 1..write_buffer_offset'
    <3>1. CASE i \in 1..write_buffer_offset
      BY <1>8, <1>10, <2>2, <2>3, <3>1 DEF Collected
    <3>2. CASE ~(i \in 1..write_buffer_offset)
      <4>1. PICK j \in 1..len : i = write_buffer_offset + j
        <5>1. i - write_buffer_offset \in 1..len /\ i = write_buffer_offset + (i - write_buffer_offset)
          BY <1>4, <1>9, <2>1, <3>2 DEF len
        <5> QED BY <5>1
      <4>2. written + i = s[pos] + j
        BY <1>8, <1>9, <4>1, <1>6
      <4>3. asm'[i] = <<c, j>> /\ Content[written + i] = <<c, j>>
        BY <1>5, <1>6, <2>3, <4>1, <4>2
      <4> QED BY <1>10, <2>2, <4>3
    <3> QED BY <3>1, <3>2
  <2>5. written' + write_buffer_offset' = s[pos'] /\ written' >= written
    BY <1>4, <1>6, <1>7, <1>8, <1>9, <2>1, <2>2 DEF len
  <2> QED BY <1>7, <2>2, <2>4, <2>5 DEF Placed, Collected
<1> QED BY <1>11, <1>12

\* A piece that lies in what was read of a file is the piece of the file.
LEMMA PieceRead ==
  ASSUME NEW file \in Seq(Cell), NEW size \in Nat, NEW off \in Nat, NEW n \in Nat \ {0},
         off + n <= size, Len(Part(file, off, n)) = n
  PROVE  /\ off + n <= Len(Part(file, 0, size)) /\ off <= Len(Part(file, 0, size))
         /\ Part(Part(file, 0, size), off, n) = Part(file, off, n)
         /\ \A j \in 1..n : Part(file, 0, size)[off + j] = Part(file, off, n)[j]
<1> DEFINE end == IF size <= Len(file) THEN size ELSE Len(file)
<1> DEFINE prefix == Part(file, 0, size)
<1>1. Len(file) \in Nat /\ end \in Nat /\ end <= Len(file)
  OBVIOUS
<1>2. off + n <= Len(file)
  <2>1. SUFFICES ASSUME ~(off + n <= Len(file)) PROVE FALSE
    OBVIOUS
  <2>2. Part(file, off, n) = SubSeq(file, off + 1, Len(file))
    BY <2>1 DEF Part
  <2>3. Len(SubSeq(file, off + 1, Len(file))) = IF off + 1 <= Len(file) THEN Len(file) - off ELSE 0
    BY <1>1
  <2> QED BY <1>1, <2>1, <2>2, <2>3
<1>3. off + n <= end
  BY <1>2
<1>4. prefix = SubSeq(file, 1, end)
  BY DEF Part
<1> HIDE DEF end
<1>5. prefix \in Seq(Cell) /\ Len(prefix) = end /\ \A i \in 1..end : prefix[i] = file[i]
  BY <1>1, <1>4
<1> HIDE DEF prefix
<1>6. Part(prefix, off, n) = SubSeq(prefix, off + 1, off + n)
  BY <1>3, <1>5 DEF Part
<1>7. Part(file, off, n) = SubSeq(file, off + 1, off + n)
  BY <1>2 DEF Part
<1>8. SubSeq(prefix, off + 1, off + n) = SubSeq(file, off + 1, off + n)
  BY <1>1, <1>2, <1>3, <1>5
<1>9. \A j \in 1..n : SubSeq(file, off + 1, off + n)[j] = file[off + j]
  BY <1>1, <1>2
<1>10. \A j \in 1..n : off + j \in 1..end
  BY <1>1, <1>3
<1>11. off + n <= end /\ off <= end
  BY <1>1, <1>3
<1> QED BY <1>5, <1>6, <1>7, <1>8, <1>9, <1>10, <1>11 DEF prefix

\* Of a sound store a cached container has the next chunk in its place.
LEMMA CachedChunk ==
  ASSUME FetchInv, Sound, pc = "loop", pos \in Nat, pos < Len(Recipe)
  PROVE  /\ EV.container_number \in DOMAIN store.containers
         /\ Substring(ReadContainer(EV.container_number, 0, ContainerSize))
              => Deliver(AppendChunk(<<>>, Next1))
<1> DEFINE n == EV.container_number
<1> DEFINE file == store.containers[n]
<1>1. Recipe \in Seq(Chunk) /\ version \in DOMAIN recipes
  BY RestoreAssumption DEF Recipe, FetchInv
<1>2. pos + 1 \in 1..Len(Recipe)
  BY <1>1
<1>3. /\ Next1 \in Chunk /\ Next1 \in DOMAIN store.index
      /\ EV.chunk_length = ChunkLen[Next1] /\ ChunkLen[Next1] \in Nat \ {0}
      /\ EV.offset \in Nat /\ EV.offset + ChunkLen[Next1] <= ContainerSize
      /\ ReadContainer(n, EV.offset, EV.chunk_length) = AppendChunk(<<>>, Next1)
  BY <1>1, <1>2, SoundChunk DEF Next1, EV
<1>4. Len(AppendChunk(<<>>, Next1)) = ChunkLen[Next1]
  BY <1>3, ChunkBytes
<1>5. n \in DOMAIN store.containers
  <2>1. SUFFICES ASSUME n \notin DOMAIN store.containers PROVE FALSE
    OBVIOUS
  <2>2. ReadContainer(n, EV.offset, EV.chunk_length) = <<>>
    BY <2>1 DEF ReadContainer
  <2> QED BY <1>3, <1>4, <2>2
<1>6. file \in Seq(Cell)
  BY <1>5, StoreAssumption DEF FetchInv
<1>7. Part(file, EV.offset, EV.chunk_length) = AppendChunk(<<>>, Next1)
  BY <1>3, <1>5 DEF ReadContainer
<1>8. ReadContainer(n, 0, ContainerSize) = Part(file, 0, ContainerSize)
  BY <1>5 DEF ReadContainer
<1> HIDE DEF file, n
<1>9. /\ EV.offset <= Len(Part(file, 0, ContainerSize))
      /\ Part(Part(file, 0, ContainerSize), EV.offset, EV.chunk_length) = AppendChunk(<<>>, Next1)
  BY <1>3, <1>4, <1>6, <1>7, PieceRead, Sizes
<1>10. ~(EV.offset > Len(Part(file, 0, ContainerSize)))
  <2>1. Len(Part(file, 0, ContainerSize)) \in Nat
    BY <1>6, PartTyped, Sizes
  <2> QED BY <1>3, <1>9, <2>1
<1> QED BY <1>5, <1>8, <1>9, <1>10 DEF Substring, n

-------------------------------------------------------------------------------
\* What the chunk cache holds of a sound store: each chunk's bytes.
HeldInv ==
  Sound => \A k \in DOMAIN chunk_cache :
             \E c \in DOMAIN store.index :
               k = ChunkGlobalID(c) /\ chunk_cache[k].data = AppendChunk(<<>>, c)

\* What loadChunk returns of a sound store is the next chunk.
LEMMA LoadedChunk ==
  ASSUME FetchInv, DataInv, Sound, pc = "loop", pos \in Nat, pos < Len(Recipe), ChunkMiss
  PROVE  SubSeq(container_buf', 1, EV.chunk_length) = AppendChunk(<<>>, Next1)
<1> DEFINE read == AppendChunk(<<>>, Next1)
<1> DEFINE len == ChunkLen[Next1]
<1>1. Recipe \in Seq(Chunk) /\ version \in DOMAIN recipes
  BY RestoreAssumption DEF Recipe, FetchInv
<1>2. pos + 1 \in 1..Len(Recipe)
  BY <1>1
<1>3. /\ Next1 \in Chunk /\ EV.chunk_length = len /\ len \in Nat \ {0}
      /\ ReadContainer(EV.container_number, EV.offset, EV.chunk_length) = read
  BY <1>1, <1>2, SoundChunk DEF Next1, EV
<1>4. read \in Seq(Cell) /\ Len(read) = len
  BY <1>3, ChunkBytes
<1>5. container_buf' = WriteAt(container_buf, 0, read)
  BY <1>3 DEF ChunkMiss
<1>6. container_buf \in Seq(Cell) /\ 0 \in Nat /\ 0 <= Len(container_buf)
  BY DEF DataInv
<1> HIDE DEF read, len
<1>7. /\ container_buf' \in Seq(Cell)
      /\ Len(container_buf') = Larger(Len(container_buf), 0 + Len(read))
      /\ \A j \in 1..Len(read) : container_buf'[0 + j] = read[j]
  BY <1>4, <1>5, <1>6, WriteAtTyped, WriteAtHolds
<1>8. PICK buf \in Seq(Cell) : buf = container_buf'
  BY <1>7
<1>9. Len(buf) \in Nat /\ len <= Len(buf) /\ \A j \in 1..len : buf[j] = read[j]
  <2>1. \A j \in 1..len : 0 + j = j
    BY <1>3
  <2>2. Len(container_buf) \in Nat
    BY <1>6
  <2> QED BY <1>3, <1>4, <1>7, <1>8, <2>1, <2>2 DEF Larger
<1>10. SubSeq(buf, 1, len) = read
  <2>1. SubSeq(buf, 1, len) \in Seq(Cell) /\ Len(SubSeq(buf, 1, len)) = len
        /\ \A j \in 1..len : SubSeq(buf, 1, len)[j] = buf[j]
    BY <1>3, <1>9
  <2> QED BY <1>4, <1>9, <2>1
<1> QED BY <1>3, <1>8, <1>10 DEF read

\* A hit serves the next chunk.
LEMMA HitChunk ==
  ASSUME FetchInv, HeldInv, Sound, ChunkHit
  PROVE  chunk_cache[ChunkGlobalID(Next1)].data = AppendChunk(<<>>, Next1)
<1>1. Next1 \in DOMAIN store.index /\ ChunkGlobalID(Next1) \in DOMAIN chunk_cache
  BY DEF ChunkHit
<1>2. PICK c \in DOMAIN store.index :
        /\ ChunkGlobalID(Next1) = ChunkGlobalID(c)
        /\ chunk_cache[ChunkGlobalID(Next1)].data = AppendChunk(<<>>, c)
  BY <1>1 DEF HeldInv
<1>3. c = Next1
  BY <1>1, <1>2 DEF Sound
<1> QED BY <1>2, <1>3

LEMMA InitHeld == Init => HeldInv
BY DEF Init, HeldInv

LEMMA NextHeld ==
  ASSUME FetchInv, LruInv, OutInv, DataInv, HeldInv, [Next]_vars
  PROVE  HeldInv'
<1>1. UNCHANGED task
  BY DEF Next, vars, NoVersion, Unsupported, Start, UnknownChunk, ContainerHit, ContainerMiss,
         ChunkHit, ChunkMiss, Finish, FaaFill, FaaEmpty, FaaEnd, FaaPass, FaaFlush, End
<1>2. store' = store /\ Sound' = Sound /\ \A c : ChunkGlobalID(c)' = ChunkGlobalID(c)
  BY <1>1, TaskKept DEF ChunkGlobalID
<1> SUFFICES ASSUME Sound, NEW k \in DOMAIN chunk_cache'
             PROVE  \E c \in DOMAIN store.index :
                      k = ChunkGlobalID(c) /\ chunk_cache'[k].data = AppendChunk(<<>>, c)
  BY <1>2 DEF HeldInv
<1>3. \A d \in DOMAIN chunk_cache :
        \E c \in DOMAIN store.index :
          d = ChunkGlobalID(c) /\ chunk_cache[d].data = AppendChunk(<<>>, c)
  BY DEF HeldInv
<1>4. CASE UNCHANGED chunkCache
  BY <1>3, <1>4 DEF chunkCache
<1>5. CASE ChunkHit
  <2> DEFINE key == ChunkGlobalID(Next1)
  <2>1. /\ key \in DOMAIN chunk_cache
        /\ chunk_cache' = [chunk_cache EXCEPT ![key].stamp = LRUtimestamp + 1]
    BY <1>5 DEF ChunkHit
  <2> HIDE DEF key
  <2>2. k \in DOMAIN chunk_cache
    BY <2>1
  <2>3. chunk_cache'[k].data = chunk_cache[k].data
    <3>1. CASE k # key
      BY <2>1, <2>2, <3>1
    <3>2. CASE k = key
      <4>1. chunk_cache[k] = [data |-> chunk_cache[k].data, stamp |-> chunk_cache[k].stamp]
        BY <2>2 DEF LruInv, InStep
      <4>2. chunk_cache'[k] = [chunk_cache[k] EXCEPT !.stamp = LRUtimestamp + 1]
        BY <2>1, <2>2, <3>2
      <4> QED BY <4>1, <4>2
    <3> QED BY <3>1, <3>2
  <2> QED BY <1>3, <2>2, <2>3
<1>6. CASE ChunkMiss
  <2> DEFINE key == ChunkGlobalID(Next1)
  <2> DEFINE kept == EvictLRU
  <2> DEFINE data == SubSeq(container_buf', 1, EV.chunk_length)
  <2>1. /\ pc = "loop" /\ pos < Len(Recipe) /\ Next1 \in DOMAIN store.index
        /\ chunk_cache' = [d \in DOMAIN kept.cache \cup {key} |->
                             IF d = key THEN [data |-> data, stamp |-> LRUtimestamp + 1]
                                        ELSE kept.cache[d]]
    BY <1>6 DEF ChunkMiss, Fetching
  <2>2. data = AppendChunk(<<>>, Next1)
    BY <1>6, <2>1, LoadedChunk DEF OutInv
  <2>3. \A d \in DOMAIN kept.cache : d \in DOMAIN chunk_cache /\ kept.cache[d] = chunk_cache[d]
    BY DEF EvictLRU, Restrict
  <2> HIDE DEF data, kept
  <2>4. CASE k = key
    <3>1. chunk_cache'[k].data = data
      <4> HIDE DEF key
      <4> QED BY <2>1, <2>4
    <3> QED BY <2>1, <2>2, <2>4, <3>1
  <2>5. CASE k # key
    <3>1. k \in DOMAIN chunk_cache /\ chunk_cache'[k] = chunk_cache[k]
      <4> HIDE DEF key
      <4> QED BY <2>1, <2>3, <2>5
    <3> QED BY <1>3, <3>1
  <2> QED BY <2>4, <2>5
<1>7. UNCHANGED chunkCache \/ ChunkHit \/ ChunkMiss
  BY DEF Next, vars, NoVersion, Unsupported, Start, UnknownChunk, ContainerHit, ContainerMiss,
         Finish, FaaFill, FaaEmpty, FaaEnd, FaaPass, FaaFlush, End
<1> QED BY <1>4, <1>5, <1>6, <1>7

-------------------------------------------------------------------------------
\* The places forward assembly gives to the chunks are those in the content.
LEMMA StartsLaid ==
  ASSUME FetchInv, Sound, version \in DOMAIN recipes, pos \in 0..Len(Recipe), NEW s, Laid(s)
  PROVE  \A k \in 0..(Len(Recipe) - pos) : faa_start[k] = s[pos + k] - s[pos]
<1> DEFINE n == Len(Recipe) - pos
<1>1. Recipe \in Seq(Chunk) /\ Len(Recipe) \in Nat /\ Content \in Seq(Cell)
  BY ContentLaid
<1>2. n \in Nat /\ pos \in Nat
  BY <1>1
<1>3. s \in [0..Len(Recipe) -> Nat]
  BY DEF Laid
<1>4. \A k \in 0..n : s[pos + k] \in Nat
  BY <1>1, <1>2, <1>3
<1>5. \A k \in 1..n : /\ pos + k \in 1..Len(Recipe) /\ (pos + k) - 1 = pos + (k - 1)
                       /\ k - 1 \in 0..n
  BY <1>1, <1>2
<1>6. \A k \in 1..n : s[pos + k] = s[pos + (k - 1)] + EntryOf(Recipe[pos + k]).chunk_length
  <2> TAKE k \in 1..n
  <2>1. s[pos + k] = s[(pos + k) - 1] + ChunkLen[Recipe[pos + k]]
    BY <1>1, <1>5, LaidAt
  <2>2. EntryOf(Recipe[pos + k]).chunk_length = ChunkLen[Recipe[pos + k]]
    BY <1>5, SoundChunk DEF EntryOf
  <2> QED BY <1>5, <2>1, <2>2
<1>7. \A k \in 0..n :
         faa_start[k] = IF k = 0 THEN 0
                        ELSE faa_start[k - 1] + EntryOf(Recipe[pos + k]).chunk_length
  BY <1>2, StartsAre
<1>8. \A k \in 1..n : EntryOf(Recipe[pos + k]).chunk_length \in Nat
  BY EntryOfTyped
<1> DEFINE Fine == {k \in Nat : k \in 0..n => faa_start[k] = s[pos + k] - s[pos]}
<1>9. 0 \in Fine
  <2>1. 0 \in 0..n /\ pos + 0 = pos
    BY <1>2
  <2>2. s[pos] \in Nat
    BY <1>3, <1>1
  <2>3. s[pos] - s[pos] = 0
    BY <2>2
  <2> QED BY <1>7, <2>1, <2>3
<1> HIDE DEF n
<1>10. ASSUME NEW k \in 0..n, k \in Fine PROVE k + 1 \in Fine
  <2> SUFFICES ASSUME k + 1 \in 0..n PROVE faa_start[k + 1] = s[pos + (k + 1)] - s[pos]
    BY <1>10
  <2>1. /\ k + 1 \in 1..n /\ k + 1 # 0 /\ (k + 1) - 1 = k /\ 0 \in 0..n /\ pos + 0 = pos
    BY <1>2, <1>10
  <2>2. PICK len \in Nat : len = EntryOf(Recipe[pos + (k + 1)]).chunk_length
    BY <1>8, <2>1
  <2>3. s[pos + (k + 1)] = s[pos + k] + len
    <3>1. s[pos + (k + 1)] = s[pos + ((k + 1) - 1)] + len
      BY <1>6, <2>1, <2>2
    <3> QED BY <2>1, <3>1
  <2>4. faa_start[k + 1] = faa_start[k] + len
    BY <1>7, <2>1, <2>2
  <2>5. faa_start[k] = s[pos + k] - s[pos]
    BY <1>10
  <2>6. s[pos + k] \in Nat /\ s[pos] \in Nat
    BY <1>4, <1>10, <2>1
  <2> QED BY <2>2, <2>3, <2>4, <2>5, <2>6
<1>11. \A k \in 0..(n + 1) : k \in Fine
  <2> HIDE DEF Fine
  <2> QED BY <1>2, <1>9, <1>10, Reached
<1>12. \A k \in 0..n : k \in 0..(n + 1)
  BY <1>2
<1> QED BY <1>11, <1>12 DEF n

\* Forward assembly begins with a part of the recipe.
LEMMA FillHolds ==
  ASSUME FetchInv, OutInv, FaaInv, Sound, FaaFill, NEW s, Laid(s), Placed(s)
  PROVE  pc' = "assemble" /\ Placed(s)' /\ written' = written /\ UNCHANGED task
<1> DEFINE n == Len(Recipe) - pos
<1>1. /\ pc = "fill" /\ version \in DOMAIN recipes /\ pos \in 0..Len(Recipe)
  BY DEF FaaFill, FetchInv, OutInv
<1>2. Recipe \in Seq(Chunk) /\ Len(Recipe) \in Nat /\ pos \in Nat
  BY <1>1, ContentLaid
<1>3. n \in Nat
  BY <1>1, <1>2
<1>4. FaaCount \in 0..n
  BY <1>3, CountTyped
<1>5. /\ recipe_buffer' = [k \in 1..FaaCount |->
             recipe_buffer_entry(EntryOf(Recipe[pos + k]), faa_start[k - 1])]
      /\ write_buffer_offset' = faa_start[FaaCount] /\ pos' = pos + FaaCount
      /\ pc' = "assemble" /\ UNCHANGED <<task, output, asm>>
  BY DEF FaaFill
<1>6. \A k \in 0..n : faa_start[k] = s[pos + k] - s[pos]
  BY <1>1, StartsLaid
<1>7. FileHolds /\ written = s[pos]
  BY <1>1 DEF Placed
<1>8. /\ Content' = Content /\ Recipe' = Recipe /\ old' = old /\ store' = store
      /\ UNCHANGED <<out, written>>
  BY <1>5, TaskKept DEF output
<1>9. s[pos] \in Nat /\ \A k \in 0..n : s[pos + k] \in Nat
  <2>1. s \in [0..Len(Recipe) -> Nat]
    BY DEF Laid
  <2>2. pos \in 0..Len(Recipe) /\ \A k \in 0..n : pos + k \in 0..Len(Recipe)
    BY <1>1, <1>2, <1>3
  <2> QED BY <2>1, <2>2
<1>10. PICK m \in 0..n : m = FaaCount
  BY <1>4
<1> HIDE DEF n
<1>11. m \in Nat /\ Len(recipe_buffer') = m /\ (pos + m) - m = pos
  BY <1>2, <1>3, <1>5, <1>10
<1>12. Base' = pos
  BY <1>5, <1>10, <1>11 DEF Base
<1>13. written' + write_buffer_offset' = s[pos']
  <2>1. faa_start[m] = s[pos + m] - s[pos] /\ s[pos + m] \in Nat
    BY <1>6, <1>9
  <2> QED BY <1>5, <1>7, <1>8, <1>9, <1>10, <2>1
<1>14. ASSUME NEW k \in 1..m
       PROVE  LET c == Recipe[pos + k]
                  x == recipe_buffer'[k]
              IN  /\ x.CID = store.index[c].container_number
                  /\ x.container_offset = store.index[c].offset
                  /\ x.length = ChunkLen[c] /\ x.faa_start = s[pos + k - 1] - s[pos]
                  /\ ~x.used
  <2>1. k - 1 \in 0..n /\ pos + (k - 1) = pos + k - 1 /\ pos + k \in 1..Len(Recipe)
    BY <1>2, <1>3, <1>10, <1>1 DEF n
  <2>2. faa_start[k - 1] = s[pos + k - 1] - s[pos]
    BY <1>6, <2>1
  <2> DEFINE c == Recipe[pos + k]
  <2>3. c \in DOMAIN store.index /\ store.index[c].chunk_length = ChunkLen[c]
    BY <1>1, <2>1, SoundChunk
  <2>4. recipe_buffer'[k] = recipe_buffer_entry(store.index[c], s[pos + k - 1] - s[pos])
    BY <1>5, <1>10, <2>2, <2>3 DEF EntryOf
  <2> HIDE DEF c
  <2> QED BY <2>3, <2>4 DEF recipe_buffer_entry, c
<1>15. FileHolds'
  BY <1>7, <1>8 DEF FileHolds
<1>16. Assembling(s)'
  <2>1. Base' \in Nat /\ written' = s[Base']
    BY <1>2, <1>7, <1>8, <1>12
  <2>2. \A k \in 1..Len(recipe_buffer') :
          LET c == Recipe'[Base' + k]
              x == recipe_buffer'[k]
          IN  /\ x.CID = store'.index[c].container_number
              /\ x.container_offset = store'.index[c].offset
              /\ x.length = ChunkLen[c] /\ x.faa_start = s[Base' + k - 1] - s[Base']
              /\ ~x.used
    BY <1>8, <1>11, <1>12, <1>14
  <2> QED BY <1>13, <2>1, <2>2 DEF Assembling, Describes
<1> QED BY <1>5, <1>8, <1>15, <1>16 DEF Placed

\* The container in memory has a chunk in its place.
LEMMA LoadedHolds ==
  ASSUME FetchInv, NEW cid, NEW off \in Nat, NEW c \in Chunk, off + ChunkLen[c] <= ContainerSize,
         ReadContainer(cid, off, ChunkLen[c]) = AppendChunk(<<>>, c)
  PROVE  \A j \in 1..ChunkLen[c] : loadContainer(cid)[off + j] = <<c, j>>
<1> DEFINE n == ChunkLen[c]
<1> DEFINE file == store.containers[cid]
<1> DEFINE data == Part(file, 0, ContainerSize)
<1> DEFINE chunk == AppendChunk(<<>>, c)
<1>1. n \in Nat \ {0} /\ Len(chunk) = n /\ \A j \in 1..n : chunk[j] = <<c, j>>
  BY ChunkBytes
<1>2. cid \in DOMAIN store.containers
  <2>1. SUFFICES ASSUME cid \notin DOMAIN store.containers PROVE FALSE
    OBVIOUS
  <2>2. ReadContainer(cid, off, n) = <<>>
    BY <2>1 DEF ReadContainer
  <2>3. Len(<<>>) = 0 /\ chunk = <<>>
    BY <2>2
  <2> HIDE DEF chunk, n
  <2> QED BY <1>1, <2>3
<1>3. file \in Seq(Cell) /\ ContainerSize \in Nat
  BY <1>2, StoreAssumption, Sizes DEF FetchInv
<1>4. Part(file, off, n) = chunk /\ loadContainer(cid) = WriteAt(Holes(ContainerSize), 0, data)
  BY <1>2 DEF ReadContainer, loadContainer
<1>5. data \in Seq(Cell)
  BY <1>3, PartTyped
<1> HIDE DEF file, chunk
<1>6. off + n <= Len(data) /\ \A j \in 1..n : data[off + j] = chunk[j]
  <2> HIDE DEF n
  <2>1. off + n <= ContainerSize
    BY DEF n
  <2> QED BY <1>1, <1>3, <1>4, <2>1, PieceRead
<1> HIDE DEF data, n
<1>7. \A i \in 1..Len(data) : loadContainer(cid)[0 + i] = data[i]
  <2>1. Holes(ContainerSize) \in Seq(Cell) /\ 0 \in Nat /\ 0 <= Len(Holes(ContainerSize))
    BY <1>3, HolesTyped
  <2> QED BY <1>4, <1>5, <2>1, WriteAtHolds
<1>8. \A j \in 1..n : off + j \in 1..Len(data) /\ 0 + (off + j) = off + j
  BY <1>1, <1>5, <1>6
<1>9. \A j \in 1..n : loadContainer(cid)[off + j] = <<c, j>>
  BY <1>1, <1>6, <1>7, <1>8
<1> QED BY <1>9 DEF n

\* The k-th entry of the forward assembly and its chunk c, at p in the buffer.
EntryAt(s, k, c, p) ==
  LET x == recipe_buffer[k] IN
    /\ Base + k \in 1..Len(Recipe) /\ c = Recipe[Base + k] /\ p = s[Base + k - 1] - s[Base]
    /\ x.faa_start = p /\ x.length = ChunkLen[c] /\ ChunkLen[c] \in Nat \ {0}
    /\ x.container_offset \in Nat /\ x.container_offset + ChunkLen[c] <= ContainerSize
    /\ ReadContainer(x.CID, x.container_offset, ChunkLen[c]) = AppendChunk(<<>>, c)
    /\ s[Base + k] - s[Base] = p + ChunkLen[c] /\ p + ChunkLen[c] <= write_buffer_offset
    /\ \A j \in 1..ChunkLen[c] : Content[written + (p + j)] = <<c, j>>
    /\ x.used => \A j \in 1..ChunkLen[c] : asm[p + j] = <<c, j>>

LEMMA EntryHolds ==
  ASSUME FetchInv, OutInv, FaaInv, Sound, pc = "assemble", NEW s, Laid(s), Placed(s),
         NEW k \in 1..Len(recipe_buffer)
  PROVE  \E c \in Chunk, p \in Nat : EntryAt(s, k, c, p)
<1> DEFINE x == recipe_buffer[k]
<1> DEFINE n == Len(recipe_buffer)
<1>1. version \in DOMAIN recipes /\ pos \in 0..Len(Recipe) /\ pos \in Nat
  BY DEF FetchInv, OutInv
<1>2. Recipe \in Seq(Chunk) /\ Len(Recipe) \in Nat /\ Content \in Seq(Cell)
  BY <1>1, ContentLaid
<1>3. n \in Nat /\ Base \in Nat /\ Base + n = pos
  <2>1. n \in Nat
    BY DEF FaaInv
  <2>2. Base = pos - n /\ Base \in Nat
    BY DEF Base, Placed, Assembling
  <2> HIDE DEF n
  <2> QED BY <1>1, <2>1, <2>2
<1>4. /\ Base + k \in 1..Len(Recipe) /\ (Base + k) - 1 = Base + k - 1
      /\ Base + k - 1 \in 0..Len(Recipe) /\ Base \in 0..(Base + k - 1) /\ Base + k \in 0..pos
  BY <1>1, <1>2, <1>3
<1> DEFINE c == Recipe[Base + k]
<1> DEFINE p == s[Base + k - 1] - s[Base]
<1> DEFINE len == ChunkLen[c]
<1>5. /\ c \in Chunk /\ store.index[c].chunk_length = len /\ len \in Nat \ {0}
      /\ store.index[c].offset \in Nat /\ store.index[c].offset + len <= ContainerSize
      /\ ReadContainer(store.index[c].container_number, store.index[c].offset,
                       store.index[c].chunk_length) = AppendChunk(<<>>, c)
  BY <1>1, <1>4, SoundChunk
<1>6. /\ x.CID = store.index[c].container_number /\ x.container_offset = store.index[c].offset
      /\ x.length = len /\ x.faa_start = p
      /\ x.used => \A j \in 1..len : asm[p + j] = <<c, j>>
  BY DEF Placed, Assembling, Describes
<1>7. /\ s[(Base + k) - 1] \in Nat /\ s[Base + k] \in Nat
      /\ s[Base + k] = s[(Base + k) - 1] + len
      /\ \A j \in 1..len : Content[s[(Base + k) - 1] + j] = <<c, j>>
  BY <1>2, <1>4, LaidAt
<1>8. written = s[Base] /\ written + write_buffer_offset = s[pos]
  BY DEF Placed, Assembling
<1>9. s[Base] <= s[Base + k - 1] /\ s[Base + k] <= s[pos]
  BY <1>1, <1>4 DEF Laid
<1>10. s \in [0..Len(Recipe) -> Nat] /\ Base \in 0..Len(Recipe)
  BY <1>1, <1>2, <1>3 DEF Laid
<1>11. written \in Nat /\ write_buffer_offset \in Nat
  BY Sizes DEF OutInv
<1> DEFINE a == s[Base + k - 1]
<1>12. a \in Nat /\ a >= written /\ p = a - written /\ s[Base + k] = a + len
       /\ \A j \in 1..len : Content[a + j] = <<c, j>>
  BY <1>4, <1>7, <1>8, <1>9
<1>13. a + len <= written + write_buffer_offset
  BY <1>8, <1>9, <1>12
<1> HIDE DEF a
<1>14. p \in Nat /\ written + p = a
  <2> HIDE DEF p
  <2> QED BY <1>11, <1>12
<1> HIDE DEF p, len
<1>15. p + len <= write_buffer_offset
  BY <1>5, <1>11, <1>12, <1>13, <1>14
<1>16. \A j \in 1..len : Content[written + (p + j)] = <<c, j>>
  <2>1. \A j \in 1..len : written + (p + j) = a + j
    BY <1>11, <1>14, <1>5
  <2> QED BY <1>12, <2>1
<1>17. s[Base + k] - s[Base] = p + len
  <2>1. s[Base + k] = (written + p) + len /\ s[Base] = written
    BY <1>8, <1>12, <1>14
  <2> QED BY <1>5, <1>11, <1>14, <2>1
<1> HIDE DEF c, x
<1>18. p = s[Base + k - 1] - s[Base]
  BY DEF p
<1>19. EntryAt(s, k, c, p)
  BY <1>4, <1>5, <1>6, <1>15, <1>16, <1>17, <1>18 DEF EntryAt, c, len, x
<1>20. c \in Chunk
  BY <1>5
<1> QED BY <1>14, <1>19, <1>20

\* A pass brings more of the entries' chunks into the buffer.
LEMMA PassHolds ==
  ASSUME FetchInv, OutInv, FaaInv, Sound, FaaPass, NEW s, Laid(s), Placed(s)
  PROVE  pc' = "assemble" /\ Placed(s)' /\ written' = written /\ UNCHANGED task
<1> DEFINE first == CHOOSE k \in Unused : \A j \in Unused : k <= j
<1> DEFINE cid == recipe_buffer[first].CID
<1> DEFINE loaded == loadContainer(cid)
<1> DEFINE At(i) == {k \in Served(cid) :
                       i \in (recipe_buffer[k].faa_start + 1)
                             ..(recipe_buffer[k].faa_start + recipe_buffer[k].length)}
<1> DEFINE Beyond == \E k \in Served(cid) :
              recipe_buffer[k].container_offset + recipe_buffer[k].length > ContainerSize
<1>1. /\ pc = "assemble"
      /\ UNCHANGED <<task, pos, output, write_buffer_offset>>
  BY DEF FaaPass
<1>2. /\ Recipe' = Recipe /\ Content' = Content /\ old' = old /\ store' = store
      /\ UNCHANGED <<out, written>>
  BY <1>1, TaskKept DEF output
<1>3. /\ DOMAIN recipe_buffer = 1..Len(recipe_buffer) /\ Len(recipe_buffer) \in Nat
      /\ \A k \in DOMAIN recipe_buffer : recipe_buffer[k] \in FaaEntry
  BY DEF FaaInv
<1>4. /\ Served(cid) \subseteq 1..Len(recipe_buffer)
      /\ \A k \in Served(cid) : recipe_buffer[k].CID = cid
  BY <1>3 DEF Served, Unused
<1>5. ~Beyond
  <2> SUFFICES ASSUME NEW k \in Served(cid)
               PROVE  ~(recipe_buffer[k].container_offset + recipe_buffer[k].length > ContainerSize)
    OBVIOUS
  <2> HIDE DEF cid
  <2>1. PICK c \in Chunk, p \in Nat : EntryAt(s, k, c, p)
    BY <1>1, <1>4, EntryHolds
  <2>2. /\ recipe_buffer[k].length = ChunkLen[c] /\ ChunkLen[c] \in Nat
        /\ recipe_buffer[k].container_offset \in Nat
        /\ recipe_buffer[k].container_offset + ChunkLen[c] <= ContainerSize
    BY <2>1 DEF EntryAt
  <2> QED BY <2>2, Sizes
<1>6. /\ asm' = [i \in 1..Len(asm) |->
                   IF At(i) = {} THEN asm[i]
                   ELSE LET x == recipe_buffer[CHOOSE k \in At(i) : TRUE]
                        IN  loaded[x.container_offset + i - x.faa_start]]
      /\ recipe_buffer' = [k \in DOMAIN recipe_buffer |->
                             IF k \in Served(cid)
                             THEN [recipe_buffer[k] EXCEPT !.used = TRUE]
                             ELSE recipe_buffer[k]]
      /\ pc' = "assemble"
  BY <1>5 DEF FaaPass
<1> HIDE DEF cid, Beyond
<1>7. asm \in Seq(Cell) /\ Len(asm) = FileCache /\ FileCache \in Nat
      /\ write_buffer_offset \in 0..FileCache /\ written \in Nat
  BY Sizes DEF OutInv
\* What is copied is what the content has there.
<1>8. ASSUME NEW i \in 1..Len(asm), NEW k \in At(i)
      PROVE  loaded[recipe_buffer[k].container_offset + i - recipe_buffer[k].faa_start]
               = Content[written + i]
  <2>1. k \in 1..Len(recipe_buffer) /\ recipe_buffer[k].CID = cid /\ k \in Served(cid)
        /\ i \in (recipe_buffer[k].faa_start + 1)
                 ..(recipe_buffer[k].faa_start + recipe_buffer[k].length)
    BY <1>4
  <2>2. PICK c \in Chunk, p \in Nat : EntryAt(s, k, c, p)
    BY <1>1, <2>1, EntryHolds
  <2>3. /\ recipe_buffer[k].faa_start = p /\ recipe_buffer[k].length = ChunkLen[c]
        /\ ChunkLen[c] \in Nat
        /\ recipe_buffer[k].container_offset \in Nat
        /\ recipe_buffer[k].container_offset + ChunkLen[c] <= ContainerSize
        /\ ReadContainer(cid, recipe_buffer[k].container_offset, ChunkLen[c])
             = AppendChunk(<<>>, c)
        /\ \A j \in 1..ChunkLen[c] : Content[written + (p + j)] = <<c, j>>
    BY <2>1, <2>2 DEF EntryAt
  <2>4. PICK off \in Nat : off = recipe_buffer[k].container_offset
    BY <2>3
  <2>5. PICK j \in 1..ChunkLen[c] : i = p + j
    <3>1. i - p \in 1..ChunkLen[c] /\ i = p + (i - p)
      BY <2>1, <2>3
    <3> QED BY <3>1
  <2>6. loaded[off + j] = <<c, j>>
    <3>1. \A m \in 1..ChunkLen[c] : loadContainer(cid)[off + m] = <<c, m>>
      BY <2>3, <2>4, LoadedHolds
    <3> QED BY <3>1
  <2>7. off + i - p = off + j
    BY <2>3, <2>4, <2>5
  <2>8. Content[written + i] = <<c, j>>
    BY <2>3, <2>5
  <2> QED BY <2>3, <2>4, <2>6, <2>7, <2>8
<1> HIDE DEF loaded
<1>9. ASSUME NEW i \in 1..Len(asm), At(i) # {} PROVE asm'[i] = Content[written + i]
  <2> DEFINE k == CHOOSE k \in At(i) : TRUE
  <2>1. k \in At(i)
    BY <1>9
  <2>2. asm'[i] = loaded[recipe_buffer[k].container_offset + i - recipe_buffer[k].faa_start]
    BY <1>6, <1>9
  <2> HIDE DEF k, At
  <2> QED BY <1>8, <2>1, <2>2
<1>10. ASSUME NEW i \in 1..Len(asm), At(i) = {} PROVE asm'[i] = asm[i]
  BY <1>6, <1>10
<1>11. ASSUME NEW k \in 1..Len(recipe_buffer)
       PROVE  LET x == recipe_buffer[k]
                  y == recipe_buffer'[k]
              IN  /\ y.CID = x.CID /\ y.container_offset = x.container_offset
                  /\ y.length = x.length /\ y.faa_start = x.faa_start
                  /\ y.used <=> x.used \/ k \in Served(cid)
  <2>1. recipe_buffer[k] \in FaaEntry
    BY <1>3
  <2>2. recipe_buffer'[k] = IF k \in Served(cid)
                            THEN [recipe_buffer[k] EXCEPT !.used = TRUE]
                            ELSE recipe_buffer[k]
    BY <1>3, <1>6
  <2> QED BY <2>1, <2>2 DEF FaaEntry
<1>12. ASSUME NEW k \in 1..Len(recipe_buffer), recipe_buffer'[k].used
       PROVE  LET c == Recipe[Base + k]
                  p == s[Base + k - 1] - s[Base]
              IN  \A j \in 1..ChunkLen[c] : asm'[p + j] = <<c, j>>
  <2>1. PICK c \in Chunk, p \in Nat : EntryAt(s, k, c, p)
    BY <1>1, EntryHolds
  <2>2. /\ c = Recipe[Base + k] /\ p = s[Base + k - 1] - s[Base]
        /\ recipe_buffer[k].faa_start = p /\ recipe_buffer[k].length = ChunkLen[c]
        /\ ChunkLen[c] \in Nat /\ p + ChunkLen[c] <= write_buffer_offset
        /\ \A j \in 1..ChunkLen[c] : Content[written + (p + j)] = <<c, j>>
        /\ recipe_buffer[k].used => \A j \in 1..ChunkLen[c] : asm[p + j] = <<c, j>>
    BY <2>1 DEF EntryAt
  <2>3. ASSUME NEW j \in 1..ChunkLen[c] PROVE asm'[p + j] = <<c, j>>
    <3>1. p + j \in 1..Len(asm) /\ p + j \in (p + 1)..(p + ChunkLen[c])
      <4>1. PICK len \in Nat, w \in Nat : len = ChunkLen[c] /\ w = write_buffer_offset
        BY <1>7, <2>2
      <4>2. p + len <= w /\ w <= Len(asm) /\ Len(asm) \in Nat /\ j \in 1..len
        BY <1>7, <2>2, <4>1
      <4>3. p + j \in 1..Len(asm) /\ p + j \in (p + 1)..(p + len)
        BY <4>1, <4>2
      <4> QED BY <4>1, <4>3
    <3>2. CASE At(p + j) # {}
      <4>1. asm'[p + j] = Content[written + (p + j)]
        <5> HIDE DEF At
        <5> QED BY <1>9, <3>1, <3>2
      <4> QED BY <2>2, <4>1
    <3>3. CASE At(p + j) = {}
      <4>1. k \notin Served(cid)
        BY <2>2, <3>1, <3>3
      <4>2. recipe_buffer[k].used
        BY <1>11, <1>12, <4>1
      <4>3. asm'[p + j] = asm[p + j]
        <5> HIDE DEF At
        <5> QED BY <1>10, <3>1, <3>3
      <4> QED BY <2>2, <4>2, <4>3
    <3> QED BY <3>2, <3>3
  <2> QED BY <2>2, <2>3
<1>13. Len(recipe_buffer') = Len(recipe_buffer)
  <2> DEFINE y(k) == IF k \in Served(cid) THEN [recipe_buffer[k] EXCEPT !.used = TRUE]
                     ELSE recipe_buffer[k]
  <2>1. recipe_buffer' = [k \in DOMAIN recipe_buffer |-> y(k)]
    BY <1>6
  <2> HIDE DEF y
  <2> QED BY <1>3, <2>1
<1>14. Base' = Base
  BY <1>1, <1>13 DEF Base
<1>15. /\ Base \in Nat /\ written = s[Base] /\ written + write_buffer_offset = s[pos]
       /\ \A k \in 1..Len(recipe_buffer) :
            LET c == Recipe[Base + k]
                x == recipe_buffer[k]
            IN  /\ x.CID = store.index[c].container_number
                /\ x.container_offset = store.index[c].offset
                /\ x.length = ChunkLen[c] /\ x.faa_start = s[Base + k - 1] - s[Base]
  BY <1>1 DEF Placed, Assembling, Describes
<1>16. \A k \in 1..Len(recipe_buffer') :
         LET c == Recipe'[Base' + k]
             x == recipe_buffer'[k]
             p == s[Base' + k - 1] - s[Base']
         IN  /\ x.CID = store'.index[c].container_number
             /\ x.container_offset = store'.index[c].offset
             /\ x.length = ChunkLen[c] /\ x.faa_start = p
             /\ x.used => \A j \in 1..ChunkLen[c] : asm'[p + j] = <<c, j>>
  BY <1>2, <1>11, <1>12, <1>13, <1>14, <1>15
<1>17. Assembling(s)'
  BY <1>1, <1>2, <1>14, <1>15, <1>16 DEF Assembling, Describes
<1>18. FileHolds'
  BY <1>2 DEF FileHolds, Placed
<1> QED BY <1>1, <1>2, <1>6, <1>17, <1>18 DEF Placed

\* When every entry is used, the buffer is the next part of the content.
LEMMA AllCollected ==
  ASSUME FetchInv, OutInv, FaaInv, Sound, pc = "assemble", Unused = {}, NEW s, Laid(s), Placed(s)
  PROVE  Collected(write_buffer_offset) /\ written + write_buffer_offset = s[pos]
         /\ s[pos] <= Len(Content)
<1> DEFINE n == Len(recipe_buffer)
<1> DEFINE end(k) == s[Base + k] - s[Base]
<1>1. version \in DOMAIN recipes /\ pos \in 0..Len(Recipe) /\ pos \in Nat
  BY DEF FetchInv, OutInv
<1>2. Recipe \in Seq(Chunk) /\ Len(Recipe) \in Nat /\ Len(Recipe) \in 0..Len(Recipe)
  BY <1>1, ContentLaid
<1>3. n \in Nat /\ Base \in Nat /\ Base + n = pos
  <2>1. n \in Nat
    BY DEF FaaInv
  <2>2. Base = pos - n /\ Base \in Nat
    BY DEF Base, Placed, Assembling
  <2> HIDE DEF n
  <2> QED BY <1>1, <2>1, <2>2
<1>4. written = s[Base] /\ written + write_buffer_offset = s[pos]
      /\ written \in Nat /\ write_buffer_offset \in Nat
  BY Sizes DEF Placed, Assembling, OutInv
<1>5. s[pos] <= Len(Content)
  BY <1>1, <1>2 DEF Laid
<1>6. ASSUME NEW i \in 1..write_buffer_offset PROVE asm[i] = Content[written + i]
  <2> DEFINE T == {k \in 0..n : i <= end(k)}
  <2>1. n \in T
    <3>1. end(n) = write_buffer_offset
      BY <1>3, <1>4
    <3> HIDE DEF n, end
    <3> QED BY <1>3, <1>4, <3>1
  <2>2. PICK k \in T : \A u \in T : k <= u
    <3>1. T \in SUBSET Nat
      BY <1>3
    <3> QED BY <2>1, <3>1, HasLeast
  <2>3. k # 0
    <3>1. Base + 0 = Base
      BY <1>3
    <3>2. end(0) = 0
      BY <1>4, <3>1
    <3> HIDE DEF end
    <3> QED BY <2>2, <3>2
  <2>4. k \in 1..n /\ i <= end(k) /\ k - 1 \in 0..n /\ ~(k <= k - 1)
    <3> HIDE DEF end, n
    <3> QED BY <1>3, <2>2, <2>3
  <2>5. ~(i <= end(k - 1))
    <3> HIDE DEF end, n
    <3> QED BY <2>2, <2>4
  <2>6. recipe_buffer[k].used
    <3>1. DOMAIN recipe_buffer = 1..n
      BY DEF FaaInv
    <3> QED BY <2>4, <3>1 DEF Unused
  <2>7. PICK c \in Chunk, p \in Nat : EntryAt(s, k, c, p)
    BY <2>4, EntryHolds
  <2>8. /\ p = s[Base + k - 1] - s[Base] /\ ChunkLen[c] \in Nat
        /\ end(k) = p + ChunkLen[c]
        /\ \A j \in 1..ChunkLen[c] : Content[written + (p + j)] = <<c, j>>
        /\ \A j \in 1..ChunkLen[c] : asm[p + j] = <<c, j>>
    BY <2>6, <2>7 DEF EntryAt
  <2>9. Base + (k - 1) = Base + k - 1
    BY <1>3, <2>4
  <2>10. end(k - 1) = p
    BY <2>8, <2>9
  <2> HIDE DEF end
  <2>11. i - p \in 1..ChunkLen[c] /\ p + (i - p) = i
    BY <2>4, <2>5, <2>8, <2>10
  <2> QED BY <2>8, <2>11
<1> QED BY <1>4, <1>5, <1>6 DEF Collected

-------------------------------------------------------------------------------
\* The refinement.

\* Every invariant the step rests on.
RestoreInv ==
  /\ CacheInv /\ FetchInv /\ LruInv /\ OutInv /\ DataInv /\ FaaInv /\ HeldInv /\ PlaceInv

\* A step that writes more of the content, or nothing.
Advance ==
  /\ written' >= written /\ FileHolds' /\ Outcome = "running"
  /\ Outcome' = "running" \/ (Outcome' = "done" /\ written' = Len(Content))

\* Nothing overlays nothing.
LEMMA NothingOver ==
  ASSUME NEW content \in Seq(Cell), NEW before \in Seq(Cell)
  PROVE  before = Overlay(SubSeq(content, 1, 0), before)
<1>1. Len(SubSeq(content, 1, 0)) = 0
  OBVIOUS
<1>2. Larger(0, Len(before)) = Len(before) /\ Len(before) \in Nat
  BY DEF Larger
<1>3. Overlay(SubSeq(content, 1, 0), before) = [i \in 1..Len(before) |-> before[i]]
  <2>1. \A i \in 1..Len(before) : ~(i <= 0)
    BY <1>2
  <2> QED BY <1>1, <1>2, <2>1 DEF Overlay
<1> QED BY <1>3

\* The task starts at the beginning of the content.
LEMMA StartPlaces ==
  ASSUME FetchInv, OutInv, PlaceInv, Start
  PROVE  PlaceInv' /\ UNCHANGED <<task, out, written>>
<1>1. /\ pc = "start" /\ pos = 0 /\ version \in DOMAIN recipes /\ pc' \in {"fill", "loop"}
      /\ UNCHANGED <<task, pos, out, written, asm, write_buffer_offset>>
      /\ out = old /\ written = 0 /\ write_buffer_offset = 0
  BY DEF Start, FetchInv, PlaceInv, output, buffer
<1>2. Content \in Seq(Cell) /\ \E s : Laid(s)
  BY <1>1, ContentLaid
<1>3. PICK s : Laid(s)
  BY <1>2
<1>4. old \in Seq(Cell) /\ Len(Content) \in Nat /\ s[0] = 0
  BY <1>2, <1>3, RestoreAssumption DEF OutInv, Laid
<1>5. Content' = Content /\ old' = old /\ Laid(s)'
  BY <1>1, <1>3, TaskKept
<1>6. out = Overlay(SubSeq(Content, 1, 0), old)
  BY <1>1, <1>2, <1>4, NothingOver
<1>7. FileHolds'
  BY <1>1, <1>4, <1>5, <1>6 DEF FileHolds
<1>8. 1..0 = {}
  OBVIOUS
<1>9. Placed(s)'
  BY <1>1, <1>4, <1>7, <1>8 DEF Placed, Collected
<1> QED BY <1>1, <1>5, <1>9 DEF PlaceInv

\* A task that goes on fetches what its recipe says.
LEMMA FetchAdvances ==
  ASSUME RestoreInv, Reliable, ContainerHit \/ ContainerMiss \/ ChunkHit \/ ChunkMiss
  PROVE  PlaceInv' /\ Advance /\ UNCHANGED task
<1>1. /\ pc = "loop" /\ pos < Len(Recipe) /\ UNCHANGED task /\ Sound /\ pos \in Nat
      /\ version \in DOMAIN recipes
  BY DEF ContainerHit, ContainerMiss, ChunkHit, ChunkMiss, Fetching, Reliable, RestoreInv, OutInv,
         FetchInv
<1>2. Deliver(AppendChunk(<<>>, Next1))
  <2>1. CASE ContainerHit
    <3>1. container_cache[EV.container_number] = ReadContainer(EV.container_number, 0, ContainerSize)
          /\ Substring(container_cache[EV.container_number])
      BY <2>1 DEF ContainerHit, RestoreInv, CacheInv, Agrees
    <3> QED BY <1>1, <3>1, CachedChunk DEF RestoreInv
  <2>2. CASE ContainerMiss
    <3>1. EV.container_number \in DOMAIN store.containers
      BY <1>1, CachedChunk DEF RestoreInv
    <3>2. Substring(ReadContainer(EV.container_number, 0, ContainerSize))
      BY <2>2, <3>1 DEF ContainerMiss
    <3> QED BY <1>1, <3>2, CachedChunk DEF RestoreInv
  <2>3. CASE ChunkHit
    <3>1. Deliver(chunk_cache[ChunkGlobalID(Next1)].data)
      BY <2>3 DEF ChunkHit
    <3>2. chunk_cache[ChunkGlobalID(Next1)].data = AppendChunk(<<>>, Next1)
      BY <1>1, <2>3, HitChunk DEF RestoreInv
    <3> QED BY <3>1, <3>2
  <2>4. CASE ChunkMiss
    <3>1. Deliver(SubSeq(container_buf', 1, EV.chunk_length))
      BY <2>4 DEF ChunkMiss
    <3>2. SubSeq(container_buf', 1, EV.chunk_length) = AppendChunk(<<>>, Next1)
      BY <1>1, <2>4, LoadedChunk DEF RestoreInv
    <3> QED BY <3>1, <3>2
  <2> QED BY <2>1, <2>2, <2>3, <2>4
<1>3. PICK s : Laid(s) /\ Placed(s)
  BY <1>1 DEF RestoreInv, PlaceInv
<1>4. pc' = "loop" /\ Placed(s)' /\ written' >= written
  BY <1>1, <1>2, <1>3, Assembled DEF RestoreInv
<1>5. Laid(s)'
  BY <1>1, <1>3, TaskKept
<1> QED BY <1>1, <1>4, <1>5 DEF PlaceInv, Advance, Outcome, Placed

\* At the end of the recipe all of the content is written.
LEMMA EndAdvances ==
  ASSUME RestoreInv, Reliable, Finish \/ FaaEnd
  PROVE  PlaceInv' /\ Advance /\ UNCHANGED task
<1>1. /\ pc \in {"loop", "fill"} /\ pos = Len(Recipe) /\ pc' = "done" /\ UNCHANGED task
      /\ version \in DOMAIN recipes
  BY DEF Finish, FaaEnd, End, RestoreInv, FetchInv
<1>2. PICK s : Laid(s) /\ Placed(s)
  BY <1>1 DEF RestoreInv, PlaceInv
<1>3. Content \in Seq(Cell) /\ s[pos] = Len(Content) /\ Len(Content) \in Nat
  BY <1>1, <1>2, ContentLaid DEF RestoreInv, Laid
<1>4. Content' = Content /\ old' = old
  BY <1>1, TaskKept
<1>5. written \in Nat /\ write_buffer_offset \in Nat
  BY Sizes DEF RestoreInv, OutInv
<1>6. FileHolds' /\ written' = Len(Content) /\ written' >= written
  <2>1. CASE Finish
    <3>1. pc = "loop" /\ Flush(write_buffer_offset)
      BY <2>1 DEF Finish, LastFlush
    <3>2. FileHolds /\ Collected(write_buffer_offset) /\ written + write_buffer_offset = s[pos]
      BY <1>2, <3>1 DEF Placed
    <3>3. FileHolds' /\ written' = written + write_buffer_offset
      BY <1>1, <1>3, <3>1, <3>2, FlushHolds DEF RestoreInv
    <3> QED BY <1>3, <1>5, <3>2, <3>3
  <2>2. CASE FaaEnd
    <3>1. pc = "fill" /\ UNCHANGED output
      BY <2>2 DEF FaaEnd, End
    <3>2. FileHolds /\ written = s[pos]
      BY <1>2, <3>1 DEF Placed
    <3> QED BY <1>3, <1>4, <1>5, <3>1, <3>2 DEF FileHolds, output
  <2> QED BY <1>1, <2>1, <2>2
<1>7. PlaceInv'
  BY <1>1 DEF PlaceInv
<1> QED BY <1>1, <1>6, <1>7 DEF Advance, Outcome

\* Forward assembly restores the content part by part.
LEMMA FaaAdvances ==
  ASSUME RestoreInv, Reliable, FaaFill \/ FaaPass \/ FaaFlush
  PROVE  PlaceInv' /\ Advance /\ UNCHANGED task
<1>1. pc \in {"fill", "assemble"} /\ Sound /\ version \in DOMAIN recipes
  BY DEF FaaFill, FaaPass, FaaFlush, Reliable, RestoreInv, FetchInv
<1>2. PICK s : Laid(s) /\ Placed(s)
  BY <1>1 DEF RestoreInv, PlaceInv
<1>3. written \in Nat /\ write_buffer_offset \in Nat
  BY Sizes DEF RestoreInv, OutInv
<1>4. CASE FaaFill \/ FaaPass
  <2>1. pc' = "assemble" /\ Placed(s)' /\ written' = written /\ UNCHANGED task
    BY <1>1, <1>2, <1>4, FillHolds, PassHolds DEF RestoreInv
  <2>2. Laid(s)'
    BY <1>2, <2>1, TaskKept
  <2> QED BY <1>1, <1>3, <2>1, <2>2 DEF PlaceInv, Advance, Outcome, Placed
<1>5. CASE FaaFlush
  <2>1. /\ pc = "assemble" /\ Unused = {} /\ Flush(write_buffer_offset) /\ pc' = "fill"
        /\ UNCHANGED <<task, pos>>
    BY <1>5 DEF FaaFlush
  <2>2. Collected(write_buffer_offset) /\ written + write_buffer_offset = s[pos]
        /\ s[pos] <= Len(Content)
    BY <1>1, <1>2, <2>1, AllCollected DEF RestoreInv
  <2>3. FileHolds /\ Content \in Seq(Cell)
    BY <1>1, <1>2, ContentLaid DEF Placed, RestoreInv
  <2>4. FileHolds' /\ written' = written + write_buffer_offset
    BY <2>1, <2>2, <2>3, FlushHolds DEF RestoreInv
  <2>5. Placed(s)'
    BY <2>1, <2>2, <2>4 DEF Placed
  <2>6. Laid(s)'
    BY <1>2, <2>1, TaskKept
  <2>7. written' >= written
    BY <1>3, <2>4
  <2> QED BY <1>1, <2>1, <2>4, <2>5, <2>6, <2>7 DEF PlaceInv, Advance, Outcome
<1> QED BY <1>4, <1>5

\* An advance is a delivery.
LEMMA AdvanceDelivers ==
  ASSUME Advance, UNCHANGED task
  PROVE  Promise!Next
<1>1. Content' = Content /\ old' = old /\ Reliable' = Reliable
  BY TaskKept
<1>2. written' <= Len(Content) /\ out' = Overlay(SubSeq(Content, 1, written'), old)
  BY <1>1 DEF Advance, FileHolds
<1>3. Outcome = "running" /\ written' >= written
      /\ (Outcome' = "running" \/ (Outcome' = "done" /\ written' = Len(Content)))
  BY DEF Advance
<1>4. Promise!Deliver
  BY <1>2, <1>3 DEF Promise!Deliver
<1> QED BY <1>1, <1>3, <1>4 DEF Promise!Next

\* In no case does a sound store stop the task.
LEMMA NeverStuck ==
  ASSUME RestoreInv, Reliable
  PROVE  ~UnknownChunk /\ ~FaaEmpty
<1>1. ASSUME UnknownChunk PROVE FALSE
  <2>1. pc = "loop" /\ pos < Len(Recipe) /\ Next1 \notin DOMAIN store.index
    BY <1>1 DEF UnknownChunk, Fetching
  <2>2. version \in DOMAIN recipes /\ pos \in Nat /\ Sound
    BY <2>1 DEF RestoreInv, FetchInv, OutInv, Reliable
  <2>3. pos + 1 \in 1..Len(Recipe)
    <3>1. Recipe \in Seq(Chunk)
      BY <2>2, RestoreAssumption DEF Recipe, RestoreInv, FetchInv
    <3> QED BY <2>1, <2>2, <3>1
  <2>4. Next1 \in DOMAIN store.index
    BY <2>2, <2>3, SoundChunk DEF Next1, RestoreInv
  <2> QED BY <2>1, <2>4
<1>2. ASSUME FaaEmpty PROVE FALSE
  <2>1. pc = "fill" /\ Recipe = <<>>
    BY <1>2 DEF FaaEmpty
  <2>2. method = "faa_fixed" /\ version \in DOMAIN recipes
    BY <2>1 DEF RestoreInv, FetchInv
  <2>3. PICK s : Laid(s)
    BY <2>2, ContentLaid DEF RestoreInv
  <2>4. Len(Content) = 0
    BY <2>1, <2>3 DEF Laid
  <2>5. Content = <<>>
    BY <2>2, <2>4, ContentLaid DEF RestoreInv
  <2> QED BY <2>2, <2>5 DEF Reliable
<1> QED BY <1>1, <1>2

\* Each step keeps the places and is a step of the promise.
LEMMA NextPromised ==
  ASSUME RestoreInv, [Next]_vars
  PROVE  PlaceInv' /\ [Promise!Next]_(Promise!vars)
<1>1. CASE UNCHANGED vars
  <2>1. UNCHANGED <<pc, pos, out, written, asm, write_buffer_offset, recipe_buffer>>
        /\ UNCHANGED task
    BY <1>1 DEF vars, output, buffer
  <2>2. /\ Content' = Content /\ Reliable' = Reliable /\ old' = old /\ Recipe' = Recipe
        /\ store' = store /\ \A s : Laid(s)' = Laid(s)
    BY <2>1, TaskKept
  <2>3. \A s : Placed(s)' <=> Placed(s)
    BY <2>1, <2>2 DEF Placed, FileHolds, Collected, Assembling, Describes, Base
  <2>4. PlaceInv'
    BY <2>1, <2>2, <2>3 DEF PlaceInv, RestoreInv
  <2>5. UNCHANGED Promise!vars
    BY <2>1, <2>2 DEF Promise!vars, Outcome
  <2> QED BY <2>4, <2>5
<1>2. CASE Next
  <2>1. /\ UNCHANGED task /\ pc' # "start" /\ Outcome = "running"
    BY <1>2 DEF Next, NoVersion, Unsupported, Start, UnknownChunk, ContainerHit, ContainerMiss,
           ChunkHit, ChunkMiss, Finish, FaaFill, FaaEmpty, FaaEnd, FaaPass, FaaFlush, End, Fetching,
           Substring, Deliver, Outcome
  <2>2. Reliable' = Reliable /\ Content' = Content /\ old' = old
    BY <2>1, TaskKept
  <2>3. CASE ~Reliable
    <3>1. PlaceInv'
      BY <2>1, <2>2, <2>3 DEF PlaceInv
    <3>2. Promise!Next
      BY <2>1, <2>2, <2>3 DEF Promise!Next, Promise!NothingPromised
    <3> QED BY <3>1, <3>2
  <2>4. CASE Reliable
    <3>1. CASE NoVersion \/ Unsupported
      <4>1. /\ pc = "start" /\ pc' \in {"missing", "unsupported"} /\ UNCHANGED output
        BY <3>1 DEF NoVersion, Unsupported, End
      <4>2. Promise!Refuse
        BY <4>1 DEF Promise!Refuse, Outcome, PlaceInv, RestoreInv, output
      <4>3. Promise!Next
        BY <2>1, <2>2, <4>2 DEF Promise!Next
      <4> QED BY <4>1, <4>3 DEF PlaceInv
    <3>2. CASE Start
      <4>1. PlaceInv' /\ UNCHANGED <<task, out, written>>
        BY <3>2, StartPlaces DEF RestoreInv
      <4>2. Outcome' = Outcome
        BY <2>1, <3>2 DEF Start, Outcome
      <4>3. UNCHANGED Promise!vars
        BY <2>2, <4>1, <4>2 DEF Promise!vars
      <4> QED BY <4>1, <4>3
    <3>3. CASE ContainerHit \/ ContainerMiss \/ ChunkHit \/ ChunkMiss
      BY <2>4, <3>3, FetchAdvances, AdvanceDelivers
    <3>4. CASE Finish \/ FaaEnd
      BY <2>4, <3>4, EndAdvances, AdvanceDelivers
    <3>5. CASE FaaFill \/ FaaPass \/ FaaFlush
      BY <2>4, <3>5, FaaAdvances, AdvanceDelivers
    <3> QED BY <1>2, <2>4, <3>1, <3>2, <3>3, <3>4, <3>5, NeverStuck DEF Next
  <2> QED BY <2>3, <2>4
<1> QED BY <1>1, <1>2

\* From a sound store every method with an implementation writes the content of
\* the version and nothing else, in order, and reports success when it is all
\* there (main.cpp:550-683), whatever the sizes of the caches and the buffer.
THEOREM ImplementsRestorationHolds == Spec => ImplementsRestoration
<1>1. Init => RestoreInv /\ Promise!Init
  <2>1. Init => Promise!Init
    BY DEF Init, Promise!Init, Outcome
  <2> QED BY <2>1, InitCache, InitFetch, InitLru, InitOut, InitHeld, InitPlace DEF RestoreInv
<1>2. RestoreInv /\ [Next]_vars => RestoreInv' /\ [Promise!Next]_(Promise!vars)
  <2> SUFFICES ASSUME RestoreInv, [Next]_vars
               PROVE  RestoreInv' /\ [Promise!Next]_(Promise!vars)
    OBVIOUS
  <2>1. CacheInv /\ FetchInv /\ LruInv /\ OutInv /\ DataInv /\ FaaInv /\ HeldInv
    BY DEF RestoreInv
  <2>2. CacheInv' /\ FetchInv' /\ LruInv' /\ OutInv' /\ DataInv' /\ FaaInv'
    BY <2>1, NextCache, NextFetch, NextLru, NextOut
  <2>3. HeldInv'
    BY <2>1, NextHeld
  <2>4. PlaceInv' /\ [Promise!Next]_(Promise!vars)
    BY NextPromised
  <2> QED BY <2>2, <2>3, <2>4 DEF RestoreInv
<1>3. RestoreInv /\ [Next]_vars => RestoreInv'
  BY <1>2
<1>4. RestoreInv /\ [Next]_vars => [Promise!Next]_(Promise!vars)
  BY <1>2
<1> QED BY <1>1, <1>3, <1>4, PTL DEF Spec, ImplementsRestoration, Promise!Spec
=============================================================================
