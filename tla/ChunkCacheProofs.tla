-------------------------- MODULE ChunkCacheProofs --------------------------
(***************************************************************************)
(* Proofs about ChunkCache, for any number of tasks, any keys and sizes,   *)
(* any cache limit and batch size, and fetches that may fail.              *)
(***************************************************************************)
EXTENDS ChunkCache, CacheOrderProofs

-----------------------------------------------------------------------------
(* Facts about the positions of a chunk list. *)

\* What a sequence has at one of its positions.
LEMMA SeqElement ==
    ASSUME NEW S, NEW s \in Seq(S), NEW p \in DOMAIN s
    PROVE  p \in Nat /\ s[p] \in S
OBVIOUS

\* A position is a number, and its chunk has a key.
LEMMA PositionFacts ==
    ASSUME TypeOK, NEW t \in Task, NEW p \in Position(t)
    PROVE  p \in Nat /\ KeyAt(t, p) \in Key
<1>1. CASE world[t] \in World
  <2>1. world[t].chunks \in Seq([file : 1 .. world[t].files, key : Key])
    BY <1>1, WorldAssumption
  <2>2. p \in DOMAIN world[t].chunks
    BY DEF Position
  <2>3. p \in Nat /\ world[t].chunks[p] \in [file : 1 .. world[t].files, key : Key]
    BY <2>1, <2>2, SeqElement
  <2> QED
    BY <2>3 DEF KeyAt
<1>2. CASE world[t] = NoWorld
  BY <1>2 DEF NoWorld, Position
<1> QED
  BY <1>1, <1>2 DEF TypeOK

\* The chunk list of a world that may arrive is a sequence.
LEMMA WorldPositions ==
    ASSUME NEW w \in World
    PROVE  DOMAIN w.chunks \subseteq Nat
<1>1. w.chunks \in Seq([file : 1 .. w.files, key : Key])
  BY WorldAssumption
<1> QED
  BY <1>1, SeqElement

\* A world has finitely many positions.
LEMMA FinitePosition ==
    ASSUME TypeOK, NEW t \in Task
    PROVE  IsFiniteSet(Position(t))
<1>1. CASE world[t] \in World
  <2>1. world[t].chunks \in Seq([file : 1 .. world[t].files, key : Key])
    BY <1>1, WorldAssumption
  <2>2. Position(t) = 1 .. Len(world[t].chunks) /\ Len(world[t].chunks) \in Nat
    BY <2>1 DEF Position
  <2> QED
    BY <2>2, FS_Interval
<1>2. CASE world[t] = NoWorld
  BY <1>2, FS_EmptySet DEF NoWorld, Position
<1> QED
  BY <1>1, <1>2 DEF TypeOK

\* A batch holds asked-for positions of unclaimed keys and repeats no key.
LEMMA NextBatchFacts ==
    ASSUME TypeOK, NEW t \in Task
    PROVE  /\ NextBatch(t) \subseteq requested[t]
           /\ \A p \in NextBatch(t) : pending[KeyAt(t, p)] = NoTask /\ KeyAt(t, p) \notin Cached
           /\ \A p, q \in NextBatch(t) : KeyAt(t, p) = KeyAt(t, q) => p = q
<1>1. NextBatch(t) \subseteq Missing(t) /\ Missing(t) \subseteq Unclaimed(t)
  BY DEF NextBatch, Missing
<1>2. Unclaimed(t) \subseteq requested[t] /\ requested[t] \subseteq Nat
  BY DEF Unclaimed, TypeOK
<1>3. \A p \in Unclaimed(t) : pending[KeyAt(t, p)] = NoTask /\ KeyAt(t, p) \notin Cached
  BY DEF Unclaimed
<1>4. ASSUME NEW p \in Missing(t), NEW q \in Missing(t), KeyAt(t, p) = KeyAt(t, q)
      PROVE  p = q
  <2>1. p \in requested[t] /\ q \in requested[t] /\ p \in Nat /\ q \in Nat
    BY <1>1, <1>2
  <2>2. ~(q < p) /\ ~(p < q)
    BY <1>4, <2>1 DEF Missing
  <2> QED
    BY <2>1, <2>2
<1> QED
  BY <1>1, <1>2, <1>3, <1>4

-----------------------------------------------------------------------------
(* The inductive invariant. *)

\* ChunkCache::new, with no transfer begun.
LEMMA InitIInv == Init => IInv
<1> SUFFICES ASSUME Init PROVE IInv
  OBVIOUS
<1> USE DEF Init
<1>2. \A t \in Task : Position(t) = {}
  BY DEF Position, NoWorld
<1>3. Cached = {}
  BY DEF Cached, Range
<1>4. TypeOK
  <2>1. chunks \in Seq(Key) /\ IsInjective(chunks)
    BY DEF IsInjective
  <2>2. \A t \in Task : batch[t] \cup requested[t] \subseteq Position(t)
    OBVIOUS
  <2>3. pc \in [Task -> Running \cup Stopped]
    BY DEF Running
  <2>4. pending \in [Key -> Task \cup {NoTask}] /\ world \in [Task -> World \cup {NoWorld}]
    OBVIOUS
  <2>5. /\ file \in [Task -> Nat \ {0}]
        /\ batch \in [Task -> SUBSET Nat]
        /\ requested \in [Task -> SUBSET Nat]
    OBVIOUS
  <2>6. local \in [Task -> SUBSET Key] /\ awaited \in [Task -> SUBSET Key] /\ open \in [Task -> SUBSET Task]
    OBVIOUS
  <2> QED
    BY <2>1, <2>2, <2>3, <2>4, <2>5, <2>6 DEF TypeOK
<1>5. ClaimsHeld /\ ClaimOwner /\ CachedOrClaimed
  BY <1>3 DEF ClaimsHeld, ClaimOwner, CachedOrClaimed
<1>6. DistinctBatch /\ Accounted /\ Phases /\ OpenOwner
  BY <1>2 DEF DistinctBatch, Accounted, Phases, OpenOwner
<1> QED
  BY <1>4, <1>5, <1>6 DEF IInv

\* A task that ends, well or badly, keeps the invariant: its claims may stay
\* behind, and they stay claims of a task that gave up.
LEMMA StopIInv ==
    ASSUME IInv, NEW t \in Task, NEW x \in Stopped,
           pc[t] \in Running \ {"closing"},
           pc[t] = "fetching" => x \in {"failed", "panicked"},
           pc' = [pc EXCEPT ![t] = x],
           UNCHANGED <<chunks, pending, world, file, requested, local, batch, awaited, open>>,
           needs_saving' \in BOOLEAN, poisoned' \in BOOLEAN
    PROVE  IInv'
<1> USE DEF IInv
<1>1. TypeOK'
  BY DEF TypeOK, Position
<1>2. pc \in [Task -> Running \cup Stopped] /\ Running \cap Stopped = {}
  BY DEF TypeOK, Running, Stopped
<1>3. \A u \in Task : pc'[u] = IF u = t THEN x ELSE pc[u]
  BY <1>2
<1>4. ClaimsHeld'
  BY <1>2, <1>3 DEF ClaimsHeld, KeysAt, KeyAt, Stopped
<1>5. ClaimOwner'
  <2> SUFFICES ASSUME NEW k \in Key, pending[k] # NoTask
               PROVE  pc'[pending[k]] \in {"fetching", "failed", "panicked"}
    BY DEF ClaimOwner, KeysAt, KeyAt
  <2>1. pending[k] \in Task /\ pc[pending[k]] \in {"fetching", "failed", "panicked"}
    BY DEF ClaimOwner, TypeOK
  <2> QED
    BY <1>2, <1>3, <2>1 DEF Running
<1>6. CachedOrClaimed' /\ DistinctBatch'
  BY DEF CachedOrClaimed, Cached, Range, DistinctBatch, KeyAt
<1>7. Accounted'
  BY <1>2, <1>3 DEF Accounted, Position, KeyAt
<1>8. Phases'
  BY <1>2, <1>3 DEF Phases, KeysAt, KeyAt, Stopped
<1>9. OpenOwner'
  <2> SUFFICES ASSUME NEW v \in Task, NEW u \in open[v]
               PROVE  pc'[u] \in {"fetching", "closing", "failed", "panicked"}
    BY DEF OpenOwner
  <2>1. u \in Task /\ pc[u] \in {"fetching", "closing", "failed", "panicked"}
    BY DEF OpenOwner, TypeOK
  <2> QED
    BY <1>2, <1>3, <2>1 DEF Running
<1> QED
  BY <1>1, <1>4, <1>5, <1>6, <1>7, <1>8, <1>9

\* A transfer that learns its world has every chunk still to ask for.
LEMMA ReceiveWorldIInv ==
    ASSUME IInv, NEW t \in Task, ReceiveWorld(t)
    PROVE  IInv'
<1> USE DEF IInv, ReceiveWorld, shared
<1>1. PICK w \in World : /\ world' = [world EXCEPT ![t] = w]
                         /\ requested' = [requested EXCEPT ![t] = DOMAIN w.chunks]
  OBVIOUS
<1>2. DOMAIN w.chunks \subseteq Nat
  BY WorldPositions
<1>3. /\ pc[t] = "connecting" /\ batch[t] = {} /\ awaited[t] = {}
      /\ \A u \in Task : pc'[u] = IF u = t THEN "rebuilding" ELSE pc[u]
      /\ \A u \in Task : world'[u] = IF u = t THEN w ELSE world[u]
      /\ \A u \in Task : requested'[u] = IF u = t THEN DOMAIN w.chunks ELSE requested[u]
  BY <1>1 DEF Phases, TypeOK
<1>4. TypeOK'
  <2>1. /\ pc' \in [Task -> Running \cup Stopped]
        /\ world' \in [Task -> World \cup {NoWorld}]
        /\ requested' \in [Task -> SUBSET Nat]
    BY <1>1, <1>2 DEF TypeOK, Running
  <2>2. \A u \in Task : batch'[u] \cup requested'[u] \subseteq Position(u)'
    BY <1>3 DEF TypeOK, Position
  <2> QED
    BY <2>1, <2>2 DEF TypeOK
<1>5. ClaimsHeld'
  BY <1>3 DEF ClaimsHeld, KeysAt, KeyAt
<1>6. ClaimOwner'
  <2>1. ASSUME NEW k \in Key, pending[k] # NoTask
        PROVE  pending[k] \in Task /\ pending[k] # t
    <3>1. pending[k] \in Task
      BY <2>1 DEF TypeOK
    <3>2. pc[pending[k]] # "connecting"
      BY <2>1 DEF ClaimOwner
    <3> QED
      BY <1>3, <3>1, <3>2
  <2>2. ASSUME NEW k \in Key, pending[k] # NoTask
        PROVE  pc'[pending[k]] = pc[pending[k]] /\ world'[pending[k]] = world[pending[k]]
    BY <1>3, <2>1, <2>2
  <2> QED
    BY <2>2 DEF ClaimOwner, KeysAt, KeyAt
<1>7. CachedOrClaimed' /\ DistinctBatch'
  BY <1>3 DEF CachedOrClaimed, Cached, Range, DistinctBatch, KeyAt
<1>8. Accounted'
  BY <1>3 DEF Accounted, Position, KeyAt
<1>9. Phases'
  BY <1>3 DEF Phases, KeysAt, KeyAt
<1>10. OpenOwner'
  BY <1>3 DEF OpenOwner, TypeOK
<1> QED
  BY <1>4, <1>5, <1>6, <1>7, <1>8, <1>9, <1>10


\* A rebuilt file moves no chunk.
LEMMA RebuildFileIInv ==
    ASSUME IInv, NEW t \in Task, RebuildFile(t)
    PROVE  IInv'
<1> USE DEF IInv
<1>1. CASE file' = [file EXCEPT ![t] = @ + 1] /\ UNCHANGED pc
  <2> USE <1>1 DEF RebuildFile, shared
  <2>1. TypeOK'
    BY DEF TypeOK, Position
  <2>2. ClaimsHeld' /\ ClaimOwner' /\ CachedOrClaimed' /\ DistinctBatch'
    BY DEF ClaimsHeld, ClaimOwner, CachedOrClaimed, DistinctBatch, KeysAt, KeyAt, Cached, Range
  <2>3. Accounted' /\ Phases' /\ OpenOwner'
    BY DEF Accounted, Phases, OpenOwner, Position, KeysAt, KeyAt
  <2> QED
    BY <2>1, <2>2, <2>3
<1>2. CASE pc' = [pc EXCEPT ![t] = "failed"] /\ UNCHANGED file
  <2>1. pc[t] \in Running \ {"closing"} /\ "failed" \in Stopped /\ pc[t] # "fetching"
    BY DEF RebuildFile, HasFile, Running, Stopped
  <2>2. needs_saving' \in BOOLEAN /\ poisoned' \in BOOLEAN
    BY DEF RebuildFile, shared, TypeOK
  <2> QED
    BY <1>2, <2>1, <2>2, StopIInv DEF RebuildFile, shared
<1> QED
  BY <1>1, <1>2 DEF RebuildFile

\* get_chunks_batched when the cache has everything: chunks move to local_cache.
LEMMA TakeCachedIInv ==
    ASSUME IInv, NEW t \in Task, TakeCached(t)
    PROVE  IInv'
<1> USE DEF IInv, TakeCached, shared
<1>1. /\ pc[t] = "rebuilding"
      /\ NextBatch(t) = {}
      /\ \A u \in Task : requested'[u] = IF u = t THEN Left(t) ELSE requested[u]
      /\ \A u \in Task : local'[u] = IF u = t THEN local[t] \cup KeysAt(t, Hits(t)) ELSE local[u]
  BY DEF TypeOK, Asking, Wanting, HasFile
<1>2. /\ Hits(t) \subseteq requested[t] /\ requested[t] \subseteq Position(t)
      /\ Left(t) = requested[t] \ Hits(t)
  BY <1>1 DEF Hits, Left, TypeOK
<1>3. KeysAt(t, Hits(t)) \subseteq Key
  BY <1>2, PositionFacts DEF KeysAt
<1>4. TypeOK'
  <2>1. local' \in [Task -> SUBSET Key] /\ requested' \in [Task -> SUBSET Nat]
    BY <1>2, <1>3 DEF TypeOK
  <2>2. \A u \in Task : batch'[u] \cup requested'[u] \subseteq Position(u)'
    BY <1>1, <1>2 DEF TypeOK, Position
  <2> QED
    BY <2>1, <2>2 DEF TypeOK
<1>5. ClaimsHeld' /\ ClaimOwner' /\ CachedOrClaimed' /\ DistinctBatch'
  BY DEF ClaimsHeld, ClaimOwner, CachedOrClaimed, DistinctBatch, KeysAt, KeyAt, Cached, Range
<1>6. Accounted'
  <2> SUFFICES ASSUME NEW u \in Task, pc[u] \in Running, NEW p \in Position(u)
               PROVE  \/ p \in requested'[u] \cup batch[u]
                      \/ KeyAt(u, p) \in local'[u] \cup awaited[u]
    BY DEF Accounted, Position, KeyAt
  <2>1. p \in requested[u] \cup batch[u] \/ KeyAt(u, p) \in local[u] \cup awaited[u]
    BY DEF Accounted
  <2>2. u = t /\ p \in Hits(t) => KeyAt(u, p) \in KeysAt(t, Hits(t))
    BY DEF KeysAt
  <2> QED
    BY <1>1, <1>2, <2>1, <2>2
<1>7. Phases' /\ OpenOwner'
  BY <1>1 DEF Phases, OpenOwner, KeysAt, KeyAt
<1> QED
  BY <1>4, <1>5, <1>6, <1>7

\* get_chunks_batched with a batch: the keys claimed were nobody's and not cached.
LEMMA ClaimBatchIInv ==
    ASSUME IInv, NEW t \in Task, ClaimBatch(t)
    PROVE  IInv'
<1> USE DEF IInv, ClaimBatch
<1> DEFINE B == NextBatch(t)
<1>1. /\ pc[t] = "rebuilding" /\ awaited[t] = {} /\ batch[t] = {}
      /\ \A u \in Task : pc'[u] = IF u = t THEN "fetching" ELSE pc[u]
      /\ \A u \in Task : batch'[u] = IF u = t THEN B ELSE batch[u]
      /\ \A u \in Task : requested'[u] = IF u = t THEN Left(t) ELSE requested[u]
      /\ \A u \in Task : local'[u] = IF u = t THEN local[t] \cup KeysAt(t, Hits(t)) ELSE local[u]
      /\ \A k \in Key : pending'[k] = IF k \in KeysAt(t, B) THEN t ELSE pending[k]
  BY DEF TypeOK, Asking, Wanting, HasFile, Phases
<1>2. /\ Hits(t) \subseteq requested[t] /\ B \subseteq requested[t]
      /\ requested[t] \subseteq Position(t)
      /\ Left(t) = requested[t] \ (Hits(t) \cup B)
  BY NextBatchFacts DEF Hits, Left, TypeOK
<1>3. \A p \in B : KeyAt(t, p) \in Key /\ pending[KeyAt(t, p)] = NoTask /\ KeyAt(t, p) \notin Cached
  BY <1>2, NextBatchFacts, PositionFacts
<1>4. KeysAt(t, Hits(t)) \subseteq Key /\ KeysAt(t, B) \subseteq Key
  BY <1>2, PositionFacts DEF KeysAt
<1>5. \A k \in KeysAt(t, B) : pending[k] = NoTask /\ k \notin Cached
  BY <1>3 DEF KeysAt
<1>6. \A p, q \in B : KeyAt(t, p) = KeyAt(t, q) => p = q
  BY NextBatchFacts
<1> HIDE DEF B
<1>8. TypeOK'
  <2>1. /\ local' \in [Task -> SUBSET Key] /\ requested' \in [Task -> SUBSET Nat]
        /\ batch' \in [Task -> SUBSET Nat] /\ pc' \in [Task -> Running \cup Stopped]
        /\ pending' \in [Key -> Task \cup {NoTask}]
    BY <1>2, <1>4 DEF TypeOK, Running, B
  <2>2. \A u \in Task : batch'[u] \cup requested'[u] \subseteq Position(u)'
    BY <1>1, <1>2 DEF TypeOK, Position
  <2> QED
    BY <2>1, <2>2 DEF TypeOK
<1>9. ClaimsHeld'
  <2> SUFFICES ASSUME NEW u \in Task, pc'[u] = "fetching", NEW p \in batch'[u]
               PROVE  pending'[KeyAt(u, p)] = u
    BY DEF ClaimsHeld, KeysAt, KeyAt
  <2>1. CASE u = t
    BY <1>1, <1>3, <2>1 DEF KeysAt
  <2>2. CASE u # t
    <3>1. pc[u] = "fetching" /\ p \in batch[u] /\ batch[u] \subseteq Position(u)
      BY <1>1, <2>2 DEF TypeOK
    <3>2. pending[KeyAt(u, p)] = u /\ KeyAt(u, p) \in Key
      BY <3>1, PositionFacts DEF ClaimsHeld, KeysAt
    <3>3. KeyAt(u, p) \notin KeysAt(t, B)
      BY <1>5, <3>2, TaskAssumption
    <3> QED
      BY <1>1, <3>2, <3>3
  <2> QED
    BY <2>1, <2>2
<1>10. ClaimOwner'
  <2> SUFFICES ASSUME NEW k \in Key, pending'[k] # NoTask
               PROVE  /\ pc'[pending'[k]] \in {"fetching", "failed", "panicked"}
                      /\ k \in KeysAt(pending'[k], batch'[pending'[k]])
    BY ZenonT(30) DEF ClaimOwner, KeysAt, KeyAt
  <2>1. CASE k \in KeysAt(t, B)
    BY <1>1, <2>1
  <2>2. CASE k \notin KeysAt(t, B)
    <3>1. pending'[k] = pending[k] /\ pending[k] \in Task /\ pending[k] # t
      BY <1>1, <2>2, SMTT(30) DEF ClaimOwner, TypeOK
    <3> QED
      BY <1>1, <3>1 DEF ClaimOwner
  <2> QED
    BY <2>1, <2>2
<1>11. CachedOrClaimed'
  <2> SUFFICES ASSUME NEW k \in Cached PROVE pending'[k] = NoTask
    BY DEF CachedOrClaimed, Cached, Range
  <2>1. k \in Key /\ pending[k] = NoTask /\ k \notin KeysAt(t, B)
    BY <1>5, SeqElement DEF CachedOrClaimed, TypeOK, Cached, Range
  <2> QED
    BY <1>1, <2>1
<1>12. DistinctBatch'
  BY <1>1, <1>6 DEF DistinctBatch, KeyAt
<1>13. Accounted'
  <2> SUFFICES ASSUME NEW u \in Task, pc'[u] \in Running, NEW p \in Position(u)
               PROVE  \/ p \in requested'[u] \cup batch'[u]
                      \/ KeyAt(u, p) \in local'[u] \cup awaited[u]
    BY DEF Accounted, Position, KeyAt
  <2>1. pc[u] \in Running
    BY <1>1 DEF Running
  <2>2. p \in requested[u] \cup batch[u] \/ KeyAt(u, p) \in local[u] \cup awaited[u]
    BY <2>1 DEF Accounted
  <2>3. u = t /\ p \in Hits(t) => KeyAt(u, p) \in KeysAt(t, Hits(t))
    BY DEF KeysAt
  <2> QED
    BY <1>1, <1>2, <2>2, <2>3
<1>14. Phases'
  BY <1>1 DEF Phases, KeysAt, KeyAt
<1>15. OpenOwner'
  BY <1>1 DEF OpenOwner, TypeOK
<1> QED
  BY <1>8, <1>9, <1>10, <1>11, <1>12, <1>13, <1>14, <1>15


\* get_chunks_batched without a batch: what leaves all_chunks is awaited.
LEMMA AwaitOthersIInv ==
    ASSUME IInv, NEW t \in Task, AwaitOthers(t)
    PROVE  IInv'
<1> USE DEF IInv, AwaitOthers, shared
<1> DEFINE P == Pending(t)
<1>1. /\ pc[t] = "rebuilding" /\ awaited[t] = {} /\ batch[t] = {} /\ NextBatch(t) = {}
      /\ \A u \in Task : pc'[u] = IF u = t THEN "waiting" ELSE pc[u]
      /\ \A u \in Task : requested'[u] = IF u = t THEN Left(t) \ P ELSE requested[u]
      /\ \A u \in Task : local'[u] = IF u = t THEN local[t] \cup KeysAt(t, Hits(t)) ELSE local[u]
      /\ \A u \in Task : awaited'[u] = IF u = t THEN KeysAt(t, P) ELSE awaited[u]
      /\ \A u \in Task : open'[u] = IF u = t THEN {pending[k] : k \in KeysAt(t, P)} ELSE open[u]
  BY DEF TypeOK, Asking, Wanting, HasFile, Phases
<1>2. /\ Hits(t) \subseteq requested[t] /\ P \subseteq requested[t]
      /\ requested[t] \subseteq Position(t)
      /\ Left(t) = requested[t] \ Hits(t)
  BY <1>1 DEF Hits, Left, Pending, TypeOK
<1>3. KeysAt(t, Hits(t)) \subseteq Key /\ KeysAt(t, P) \subseteq Key
  BY <1>2, PositionFacts DEF KeysAt
<1>4. \A k \in KeysAt(t, P) : pending[k] # NoTask /\ pending[k] \in Task
  <2>1. \A p \in P : pending[KeyAt(t, p)] # NoTask /\ KeyAt(t, p) \in Key
    BY <1>2, PositionFacts DEF Pending
  <2> QED
    BY <2>1 DEF KeysAt, TypeOK
<1> HIDE DEF P
<1>5. TypeOK'
  <2>1. /\ local' \in [Task -> SUBSET Key] /\ requested' \in [Task -> SUBSET Nat]
        /\ pc' \in [Task -> Running \cup Stopped]
    BY <1>2, <1>3 DEF TypeOK, Running
  <2>2. awaited' \in [Task -> SUBSET Key] /\ open' \in [Task -> SUBSET Task]
    BY <1>3, <1>4 DEF TypeOK, P
  <2>3. \A u \in Task : batch'[u] \cup requested'[u] \subseteq Position(u)'
    BY <1>1, <1>2 DEF TypeOK, Position
  <2> QED
    BY <2>1, <2>2, <2>3 DEF TypeOK
<1>6. ClaimsHeld' /\ ClaimOwner'
  <2>1. ClaimsHeld'
    BY <1>1 DEF ClaimsHeld, KeysAt, KeyAt
  <2>2. ASSUME NEW k \in Key, pending[k] # NoTask
        PROVE  pc'[pending[k]] = pc[pending[k]]
    <3>1. pending[k] \in Task
      BY <2>2 DEF TypeOK
    <3>2. pc[pending[k]] # "rebuilding"
      BY <2>2 DEF ClaimOwner
    <3> QED
      BY <1>1, <3>1, <3>2
  <2> QED
    BY <2>1, <2>2 DEF ClaimOwner, KeysAt, KeyAt
<1>7. CachedOrClaimed' /\ DistinctBatch'
  BY DEF CachedOrClaimed, DistinctBatch, KeyAt, Cached, Range
<1>8. Accounted'
  <2> SUFFICES ASSUME NEW u \in Task, pc'[u] \in Running, NEW p \in Position(u)
               PROVE  \/ p \in requested'[u] \cup batch[u]
                      \/ KeyAt(u, p) \in local'[u] \cup awaited'[u]
    BY DEF Accounted, Position, KeyAt
  <2>1. pc[u] \in Running
    BY <1>1 DEF Running
  <2>2. p \in requested[u] \cup batch[u] \/ KeyAt(u, p) \in local[u] \cup awaited[u]
    BY <2>1 DEF Accounted
  <2>3. u = t /\ p \in Hits(t) => KeyAt(u, p) \in KeysAt(t, Hits(t))
    BY DEF KeysAt
  <2>4. u = t /\ p \in P => KeyAt(u, p) \in KeysAt(t, P)
    BY DEF KeysAt
  <2> QED
    BY <1>1, <1>2, <2>2, <2>3, <2>4
<1>9. Phases'
  BY <1>1 DEF Phases, KeysAt, KeyAt
<1>10. OpenOwner'
  <2> SUFFICES ASSUME NEW v \in Task, NEW u \in open'[v]
               PROVE  pc'[u] \in {"fetching", "closing", "failed", "panicked"}
    BY DEF OpenOwner
  <2>1. u \in Task /\ pc[u] \in {"fetching", "closing", "failed", "panicked"}
    BY <1>1, <1>3, <1>4 DEF OpenOwner, ClaimOwner, TypeOK
  <2> QED
    BY <1>1, <2>1
<1> QED
  BY <1>5, <1>6, <1>7, <1>8, <1>9, <1>10

\* The keys of a batch in the order of the list: every key once.
LEMMA BatchOrder ==
    ASSUME IInv, NEW t \in Task, NEW order \in Ascending(batch[t])
    PROVE  LET new == [i \in DOMAIN order |-> KeyAt(t, order[i])] IN
           /\ new \in Seq(Key)
           /\ IsInjective(new)
           /\ Range(new) = KeysAt(t, batch[t])
<1> DEFINE new == [i \in DOMAIN order |-> KeyAt(t, order[i])]
<1>1. batch[t] \subseteq Position(t) /\ batch[t] \subseteq Nat
  BY DEF IInv, TypeOK
<1>2. /\ order \in [1 .. Cardinality(batch[t]) -> batch[t]]
      /\ Range(order) = batch[t]
      /\ \A i, j \in DOMAIN order : i < j => order[i] < order[j]
  BY DEF Ascending
<1>3. \A i \in DOMAIN order : order[i] \in batch[t] /\ KeyAt(t, order[i]) \in Key
  BY <1>1, <1>2, PositionFacts DEF IInv
<1>4. Cardinality(batch[t]) \in Nat
  <2>1. IsFiniteSet(batch[t])
    BY <1>1, FinitePosition, FS_Subset DEF IInv
  <2> QED
    BY <2>1, FS_CardinalityType
<1>5. DOMAIN order = 1 .. Cardinality(batch[t])
  BY <1>2
<1>6. new \in Seq(Key)
  BY <1>3, <1>4, <1>5
<1>7. IsInjective(new)
  <2> SUFFICES ASSUME NEW i \in DOMAIN order, NEW j \in DOMAIN order,
                      KeyAt(t, order[i]) = KeyAt(t, order[j])
               PROVE  i = j
    BY DEF IsInjective
  <2>1. order[i] = order[j] /\ order[i] \in Nat
    BY <1>1, <1>3 DEF IInv, DistinctBatch
  <2>2. i \in Nat /\ j \in Nat
    BY <1>5
  <2>3. ~(i < j) /\ ~(j < i)
    BY <1>2, <2>1
  <2> QED
    BY <2>2, <2>3
<1>8. Range(new) = KeysAt(t, batch[t])
  <2>1. Range(order) = {order[i] : i \in DOMAIN order}
    BY DEF Range
  <2> QED
    BY <1>2, <2>1 DEF Range, KeysAt
<1> QED
  BY <1>6, <1>7, <1>8

\* fulfill: the batch is inserted and its claims are given up together.
LEMMA FulfillIInv ==
    ASSUME IInv, NEW t \in Task, Fulfill(t)
    PROVE  IInv'
<1> USE DEF IInv, Fulfill
<1> DEFINE K == KeysAt(t, batch[t])
<1>1. /\ pc[t] = "fetching" /\ awaited[t] = {}
      /\ \A u \in Task : pc'[u] = IF u = t THEN "closing" ELSE pc[u]
      /\ \A u \in Task : local'[u] = IF u = t THEN local[t] \cup K ELSE local[u]
      /\ pending' = [k \in Key |-> IF k \in K THEN NoTask ELSE pending[k]]
  BY DEF TypeOK, Phases, ReleaseClaims
<1>2. K \subseteq Key /\ \A k \in K : pending[k] = t
  BY PositionFacts DEF ClaimsHeld, KeysAt, TypeOK
<1>3. Cached \subseteq Key /\ Cached \cap K = {}
  <2>1. Cached \subseteq Key
    BY SeqElement DEF TypeOK, Cached, Range
  <2> QED
    BY <1>2, <2>1, TaskAssumption DEF CachedOrClaimed
<1>4. /\ chunks' \in Seq(Key) /\ IsInjective(chunks')
      /\ Cached' \subseteq Cached \cup K
  <2>1. PICK order \in Ascending(batch[t]) :
          chunks' = InsertAll(chunks, [i \in DOMAIN order |-> KeyAt(t, order[i])], MaxSize)
    OBVIOUS
  <2> DEFINE new == [i \in DOMAIN order |-> KeyAt(t, order[i])]
  <2>2. new \in Seq(Key) /\ IsInjective(new) /\ Range(new) = K
    BY BatchOrder
  <2>3. Range(chunks) \cap Range(new) = {}
    BY <1>3, <2>2 DEF Cached
  <2>4. chunks' = InsertAll(chunks, new, MaxSize)
    BY <2>1
  <2> HIDE DEF new, K
  <2> QED
    BY <2>2, <2>3, <2>4, InsertAllKeeps, MaxSizeAssumption DEF Cached, TypeOK
<1>5. /\ pending' \in [Key -> Task \cup {NoTask}]
      /\ \A k \in Key : pending'[k] = IF k \in K THEN NoTask ELSE pending[k]
  BY <1>1 DEF TypeOK
<1> HIDE DEF K
<1>6. TypeOK'
  <2>1. local' \in [Task -> SUBSET Key] /\ pc' \in [Task -> Running \cup Stopped]
    BY <1>2 DEF TypeOK, Running, K
  <2> QED
    BY <1>4, <1>5, <2>1 DEF TypeOK, Position
<1>7. ClaimsHeld'
  <2> SUFFICES ASSUME NEW u \in Task, pc'[u] = "fetching", NEW p \in batch[u]
               PROVE  pending'[KeyAt(u, p)] = u
    BY DEF ClaimsHeld, KeysAt, KeyAt
  <2>1. u # t /\ pc[u] = "fetching" /\ p \in Position(u)
    BY <1>1 DEF TypeOK
  <2>2. pending[KeyAt(u, p)] = u /\ KeyAt(u, p) \in Key
    BY <2>1, PositionFacts DEF ClaimsHeld, KeysAt
  <2>3. KeyAt(u, p) \notin K
    BY <1>2, <2>1, <2>2
  <2> QED
    BY <1>5, <2>2, <2>3
<1>8. ClaimOwner'
  <2> SUFFICES ASSUME NEW k \in Key, pending'[k] # NoTask
               PROVE  /\ pc'[pending'[k]] \in {"fetching", "failed", "panicked"}
                      /\ k \in KeysAt(pending'[k], batch[pending'[k]])
    BY DEF ClaimOwner, KeysAt, KeyAt
  <2>1. k \notin K /\ pending'[k] = pending[k] /\ pending[k] \in Task
    BY <1>5 DEF TypeOK
  <2>2. pc[pending[k]] \in {"fetching", "failed", "panicked"}
    BY <2>1 DEF ClaimOwner
  <2>3. pending[k] # t
    BY <2>1 DEF ClaimOwner, K
  <2> QED
    BY <1>1, <2>1, <2>2, <2>3 DEF ClaimOwner
<1>9. CachedOrClaimed'
  <2> SUFFICES ASSUME NEW k \in Cached' PROVE pending'[k] = NoTask
    BY DEF CachedOrClaimed
  <2>1. k \in Key /\ (k \notin K => pending[k] = NoTask)
    BY <1>2, <1>3, <1>4 DEF CachedOrClaimed
  <2> QED
    BY <1>5, <2>1
<1>10. DistinctBatch'
  BY DEF DistinctBatch, KeyAt
<1>11. Accounted'
  <2> SUFFICES ASSUME NEW u \in Task, pc'[u] \in Running, NEW p \in Position(u)
               PROVE  \/ p \in requested[u] \cup batch[u]
                      \/ KeyAt(u, p) \in local'[u] \cup awaited[u]
    BY DEF Accounted, Position, KeyAt
  <2>1. pc[u] \in Running
    BY <1>1 DEF Running
  <2> QED
    BY <1>1, <2>1 DEF Accounted
<1>12. Phases'
  <2>1. \A u \in Task : pc'[u] = "closing" => KeysAt(u, batch[u]) \subseteq local'[u]
    BY <1>1 DEF Phases, K
  <2> QED
    BY <1>1, <2>1 DEF Phases, KeysAt, KeyAt
<1>13. OpenOwner'
  BY <1>1 DEF OpenOwner, TypeOK
<1> QED
  BY <1>6, <1>7, <1>8, <1>9, <1>10, <1>11, <1>12, <1>13

\* event.close(): nobody waits any longer for the task that goes on.
LEMMA CloseEventIInv ==
    ASSUME IInv, NEW t \in Task, CloseEvent(t)
    PROVE  IInv'
<1> USE DEF IInv, CloseEvent, shared
<1>1. /\ pc[t] = "closing" /\ awaited[t] = {} /\ KeysAt(t, batch[t]) \subseteq local[t]
      /\ \A u \in Task : pc'[u] = IF u = t THEN "rebuilding" ELSE pc[u]
      /\ \A u \in Task : batch'[u] = IF u = t THEN {} ELSE batch[u]
      /\ \A u \in Task : open'[u] = open[u] \ {t}
  BY DEF TypeOK, Phases, ReleaseWaiters
<1>2. TypeOK'
  <2>1. /\ pc' \in [Task -> Running \cup Stopped]
        /\ batch' \in [Task -> SUBSET Nat]
        /\ open' \in [Task -> SUBSET Task]
    BY DEF TypeOK, Running, ReleaseWaiters
  <2>2. \A u \in Task : batch'[u] \cup requested'[u] \subseteq Position(u)'
    BY <1>1 DEF TypeOK, Position
  <2> QED
    BY <2>1, <2>2 DEF TypeOK
<1>3. ClaimsHeld'
  BY <1>1 DEF ClaimsHeld, KeysAt, KeyAt
<1>4. ClaimOwner'
  <2> SUFFICES ASSUME NEW k \in Key, pending[k] # NoTask
               PROVE  /\ pc'[pending[k]] \in {"fetching", "failed", "panicked"}
                      /\ batch'[pending[k]] = batch[pending[k]]
    BY DEF ClaimOwner, KeysAt, KeyAt
  <2>1. pending[k] \in Task /\ pc[pending[k]] \in {"fetching", "failed", "panicked"}
    BY DEF ClaimOwner, TypeOK
  <2> QED
    BY <1>1, <2>1
<1>5. CachedOrClaimed' /\ DistinctBatch'
  BY <1>1 DEF CachedOrClaimed, DistinctBatch, KeyAt, Cached, Range
<1>6. Accounted'
  <2> SUFFICES ASSUME NEW u \in Task, pc'[u] \in Running, NEW p \in Position(u)
               PROVE  \/ p \in requested[u] \cup batch'[u]
                      \/ KeyAt(u, p) \in local[u] \cup awaited[u]
    BY DEF Accounted, Position, KeyAt
  <2>1. pc[u] \in Running
    BY <1>1 DEF Running
  <2>2. u = t /\ p \in batch[t] => KeyAt(u, p) \in local[u]
    BY <1>1 DEF KeysAt
  <2> QED
    BY <1>1, <2>1, <2>2 DEF Accounted
<1>7. Phases'
  BY <1>1 DEF Phases, KeysAt, KeyAt
<1>8. OpenOwner'
  BY <1>1 DEF OpenOwner, TypeOK
<1> QED
  BY <1>2, <1>3, <1>4, <1>5, <1>6, <1>7, <1>8

\* A waiter that wakes up takes everything it waited for.
LEMMA TakeAwaitedIInv ==
    ASSUME IInv, NEW t \in Task, TakeAwaited(t)
    PROVE  IInv'
<1> USE DEF IInv, TakeAwaited, Awake, shared
<1>1. /\ pc[t] = "waiting" /\ batch[t] = {}
      /\ \A u \in Task : pc'[u] = IF u = t THEN "rebuilding" ELSE pc[u]
      /\ \A u \in Task : awaited'[u] = IF u = t THEN {} ELSE awaited[u]
      /\ \A u \in Task : local'[u] = IF u = t THEN local[t] \cup awaited[t] ELSE local[u]
  BY DEF TypeOK, Phases
<1>2. TypeOK'
  <2>1. /\ pc' \in [Task -> Running \cup Stopped]
        /\ awaited' \in [Task -> SUBSET Key]
        /\ local' \in [Task -> SUBSET Key]
    BY DEF TypeOK, Running
  <2> QED
    BY <2>1 DEF TypeOK, Position
<1>3. ClaimsHeld' /\ ClaimOwner'
  BY <1>1 DEF ClaimsHeld, ClaimOwner, KeysAt, KeyAt, TypeOK
<1>4. CachedOrClaimed' /\ DistinctBatch'
  BY DEF CachedOrClaimed, DistinctBatch, KeyAt, Cached, Range
<1>5. Accounted'
  <2> SUFFICES ASSUME NEW u \in Task, pc'[u] \in Running, NEW p \in Position(u)
               PROVE  \/ p \in requested[u] \cup batch[u]
                      \/ KeyAt(u, p) \in local'[u] \cup awaited'[u]
    BY DEF Accounted, Position, KeyAt
  <2>1. pc[u] \in Running
    BY <1>1 DEF Running
  <2> QED
    BY <1>1, <2>1 DEF Accounted
<1>6. Phases'
  BY <1>1 DEF Phases, KeysAt, KeyAt
<1>7. OpenOwner'
  BY <1>1 DEF OpenOwner, TypeOK
<1> QED
  BY <1>2, <1>3, <1>4, <1>5, <1>6, <1>7

\* The steps that end a task: an error is returned, a lock or an expect
\* panics, or the transfer is complete.
LEMMA EndIInv ==
    ASSUME IInv, NEW t \in Task,
           \/ ReceiveNothing(t) \/ AskPoisoned(t) \/ FulfillPoisoned(t) \/ FetchFails(t)
           \/ WakePoisoned(t) \/ MissAwaited(t) \/ Finish(t) \/ FinishPoisoned(t)
    PROVE  IInv'
<1>1. PICK x \in Stopped :
        /\ pc[t] \in Running \ {"closing"}
        /\ pc[t] = "fetching" => x \in {"failed", "panicked"}
        /\ pc' = [pc EXCEPT ![t] = x]
  BY DEF ReceiveNothing, AskPoisoned, FulfillPoisoned, FetchFails, WakePoisoned, MissAwaited,
         Finish, FinishPoisoned, Asking, Wanting, HasFile, Awake, Running, Stopped
<1>2. /\ UNCHANGED <<chunks, pending, world, file, requested, local, batch, awaited, open>>
      /\ needs_saving' \in BOOLEAN /\ poisoned' \in BOOLEAN
  BY DEF ReceiveNothing, AskPoisoned, FulfillPoisoned, FetchFails, WakePoisoned, MissAwaited,
         Finish, FinishPoisoned, shared, IInv, TypeOK
<1> QED
  BY <1>1, <1>2, StopIInv

\* Every step keeps the inductive invariant.
LEMMA NextIInv == IInv /\ [Next]_vars => IInv'
<1> SUFFICES ASSUME IInv, [Next]_vars PROVE IInv'
  OBVIOUS
<1>1. CASE UNCHANGED vars
  <2> USE <1>1 DEF vars, IInv
  <2>1. TypeOK' /\ ClaimsHeld' /\ ClaimOwner' /\ CachedOrClaimed'
    BY DEF TypeOK, ClaimsHeld, ClaimOwner, CachedOrClaimed, Position, KeysAt, KeyAt, Cached, Range
  <2>2. DistinctBatch' /\ Accounted' /\ Phases' /\ OpenOwner'
    BY DEF DistinctBatch, Accounted, Phases, OpenOwner, Position, KeysAt, KeyAt
  <2> QED
    BY <2>1, <2>2
<1>2. ASSUME NEW t \in Task, ReceiveWorld(t) \/ ReceiveNothing(t) \/ Step(t)
      PROVE  IInv'
  BY <1>2, ReceiveWorldIInv, RebuildFileIInv, ClaimBatchIInv, AwaitOthersIInv, TakeCachedIInv,
     FulfillIInv, CloseEventIInv, TakeAwaitedIInv, EndIInv DEF Step
<1> QED
  BY <1>1, <1>2 DEF Next

-----------------------------------------------------------------------------
(* What the invariant gives. *)

\* Every reachable state of the cache and its transfers satisfies the
\* inductive invariant.
THEOREM InvariantHolds == Spec => []IInv
  BY InitIInv, NextIInv, PTL DEF Spec

\* The state of the cache and of every transfer stays well formed: the order
\* of the cache never repeats a key, and a batch and what is left of
\* all_chunks are positions of the world.
THEOREM TypeCorrect == Spec => []TypeOK
<1>1. IInv => TypeOK
  BY DEF IInv
<1> QED
  BY <1>1, InvariantHolds, PTL

\* However many transfers run, no two of them fetch one chunk at a time.
THEOREM SingleFlightHolds == Spec => []SingleFlight
<1>1. IInv => SingleFlight
  BY DEF IInv, ClaimsHeld, SingleFlight
<1> QED
  BY <1>1, InvariantHolds, PTL

\* The warning "Inserting chunk twice" of RawChunkCache::insert never fires.
THEOREM NoDoubleInsertHolds == Spec => []NoDoubleInsert
<1>1. IInv => NoDoubleInsert
  BY TaskAssumption DEF IInv, ClaimsHeld, CachedOrClaimed, NoDoubleInsert
<1> QED
  BY <1>1, InvariantHolds, PTL

\* The panic "Emptied chunk list but reconstructor wants more data" of
\* transfer_world_data never happens.
THEOREM NeverStarvedHolds == Spec => []NeverStarved
<1>1. IInv => NeverStarved
  <2> SUFFICES ASSUME IInv, NEW t \in Task, Wanting(t), requested[t] = {}
               PROVE  FALSE
    BY DEF NeverStarved
  <2>1. /\ pc[t] = "rebuilding" /\ batch[t] = {} /\ awaited[t] = {}
        /\ ~(FileKeys(t, file[t]) \subseteq local[t])
    BY DEF Wanting, HasFile, CanRebuild, IInv, Phases
  <2>2. \A p \in Position(t) : KeyAt(t, p) \in local[t]
    BY <2>1 DEF IInv, Accounted, Running
  <2> QED
    BY <2>1, <2>2 DEF FileKeys, KeysAt
<1> QED
  BY <1>1, InvariantHolds, PTL

\* Tasks in get_chunks_batched never wait for each other in a circle.
THEOREM NoWaitCycleHolds == Spec => []NoWaitCycle
<1>1. IInv => NoWaitCycle
  BY DEF IInv, OpenOwner, NoWaitCycle
<1> QED
  BY <1>1, InvariantHolds, PTL

\* When nothing can be claimed, every chunk that is left is being fetched.
LEMMA NothingUnclaimed ==
    ASSUME TypeOK, NEW t \in Task, NextBatch(t) = {}
    PROVE  Left(t) \ Pending(t) = {}
<1>1. requested[t] \subseteq Nat /\ Unclaimed(t) \subseteq requested[t]
  BY DEF TypeOK, Unclaimed
<1>2. Missing(t) = {}
  <2> SUFFICES ASSUME Missing(t) # {} PROVE FALSE
    OBVIOUS
  <2>1. Missing(t) \in SUBSET Nat
    BY <1>1 DEF Missing
  <2>2. PICK p \in Missing(t) : \A q \in Missing(t) : ~(q < p)
    BY <2>1, Least
  <2>3. {q \in Missing(t) : q < p} = {}
    BY <2>2
  <2>4. Cardinality({q \in Missing(t) : q < p}) = 0
    BY <2>3, FS_EmptySet
  <2> QED
    BY <2>2, <2>4, BatchAssumption DEF NextBatch
<1>3. Unclaimed(t) = {}
  <2> SUFFICES ASSUME NEW q \in Unclaimed(t) PROVE FALSE
    OBVIOUS
  <2> DEFINE Same == {p \in requested[t] : KeyAt(t, p) = KeyAt(t, q)}
  <2>1. Same \in SUBSET Nat /\ q \in Same
    BY <1>1
  <2>2. PICK p \in Same : \A r \in Same : ~(r < p)
    BY <2>1, Least
  <2>3. p \in Unclaimed(t)
    BY <2>2 DEF Unclaimed
  <2>4. p \in Missing(t)
    BY <2>2, <2>3 DEF Missing
  <2> QED
    BY <1>2, <2>4
<1> QED
  BY <1>3 DEF Unclaimed, Left, Pending, Hits

\* A task that waits for others has nothing left to ask for afterwards, so
\* that the None of get_chunks_batched ends the asking.
THEOREM NoneMeansNothingLeftHolds == Spec => []NoneMeansNothingLeft
<1>1. Init => NoneMeansNothingLeft
  BY DEF Init, NoneMeansNothingLeft
<1>2. IInv /\ NoneMeansNothingLeft /\ [Next]_vars => NoneMeansNothingLeft'
  <2> SUFFICES ASSUME IInv, NoneMeansNothingLeft, [Next]_vars,
                      NEW u \in Task, pc'[u] = "waiting"
               PROVE  requested'[u] = {}
    BY DEF NoneMeansNothingLeft
  <2> USE DEF IInv, TypeOK, NoneMeansNothingLeft
  <2>1. CASE UNCHANGED vars
    BY <2>1 DEF vars
  <2>2. ASSUME NEW t \in Task, AwaitOthers(t)
        PROVE  requested'[u] = {}
    <3>1. requested'[t] = {}
      BY <2>2, NothingUnclaimed DEF AwaitOthers
    <3>2. u # t => requested'[u] = requested[u] /\ pc'[u] = pc[u]
      BY <2>2 DEF AwaitOthers
    <3> QED
      BY <3>1, <3>2
  <2>3. ASSUME NEW t \in Task, ReceiveWorld(t) \/ ClaimBatch(t)
        PROVE  requested'[u] = {}
    BY <2>3 DEF ReceiveWorld, ClaimBatch
  <2>4. ASSUME NEW t \in Task, TakeCached(t)
        PROVE  requested'[u] = {}
    BY <2>4 DEF TakeCached, Asking, Wanting, HasFile
  <2>5. ASSUME NEW t \in Task, UNCHANGED requested, NEW x \in (Running \cup Stopped) \ {"waiting"},
               pc' = pc \/ pc' = [pc EXCEPT ![t] = x]
        PROVE  requested'[u] = {}
    BY <2>5
  <2>6. ASSUME NEW t \in Task, ReceiveNothing(t) \/ Step(t),
               ~ClaimBatch(t), ~AwaitOthers(t), ~TakeCached(t)
        PROVE  /\ UNCHANGED requested
               /\ \E x \in (Running \cup Stopped) \ {"waiting"} :
                    pc' = pc \/ pc' = [pc EXCEPT ![t] = x]
    BY <2>6 DEF Step, ReceiveNothing, RebuildFile, AskPoisoned, Fulfill, FulfillPoisoned,
                FetchFails, CloseEvent, WakePoisoned, TakeAwaited, MissAwaited, Finish,
                FinishPoisoned, Running, Stopped
  <2> QED
    BY <2>1, <2>2, <2>3, <2>4, <2>5, <2>6 DEF Next
<1> QED
  BY <1>1, <1>2, InvariantHolds, PTL DEF Spec

-----------------------------------------------------------------------------
(* A cache with room for every chunk: nothing that is waited for is lost. *)

\* The limit of the cache is above the bytes of all chunks that arrive.
RoomForAll == \A s \in Seq(Key) : IsInjective(s) => Bytes[s] <= MaxSize

\* What a task waits for is in the cache, or in the batch of a task whose
\* semaphore it still holds.
WaitServed ==
    \A u \in Task : pc[u] = "waiting" =>
        \A k \in awaited[u] : k \in Cached \/ pending[k] \in open[u]

\* fulfill evicts nothing when there is room.
LEMMA FulfillLosesNone ==
    ASSUME RoomForAll, IInv, NEW t \in Task, Fulfill(t)
    PROVE  Cached' = Cached \cup KeysAt(t, batch[t])
<1>1. PICK order \in Ascending(batch[t]) :
        chunks' = InsertAll(chunks, [i \in DOMAIN order |-> KeyAt(t, order[i])], MaxSize)
  BY DEF Fulfill
<1> DEFINE new == [i \in DOMAIN order |-> KeyAt(t, order[i])]
<1>2. /\ chunks \in Seq(Key) /\ IsInjective(chunks)
      /\ new \in Seq(Key) /\ IsInjective(new) /\ Range(new) = KeysAt(t, batch[t])
  BY BatchOrder DEF IInv, TypeOK
<1>3. KeysAt(t, batch[t]) \cap Cached = {}
  BY TaskAssumption DEF Fulfill, IInv, ClaimsHeld, CachedOrClaimed
<1>4. chunks' = InsertAll(chunks, new, MaxSize)
  BY <1>1
<1> HIDE DEF new
<1>5. Range(chunks) \cap Range(new) = {}
  BY <1>2, <1>3 DEF Cached
<1>6. Bytes[chunks \o new] <= MaxSize
  BY <1>2, <1>5, ConcatFacts DEF RoomForAll
<1>7. Range(InsertAll(chunks, new, MaxSize)) = Range(chunks) \cup Range(new)
  BY <1>2, <1>5, <1>6, InsertAllLosesNone, MaxSizeAssumption
<1> QED
  BY <1>2, <1>4, <1>7 DEF Cached

\* A semaphore is closed only after the batch it stands for is in the cache.
LEMMA NextWaitServed ==
    ASSUME RoomForAll, IInv, WaitServed, [Next]_vars
    PROVE  WaitServed'
<1> SUFFICES ASSUME NEW u \in Task, pc'[u] = "waiting", NEW k \in awaited'[u]
             PROVE  k \in Cached' \/ pending'[k] \in open'[u]
  BY DEF WaitServed
<1>1. ASSUME UNCHANGED <<chunks, pending, open, awaited>>, pc[u] = "waiting"
      PROVE  k \in Cached' \/ pending'[k] \in open'[u]
  BY <1>1 DEF WaitServed, Cached, Range
<1>2. CASE UNCHANGED vars
  BY <1>1, <1>2 DEF vars
<1>3. ASSUME NEW t \in Task, Fulfill(t)
      PROVE  k \in Cached' \/ pending'[k] \in open'[u]
  <2>1. pc[u] = "waiting" /\ awaited' = awaited /\ open' = open
    BY <1>3 DEF Fulfill, IInv, TypeOK
  <2>2. k \in Key /\ (k \in Cached \/ pending[k] \in open[u])
    BY <2>1 DEF WaitServed, IInv, TypeOK
  <2>3. k \notin KeysAt(t, batch[t]) => pending'[k] = pending[k]
    BY <1>3, <2>2 DEF Fulfill, ReleaseClaims
  <2>4. Cached' = Cached \cup KeysAt(t, batch[t])
    BY <1>3, FulfillLosesNone
  <2> QED
    BY <2>1, <2>2, <2>3, <2>4
<1>4. ASSUME NEW t \in Task, CloseEvent(t)
      PROVE  k \in Cached' \/ pending'[k] \in open'[u]
  <2>1. /\ pc[t] = "closing" /\ pc[u] = "waiting" /\ open'[u] = open[u] \ {t}
        /\ UNCHANGED <<chunks, pending, awaited>>
    BY <1>4 DEF CloseEvent, ReleaseWaiters, shared, IInv, TypeOK
  <2>2. k \in Key /\ (k \in Cached \/ pending[k] \in open[u])
    BY <2>1 DEF WaitServed, IInv, TypeOK
  <2>3. pending[k] # t
    BY <2>1, <2>2, TaskAssumption DEF IInv, ClaimOwner
  <2> QED
    BY <2>1, <2>2, <2>3 DEF Cached, Range
<1>5. ASSUME NEW t \in Task, ClaimBatch(t)
      PROVE  k \in Cached' \/ pending'[k] \in open'[u]
  <2>1. pc[u] = "waiting" /\ UNCHANGED <<chunks, awaited, open>>
    BY <1>5 DEF ClaimBatch, IInv, TypeOK
  <2>2. k \in Key /\ (k \in Cached \/ pending[k] \in open[u])
    BY <2>1 DEF WaitServed, IInv, TypeOK
  <2>3. pending[k] # NoTask => k \notin KeysAt(t, NextBatch(t))
    BY NextBatchFacts DEF KeysAt, IInv
  <2>4. pending[k] # NoTask => pending'[k] = pending[k]
    BY <1>5, <2>2, <2>3 DEF ClaimBatch
  <2>5. NoTask \notin open[u]
    BY TaskAssumption DEF IInv, TypeOK
  <2> QED
    BY <2>1, <2>2, <2>4, <2>5 DEF Cached, Range
<1>6. ASSUME NEW t \in Task, AwaitOthers(t)
      PROVE  k \in Cached' \/ pending'[k] \in open'[u]
  <2>1. CASE u = t
    <3>1. /\ awaited'[u] = KeysAt(t, Pending(t)) /\ pending' = pending
          /\ open'[u] = {pending[j] : j \in KeysAt(t, Pending(t))}
      BY <1>6, <2>1 DEF AwaitOthers, shared, IInv, TypeOK
    <3> QED
      BY <3>1
  <2>2. CASE u # t
    <3>1. /\ pc[u] = "waiting" /\ awaited'[u] = awaited[u] /\ open'[u] = open[u]
          /\ UNCHANGED <<chunks, pending>>
      BY <1>6, <2>2 DEF AwaitOthers, shared, IInv, TypeOK
    <3> QED
      BY <3>1 DEF WaitServed, Cached, Range
  <2> QED
    BY <2>1, <2>2
<1>7. ASSUME NEW t \in Task, TakeAwaited(t)
      PROVE  k \in Cached' \/ pending'[k] \in open'[u]
  <2>1. u # t /\ pc[u] = "waiting" /\ awaited'[u] = awaited[u]
    BY <1>7 DEF TakeAwaited, IInv, TypeOK
  <2>2. UNCHANGED <<chunks, pending, open>>
    BY <1>7 DEF TakeAwaited, shared
  <2> QED
    BY <2>1, <2>2 DEF WaitServed, Cached, Range
<1>8. ASSUME NEW t \in Task, ReceiveWorld(t) \/ ReceiveNothing(t) \/ Step(t),
             ~Fulfill(t), ~CloseEvent(t), ~ClaimBatch(t), ~AwaitOthers(t), ~TakeAwaited(t)
      PROVE  k \in Cached' \/ pending'[k] \in open'[u]
  <2>1. /\ UNCHANGED <<chunks, pending, open, awaited>>
        /\ \E x \in (Running \cup Stopped) \ {"waiting"} :
             pc' = pc \/ pc' = [pc EXCEPT ![t] = x]
    BY <1>8 DEF Step, ReceiveWorld, ReceiveNothing, RebuildFile, AskPoisoned, TakeCached,
                FulfillPoisoned, FetchFails, WakePoisoned, MissAwaited, Finish,
                FinishPoisoned, Running, Stopped, shared
  <2>2. pc[u] = "waiting"
    BY <2>1 DEF IInv, TypeOK
  <2> QED
    BY <1>1, <2>1, <2>2
<1> QED
  BY <1>2, <1>3, <1>4, <1>5, <1>6, <1>7, <1>8 DEF Next

\* The expect "waited on chunk, but chunk was not put in cache" holds when the
\* limit leaves room for every chunk, however many transfers run and whichever
\* of them fail.
THEOREM NoMissHolds == RoomForAll => (Spec => []NoMiss)
<1> SUFFICES ASSUME RoomForAll PROVE Spec => []NoMiss
  OBVIOUS
<1>1. Init => WaitServed /\ NoMiss
  BY DEF Init, WaitServed, NoMiss
<1>2. IInv /\ WaitServed /\ [Next]_vars => WaitServed'
  BY NextWaitServed
<1>3. IInv /\ WaitServed /\ NoMiss /\ [Next]_vars => NoMiss'
  <2> SUFFICES ASSUME IInv, WaitServed, NoMiss, [Next]_vars, NEW u \in Task
               PROVE  pc'[u] # "missed"
    BY DEF NoMiss
  <2> USE DEF IInv, TypeOK, NoMiss
  <2>1. CASE UNCHANGED vars
    BY <2>1 DEF vars
  <2>2. ASSUME NEW t \in Task, MissAwaited(t)
        PROVE  FALSE
    BY <2>2 DEF MissAwaited, Awake, WaitServed
  <2>3. ASSUME NEW t \in Task, ReceiveWorld(t) \/ ReceiveNothing(t) \/ Step(t)
        PROVE  \E x \in (Running \cup Stopped) \ {"missed"} :
                 pc' = pc \/ pc' = [pc EXCEPT ![t] = x]
    BY <2>2, <2>3 DEF Step, ReceiveWorld, ReceiveNothing, RebuildFile, AskPoisoned, ClaimBatch,
                AwaitOthers, TakeCached, Fulfill, FulfillPoisoned, FetchFails, CloseEvent,
                WakePoisoned, TakeAwaited, Finish, FinishPoisoned, Running, Stopped
  <2> QED
    BY <2>1, <2>3 DEF Next
<1> QED
  BY <1>1, <1>2, <1>3, InvariantHolds, PTL DEF Spec

=============================================================================
