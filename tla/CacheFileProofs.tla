--------------------------- MODULE CacheFileProofs --------------------------
(***************************************************************************)
(* Proofs about CacheFile, for any keys and sizes and any cache limits,    *)
(* with a process that may end at every step and start again under another *)
(* limit, disks on which files rot, saves that fail and transfers that     *)
(* poison the mutex.                                                       *)
(***************************************************************************)
EXTENDS CacheFile, CacheOrderProofs

-----------------------------------------------------------------------------
(* The inductive invariant. *)

\* A list of entries that a cache with the limit max can hold.
Holds(s, max) == s \in Seq(Key) /\ IsInjective(s) /\ Bytes[s] <= max

\* The cache and its copy are within the limit of the process, and a file is
\* within that of the process which wrote it; only a file that is complete gets
\* its final name.
ContentInv ==
    /\ Holds(chunks, max_size)
    /\ Holds(snapshot, max_size)
    /\ file \in {Absent, Damaged} \/ Holds(file, written_under)

\* What the save task is about to put in place is the copy it took, and unless
\* the cache is dirty again that copy has every chunk of a completed transfer.
SaveInv ==
    /\ writer = "written" => temp = snapshot
    /\ ~up => writer = "sleeping" /\ snapshot = <<>>
    /\ up /\ ~needs_saving /\ writer \in {"writing", "written"} => finished \subseteq Range(snapshot)

Inv == TypeOK /\ ContentInv /\ SaveInv /\ CleanMeansSaved

-----------------------------------------------------------------------------
\* The limits are numbers.
LEMMA LimitsAreNumbers ==
    ASSUME TypeOK
    PROVE  max_size \in Nat /\ written_under \in Nat
BY LimitsAssumption DEF TypeOK

\* The empty list.
LEMMA HoldsNothing ==
    ASSUME NEW max \in Nat
    PROVE  Holds(<<>>, max) /\ Range(<<>>) = {}
<1>1. <<>> \in Seq(Key) /\ IsInjective(<<>>) /\ Range(<<>>) = {} /\ Bytes[<<>>] = 0
  BY SmallOrders, BytesFacts
<1> QED
  BY <1>1 DEF Holds

\* A list of entries is a file.
LEMMA HeldIsFile ==
    ASSUME NEW s, NEW max, Holds(s, max)
    PROVE  IsFile(s) /\ s \notin {Absent, Torn, Damaged}
BY FileAssumption DEF Holds, IsFile

\* Eviction leaves the newest entries, from the n-th on; the next older one would
\* be over the limit with them.
EvictsTo(s, n, max) ==
    /\ Fit(s, max) = SubSeq(s, n, Len(s))
    /\ n > 1 => Bytes[SubSeq(s, n - 1, Len(s))] > max /\ Bytes[s] > max

\* Eviction takes the oldest entries and no more than it has to.
LEMMA EvictsOldest ==
    ASSUME NEW max \in Nat, NEW s \in Seq(Key)
    PROVE  \E n \in 1 .. Len(s) + 1 : EvictsTo(s, n, max)
<1>1. PICK a, b : Splits(s, a, b, max) /\ Fit(s, max) = b
  BY FitSplits
<1>2. a \in Seq(Key) /\ b \in Seq(Key) /\ s = a \o b
  BY <1>1 DEF Splits
<1>3. /\ Len(a) \in Nat /\ Len(b) \in Nat /\ Len(s) = Len(a) + Len(b)
      /\ SubSeq(s, Len(a) + 1, Len(s)) = b
  BY <1>2
<1>4. CASE a = <<>>
  <2>1. Len(a) = 0
    BY <1>4
  <2>2. EvictsTo(s, 1, max)
    BY <1>1, <1>3, <2>1 DEF EvictsTo
  <2> QED
    BY <1>3, <2>2
<1>5. ASSUME NEW old \in Seq(Key), NEW k \in Key, a = old \o <<k>>, Size[k] + Bytes[b] > max
      PROVE  \E n \in 1 .. Len(s) + 1 : EvictsTo(s, n, max)
  <2> DEFINE over == <<k>> \o b
  <2>1. over \in Seq(Key) /\ s = old \o over /\ Len(a) = Len(old) + 1 /\ Len(old) \in Nat
    BY <1>2, <1>5
  <2>2. SubSeq(s, Len(a), Len(s)) = over
    BY <1>2, <1>5
  <2>3. Bytes[over] = Size[k] + Bytes[b]
    BY <1>2, BytesFacts
  <2> HIDE DEF over
  <2>4. Bytes[s] = Bytes[old] + Bytes[over] /\ Bytes[old] \in Nat /\ Bytes[over] \in Nat
    BY <2>1, BytesConcat, BytesFacts
  <2>5. Bytes[over] > max /\ Bytes[s] > max
    BY <1>5, <2>3, <2>4
  <2> DEFINE n == Len(a) + 1
  <2>6. n \in 1 .. Len(s) + 1 /\ n - 1 = Len(a)
    BY <1>3
  <2>7. Fit(s, max) = SubSeq(s, n, Len(s))
    BY <1>1, <1>3
  <2> HIDE DEF n
  <2>8. SubSeq(s, n - 1, Len(s)) = over
    BY <2>2, <2>6
  <2>9. EvictsTo(s, n, max)
    BY <2>5, <2>7, <2>8 DEF EvictsTo
  <2> QED
    BY <2>6, <2>9
<1>6. \/ a = <<>>
      \/ \E old \in Seq(Key), k \in Key : a = old \o <<k>> /\ Size[k] + Bytes[b] > max
  BY <1>1 DEF Splits
<1> QED
  BY <1>4, <1>5, <1>6

\* The entries of the file f that did not rot.
Intact(f) == Kept(f, Key \ rotten)

\* read_chunk_cache gives entries that it reads and is within its limit.
LEMMA LoadedFacts ==
    ASSUME NEW max \in Nat, NEW under \in Nat, NEW f, Holds(f, under)
    PROVE  /\ Holds(Loaded(f, max), max) /\ Range(Loaded(f, max)) \subseteq Range(f)
           /\ Intact(f) \in Seq(Key) /\ Bytes[Intact(f)] <= under
           /\ Loaded(f, max) = Fit(Intact(f), max)
<1> DEFINE s == Intact(f)
<1>1. f \in Seq(Key) /\ IsInjective(f) /\ Bytes[f] <= under /\ Bytes[f] \in Nat
  BY BytesFacts DEF Holds
<1>2. /\ s \in Seq(Key) /\ IsInjective(s) /\ Range(s) = Range(f) \cap (Key \ rotten)
      /\ Bytes[s] <= Bytes[f]
  BY <1>1, KeptFacts DEF Intact
<1> HIDE DEF s
<1>3. Bytes[s] <= under
  <2>1. Bytes[s] \in Nat
    BY <1>2, BytesFacts
  <2> QED
    BY <1>1, <1>2, <2>1
<1>4. Without(<<>>, s) \o s = s
  <2>1. <<>> \in Seq(Key) /\ Range(<<>>) = {}
    BY SmallOrders
  <2>2. Without(<<>>, s) = <<>>
    BY <1>2, <2>1, WithoutNew
  <2>3. <<>> \o s = s
    BY <1>2
  <2> QED
    BY <2>2, <2>3
<1>5. Loaded(f, max) = Fit(s, max)
  BY <1>4 DEF Loaded, InsertAll, Intact, s
<1>6. /\ Fit(s, max) \in Seq(Key) /\ IsInjective(Fit(s, max)) /\ Bytes[Fit(s, max)] <= max
      /\ Range(Fit(s, max)) \subseteq Range(s)
  BY <1>2, FitKeeps
<1> QED
  BY <1>2, <1>3, <1>5, <1>6 DEF Holds, s

\* The first start: nothing cached and no file.
LEMMA InitInv == Init => Inv
<1> SUFFICES ASSUME Init PROVE Inv
  OBVIOUS
<1>1. max_size \in Limits /\ max_size \in Nat /\ written_under = 0
  BY LimitsAssumption DEF Init
<1>a. Holds(<<>>, max_size) /\ Range(<<>>) = {}
  BY <1>1, HoldsNothing
<1>2. TypeOK
  BY <1>1, <1>a DEF Init, TypeOK, IsFile, Holds
<1>3. ContentInv
  BY <1>a DEF Init, ContentInv
<1>4. SaveInv /\ CleanMeansSaved
  BY DEF Init, SaveInv, CleanMeansSaved
<1> QED
  BY <1>2, <1>3, <1>4 DEF Inv

\* A chunk is inserted; one that is evicted for it is no loss for the file.
LEMMA InsertInv ==
    ASSUME Inv, NEW k \in Key, Insert(k)
    PROVE  Inv'
<1>1. /\ chunks' = InsertAll(chunks, <<k>>, max_size) /\ finished' = finished \cap Range(chunks')
      /\ UNCHANGED <<up, needs_saving, writer, snapshot, temp, file, rotten, poisoned, lost>>
      /\ UNCHANGED <<max_size, written_under>>
  BY DEF Insert, limits
<1>2. Holds(chunks', max_size)
  <2>1. <<k>> \in Seq(Key) /\ IsInjective(<<k>>)
    BY SmallOrders
  <2>2. chunks \in Seq(Key) /\ IsInjective(chunks)
    BY DEF Inv, TypeOK
  <2> QED
    BY <1>1, <2>1, <2>2, InsertAllKeeps, LimitsAreNumbers DEF Holds, Inv
<1>3. TypeOK'
  BY <1>1, <1>2 DEF Inv, TypeOK, Holds
<1>4. ContentInv'
  BY <1>1, <1>2 DEF Inv, ContentInv
<1>5. SaveInv' /\ CleanMeansSaved'
  BY <1>1 DEF Inv, SaveInv, CleanMeansSaved, Saved
<1> QED
  BY <1>3, <1>4, <1>5 DEF Inv

\* A transfer is complete, or panics.
LEMMA TransferInv ==
    ASSUME Inv, MarkDirty \/ Poison
    PROVE  Inv'
<1>1. /\ UNCHANGED <<up, chunks, writer, snapshot, temp, file, rotten, lost, max_size, written_under>>
      /\ needs_saving' \in BOOLEAN /\ poisoned' \in BOOLEAN
      /\ \/ finished' = Range(chunks) /\ needs_saving'
         \/ UNCHANGED <<finished, needs_saving>>
  BY DEF MarkDirty, Poison, Inv, TypeOK, limits
<1>2. TypeOK'
  BY <1>1 DEF Inv, TypeOK
<1>3. ContentInv'
  BY <1>1 DEF Inv, ContentInv
<1>4. SaveInv' /\ CleanMeansSaved'
  BY <1>1 DEF Inv, SaveInv, CleanMeansSaved, Saved
<1> QED
  BY <1>2, <1>3, <1>4 DEF Inv

\* The copy is taken with the flag: it has what was finished until then.
LEMMA StartSaveInv ==
    ASSUME Inv, StartSave
    PROVE  Inv'
<1>1. /\ snapshot' = chunks /\ temp' = Torn /\ writer' = "writing" /\ needs_saving' = FALSE
      /\ UNCHANGED <<up, chunks, file, rotten, poisoned, finished, lost, max_size, written_under>>
      /\ up /\ Holds(chunks, max_size) /\ finished \subseteq Range(chunks)
  BY DEF StartSave, Inv, TypeOK, ContentInv, limits
<1>2. TypeOK'
  BY <1>1 DEF Inv, TypeOK, IsFile
<1>3. ContentInv'
  BY <1>1 DEF Inv, ContentInv
<1>4. SaveInv' /\ CleanMeansSaved'
  BY <1>1 DEF SaveInv, CleanMeansSaved
<1> QED
  BY <1>2, <1>3, <1>4 DEF Inv

\* The temporary file is complete.
LEMMA FinishWritingInv ==
    ASSUME Inv, FinishWriting
    PROVE  Inv'
<1>1. /\ writer = "writing" /\ temp' = snapshot /\ writer' = "written" /\ up
      /\ UNCHANGED <<up, chunks, needs_saving, snapshot, file, rotten, poisoned, finished, lost>>
      /\ UNCHANGED <<max_size, written_under>>
      /\ Holds(snapshot, max_size)
  BY DEF FinishWriting, Written, Inv, ContentInv, limits
<1>2. TypeOK'
  BY <1>1, HeldIsFile DEF Inv, TypeOK
<1>3. ContentInv'
  BY <1>1 DEF Inv, ContentInv
<1>4. SaveInv' /\ CleanMeansSaved'
  BY <1>1 DEF Inv, SaveInv, CleanMeansSaved
<1> QED
  BY <1>2, <1>3, <1>4 DEF Inv

\* The copy gets its final name.
LEMMA RenameInv ==
    ASSUME Inv, Rename
    PROVE  Inv'
<1>1. /\ up /\ writer = "written" /\ file' = temp /\ temp' = Absent /\ rotten' = {}
      /\ needs_saving' = needs_saving /\ writer' = "sleeping" /\ snapshot' = <<>> /\ lost' = FALSE
      /\ UNCHANGED <<up, max_size, chunks, poisoned, finished>> /\ written_under' = max_size
  BY DEF Rename, DirtyAfterSave
<1>a. max_size \in Nat /\ max_size \in Limits
  BY LimitsAreNumbers DEF Inv, TypeOK
<1>2. /\ file' = snapshot /\ Holds(snapshot, max_size) /\ IsFile(snapshot)
      /\ snapshot \notin {Absent, Torn, Damaged}
  BY <1>1, HeldIsFile DEF Inv, SaveInv, ContentInv
<1>3. TypeOK'
  <2>1. IsFile(Absent)
    BY DEF IsFile
  <2>2. snapshot' \in Seq(Key)
    BY <1>1, <1>a, HoldsNothing DEF Holds
  <2> QED
    BY <1>1, <1>a, <1>2, <2>1, <2>2 DEF Inv, TypeOK
<1>4. ContentInv'
  BY <1>1, <1>a, <1>2, HoldsNothing DEF Inv, ContentInv
<1>5. SaveInv' /\ CleanMeansSaved'
  <2>1. Saved' = Range(snapshot)
    BY <1>2 DEF Saved
  <2>2. ~needs_saving => finished \subseteq Range(snapshot)
    BY <1>1 DEF Inv, SaveInv
  <2> QED
    BY <1>1, <2>1, <2>2 DEF SaveInv, CleanMeansSaved
<1> QED
  BY <1>3, <1>4, <1>5 DEF Inv

\* A save ends without a new file.
LEMMA SaveEndsInv ==
    ASSUME Inv, SavePanics \/ SaveFails
    PROVE  Inv'
<1>1. /\ UNCHANGED <<up, chunks, needs_saving, temp, file, rotten, poisoned, finished>>
      /\ UNCHANGED <<max_size, written_under>>
      /\ up /\ writer' \in {"sleeping", "dead"}
      /\ snapshot' \in {<<>>, snapshot} /\ lost' \in BOOLEAN
      /\ lost' \/ (writer = "sleeping" /\ lost' = lost)
  BY DEF SavePanics, SaveFails, Inv, TypeOK, limits
<1>2. Holds(snapshot', max_size)
  BY <1>1, HoldsNothing, LimitsAreNumbers DEF Inv, ContentInv
<1>3. TypeOK'
  BY <1>1, <1>2 DEF Inv, TypeOK, Holds
<1>4. ContentInv'
  BY <1>1, <1>2 DEF Inv, ContentInv
<1>5. SaveInv' /\ CleanMeansSaved'
  BY <1>1 DEF Inv, SaveInv, CleanMeansSaved, Saved
<1> QED
  BY <1>3, <1>4, <1>5 DEF Inv

\* The process ends at any step; both files stay as they are.
LEMMA ExitInv ==
    ASSUME Inv, Exit
    PROVE  Inv'
<1>1. /\ up' = FALSE /\ chunks' = <<>> /\ snapshot' = <<>> /\ finished' = {}
      /\ needs_saving' = FALSE /\ poisoned' = FALSE /\ lost' = FALSE /\ writer' = "sleeping"
      /\ UNCHANGED <<temp, file, rotten, max_size, written_under>>
  BY DEF Exit, limits
<1>a. Holds(<<>>, max_size)
  BY HoldsNothing, LimitsAreNumbers DEF Inv
<1>2. TypeOK'
  BY <1>1, <1>a DEF Inv, TypeOK, Holds
<1>3. ContentInv'
  BY <1>1, <1>a DEF Inv, ContentInv
<1>4. SaveInv' /\ CleanMeansSaved'
  BY <1>1 DEF SaveInv, CleanMeansSaved
<1> QED
  BY <1>2, <1>3, <1>4 DEF Inv

\* The file rots or is damaged while the process is down.
LEMMA RotInv ==
    ASSUME Inv, Damage \/ \E k \in Key : Rot(k)
    PROVE  Inv'
<1>1. /\ ~up /\ rotten' \subseteq Key /\ file' \in {file, Damaged}
      /\ UNCHANGED <<up, chunks, needs_saving, writer, snapshot, temp, poisoned, finished, lost>>
      /\ UNCHANGED <<max_size, written_under>>
  BY DEF Damage, Rot, limits, Inv, TypeOK
<1>2. TypeOK'
  BY <1>1 DEF Inv, TypeOK, IsFile
<1>3. ContentInv'
  BY <1>1 DEF Inv, ContentInv
<1>4. SaveInv' /\ CleanMeansSaved'
  BY <1>1 DEF Inv, SaveInv, CleanMeansSaved
<1> QED
  BY <1>2, <1>3, <1>4 DEF Inv

\* A start loads the file under a limit of its own.
LEMMA StartInv ==
    ASSUME Inv, Start
    PROVE  Inv'
<1>1. /\ up' = TRUE /\ finished' = Range(chunks') /\ max_size' \in Limits
      /\ UNCHANGED <<needs_saving, writer, snapshot, temp, file, rotten, poisoned, lost, written_under>>
      /\ writer = "sleeping" /\ snapshot = <<>>
  BY DEF Start, Inv, SaveInv
<1>a. max_size' \in Nat /\ written_under \in Nat
  BY <1>1, LimitsAssumption, LimitsAreNumbers DEF Inv
<1> DEFINE max == max_size'
<1>b. max \in Nat
  BY <1>a
<1> HIDE DEF max
<1>c. Holds(<<>>, max) /\ Range(<<>>) = {}
  BY <1>b, HoldsNothing
<1>2. Holds(chunks', max) /\ Range(chunks') \subseteq Saved
  <2>1. CASE file = Absent /\ chunks' = <<>>
    BY <1>c, <2>1
  <2>2. CASE file # Absent /\ chunks' = Loaded(file, max)
    <3>1. Holds(file, written_under)
      BY <2>2 DEF Inv, ContentInv, Start
    <3>2. file \notin {Absent, Torn, Damaged}
      BY <3>1, HeldIsFile
    <3>3. Holds(Loaded(file, max), max) /\ Range(Loaded(file, max)) \subseteq Range(file)
      BY <1>a, <1>b, <3>1, LoadedFacts
    <3> QED
      BY <2>2, <3>2, <3>3 DEF Saved
  <2> QED
    BY <2>1, <2>2 DEF Start, max
<1>3. TypeOK'
  BY <1>1, <1>2 DEF Inv, TypeOK, Holds
<1>4. ContentInv'
  BY <1>1, <1>2, <1>c DEF Inv, ContentInv, max
<1>5. SaveInv' /\ CleanMeansSaved'
  BY <1>1, <1>2 DEF SaveInv, CleanMeansSaved, Saved
<1> QED
  BY <1>3, <1>4, <1>5 DEF Inv

LEMMA NextInv == Inv /\ [Next]_vars => Inv'
<1> SUFFICES ASSUME Inv, [Next]_vars PROVE Inv'
  OBVIOUS
<1>1. CASE UNCHANGED vars
  BY <1>1 DEF vars, limits, Inv, TypeOK, ContentInv, SaveInv, CleanMeansSaved, Saved
<1> QED
  BY <1>1, InsertInv, RotInv, TransferInv, StartSaveInv, FinishWritingInv, RenameInv,
     SaveEndsInv, ExitInv, StartInv DEF Next, SaveTask, StartFails

LEMMA InvariantHolds == Spec => []Inv
<1> QED
  BY InitInv, NextInv, PTL DEF Spec

-----------------------------------------------------------------------------
(* The theorems. *)

\* No list of entries, in memory or on disk, repeats a key.
THEOREM CacheFileTypes == Spec => []TypeOK
<1>1. Inv => TypeOK
  BY DEF Inv
<1> QED
  BY <1>1, InvariantHolds, PTL

\* Wherever the process ends, load_from_file finds no file or a complete one.
THEOREM NeverTorn == Spec => []FileNeverTorn
<1>1. Inv => FileNeverTorn
  BY HeldIsFile, FileAssumption DEF Inv, ContentInv, FileNeverTorn
<1> QED
  BY <1>1, InvariantHolds, PTL

\* try_save clears the dirty flag before it writes, and no transfer that ends
\* meanwhile is forgotten for it.
THEOREM CleanCacheIsSaved == Spec => []CleanMeansSaved
<1>1. Inv => CleanMeansSaved
  BY DEF Inv
<1> QED
  BY <1>1, InvariantHolds, PTL

\* read_chunk_cache restores the order that write_chunk_cache saved: loading
\* entry after entry evicts nothing, unless the new process has a lower limit than
\* the one that saved, and then the oldest entries only, and only as many as are
\* over it.
THEOREM LoadRestoresOrder == Spec => StartRestores
<1> DEFINE newest(n) == SubSeq(Intact(file), n, Len(Intact(file)))
           Restored(n) ==
               /\ chunks' = newest(n)
               /\ n > 1 => written_under > max_size' /\ Bytes[newest(n - 1)] > max_size'
           StepRestores ==
               ~up /\ up' /\ file # Absent => \E n \in 1 .. Len(Intact(file)) + 1 : Restored(n)
<1>1. ASSUME Inv, [Next]_vars PROVE [StepRestores]_vars
  <2> SUFFICES ASSUME Next, ~up, up', file # Absent
               PROVE  \E n \in 1 .. Len(Intact(file)) + 1 : Restored(n)
    BY <1>1
  <2>1. Start
    BY DEF Next, Insert, Rot, Damage, MarkDirty, Poison, SaveTask, StartSave, SavePanics,
       FinishWriting, Rename, SaveFails, Exit, StartFails, vars
  <2> DEFINE max == max_size'
             s == Intact(file)
  <2>2. /\ Holds(file, written_under) /\ chunks' = Loaded(file, max)
        /\ max \in Nat /\ written_under \in Nat
    BY <1>1, <2>1, LimitsAssumption, LimitsAreNumbers DEF Start, Inv, ContentInv
  <2> HIDE DEF max
  <2>3. s \in Seq(Key) /\ Bytes[s] <= written_under /\ chunks' = Fit(s, max)
    BY <2>2, LoadedFacts
  <2> HIDE DEF s
  <2>4. PICK n \in 1 .. Len(s) + 1 : EvictsTo(s, n, max)
    BY <2>2, <2>3, EvictsOldest
  <2>5. chunks' = SubSeq(s, n, Len(s))
    BY <2>3, <2>4 DEF EvictsTo
  <2>6. n > 1 => written_under > max /\ Bytes[SubSeq(s, n - 1, Len(s))] > max
    <3>1. Bytes[s] \in Nat
      BY <2>3, BytesFacts
    <3>2. n > 1 => Bytes[SubSeq(s, n - 1, Len(s))] > max /\ Bytes[s] > max
      BY <2>4 DEF EvictsTo
    <3> QED
      BY <2>2, <2>3, <3>1, <3>2
  <2>7. Restored(n)
    BY <2>5, <2>6, Zenon DEF s, max
  <2> QED
    BY <2>7, Zenon DEF s
<1>2. StartRestores <=> [][StepRestores]_vars
  BY Zenon DEF StartRestores, Intact
<1> QED
  BY <1>1, <1>2, InvariantHolds, PTL DEF Spec

=============================================================================
