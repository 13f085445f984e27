----------------------------- MODULE CacheFile -----------------------------
(***************************************************************************)
(* The chunk cache of a cacher client and its file (start_writer,          *)
(* try_save, load_from_file, read_chunk_cache and write_chunk_cache,       *)
(* src/src/chunk_cache.rs): a task saves the cache from time to time,      *)
(* first into a temporary file that is then renamed, while transfers go on *)
(* inserting chunks.  The process may end at any step and be started       *)
(* again, each time with a --cache-limit of its own; files outlive it.     *)
(*                                                                         *)
(* The content of a file is the sequence of its entries, Torn while it is  *)
(* not completely written, or Damaged when it cannot be read through any   *)
(* more.                                                                   *)
(***************************************************************************)
EXTENDS CacheOrder

CONSTANTS
    Limits,   \* values of --cache-limit that the processes are started with
    Absent,   \* no file
    Torn,     \* a file that was not written to its end
    Damaged,  \* a file whose zstd stream or lengths broke on disk
    MayFail   \* whether writing may fail, and what is on disk may change

ASSUME LimitsAssumption == Limits \subseteq Nat

ASSUME FileAssumption ==
    /\ MayFail \in BOOLEAN
    /\ Absent \notin {Torn, Damaged} /\ Torn # Damaged
    /\ Absent \notin Seq(Key) /\ Torn \notin Seq(Key) /\ Damaged \notin Seq(Key)

VARIABLES
    up,            \* whether the process runs
    max_size,      \* the cache limit of the process
    chunks,        \* the order of the raw cache, oldest key first
    needs_saving,  \* set by mark_dirty
    writer,        \* where try_save stands
    snapshot,      \* cache_entries, taken under the mutex
    temp,          \* the file at temp_path
    file,          \* the file at cache_path
    rotten,        \* entries of the file whose bytes changed on disk
    written_under, \* the cache limit of the process that saved the file (history)
    poisoned,      \* whether a panic of a transfer poisoned the mutex
    finished,      \* keys cached ever since some transfer was completed
    lost           \* whether the last save failed

\* The limits of this process and of the one that wrote the file.
limits == <<max_size, written_under>>

vars == <<up, chunks, needs_saving, writer, snapshot, temp, file, rotten, poisoned,
          finished, lost, limits>>

\* A file is absent, unreadable, or lists keys without repetition.
IsFile(f) == f \in {Absent, Torn, Damaged} \/ (f \in Seq(Key) /\ IsInjective(f))

\* The values the state may take: no list of entries repeats a key.
TypeOK ==
    /\ up \in BOOLEAN
    /\ chunks \in Seq(Key) /\ IsInjective(chunks)
    /\ needs_saving \in BOOLEAN
    /\ writer \in {"sleeping", "writing", "written", "dead"}
    /\ snapshot \in Seq(Key)
    /\ IsFile(temp) /\ IsFile(file)
    /\ rotten \subseteq Key
    /\ max_size \in Limits /\ written_under \in Limits \cup {0}
    /\ poisoned \in BOOLEAN
    /\ finished \subseteq Range(chunks)
    /\ lost \in BOOLEAN

\* The first start: no file yet.
Init ==
    /\ up = TRUE
    /\ max_size \in Limits /\ written_under = 0
    /\ chunks = <<>>
    /\ needs_saving = FALSE
    /\ writer = "sleeping"
    /\ snapshot = <<>>
    /\ temp = Absent
    /\ file = Absent
    /\ rotten = {}
    /\ poisoned = FALSE
    /\ finished = {}
    /\ lost = FALSE

\* Mutant: the cache is a plain queue of entries.
Insert_Queue(k) ==
    /\ up /\ ~poisoned
    /\ chunks' = Fit(Append(chunks, k), max_size)
    /\ finished' = finished \cap Range(chunks')
    /\ UNCHANGED <<up, needs_saving, writer, snapshot, temp, file, rotten, poisoned, lost, limits>>

\* A transfer inserts a chunk it fetched.
Insert(k) ==
    /\ up /\ ~poisoned
    /\ k \notin Range(chunks)
    /\ chunks' = InsertAll(chunks, <<k>>, max_size)
    /\ finished' = finished \cap Range(chunks')
    /\ UNCHANGED <<up, needs_saving, writer, snapshot, temp, file, rotten, poisoned, lost, limits>>

\* A transfer is complete.
MarkDirty ==
    /\ up /\ ~poisoned
    /\ needs_saving' = TRUE
    /\ finished' = Range(chunks)
    /\ UNCHANGED <<up, chunks, writer, snapshot, temp, file, rotten, poisoned, lost, limits>>

\* A transfer panics with the mutex held (ChunkCache, MissAwaited).
Poison ==
    /\ up /\ ~poisoned
    /\ MayFail
    /\ poisoned' = TRUE
    /\ UNCHANGED <<up, chunks, needs_saving, writer, snapshot, temp, file, rotten, finished, lost, limits>>

\* try_save after its interval: the entries are copied under the mutex, and
\* File::create empties the temporary file.
StartSave ==
    /\ up /\ ~poisoned
    /\ writer = "sleeping"
    /\ needs_saving
    /\ needs_saving' = FALSE
    /\ snapshot' = chunks
    /\ temp' = Torn
    /\ writer' = "writing"
    /\ UNCHANGED <<up, chunks, file, rotten, poisoned, finished, lost, limits>>

\* try_save meets the poisoned mutex: its expect ends the save task.
SavePanics ==
    /\ up /\ poisoned
    /\ writer = "sleeping"
    /\ writer' = "dead"
    /\ UNCHANGED <<up, chunks, needs_saving, snapshot, temp, file, rotten, poisoned, finished, lost, limits>>

\* Mutant: write_chunk_cache writes to cache_path itself.
Written_InPlace == temp' = Absent /\ file' = Torn

\* All entries are written and flushed.
Written == temp' = snapshot /\ UNCHANGED file

FinishWriting ==
    /\ up
    /\ writer = "writing"
    /\ Written
    /\ writer' = "written"
    /\ UNCHANGED <<up, chunks, needs_saving, snapshot, rotten, poisoned, finished, lost, limits>>

\* Mutant: the flag is cleared once the file is in place.
DirtyAfterSave_Cleared == FALSE

\* A transfer that was completed during the save keeps the cache dirty.
DirtyAfterSave == needs_saving

Rename ==
    /\ up
    /\ writer = "written"
    /\ file' = temp
    /\ temp' = Absent
    /\ rotten' = {} /\ written_under' = max_size
    /\ needs_saving' = DirtyAfterSave
    /\ writer' = "sleeping"
    /\ snapshot' = <<>>
    /\ lost' = FALSE
    /\ UNCHANGED <<up, max_size, chunks, poisoned, finished>>

\* An error while writing or renaming is logged, and the task sleeps again.
SaveFails ==
    /\ up
    /\ MayFail
    /\ writer \in {"writing", "written"}
    /\ writer' = "sleeping"
    /\ snapshot' = <<>>
    /\ lost' = TRUE
    /\ UNCHANGED <<up, chunks, needs_saving, temp, file, rotten, poisoned, finished, limits>>

\* The process ends: no save is begun on the way out.  When it is told to quit
\* it still completes a save that is being written (those steps come first
\* then); when it is killed it does not.
Exit ==
    /\ up
    /\ up' = FALSE
    /\ chunks' = <<>> /\ snapshot' = <<>> /\ finished' = {}
    /\ needs_saving' = FALSE /\ poisoned' = FALSE /\ lost' = FALSE
    /\ writer' = "sleeping"
    /\ UNCHANGED <<temp, file, rotten, limits>>

\* The bytes of an entry change on disk (external).
Rot(k) ==
    /\ ~up
    /\ MayFail
    /\ file \notin {Absent, Torn, Damaged} /\ k \in Range(file) \ rotten
    /\ rotten' = rotten \cup {k}
    /\ UNCHANGED <<up, chunks, needs_saving, writer, snapshot, temp, file, poisoned, finished, lost, limits>>

\* What breaks is more than the bytes of an entry: the compressed stream or a
\* length (external).
Damage ==
    /\ ~up
    /\ MayFail
    /\ file \notin {Absent, Torn, Damaged}
    /\ file' = Damaged
    /\ UNCHANGED <<up, chunks, needs_saving, writer, snapshot, temp, rotten, poisoned, finished, lost, limits>>

\* Mutant: each entry is put in front of the ones before.
Loaded_Reversed(f, max) ==
    LET s == InsertAll(<<>>, Kept(f, Key \ rotten), max)
    IN  [i \in DOMAIN s |-> s[Len(s) + 1 - i]]

\* read_chunk_cache inserts the entries of f whose hash is right, in turn; what
\* is over the limit of the new process leaves as in every insert.
Loaded(f, max) == InsertAll(<<>>, Kept(f, Key \ rotten), max)

\* run_client starts under its own limit with the file, if there is one.
Start ==
    /\ ~up
    /\ file \notin {Torn, Damaged}
    /\ up' = TRUE
    /\ max_size' \in Limits
    /\ \/ file = Absent /\ chunks' = <<>>
       \/ file # Absent /\ chunks' = Loaded(file, max_size')
    /\ finished' = Range(chunks')
    /\ UNCHANGED <<needs_saving, writer, snapshot, temp, file, rotten, poisoned, lost, written_under>>

\* load_from_file cannot read the file through: its error ends run_client before
\* anything is served, and the file stays.
StartFails ==
    /\ ~up
    /\ file \in {Torn, Damaged}
    /\ UNCHANGED vars

SaveTask == StartSave \/ SavePanics \/ FinishWriting \/ Rename \/ SaveFails

\* The tasks of the process, and what may happen to it.
Next ==
    \/ \E k \in Key : Insert(k) \/ Rot(k)
    \/ MarkDirty
    \/ Poison
    \/ SaveTask
    \/ Exit
    \/ Damage
    \/ Start
    \/ StartFails

Spec == Init /\ [][Next]_vars

\* The save task wakes up again and again, and the disk answers.
FairSpec == Spec /\ WF_vars(SaveTask)

-----------------------------------------------------------------------------
\* The file at cache_path is never torn, wherever the process ends: the next
\* start does not fail on it.  (Nothing is synced: this is about the end of the
\* process, not of the machine.)
FileNeverTorn == file # Torn

\* A start gives back the order that was saved, but for entries that rotted, and
\* the oldest is still the first to go.  Loading evicts only under a lower limit
\* than the one the file was written under, and then only the oldest entries
\* and no more of them than the new limit asks for.
StartRestores ==
    [][~up /\ up' /\ file # Absent =>
        LET intact == Kept(file, Key \ rotten)
            newest(n) == SubSeq(intact, n, Len(intact))
        IN  \E n \in 1 .. Len(intact) + 1 :
                /\ chunks' = newest(n)
                /\ n > 1 => written_under > max_size' /\ Bytes[newest(n - 1)] > max_size']_vars

\* The keys in the file.
Saved == IF file \in {Absent, Torn, Damaged} THEN {} ELSE Range(file)

\* When nothing is marked as unsaved, no save is under way and the last one did
\* not fail, the file holds every chunk of a completed transfer that is still
\* cached: a transfer that ends during a save is not forgotten.
CleanMeansSaved ==
    up /\ ~needs_saving /\ writer \in {"sleeping", "dead"} /\ ~lost => finished \subseteq Saved

\* "The Cacher client periodically saves its chunk cache": a chunk of a
\* completed transfer gets into the file, unless it is evicted, the process
\* ends before, a save fails or a transfer poisons the mutex.
FinishedIsSaved ==
    \A k \in Key : k \in finished ~> k \notin finished \/ k \in Saved \/ lost \/ poisoned

\* "The Cacher client periodically saves its chunk cache to a file on disk": a
\* save that failed is repeated in a later period.
FailedSaveRetried ==
    up /\ lost /\ writer = "sleeping" => needs_saving \/ finished \subseteq Saved

=============================================================================
