----------------------------- MODULE ZipWriter -----------------------------
(***************************************************************************)
(* The archive that the cacher client writes (src/src/zip_writer.rs).  Of  *)
(* the fields of a record those are kept that say where things are: a      *)
(* local header is size and name, an entry of the central directory size,  *)
(* offset and name, and the end record is the number of entries and the    *)
(* offset of the directory.  Each is one byte here, a u16, u32 or string   *)
(* in the code.                                                            *)
(***************************************************************************)
EXTENDS Integers, Sequences, SequencesExt

FileHeaderSize == 2
CENTRAL_DIRECTORY_ENTRY_SIZE == 3
END_OF_CENTRAL_DIRECTORY_SIZE == 2

NewZip == [current_offset |-> 0, entries |-> <<>>]

\* encode_file_header: the header, and what it leaves in the writer.
FileHeader(name, data) == <<Len(data), name>>

\* Mutant: the entry is pushed twice.
WithFile_Twice(zip, name, data) ==
    LET entry == [start_offset |-> zip.current_offset, file_name |-> name, data_size |-> Len(data)]
    IN  [current_offset |-> zip.current_offset + FileHeaderSize + Len(data),
         entries |-> zip.entries \o <<entry, entry>>]

WithFile(zip, name, data) ==
    [current_offset |-> zip.current_offset + FileHeaderSize + Len(data),
     entries |-> Append(zip.entries, [start_offset |-> zip.current_offset,
                                      file_name |-> name,
                                      data_size |-> Len(data)])]

\* advance_offset.
Advanced(zip, offset) == [zip EXCEPT !.current_offset = @ + offset]

\* encode_central_directory.
CentralDirectory(zip) ==
    LET entry(e) == <<e.data_size, e.start_offset, e.file_name>>
    IN  FlattenSeq([i \in DOMAIN zip.entries |-> entry(zip.entries[i])])
        \o <<Len(zip.entries), zip.current_offset>>

\* central_directory_size, which is asked for before the directory is encoded.
CentralDirectorySize(zip) ==
    Len(zip.entries) * CENTRAL_DIRECTORY_ENTRY_SIZE + END_OF_CENTRAL_DIRECTORY_SIZE

-----------------------------------------------------------------------------
\* For reference: what a reader finds in an archive, by its end record and its
\* directory.  Names and sizes have to be those of the local headers.
ReadZip(bytes) ==
    LET At(i) == IF i \in DOMAIN bytes THEN bytes[i] ELSE 0
        dir == At(Len(bytes))
        Field(i, n) == At(dir + (i - 1) * CENTRAL_DIRECTORY_ENTRY_SIZE + n)
        start(i) == Field(i, 2)
    IN  [i \in 1 .. At(Len(bytes) - 1) |->
            [name |-> Field(i, 3),
             data |-> [n \in 1 .. Field(i, 1) |-> At(start(i) + FileHeaderSize + n)],
             valid |-> At(start(i) + 1) = Field(i, 1) /\ At(start(i) + 2) = Field(i, 3)]]

=============================================================================
