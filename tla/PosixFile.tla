------------------------------ MODULE PosixFile ------------------------------
(***************************************************************************)
(* PosixWritableFile and the file-name operations of PosixEnv             *)
(* (src/LearnCC/util/env_posix.cc): NewWritableFile (fopen "w"), Append   *)
(* (fwrite), Flush (fflush), Sync (SyncDirIfManifest, then fflush and     *)
(* fdatasync), Close (fclose), DeleteFile (unlink), RenameFile (rename).  *)
(*                                                                         *)
(* Three copies of a file's bytes matter for a crash: the stdio buffer of  *)
(* the writer, the OS page cache, and the disk.  Likewise a name exists in *)
(* the in-memory directory and, once written back or fsync'ed, on disk.   *)
(* The OS writes dirty data and directory entries back at any time; a     *)
(* crash keeps only what is on disk.  A file's content is a stream that   *)
(* only grows until fopen "w" truncates it, so it is kept as the stream's *)
(* generation (truncations so far) and its length.                        *)
(***************************************************************************)
EXTENDS Naturals, FiniteSets

CONSTANTS
    Names,       \* file names the DB uses
    Manifests,   \* the names whose basename starts with "MANIFEST"
    MaxInodes,   \* bound: files created
    MaxLen,      \* bound: records appended to one stream
    MaxOpens     \* bound: NewWritableFile calls

NoFile == 0
Inodes == 1..MaxInodes
NoWriter == [ino |-> NoFile, buf |-> 0]
Empty(g) == [gen |-> g, len |-> 0]

VARIABLES
    dir,       \* name -> inode in the directory (page cache), NoFile if none
    ddir,      \* name -> inode on disk
    data,      \* inode -> [gen, len] in the page cache
    ddata,     \* inode -> [gen, len] on disk
    wf,        \* name -> the PosixWritableFile opened on it: its inode and
               \*   the records in its stdio buffer; NoWriter when none
    created,   \* inodes allocated so far
    opens,     \* NewWritableFile calls so far
    synced,    \* ghost: inode -> the content the last OK Sync covered
    promised   \* ghost: <<name, inode>> pairs a MANIFEST Sync made durable

vars == <<dir, ddir, data, ddata, wf, created, opens, synced, promised>>

\* d holds every record of content s: the same stream, at least as long.
Covers(d, s) == s.len = 0 \/ (d.gen = s.gen /\ s.len <= d.len)

\* The stdio buffer of the writer on n handed to the OS (what fflush does).
Drained(n) == [data EXCEPT ![wf[n].ino].len = @ + wf[n].buf]

Entries == {<<n, dir[n]>> : n \in {m \in Names : dir[m] # NoFile}}

Init ==
    /\ dir = [n \in Names |-> NoFile]
    /\ ddir = dir
    /\ data = [i \in Inodes |-> Empty(0)]
    /\ ddata = data
    /\ wf = [n \in Names |-> NoWriter]
    /\ created = 0
    /\ opens = 0
    /\ synced = [i \in Inodes |-> Empty(0)]
    /\ promised = {}

\* PosixEnv::NewWritableFile(n): fopen(n, "w") creates the file, or
\* truncates the one the name refers to.
NewWritableFile(n) ==
    /\ wf[n] = NoWriter
    /\ opens < MaxOpens
    /\ opens' = opens + 1
    /\ IF dir[n] # NoFile
       THEN LET i == dir[n] IN
            /\ data' = [data EXCEPT ![i] = Empty(@.gen + 1)]
            /\ synced' = [synced EXCEPT ![i] = Empty(data[i].gen + 1)]
            /\ wf' = [wf EXCEPT ![n] = [ino |-> i, buf |-> 0]]
            /\ UNCHANGED <<dir, created>>
       ELSE /\ created < MaxInodes
            /\ created' = created + 1
            /\ dir' = [dir EXCEPT ![n] = created + 1]
            /\ wf' = [wf EXCEPT ![n] = [ino |-> created + 1, buf |-> 0]]
            /\ UNCHANGED <<data, synced>>
    /\ UNCHANGED <<ddir, ddata, promised>>

\* PosixWritableFile::Append: fwrite_unlocked copies the record into the
\* stdio buffer, or, when the buffer fills, writes the buffer and the
\* record through to the OS.
Append(n) ==
    /\ wf[n] # NoWriter
    /\ data[wf[n].ino].len + wf[n].buf < MaxLen
    /\ \/ /\ wf' = [wf EXCEPT ![n].buf = @ + 1]
          /\ UNCHANGED data
       \/ /\ data' = [data EXCEPT ![wf[n].ino].len = @ + wf[n].buf + 1]
          /\ wf' = [wf EXCEPT ![n].buf = 0]
    /\ UNCHANGED <<dir, ddir, ddata, created, opens, synced, promised>>

\* PosixWritableFile::Flush: fflush_unlocked hands the buffer to the OS.
Flush(n) ==
    /\ wf[n] # NoWriter
    /\ data' = Drained(n)
    /\ wf' = [wf EXCEPT ![n].buf = 0]
    /\ UNCHANGED <<dir, ddir, ddata, created, opens, synced, promised>>

\* Faulty variant of SyncDirIfManifest that opens and closes the directory
\* without the fsync.
SyncDirIfManifestNoFsync(n) ==
    IF n \notin Manifests THEN {[ok |-> TRUE, ddir |-> ddir]}
    ELSE {[ok |-> TRUE, ddir |-> ddir], [ok |-> FALSE, ddir |-> ddir]}

\* PosixWritableFile::SyncDirIfManifest: for a MANIFEST, open its
\* directory and fsync it, which puts every entry of the directory on
\* disk; failing open or fsync is an IOError.  [ok, ddir] outcomes.
SyncDirIfManifest(n) ==
    IF n \notin Manifests THEN {[ok |-> TRUE, ddir |-> ddir]}
    ELSE {[ok |-> TRUE, ddir |-> dir], [ok |-> FALSE, ddir |-> ddir]}

\* Faulty variant of FlushAndSync that runs fdatasync before fflush.
FlushAndSyncSwapped(n) ==
    {[ok |-> TRUE, ddata |-> [ddata EXCEPT ![wf[n].ino] = data[wf[n].ino]]],
     [ok |-> FALSE, ddata |-> ddata]}

\* fflush_unlocked(file_) then fdatasync(fileno(file_)): the buffer goes
\* to the OS and the file's data to disk, or fdatasync fails (EIO).
\* fdatasync writes the data, not the directory entry.  [ok, ddata].
FlushAndSync(n) ==
    {[ok |-> TRUE, ddata |-> [ddata EXCEPT ![wf[n].ino] = Drained(n)[wf[n].ino]]],
     [ok |-> FALSE, ddata |-> ddata]}

\* PosixWritableFile::Sync: SyncDirIfManifest, returning its error early;
\* then fflush and fdatasync.  When it returns OK, the content written so
\* far (and, for a MANIFEST, the directory as it is now) is promised.
Sync(n) ==
    /\ wf[n] # NoWriter
    /\ \E d \in SyncDirIfManifest(n) :
        /\ ddir' = d.ddir
        /\ IF ~d.ok
           THEN UNCHANGED <<data, ddata, wf, synced, promised>>
           ELSE \E f \in FlushAndSync(n) :
                /\ data' = Drained(n)
                /\ wf' = [wf EXCEPT ![n].buf = 0]
                /\ ddata' = f.ddata
                /\ IF f.ok
                   THEN /\ synced' = [synced EXCEPT ![wf[n].ino] = Drained(n)[wf[n].ino]]
                        /\ promised' = IF n \in Manifests THEN promised \cup Entries
                                                          ELSE promised
                   ELSE UNCHANGED <<synced, promised>>
    /\ UNCHANGED <<dir, created, opens>>

\* PosixWritableFile::Close (and the destructor): fclose flushes the buffer
\* and closes; when the flush fails the buffered records are lost, and
\* file_ is NULL either way.
Close(n) ==
    /\ wf[n] # NoWriter
    /\ data' \in {Drained(n), data}
    /\ wf' = [wf EXCEPT ![n] = NoWriter]
    /\ UNCHANGED <<dir, ddir, ddata, created, opens, synced, promised>>

\* PosixEnv::DeleteFile: unlink(n); an open writer keeps its inode.
DeleteFile(n) ==
    /\ dir[n] # NoFile
    /\ dir' = [dir EXCEPT ![n] = NoFile]
    /\ promised' = {p \in promised : p[1] # n}
    /\ UNCHANGED <<ddir, data, ddata, wf, created, opens, synced>>

\* PosixEnv::RenameFile(src, target): rename(2) replaces target.
RenameFile(src, target) ==
    /\ src # target
    /\ dir[src] # NoFile
    /\ dir' = [dir EXCEPT ![target] = dir[src], ![src] = NoFile]
    /\ promised' = {p \in promised : p[1] \notin {src, target}}
    /\ UNCHANGED <<ddir, data, ddata, wf, created, opens, synced>>

\* The OS writes a file's dirty pages back, or commits the directory.
WriteBack(i) ==
    /\ ddata[i] # data[i]
    /\ ddata' = [ddata EXCEPT ![i] = data[i]]
    /\ UNCHANGED <<dir, ddir, data, wf, created, opens, synced, promised>>

DirWriteBack ==
    /\ ddir # dir
    /\ ddir' = dir
    /\ UNCHANGED <<dir, data, ddata, wf, created, opens, synced, promised>>

\* The machine crashes and the DB restarts: buffers, the page cache and
\* every open writer are gone; what is on disk stays.
Crash ==
    /\ dir' = ddir
    /\ data' = ddata
    /\ wf' = [n \in Names |-> NoWriter]
    /\ UNCHANGED <<ddir, ddata, created, opens, synced, promised>>

Next ==
    \/ \E n \in Names : NewWritableFile(n) \/ Append(n) \/ Flush(n) \/ Sync(n)
                       \/ Close(n) \/ DeleteFile(n)
    \/ \E src, target \in Names : RenameFile(src, target)
    \/ \E i \in Inodes : WriteBack(i)
    \/ DirWriteBack
    \/ Crash

Spec == Init /\ [][Next]_vars

-----------------------------------------------------------------------------
\* Once Sync has returned OK, the records it covered are on disk: a crash
\* at any later point, after any Appends, Closes, renames and write-backs
\* (until fopen "w" truncates the file), recovers at least them.  Breaks
\* if the stdio buffer is not flushed before fdatasync.
SyncedDataDurable == \A i \in Inodes : Covers(ddata[i], synced[i])

\* Once Sync of a MANIFEST has returned OK, every name the directory held
\* then is on disk while it still names the same file: a crash cannot
\* lose a table or log file the new MANIFEST refers to.  This rests on
\* SyncDirIfManifest; fdatasync of the file itself writes no directory
\* entry.
ManifestSyncPersistsNames ==
    \A p \in promised : dir[p[1]] = p[2] => ddir[p[1]] = p[2]
=============================================================================
