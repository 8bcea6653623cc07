----------------------------- MODULE FsStorage -----------------------------
(***************************************************************************)
(* The file-system storage of crates/sutegi-storage (src/fs.rs): put, get  *)
(* and delete of one key as the system calls they make.                    *)
(*                                                                         *)
(* The file system is names for inodes: rename moves a name, an open file  *)
(* stays with its inode.  A temporary file is named after the key and the  *)
(* process, so the threads of a process share it.  A put writes its object *)
(* in Chunks pieces; a piece is named by the put that wrote it.            *)
(***************************************************************************)
EXTENDS Integers, Sequences, FiniteSets

CONSTANTS
  Threads,     \* the threads that put and delete
  Proc,        \* the process of each thread
  Chunks,      \* bound: pieces of an object
  MaxPuts,     \* bound: puts
  MaxFaults,   \* bound: failed writes and crashes
  NONE

StorageConstants ==
  /\ DOMAIN Proc = Threads
  /\ Chunks \in Nat \ {0} /\ MaxPuts \in Nat /\ MaxFaults \in Nat
  /\ NONE \notin Nat

VARIABLES
  data,     \* the contents of each inode
  obj,      \* the inode the object's path names
  tmp,      \* the inode each process's temporary path names
  meta,     \* the sidecar: the put whose content type it holds, or Empty
  tpc,      \* control point of each thread
  put,      \* the number of each thread's put
  fd,       \* the inode it has open
  off,      \* how far it has written
  puts,     \* puts so far
  rpc,      \* a reader in get: control point, open inode, what it has read
  rfd,
  buf,
  faults

vars == <<data, obj, tmp, meta, tpc, put, fd, off, puts, rpc, rfd, buf, faults>>
reader == <<rpc, rfd, buf>>

Puts == 1..MaxPuts
Inodes == 1..MaxPuts       \* at most one per put
Empty == 0                 \* a hole in a file, or a sidecar just created
Processes == {Proc[t] : t \in Threads}

Goes(t, pc) == tpc' = [tpc EXCEPT ![t] = pc]

\* The contents after a write of one piece at an offset.
Written(contents, at, piece) ==
  [i \in 1..(IF at + 1 > Len(contents) THEN at + 1 ELSE Len(contents)) |->
     IF i = at + 1 THEN piece
     ELSE IF i <= Len(contents) THEN contents[i] ELSE Empty]

(***************************************************************************)
(* put.                                                                    *)
(***************************************************************************)

\* fs::write opens the temporary file, creating or truncating it.
OpenTmp(t) ==
  LET p == Proc[t]
      i == IF tmp[p] # NONE THEN tmp[p] ELSE puts + 1
  IN /\ tpc[t] = "idle" /\ puts < MaxPuts
     /\ puts' = puts + 1
     /\ put' = [put EXCEPT ![t] = puts + 1]
     /\ tmp' = [tmp EXCEPT ![p] = i]
     /\ data' = [data EXCEPT ![i] = <<>>]
     /\ fd' = [fd EXCEPT ![t] = i]
     /\ off' = [off EXCEPT ![t] = 0]
     /\ Goes(t, "write")
     /\ UNCHANGED <<obj, meta, reader, faults>>

\* Mutant of WritePiece: one write, which may be short.
WritePiece_Short(t) ==
  /\ tpc[t] = "write"
  /\ data' = [data EXCEPT ![fd[t]] = Written(@, off[t], put[t])]
  /\ off' = [off EXCEPT ![t] = @ + 1]
  /\ Goes(t, "rename")
  /\ UNCHANGED <<obj, tmp, meta, put, fd, puts, reader, faults>>

\* and writes it piece by piece.
WritePiece(t) ==
  /\ tpc[t] = "write"
  /\ data' = [data EXCEPT ![fd[t]] = Written(@, off[t], put[t])]
  /\ off' = [off EXCEPT ![t] = @ + 1]
  /\ Goes(t, IF off[t] + 1 = Chunks THEN "rename" ELSE "write")
  /\ UNCHANGED <<obj, tmp, meta, put, fd, puts, reader, faults>>

\* A failed write leaves the temporary file where it is.
WriteFails(t) ==
  /\ tpc[t] = "write" /\ faults < MaxFaults
  /\ faults' = faults + 1
  /\ Goes(t, "idle")
  /\ UNCHANGED <<data, obj, tmp, meta, put, fd, off, puts, reader>>

\* fs::rename over the object.
Rename(t) ==
  LET p == Proc[t]
  IN /\ tpc[t] = "rename" /\ tmp[p] # NONE
     /\ obj' = tmp[p]
     /\ tmp' = [tmp EXCEPT ![p] = NONE]
     /\ Goes(t, "meta_open")
     /\ UNCHANGED <<data, meta, put, fd, off, puts, reader, faults>>

\* It fails by itself or because the name is gone; the name is removed.
RenameFails(t) ==
  LET p == Proc[t]
  IN /\ tpc[t] = "rename"
     /\ tmp[p] # NONE => faults < MaxFaults
     /\ faults' = IF tmp[p] # NONE THEN faults + 1 ELSE faults
     /\ tmp' = [tmp EXCEPT ![p] = NONE]
     /\ Goes(t, "idle")
     /\ UNCHANGED <<data, obj, meta, put, fd, off, puts, reader>>

\* The sidecar is written in place.
OpenMeta(t) ==
  /\ tpc[t] = "meta_open"
  /\ meta' = Empty
  /\ Goes(t, "meta_write")
  /\ UNCHANGED <<data, obj, tmp, put, fd, off, puts, reader, faults>>

WriteMeta(t) ==
  /\ tpc[t] = "meta_write"
  /\ meta' = put[t]
  /\ Goes(t, "idle")
  /\ UNCHANGED <<data, obj, tmp, put, fd, off, puts, reader, faults>>

\* The sidecar cannot be created or written: put returns the error with the
\* object already replaced.
MetaFails(t) ==
  /\ tpc[t] \in {"meta_open", "meta_write"} /\ faults < MaxFaults
  /\ faults' = faults + 1
  /\ Goes(t, "idle")
  /\ UNCHANGED <<data, obj, tmp, meta, put, fd, off, puts, reader>>

(***************************************************************************)
(* delete, get, and the end of a process.                                  *)
(***************************************************************************)

Delete(t) ==
  /\ tpc[t] = "idle" /\ obj # NONE
  /\ obj' = NONE
  /\ Goes(t, "delete_meta")
  /\ UNCHANGED <<data, tmp, meta, put, fd, off, puts, reader, faults>>

DeleteMeta(t) ==
  /\ tpc[t] = "delete_meta"
  /\ meta' = NONE
  /\ Goes(t, "idle")
  /\ UNCHANGED <<data, obj, tmp, put, fd, off, puts, reader, faults>>

\* fs::read opens the object and reads to the end of the file.
OpenObject ==
  /\ rpc = "idle" /\ obj # NONE
  /\ rpc' = "read" /\ rfd' = obj /\ buf' = <<>>
  /\ UNCHANGED <<data, obj, tmp, meta, tpc, put, fd, off, puts, faults>>

ReadPiece ==
  /\ rpc = "read" /\ Len(buf) < Len(data[rfd])
  /\ buf' = buf \o <<data[rfd][Len(buf) + 1]>>
  /\ UNCHANGED <<data, obj, tmp, meta, tpc, put, fd, off, puts, rpc, rfd, faults>>

ReadEnd ==
  /\ rpc = "read" /\ Len(buf) >= Len(data[rfd])
  /\ rpc' = "done"
  /\ UNCHANGED <<data, obj, tmp, meta, tpc, put, fd, off, puts, rfd, buf, faults>>

ReadAgain ==
  /\ rpc = "done"
  /\ rpc' = "idle" /\ rfd' = NONE /\ buf' = <<>>
  /\ UNCHANGED <<data, obj, tmp, meta, tpc, put, fd, off, puts, faults>>

\* A process dies; the next one has another number and so another name for
\* its temporary file, or the same number and finds the file.
Crash(p) ==
  /\ faults < MaxFaults /\ faults' = faults + 1
  /\ \E t \in Threads : Proc[t] = p /\ tpc[t] # "idle"
  /\ tpc' = [t \in Threads |-> IF Proc[t] = p THEN "idle" ELSE tpc[t]]
  /\ tmp' \in {tmp, [tmp EXCEPT ![p] = NONE]}
  /\ UNCHANGED <<data, obj, meta, put, fd, off, puts, reader>>

Init ==
  /\ data = [i \in Inodes |-> <<>>]
  /\ obj = NONE /\ tmp = [p \in Processes |-> NONE] /\ meta = NONE
  /\ tpc = [t \in Threads |-> "idle"]
  /\ put = [t \in Threads |-> 0]
  /\ fd = [t \in Threads |-> NONE]
  /\ off = [t \in Threads |-> 0]
  /\ puts = 0 /\ faults = 0
  /\ rpc = "idle" /\ rfd = NONE /\ buf = <<>>

Put(t) ==
  \/ OpenTmp(t) \/ WritePiece(t) \/ WriteFails(t) \/ Rename(t) \/ RenameFails(t)
  \/ OpenMeta(t) \/ WriteMeta(t) \/ MetaFails(t)

Get == OpenObject \/ ReadPiece \/ ReadEnd \/ ReadAgain

Next ==
  \/ \E t \in Threads : Put(t) \/ Delete(t) \/ DeleteMeta(t)
  \/ Get
  \/ \E p \in Processes : Crash(p)

Spec == Init /\ [][Next]_vars

(***************************************************************************)
(* Properties.                                                             *)
(***************************************************************************)

\* Every variable has its type, and the file that has become the object has
\* no temporary name any more.
TypeOK ==
  /\ obj \in Inodes \cup {NONE} /\ tmp \in [Processes -> Inodes \cup {NONE}]
  /\ obj # NONE => \A p \in Processes : tmp[p] # obj
  /\ meta \in Puts \cup {Empty, NONE}
  /\ tpc \in [Threads -> {"idle", "write", "rename", "meta_open", "meta_write",
                          "delete_meta"}]
  /\ put \in [Threads -> 0..MaxPuts] /\ off \in [Threads -> 0..Chunks]
  /\ puts \in 0..MaxPuts /\ faults \in 0..MaxFaults
  /\ rpc \in {"idle", "read", "done"}

Whole(contents) == \E v \in Puts : contents = [i \in 1..Chunks |-> v]

\* "Readers see the old bytes or the new ones, never a torn write": what get
\* has read is the whole object of one put, whatever puts, deletes, failures
\* and crashes happen while it reads.
ReadsWhole == rpc = "done" => Whole(buf)

=============================================================================
