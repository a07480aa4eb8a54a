---------------------------- MODULE LocalStorage ----------------------------
(***************************************************************************)
(* One key of the local file store (pkg/storage/local.go).  Upload opens   *)
(* the key's own path, which empties the file that is there, writes to it  *)
(* piece by piece and removes the path if anything goes wrong; Download    *)
(* hands out the open file; Delete removes the path.  Nothing keeps two    *)
(* callers apart.                                                          *)
(*                                                                         *)
(* A file lives on while somebody has it open.  Files are named after the  *)
(* upload that created them, their pieces after the one that wrote them.   *)
(***************************************************************************)
EXTENDS Naturals, Sequences

CONSTANTS Uploads, Downloads,
          Size,   (* pieces of an upload                                   *)
          Hole,   (* a piece nobody wrote                                  *)
          Absent  (* no file                                               *)

ASSUME SizeAssumption == Size \in Nat \ {0}
ASSUME HoleAssumption == Hole \notin Uploads /\ Absent \notin Uploads
(* A call is one or the other.                                             *)
ASSUME CallersAssumption == Uploads \cap Downloads = {}

VARIABLES
  path,     \* the file the key's path leads to
  file,     \* Uploads -> the pieces of the file it created
  upc,      \* Uploads -> where Upload is
  open,     \* Uploads \cup Downloads -> the file it has opened
  offset,   \* Uploads -> pieces written
  dpc,      \* Downloads -> where the reader is
  got,      \* Downloads -> pieces read
  met,      \* uploads that had another beside them, downloads whose file an
            \*   upload had open or opened while they read it
  settled   \* the upload that is the key's content for certain

storageVars == <<path, file, upc, open, offset, dpc, got, met, settled>>

Pieces == Uploads \cup {Hole}

StorageTypeOK ==
  /\ path \in Uploads \cup {Absent}
  /\ file \in [Uploads -> Seq(Pieces)] /\ \A u \in Uploads : Len(file[u]) <= Size
  /\ upc \in [Uploads -> {"idle", "copying", "failing", "stored", "failed", "gone"}]
  /\ open \in [Uploads \cup Downloads -> Uploads \cup {Absent}]
  /\ offset \in [Uploads -> 0..Size]
  /\ dpc \in [Downloads -> {"idle", "reading", "done"}]
  /\ got \in [Downloads -> Seq(Pieces)]
  /\ met \subseteq Uploads \cup Downloads
  /\ settled \in Uploads \cup {Absent}

StorageInit ==
  /\ path = Absent
  /\ file = [u \in Uploads |-> <<>>]
  /\ upc = [u \in Uploads |-> "idle"]
  /\ open = [x \in Uploads \cup Downloads |-> Absent]
  /\ offset = [u \in Uploads |-> 0]
  /\ dpc = [d \in Downloads |-> "idle"]
  /\ got = [d \in Downloads |-> <<>>]
  /\ met = {} /\ settled = Absent

Busy == {u \in Uploads : upc[u] \in {"copying", "failing"}}
Reading == {d \in Downloads : dpc[d] = "reading"}

(* os.Create: the file at the path is emptied, or a new one put there.     *)
Create(u) ==
  /\ upc[u] = "idle"
  /\ upc' = [upc EXCEPT ![u] = "copying"]
  /\ LET f == IF path = Absent THEN u ELSE path
     IN /\ path' = f /\ open' = [open EXCEPT ![u] = f] /\ file' = [file EXCEPT ![f] = <<>>]
        /\ met' = met \cup {d \in Reading : open[d] = f}
                      \cup (IF Busy = {} THEN {} ELSE Busy \cup {u})
  /\ settled' = Absent
  /\ UNCHANGED <<offset, dpc, got>>

(* Each writer has an offset of its own, whatever became of the file.      *)
Written(f, n, u) ==
  [k \in 1..(IF n > Len(f) THEN n ELSE Len(f)) |->
     IF k = n THEN u ELSE IF k <= Len(f) THEN f[k] ELSE Hole]

Write(u) ==
  /\ upc[u] = "copying" /\ offset[u] < Size
  /\ offset' = [offset EXCEPT ![u] = @ + 1]
  /\ file' = [file EXCEPT ![open[u]] = Written(@, offset[u] + 1, u)]
  /\ UNCHANGED <<path, upc, open, dpc, got, met, settled>>

MutComplete(u) == TRUE
(* What was written has the size that was announced.                       *)
Complete(u) == offset[u] = Size

Stored(u) ==
  /\ upc[u] = "copying" /\ Complete(u)
  /\ upc' = [upc EXCEPT ![u] = "stored"]
  /\ settled' = IF u \notin met /\ path = open[u] THEN u ELSE settled
  /\ UNCHANGED <<path, file, open, offset, dpc, got, met>>

(* The reader or the disk fails, the request is cancelled, or the size is  *)
(* another than announced ...                                              *)
Fail(u) ==
  /\ upc[u] = "copying"
  /\ upc' = [upc EXCEPT ![u] = "failing"]
  /\ UNCHANGED <<path, file, open, offset, dpc, got, met, settled>>

MutRemove(u) ==
  /\ upc[u] = "failing"
  /\ upc' = [upc EXCEPT ![u] = "failed"]
  /\ UNCHANGED <<path, file, open, offset, dpc, got, met, settled>>

(* ... and the deferred function removes whatever the path now leads to.   *)
Remove(u) ==
  /\ upc[u] = "failing"
  /\ upc' = [upc EXCEPT ![u] = "failed"]
  /\ path' = Absent
  /\ UNCHANGED <<file, open, offset, dpc, got, met, settled>>

(* The process dies in the middle of an Upload.                            *)
Die(u) ==
  /\ u \in Busy
  /\ upc' = [upc EXCEPT ![u] = "gone"]
  /\ UNCHANGED <<path, file, open, offset, dpc, got, met, settled>>

Delete ==
  /\ path # Absent
  /\ path' = Absent /\ settled' = Absent
  /\ UNCHANGED <<file, upc, open, offset, dpc, got, met>>

Download(d) ==
  /\ dpc[d] = "idle" /\ path # Absent
  /\ dpc' = [dpc EXCEPT ![d] = "reading"]
  /\ open' = [open EXCEPT ![d] = path]
  /\ met' = IF \E u \in Busy : open[u] = path THEN met \cup {d} ELSE met
  /\ UNCHANGED <<path, file, upc, offset, got, settled>>

Read(d) ==
  /\ dpc[d] = "reading"
  /\ LET f == file[open[d]]  n == Len(got[d]) + 1
     IN IF n <= Len(f) THEN got' = [got EXCEPT ![d] = Append(@, f[n])] /\ UNCHANGED dpc
                       ELSE dpc' = [dpc EXCEPT ![d] = "done"] /\ UNCHANGED got
  /\ UNCHANGED <<path, file, upc, open, offset, met, settled>>

StorageNext ==
  \/ \E u \in Uploads : Create(u) \/ Write(u) \/ Stored(u) \/ Fail(u) \/ Remove(u) \/ Die(u)
  \/ \E d \in Downloads : Download(d) \/ Read(d)
  \/ Delete

StorageSpec == StorageInit /\ [][StorageNext]_storageVars

-----------------------------------------------------------------------------
(* Properties.                                                             *)

Whole(u) == [k \in 1..Size |-> u]

(* What can tear a file: of the uploads that had it open two overlapped,   *)
(* or one died.                                                            *)
Torn(f) == \E u \in Uploads : open[u] = f /\ (u \in met \/ upc[u] = "gone")

(* Once nobody is uploading, a file that is not one upload's content, and  *)
(* all of it, has a cause.                                                 *)
TornHasCause ==
  Busy = {} /\ path # Absent /\ (\A u \in Uploads : file[path] # Whole(u)) => Torn(path)

(* An Upload that had no other beside it is the key's content, all of it,  *)
(* until the next Upload begins or the key is deleted: an earlier one that *)
(* failed has removed the path before and not after.                       *)
UploadStays == settled # Absent => path # Absent /\ file[path] = Whole(settled)

(* A download reads one upload's content, all of it, also if the key is    *)
(* deleted meanwhile, or deleted and uploaded anew: what an Upload leaves  *)
(* at the path is whole, and a new file is not the one that is being read. *)
(* The exceptions are an Upload that has the same file open while it is    *)
(* read, and a file torn before by uploads that overlapped or died.        *)
ReadsWhole ==
  \A d \in Downloads \ met :
    dpc[d] = "done" => (\E u \in Uploads : got[d] = Whole(u)) \/ Torn(open[d])

-----------------------------------------------------------------------------
(* Why they hold.                                                          *)

(* Who has met nobody is alone, its file is the path's unless the key was  *)
(* deleted, and while it copies the file is what it has written.           *)
CopiesAlone ==
  \A u \in Busy \ met :
    /\ Busy = {u} /\ path \in {open[u], Absent}
    /\ upc[u] = "copying" => file[open[u]] = [k \in 1..offset[u] |-> u]

(* Who has begun has a file, and who has not has written or read nothing. *)
HaveFiles ==
  /\ \A u \in Uploads : IF upc[u] = "idle" THEN offset[u] = 0 /\ open[u] = Absent
                                             ELSE open[u] # Absent
  /\ \A d \in Downloads : IF dpc[d] = "idle" THEN got[d] = <<>> ELSE open[d] # Absent

(* TornHasCause, when somebody may still be writing.                       *)
TornOrWritten ==
  path # Absent /\ ~Torn(path) =>
    (\E u \in Busy : open[u] = path) \/ (\E u \in Uploads : file[path] = Whole(u))

(* Nobody writes while a settled upload is the key's content, ...          *)
SettledInPeace == settled # Absent => Busy = {}

(* ... or to a file a download reads that no upload has got in the way of. *)
InPeace(d) ==
  /\ \A u \in Busy : open[u] # open[d]
  /\ Len(got[d]) <= Len(file[open[d]])
  /\ \A k \in 1..Len(got[d]) : got[d][k] = file[open[d]][k]
  /\ (\E u \in Uploads : file[open[d]] = Whole(u)) \/ Torn(open[d])

ReadsInPeace == \A d \in Downloads \ met : dpc[d] = "reading" => InPeace(d)

StorageInv ==
  /\ HaveFiles /\ CopiesAlone /\ TornOrWritten
  /\ UploadStays /\ SettledInPeace /\ ReadsInPeace /\ ReadsWhole
=============================================================================
