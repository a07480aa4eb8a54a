------------------------ MODULE LocalStorage_proofs ------------------------
(***************************************************************************)
(* Proofs about one key of the local file store, for any number of uploads *)
(* and downloads and files of any size.                                    *)
(***************************************************************************)
EXTENDS LocalStorage, SequenceTheorems, TLAPS

LEMMA Numbers == Size \in Nat /\ Size > 0
BY SizeAssumption

LEMMA Names ==
  /\ Absent \notin Uploads /\ Hole \notin Uploads
  /\ \A u \in Uploads, d \in Downloads : u # d
BY HoleAssumption, CallersAssumption

-----------------------------------------------------------------------------
(* Files, and what Written does to one.                                    *)

Files == {f \in Seq(Pieces) : Len(f) <= Size}

LEMMA FunctionIsSeq ==
  ASSUME NEW S, NEW n \in Nat, NEW f \in [1..n -> S]
  PROVE  f \in Seq(S) /\ Len(f) = n
OBVIOUS

LEMMA EmptyIsFile == <<>> \in Files
BY Numbers DEF Files

(* A file with one more piece in it is a file: none is longer than Size.   *)
LEMMA WrittenIsFile ==
  ASSUME NEW f \in Files, NEW n \in 1..Size, NEW u \in Uploads
  PROVE  Written(f, n, u) \in Files
<1> DEFINE len == IF n > Len(f) THEN n ELSE Len(f)
<1>1. Len(f) \in Nat /\ len \in 0..Size /\ f \in [1..Len(f) -> Pieces]
  BY Numbers, LenProperties DEF Files
<1>2. \A k \in 1..len : (IF k = n THEN u ELSE IF k <= Len(f) THEN f[k] ELSE Hole) \in Pieces
  BY <1>1 DEF Pieces
<1>3. Written(f, n, u) \in [1..len -> Pieces]
  BY <1>2 DEF Written
<1>4. Written(f, n, u) \in Seq(Pieces) /\ Len(Written(f, n, u)) = len
  BY <1>1, <1>3, FunctionIsSeq
<1> QED
  BY <1>1, <1>4 DEF Files

(* Writing on, after what the same upload has written, leaves no hole and  *)
(* nobody else's piece.                                                    *)
LEMMA WrittenAppends ==
  ASSUME NEW n \in Nat, NEW u \in Uploads
  PROVE  Written([k \in 1..n |-> u], n + 1, u) = [k \in 1..(n + 1) |-> u]
<1> DEFINE f == [k \in 1..n |-> u]
<1>1. f \in [1..n -> Uploads]
  OBVIOUS
<1>2. Len(f) = n
  BY <1>1, FunctionIsSeq
<1> HIDE DEF f
<1>3. Written(f, n + 1, u) = [k \in 1..(n + 1) |-> IF k = n + 1 THEN u ELSE IF k <= n THEN f[k] ELSE Hole]
  BY <1>2 DEF Written
<1>4. \A k \in 1..(n + 1) : (IF k = n + 1 THEN u ELSE IF k <= n THEN f[k] ELSE Hole) = u
  BY DEF f
<1> QED
  BY <1>3, <1>4 DEF f

-----------------------------------------------------------------------------
(* Types.                                                                  *)

LEMMA TypeInit == StorageInit => StorageTypeOK
BY Numbers, EmptyIsFile DEF StorageInit, StorageTypeOK, Files

LEMMA FilesTyped == StorageTypeOK => file \in [Uploads -> Files]
BY DEF StorageTypeOK, Files

LEMMA FilesTypedPrimed == file' \in [Uploads -> Files] <=>
                            /\ file' \in [Uploads -> Seq(Pieces)]
                            /\ \A u \in Uploads : Len(file'[u]) <= Size
BY DEF Files

LEMMA TypeStep ==
  ASSUME StorageTypeOK, HaveFiles, [StorageNext]_storageVars
  PROVE  StorageTypeOK'
<1> USE Numbers DEF StorageTypeOK
<1>1. ASSUME NEW u \in Uploads, Create(u) PROVE StorageTypeOK'
  <2> DEFINE f == IF path = Absent THEN u ELSE path
  <2>1. f \in Uploads
    OBVIOUS
  <2>2. file' \in [Uploads -> Files]
    BY <1>1, <2>1, FilesTyped, EmptyIsFile DEF Create
  <2>3. path' \in Uploads /\ open' \in [Uploads \cup Downloads -> Uploads \cup {Absent}]
    BY <1>1, <2>1 DEF Create
  <2>4. upc' \in [Uploads -> {"idle", "copying", "failing", "stored", "failed", "gone"}]
    BY <1>1 DEF Create
  <2>5. met' \subseteq Uploads \cup Downloads /\ settled' = Absent
    BY <1>1 DEF Create, Busy, Reading
  <2>6. UNCHANGED <<offset, dpc, got>>
    BY <1>1 DEF Create
  <2> QED
    BY <2>2, <2>3, <2>4, <2>5, <2>6, FilesTypedPrimed
<1>2. ASSUME NEW u \in Uploads, Write(u) PROVE StorageTypeOK'
  <2>1. open[u] \in Uploads
    BY <1>2 DEF Write, HaveFiles
  <2>2. offset[u] \in Nat /\ offset[u] + 1 \in 1..Size
    BY <1>2 DEF Write
  <2>3. Written(file[open[u]], offset[u] + 1, u) \in Files
    BY <2>1, <2>2, FilesTyped, WrittenIsFile
  <2>4. file' \in [Uploads -> Files]
    BY <1>2, <2>1, <2>3, FilesTyped DEF Write
  <2>5. offset' \in [Uploads -> 0..Size]
    BY <1>2, <2>2 DEF Write
  <2> QED
    BY <1>2, <2>4, <2>5, FilesTypedPrimed DEF Write
<1>3. ASSUME NEW u \in Uploads, Stored(u) \/ Fail(u) \/ Remove(u) \/ Die(u) PROVE StorageTypeOK'
  BY <1>3 DEF Stored, Fail, Remove, Die
<1>4. ASSUME NEW d \in Downloads, Download(d) PROVE StorageTypeOK'
  BY <1>4 DEF Download
<1>5. ASSUME NEW d \in Downloads, Read(d) PROVE StorageTypeOK'
  <2> DEFINE f == file[open[d]]
             n == Len(got[d]) + 1
  <2>1. f \in Seq(Pieces) /\ Len(got[d]) \in Nat
    BY <1>5 DEF Read, HaveFiles
  <2>2. CASE n <= Len(f)
    <3>1. f[n] \in Pieces
      BY <2>1, <2>2, ElementOfSeq
    <3>2. Append(got[d], f[n]) \in Seq(Pieces)
      BY <3>1
    <3>3. /\ got' = [got EXCEPT ![d] = Append(@, f[n])]
          /\ UNCHANGED <<dpc, path, file, upc, open, offset, met, settled>>
      BY <1>5, <2>2 DEF Read
    <3> QED
      BY <3>2, <3>3
  <2>3. CASE ~(n <= Len(f))
    BY <1>5, <2>3 DEF Read
  <2> QED
    BY <2>2, <2>3
<1>6. CASE Delete
  BY <1>6 DEF Delete
<1>7. CASE UNCHANGED storageVars
  BY <1>7 DEF storageVars
<1> QED
  BY <1>1, <1>2, <1>3, <1>4, <1>5, <1>6, <1>7 DEF StorageNext

-----------------------------------------------------------------------------
(* The invariant, action by action.                                        *)

(* A download goes on in peace if its file is not written to.              *)
LEMMA PeaceKept ==
  ASSUME NEW d \in Downloads, InPeace(d), got'[d] = got[d], open'[d] = open[d],
         file'[open[d]] = file[open[d]], \A u \in Busy' : open'[u] # open[d],
         Torn(open[d]) => Torn(open[d])'
  PROVE  InPeace(d)'
<1>1. \A u \in Busy' : open'[u] # open'[d]
  OBVIOUS
<1>2. /\ Len(got'[d]) <= Len(file'[open'[d]])
      /\ \A k \in 1..Len(got'[d]) : got'[d][k] = file'[open'[d]][k]
  BY DEF InPeace
<1>3. (\E u \in Uploads : file'[open'[d]] = Whole(u)) \/ Torn(open[d])'
  BY DEF InPeace
<1> QED
  BY <1>1, <1>2, <1>3 DEF InPeace, Whole

(* A step that moves no download, writes nowhere a download reads and      *)
(* tears no file more than it is leaves the downloads as they are.         *)
LEMMA DownloadsKept ==
  ASSUME ReadsInPeace, ReadsWhole, UNCHANGED <<dpc, got>>,
         \A d \in Downloads : open'[d] = open[d],
         \A d \in Downloads \ met' : d \notin met,
         \A d \in Downloads \ met' : dpc[d] # "idle" => (Torn(open[d]) => Torn(open[d])'),
         \A d \in Downloads \ met' : dpc[d] = "reading" =>
            file'[open[d]] = file[open[d]] /\ \A u \in Busy' : open'[u] # open[d]
  PROVE  ReadsInPeace' /\ ReadsWhole'
<1>1. ASSUME NEW d \in Downloads \ met', dpc'[d] = "reading" PROVE InPeace(d)'
  <2>1. /\ InPeace(d) /\ open'[d] = open[d] /\ file'[open[d]] = file[open[d]]
        /\ \A u \in Busy' : open'[u] # open[d]
        /\ Torn(open[d]) => Torn(open[d])'
    BY <1>1 DEF ReadsInPeace
  <2> QED
    BY <2>1, PeaceKept
<1>2. ASSUME NEW d \in Downloads \ met', dpc'[d] = "done"
      PROVE  (\E u \in Uploads : got'[d] = Whole(u)) \/ Torn(open[d])'
  BY <1>2 DEF ReadsWhole, Torn
<1> QED
  BY <1>1, <1>2 DEF ReadsInPeace, ReadsWhole, Torn, Whole

LEMMA InvInit == StorageInit => StorageInv
<1> SUFFICES ASSUME StorageInit PROVE StorageInv
  OBVIOUS
<1>1. Busy = {} /\ path = Absent /\ settled = Absent
  BY DEF StorageInit, Busy
<1>2. \A d \in Downloads : dpc[d] = "idle" /\ got[d] = <<>>
  BY DEF StorageInit
<1>3. \A u \in Uploads : upc[u] = "idle" /\ offset[u] = 0 /\ open[u] = Absent
  BY DEF StorageInit
<1> QED
  BY <1>1, <1>2, <1>3 DEF StorageInv, HaveFiles, CopiesAlone, TornOrWritten, Torn, UploadStays,
                          SettledInPeace, ReadsInPeace, ReadsWhole

(* Whoever is there when an upload begins, and the upload with them, has   *)
(* met somebody from now on; otherwise it starts on an empty file.         *)
LEMMA StepCreate ==
  ASSUME StorageTypeOK, StorageInv, NEW u \in Uploads, Create(u)
  PROVE  StorageInv'
<1> DEFINE f == IF path = Absent THEN u ELSE path
<1> USE DEF StorageTypeOK
<1>1. f \in Uploads /\ f # Absent
  BY Names
<1>2. /\ path' = f /\ open' = [open EXCEPT ![u] = f] /\ file' = [file EXCEPT ![f] = <<>>]
      /\ upc' = [upc EXCEPT ![u] = "copying"]
      /\ met' = met \cup {d \in Reading : open[d] = f}
                    \cup (IF Busy = {} THEN {} ELSE Busy \cup {u})
      /\ upc[u] = "idle" /\ settled' = Absent /\ UNCHANGED <<offset, dpc, got>>
  BY DEF Create
<1>3. Busy' = Busy \cup {u}
  BY <1>2 DEF Busy
<1>4. open'[u] = f /\ \A d \in Downloads : open'[d] = open[d]
  BY <1>2, Names
<1>5. HaveFiles'
  BY <1>1, <1>2, <1>4 DEF StorageInv, HaveFiles
<1>6. CopiesAlone'
  <2> SUFFICES ASSUME NEW v \in Busy' \ met'
               PROVE  /\ Busy' = {v} /\ path' \in {open'[v], Absent}
                      /\ upc'[v] = "copying" => file'[open'[v]] = [k \in 1..offset'[v] |-> v]
    BY DEF CopiesAlone
  <2>1. Busy = {} /\ v = u
    BY <1>2, <1>3
  <2>2. offset'[u] = 0 /\ file'[f] = <<>>
    BY <1>1, <1>2 DEF StorageInv, HaveFiles
  <2>3. <<>> = [k \in 1..0 |-> u]
    OBVIOUS
  <2> QED
    BY <1>2, <1>3, <1>4, <2>1, <2>2, <2>3
<1>7. TornOrWritten'
  BY <1>2, <1>3, <1>4 DEF TornOrWritten, Torn
<1>8. UploadStays' /\ SettledInPeace'
  BY <1>2 DEF UploadStays, SettledInPeace
<1>9. \A d \in Downloads \ met' : d \notin met /\ (dpc[d] = "reading" => open[d] # f)
  BY <1>2 DEF Reading
<1>10. ReadsInPeace' /\ ReadsWhole'
  <2>1. ASSUME NEW d \in Downloads \ met', dpc[d] = "reading"
        PROVE  file'[open[d]] = file[open[d]] /\ \A v \in Busy' : open'[v] # open[d]
    <3>1. open[d] # f /\ open[d] \in Uploads /\ InPeace(d)
      BY <1>9, <2>1 DEF StorageInv, HaveFiles, ReadsInPeace
    <3> QED
      BY <1>2, <1>3, <1>4, <3>1 DEF InPeace
  <2>2. ASSUME NEW d \in Downloads \ met', dpc[d] # "idle", Torn(open[d])
        PROVE  Torn(open[d])'
    <3>1. PICK v \in Uploads : open[v] = open[d] /\ (v \in met \/ upc[v] = "gone")
      BY <2>2 DEF Torn
    <3>2. CASE v # u
      BY <1>2, <1>4, <3>1, <3>2 DEF Torn
    <3>3. CASE v = u
      BY <1>2, <2>2, <3>1, <3>3 DEF StorageInv, HaveFiles
    <3> QED
      BY <3>2, <3>3
  <2> QED
    BY <1>2, <1>4, <1>9, <2>1, <2>2, DownloadsKept DEF StorageInv
<1> QED
  BY <1>5, <1>6, <1>7, <1>8, <1>10 DEF StorageInv

(* Only a busy upload writes, so nothing that is settled and nothing that  *)
(* is read in peace is written to.                                         *)
LEMMA StepWrite ==
  ASSUME StorageTypeOK, StorageInv, NEW u \in Uploads, Write(u)
  PROVE  StorageInv'
<1> USE DEF StorageTypeOK
<1>1. /\ upc[u] = "copying" /\ offset[u] < Size /\ offset' = [offset EXCEPT ![u] = @ + 1]
      /\ file' = [file EXCEPT ![open[u]] = Written(@, offset[u] + 1, u)]
      /\ UNCHANGED <<path, upc, open, dpc, got, met, settled>>
  BY DEF Write
<1>2. u \in Busy /\ Busy' = Busy
  BY <1>1 DEF Busy
<1>3. open[u] \in Uploads /\ offset[u] \in Nat
  BY <1>1 DEF StorageInv, HaveFiles
<1>4. HaveFiles'
  BY <1>1 DEF StorageInv, HaveFiles
<1>5. CopiesAlone'
  <2> SUFFICES ASSUME NEW v \in Busy \ met
               PROVE  /\ Busy = {v} /\ path \in {open[v], Absent}
                      /\ upc[v] = "copying" => file'[open[v]] = [k \in 1..offset'[v] |-> v]
    BY <1>1, <1>2 DEF CopiesAlone
  <2>1. Busy = {v} /\ path \in {open[v], Absent}
    BY DEF StorageInv, CopiesAlone
  <2>2. v = u
    BY <1>2, <2>1
  <2>3. file[open[u]] = [k \in 1..offset[u] |-> u]
    BY <1>1, <2>2 DEF StorageInv, CopiesAlone
  <2>4. file'[open[u]] = [k \in 1..(offset[u] + 1) |-> u]
    <3>1. file'[open[u]] = Written(file[open[u]], offset[u] + 1, u)
      BY <1>1, <1>3
    <3>2. Written([k \in 1..offset[u] |-> u], offset[u] + 1, u) = [k \in 1..(offset[u] + 1) |-> u]
      BY <1>3, WrittenAppends
    <3> QED
      BY <2>3, <3>1, <3>2
  <2>5. offset'[u] = offset[u] + 1
    BY <1>1
  <2> QED
    BY <2>1, <2>2, <2>4, <2>5
<1>6. TornOrWritten'
  <2>1. CASE open[u] = path
    BY <1>1, <1>2, <2>1 DEF TornOrWritten, Torn
  <2>2. CASE open[u] # path
    <3>1. path \in Uploads => file'[path] = file[path]
      BY <1>1, <2>2
    <3> QED
      BY <1>1, <1>2, <3>1 DEF StorageInv, TornOrWritten, Torn, Whole
  <2> QED
    BY <2>1, <2>2
<1>7. UploadStays' /\ SettledInPeace'
  BY <1>1, <1>2 DEF StorageInv, SettledInPeace, UploadStays
<1>8. ReadsInPeace' /\ ReadsWhole'
  <2>1. ASSUME NEW d \in Downloads \ met, dpc[d] = "reading"
        PROVE  file'[open[d]] = file[open[d]] /\ \A v \in Busy : open[v] # open[d]
    <3>1. open[u] # open[d] /\ open[d] \in Uploads /\ \A v \in Busy : open[v] # open[d]
      BY <1>2, <2>1 DEF StorageInv, ReadsInPeace, InPeace, HaveFiles
    <3> QED
      BY <1>1, <1>3, <3>1
  <2>2. \A d \in Downloads : Torn(open[d]) => Torn(open[d])'
    BY <1>1 DEF Torn
  <2> QED
    BY <1>1, <1>2, <2>1, <2>2, DownloadsKept DEF StorageInv
<1> QED
  BY <1>4, <1>5, <1>6, <1>7, <1>8 DEF StorageInv

(* An upload ends with a whole file, or has met somebody who tore it.      *)
LEMMA StepStored ==
  ASSUME StorageTypeOK, StorageInv, NEW u \in Uploads, Stored(u)
  PROVE  StorageInv'
<1> USE DEF StorageTypeOK
<1>1. /\ upc[u] = "copying" /\ offset[u] = Size /\ upc' = [upc EXCEPT ![u] = "stored"]
      /\ settled' = IF u \notin met /\ path = open[u] THEN u ELSE settled
      /\ UNCHANGED <<path, file, open, offset, dpc, got, met>>
  BY DEF Stored, Complete
<1>2. u \in Busy /\ Busy' = Busy \ {u}
  BY <1>1 DEF Busy
<1>3. u \notin met => Busy' = {} /\ file[open[u]] = Whole(u) /\ open[u] # Absent
  BY <1>1, <1>2 DEF StorageInv, CopiesAlone, HaveFiles, Whole
<1>4. settled = Absent
  BY <1>2 DEF StorageInv, SettledInPeace
<1>5. HaveFiles'
  BY <1>1 DEF StorageInv, HaveFiles
<1>6. CopiesAlone'
  BY <1>1, <1>2 DEF StorageInv, CopiesAlone
<1>7. TornOrWritten'
  <2> SUFFICES ASSUME path # Absent, ~Torn(path)'
               PROVE  (\E v \in Busy' : open[v] = path) \/ (\E v \in Uploads : file[path] = Whole(v))
    BY <1>1 DEF TornOrWritten, Torn, Whole
  <2>1. ~Torn(path)
    BY <1>1 DEF Torn
  <2>2. CASE open[u] = path
    BY <1>3, <2>1, <2>2 DEF Torn
  <2>3. CASE open[u] # path
    BY <1>2, <2>1, <2>3 DEF StorageInv, TornOrWritten, Torn
  <2> QED
    BY <2>2, <2>3
<1>8. UploadStays'
  BY <1>1, <1>3, <1>4 DEF UploadStays, Whole
<1>9. SettledInPeace'
  BY <1>1, <1>3, <1>4 DEF SettledInPeace
<1>10. ReadsInPeace' /\ ReadsWhole'
  <2>1. \A d \in Downloads : Torn(open[d]) => Torn(open[d])'
    BY <1>1 DEF Torn
  <2>2. \A d \in Downloads \ met : dpc[d] = "reading" => \A v \in Busy' : open[v] # open[d]
    BY <1>2 DEF StorageInv, ReadsInPeace, InPeace
  <2> QED
    BY <1>1, <2>1, <2>2, DownloadsKept DEF StorageInv
<1> QED
  BY <1>5, <1>6, <1>7, <1>8, <1>9, <1>10 DEF StorageInv

LEMMA StepFail ==
  ASSUME StorageTypeOK, StorageInv, NEW u \in Uploads, Fail(u)
  PROVE  StorageInv'
<1> USE DEF StorageTypeOK
<1>1. /\ upc[u] = "copying" /\ upc' = [upc EXCEPT ![u] = "failing"]
      /\ UNCHANGED <<path, file, open, offset, dpc, got, met, settled>>
  BY DEF Fail
<1>2. Busy' = Busy
  BY <1>1 DEF Busy
<1>3. \A v \in Uploads : /\ upc'[v] = "copying" => upc[v] = "copying"
                         /\ upc'[v] = "gone" <=> upc[v] = "gone"
                         /\ upc'[v] = "idle" <=> upc[v] = "idle"
  BY <1>1
<1>4. HaveFiles'
  BY <1>1, <1>3 DEF StorageInv, HaveFiles
<1>5. CopiesAlone'
  BY <1>1, <1>2, <1>3 DEF StorageInv, CopiesAlone, Busy
<1>6. TornOrWritten'
  BY <1>1, <1>2, <1>3 DEF StorageInv, TornOrWritten, Torn, Whole
<1>7. UploadStays' /\ SettledInPeace'
  BY <1>1, <1>2 DEF StorageInv, UploadStays, SettledInPeace, Whole
<1>8. ReadsInPeace' /\ ReadsWhole'
  <2>1. \A d \in Downloads : Torn(open[d]) => Torn(open[d])'
    BY <1>1, <1>3 DEF Torn
  <2>2. \A d \in Downloads \ met : dpc[d] = "reading" => \A v \in Busy' : open[v] # open[d]
    BY <1>2 DEF StorageInv, ReadsInPeace, InPeace
  <2> QED
    BY <1>1, <2>1, <2>2, DownloadsKept DEF StorageInv
<1> QED
  BY <1>4, <1>5, <1>6, <1>7, <1>8 DEF StorageInv

(* A busy upload leaves, with the path or without.                         *)
LEMMA StepLeave ==
  ASSUME StorageTypeOK, StorageInv, NEW u \in Uploads, Remove(u) \/ Die(u)
  PROVE  StorageInv'
<1> USE DEF StorageTypeOK
<1>1. /\ u \in Busy /\ \E place \in {"failed", "gone"} : upc' = [upc EXCEPT ![u] = place]
      /\ UNCHANGED <<file, open, offset, dpc, got, met, settled>>
  BY DEF Remove, Die, Busy
<1>2. Busy' = Busy \ {u}
  BY <1>1 DEF Busy
<1>3. settled = Absent
  BY <1>1 DEF StorageInv, SettledInPeace
<1>4. HaveFiles'
  BY <1>1 DEF StorageInv, HaveFiles, Busy
<1>5. CopiesAlone'
  BY <1>1, <1>2 DEF StorageInv, CopiesAlone
<1>6. TornOrWritten'
  <2>1. CASE Remove(u)
    BY <2>1 DEF Remove, TornOrWritten, Torn
  <2>2. CASE Die(u)
    <3>1. path' = path /\ upc' = [upc EXCEPT ![u] = "gone"]
      BY <2>2 DEF Die
    <3> SUFFICES ASSUME path # Absent, ~Torn(path)'
                 PROVE  (\E v \in Busy' : open[v] = path) \/ (\E v \in Uploads : file[path] = Whole(v))
      BY <1>1, <3>1 DEF TornOrWritten, Torn, Whole
    <3>2. open[u] # path
      BY <1>1, <3>1 DEF Torn
    <3>3. ~Torn(path)
      BY <1>1, <3>1 DEF Torn
    <3> QED
      BY <1>2, <3>2, <3>3 DEF StorageInv, TornOrWritten, Torn
  <2> QED
    BY <2>1, <2>2
<1>7. UploadStays' /\ SettledInPeace'
  BY <1>1, <1>3 DEF StorageInv, UploadStays, SettledInPeace
<1>8. ReadsInPeace' /\ ReadsWhole'
  <2>1. \A d \in Downloads : Torn(open[d]) => Torn(open[d])'
    BY <1>1 DEF Torn, Busy
  <2>2. \A d \in Downloads \ met : dpc[d] = "reading" => \A v \in Busy' : open[v] # open[d]
    BY <1>2 DEF StorageInv, ReadsInPeace, InPeace
  <2> QED
    BY <1>1, <2>1, <2>2, DownloadsKept DEF StorageInv
<1> QED
  BY <1>4, <1>5, <1>6, <1>7, <1>8 DEF StorageInv

LEMMA StepDelete ==
  ASSUME StorageTypeOK, StorageInv, Delete
  PROVE  StorageInv'
<1>1. /\ path' = Absent /\ settled' = Absent
      /\ UNCHANGED <<file, upc, open, offset, dpc, got, met>>
  BY DEF Delete
<1>2. Busy' = Busy
  BY <1>1 DEF Busy
<1>3. HaveFiles' /\ TornOrWritten' /\ UploadStays' /\ SettledInPeace'
  BY <1>1 DEF StorageInv, HaveFiles, TornOrWritten, Torn, UploadStays, SettledInPeace
<1>4. CopiesAlone'
  BY <1>1, <1>2 DEF StorageInv, CopiesAlone
<1>5. ReadsInPeace' /\ ReadsWhole'
  <2>1. \A d \in Downloads : Torn(open[d]) => Torn(open[d])'
    BY <1>1 DEF Torn
  <2>2. \A d \in Downloads \ met : dpc[d] = "reading" => \A v \in Busy' : open[v] # open[d]
    BY <1>2 DEF StorageInv, ReadsInPeace, InPeace
  <2> QED
    BY <1>1, <2>1, <2>2, DownloadsKept DEF StorageInv
<1> QED
  BY <1>3, <1>4, <1>5 DEF StorageInv

LEMMA StepDownload ==
  ASSUME StorageTypeOK, StorageInv, NEW d \in Downloads, Download(d)
  PROVE  StorageInv'
<1> USE DEF StorageTypeOK
<1>1. /\ dpc[d] = "idle" /\ path # Absent /\ dpc' = [dpc EXCEPT ![d] = "reading"]
      /\ open' = [open EXCEPT ![d] = path]
      /\ met' = IF \E u \in Busy : open[u] = path THEN met \cup {d} ELSE met
      /\ UNCHANGED <<path, file, upc, offset, got, settled>>
  BY DEF Download
<1>2. Busy' = Busy
  BY <1>1 DEF Busy
<1>3. \A u \in Uploads : open'[u] = open[u] /\ (u \in met' <=> u \in met)
  BY <1>1, Names
<1>4. got[d] = <<>> /\ open'[d] = path
  BY <1>1 DEF StorageInv, HaveFiles
<1>5. HaveFiles'
  BY <1>1, <1>3, <1>4 DEF StorageInv, HaveFiles
<1>6. CopiesAlone'
  BY <1>1, <1>2, <1>3 DEF StorageInv, CopiesAlone, Busy
<1>7. TornOrWritten'
  BY <1>1, <1>2, <1>3 DEF StorageInv, TornOrWritten, Torn, Whole, Busy
<1>8. UploadStays' /\ SettledInPeace'
  BY <1>1, <1>2 DEF StorageInv, UploadStays, SettledInPeace, Whole
<1>9. ReadsInPeace'
  <2> SUFFICES ASSUME NEW e \in Downloads \ met', dpc'[e] = "reading"
               PROVE  InPeace(e)'
    BY DEF ReadsInPeace
  <2>1. CASE e = d
    <3>1. \A u \in Busy : open[u] # path
      BY <1>1, <2>1
    <3>2. file[path] \in Seq(Pieces) /\ Len(file[path]) \in Nat /\ Len(got[e]) = 0
      BY <1>1, <1>4, <2>1, EmptySeq, LenProperties
    <3>3. (\E u \in Uploads : file[path] = Whole(u)) \/ Torn(path)
      BY <1>1, <3>1 DEF StorageInv, TornOrWritten, Torn
    <3>4. Torn(path) => Torn(open[e])'
      BY <1>1, <1>3, <1>4, <2>1 DEF Torn
    <3> QED
      <4>1. open'[e] = path /\ file' = file /\ got'[e] = <<>> /\ Len(got'[e]) = 0
        BY <1>1, <1>4, <2>1, EmptySeq
      <4>2. \A u \in Busy' : open'[u] # open'[e]
        BY <1>2, <1>3, <3>1, <4>1 DEF Busy
      <4>3. /\ Len(got'[e]) <= Len(file'[open'[e]])
            /\ \A k \in 1..Len(got'[e]) : got'[e][k] = file'[open'[e]][k]
        BY <3>2, <4>1
      <4>4. (\E u \in Uploads : file'[open'[e]] = Whole(u)) \/ Torn(open[e])'
        BY <3>3, <3>4, <4>1
      <4> QED
        BY <4>2, <4>3, <4>4 DEF InPeace, Whole
  <2>2. CASE e # d
    <3>1. open'[e] = open[e] /\ InPeace(e)
      BY <1>1, <2>2 DEF StorageInv, ReadsInPeace
    <3>2. Torn(open[e]) => Torn(open[e])'
      BY <1>1, <1>3, <3>1 DEF Torn
    <3>3. \A u \in Busy' : open'[u] # open[e]
      BY <1>2, <1>3, <3>1 DEF InPeace, Busy
    <3> QED
      BY <1>1, <3>1, <3>2, <3>3, PeaceKept
  <2> QED
    BY <2>1, <2>2
<1>10. ReadsWhole'
  <2> SUFFICES ASSUME NEW e \in Downloads \ met', dpc'[e] = "done"
               PROVE  (\E u \in Uploads : got[e] = Whole(u)) \/ Torn(open[e])'
    BY <1>1 DEF ReadsWhole, Whole
  <2>1. e # d /\ dpc[e] = "done" /\ open'[e] = open[e] /\ e \notin met
    BY <1>1
  <2>2. Torn(open[e]) => Torn(open[e])'
    BY <1>1, <1>3, <2>1 DEF Torn
  <2> QED
    BY <2>1, <2>2 DEF StorageInv, ReadsWhole
<1> QED
  BY <1>5, <1>6, <1>7, <1>8, <1>9, <1>10 DEF StorageInv

(* A read appends the next piece of what was there, or ends after the last.*)
LEMMA StepRead ==
  ASSUME StorageTypeOK, StorageInv, NEW d \in Downloads, Read(d)
  PROVE  StorageInv'
<1> USE DEF StorageTypeOK
<1> DEFINE f == file[open[d]]
           n == Len(got[d]) + 1
<1>1. /\ dpc[d] = "reading"
      /\ UNCHANGED <<path, file, upc, open, offset, met, settled>>
  BY DEF Read
<1>2. Busy' = Busy
  BY <1>1 DEF Busy
<1>3. open[d] \in Uploads
  BY <1>1 DEF StorageInv, HaveFiles
<1>4. f \in Seq(Pieces) /\ Len(f) \in Nat /\ Len(got[d]) \in Nat
  BY <1>3, LenProperties
<1>5. \/ n <= Len(f) /\ got' = [got EXCEPT ![d] = Append(@, f[n])] /\ dpc' = dpc
      \/ n > Len(f) /\ dpc' = [dpc EXCEPT ![d] = "done"] /\ got' = got
  BY <1>4 DEF Read
<1>6. HaveFiles'
  BY <1>1, <1>5 DEF StorageInv, HaveFiles
<1>7. CopiesAlone'
  BY <1>1, <1>2 DEF StorageInv, CopiesAlone
<1>8. TornOrWritten'
  BY <1>1, <1>2 DEF StorageInv, TornOrWritten, Torn, Whole
<1>9. UploadStays' /\ SettledInPeace'
  BY <1>1, <1>2 DEF StorageInv, UploadStays, SettledInPeace, Whole
<1>10. \A e \in Downloads \ {d} : dpc'[e] = dpc[e] /\ got'[e] = got[e]
  BY <1>5
<1>11. ReadsInPeace'
  <2> SUFFICES ASSUME NEW e \in Downloads \ met, dpc'[e] = "reading"
               PROVE  InPeace(e)'
    BY <1>1 DEF ReadsInPeace
  <2> USE <1>1, <1>2
  <2>1. CASE e = d
    <3>1. /\ \A u \in Busy : open[u] # open[d]
          /\ \A k \in 1..Len(got[d]) : got[d][k] = f[k]
          /\ (\E u \in Uploads : f = Whole(u)) \/ Torn(open[d])
      BY <2>1 DEF StorageInv, ReadsInPeace, InPeace
    <3>2. n <= Len(f) /\ got'[d] = Append(got[d], f[n])
      BY <1>5, <2>1
    <3>3. f[n] \in Pieces
      BY <1>4, <3>2, ElementOfSeq
    <3>4. /\ Len(got'[d]) = n /\ got'[d][n] = f[n]
          /\ \A k \in 1..Len(got[d]) : got'[d][k] = got[d][k]
      BY <3>2, <3>3, <1>4
    <3>5. ASSUME NEW k \in 1..n PROVE got'[d][k] = f[k]
      <4>1. k = n \/ k \in 1..Len(got[d])
        BY <1>4, <3>5
      <4> QED
        BY <3>1, <3>4, <4>1
    <3>6. Torn(open[d]) => Torn(open[d])'
      BY DEF Torn
    <3> QED
      <4>1. open'[e] = open[d] /\ file' = file /\ Busy' = Busy /\ open' = open
        BY <1>1, <1>2, <2>1
      <4>2. \A u \in Busy' : open'[u] # open'[e]
        BY <3>1, <4>1
      <4>3. /\ Len(got'[e]) <= Len(file'[open'[e]])
            /\ \A k \in 1..Len(got'[e]) : got'[e][k] = file'[open'[e]][k]
        BY <2>1, <3>2, <3>4, <3>5, <4>1
      <4>4. (\E u \in Uploads : file'[open'[e]] = Whole(u)) \/ Torn(open[e])'
        BY <2>1, <3>1, <3>6, <4>1
      <4> QED
        BY <4>2, <4>3, <4>4 DEF InPeace, Whole
  <2>2. CASE e # d
    <3>1. InPeace(e) /\ got'[e] = got[e] /\ (Torn(open[e]) => Torn(open[e])')
      BY <1>10, <2>2 DEF StorageInv, ReadsInPeace, Torn
    <3>2. \A u \in Busy' : open'[u] # open[e]
      BY <3>1 DEF InPeace
    <3> QED
      BY <3>1, <3>2, PeaceKept
  <2> QED
    BY <2>1, <2>2
<1>12. ReadsWhole'
  <2> SUFFICES ASSUME NEW e \in Downloads \ met, dpc'[e] = "done"
               PROVE  (\E u \in Uploads : got'[e] = Whole(u)) \/ Torn(open[e])
    BY <1>1 DEF ReadsWhole, Torn, Whole
  <2>1. CASE e = d
    <3>1. n > Len(f) /\ got'[d] = got[d]
      BY <1>1, <1>5, <2>1
    <3>2. /\ Len(got[d]) <= Len(f)
          /\ \A k \in 1..Len(got[d]) : got[d][k] = f[k]
          /\ (\E u \in Uploads : f = Whole(u)) \/ Torn(open[d])
      BY <1>1, <2>1 DEF StorageInv, ReadsInPeace, InPeace
    <3>3. Len(got[d]) = Len(f)
      BY <1>4, <3>1, <3>2
    <3>4. got[d] \in Seq(Pieces)
      OBVIOUS
    <3>5. got[d] = f
      BY <1>4, <3>2, <3>3, <3>4, SeqEqual
    <3> QED
      BY <2>1, <3>1, <3>2, <3>5
  <2>2. CASE e # d
    BY <1>10, <2>2 DEF StorageInv, ReadsWhole
  <2> QED
    BY <2>1, <2>2
<1> QED
  BY <1>6, <1>7, <1>8, <1>9, <1>11, <1>12 DEF StorageInv

LEMMA InvStep ==
  ASSUME StorageTypeOK, StorageInv, [StorageNext]_storageVars
  PROVE  StorageInv'
<1>1. CASE UNCHANGED storageVars
  <2>1. Busy' = Busy
    BY <1>1 DEF storageVars, Busy
  <2>2. HaveFiles' /\ CopiesAlone' /\ TornOrWritten' /\ UploadStays' /\ SettledInPeace'
    BY <1>1, <2>1 DEF storageVars, StorageInv, HaveFiles, CopiesAlone, TornOrWritten, Torn, UploadStays,
                      SettledInPeace, Whole
  <2>3. ReadsInPeace' /\ ReadsWhole'
    <3>1. \A d \in Downloads : Torn(open[d]) => Torn(open[d])'
      BY <1>1 DEF storageVars, Torn
    <3>2. \A d \in Downloads \ met : dpc[d] = "reading" => \A u \in Busy' : open[u] # open[d]
      BY <2>1 DEF StorageInv, ReadsInPeace, InPeace
    <3> QED
      BY <1>1, <3>1, <3>2, DownloadsKept DEF storageVars, StorageInv
  <2> QED
    BY <2>2, <2>3 DEF StorageInv
<1>2. CASE StorageNext
  BY <1>2, StepCreate, StepWrite, StepStored, StepFail, StepLeave, StepDelete, StepDownload, StepRead
     DEF StorageNext
<1> QED
  BY <1>1, <1>2

(* Types and invariant: whoever has met nobody works in peace.             *)
THEOREM StorageInvariant == StorageSpec => [](StorageTypeOK /\ StorageInv)
<1>1. StorageInit => StorageTypeOK /\ StorageInv
  BY TypeInit, InvInit
<1>2. StorageTypeOK /\ StorageInv /\ [StorageNext]_storageVars => (StorageTypeOK /\ StorageInv)'
  <2>1. StorageInv => HaveFiles
    BY DEF StorageInv
  <2> QED
    BY <2>1, TypeStep, InvStep
<1> QED
  BY <1>1, <1>2, PTL DEF StorageSpec

-----------------------------------------------------------------------------
(* The properties.                                                         *)

(* Overlapping uploads and a death in one are all that tears a file.       *)
THEOREM TornHasCauseHolds == StorageSpec => []TornHasCause
<1>1. StorageInv => TornHasCause
  BY DEF StorageInv, TornOrWritten, Torn, TornHasCause
<1> QED
  BY <1>1, StorageInvariant, PTL

(* What an Upload that met no other has stored stays the key's content.    *)
THEOREM UploadStaysHolds == StorageSpec => []UploadStays
<1>1. StorageInv => UploadStays
  BY DEF StorageInv
<1> QED
  BY <1>1, StorageInvariant, PTL

(* A Download that no upload of its file got in the way of reads one       *)
(* upload's content, all of it, unless the file was torn before.           *)
THEOREM ReadsWholeHolds == StorageSpec => []ReadsWhole
<1>1. StorageInv => ReadsWhole
  BY DEF StorageInv
<1> QED
  BY <1>1, StorageInvariant, PTL
=============================================================================
