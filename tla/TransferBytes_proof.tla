-------------------------- MODULE TransferBytes_proof --------------------------
(***************************************************************************)
(* Proofs about the bytes TransferPipeline moves: what a download gets,    *)
(* and what the objects have when all is done.  They rest on the lemmas of *)
(* TransferPipeline_proof.                                                 *)
(***************************************************************************)
EXTENDS TransferPipeline_proof

(***************************************************************************)
(* What a step does to each part of the state.                             *)
(***************************************************************************)
Waits(u)  == u \in Elements(queue) \cup Elements(inbox)
Pushed(u) == Waits(u) \/ u = job.msg

LEMMA PcChanges ==
  ASSUME TypeOK, [Next]_vars, NEW u \in Uploads
  PROVE  \/ pc'[u] = pc[u]
         \/ Upload(u) \/ UploadFails(u)
         \/ UploadCrash /\ pc[u] # "idle" /\ pc'[u] = "gone"
<1>1. ASSUME NEW v \in Uploads \ {u}, Upload(v) \/ UploadFails(v)
      PROVE  pc'[u] = pc[u]
  BY <1>1 DEF Upload, UploadFails, CreateFile, WriteFile, FileFails, PublishJob,
     RegisterFile, RegisterUserFile, SessionFails, FindFile, Goto, TypeOK
<1>2. CASE UploadCrash
  BY <1>2 DEF UploadCrash, UploadSteps
<1>3. CASE UNCHANGED pc
  BY <1>3
<1> QED
  BY <1>1, <1>2, <1>3
     DEF Next, Deliver, Transfer, TakeJob, ReadHead, PutObject, PutFails,
         UpdateLocation, ReportJob, Download, ReadRow, DownloadURL, RangeDownload,
         ReadRowFails, Fetch, FetchFails, TransferCrash, vars

\* An upload that has touched a file has touched it for good.
LEMMA StartedGrows ==
  ASSUME TypeOK, [Next]_vars
  PROVE  Started \subseteq Started'
<1> SUFFICES ASSUME NEW u \in Uploads, pc[u] # "idle" PROVE pc'[u] # "idle"
  BY DEF Started
<1>1. CASE Upload(u) \/ UploadFails(u)
  BY <1>1 DEF Upload, UploadFails, CreateFile, WriteFile, FileFails, PublishJob,
     RegisterFile, RegisterUserFile, SessionFails, FindFile, Goto, After, TypeOK
<1> QED BY <1>1, PcChanges

\* Hence what is said of all uploads that have touched a file was true before.
LEMMA NamesBefore ==
  ASSUME TypeOK, [Next]_vars, NEW h \in Hashes
  PROVE  /\ WrittenOnce(h)' => WrittenOnce(h)
         /\ OwnName(h)' => OwnName(h)
BY StartedGrows DEF WrittenOnce, OwnName

LEMMA LocalChanges ==
  ASSUME TypeOK, [Next]_vars, NEW h \in Hashes, local'[h] # local[h]
  PROVE  \E u \in Uploads :
           /\ HashOf[u] = h
           /\ \/ CreateFile(u)
              \/ WriteFile(u) /\ local'[h] = "all"
<1>1. ASSUME NEW u \in Uploads, CreateFile(u) PROVE HashOf[u] = h
  BY <1>1 DEF CreateFile, TypeOK
<1>2. ASSUME NEW u \in Uploads, WriteFile(u)
      PROVE  HashOf[u] = h /\ local'[h] = "all"
  BY <1>2 DEF WriteFile, TypeOK
<1> QED
  BY <1>1, <1>2
     DEF Next, Upload, UploadFails, FileFails, PublishJob, RegisterFile,
         RegisterUserFile, SessionFails, FindFile, Deliver, Transfer, TakeJob,
         ReadHead, PutObject, PutFails, UpdateLocation, ReportJob, Download, ReadRow,
         DownloadURL, RangeDownload, ReadRowFails, Fetch, FetchFails, UploadCrash, TransferCrash, vars

LEMMA OssChanges ==
  ASSUME TypeOK, [Next]_vars, NEW n \in Names, oss'[n] # oss[n]
  PROVE  PutObject /\ job.msg \in Uploads /\ n = NameOf[job.msg]
<1>1. CASE PutObject
  <2>1. job.msg \in Uploads
    BY <1>1, PipelineAssumption DEF PutObject, TypeOK
  <2> QED BY <1>1, <2>1 DEF PutObject, TypeOK
<1> QED
  BY <1>1
     DEF Next, Upload, UploadFails, CreateFile, WriteFile, FileFails, PublishJob,
         RegisterFile, RegisterUserFile, SessionFails, FindFile, Deliver, Transfer,
         TakeJob, ReadHead, PutFails, UpdateLocation, ReportJob, Download, ReadRow,
         DownloadURL, RangeDownload, ReadRowFails, Fetch, FetchFails, UploadCrash, TransferCrash, vars

\* The object PutObject makes.
LEMMA ObjectPut ==
  ASSUME TypeOK, PutObject
  PROVE  /\ job.msg \in Uploads
         /\ job'.msg = job.msg /\ job'.at = "update"
         /\ \E b \in BOOLEAN :
              /\ b <=> job.all /\ local[HashOf[job.msg]] = "all"
              /\ oss'[NameOf[job.msg]] = [hash |-> HashOf[job.msg], all |-> b]
<1>1. job.msg \in Uploads
  BY PipelineAssumption DEF PutObject, TypeOK
<1>2. job'.msg = job.msg /\ job'.at = "update"
  BY DEF PutObject, TypeOK
<1>3. PICK b \in BOOLEAN : b = (job.all /\ local[HashOf[job.msg]] = "all")
  OBVIOUS
<1>4. oss' = [oss EXCEPT ![NameOf[job.msg]] = [hash |-> HashOf[job.msg], all |-> b]]
  BY <1>3 DEF PutObject
<1>5. oss'[NameOf[job.msg]] = [hash |-> HashOf[job.msg], all |-> b]
  BY <1>1, <1>4, PipelineAssumption DEF TypeOK
<1> QED BY <1>1, <1>2, <1>3, <1>5

LEMMA JobChanges ==
  ASSUME TypeOK, [Next]_vars
  PROVE  /\ job'.msg \in {job.msg, None} \/ TakeJob
         /\ job'.at = "head" => job' = job \/ TakeJob
         /\ job'.at = "tail" => job' = job \/ ReadHead
         /\ job'.at = "update" => job' = job \/ PutObject
<1>1. CASE TakeJob
  <2>1. job'.at \in {"head", "report"}
    BY <1>1 DEF TakeJob
  <2> QED BY <1>1, <2>1
<1>2. CASE ReadHead
  <2>1. job'.msg = job.msg /\ job'.at = "tail"
    BY <1>2 DEF ReadHead, TypeOK
  <2> QED BY <1>2, <2>1
<1>3. CASE PutObject
  BY <1>3, ObjectPut
<1>4. CASE PutFails \/ UpdateLocation
  <2>1. job' = Idle \/ (job'.msg = job.msg /\ job'.at = "report")
    BY <1>4 DEF PutFails, UpdateLocation, TypeOK
  <2> QED BY <2>1 DEF Idle
<1>5. CASE ReportJob \/ TransferCrash
  BY <1>5 DEF ReportJob, TransferCrash, Idle
<1>6. CASE UNCHANGED job
  BY <1>6
<1> QED
  BY <1>1, <1>2, <1>3, <1>4, <1>5, <1>6
     DEF Next, Upload, UploadFails, CreateFile, WriteFile, FileFails, PublishJob,
         RegisterFile, RegisterUserFile, SessionFails, FindFile, Deliver, Transfer,
         Download, ReadRow, DownloadURL, RangeDownload, ReadRowFails, Fetch, FetchFails,
         UploadCrash, vars, transfer

LEMMA RowFrom ==
  ASSUME TypeOK, [Next]_vars, NEW h \in Hashes, row'[h] # row[h]
  PROVE  \/ \E u \in Uploads : RegisterFile(u) /\ HashOf[u] = h /\ row'[h] = "local"
         \/ /\ UpdateLocation /\ job.msg \in Uploads
            /\ HashOf[job.msg] = h /\ row'[h] = NameOf[job.msg]
<1> USE PipelineAssumption
<1>0. row \in [Hashes -> Names \cup {None, "local"}]
  BY DEF TypeOK
<1>1. ASSUME NEW u \in Uploads, RegisterFile(u)
      PROVE  HashOf[u] = h /\ row'[h] = "local"
  <2>1. row' = row \/ row' = [row EXCEPT ![HashOf[u]] = "local"]
    BY <1>1 DEF RegisterFile
  <2> QED BY <1>0, <2>1
<1>2. CASE UpdateLocation
  <2>1. job.msg \in Uploads
    BY <1>2 DEF UpdateLocation, TypeOK
  <2>2. row' = row \/ row' = [row EXCEPT ![HashOf[job.msg]] = NameOf[job.msg]]
    BY <1>2 DEF UpdateLocation
  <2> QED BY <1>0, <1>2, <2>1, <2>2
<1> QED
  BY <1>1, <1>2
     DEF Next, Upload, UploadFails, CreateFile, WriteFile, FileFails, PublishJob,
         RegisterUserFile, SessionFails, FindFile, Deliver, Transfer, TakeJob,
         ReadHead, PutObject, PutFails, ReportJob, Download, ReadRow,
         DownloadURL, RangeDownload, ReadRowFails, Fetch, FetchFails, UploadCrash, TransferCrash, vars, tables

\* Only PublishJob makes a message.
LEMMA WaitsFrom ==
  ASSUME TypeOK, [Next]_vars, NEW u \in Uploads, Waits(u)'
  PROVE  Waits(u) \/ PublishJob(u)
<1> USE DEF Waits
<1>1. ASSUME NEW v \in Uploads, PublishJob(v) PROVE Waits(u) \/ PublishJob(u)
  <2>1. queue' = Append(queue, v) \/ queue' = queue
    BY <1>1 DEF PublishJob
  <2>2. Elements(queue') \subseteq Elements(queue) \cup {v}
    <3>1. queue \in Seq(Uploads)
      BY DEF TypeOK
    <3>2. Elements(Append(queue, v)) = Elements(queue) \cup {v}
      BY <3>1, ElementsOfAppend
    <3> QED BY <2>1, <3>2
  <2> QED BY <1>1, <2>2 DEF PublishJob
<1>2. CASE Deliver
  <2>1. /\ Elements(inbox') = Elements(inbox) \cup {Head(queue)}
        /\ Elements(queue) = {Head(queue)} \cup Elements(queue')
    BY <1>2, ElementsOfAppend, ElementsOfTail DEF Deliver, TypeOK
  <2> QED BY <2>1
<1>3. CASE TakeJob
  <2>1. Elements(inbox) = {Head(inbox)} \cup Elements(inbox')
    BY <1>3, ElementsOfTail DEF TakeJob, TypeOK
  <2> QED BY <1>3, <2>1 DEF TakeJob
<1>4. CASE TransferCrash
  <2>1. Elements(<<>>) = {}
    BY DEF Elements
  <2> QED BY <1>4, <2>1 DEF TransferCrash
<1>5. CASE UNCHANGED <<queue, inbox>>
  BY <1>5
<1> QED
  BY <1>1, <1>2, <1>3, <1>4, <1>5
     DEF Next, Upload, UploadFails, CreateFile, WriteFile, FileFails,
         RegisterFile, RegisterUserFile, SessionFails, FindFile, Transfer,
         ReadHead, PutObject, PutFails, UpdateLocation, ReportJob,
         Download, ReadRow, DownloadURL, RangeDownload, ReadRowFails, Fetch, FetchFails,
         UploadCrash, vars, broker

LEMMA PushedFrom ==
  ASSUME TypeOK, [Next]_vars, NEW u \in Uploads, Pushed(u)'
  PROVE  Pushed(u) \/ PublishJob(u)
<1>1. CASE Waits(u)'
  BY <1>1, WaitsFrom DEF Pushed
<1>2. CASE u = job'.msg
  <2>1. CASE TakeJob
    <3>1. job'.msg = Head(inbox)
      BY <2>1 DEF TakeJob
    <3>2. Head(inbox) \in Elements(inbox)
      BY <2>1, ElementsOfTail DEF TakeJob, TypeOK
    <3> QED BY <1>2, <3>1, <3>2 DEF Pushed, Waits
  <2>2. CASE job'.msg \in {job.msg, None}
    BY <1>2, <2>2, PipelineAssumption DEF Pushed
  <2> QED BY <2>1, <2>2, JobChanges
<1> QED BY <1>1, <1>2 DEF Pushed

\* A download reads its row and then the address, and is over.
LEMMA DownChanges ==
  ASSUME TypeOK, [Next]_vars, NEW d \in Downloads, down'[d] # down[d]
  PROVE  \/ /\ down'[d].at = "fetch" /\ down'[d].got = "nothing"
            /\ \/ down'[d].addr = "guess"
               \/ /\ row[WantedBy[d]] # None
                  /\ down'[d].addr \in {"local", row[WantedBy[d]]}
         \/ /\ down[d].at = "idle" /\ down'[d].at = "over"
            /\ down'[d].got = down[d].got
         \/ /\ down[d].at = "fetch" /\ down'[d].at = "over"
            /\ down'[d].addr = down[d].addr
            /\ \/ down'[d].got = Contents(down[d].addr, WantedBy[d])
               \/ down'[d].got = "error" /\ Fault("fetch")
<1> USE DEF TypeOK, ReadFrom
<1>1. ASSUME NEW e \in Downloads, Download(e) PROVE e = d
  BY <1>1 DEF Download, ReadRow, DownloadURL, RangeDownload, ReadRowFails, Fetch, FetchFails
<1>2. CASE ReadRow(d)       BY <1>2 DEF ReadRow
<1>3. CASE DownloadURL(d)
  BY <1>3, PipelineAssumption DEF DownloadURL
<1>4. CASE RangeDownload(d) BY <1>4 DEF RangeDownload
<1>5. CASE ReadRowFails(d)  BY <1>5 DEF ReadRowFails
<1>6. CASE Fetch(d)
  <2> DEFINE c == Contents(down[d].addr, WantedBy[d])
  <2>1. down' = [down EXCEPT ![d].at = "over", ![d].got = c]
    BY <1>6 DEF Fetch
  <2>2. down'[d].at = "over" /\ down'[d].addr = down[d].addr /\ down'[d].got = c
    <3> HIDE DEF c
    <3> QED BY <2>1
  <2> QED BY <1>6, <2>2 DEF Fetch
<1>9. CASE FetchFails(d)    BY <1>9 DEF FetchFails
<1>7. CASE Download(d)
  BY <1>2, <1>3, <1>4, <1>5, <1>6, <1>7, <1>9 DEF Download
<1>8. UNCHANGED down \/ \E e \in Downloads : Download(e)
  BY DEF Next, Upload, UploadFails, CreateFile, WriteFile, FileFails, PublishJob,
         RegisterFile, RegisterUserFile, SessionFails, FindFile, Deliver, Transfer,
         TakeJob, ReadHead, PutObject, PutFails, UpdateLocation, ReportJob,
         UploadCrash, TransferCrash, vars
<1> QED BY <1>1, <1>7, <1>8

(***************************************************************************)
(* Sources.  What is on a disk, on OSS, in a row or in a message comes     *)
(* from an upload that has touched the file.                               *)
(***************************************************************************)
FileHasWriter ==
  \A h \in Hashes : local[h] # "absent" => \E u \in Started : HashOf[u] = h

PushedHasFile ==
  \A u \in Uploads : Pushed(u) => u \in Started /\ local[HashOf[u]] # "absent"

ObjectHasUpload ==
  \A n \in Names : oss[n] # None =>
    \E u \in Started : NameOf[u] = n /\ HashOf[u] = oss[n].hash

AddressHasUpload ==
  \A h \in Hashes : row[h] \in Names =>
    \E u \in Started : HashOf[u] = h /\ NameOf[u] = row[h]

SourceInv == FastSkips /\ FileHasWriter /\ PushedHasFile
               /\ ObjectHasUpload /\ AddressHasUpload

LEMMA FastStep ==
  ASSUME TypeOK, FastSkips, [Next]_vars
  PROVE  FastSkips'
<1> SUFFICES ASSUME NEW u \in Uploads, KindOf[u] = "fast"
             PROVE  pc'[u] \notin {"write", "publish", "regfile", "lastuser"}
  BY DEF FastSkips
<1>1. CASE Upload(u) \/ UploadFails(u)
  BY <1>1 DEF Upload, UploadFails, CreateFile, WriteFile, FileFails, PublishJob,
         RegisterFile, RegisterUserFile, SessionFails, FindFile, Goto, After,
         TypeOK, FastSkips
<1> QED BY <1>1, PcChanges DEF FastSkips

LEMMA SourceStep ==
  ASSUME TypeOK, AddressInv, SourceInv, [Next]_vars
  PROVE  SourceInv'
<1> USE PipelineAssumption
<1>1. Started \subseteq Started'
  BY StartedGrows
<1>2. StoresKeep
  BY NothingIsRemoved
<1>3. FileHasWriter'
  <2> SUFFICES ASSUME NEW h \in Hashes, local'[h] # "absent"
               PROVE  \E u \in Started' : HashOf[u] = h
    BY DEF FileHasWriter
  <2>1. CASE local'[h] = local[h]
    BY <1>1, <2>1 DEF SourceInv, FileHasWriter
  <2>2. ASSUME NEW u \in Uploads, HashOf[u] = h, CreateFile(u) \/ WriteFile(u)
        PROVE  u \in Started'
    BY <2>2 DEF CreateFile, WriteFile, Goto, After, TypeOK, Started, SourceInv, FastSkips
  <2> QED BY <2>1, <2>2, LocalChanges
<1>4. PushedHasFile'
  <2> SUFFICES ASSUME NEW u \in Uploads, Pushed(u)'
               PROVE  u \in Started' /\ local'[HashOf[u]] # "absent"
    BY DEF PushedHasFile
  <2>1. CASE Pushed(u)
    BY <1>1, <1>2, <2>1 DEF SourceInv, PushedHasFile, StoresKeep
  <2>2. CASE PublishJob(u)
    <3>1. u \in Started
      BY <2>2 DEF PublishJob, Started, SourceInv, FastSkips
    <3>2. local[HashOf[u]] # "absent"
      BY <2>2 DEF PublishJob, AddressInv, FileBeforeRow, HasFile
    <3> QED BY <1>1, <1>2, <3>1, <3>2 DEF StoresKeep
  <2> QED BY <2>1, <2>2, PushedFrom
<1>5. ObjectHasUpload'
  <2> SUFFICES ASSUME NEW n \in Names, oss'[n] # None
               PROVE  \E u \in Started' : NameOf[u] = n /\ HashOf[u] = oss'[n].hash
    BY DEF ObjectHasUpload
  <2>1. CASE oss'[n] = oss[n]
    BY <1>1, <2>1 DEF SourceInv, ObjectHasUpload
  <2>2. CASE oss'[n] # oss[n]
    <3>1. PutObject /\ job.msg \in Uploads /\ n = NameOf[job.msg]
      BY <2>2, OssChanges
    <3>2. oss'[n].hash = HashOf[job.msg]
      <4>1. \E b \in BOOLEAN : oss'[n] = [hash |-> HashOf[job.msg], all |-> b]
        BY <3>1, ObjectPut
      <4> QED BY <4>1
    <3>3. job.msg \in Started'
      BY <1>1, <3>1 DEF SourceInv, PushedHasFile, Pushed
    <3> QED BY <3>1, <3>2, <3>3
  <2> QED BY <2>1, <2>2
<1>6. AddressHasUpload'
  <2> SUFFICES ASSUME NEW h \in Hashes, row'[h] \in Names
               PROVE  \E u \in Started' : HashOf[u] = h /\ NameOf[u] = row'[h]
    BY DEF AddressHasUpload
  <2>1. CASE row'[h] = row[h]
    BY <1>1, <2>1 DEF SourceInv, AddressHasUpload
  <2>2. CASE row'[h] # row[h]
    <3>1. job.msg \in Uploads /\ HashOf[job.msg] = h /\ row'[h] = NameOf[job.msg]
      BY <2>2, RowFrom
    <3>2. job.msg \in Started'
      BY <1>1, <3>1 DEF SourceInv, PushedHasFile, Pushed
    <3> QED BY <3>1, <3>2
  <2> QED BY <2>1, <2>2
<1> QED BY <1>3, <1>4, <1>5, <1>6, FastStep DEF SourceInv

LEMMA Sources == Spec => []SourceInv
<1>1. Init => SourceInv
  <2> SUFFICES ASSUME Init PROVE SourceInv
    OBVIOUS
  <2>1. Elements(<<>>) = {}
    BY DEF Elements
  <2>2. \A u \in Uploads : ~ Pushed(u)
    <3>1. queue = <<>> /\ inbox = <<>> /\ job.msg = None
      BY DEF Init, Idle
    <3> QED BY <2>1, <3>1, PipelineAssumption DEF Pushed, Waits
  <2>3. FastSkips
    BY DEF Init, FastSkips
  <2>4. FileHasWriter /\ PushedHasFile /\ ObjectHasUpload
    BY <2>2 DEF Init, FileHasWriter, PushedHasFile, ObjectHasUpload
  <2>5. AddressHasUpload
    BY PipelineAssumption DEF Init, AddressHasUpload
  <2> QED BY <2>3, <2>4, <2>5 DEF SourceInv
<1>2. TypeOK /\ AddressInv /\ SourceInv /\ [Next]_vars => SourceInv'
  BY SourceStep
<1> QED BY <1>1, <1>2, PipelineTypes, Addresses, PTL DEF Spec

(***************************************************************************)
(* Downloads.  A file that is written once is whole from the end of that   *)
(* write on, for everybody who can know of it: the upload itself, the      *)
(* consumer of its message, and whoever finds its row.  If nobody else     *)
(* uses its name, its object is whole for good.                            *)
(***************************************************************************)
PastWrite(u) == HasFile(u) /\ pc[u] # "write"

WholeObject(n, h) == oss[n] = [hash |-> h, all |-> TRUE]

OnceWritten(h) ==
  /\ row[h] # None => local[h] = "all"
  /\ \A u \in Uploads : HashOf[u] = h /\ (PastWrite(u) \/ Pushed(u)) => local[h] = "all"
  /\ job.at = "tail" /\ HashOf[job.msg] = h => job.all
  /\ job.at = "update" /\ HashOf[job.msg] = h => WholeObject(NameOf[job.msg], h)

OwnObject(h) ==
  /\ row[h] \in Names => WholeObject(row[h], h)
  /\ \A d \in Downloads :
       WantedBy[d] = h /\ down[d].at = "fetch" /\ down[d].addr \in Names
         => WholeObject(down[d].addr, h)

OnceInv == \A h \in Hashes :
  WrittenOnce(h) => OnceWritten(h) /\ (OwnName(h) => OwnObject(h))

ReadersInv == \A d \in Downloads :
  /\ down[d].at # "over" => down[d].got = "nothing"
  /\ down[d].at = "fetch" /\ down[d].addr # "guess" => row[WantedBy[d]] # None

\* A file written once is not written again.
LEMMA AllStays ==
  ASSUME TypeOK, SourceInv, [Next]_vars, NEW h \in Hashes, WrittenOnce(h)',
         local[h] = "all"
  PROVE  local'[h] = "all"
<1>1. ASSUME NEW u \in Uploads, HashOf[u] = h, CreateFile(u) PROVE FALSE
  <2>1. PICK v \in Started : HashOf[v] = h
    BY DEF SourceInv, FileHasWriter
  <2>2. v \in Started' /\ v # u
    BY <1>1, <2>1, StartedGrows DEF Started, CreateFile
  <2>3. u \in Started'
    BY <1>1 DEF Started, CreateFile, Goto, TypeOK
  <2> QED BY <1>1, <2>1, <2>2, <2>3 DEF WrittenOnce
<1> QED BY <1>1, LocalChanges

LEMMA PastWriteFrom ==
  ASSUME TypeOK, FastSkips, [Next]_vars, NEW u \in Uploads, PastWrite(u)'
  PROVE  PastWrite(u) \/ WriteFile(u)
<1> USE DEF PastWrite, HasFile
<1>1. CASE Upload(u) \/ UploadFails(u)
  BY <1>1 DEF Upload, UploadFails, CreateFile, FileFails, PublishJob,
         RegisterFile, RegisterUserFile, SessionFails, FindFile, Goto, After,
         TypeOK, FastSkips
<1> QED BY <1>1, PcChanges

\* An object of the one file of its name stays whole.
LEMMA WholeStays ==
  ASSUME TypeOK, SourceInv, [Next]_vars, NEW h \in Hashes, NEW n \in Names,
         WrittenOnce(h)', OwnName(h)', OnceWritten(h), WholeObject(n, h)
  PROVE  WholeObject(n, h)'
<1> USE PipelineAssumption
<1>1. CASE oss'[n] = oss[n]
  BY <1>1 DEF WholeObject
<1>2. CASE oss'[n] # oss[n]
  <2>1. PutObject /\ job.msg \in Uploads /\ n = NameOf[job.msg]
    BY <1>2, OssChanges
  <2>2. job.msg \in Started
    BY <2>1 DEF SourceInv, PushedHasFile, Pushed
  <2>3. [hash |-> h, all |-> TRUE] \in Object
    BY DEF Object
  <2>4. oss[n] # None /\ oss[n].hash = h
    <3>1. oss[n] = [hash |-> h, all |-> TRUE]
      BY DEF WholeObject
    <3>2. oss[n].hash = h
      BY <3>1
    <3> QED BY <2>3, <3>1, <3>2
  <2>5. PICK v \in Started : NameOf[v] = n /\ HashOf[v] = h
    BY <2>4 DEF SourceInv, ObjectHasUpload
  <2>6. HashOf[job.msg] = h
    <3>1. OwnName(h)
      BY NamesBefore
    <3> QED BY <2>1, <2>2, <2>5, <3>1 DEF OwnName
  <2>7. job.all /\ local[h] = "all"
    BY <2>1, <2>6 DEF OnceWritten, PutObject, Pushed
  <2> QED BY <2>1, <2>6, <2>7, ObjectPut DEF WholeObject
<1> QED BY <1>1, <1>2

LEMMA OnceWrittenStep ==
  ASSUME TypeOK, SourceInv, [Next]_vars, NEW h \in Hashes,
         WrittenOnce(h)', OnceWritten(h)
  PROVE  OnceWritten(h)'
<1> USE PipelineAssumption
<1>1. local[h] = "all" => local'[h] = "all"
  BY AllStays
<1>2. row'[h] # None => local'[h] = "all"
  <2>1. CASE row'[h] = row[h]
    BY <1>1, <2>1 DEF OnceWritten
  <2>2. ASSUME NEW u \in Uploads, RegisterFile(u), HashOf[u] = h
        PROVE  local[h] = "all"
    BY <2>2 DEF RegisterFile, OnceWritten, PastWrite, HasFile
  <2>3. CASE UpdateLocation /\ job.msg \in Uploads /\ HashOf[job.msg] = h
    BY <1>1, <2>3 DEF OnceWritten, Pushed
  <2> QED BY <1>1, <2>1, <2>2, <2>3, RowFrom
<1>3. ASSUME NEW u \in Uploads, HashOf[u] = h, PastWrite(u)' \/ Pushed(u)'
      PROVE  local'[h] = "all"
  <2>1. CASE PastWrite(u) \/ Pushed(u)
    BY <1>1, <1>3, <2>1 DEF OnceWritten
  <2>2. CASE PublishJob(u)
    BY <1>1, <1>3, <2>2 DEF PublishJob, OnceWritten, PastWrite, HasFile
  <2>3. CASE WriteFile(u)
    <3>1. ASSUME NEW v \in Uploads \ {u}, HashOf[v] = HashOf[u], pc[v] = "write"
          PROVE  FALSE
      <4>1. u \in Started /\ v \in Started
        BY <2>3, <3>1 DEF Started, WriteFile, SourceInv, FastSkips
      <4>2. WrittenOnce(h)
        BY NamesBefore
      <4> QED BY <1>3, <3>1, <4>1, <4>2 DEF WrittenOnce
    <3>2. local' = [local EXCEPT ![HashOf[u]] = "all"]
      BY <2>3, <3>1 DEF WriteFile
    <3> QED BY <1>3, <3>2 DEF TypeOK
  <2>4. FastSkips
    BY DEF SourceInv
  <2> QED BY <1>3, <2>1, <2>2, <2>3, <2>4, PastWriteFrom, PushedFrom
<1>4. job'.at = "tail" /\ HashOf[job'.msg] = h => job'.all
  <2>1. CASE job' = job
    BY <2>1 DEF OnceWritten
  <2>2. CASE ReadHead
    <3>1. job.msg \in Uploads
      BY <2>2 DEF ReadHead, TypeOK
    <3>2. PICK b \in BOOLEAN : b = (local[HashOf[job.msg]] = "all")
      OBVIOUS
    <3>3. job' = [job EXCEPT !.at = "tail", !.all = b]
      BY <2>2, <3>2 DEF ReadHead
    <3>4. job'.msg = job.msg /\ job'.all = b
      BY <3>3 DEF TypeOK
    <3>5. HashOf[job.msg] = h => local[h] = "all"
      BY <3>1 DEF OnceWritten, Pushed
    <3> QED BY <3>2, <3>4, <3>5
  <2> QED BY <2>1, <2>2, JobChanges
<1>5. job'.at = "update" /\ HashOf[job'.msg] = h => WholeObject(NameOf[job.msg], h)'
  <2>1. CASE PutObject
    <3>1. HashOf[job.msg] = h => job.all /\ local[h] = "all"
      BY <2>1, ObjectPut DEF OnceWritten, PutObject, Pushed
    <3> QED BY <2>1, <3>1, ObjectPut DEF WholeObject
  <2>2. CASE job' = job /\ ~ PutObject
    <3>1. job'.at = "update" => job.msg \in Uploads
      BY <2>2 DEF TypeOK
    <3>2. job'.at = "update" => oss'[NameOf[job.msg]] = oss[NameOf[job.msg]]
      BY <2>2, <3>1, OssChanges
    <3> QED BY <2>2, <3>2 DEF OnceWritten, WholeObject
  <2> QED BY <2>1, <2>2, JobChanges
<1> QED BY <1>2, <1>3, <1>4, <1>5 DEF OnceWritten

LEMMA OwnObjectStep ==
  ASSUME TypeOK, SourceInv, [Next]_vars, NEW h \in Hashes,
         WrittenOnce(h)', OwnName(h)', OnceWritten(h), OwnObject(h)
  PROVE  OwnObject(h)'
<1> USE PipelineAssumption
<1>1. \A n \in Names : WholeObject(n, h) => WholeObject(n, h)'
  BY WholeStays
<1>2. row'[h] \in Names => WholeObject(row[h], h)'
  <2>1. CASE row'[h] = row[h]
    BY <1>1, <2>1 DEF OwnObject, WholeObject
  <2>2. CASE UpdateLocation /\ HashOf[job.msg] = h /\ row'[h] = NameOf[job.msg]
    <3>1. WholeObject(NameOf[job.msg], h)
      BY <2>2 DEF UpdateLocation, OnceWritten
    <3> QED BY <1>1, <2>2, <3>1 DEF WholeObject
  <2>3. ("local" \in Names) = FALSE
    OBVIOUS
  <2> QED BY <2>1, <2>2, <2>3, RowFrom
<1>3. ASSUME NEW d \in Downloads, WantedBy[d] = h, down'[d].at = "fetch",
             down'[d].addr \in Names
      PROVE  WholeObject(down[d].addr, h)'
  <2>1. CASE down'[d] = down[d]
    BY <1>1, <1>3, <2>1 DEF OwnObject, WholeObject
  <2>2. CASE down'[d].addr = row[h]
    BY <1>1, <1>3, <2>2 DEF OwnObject, WholeObject
  <2> QED BY <1>3, <2>1, <2>2, DownChanges
<1> QED BY <1>2, <1>3 DEF OwnObject

LEMMA ReadersStep ==
  ASSUME TypeOK, ReadersInv, [Next]_vars
  PROVE  ReadersInv'
<1> USE PipelineAssumption
<1> SUFFICES ASSUME NEW d \in Downloads
             PROVE  /\ down'[d].at # "over" => down'[d].got = "nothing"
                    /\ down'[d].at = "fetch" /\ down'[d].addr # "guess"
                         => row'[WantedBy[d]] # None
  BY DEF ReadersInv
<1>1. row[WantedBy[d]] # None => row'[WantedBy[d]] # None
  BY RowChanges
<1>2. CASE down'[d] = down[d]
  BY <1>1, <1>2 DEF ReadersInv
<1> QED BY <1>1, <1>2, DownChanges

\* What a download gets from an address it has read.
LEMMA GotWhole ==
  ASSUME TypeOK, OnceInv, ReadersInv, NEW d \in Downloads, down[d].at = "fetch",
         down[d].addr # "guess", WrittenOnce(WantedBy[d]),
         down[d].addr \in Names => OwnName(WantedBy[d])
  PROVE  Contents(down[d].addr, WantedBy[d]) = "all"
<1> USE PipelineAssumption
<1> DEFINE h == WantedBy[d]
<1>1. h \in Hashes
  OBVIOUS
<1>2. CASE down[d].addr = "local"
  <2>1. local[h] = "all"
    BY <1>1, <1>2 DEF OnceInv, OnceWritten, ReadersInv
  <2> QED BY <1>2, <2>1 DEF Contents
<1>3. CASE down[d].addr \in Names
  <2>1. oss[down[d].addr] = [hash |-> h, all |-> TRUE]
    BY <1>1, <1>3 DEF OnceInv, OwnObject, WholeObject
  <2>2. [hash |-> h, all |-> TRUE] \in Object
    BY <1>1 DEF Object
  <2>3. oss[down[d].addr] # None
    BY <2>1, <2>2
  <2>4. down[d].addr \notin {"local", "guess"}
    BY <1>3
  <2> QED BY <2>1, <2>3, <2>4 DEF Contents
<1>4. down[d].addr # None
  BY DEF TypeOK
<1>5. down[d].addr \in Names \cup {None, "local", "guess"}
  BY DEF TypeOK
<1> QED BY <1>2, <1>3, <1>4, <1>5

LEMMA OnceReaders == Spec => [](OnceInv /\ ReadersInv)
<1>1. Init => OnceInv /\ ReadersInv
  <2> SUFFICES ASSUME Init PROVE OnceInv /\ ReadersInv
    OBVIOUS
  <2>1. ReadersInv
    BY DEF Init, ReadersInv
  <2>2. \A u \in Uploads : ~ Pushed(u) /\ ~ PastWrite(u)
    <3>1. queue = <<>> /\ inbox = <<>> /\ job.msg = None
      BY DEF Init, Idle
    <3>2. Elements(<<>>) = {}
      BY DEF Elements
    <3>3. \A u \in Uploads : ~ Pushed(u)
      BY <3>1, <3>2, PipelineAssumption DEF Pushed, Waits
    <3>4. \A u \in Uploads : ~ PastWrite(u)
      BY DEF Init, PastWrite, HasFile
    <3> QED BY <3>3, <3>4
  <2>3. \A h \in Hashes : OnceWritten(h)
    BY <2>2 DEF Init, Idle, OnceWritten
  <2>4. \A h \in Hashes : OwnObject(h)
    BY PipelineAssumption DEF Init, OwnObject
  <2> QED BY <2>1, <2>3, <2>4 DEF OnceInv
<1>2. TypeOK /\ SourceInv /\ OnceInv /\ ReadersInv /\ [Next]_vars
        => (OnceInv /\ ReadersInv)'
  BY NamesBefore, OnceWrittenStep, OwnObjectStep, ReadersStep DEF OnceInv
<1> QED BY <1>1, <1>2, PipelineTypes, Sources, PTL DEF Spec

\* A download whose file was written once gets all of its bytes, from the disk
\* or from OSS, though the transfer moves the file between the two reads and
\* whatever fails or dies but the read itself, which then gets an error and no
\* bytes; from OSS, if no other file was uploaded under its name.
THEOREM DownloadsSafe == Spec => []DownloadsAreWhole
<1>1. Init => DownloadsAreWhole
  BY DEF Init, DownloadsAreWhole
<1>2. /\ TypeOK /\ OnceInv /\ ReadersInv
      /\ DownloadsAreWhole /\ [Next]_vars
      => DownloadsAreWhole'
  <2> SUFFICES ASSUME TypeOK, OnceInv, ReadersInv, DownloadsAreWhole, [Next]_vars,
                      NEW d \in Downloads, down'[d].addr # "guess",
                      WrittenOnce(WantedBy[d])',
                      down'[d].addr \in Names => OwnName(WantedBy[d])'
               PROVE  /\ down'[d].got # "bad"
                      /\ down'[d].got = "error" => ~ Never({"fetch"})'
    BY DEF DownloadsAreWhole
  <2>1. /\ WrittenOnce(WantedBy[d])
        /\ down'[d].addr \in Names => OwnName(WantedBy[d])
    BY NamesBefore, PipelineAssumption
  <2>2. CASE down'[d] = down[d]
    <3>1. Never({"fetch"})' => Never({"fetch"})
      BY NeverBefore, KindsOfFault
    <3> QED BY <2>1, <2>2, <3>1 DEF DownloadsAreWhole
  <2>3. CASE down'[d].got = "nothing"
    BY <2>3
  <2>4. CASE down[d].at = "idle" /\ down'[d].got = down[d].got
    BY <2>4 DEF ReadersInv
  <2>5. CASE /\ down[d].at = "fetch" /\ down'[d].addr = down[d].addr
             /\ down'[d].got = Contents(down[d].addr, WantedBy[d])
    BY <2>1, <2>5, GotWhole
  <2>6. CASE /\ down[d].at = "fetch" /\ down'[d].got = "error" /\ Fault("fetch")
    BY <2>6, FaultCounts, KindsOfFault DEF Never
  <2> QED BY <2>2, <2>3, <2>4, <2>5, <2>6, DownChanges
<1> QED BY <1>1, <1>2, PipelineTypes, OnceReaders, PTL DEF Spec

(***************************************************************************)
(* Objects heal.  As long as nothing fails but SQL statements, for what is *)
(* cut off on the disk, half read or half put, there is an upload of the   *)
(* same bytes whose message is still to come or to be carried out.         *)
(***************************************************************************)
Calm == Never(FaultKinds \ {"sql", "fetch"})

Comes(u) == \/ pc[u] \in {"write", "publish"}
            \/ KindOf[u] = "multi" /\ pc[u] \in {"regfile", "reguser"}
            \/ Waits(u)

Heals(u) == job.msg = u /\ (job.at = "head" \/ (job.at = "tail" /\ job.all))

Truncated == \A h \in Hashes : local[h] = "part" =>
  \E u \in Uploads : HashOf[u] = h /\ pc[u] = "write"

HalfRead == job.at = "tail" /\ ~ job.all =>
  \E u \in Uploads : HashOf[u] = HashOf[job.msg] /\ Comes(u)

HalfPut == \A n \in Names : oss[n] # None /\ ~ oss[n].all =>
  \E u \in Uploads : HashOf[u] = oss[n].hash /\ (Comes(u) \/ Heals(u))

NamesMatch ==
  \A u, v \in Started : NameOf[u] = NameOf[v] <=> HashOf[u] = HashOf[v]

HealInv == Truncated /\ HalfRead /\ (NamesMatch => HalfPut)

HealsKept == Calm => HealInv

LEMMA CalmStep ==
  ASSUME TypeOK, [Next]_vars, Calm'
  PROVE  /\ Calm
         /\ ~ UploadCrash /\ ~ TransferCrash /\ ~ PutFails
         /\ \A u \in Uploads : ~ UploadFails(u)
         /\ \A k \in FaultKinds \ {"sql", "fetch"} : ~ Fault(k)
<1>1. \A k \in FaultKinds \ {"sql", "fetch"} : ~ Fault(k)
  BY FaultCounts DEF Calm, Never
<1>2. Calm
  BY NeverBefore DEF Calm
<1> QED BY <1>1, <1>2, KindsOfFault DEF UploadCrash, TransferCrash, PutFails,
           UploadFails, FileFails, SessionFails

\* The message of an upload that was on its way still is, or is being taken.
LEMMA ComesOn ==
  ASSUME TypeOK, FastSkips, [Next]_vars, Calm', NEW u \in Uploads, Comes(u)
  PROVE  Comes(u)' \/ (TakeJob /\ Heals(u)')
<1>1. CASE Waits(u)
  <2>1. ASSUME NEW v \in Uploads, PublishJob(v) PROVE Waits(u)'
    <3>1. queue' = Append(queue, v) \/ queue' = queue
      BY <2>1 DEF PublishJob
    <3>2. Elements(queue) \subseteq Elements(queue')
      <4>1. queue \in Seq(Uploads)
        BY DEF TypeOK
      <4>2. Elements(Append(queue, v)) = Elements(queue) \cup {v}
        BY <4>1, ElementsOfAppend
      <4> QED BY <3>1, <4>2
    <3>3. inbox' = inbox
      BY <2>1 DEF PublishJob
    <3> QED BY <1>1, <3>2, <3>3 DEF Waits
  <2>2. CASE Deliver
    <3>1. /\ Elements(inbox') = Elements(inbox) \cup {Head(queue)}
          /\ Elements(queue) = {Head(queue)} \cup Elements(queue')
      BY <2>2, ElementsOfAppend, ElementsOfTail DEF Deliver, TypeOK
    <3> QED BY <1>1, <3>1 DEF Waits, Comes
  <2>3. CASE TakeJob
    <3>1. Elements(inbox) = {Head(inbox)} \cup Elements(inbox')
      BY <2>3, ElementsOfTail DEF TakeJob, TypeOK
    <3>2. job' = [at |-> "head", msg |-> Head(inbox), all |-> FALSE]
      BY <2>3, CalmStep, KindsOfFault DEF TakeJob
    <3>3. queue' = queue
      BY <2>3 DEF TakeJob
    <3>4. u = Head(inbox) \/ Waits(u)'
      BY <1>1, <3>1, <3>3 DEF Waits
    <3>5. u = Head(inbox) => Heals(u)'
      BY <3>2 DEF Heals
    <3> QED BY <2>3, <3>4, <3>5 DEF Comes
  <2>4. CASE UNCHANGED <<queue, inbox>>
    BY <1>1, <2>4 DEF Waits, Comes
  <2> QED
    BY <2>1, <2>2, <2>3, <2>4, CalmStep
       DEF Comes, Next, Upload, CreateFile, WriteFile, RegisterFile,
           RegisterUserFile, FindFile, Transfer, ReadHead, PutObject,
           UpdateLocation, ReportJob, Download, ReadRow, DownloadURL, RangeDownload,
           ReadRowFails, Fetch, FetchFails, vars, broker
<1>2. CASE ~ Waits(u)
  <2> USE DEF Comes, Goto, TypeOK
  <2>1. CASE PublishJob(u)
    <3>1. queue' = Append(queue, u)
      BY <2>1, CalmStep, KindsOfFault DEF PublishJob
    <3>2. u \in Elements(queue')
      BY <3>1, ElementsOfAppend
    <3> QED BY <3>2 DEF Waits
  <2>2. CASE CreateFile(u)   BY <2>2 DEF CreateFile
  <2>3. CASE WriteFile(u)
    BY <2>3, PipelineAssumption DEF WriteFile, After, FastSkips
  <2>4. CASE RegisterFile(u)
    <3>1. KindOf[u] = "multi"
      BY <1>2, <2>4 DEF RegisterFile
    <3>2. PICK o \in DbOutcomes :
            /\ DbFault(o)
            /\ Goto(u, IF ~ RpcError(o) THEN "reguser"
                       ELSE IF KindOf[u] = "plain" THEN "failed" ELSE "lastuser")
      BY <2>4 DEF RegisterFile
    <3>3. ~ RpcError(o)
      BY <3>2, CalmStep, KindsOfFault DEF DbFault, DbOutcomes, RpcError
    <3> QED BY <3>1, <3>2, <3>3
  <2>5. CASE RegisterUserFile(u)
    <3>1. KindOf[u] = "multi" /\ pc[u] = "reguser"
      BY <1>2, <2>5 DEF RegisterUserFile
    <3>2. PICK o \in DbOutcomes :
            /\ DbFault(o)
            /\ Goto(u, IF \/ pc[u] = "lastuser" \/ RpcError(o)
                          \/ (o = "sqlfails" /\ KindOf[u] # "multi")
                         THEN "failed" ELSE After(u, "reguser"))
      BY <2>5 DEF RegisterUserFile
    <3>3. ~ RpcError(o)
      BY <3>2, CalmStep, KindsOfFault DEF DbFault, DbOutcomes, RpcError
    <3> QED BY <3>1, <3>2, <3>3 DEF After
  <2>6. CASE FindFile(u)
    BY <1>2, <2>6 DEF FindFile
  <2>7. CASE pc'[u] = pc[u]
    BY <1>2, <2>7
  <2> QED BY <2>1, <2>2, <2>3, <2>4, <2>5, <2>6, <2>7, PcChanges, CalmStep DEF Upload
<1> QED BY <1>1, <1>2

LEMMA TruncatedStep ==
  ASSUME TypeOK, [Next]_vars, Calm', Truncated
  PROVE  Truncated'
<1> USE PipelineAssumption
<1> SUFFICES ASSUME NEW h \in Hashes, local'[h] = "part"
             PROVE  \E u \in Uploads : HashOf[u] = h /\ pc'[u] = "write"
  BY DEF Truncated
<1>1. CASE local'[h] # local[h]
  <2>1. PICK u \in Uploads : HashOf[u] = h /\ CreateFile(u)
    BY <1>1, LocalChanges
  <2> QED BY <2>1 DEF CreateFile, Goto, TypeOK
<1>2. CASE local'[h] = local[h]
  <2>1. PICK u \in Uploads : HashOf[u] = h /\ pc[u] = "write"
    BY <1>2 DEF Truncated
  <2>2. CASE pc'[u] = pc[u]
    BY <2>1, <2>2
  <2>3. CASE WriteFile(u)
    <3>1. local' # [local EXCEPT ![HashOf[u]] = "all"]
      BY <2>1 DEF TypeOK
    <3>2. PICK v \in Uploads \ {u} : HashOf[v] = HashOf[u] /\ pc[v] = "write"
      BY <2>3, <3>1 DEF WriteFile
    <3>3. pc'[v] = pc[v]
      BY <2>3, <3>2 DEF WriteFile, Goto, TypeOK
    <3> QED BY <2>1, <3>2, <3>3
  <2>4. CASE Upload(u) /\ ~ WriteFile(u)
    BY <2>1, <2>4 DEF Upload, CreateFile, PublishJob, RegisterFile,
       RegisterUserFile, FindFile
  <2> QED BY <2>2, <2>3, <2>4, PcChanges, CalmStep
<1> QED BY <1>1, <1>2

\* While the file of a running transfer is not whole, an upload writes it.
LEMMA WriterComes ==
  ASSUME TypeOK, SourceInv, Truncated, job.at # "idle", local[HashOf[job.msg]] # "all"
  PROVE  \E u \in Uploads : HashOf[u] = HashOf[job.msg] /\ pc[u] = "write"
<1>1. job.msg \in Uploads
  BY PipelineAssumption DEF TypeOK
<1>2. HashOf[job.msg] \in Hashes
  BY <1>1, PipelineAssumption
<1>3. local[HashOf[job.msg]] # "absent"
  BY <1>1 DEF SourceInv, PushedHasFile, Pushed
<1>4. local[HashOf[job.msg]] = "part"
  BY <1>2, <1>3 DEF TypeOK
<1> QED BY <1>2, <1>4 DEF Truncated

\* While the running transfer does nothing but read or put, uploads stay where
\* they are.
LEMMA ComesStill ==
  ASSUME TypeOK, ReadHead \/ PutObject, NEW u \in Uploads
  PROVE  Comes(u)' <=> Comes(u)
BY DEF ReadHead, PutObject, Comes, Waits, broker

LEMMA HalfReadStep ==
  ASSUME TypeOK, SourceInv, [Next]_vars, Calm', Truncated, HalfRead
  PROVE  HalfRead'
<1> SUFFICES ASSUME job'.at = "tail", ~ job'.all
             PROVE  \E u \in Uploads : HashOf[u] = HashOf[job'.msg] /\ Comes(u)'
  BY DEF HalfRead
<1>1. CASE job' = job
  <2>1. PICK u \in Uploads : HashOf[u] = HashOf[job.msg] /\ Comes(u)
    BY <1>1 DEF HalfRead
  <2>2. ~ TakeJob
    BY <1>1 DEF TakeJob, Idle
  <2> QED BY <1>1, <2>1, <2>2, ComesOn DEF SourceInv
<1>2. CASE ReadHead
  <2>1. PICK b \in BOOLEAN : b = (local[HashOf[job.msg]] = "all")
    OBVIOUS
  <2>2. job' = [job EXCEPT !.at = "tail", !.all = b]
    BY <1>2, <2>1 DEF ReadHead
  <2>3. job'.msg = job.msg /\ job'.all = b
    BY <2>2 DEF TypeOK
  <2>4. job.at # "idle"
    BY <1>2 DEF ReadHead
  <2>5. PICK u \in Uploads : HashOf[u] = HashOf[job.msg] /\ pc[u] = "write"
    BY <2>1, <2>3, <2>4, WriterComes
  <2>6. Comes(u)'
    BY <1>2, <2>5, ComesStill DEF Comes
  <2> QED BY <2>3, <2>5, <2>6
<1> QED BY <1>1, <1>2, JobChanges

LEMMA HalfPutStep ==
  ASSUME TypeOK, SourceInv, [Next]_vars, Calm', Truncated, HalfRead,
         NamesMatch, HalfPut
  PROVE  HalfPut'
<1> USE PipelineAssumption
<1> SUFFICES ASSUME NEW n \in Names, oss'[n] # None, ~ oss'[n].all
             PROVE  \E u \in Uploads : HashOf[u] = oss'[n].hash
                                         /\ (Comes(u)' \/ Heals(u)')
  BY DEF HalfPut
<1>1. CASE PutObject /\ n = NameOf[job.msg]
  <2>1. PICK b \in BOOLEAN :
          /\ b <=> job.all /\ local[HashOf[job.msg]] = "all"
          /\ oss'[n] = [hash |-> HashOf[job.msg], all |-> b]
    BY <1>1, ObjectPut
  <2>2. oss'[n].hash = HashOf[job.msg] /\ ~ b
    BY <2>1
  <2>3. \E u \in Uploads : HashOf[u] = HashOf[job.msg] /\ Comes(u)
    <3>1. CASE ~ job.all
      BY <1>1, <3>1 DEF HalfRead, PutObject
    <3>2. CASE local[HashOf[job.msg]] # "all"
      BY <1>1, <3>2, WriterComes DEF PutObject, Comes
    <3> QED BY <2>1, <2>2, <3>1, <3>2
  <2> QED BY <1>1, <2>2, <2>3, ComesStill
<1>2. CASE ~ (PutObject /\ n = NameOf[job.msg])
  <2>1. oss'[n] = oss[n]
    BY <1>2, OssChanges
  <2>2. PICK u \in Uploads : HashOf[u] = oss[n].hash /\ (Comes(u) \/ Heals(u))
    BY <2>1 DEF HalfPut
  <2>3. CASE Comes(u)
    BY <2>1, <2>2, <2>3, ComesOn DEF SourceInv
  <2>4. CASE Heals(u) /\ job' = job
    BY <2>1, <2>2, <2>4 DEF Heals
  <2>5. CASE Heals(u) /\ ReadHead
    <3>1. PICK b \in BOOLEAN : b = (local[HashOf[job.msg]] = "all")
      OBVIOUS
    <3>2. job' = [job EXCEPT !.at = "tail", !.all = b]
      BY <2>5, <3>1 DEF ReadHead
    <3>3. job'.msg = u /\ job'.at = "tail" /\ job'.all = b
      BY <2>5, <3>2 DEF TypeOK, Heals
    <3>4. CASE b
      BY <2>1, <2>2, <3>3, <3>4 DEF Heals
    <3>5. CASE ~ b
      <4>1. job.at # "idle"
        BY <2>5 DEF ReadHead
      <4>2. PICK v \in Uploads : HashOf[v] = HashOf[job.msg] /\ pc[v] = "write"
        BY <3>1, <3>5, <4>1, WriterComes
      <4>3. Comes(v)'
        BY <2>5, <4>2, ComesStill DEF Comes
      <4> QED BY <2>1, <2>2, <2>5, <4>2, <4>3 DEF Heals
    <3> QED BY <3>4, <3>5
  <2>6. Heals(u) => ~ PutObject
    <3> SUFFICES ASSUME Heals(u), PutObject PROVE FALSE
      OBVIOUS
    <3>1. PICK v \in Started : NameOf[v] = n /\ HashOf[v] = oss[n].hash
      BY <2>1 DEF SourceInv, ObjectHasUpload
    <3>2. u \in Started
      BY DEF SourceInv, PushedHasFile, Pushed, Heals
    <3>3. NameOf[u] = n
      BY <2>2, <3>1, <3>2 DEF NamesMatch
    <3> QED BY <1>2, <3>3 DEF Heals
  <2>7. Heals(u) => job' = job \/ ReadHead
    <3> SUFFICES ASSUME Heals(u), job' # job, ~ ReadHead PROVE FALSE
      OBVIOUS
    <3>1. job.at \in {"head", "tail"}
      BY DEF Heals
    <3>2. ~ TakeJob /\ ~ UpdateLocation /\ ~ ReportJob
      BY <3>1 DEF TakeJob, UpdateLocation, ReportJob, Idle
    <3> QED
      BY <2>6, <3>2, CalmStep
         DEF Next, Upload, CreateFile, WriteFile, PublishJob, RegisterFile,
             RegisterUserFile, FindFile, Deliver, Transfer, Download, ReadRow,
             DownloadURL, RangeDownload, ReadRowFails, Fetch, FetchFails, vars, transfer
  <2> QED BY <2>2, <2>3, <2>4, <2>5, <2>7
<1> QED BY <1>1, <1>2

LEMMA Healing == Spec => []HealsKept
<1>1. Init => HealsKept
  BY DEF Init, HealsKept, HealInv, Truncated, HalfRead, HalfPut, Idle
<1>2. TypeOK /\ SourceInv /\ HealsKept /\ [Next]_vars => HealsKept'
  <2> SUFFICES ASSUME TypeOK, SourceInv, HealsKept, [Next]_vars, Calm'
               PROVE  HealInv'
    BY DEF HealsKept
  <2>1. HealInv
    BY CalmStep DEF HealsKept
  <2>2. Truncated' /\ HalfRead'
    BY <2>1, TruncatedStep, HalfReadStep DEF HealInv
  <2>3. ASSUME NamesMatch' PROVE HalfPut'
    <3>1. NamesMatch
      BY <2>3, StartedGrows DEF NamesMatch
    <3> QED BY <2>1, <3>1, HalfPutStep DEF HealInv
  <2> QED BY <2>2, <2>3 DEF HealInv
<1> QED BY <1>1, <1>2, PipelineTypes, Sources, PTL DEF Spec

\* When all is done and nothing failed but SQL statements, an object that a row
\* names is the whole file, if each file had a name of its own: though an
\* upload may truncate a file while the transfer service reads it.
THEOREM ObjectsSafe == Spec => []ObjectsHeal
<1>1. TypeOK /\ AddressInv /\ SourceInv /\ HealsKept => ObjectsHeal
  <2> USE PipelineAssumption
  <2> SUFFICES ASSUME TypeOK, AddressInv, SourceInv, HealsKept,
                      Drained, Calm, NamesMatch,
                      NEW h \in Hashes, row[h] \in Names
               PROVE  oss[row[h]] = [hash |-> h, all |-> TRUE]
    BY DEF ObjectsHeal, Calm, NamesMatch
  <2> DEFINE n == row[h]
  <2>1. oss[n] # None
    BY DEF AddressInv, AddressesResolve, Exists
  <2>2. PICK u \in Started : HashOf[u] = h /\ NameOf[u] = n
    BY DEF SourceInv, AddressHasUpload
  <2>3. PICK v \in Started : NameOf[v] = n /\ HashOf[v] = oss[n].hash
    BY <2>1 DEF SourceInv, ObjectHasUpload
  <2>4. oss[n].hash = h
    BY <2>2, <2>3 DEF NamesMatch
  <2>5. \A w \in Uploads : ~ Comes(w) /\ ~ Heals(w)
    <3>1. Elements(<<>>) = {}
      BY DEF Elements
    <3>2. job.at = "idle"
      BY DEF Drained, Idle
    <3> QED BY <3>1, <3>2 DEF Drained, UploadOver, Comes, Waits, Heals
  <2>6. oss[n].all
    BY <2>1, <2>5 DEF HealsKept, HealInv, HalfPut
  <2>7. oss[n] \in Object
    BY <2>1 DEF TypeOK
  <2> QED BY <2>4, <2>6, <2>7 DEF Object
<1> QED BY <1>1, PipelineTypes, Addresses, Sources, Healing, PTL

=============================================================================
