------------------------ MODULE TransferPipeline_proof ------------------------
(***************************************************************************)
(* Proofs about TransferPipeline, for any uploads, files, names, downloads *)
(* and fault budgets.                                                      *)
(***************************************************************************)
EXTENDS TransferPipeline, TLAPS

(***************************************************************************)
(* Types.                                                                  *)
(***************************************************************************)
LEMMA FaultType ==
  ASSUME TypeOK, NEW k \in FaultKinds, Fault(k)
  PROVE  faults' \in [FaultKinds -> Nat]
BY DEF TypeOK, Fault

LEMMA DbFaultType ==
  ASSUME TypeOK, NEW o \in DbOutcomes, DbFault(o)
  PROVE  faults' \in [FaultKinds -> Nat]
<1>1. CASE o = "done"     BY <1>1 DEF DbFault, TypeOK
<1>2. CASE o = "sqlfails" BY <1>2, FaultType DEF DbFault, FaultKinds
<1>3. CASE o = "lost"     BY <1>3, FaultType DEF DbFault, FaultKinds
<1>4. CASE o = "late"     BY <1>4, FaultType DEF DbFault, FaultKinds
<1> QED BY <1>1, <1>2, <1>3, <1>4 DEF DbOutcomes

LEMMA KindsOfFault ==
  {"disk", "session", "rpc", "sql", "mq", "open", "put", "fetch", "upcrash", "crash"}
    \subseteq FaultKinds
BY DEF FaultKinds

LEMMA AfterType ==
  ASSUME NEW u \in Uploads, NEW step
  PROVE  After(u, step) \in UploadSteps \cup UploadOver
BY DEF After, UploadSteps, UploadOver

LEMMA UploadType ==
  ASSUME TypeOK, NEW u \in Uploads, Upload(u) \/ UploadFails(u)
  PROVE  TypeOK'
<1> USE PipelineAssumption DEF TypeOK, Goto, tables, broker, transfer
<1>1. CASE CreateFile(u)
  BY <1>1 DEF CreateFile, UploadSteps
<1>2. CASE WriteFile(u)
  BY <1>2, AfterType DEF WriteFile
<1>3. CASE FileFails(u)
  BY <1>3, FaultType, KindsOfFault DEF FileFails, UploadOver
<1>4. CASE PublishJob(u)
  <2>1. faults' \in [FaultKinds -> Nat]
    BY <1>4, FaultType, KindsOfFault DEF PublishJob
  <2>2. queue' \in Seq(Uploads)
    <3>1. queue' = Append(queue, u) \/ queue' = queue
      BY <1>4 DEF PublishJob
    <3>2. Append(queue, u) \in Seq(Uploads)
      OBVIOUS
    <3> QED BY <3>1, <3>2
  <2>3. pc' \in [Uploads -> {"idle"} \cup UploadSteps \cup UploadOver]
    BY <1>4, AfterType DEF PublishJob
  <2> QED BY <1>4, <2>1, <2>2, <2>3 DEF PublishJob
<1>5. CASE RegisterFile(u)
  BY <1>5, DbFaultType DEF RegisterFile, UploadSteps, UploadOver
<1>6. CASE RegisterUserFile(u)
  BY <1>6, DbFaultType, AfterType DEF RegisterUserFile, UploadOver
<1>7. CASE SessionFails(u)
  BY <1>7, FaultType, KindsOfFault DEF SessionFails, UploadOver
<1>8. CASE FindFile(u)
  <2>1. faults' \in [FaultKinds -> Nat]
    BY <1>8, FaultType, KindsOfFault DEF FindFile
  <2>2. pc' \in [Uploads -> {"idle"} \cup UploadSteps \cup UploadOver]
    <3>1. \E step \in {"reguser", "failed"} : pc' = [pc EXCEPT ![u] = step]
      BY <1>8 DEF FindFile
    <3> QED BY <3>1 DEF UploadSteps, UploadOver
  <2>3. UNCHANGED <<local, oss, tables, broker, transfer, down>>
    BY <1>8 DEF FindFile
  <2> QED BY <2>1, <2>2, <2>3
<1> QED BY <1>1, <1>2, <1>3, <1>4, <1>5, <1>6, <1>7, <1>8 DEF Upload, UploadFails

\* The running transfer keeps its type when it gets one step on.
JobType ==
  [at : {"idle", "head", "tail", "update", "report"},
   msg : Uploads \cup {None}, all : BOOLEAN]

LEMMA JobStep ==
  ASSUME job \in JobType, NEW b \in BOOLEAN,
         NEW step \in {"head", "tail", "update", "report"},
         job' = [job EXCEPT !.at = step] \/ job' = [job EXCEPT !.at = step, !.all = b]
  PROVE  job' \in JobType /\ job'.msg = job.msg
BY DEF JobType

LEMMA TransferType ==
  ASSUME TypeOK, Deliver \/ Transfer \/ PutFails \/ TransferCrash
  PROVE  TypeOK'
<1> USE PipelineAssumption DEF TypeOK, tables, broker, transfer
<1>1. CASE Deliver    BY <1>1 DEF Deliver
<1>2. CASE TakeJob
  <2>1. Head(inbox) \in Uploads /\ Tail(inbox) \in Seq(Uploads)
    BY <1>2 DEF TakeJob
  <2>2. faults' \in [FaultKinds -> Nat]
    BY <1>2, FaultType, KindsOfFault DEF TakeJob
  <2>3. \E step \in {"head", "report"} :
           job' = [at |-> step, msg |-> Head(inbox), all |-> FALSE]
    BY <1>2 DEF TakeJob
  <2>4. job' \in JobType /\ job'.msg # None
    BY <2>1, <2>3 DEF JobType
  <2> QED BY <1>2, <2>1, <2>2, <2>4 DEF TakeJob, JobType
<1>3. CASE ReadHead
  <2>1. \E b \in BOOLEAN : job' = [job EXCEPT !.at = "tail", !.all = b]
    BY <1>3 DEF ReadHead
  <2> QED BY <1>3, <2>1, JobStep DEF ReadHead, JobType
<1>4. CASE PutObject
  <2>1. job.msg \in Uploads
    BY <1>4 DEF PutObject
  <2>2. \E x \in Object : oss' = [oss EXCEPT ![NameOf[job.msg]] = x]
    <3>1. PICK b \in BOOLEAN : b = (job.all /\ local[HashOf[job.msg]] = "all")
      OBVIOUS
    <3>2. [hash |-> HashOf[job.msg], all |-> b] \in Object
      BY <2>1 DEF Object
    <3> QED BY <1>4, <3>1, <3>2 DEF PutObject
  <2>3. oss' \in [Names -> Object \cup {None}]
    BY <2>1, <2>2
  <2> QED BY <1>4, <2>3, JobStep DEF PutObject, JobType
<1>5. CASE PutFails
  <2>1. faults' \in [FaultKinds -> Nat]
    BY <1>5, FaultType, KindsOfFault DEF PutFails
  <2> QED BY <1>5, <2>1, JobStep DEF PutFails, JobType
<1>6. CASE UpdateLocation
  <2>1. faults' \in [FaultKinds -> Nat]
    BY <1>6, DbFaultType DEF UpdateLocation
  <2>2. job.msg \in Uploads
    BY <1>6 DEF UpdateLocation
  <2>3. row' \in [Hashes -> Names \cup {None, "local"}]
    BY <1>6, <2>2 DEF UpdateLocation
  <2>4. \/ job' = Idle /\ moved' = moved \cup {job.msg}
        \/ job' = [job EXCEPT !.at = "report"] /\ moved' = moved
    BY <1>6 DEF UpdateLocation
  <2>5. CASE job' = Idle /\ moved' = moved \cup {job.msg}
    BY <1>6, <2>1, <2>2, <2>3, <2>5 DEF UpdateLocation, Idle
  <2>6. CASE job' = [job EXCEPT !.at = "report"] /\ moved' = moved
    <3>1. job' \in JobType /\ job'.msg = job.msg
      BY <2>6, JobStep DEF JobType
    <3> QED BY <1>6, <2>1, <2>2, <2>3, <2>6, <3>1 DEF UpdateLocation, JobType
  <2> QED BY <2>4, <2>5, <2>6
<1>7. CASE ReportJob
  <2>1. faults' \in [FaultKinds -> Nat]
    BY <1>7, FaultType, KindsOfFault DEF ReportJob
  <2> QED BY <1>7, <2>1 DEF ReportJob, Idle
<1>8. CASE TransferCrash
  <2>1. faults' \in [FaultKinds -> Nat]
    BY <1>8, FaultType, KindsOfFault DEF TransferCrash
  <2>2. <<>> \in Seq(Uploads)
    OBVIOUS
  <2> QED BY <1>8, <2>1, <2>2 DEF TransferCrash, Idle
<1> QED BY <1>1, <1>2, <1>3, <1>4, <1>5, <1>6, <1>7, <1>8 DEF Transfer

DownType == [at : {"idle", "fetch", "over"},
             addr : Names \cup {None, "local", "guess"},
             got : {"nothing", "all", "bad", "error"}]

LEMMA DownStep ==
  ASSUME down \in [Downloads -> DownType], NEW d \in Downloads,
         NEW r \in DownType, r.at = "over",
         down' = [down EXCEPT ![d] = r]
  PROVE  /\ down' \in [Downloads -> DownType]
         /\ \A e \in Downloads : down'[e].at = "fetch" => down'[e] = down[e]
<1>1. down' \in [Downloads -> DownType]
  OBVIOUS
<1>2. ASSUME NEW e \in Downloads, down'[e].at = "fetch" PROVE down'[e] = down[e]
  BY <1>2
<1> QED BY <1>1, <1>2

\* What a download's step has to show: it leaves the stores alone.
LEMMA DownTypeOK ==
  ASSUME TypeOK, UNCHANGED <<local, oss, tables, pc, broker, transfer>>,
         faults' \in [FaultKinds -> Nat], down' \in [Downloads -> DownType],
         \A e \in Downloads : down'[e].at = "fetch" => down'[e].addr # None
  PROVE  TypeOK'
BY DEF TypeOK, tables, broker, transfer, DownType

\* The record a download's last step makes.
LEMMA OverRecord ==
  ASSUME NEW r \in DownType, NEW x \in {"nothing", "all", "bad", "error"}
  PROVE  /\ [r EXCEPT !.at = "over"] \in DownType
         /\ [r EXCEPT !.at = "over"].at = "over"
         /\ [r EXCEPT !.at = "over", !.got = x] \in DownType
         /\ [r EXCEPT !.at = "over", !.got = x].at = "over"
BY DEF DownType

LEMMA DownloadType ==
  ASSUME TypeOK, NEW d \in Downloads, Download(d)
  PROVE  TypeOK'
<1> USE PipelineAssumption
<1>1. UNCHANGED <<local, oss, tables, pc, broker, transfer>>
  BY DEF Download, ReadRow, DownloadURL, RangeDownload, ReadRowFails, Fetch,
         FetchFails
<1>2. faults' \in [FaultKinds -> Nat]
  BY FaultType, KindsOfFault DEF Download, ReadRow, DownloadURL, RangeDownload, ReadRowFails, Fetch,
         FetchFails, TypeOK
<1>3. /\ down \in [Downloads -> DownType]
      /\ \A e \in Downloads : down[e].at = "fetch" => down[e].addr # None
  BY DEF TypeOK, DownType
<1>4. CASE ReadRow(d) \/ DownloadURL(d) \/ RangeDownload(d)
  <2>1. row[WantedBy[d]] \in Names \cup {None, "local"}
    BY DEF TypeOK
  <2>2. CASE \E a \in Names \cup {"local", "guess"} : ReadFrom(d, a)
    <3>1. PICK a \in Names \cup {"local", "guess"} :
             down' = [down EXCEPT ![d] = [at |-> "fetch", addr |-> a, got |-> "nothing"]]
      BY <2>2 DEF ReadFrom
    <3>2. /\ down' \in [Downloads -> DownType]
          /\ \A e \in Downloads : down'[e].at = "fetch" => down'[e].addr # None
      BY <1>3, <3>1 DEF DownType
    <3> QED BY <1>1, <1>2, <3>2, DownTypeOK
  <2>3. CASE UNCHANGED down
    BY <1>1, <1>2, <1>3, <2>3, DownTypeOK
  <2>4. (\E a \in Names \cup {"local", "guess"} : ReadFrom(d, a)) \/ UNCHANGED down
    BY <1>4, <2>1 DEF ReadRow, DownloadURL, RangeDownload
  <2> QED BY <2>2, <2>3, <2>4
<1>5. CASE ReadRowFails(d)
  <2>1. down' = [down EXCEPT ![d] = [down[d] EXCEPT !.at = "over"]]
    BY <1>5 DEF ReadRowFails
  <2>2. /\ [down[d] EXCEPT !.at = "over"] \in DownType
        /\ [down[d] EXCEPT !.at = "over"].at = "over"
    <3>1. down[d] \in DownType
      BY <1>3
    <3> QED BY <3>1, OverRecord
  <2>3. /\ down' \in [Downloads -> DownType]
        /\ \A e \in Downloads : down'[e].at = "fetch" => down'[e] = down[e]
    BY <1>3, <2>1, <2>2, DownStep
  <2> QED BY <1>1, <1>2, <1>3, <2>3, DownTypeOK
<1>6. CASE Fetch(d)
  <2> DEFINE c == Contents(down[d].addr, WantedBy[d])
  <2>1. c \in {"nothing", "all", "bad", "error"}
    BY DEF Contents
  <2>2. down' = [down EXCEPT ![d] = [down[d] EXCEPT !.at = "over", !.got = c]]
    BY <1>6 DEF Fetch
  <2>3. /\ [down[d] EXCEPT !.at = "over", !.got = c] \in DownType
        /\ [down[d] EXCEPT !.at = "over", !.got = c].at = "over"
    <3>1. down[d] \in DownType
      BY <1>3
    <3> HIDE DEF c
    <3> QED BY <2>1, <3>1, OverRecord
  <2>4. /\ down' \in [Downloads -> DownType]
        /\ \A e \in Downloads : down'[e].at = "fetch" => down'[e] = down[e]
    <3> HIDE DEF c
    <3> QED BY <1>3, <2>2, <2>3, DownStep
  <2> QED BY <1>1, <1>2, <1>3, <2>4, DownTypeOK
<1>7. CASE FetchFails(d)
  <2>1. down' = [down EXCEPT ![d] = [down[d] EXCEPT !.at = "over", !.got = "error"]]
    BY <1>7 DEF FetchFails
  <2>2. /\ [down[d] EXCEPT !.at = "over", !.got = "error"] \in DownType
        /\ [down[d] EXCEPT !.at = "over", !.got = "error"].at = "over"
    <3>1. down[d] \in DownType
      BY <1>3
    <3> QED BY <3>1, OverRecord
  <2>3. /\ down' \in [Downloads -> DownType]
        /\ \A e \in Downloads : down'[e].at = "fetch" => down'[e] = down[e]
    BY <1>3, <2>1, <2>2, DownStep
  <2> QED BY <1>1, <1>2, <1>3, <2>3, DownTypeOK
<1> QED BY <1>4, <1>5, <1>6, <1>7 DEF Download

\* Each store, each request and the running transfer have their type in every
\* reachable state.
THEOREM PipelineTypes == Spec => []TypeOK
<1>1. Init => TypeOK
  BY PipelineAssumption DEF Init, TypeOK, Idle
<1>2. TypeOK /\ [Next]_vars => TypeOK'
  <2> SUFFICES ASSUME TypeOK, [Next]_vars PROVE TypeOK'
    OBVIOUS
  <2>1. CASE UploadCrash
    <3>1. faults' \in [FaultKinds -> Nat]
      BY <2>1, FaultType, KindsOfFault DEF UploadCrash
    <3> QED BY <2>1, <3>1
            DEF UploadCrash, TypeOK, UploadOver, tables, broker, transfer
  <2>2. CASE UNCHANGED vars
    BY <2>2 DEF vars, tables, broker, transfer, TypeOK
  <2> QED BY <2>1, <2>2, UploadType, TransferType, DownloadType DEF Next
<1> QED BY <1>1, <1>2, PTL DEF Spec

(***************************************************************************)
(* Addresses resolve.  An upload that has got past os.Create has its file  *)
(* on the disk, and a transfer about to change the row has its object on   *)
(* OSS; nothing is ever taken away from either store.                      *)
(***************************************************************************)
HasFile(u) == \/ pc[u] \in {"write", "publish", "regfile"}
              \/ pc[u] \in {"reguser", "lastuser"} /\ KindOf[u] # "fast"

FileBeforeRow == \A u \in Uploads : HasFile(u) => local[HashOf[u]] # "absent"

ObjectBeforeRow == job.at = "update" => oss[NameOf[job.msg]] # None

AddressInv == FileBeforeRow /\ ObjectBeforeRow /\ AddressesResolve

\* No step removes a merged file or an object.
StoresKeep ==
  /\ \A h \in Hashes : local[h] # "absent" => local'[h] # "absent"
  /\ \A n \in Names : oss[n] # None => oss'[n] # None

LEMMA NothingIsRemoved ==
  ASSUME TypeOK, [Next]_vars
  PROVE  StoresKeep
<1> USE DEF StoresKeep
<1>1. ASSUME NEW u \in Uploads, CreateFile(u) \/ WriteFile(u) PROVE StoresKeep
  BY <1>1 DEF CreateFile, WriteFile, TypeOK
<1>2. CASE PutObject
  <2>1. PICK b \in BOOLEAN : b = (job.all /\ local[HashOf[job.msg]] = "all")
    OBVIOUS
  <2>2. oss' = [oss EXCEPT ![NameOf[job.msg]] =
                  [hash |-> HashOf[job.msg], all |-> b]]
    BY <1>2, <2>1 DEF PutObject
  <2>3. job.msg \in Uploads
    BY <1>2, PipelineAssumption DEF PutObject, TypeOK
  <2>4. [hash |-> HashOf[job.msg], all |-> b] # None
    BY <2>3, PipelineAssumption DEF Object
  <2> QED BY <1>2, <2>2, <2>4 DEF PutObject, TypeOK
<1>3. ASSUME UNCHANGED <<local, oss>> PROVE StoresKeep
  BY <1>3
<1> QED
  BY <1>1, <1>2, <1>3
     DEF Next, Upload, UploadFails, FileFails, PublishJob, RegisterFile,
         RegisterUserFile, SessionFails, FindFile, Deliver, Transfer, TakeJob,
         ReadHead, PutFails, UpdateLocation, ReportJob, Download, ReadRow,
         DownloadURL, RangeDownload, ReadRowFails, Fetch, FetchFails, UploadCrash, TransferCrash, vars

LEMMA UploadAddress ==
  ASSUME TypeOK, AddressInv, StoresKeep, NEW u \in Uploads,
         Upload(u) \/ UploadFails(u)
  PROVE  AddressInv'
<1> USE PipelineAssumption
<1>1. UNCHANGED <<job, down>>
  BY DEF Upload, UploadFails, CreateFile, WriteFile, FileFails, PublishJob,
         RegisterFile, RegisterUserFile, SessionFails, FindFile, transfer
<1>2. ObjectBeforeRow'
  BY <1>1 DEF AddressInv, ObjectBeforeRow, StoresKeep, TypeOK
<1>3. \A v \in Uploads \ {u} : pc'[v] = pc[v]
  BY DEF Upload, UploadFails, CreateFile, WriteFile, FileFails, PublishJob,
         RegisterFile, RegisterUserFile, SessionFails, FindFile, Goto, TypeOK
<1>4. HasFile(u)' => local'[HashOf[u]] # "absent"
  <2> USE DEF HasFile, Goto, TypeOK, AddressInv, FileBeforeRow, StoresKeep
  <2>1. CASE CreateFile(u)   BY <2>1 DEF CreateFile
  <2>2. CASE WriteFile(u)    BY <2>2 DEF WriteFile
  <2>3. CASE FileFails(u)    BY <2>3 DEF FileFails
  <2>4. CASE PublishJob(u)   BY <2>4 DEF PublishJob
  <2>5. CASE RegisterFile(u) BY <2>5 DEF RegisterFile
  <2>6. CASE RegisterUserFile(u)
    BY <2>6 DEF RegisterUserFile, After
  <2>7. CASE SessionFails(u) BY <2>7 DEF SessionFails
  <2>8. CASE FindFile(u)     BY <2>8 DEF FindFile
  <2> QED BY <2>1, <2>2, <2>3, <2>4, <2>5, <2>6, <2>7, <2>8
          DEF Upload, UploadFails
<1>5. FileBeforeRow'
  BY <1>3, <1>4 DEF AddressInv, FileBeforeRow, HasFile, StoresKeep
<1>6. \A h \in Hashes : row'[h] # None =>
         /\ IF row'[h] = "local" THEN local'[h] # "absent" ELSE oss'[row'[h]] # None
         /\ local'[h] # "absent"
  <2>1. CASE RegisterFile(u)
    <3>1. local'[HashOf[u]] # "absent"
      BY <2>1 DEF RegisterFile, AddressInv, FileBeforeRow, HasFile
    <3>2. \A h \in Hashes : \/ row'[h] = row[h]
                            \/ h = HashOf[u] /\ row'[h] = "local"
      <4>1. row' = row \/ row' = [row EXCEPT ![HashOf[u]] = "local"]
        BY <2>1 DEF RegisterFile
      <4>2. row \in [Hashes -> Names \cup {None, "local"}]
        BY DEF TypeOK
      <4> QED BY <4>1, <4>2
    <3> QED BY <3>1, <3>2
            DEF AddressInv, AddressesResolve, Exists, StoresKeep, TypeOK
  <2>2. CASE UNCHANGED row
    BY <2>2 DEF AddressInv, AddressesResolve, Exists, StoresKeep, TypeOK
  <2> QED
    BY <2>1, <2>2
       DEF Upload, UploadFails, CreateFile, WriteFile, FileFails, PublishJob,
           RegisterUserFile, SessionFails, FindFile, tables
<1>7. AddressesResolve'
  <2>1. \A d \in Downloads : down'[d].at = "fetch" /\ down'[d].addr # "guess" =>
          Exists(down[d].addr, WantedBy[d])'
    BY <1>1 DEF AddressInv, AddressesResolve, Exists, StoresKeep, TypeOK
  <2> QED BY <1>6, <2>1 DEF AddressesResolve, Exists
<1> QED BY <1>2, <1>5, <1>7 DEF AddressInv

LEMMA TransferAddress ==
  ASSUME TypeOK, AddressInv, StoresKeep,
         Deliver \/ Transfer \/ PutFails \/ TransferCrash
  PROVE  AddressInv'
<1> USE PipelineAssumption
<1>1. UNCHANGED <<pc, down>>
  BY DEF Deliver, Transfer, PutFails, TransferCrash, TakeJob, ReadHead, PutObject,
         UpdateLocation, ReportJob
<1>2. FileBeforeRow'
  BY <1>1 DEF AddressInv, FileBeforeRow, HasFile, StoresKeep
<1>3. ObjectBeforeRow'
  <2>1. CASE PutObject
    <3>1. job.msg \in Uploads /\ job'.msg = job.msg
      BY <2>1 DEF PutObject, TypeOK
    <3>2. \E x \in Object : oss'[NameOf[job.msg]] = x
      <4>1. PICK b \in BOOLEAN : b = (job.all /\ local[HashOf[job.msg]] = "all")
        OBVIOUS
      <4>2. [hash |-> HashOf[job.msg], all |-> b] \in Object
        BY <3>1 DEF Object
      <4> QED BY <2>1, <3>1, <4>1, <4>2 DEF PutObject, TypeOK
    <3> QED BY <3>1, <3>2 DEF ObjectBeforeRow
  <2>2. CASE job'.at # "update"
    BY <2>2 DEF ObjectBeforeRow
  <2>3. CASE UNCHANGED <<job, oss>>
    BY <2>3 DEF AddressInv, ObjectBeforeRow
  <2>4. CASE UpdateLocation
    BY <2>2, <2>4 DEF UpdateLocation, Idle, TypeOK
  <2>5. CASE TakeJob
    <3>1. \E step \in {"head", "report"} :
             job' = [at |-> step, msg |-> Head(inbox), all |-> FALSE]
      BY <2>5 DEF TakeJob
    <3> QED BY <2>2, <3>1
  <2>6. CASE ReadHead
    <3>1. job'.at = "tail"
      BY <2>6 DEF ReadHead, TypeOK
    <3> QED BY <2>2, <3>1
  <2>7. CASE PutFails
    <3>1. job'.at = "report"
      BY <2>7 DEF PutFails, TypeOK
    <3> QED BY <2>2, <3>1
  <2>8. CASE ReportJob \/ TransferCrash
    BY <2>2, <2>8 DEF ReportJob, TransferCrash, Idle
  <2>9. CASE Deliver
    BY <2>3, <2>9 DEF Deliver, transfer
  <2> QED BY <2>1, <2>4, <2>5, <2>6, <2>7, <2>8, <2>9 DEF Transfer
<1>4. \A h \in Hashes : row'[h] # None =>
         /\ IF row'[h] = "local" THEN local'[h] # "absent" ELSE oss'[row'[h]] # None
         /\ local'[h] # "absent"
  <2>1. CASE UpdateLocation
    <3>1. job.msg \in Uploads
      BY <2>1 DEF UpdateLocation, TypeOK
    <3>2. NameOf[job.msg] \in Names /\ oss'[NameOf[job.msg]] # None
      BY <2>1, <3>1 DEF UpdateLocation, AddressInv, ObjectBeforeRow
    <3>3. \A h \in Hashes : \/ row'[h] = row[h]
                            \/ row[h] # None /\ row'[h] = NameOf[job.msg]
      <4>1. \/ row' = row
            \/ /\ row' = [row EXCEPT ![HashOf[job.msg]] = NameOf[job.msg]]
               /\ row[HashOf[job.msg]] # None
        BY <2>1 DEF UpdateLocation
      <4>2. row \in [Hashes -> Names \cup {None, "local"}]
        BY DEF TypeOK
      <4> QED BY <4>1, <4>2
    <3> SUFFICES ASSUME NEW h \in Hashes, row'[h] # None
                 PROVE  /\ IF row'[h] = "local" THEN local'[h] # "absent"
                           ELSE oss'[row'[h]] # None
                        /\ local'[h] # "absent"
      OBVIOUS
    <3>4. CASE row'[h] = row[h]
      BY <3>4 DEF AddressInv, AddressesResolve, Exists, StoresKeep, TypeOK
    <3>5. CASE row[h] # None /\ row'[h] = NameOf[job.msg]
      <4>1. local'[h] # "absent"
        BY <3>5 DEF AddressInv, AddressesResolve, Exists, StoresKeep, TypeOK
      <4> QED BY <3>2, <3>5, <4>1
    <3> QED BY <3>3, <3>4, <3>5
  <2>2. CASE UNCHANGED row
    BY <2>2 DEF AddressInv, AddressesResolve, Exists, StoresKeep, TypeOK
  <2> QED
    BY <2>1, <2>2
       DEF Deliver, Transfer, PutFails, TransferCrash, TakeJob, ReadHead,
           PutObject, ReportJob, tables
<1>5. AddressesResolve'
  <2>1. \A d \in Downloads : down'[d].at = "fetch" /\ down'[d].addr # "guess" =>
          Exists(down[d].addr, WantedBy[d])'
    BY <1>1 DEF AddressInv, AddressesResolve, Exists, StoresKeep, TypeOK
  <2> QED BY <1>4, <2>1 DEF AddressesResolve, Exists
<1> QED BY <1>2, <1>3, <1>5 DEF AddressInv

LEMMA DownloadAddress ==
  ASSUME TypeOK, AddressInv, NEW d \in Downloads, Download(d)
  PROVE  AddressInv'
<1>1. UNCHANGED <<local, oss, tables, pc, transfer>>
  BY DEF Download, ReadRow, DownloadURL, RangeDownload, ReadRowFails, Fetch,
         FetchFails
<1>2. FileBeforeRow' /\ ObjectBeforeRow'
  BY <1>1 DEF AddressInv, FileBeforeRow, ObjectBeforeRow, HasFile, transfer
<1>3. \A e \in Downloads : down'[e].at = "fetch" =>
         \/ down'[e] = down[e]
         \/ row[WantedBy[e]] # None /\ down'[e].addr \in {row[WantedBy[e]], "local"}
         \/ down'[e].addr = "guess"
  <2> USE DEF ReadFrom, TypeOK
  <2>1. CASE ReadRow(d)       BY <2>1 DEF ReadRow
  <2>2. CASE DownloadURL(d)
    <3>1. row[WantedBy[d]] \in Names => row[WantedBy[d]] # None
      BY PipelineAssumption
    <3> QED BY <2>2, <3>1 DEF DownloadURL
  <2>3. CASE RangeDownload(d) BY <2>3 DEF RangeDownload
  <2>4. CASE ReadRowFails(d)  BY <2>4 DEF ReadRowFails
  <2>5. CASE Fetch(d)         BY <2>5 DEF Fetch
  <2>6. CASE FetchFails(d)    BY <2>6 DEF FetchFails
  <2> QED BY <2>1, <2>2, <2>3, <2>4, <2>5, <2>6 DEF Download
<1>4. \A h \in Hashes : row[h] # None => Exists(row[h], h) /\ Exists("local", h)
  BY DEF AddressInv, AddressesResolve
<1>5. \A e \in Downloads : down'[e].at = "fetch" /\ down'[e].addr # "guess" =>
         Exists(down'[e].addr, WantedBy[e])
  <2> SUFFICES ASSUME NEW e \in Downloads, down'[e].at = "fetch", down'[e].addr # "guess"
               PROVE  Exists(down'[e].addr, WantedBy[e])
    OBVIOUS
  <2>1. CASE down'[e] = down[e]
    BY <2>1 DEF AddressInv, AddressesResolve
  <2>2. CASE row[WantedBy[e]] # None /\ down'[e].addr \in {row[WantedBy[e]], "local"}
    BY <2>2, <1>4, PipelineAssumption
  <2> QED BY <1>3, <2>1, <2>2
<1>6. AddressesResolve'
  BY <1>1, <1>4, <1>5 DEF AddressesResolve, Exists, tables
<1> QED BY <1>2, <1>6 DEF AddressInv

\* The invariant holds in every reachable state.
LEMMA Addresses == Spec => []AddressInv
<1>1. Init => AddressInv
  BY DEF Init, AddressInv, FileBeforeRow, ObjectBeforeRow, AddressesResolve,
         HasFile, Idle
<1>2. TypeOK /\ AddressInv /\ [Next]_vars => AddressInv'
  <2> SUFFICES ASSUME TypeOK, AddressInv, [Next]_vars PROVE AddressInv'
    OBVIOUS
  <2>1. StoresKeep
    BY NothingIsRemoved
  <2>2. CASE UploadCrash
    BY <2>2 DEF UploadCrash, AddressInv, FileBeforeRow, ObjectBeforeRow,
       AddressesResolve, Exists, HasFile, tables, transfer, TypeOK
  <2>3. CASE UNCHANGED vars
    BY <2>3 DEF vars, tables, transfer, AddressInv, FileBeforeRow,
       ObjectBeforeRow, AddressesResolve, Exists, HasFile
  <2> QED BY <2>1, <2>2, <2>3, UploadAddress, TransferAddress, DownloadAddress
          DEF Next
<1> QED BY <1>1, <1>2, PipelineTypes, PTL DEF Spec

\* Whatever fails or dies, the address in a row and the address a download has
\* read name a file on the disk or an object on OSS, and a file with a row has its
\* merged file for the range downloads.
THEOREM AddressesSafe == Spec => []AddressesResolve
<1>1. AddressInv => AddressesResolve
  BY DEF AddressInv
<1> QED BY <1>1, Addresses, PTL

(***************************************************************************)
(* Rows.                                                                   *)
(***************************************************************************)

\* A step changes a row only by making one, or by giving an OSS name to one.
LEMMA RowChanges ==
  ASSUME TypeOK, [Next]_vars, NEW h \in Hashes
  PROVE  \/ row'[h] = row[h]
         \/ row[h] = None /\ row'[h] = "local"
         \/ row[h] # None /\ row'[h] \in Names
<1> USE PipelineAssumption
<1>1. ASSUME NEW u \in Uploads, RegisterFile(u)
      PROVE  row'[h] = row[h] \/ (row[h] = None /\ row'[h] = "local")
  <2>1. \/ row' = row
        \/ row[HashOf[u]] = None /\ row' = [row EXCEPT ![HashOf[u]] = "local"]
    BY <1>1 DEF RegisterFile
  <2> QED BY <2>1 DEF TypeOK
<1>2. CASE UpdateLocation
  <2>1. job.msg \in Uploads
    BY <1>2 DEF UpdateLocation, TypeOK
  <2>2. \/ row' = row
        \/ /\ row[HashOf[job.msg]] # None
           /\ row' = [row EXCEPT ![HashOf[job.msg]] = NameOf[job.msg]]
    BY <1>2 DEF UpdateLocation
  <2>3. row \in [Hashes -> Names \cup {None, "local"}]
    BY DEF TypeOK
  <2> QED BY <2>1, <2>2, <2>3
<1>3. CASE UNCHANGED row
  BY <1>3
<1> QED
  BY <1>1, <1>2, <1>3
     DEF Next, Upload, UploadFails, CreateFile, WriteFile, FileFails, PublishJob,
         RegisterUserFile, SessionFails, FindFile, Deliver, Transfer, TakeJob,
         ReadHead, PutObject, PutFails, ReportJob, Download, ReadRow,
         DownloadURL, RangeDownload, ReadRowFails, Fetch, FetchFails, UploadCrash, TransferCrash, vars, tables

\* A row that names an object on OSS goes on naming one, whatever fails and
\* whoever uploads the file again.
THEOREM MovedRowsStay == Spec => RowsStayMoved
<1>1. TypeOK /\ [Next]_vars =>
        [\A h \in Hashes : row[h] \in Names => row'[h] \in Names]_vars
  BY RowChanges, PipelineAssumption
<1> QED BY <1>1, PipelineTypes, PTL DEF Spec, RowsStayMoved

(***************************************************************************)
(* Faults are counted: what never happened had not happened a step before, *)
(* and does not happen in the step.                                        *)
(***************************************************************************)
LEMMA FaultCounts ==
  ASSUME TypeOK, NEW k \in FaultKinds, Fault(k)
  PROVE  faults'[k] # 0
BY DEF TypeOK, Fault

LEMMA FaultOrNone ==
  ASSUME [Next]_vars
  PROVE  UNCHANGED faults \/ \E k \in FaultKinds : Fault(k)
<1>1. ASSUME NEW o \in DbOutcomes, DbFault(o)
      PROVE  UNCHANGED faults \/ \E k \in FaultKinds : Fault(k)
  BY <1>1, KindsOfFault DEF DbFault, DbOutcomes
<1>2. ASSUME NEW u \in Uploads, Upload(u) \/ UploadFails(u)
      PROVE  UNCHANGED faults \/ \E k \in FaultKinds : Fault(k)
  BY <1>1, <1>2, KindsOfFault
     DEF Upload, UploadFails, CreateFile, WriteFile, FileFails, PublishJob,
         RegisterFile, RegisterUserFile, SessionFails, FindFile
<1>3. CASE Transfer \/ PutFails
  BY <1>1, <1>3, KindsOfFault
     DEF Transfer, TakeJob, ReadHead, PutObject, PutFails, UpdateLocation, ReportJob
<1> QED
  BY <1>2, <1>3, KindsOfFault
     DEF Next, Deliver, Download, ReadRow, DownloadURL, RangeDownload, ReadRowFails, Fetch, FetchFails, UploadCrash,
         TransferCrash, vars

LEMMA NeverBefore ==
  ASSUME TypeOK, [Next]_vars, NEW kinds \in SUBSET FaultKinds, Never(kinds)'
  PROVE  Never(kinds)
<1>1. CASE UNCHANGED faults  BY <1>1 DEF Never
<1>2. ASSUME NEW k \in FaultKinds, Fault(k) PROVE Never(kinds)
  BY <1>2, FaultCounts DEF Never, Fault, TypeOK
<1> QED BY <1>1, <1>2, FaultOrNone

(***************************************************************************)
(* Owners.  Only a multipart upload goes on to the user's row without the  *)
(* file's, and it is answered with an error.                               *)
(***************************************************************************)
RowBeforeOwner ==
  \A u \in Uploads :
    /\ pc[u] = "reguser" => row[HashOf[u]] # None
    /\ pc[u] = "lastuser" => KindOf[u] = "multi"

OwnedOrFailed ==
  \A u \in Users, h \in Hashes :
    <<u, h>> \in owns => row[h] # None \/ NotRegistered(u, h)

\* A fast upload writes neither a file nor its row.
FastSkips ==
  \A u \in Uploads : KindOf[u] = "fast" =>
    pc[u] \notin {"write", "publish", "regfile", "lastuser"}

OwnerInv       == RowBeforeOwner /\ FastSkips /\ OwnedOrFailed
OwnerUnlessSql == Never({"sql"}) => OwnerInv

\* A multipart upload that went on or ended without a row stays so.
LEMMA StaysFailed ==
  ASSUME TypeOK, NEW u \in Users, NEW h \in Hashes, NotRegistered(u, h),
         \A m \in Uploads : pc[m] \in {"lastuser", "failed", "gone"}
                              => pc'[m] \in {"lastuser", "failed", "gone"}
  PROVE  NotRegistered(u, h)'
BY DEF NotRegistered

LEMMA FailedStays ==
  ASSUME TypeOK, [Next]_vars, NEW m \in Uploads,
         pc[m] \in {"lastuser", "failed", "gone"}
  PROVE  pc'[m] \in {"lastuser", "failed", "gone"}
<1>1. ASSUME NEW v \in Uploads, Upload(v) \/ UploadFails(v)
      PROVE  pc'[m] \in {"lastuser", "failed", "gone"}
  <2>1. CASE v # m
    BY <1>1, <2>1 DEF Upload, UploadFails, CreateFile, WriteFile, FileFails,
       PublishJob, RegisterFile, RegisterUserFile, SessionFails, FindFile, Goto, TypeOK
  <2>2. CASE v = m
    BY <1>1, <2>2 DEF Upload, UploadFails, CreateFile, WriteFile, FileFails,
       PublishJob, RegisterFile, RegisterUserFile, SessionFails, FindFile, Goto, TypeOK
  <2> QED BY <2>1, <2>2
<1>2. CASE UploadCrash
  BY <1>2 DEF UploadCrash
<1>3. CASE UNCHANGED pc
  BY <1>3
<1> QED
  BY <1>1, <1>2, <1>3
     DEF Next, Deliver, Transfer, TakeJob, ReadHead, PutObject, PutFails,
         UpdateLocation, ReportJob, Download, ReadRow, DownloadURL, RangeDownload, ReadRowFails, Fetch, FetchFails,
         TransferCrash, vars

LEMMA UploadOwner ==
  ASSUME TypeOK, OwnerInv, Never({"sql"})', NEW u \in Uploads,
         Upload(u) \/ UploadFails(u),
         \A h \in Hashes : row[h] # None => row'[h] # None,
         \A m \in Uploads : pc[m] \in {"lastuser", "failed", "gone"}
                              => pc'[m] \in {"lastuser", "failed", "gone"}
  PROVE  OwnerInv'
<1> USE PipelineAssumption
<1>1. \A v \in Uploads \ {u} : pc'[v] = pc[v]
  BY DEF Upload, UploadFails, CreateFile, WriteFile, FileFails, PublishJob,
         RegisterFile, RegisterUserFile, SessionFails, FindFile, Goto, TypeOK
<1>2. /\ pc'[u] = "reguser" => row'[HashOf[u]] # None
      /\ pc'[u] = "lastuser" => KindOf[u] = "multi"
  <2> USE DEF Goto, TypeOK
  <2>1. CASE CreateFile(u)   BY <2>1 DEF CreateFile
  <2>2. CASE WriteFile(u)    BY <2>2 DEF WriteFile, After
  <2>3. CASE FileFails(u)    BY <2>3 DEF FileFails
  <2>4. CASE PublishJob(u)   BY <2>4 DEF PublishJob, After
  <2>5. CASE RegisterFile(u)
    <3>1. PICK o \in DbOutcomes :
             /\ DbFault(o)
             /\ row' = IF RowWritten(o) /\ row[HashOf[u]] = None
                         THEN [row EXCEPT ![HashOf[u]] = "local"] ELSE row
             /\ Goto(u, IF ~ RpcError(o) THEN "reguser"
                        ELSE IF KindOf[u] = "plain" THEN "failed" ELSE "lastuser")
      BY <2>5 DEF RegisterFile
    <3>2. o # "sqlfails"
      BY <3>1, FaultCounts, KindsOfFault DEF DbFault, Never
    <3>3. KindOf[u] # "fast"
      BY <2>5 DEF RegisterFile, OwnerInv, FastSkips
    <3> QED BY <3>1, <3>2, <3>3 DEF DbOutcomes, RowWritten, RpcError
  <2>6. CASE RegisterUserFile(u)
    BY <2>6 DEF RegisterUserFile, After
  <2>7. CASE SessionFails(u) BY <2>7 DEF SessionFails
  <2>8. CASE FindFile(u)     BY <2>8 DEF FindFile, tables
  <2> QED BY <2>1, <2>2, <2>3, <2>4, <2>5, <2>6, <2>7, <2>8
          DEF Upload, UploadFails
<1>3. RowBeforeOwner'
  BY <1>1, <1>2 DEF OwnerInv, RowBeforeOwner
<1>4. OwnedOrFailed'
  <2> SUFFICES ASSUME NEW v \in Users, NEW h \in Hashes, <<v, h>> \in owns'
               PROVE  row'[h] # None \/ NotRegistered(v, h)'
    BY DEF OwnedOrFailed
  <2>1. CASE <<v, h>> \in owns
    <3>1. CASE row[h] # None        BY <3>1
    <3>2. CASE NotRegistered(v, h)  BY <3>2, StaysFailed
    <3> QED BY <2>1, <3>1, <3>2 DEF OwnerInv, OwnedOrFailed
  <2>2. CASE <<v, h>> \notin owns
    <3>1. /\ RegisterUserFile(u)
          /\ owns' \subseteq owns \cup {<<UserOf[u], HashOf[u]>>}
      BY <2>2 DEF Upload, UploadFails, CreateFile, WriteFile, FileFails,
         PublishJob, RegisterFile, RegisterUserFile, SessionFails, FindFile, tables
    <3>2. v = UserOf[u] /\ h = HashOf[u]
      BY <2>2, <3>1
    <3>3. CASE pc[u] = "reguser"
      BY <3>2, <3>3 DEF OwnerInv, RowBeforeOwner
    <3>4. CASE pc[u] = "lastuser"
      <4>1. NotRegistered(v, h)
        BY <3>2, <3>4 DEF OwnerInv, RowBeforeOwner, NotRegistered
      <4> QED BY <4>1, StaysFailed
    <3> QED BY <3>1, <3>3, <3>4 DEF RegisterUserFile
  <2> QED BY <2>1, <2>2
<1>5. KindOf[u] = "fast" => pc'[u] \notin {"write", "publish", "regfile", "lastuser"}
  BY DEF Upload, UploadFails, CreateFile, WriteFile, FileFails, PublishJob,
         RegisterFile, RegisterUserFile, SessionFails, FindFile, Goto, After,
         TypeOK, OwnerInv, FastSkips
<1>6. FastSkips'
  BY <1>1, <1>5 DEF OwnerInv, FastSkips
<1> QED BY <1>3, <1>4, <1>6 DEF OwnerInv

\* While no SQL statement fails unnoticed, a user who has a file finds its
\* row, or made the failing multipart upload that left it out.
THEOREM OwnersSafe == Spec => []OwnedHasRow
<1>1. Init => OwnerUnlessSql
  BY DEF Init, OwnerUnlessSql, OwnerInv, RowBeforeOwner, FastSkips, OwnedOrFailed
<1>2. TypeOK /\ OwnerUnlessSql /\ [Next]_vars => OwnerUnlessSql'
  <2> SUFFICES ASSUME TypeOK, OwnerUnlessSql, [Next]_vars, Never({"sql"})'
               PROVE  OwnerInv'
    BY DEF OwnerUnlessSql
  <2>0. OwnerInv
    BY NeverBefore, KindsOfFault DEF OwnerUnlessSql
  <2>1. \A h \in Hashes : row[h] # None => row'[h] # None
    BY RowChanges, PipelineAssumption
  <2>2. \A m \in Uploads : pc[m] \in {"lastuser", "failed", "gone"}
                             => pc'[m] \in {"lastuser", "failed", "gone"}
    BY FailedStays
  <2>3. ASSUME UNCHANGED owns,
               \A m \in Uploads : pc'[m] \in {pc[m], "gone"}
        PROVE  OwnerInv'
    <3>1. OwnedOrFailed'
      BY <2>0, <2>1, <2>2, <2>3, StaysFailed DEF OwnerInv, OwnedOrFailed
    <3>2. RowBeforeOwner' /\ FastSkips'
      BY <2>0, <2>1, <2>3, PipelineAssumption
         DEF OwnerInv, RowBeforeOwner, FastSkips
    <3> QED BY <3>1, <3>2 DEF OwnerInv
  <2>4. CASE UploadCrash
    BY <2>3, <2>4 DEF UploadCrash, tables
  <2>5. CASE UNCHANGED <<pc, owns>>
    BY <2>3, <2>5
  <2>6. ASSUME NEW u \in Uploads, Upload(u) \/ UploadFails(u) PROVE OwnerInv'
    BY <2>0, <2>1, <2>2, <2>6, UploadOwner
  <2> QED
    BY <2>4, <2>5, <2>6
       DEF Next, Deliver, Transfer, TakeJob, ReadHead, PutObject, PutFails,
           UpdateLocation, ReportJob, Download, ReadRow, DownloadURL, RangeDownload, ReadRowFails, Fetch, FetchFails,
           TransferCrash, vars, tables
<1>3. OwnerUnlessSql => OwnedHasRow
  BY DEF OwnerUnlessSql, OwnerInv, OwnedOrFailed, OwnedHasRow
<1> QED BY <1>1, <1>2, <1>3, PipelineTypes, PTL DEF Spec

(***************************************************************************)
(* Messages.                                                               *)
(***************************************************************************)
JobsAreKept == Never({"crash", "mq"})

LEMMA NoCrashNoMq ==
  ASSUME TypeOK, JobsAreKept'
  PROVE  ~ Fault("crash") /\ ~ Fault("mq")
BY FaultCounts, KindsOfFault DEF JobsAreKept, Never

LEMMA ElementsOfAppend ==
  ASSUME NEW s \in Seq(Uploads), NEW u \in Uploads
  PROVE  Elements(Append(s, u)) = Elements(s) \cup {u}
BY DEF Elements

LEMMA ElementsOfTail ==
  ASSUME NEW s \in Seq(Uploads), s # <<>>
  PROVE  Elements(s) = {Head(s)} \cup Elements(Tail(s))
<1>1. Len(s) \in Nat \ {0} /\ Len(Tail(s)) = Len(s) - 1 /\ Head(s) = s[1]
  OBVIOUS
<1>2. \A i \in 1..Len(Tail(s)) : Tail(s)[i] = s[i + 1]
  OBVIOUS
<1>3. Elements(Tail(s)) \subseteq Elements(s) /\ Head(s) \in Elements(s)
  BY <1>1, <1>2 DEF Elements
<1>4. ASSUME NEW i \in 1..Len(s) PROVE s[i] \in {Head(s)} \cup Elements(Tail(s))
  <2>1. CASE i = 1  BY <1>1, <2>1
  <2>2. CASE i # 1
    <3>1. i - 1 \in 1..Len(Tail(s)) /\ Tail(s)[i - 1] = s[i]
      BY <1>1, <1>2, <2>2
    <3> QED BY <3>1 DEF Elements
  <2> QED BY <2>1, <2>2
<1> QED BY <1>3, <1>4 DEF Elements

\* A message stays somewhere.
LEMMA JobsStay ==
  ASSUME TypeOK, JobsAreKept', [Next]_vars, NEW u \in Uploads, Accounted(u)
  PROVE  Accounted(u)'
<1> USE PipelineAssumption DEF Accounted
<1>1. ASSUME NEW v \in Uploads, PublishJob(v) PROVE Accounted(u)'
  <2>1. queue' = Append(queue, v) \/ queue' = queue
    BY <1>1 DEF PublishJob
  <2>2. queue \in Seq(Uploads)
    BY DEF TypeOK
  <2>3. CASE queue' = queue
    BY <1>1, <2>3 DEF PublishJob, transfer
  <2>4. CASE queue' = Append(queue, v)
    <3>1. Elements(queue') = Elements(queue) \cup {v}
      BY <2>2, <2>4, ElementsOfAppend
    <3> QED BY <1>1, <3>1 DEF PublishJob, transfer
  <2> QED BY <2>1, <2>3, <2>4
<1>2. CASE Deliver
  <2>1. /\ Elements(inbox') = Elements(inbox) \cup {Head(queue)}
        /\ Elements(queue) = {Head(queue)} \cup Elements(queue')
    BY <1>2, ElementsOfAppend, ElementsOfTail DEF Deliver, TypeOK
  <2> QED BY <1>2, <2>1 DEF Deliver, transfer
<1>3. CASE TakeJob
  <2>1. Elements(inbox) = {Head(inbox)} \cup Elements(inbox')
    BY <1>3, ElementsOfTail DEF TakeJob, TypeOK
  <2>2. job'.msg = Head(inbox) /\ job.msg = None
    BY <1>3 DEF TakeJob, Idle
  <2> QED BY <1>3, <2>1, <2>2 DEF TakeJob
<1>4. CASE ReadHead \/ PutObject \/ PutFails
  <2>1. job'.msg = job.msg
    BY <1>4 DEF ReadHead, PutObject, PutFails, TypeOK
  <2> QED BY <1>4, <2>1 DEF ReadHead, PutObject, PutFails, broker
<1>5. CASE UpdateLocation
  <2>1. \/ moved' = moved \cup {job.msg}
        \/ job'.msg = job.msg /\ moved' = moved
    BY <1>5 DEF UpdateLocation, TypeOK
  <2> QED BY <1>5, <2>1 DEF UpdateLocation, broker
<1>6. CASE ReportJob
  <2>1. errq' = errq \cup {job.msg}
    BY <1>6, NoCrashNoMq DEF ReportJob
  <2> QED BY <1>6, <2>1 DEF ReportJob
<1>7. ~ TransferCrash
  BY NoCrashNoMq DEF TransferCrash
<1>8. ASSUME UNCHANGED <<broker, transfer>> PROVE Accounted(u)'
  BY <1>8 DEF broker, transfer
<1> QED
  BY <1>1, <1>2, <1>3, <1>4, <1>5, <1>6, <1>7, <1>8
     DEF Next, Upload, UploadFails, CreateFile, WriteFile, FileFails,
         RegisterFile, RegisterUserFile, SessionFails, FindFile, Transfer,
         Download, ReadRow, DownloadURL, RangeDownload, ReadRowFails, Fetch, FetchFails, UploadCrash, vars

\* Only PublishJob makes a message published.
LEMMA PublishedByQueue ==
  ASSUME TypeOK, JobsAreKept', [Next]_vars, NEW u \in Uploads, Published(u)'
  PROVE  Published(u) \/ u \in Elements(queue')
<1> USE PipelineAssumption
<1>1. CASE pc'[u] = pc[u]
  BY <1>1 DEF Published
<1>2. CASE PublishJob(u)
  <2>1. queue' = Append(queue, u)
    BY <1>2, NoCrashNoMq DEF PublishJob
  <2> QED BY <2>1, ElementsOfAppend DEF TypeOK
<1>3. CASE RegisterFile(u)
  BY <1>3 DEF RegisterFile, Published, Goto, TypeOK
<1>4. CASE RegisterUserFile(u)
  BY <1>4 DEF RegisterUserFile, Published, Goto, After, TypeOK
<1>5. CASE CreateFile(u) \/ WriteFile(u) \/ FileFails(u) \/ SessionFails(u)
           \/ FindFile(u)
  BY <1>5 DEF CreateFile, WriteFile, FileFails, SessionFails, FindFile, Published,
     Goto, After, TypeOK
<1>6. CASE UploadCrash
  BY <1>6 DEF UploadCrash, Published, TypeOK
<1>7. ASSUME NEW v \in Uploads \ {u}, Upload(v) \/ UploadFails(v)
      PROVE  pc'[u] = pc[u]
  BY <1>7 DEF Upload, UploadFails, CreateFile, WriteFile, FileFails, PublishJob,
     RegisterFile, RegisterUserFile, SessionFails, FindFile, Goto, TypeOK
<1>8. ASSUME UNCHANGED pc PROVE pc'[u] = pc[u]
  BY <1>8
<1>9. ASSUME NEW v \in Uploads, Upload(v) \/ UploadFails(v)
      PROVE  Published(u) \/ u \in Elements(queue')
  <2>1. CASE v = u
    BY <1>2, <1>3, <1>4, <1>5, <1>9, <2>1 DEF Upload, UploadFails
  <2>2. CASE v # u
    BY <1>1, <1>7, <1>9, <2>2
  <2> QED BY <2>1, <2>2
<1>10. \/ \E v \in Uploads : Upload(v) \/ UploadFails(v)
       \/ UploadCrash
       \/ UNCHANGED pc
  BY DEF Next, Deliver, Transfer, TakeJob, ReadHead, PutObject, PutFails,
         UpdateLocation, ReportJob, Download, ReadRow, DownloadURL, RangeDownload, ReadRowFails, Fetch, FetchFails,
         TransferCrash, vars
<1> QED BY <1>1, <1>6, <1>8, <1>9, <1>10

\* A published message waits, runs, was carried out or is in the error queue,
\* if the transfer service lives and no publish fails.
THEOREM JobsSafe == Spec => []NoJobLost
<1>1. Init => NoJobLost
  BY DEF Init, NoJobLost, Published
<1>2. TypeOK /\ NoJobLost /\ [Next]_vars => NoJobLost'
  <2> SUFFICES ASSUME TypeOK, NoJobLost, [Next]_vars, JobsAreKept',
                      NEW u \in Uploads, Published(u)'
               PROVE  Accounted(u)'
    BY DEF NoJobLost, JobsAreKept
  <2>1. JobsAreKept
    BY NeverBefore, KindsOfFault DEF JobsAreKept
  <2>2. CASE Published(u)
    BY <2>1, <2>2, JobsStay DEF NoJobLost, JobsAreKept
  <2>3. CASE u \in Elements(queue')
    BY <2>3 DEF Accounted, Elements
  <2> QED BY <2>2, <2>3, PublishedByQueue
<1> QED BY <1>1, <1>2, PipelineTypes, PTL DEF Spec

=============================================================================
