------------------------- MODULE PatchDelivery_proofs -------------------------
(***************************************************************************)
(* Proofs about the delivery of patches, for any number of calls, any      *)
(* names, contents and hashes, whichever files are rewritten or removed    *)
(* while the calls run.                                                    *)
(***************************************************************************)
EXTENDS PatchDelivery, SequenceTheorems, TLAPS

Places == {"idle", "fetch", "network", "store", "ensure", "write", "queued", "remove",
           "removeItem", "clear", "reset", "apply", "loadNamed", "loadData", "verifyFile",
           "readFile", "load", "failed", "done"}

Messages == {"none", "unable to read wasm file", "already loaded", "exceeds max_bytes",
             "invalid wasm magic", "sha256 mismatch", "m3_CallWithArgs"}

DeliveryTypeOK ==
  /\ directory \in BOOLEAN
  /\ file \in [File -> Content \cup {NoContent}]
  /\ call \in [Task -> Request \cup {NoRequest}]
  /\ at \in [Task -> Places]
  /\ data \in [Task -> Content \cup {NoContent}]
  /\ result \in [Task -> Errors \cup {"none", "path", "yes", "loaded"}]
  /\ mainQueue \in Seq(Task)
  /\ loaded \in Content \cup {NoContent}
  /\ message \in Messages

\* Where a call may be.
InPlace(t) ==
  /\ at[t] = "idle" <=> call[t] = NoRequest
  /\ at[t] \in {"fetch", "network", "queued"} => call[t].op = "fetch"
  /\ at[t] \in {"store", "ensure", "write"} => call[t].op \in {"fetch", "store"}
  /\ at[t] \in {"remove", "removeItem"} => call[t].op = "remove"
  /\ at[t] \in {"clear", "reset", "apply", "loadNamed", "loadData"} => call[t].op = at[t]
  /\ at[t] \in {"verifyFile", "readFile"} => call[t].op \in {"apply", "loadNamed"}
  /\ at[t] \in {"load", "failed"} => call[t].op \in {"apply", "loadNamed", "loadData"}

\* What was compared on the way to a write or a load is what the call still holds.
Compared(t) ==
  /\ at[t] \in {"network", "ensure", "write", "verifyFile", "readFile"} => call[t].name # NoName
  /\ at[t] \in {"ensure", "write"} => data[t] # NoContent /\ Matches(call[t].sha, data[t])
  /\ at[t] = "load" => data[t] # NoContent
  /\ at[t] = "load" /\ call[t].op = "loadData" /\ call[t].signature => data[t] \in Signed

\* There is a result when there is an answer, and for a load it is of what was pinned.
Answered(t) ==
  /\ result[t] # "none" <=> at[t] \in {"queued", "done"}
  /\ result[t] = "loaded" =>
       /\ call[t].sha \in {data[t], NoHash}
       /\ call[t].op = "loadData" /\ call[t].signature => data[t] \in Signed

TaskOK(t) == InPlace(t) /\ Compared(t) /\ Answered(t)

DeliveryInv ==
  /\ DeliveryTypeOK
  /\ \A t \in Task : TaskOK(t)
  /\ OneCompletion

-------------------------------------------------------------------------------
(* The calls, and the steps of one.                                          *)

LEMMA RequestFields ==
  ASSUME NEW r \in Request
  PROVE  /\ r.op \in {"fetch", "store", "remove", "clear", "reset", "apply", "loadNamed", "loadData"}
         /\ r.op \in {"fetch", "store"} => r.name \in Name \cup {NoName} /\ r.sha \in Hash
         /\ r.op \in {"remove", "apply"} => r.name \in Name
         /\ r.op \in {"store", "loadData"} => r.data \in Content \cup {NoContent}
         /\ r.op = "loadNamed" => r.name \in Name \cup {NoName}
  BY DeliveryAssumption DEF AnyRequest

Acts(t) ==
  \/ \E r \in Request : Call(t, r)
  \/ FetchPatch(t) \/ Respond(t) \/ StorePatchData(t) \/ EnsureCacheDirectory(t)
  \/ Write(t) \/ Complete(t)
  \/ RemoveCheck(t) \/ RemoveItem(t) \/ (\E f \in File : ClearFile(t, f)) \/ ClearEnds(t)
  \/ ApplyCheck(t) \/ LoadNamed(t) \/ VerifyFile(t) \/ VerifyData(t) \/ ReadFile(t)
  \/ RuntimeLoad(t) \/ ReportFailure(t) \/ Reset(t) \/ Take(t)

LEMMA NextActs == Next => \E t \in Task : Acts(t)
  BY DEF Next, StoreStep, RemoveStep, LoadStep, Acts

\* A step of one call leaves the others where they are.
LEMMA OthersStay ==
  ASSUME NEW t \in Task, Acts(t), DeliveryTypeOK, NEW u \in Task, u # t
  PROVE  at'[u] = at[u] /\ call'[u] = call[u] /\ data'[u] = data[u] /\ result'[u] = result[u]
  BY DEF Acts, DeliveryTypeOK, Goto, Continue, Finish, Call, Take, FetchPatch, Respond,
     StorePatchData, EnsureCacheDirectory, Write, Complete, RemoveCheck, RemoveItem, ClearFile,
     ClearEnds, ApplyCheck, LoadNamed, VerifyFile, VerifyData, ReadFile, RuntimeLoad,
     ReportFailure, Reset

-------------------------------------------------------------------------------
(* Types                                                                     *)

Results == Errors \cup {"none", "path", "yes", "loaded"}

FrameType ==
  /\ at \in [Task -> Places]
  /\ result \in [Task -> Results]
  /\ mainQueue \in Seq(Task)

LEMMA FinishType ==
  ASSUME NEW t \in Task, FrameType, NEW from, NEW res \in Results, Finish(t, from, res)
  PROVE  FrameType'
  BY DEF FrameType, Finish, Goto, Places

LEMMA ContinueType ==
  ASSUME NEW t \in Task, FrameType, NEW from, NEW to \in Places, Continue(t, from, to)
  PROVE  FrameType'
  BY DEF FrameType, Continue, Goto

LEMMA CodeType == \A m \in Messages : Code(m) \in Errors
  BY DEF Messages, Code, Errors

LEMMA PathType ==
  ASSUME NEW t \in Task, DeliveryTypeOK, TaskOK(t)
  PROVE  /\ at[t] \in {"ensure", "write", "remove", "removeItem", "apply"} => PathOf(t) \in File
         /\ at[t] \in {"verifyFile", "readFile"} => OnDisk(t) \in Content \cup {NoContent}
  <1>1. at[t] # "idle" => call[t] \in Request
    BY DEF DeliveryTypeOK, TaskOK, InPlace
  <1>2. ASSUME at[t] \in {"ensure", "write", "remove", "removeItem", "apply"}
        PROVE  PathOf(t) \in File
    BY <1>1, <1>2, RequestFields DEF PathOf, File, TaskOK, InPlace, Compared
  <1>3. ASSUME at[t] \in {"verifyFile", "readFile"}
        PROVE  OnDisk(t) \in Content \cup {NoContent}
    <2>1. CASE call[t].op = "apply"
      <3>1. PathOf(t) \in File
        BY <1>1, <1>3, <2>1, RequestFields DEF PathOf, File
      <3> QED BY <2>1, <3>1 DEF OnDisk, DeliveryTypeOK
    <2>2. CASE call[t].op = "loadNamed"
      BY <1>1, <1>3, <2>2, RequestFields, DeliveryAssumption DEF OnDisk, TaskOK, InPlace, Compared
    <2> QED BY <1>3, <2>1, <2>2 DEF TaskOK, InPlace
  <1> QED BY <1>2, <1>3

LEMMA TypeStep ==
  ASSUME NEW t \in Task, Acts(t), DeliveryTypeOK, TaskOK(t)
  PROVE  DeliveryTypeOK'
  <1> USE DEF Results, FrameType
  <1>1. FrameType
    BY DEF DeliveryTypeOK
  <1>2. ASSUME NEW r \in Request, Call(t, r) PROVE DeliveryTypeOK'
    <2>1. r.op \in Places /\ (r.op \in {"store", "loadData"} => r.data \in Content \cup {NoContent})
      BY RequestFields DEF Places
    <2> QED BY <1>2, <2>1 DEF Call, Goto, DeliveryTypeOK, cacheDir, runtimeVars
  <1>3. CASE Take(t)
    BY <1>3 DEF Take, Goto, DeliveryTypeOK, Places, cacheDir, runtimeVars
  <1>4. CASE FetchPatch(t)
    <2>1. FrameType'
      BY <1>1, <1>4, FinishType, ContinueType DEF FetchPatch, Errors, Places
    <2> QED BY <1>4, <2>1 DEF FetchPatch, DeliveryTypeOK, cacheDir, runtimeVars
  <1>5. CASE Respond(t)
    <2>1. FrameType'
      BY <1>1, <1>5, FinishType, ContinueType DEF Respond, Errors, Places
    <2> QED BY <1>5, <2>1 DEF Respond, DeliveryTypeOK, cacheDir, runtimeVars
  <1>6. CASE StorePatchData(t)
    <2>1. FrameType'
      BY <1>1, <1>6, FinishType, ContinueType DEF StorePatchData, Errors, Places
    <2> QED BY <1>6, <2>1 DEF StorePatchData, DeliveryTypeOK, cacheDir, runtimeVars
  <1>7. CASE EnsureCacheDirectory(t)
    <2>1. FrameType'
      BY <1>1, <1>7, FinishType, ContinueType DEF EnsureCacheDirectory, Errors, Places
    <2> QED BY <1>7, <2>1 DEF EnsureCacheDirectory, DeliveryTypeOK, runtimeVars
  <1>8. CASE Write(t)
    <2>1. FrameType'
      BY <1>1, <1>8, FinishType DEF Write, Errors
    <2>2. PathOf(t) \in File
      BY <1>8, PathType DEF Write
    <2> QED BY <1>8, <2>1, <2>2 DEF Write, DeliveryTypeOK, runtimeVars
  <1>9. CASE Complete(t)
    <2>1. mainQueue' \in Seq(Task)
      BY <1>9 DEF Complete, DeliveryTypeOK
    <2> QED BY <1>9, <2>1 DEF Complete, Goto, Places, DeliveryTypeOK, cacheDir, runtimeVars
  <1>10. CASE RemoveCheck(t)
    <2>1. FrameType'
      BY <1>1, <1>10, FinishType, ContinueType DEF RemoveCheck, Places
    <2> QED BY <1>10, <2>1 DEF RemoveCheck, DeliveryTypeOK, cacheDir, runtimeVars
  <1>11. CASE RemoveItem(t)
    <2>1. FrameType'
      BY <1>1, <1>11, FinishType DEF RemoveItem, Errors
    <2> QED BY <1>11, <2>1 DEF RemoveItem, DeliveryTypeOK, runtimeVars
  <1>12. CASE \E f \in File : ClearFile(t, f)
    BY <1>12 DEF ClearFile, DeliveryTypeOK, runtimeVars
  <1>13. CASE ClearEnds(t)
    <2>1. FrameType'
      BY <1>1, <1>13, FinishType DEF ClearEnds
    <2> QED BY <1>13, <2>1 DEF ClearEnds, DeliveryTypeOK, runtimeVars
  <1>14. CASE ApplyCheck(t)
    <2>1. FrameType'
      BY <1>1, <1>14, FinishType, ContinueType DEF ApplyCheck, Errors, Places
    <2> QED BY <1>14, <2>1 DEF ApplyCheck, DeliveryTypeOK, cacheDir, runtimeVars
  <1>15. CASE LoadNamed(t)
    <2>1. FrameType'
      BY <1>1, <1>15, FinishType, ContinueType DEF LoadNamed, Errors, Places
    <2> QED BY <1>15, <2>1 DEF LoadNamed, DeliveryTypeOK, cacheDir, runtimeVars
  <1>16. CASE VerifyFile(t)
    <2>1. FrameType'
      BY <1>1, <1>16, FinishType, ContinueType DEF VerifyFile, Errors, Places
    <2> QED BY <1>16, <2>1 DEF VerifyFile, DeliveryTypeOK, cacheDir, runtimeVars
  <1>17. CASE VerifyData(t)
    <2>1. FrameType'
      BY <1>1, <1>17, FinishType, ContinueType DEF VerifyData, Errors, Places
    <2> QED BY <1>17, <2>1 DEF VerifyData, DeliveryTypeOK, cacheDir, runtimeVars
  <1>18. CASE ReadFile(t)
    <2>1. FrameType'
      BY <1>1, <1>18, ContinueType DEF ReadFile, Places
    <2>2. OnDisk(t) \in Content \cup {NoContent}
      BY <1>18, PathType DEF ReadFile
    <2> QED BY <1>18, <2>1, <2>2 DEF ReadFile, DeliveryTypeOK, Messages, cacheDir, runtimeVars
  <1>19. CASE RuntimeLoad(t)
    <2>1. FrameType'
      BY <1>1, <1>19, FinishType, ContinueType DEF RuntimeLoad, Places
    <2>2. data[t] \in Content
      BY <1>19 DEF RuntimeLoad, DeliveryTypeOK, TaskOK, Compared
    <2>3. Refusal(call[t], data[t]) \in Messages
      BY <2>2, DeliveryAssumption DEF Refusal, Messages
    <2> QED BY <1>19, <2>1, <2>2, <2>3 DEF RuntimeLoad, DeliveryTypeOK, Messages, cacheDir
  <1>20. CASE ReportFailure(t)
    <2>1. Code(message) \in Errors
      BY CodeType DEF DeliveryTypeOK
    <2>2. FrameType'
      BY <1>1, <1>20, <2>1, FinishType DEF ReportFailure
    <2> QED BY <1>20, <2>2 DEF ReportFailure, DeliveryTypeOK, cacheDir, runtimeVars
  <1>21. CASE Reset(t)
    <2>1. FrameType'
      BY <1>1, <1>21, FinishType DEF Reset
    <2> QED BY <1>21, <2>1 DEF Reset, DeliveryTypeOK, Messages, cacheDir
  <1> QED BY <1>2, <1>3, <1>4, <1>5, <1>6, <1>7, <1>8, <1>9, <1>10, <1>11, <1>12, <1>13, <1>14,
             <1>15, <1>16, <1>17, <1>18, <1>19, <1>20, <1>21 DEF Acts

-------------------------------------------------------------------------------
(* What a call has compared                                                  *)

\* An answer is due where it is given.
LEMMA FinishOK ==
  ASSUME NEW t \in Task, DeliveryTypeOK, TaskOK(t), NEW from, NEW res \in Results \ {"none"},
         at[t] # "idle", UNCHANGED <<call, data>>, Finish(t, from, res),
         res = "loaded" =>
           /\ call[t].sha \in {data[t], NoHash}
           /\ call[t].op = "loadData" /\ call[t].signature => data[t] \in Signed
  PROVE  TaskOK(t)'
  <1>1. at'[t] = (IF call[t].op = "fetch" THEN "queued" ELSE "done") /\ result'[t] = res
    BY DEF Finish, Goto, DeliveryTypeOK
  <1>2. InPlace(t)'
    BY <1>1 DEF InPlace, TaskOK
  <1>3. Compared(t)'
    BY <1>1 DEF Compared
  <1>4. Answered(t)'
    BY <1>1 DEF Answered
  <1> QED BY <1>2, <1>3, <1>4 DEF TaskOK

\* A call goes on.
LEMMA ContinueOK ==
  ASSUME NEW t \in Task, DeliveryTypeOK, TaskOK(t), NEW from, NEW to, Continue(t, from, to)
  PROVE  at[t] = from /\ at'[t] = to /\ result'[t] = result[t]
  BY DEF Continue, Goto, DeliveryTypeOK

LEMMA StoreStepOK ==
  ASSUME NEW t \in Task, DeliveryTypeOK, TaskOK(t),
         FetchPatch(t) \/ Respond(t) \/ StorePatchData(t) \/ EnsureCacheDirectory(t) \/ Write(t)
  PROVE  TaskOK(t)'
  <1> USE DEF Results
  <1>1. CASE FetchPatch(t)
    <2>1. CASE Finish(t, "fetch", "InvalidArgument")
      BY <1>1, <2>1, FinishOK DEF FetchPatch, Errors
    <2>2. CASE call[t].name # NoName /\ Continue(t, "fetch", "network")
      BY <1>1, <2>2, ContinueOK DEF FetchPatch, TaskOK, InPlace, Compared, Answered
    <2> QED BY <1>1, <2>1, <2>2 DEF FetchPatch
  <1>2. CASE Respond(t)
    <2>1. CASE Finish(t, "network", "Network") /\ UNCHANGED data
      <3>1. at[t] = "network"
        BY <2>1 DEF Finish, Goto
      <3> QED BY <1>2, <2>1, <3>1, FinishOK DEF Respond, Errors
    <2>2. CASE \E c \in Content : data' = [data EXCEPT ![t] = c] /\ Continue(t, "network", "store")
      BY <1>2, <2>2, ContinueOK DEF Respond, TaskOK, InPlace, Compared, Answered
    <2> QED BY <1>2, <2>1, <2>2 DEF Respond
  <1>3. CASE StorePatchData(t)
    <2>1. CASE Finish(t, "store", "InvalidArgument") \/ Finish(t, "store", "SHA256Mismatch")
      BY <1>3, <2>1, FinishOK DEF StorePatchData, Errors
    <2>2. CASE /\ data[t] # NoContent /\ call[t].name # NoName /\ Matches(call[t].sha, data[t])
               /\ Continue(t, "store", "ensure")
      BY <1>3, <2>2, ContinueOK DEF StorePatchData, TaskOK, InPlace, Compared, Answered, Matches
    <2> QED BY <1>3, <2>1, <2>2 DEF StorePatchData
  <1>4. CASE EnsureCacheDirectory(t)
    <2>1. CASE Finish(t, "ensure", "IO")
      <3>1. at[t] = "ensure"
        BY <2>1 DEF Finish, Goto
      <3> QED BY <1>4, <2>1, <3>1, FinishOK DEF EnsureCacheDirectory, Errors
    <2>2. CASE Continue(t, "ensure", "write")
      BY <1>4, <2>2, ContinueOK DEF EnsureCacheDirectory, TaskOK, InPlace, Compared, Answered, Matches
    <2> QED BY <1>4, <2>1, <2>2 DEF EnsureCacheDirectory
  <1>5. CASE Write(t)
    <2>1. Finish(t, "write", "path") \/ Finish(t, "write", "IO")
      BY <1>5 DEF Write
    <2> QED BY <1>5, <2>1, FinishOK DEF Write, Errors
  <1> QED BY <1>1, <1>2, <1>3, <1>4, <1>5

LEMMA RemoveStepOK ==
  ASSUME NEW t \in Task, DeliveryTypeOK, TaskOK(t),
         RemoveCheck(t) \/ RemoveItem(t) \/ (\E f \in File : ClearFile(t, f)) \/ ClearEnds(t)
  PROVE  TaskOK(t)'
  <1> USE DEF Results
  <1>1. CASE RemoveCheck(t)
    <2>1. CASE Finish(t, "remove", "yes")
      BY <1>1, <2>1, FinishOK DEF RemoveCheck
    <2>2. CASE Continue(t, "remove", "removeItem")
      BY <1>1, <2>2, ContinueOK DEF RemoveCheck, TaskOK, InPlace, Compared, Answered
    <2> QED BY <1>1, <2>1, <2>2 DEF RemoveCheck
  <1>2. CASE RemoveItem(t)
    <2>1. Finish(t, "removeItem", "yes") \/ Finish(t, "removeItem", "IO")
      BY <1>2 DEF RemoveItem
    <2> QED BY <1>2, <2>1, FinishOK DEF RemoveItem, Errors
  <1>3. CASE \E f \in File : ClearFile(t, f)
    BY <1>3 DEF ClearFile, TaskOK, InPlace, Compared, Answered
  <1>4. CASE ClearEnds(t)
    <2>1. Finish(t, "clear", "yes") /\ UNCHANGED <<call, data>> /\ at[t] = "clear"
      BY <1>4 DEF ClearEnds, Finish, Goto
    <2> QED BY <2>1, FinishOK
  <1> QED BY <1>1, <1>2, <1>3, <1>4

LEMMA LoadStepOK ==
  ASSUME NEW t \in Task, DeliveryTypeOK, TaskOK(t),
         \/ ApplyCheck(t) \/ LoadNamed(t) \/ VerifyFile(t) \/ VerifyData(t) \/ ReadFile(t)
         \/ RuntimeLoad(t) \/ ReportFailure(t) \/ Reset(t)
  PROVE  TaskOK(t)'
  <1> USE DEF Results
  <1>1. CASE ApplyCheck(t)
    <2>1. CASE Finish(t, "apply", "NotFound")
      BY <1>1, <2>1, FinishOK DEF ApplyCheck, Errors
    <2>2. CASE Continue(t, "apply", IF call[t].signature THEN "verifyFile" ELSE "readFile")
      <3>1. call[t].name # NoName
        BY <1>1, RequestFields, DeliveryAssumption DEF ApplyCheck, DeliveryTypeOK, TaskOK, InPlace
      <3>2. at'[t] \in {"verifyFile", "readFile"} /\ result'[t] = result[t]
        BY <2>2, ContinueOK
      <3> QED BY <1>1, <3>1, <3>2 DEF ApplyCheck, TaskOK, InPlace, Compared, Answered
    <2> QED BY <1>1, <2>1, <2>2 DEF ApplyCheck
  <1>2. CASE LoadNamed(t)
    <2>1. CASE Finish(t, "loadNamed", "InvalidArgument") \/ Finish(t, "loadNamed", "PatchNotFound")
      BY <1>2, <2>1, FinishOK DEF LoadNamed, Errors
    <2>2. CASE /\ call[t].name # NoName
               /\ Continue(t, "loadNamed", IF call[t].signature THEN "verifyFile" ELSE "readFile")
      <3>1. at'[t] \in {"verifyFile", "readFile"} /\ result'[t] = result[t]
        BY <2>2, ContinueOK
      <3> QED BY <1>2, <2>2, <3>1 DEF LoadNamed, TaskOK, InPlace, Compared, Answered
    <2> QED BY <1>2, <2>1, <2>2 DEF LoadNamed
  <1>3. CASE VerifyFile(t)
    <2>1. CASE Finish(t, "verifyFile", "PatchNotFound") \/ Finish(t, "verifyFile", "SignatureInvalid")
      BY <1>3, <2>1, FinishOK DEF VerifyFile, Errors
    <2>2. CASE Continue(t, "verifyFile", "readFile")
      BY <1>3, <2>2, ContinueOK DEF VerifyFile, TaskOK, InPlace, Compared, Answered
    <2> QED BY <1>3, <2>1, <2>2 DEF VerifyFile
  <1>4. CASE VerifyData(t)
    <2>1. CASE Finish(t, "loadData", "InvalidArgument") \/ Finish(t, "loadData", "SignatureInvalid")
      BY <1>4, <2>1, FinishOK DEF VerifyData, Errors
    <2>2. CASE /\ data[t] # NoContent /\ (call[t].signature => data[t] \in Signed)
               /\ Continue(t, "loadData", "load")
      BY <1>4, <2>2, ContinueOK DEF VerifyData, TaskOK, InPlace, Compared, Answered
    <2> QED BY <1>4, <2>1, <2>2 DEF VerifyData
  <1>5. CASE ReadFile(t)
    <2>1. CASE Continue(t, "readFile", "failed")
      <3>1. at[t] = "readFile" /\ at'[t] = "failed" /\ result'[t] = result[t]
        BY <2>1, ContinueOK
      <3>2. call' = call
        BY <1>5 DEF ReadFile
      <3> QED BY <3>1, <3>2 DEF TaskOK, InPlace, Compared, Answered
    <2>2. CASE OnDisk(t) # NoContent /\ Continue(t, "readFile", "load")
      <3>1. data'[t] = OnDisk(t) /\ call' = call
        BY <1>5 DEF ReadFile, DeliveryTypeOK
      <3> QED BY <1>5, <2>2, <3>1, ContinueOK DEF ReadFile, TaskOK, InPlace, Compared, Answered
    <2> QED BY <1>5, <2>1, <2>2 DEF ReadFile
  <1>6. CASE RuntimeLoad(t)
    <2>1. CASE Refusal(call[t], data[t]) = "none" /\ Finish(t, "load", "loaded")
      <3>1. Matches(call[t].sha, data[t])
        BY <2>1 DEF Refusal
      <3> QED BY <1>6, <2>1, <3>1, FinishOK DEF RuntimeLoad, Matches, TaskOK, Compared
    <2>2. CASE Continue(t, "load", "failed")
      BY <1>6, <2>2, ContinueOK DEF RuntimeLoad, TaskOK, InPlace, Compared, Answered
    <2> QED BY <1>6, <2>1, <2>2 DEF RuntimeLoad
  <1>7. CASE ReportFailure(t)
    <2>1. Code(message) \in Errors
      BY CodeType DEF DeliveryTypeOK
    <2>2. Finish(t, "failed", Code(message)) /\ UNCHANGED <<call, data>> /\ at[t] = "failed"
      BY <1>7 DEF ReportFailure, Finish, Goto
    <2>3. Code(message) \notin {"none", "loaded"}
      BY <2>1 DEF Errors
    <2> QED BY <2>1, <2>2, <2>3, FinishOK
  <1>8. CASE Reset(t)
    <2>1. Finish(t, "reset", "yes") /\ UNCHANGED <<call, data>> /\ at[t] = "reset"
      BY <1>8 DEF Reset, Finish, Goto
    <2> QED BY <2>1, FinishOK
  <1> QED BY <1>1, <1>2, <1>3, <1>4, <1>5, <1>6, <1>7, <1>8

LEMMA TaskStep ==
  ASSUME NEW t \in Task, Acts(t), DeliveryTypeOK, NEW u \in Task, TaskOK(t), TaskOK(u)
  PROVE  TaskOK(u)'
  <1>1. CASE u # t
    BY <1>1, OthersStay DEF TaskOK, InPlace, Compared, Answered, Matches
  <1>2. ASSUME NEW r \in Request, Call(t, r) PROVE TaskOK(t)'
    BY <1>2, RequestFields, DeliveryAssumption
       DEF Call, Goto, DeliveryTypeOK, TaskOK, InPlace, Compared, Answered
  <1>3. CASE Take(t)
    BY <1>3 DEF Take, Goto, DeliveryTypeOK, TaskOK, InPlace, Compared, Answered
  <1>4. CASE Complete(t)
    BY <1>4 DEF Complete, Goto, DeliveryTypeOK, TaskOK, InPlace, Compared, Answered
  <1> QED BY <1>1, <1>2, <1>3, <1>4, StoreStepOK, RemoveStepOK, LoadStepOK DEF Acts

-------------------------------------------------------------------------------
(* The main queue                                                            *)

LEMMA QueueUnchanged ==
  ASSUME NEW t \in Task, DeliveryTypeOK, OneCompletion, mainQueue' = mainQueue,
         at[t] # "queued", at'[t] # "queued",
         \A u \in Task \ {t} : at'[u] = at[u] /\ result'[u] = result[u]
  PROVE  OneCompletion'
  <1>1. \A i \in DOMAIN mainQueue : mainQueue[i] \in Task \ {t}
    BY DEF DeliveryTypeOK, OneCompletion
  <1> QED BY <1>1 DEF OneCompletion

LEMMA FinishQueue ==
  ASSUME NEW t \in Task, DeliveryTypeOK, OneCompletion, NEW from, NEW res, Finish(t, from, res),
         from # "queued", res # "none"
  PROVE  OneCompletion'
  <1>1. at[t] # "queued" /\ \A u \in Task \ {t} : at'[u] = at[u] /\ result'[u] = result[u]
    BY DEF Finish, Goto, DeliveryTypeOK
  <1>2. CASE call[t].op # "fetch"
    BY <1>1, <1>2, QueueUnchanged DEF Finish, Goto, DeliveryTypeOK
  <1>3. CASE call[t].op = "fetch"
    <2>1. at'[t] = "queued" /\ result'[t] = res /\ mainQueue' = Append(mainQueue, t)
      BY <1>3 DEF Finish, Goto, DeliveryTypeOK
    <2>2. \A i \in DOMAIN mainQueue : mainQueue[i] \in Task \ {t}
      BY <1>1 DEF DeliveryTypeOK, OneCompletion
    <2>3. /\ DOMAIN mainQueue = 1 .. Len(mainQueue) /\ Len(mainQueue) \in Nat
          /\ DOMAIN mainQueue' = 1 .. Len(mainQueue) + 1
          /\ mainQueue'[Len(mainQueue) + 1] = t
          /\ \A i \in DOMAIN mainQueue : mainQueue'[i] = mainQueue[i]
      BY <2>1 DEF DeliveryTypeOK
    <2>4. ASSUME NEW u \in Task, at'[u] = "queued"
          PROVE  \E i \in DOMAIN mainQueue' : mainQueue'[i] = u
      <3>1. CASE u = t
        BY <2>3, <3>1
      <3>2. CASE u # t
        <4>1. PICK i \in DOMAIN mainQueue : mainQueue[i] = u
          BY <1>1, <2>4, <3>2 DEF OneCompletion
        <4> QED BY <2>3, <4>1
      <3> QED BY <3>1, <3>2
    <2>5. ASSUME NEW i \in DOMAIN mainQueue'
          PROVE  at'[mainQueue'[i]] = "queued" /\ result'[mainQueue'[i]] # "none"
      <3>1. CASE i \in DOMAIN mainQueue
        BY <1>1, <2>2, <2>3, <3>1 DEF OneCompletion
      <3>2. CASE i = Len(mainQueue) + 1
        BY <2>1, <2>3, <3>2
      <3> QED BY <2>3, <3>1, <3>2
    <2>6. ASSUME NEW i \in DOMAIN mainQueue', NEW j \in DOMAIN mainQueue', mainQueue'[i] = mainQueue'[j]
          PROVE  i = j
      <3>1. CASE i \in DOMAIN mainQueue /\ j \in DOMAIN mainQueue
        BY <2>3, <2>6, <3>1 DEF OneCompletion
      <3> QED BY <2>2, <2>3, <2>6, <3>1
    <2> QED BY <2>4, <2>5, <2>6 DEF OneCompletion
  <1> QED BY <1>2, <1>3

LEMMA CompleteQueue ==
  ASSUME NEW t \in Task, DeliveryTypeOK, OneCompletion, Complete(t)
  PROVE  OneCompletion'
  <1>1. /\ at[t] = "queued" /\ at'[t] = "done" /\ result' = result
        /\ \A u \in Task \ {t} : at'[u] = at[u]
    BY DEF Complete, Goto, DeliveryTypeOK
  <1>2. /\ DOMAIN mainQueue = 1 .. Len(mainQueue) /\ Len(mainQueue) \in Nat \ {0}
        /\ mainQueue[1] = t
        /\ DOMAIN mainQueue' = 1 .. Len(mainQueue) - 1
        /\ \A i \in DOMAIN mainQueue' : i + 1 \in DOMAIN mainQueue /\ mainQueue'[i] = mainQueue[i + 1]
    BY DEF Complete, DeliveryTypeOK
  <1>3. \A i \in DOMAIN mainQueue : mainQueue[i] \in Task /\ (mainQueue[i] = t <=> i = 1)
    BY <1>2 DEF DeliveryTypeOK, OneCompletion
  <1>4. ASSUME NEW u \in Task, at'[u] = "queued"
        PROVE  \E i \in DOMAIN mainQueue' : mainQueue'[i] = u
    <2>1. PICK i \in DOMAIN mainQueue : mainQueue[i] = u
      BY <1>1, <1>4 DEF OneCompletion
    <2>2. i # 1
      BY <1>1, <1>2, <1>4, <2>1
    <2>3. i - 1 \in DOMAIN mainQueue' /\ mainQueue'[i - 1] = mainQueue[i]
      BY <1>2, <2>1, <2>2
    <2> QED BY <2>1, <2>3
  <1>5. ASSUME NEW i \in DOMAIN mainQueue'
        PROVE  at'[mainQueue'[i]] = "queued" /\ result'[mainQueue'[i]] # "none"
    BY <1>1, <1>2, <1>3 DEF OneCompletion
  <1>6. ASSUME NEW i \in DOMAIN mainQueue', NEW j \in DOMAIN mainQueue', mainQueue'[i] = mainQueue'[j]
        PROVE  i = j
    <2>1. i + 1 = j + 1
      BY <1>2, <1>6 DEF OneCompletion
    <2> QED BY <1>2, <2>1
  <1> QED BY <1>4, <1>5, <1>6 DEF OneCompletion

LEMMA ContinueQueue ==
  ASSUME NEW t \in Task, DeliveryTypeOK, OneCompletion, NEW from, NEW to, Continue(t, from, to),
         from # "queued", to # "queued"
  PROVE  OneCompletion'
  BY QueueUnchanged DEF Continue, Goto, DeliveryTypeOK

LEMMA QueueStep ==
  ASSUME NEW t \in Task, Acts(t), DeliveryTypeOK, TaskOK(t), OneCompletion
  PROVE  OneCompletion'
  <1>1. ASSUME NEW r \in Request, Call(t, r) PROVE OneCompletion'
    BY <1>1, RequestFields, QueueUnchanged DEF Call, Goto, DeliveryTypeOK
  <1>2. CASE Take(t)
    BY <1>2, QueueUnchanged DEF Take, Goto, DeliveryTypeOK
  <1>3. CASE FetchPatch(t) \/ Respond(t) \/ StorePatchData(t) \/ EnsureCacheDirectory(t) \/ Write(t)
    BY <1>3, FinishQueue, ContinueQueue
       DEF FetchPatch, Respond, StorePatchData, EnsureCacheDirectory, Write
  <1>4. CASE RemoveCheck(t) \/ RemoveItem(t) \/ ClearEnds(t)
    BY <1>4, FinishQueue, ContinueQueue DEF RemoveCheck, RemoveItem, ClearEnds
  <1>5. CASE \E f \in File : ClearFile(t, f)
    BY <1>5 DEF ClearFile, OneCompletion
  <1>6. CASE ApplyCheck(t) \/ LoadNamed(t) \/ VerifyFile(t) \/ VerifyData(t) \/ ReadFile(t)
    BY <1>6, FinishQueue, ContinueQueue DEF ApplyCheck, LoadNamed, VerifyFile, VerifyData, ReadFile
  <1>7. CASE RuntimeLoad(t) \/ Reset(t)
    BY <1>7, FinishQueue, ContinueQueue DEF RuntimeLoad, Reset
  <1>8. CASE ReportFailure(t)
    <2>1. Code(message) # "none"
      BY CodeType DEF DeliveryTypeOK, Errors
    <2> QED BY <1>8, <2>1, FinishQueue DEF ReportFailure
  <1>9. CASE Complete(t)
    BY <1>9, CompleteQueue
  <1> QED BY <1>1, <1>2, <1>3, <1>4, <1>5, <1>6, <1>7, <1>8, <1>9 DEF Acts

-------------------------------------------------------------------------------
(* The invariant                                                             *)

LEMMA DeliveryInit == Init => DeliveryInv
  <1> SUFFICES ASSUME Init PROVE DeliveryInv
    OBVIOUS
  <1>1. DeliveryTypeOK
    BY EmptySeq DEF Init, DeliveryTypeOK, Places, Messages
  <1>2. \A t \in Task : TaskOK(t)
    BY DEF Init, TaskOK, InPlace, Compared, Answered
  <1>3. OneCompletion
    BY DEF Init, OneCompletion
  <1> QED BY <1>1, <1>2, <1>3 DEF DeliveryInv

LEMMA DeliveryStep == DeliveryInv /\ [Next]_vars => DeliveryInv'
  <1> SUFFICES ASSUME DeliveryInv, [Next]_vars PROVE DeliveryInv'
    OBVIOUS
  <1>1. ASSUME NEW t \in Task, Acts(t) PROVE DeliveryInv'
    <2>1. DeliveryTypeOK'
      BY <1>1, TypeStep DEF DeliveryInv
    <2>2. \A u \in Task : TaskOK(u)'
      BY <1>1, TaskStep DEF DeliveryInv
    <2>3. OneCompletion'
      BY <1>1, QueueStep DEF DeliveryInv
    <2> QED BY <2>1, <2>2, <2>3 DEF DeliveryInv
  <1>2. CASE UNCHANGED vars
    BY <1>2 DEF DeliveryInv, DeliveryTypeOK, TaskOK, InPlace, Compared, Answered, Matches,
         OneCompletion, vars, cacheDir, runtimeVars
  <1> QED BY <1>1, <1>2, NextActs

\* Types, where a call may be, what it has compared, and the main queue.
THEOREM DeliveryInvariant == Spec => []DeliveryInv
  BY DeliveryInit, DeliveryStep, PTL DEF Spec

\* However the files are rewritten, removed and cleared while it runs, a load with
\* an expected hash, from a file or from memory, that reports success loaded the
\* content of that hash: the runtime compares what it read, after it read it.  A
\* load from memory with a signature loaded what the signature fits.  Nothing is
\* said of the signature of a file: verified and loaded are two readings of it.
THEOREM LoadsArePinned == Spec => []LoadedAsPinned
  <1>1. DeliveryInv => LoadedAsPinned
    BY DEF DeliveryInv, TaskOK, Answered, LoadedAsPinned
  <1> QED BY <1>1, DeliveryInvariant, PTL

\* The main queue never holds two completions of one fetch, nor one of a fetch
\* that has no result or was answered, and misses none.
THEOREM CompletesOnce == Spec => []OneCompletion
  <1>1. DeliveryInv => OneCompletion
    BY DEF DeliveryInv
  <1> QED BY <1>1, DeliveryInvariant, PTL

-------------------------------------------------------------------------------
(* The refinement of the cache                                               *)

PutOf(t) == IF Storing(t) THEN [file |-> PathOf(t), sha |-> call[t].sha]
            ELSE [file |-> NoContent, sha |-> NoHash]
puts == [t \in Task |-> PutOf(t)]
stages == [t \in Task |-> Stage(t)]

\* A step of one call moves one stage and one put of the cache.
LEMMA OneMoves ==
  ASSUME NEW t \in Task, Acts(t), DeliveryTypeOK
  PROVE  /\ stages[t] = Stage(t) /\ stages' = [stages EXCEPT ![t] = Stage(t)']
         /\ puts[t] = PutOf(t) /\ puts' = [puts EXCEPT ![t] = PutOf(t)']
  <1>1. \A u \in Task \ {t} : Stage(u)' = Stage(u) /\ PutOf(u)' = PutOf(u)
    BY OthersStay DEF Stage, Storing, PutOf, PathOf
  <1>2. stages' = [u \in Task |-> Stage(u)'] /\ puts' = [u \in Task |-> PutOf(u)']
    BY DEF stages, puts
  <1> QED BY <1>1, <1>2 DEF stages, puts

\* What the steps of the cache are in terms of one call.
LEMMA CacheSteps ==
  ASSUME NEW t \in Task, Acts(t), DeliveryTypeOK,
         \/ Stage(t)' = Stage(t) /\ PutOf(t)' = PutOf(t) /\ file' = file
         \/ /\ Stage(t) = "none" /\ Stage(t)' = "storing" /\ PutOf(t)' \in Cache!Put
            /\ file' = file
         \/ /\ Stage(t) = "none" /\ Stage(t)' = "removing" /\ PutOf(t)' = PutOf(t)
            /\ file' = file
         \/ /\ Stage(t) = "storing" /\ Stage(t)' = "stored" /\ PutOf(t)' = PutOf(t)
            /\ \E c \in Content : /\ PutOf(t).sha \in {c, NoHash}
                                  /\ file' = [file EXCEPT ![PutOf(t).file] = c]
         \/ /\ Stage(t) = "storing" /\ Stage(t)' = "refused" /\ PutOf(t)' = PutOf(t)
            /\ file' = file
         \/ /\ Stage(t) = "removing" /\ Stage(t)' \in {"removing", "removed"}
            /\ PutOf(t)' = PutOf(t)
            /\ \E f \in File : file' = [file EXCEPT ![f] = NoContent]
         \/ /\ Stage(t) = "removing" /\ Stage(t)' = "removed" /\ PutOf(t)' = PutOf(t)
            /\ file' = file
         \/ /\ Stage(t) \in {"stored", "refused", "removed"} /\ Stage(t)' = "none"
            /\ PutOf(t)' = Cache!NoPut /\ file' = file
  PROVE  [Cache!CacheNext]_(Cache!cacheVars)
  <1>1. /\ stages[t] = Stage(t) /\ stages' = [stages EXCEPT ![t] = Stage(t)']
        /\ puts[t] = PutOf(t) /\ puts' = [puts EXCEPT ![t] = PutOf(t)']
    BY OneMoves
  <1>2. stages \in [Task -> {Stage(u) : u \in Task}] /\ puts \in [Task -> {PutOf(u) : u \in Task}]
    BY DEF stages, puts
  <1>3. CASE Stage(t)' = Stage(t) /\ PutOf(t)' = PutOf(t) /\ file' = file
    <2>1. stages' = stages /\ puts' = puts
      BY <1>1, <1>2, <1>3
    <2> QED BY <1>3, <2>1 DEF Cache!cacheVars, stages, puts, PutOf
  <1>4. CASE /\ Stage(t) = "none" /\ Stage(t)' = "storing" /\ PutOf(t)' \in Cache!Put
             /\ file' = file
    <2>1. PICK p \in Cache!Put : PutOf(t)' = p
      BY <1>4
    <2>2. Cache!AskStore(t, p)
      BY <1>1, <1>4, <2>1 DEF Cache!AskStore, Cache!Move, stages, puts, PutOf
    <2> QED BY <2>2 DEF Cache!CacheNext
  <1>5. CASE /\ Stage(t) = "none" /\ Stage(t)' = "removing" /\ PutOf(t)' = PutOf(t)
             /\ file' = file
    <2>1. puts' = puts
      BY <1>1, <1>2, <1>5
    <2>2. Cache!AskRemove(t)
      BY <1>1, <1>5, <2>1 DEF Cache!AskRemove, Cache!Move, stages, puts, PutOf
    <2> QED BY <2>2 DEF Cache!CacheNext
  <1>6. CASE /\ Stage(t) = "storing" /\ Stage(t)' = "stored" /\ PutOf(t)' = PutOf(t)
             /\ \E c \in Content : /\ PutOf(t).sha \in {c, NoHash}
                                   /\ file' = [file EXCEPT ![PutOf(t).file] = c]
    <2>1. puts' = puts
      BY <1>1, <1>2, <1>6
    <2>2. Cache!Store(t)
      BY <1>1, <1>6, <2>1 DEF Cache!Store, Cache!Move, stages, puts, PutOf
    <2> QED BY <2>2 DEF Cache!CacheNext
  <1>7. CASE /\ Stage(t) = "storing" /\ Stage(t)' = "refused" /\ PutOf(t)' = PutOf(t)
             /\ file' = file
    <2>1. puts' = puts
      BY <1>1, <1>2, <1>7
    <2>2. Cache!Refuse(t)
      BY <1>1, <1>7, <2>1 DEF Cache!Refuse, Cache!Move, stages, puts, PutOf
    <2> QED BY <2>2 DEF Cache!CacheNext
  <1>8. CASE /\ Stage(t) = "removing" /\ Stage(t)' \in {"removing", "removed"}
             /\ PutOf(t)' = PutOf(t)
             /\ \E f \in File : file' = [file EXCEPT ![f] = NoContent]
    <2>1. puts' = puts /\ stages' \in {stages, [stages EXCEPT ![t] = "removed"]}
      BY <1>1, <1>2, <1>8
    <2>2. \E f \in File : Cache!Remove(t, f)
      BY <1>1, <1>8, <2>1 DEF Cache!Remove, stages, puts, PutOf
    <2> QED BY <2>2 DEF Cache!CacheNext
  <1>9. CASE /\ Stage(t) = "removing" /\ Stage(t)' = "removed" /\ PutOf(t)' = PutOf(t)
             /\ file' = file
    <2>1. puts' = puts
      BY <1>1, <1>2, <1>9
    <2>2. Cache!RemoveEnds(t)
      BY <1>1, <1>9, <2>1 DEF Cache!RemoveEnds, Cache!Move, stages, puts, PutOf
    <2> QED BY <2>2 DEF Cache!CacheNext
  <1>10. CASE /\ Stage(t) \in {"stored", "refused", "removed"} /\ Stage(t)' = "none"
              /\ PutOf(t)' = Cache!NoPut /\ file' = file
    <2>1. Cache!Answer(t)
      BY <1>1, <1>10 DEF Cache!Answer, Cache!NoPut, stages, puts, PutOf
    <2> QED BY <2>1 DEF Cache!CacheNext
  <1> QED BY <1>3, <1>4, <1>5, <1>6, <1>7, <1>8, <1>9, <1>10

\* Stage by cases.
LEMMA StageCases ==
  ASSUME NEW t \in Task
  PROVE  /\ Storing(t) /\ at[t] \notin {"queued", "done"} => Stage(t) = "storing"
         /\ Storing(t) /\ at[t] \in {"queued", "done"} =>
              Stage(t) = IF result[t] = "path" THEN "stored" ELSE "refused"
         /\ at[t] # "idle" /\ call[t].op \in {"remove", "clear"} =>
              Stage(t) = IF at[t] = "done" THEN "removed" ELSE "removing"
         /\ ~Storing(t) /\ ~(at[t] # "idle" /\ call[t].op \in {"remove", "clear"}) =>
              Stage(t) = "none"
  BY Zenon DEF Stage, Storing

LEMMA NextStageCases ==
  ASSUME NEW t \in Task
  PROVE  /\ Storing(t)' /\ at'[t] \notin {"queued", "done"} => Stage(t)' = "storing"
         /\ Storing(t)' /\ at'[t] \in {"queued", "done"} =>
              Stage(t)' = IF result'[t] = "path" THEN "stored" ELSE "refused"
         /\ at'[t] # "idle" /\ call'[t].op \in {"remove", "clear"} =>
              Stage(t)' = IF at'[t] = "done" THEN "removed" ELSE "removing"
         /\ ~Storing(t)' /\ ~(at'[t] # "idle" /\ call'[t].op \in {"remove", "clear"}) =>
              Stage(t)' = "none"
  BY Zenon DEF Stage, Storing

LEMMA FinishStage ==
  ASSUME NEW t \in Task, DeliveryTypeOK, call' = call, NEW from, NEW res, Finish(t, from, res),
         from \notin {"idle", "queued", "done"}
  PROVE  /\ PutOf(t)' = PutOf(t)
         /\ Storing(t) => /\ Stage(t) = "storing"
                          /\ Stage(t)' = IF res = "path" THEN "stored" ELSE "refused"
         /\ call[t].op \in {"remove", "clear"} => Stage(t) = "removing" /\ Stage(t)' = "removed"
         /\ ~Storing(t) /\ call[t].op \notin {"remove", "clear"} => Stage(t)' = Stage(t)
  <1>1. /\ at[t] \notin {"idle", "queued", "done"}
        /\ at'[t] = (IF call[t].op = "fetch" THEN "queued" ELSE "done") /\ result'[t] = res
    BY DEF Finish, Goto, DeliveryTypeOK
  <1>2. Storing(t)' <=> Storing(t)
    BY <1>1 DEF Storing
  <1>3. PutOf(t)' = PutOf(t)
    BY <1>2 DEF PutOf, PathOf
  <1>4. ASSUME Storing(t)
        PROVE  Stage(t) = "storing" /\ Stage(t)' = IF res = "path" THEN "stored" ELSE "refused"
    BY <1>1, <1>2, <1>4, StageCases, NextStageCases
  <1>5. ASSUME call[t].op \in {"remove", "clear"}
        PROVE  Stage(t) = "removing" /\ Stage(t)' = "removed"
    BY <1>1, <1>5, StageCases, NextStageCases
  <1>6. ASSUME ~Storing(t), call[t].op \notin {"remove", "clear"} PROVE Stage(t)' = Stage(t)
    BY <1>1, <1>2, <1>6, StageCases, NextStageCases
  <1> QED BY <1>3, <1>4, <1>5, <1>6

LEMMA ContinueStage ==
  ASSUME NEW t \in Task, DeliveryTypeOK, call' = call, NEW from, NEW to, Continue(t, from, to),
         {from, to} \cap {"idle", "queued", "done"} = {}
  PROVE  PutOf(t)' = PutOf(t) /\ Stage(t)' = Stage(t)
  <1>1. /\ at[t] \notin {"idle", "queued", "done"} /\ at'[t] \notin {"idle", "queued", "done"}
        /\ result'[t] = result[t]
    BY DEF Continue, Goto, DeliveryTypeOK
  <1>2. Storing(t)' <=> Storing(t)
    BY <1>1 DEF Storing
  <1>3. PutOf(t)' = PutOf(t)
    BY <1>2 DEF PutOf, PathOf
  <1>4. Stage(t)' = Stage(t)
    BY <1>1, <1>2, StageCases, NextStageCases
  <1> QED BY <1>3, <1>4

\* A call begins to store, to remove, or to do what the cache does not see.
LEMMA CallRefines ==
  ASSUME NEW t \in Task, Acts(t), DeliveryInv, NEW r \in Request, Call(t, r)
  PROVE  [Cache!CacheNext]_(Cache!cacheVars)
  <1>1. DeliveryTypeOK
    BY DEF DeliveryInv
  <1>2. /\ at[t] = "idle" /\ at'[t] = r.op /\ call'[t] = r /\ file' = file
        /\ r.op \notin {"idle", "queued", "done"}
    BY <1>1, RequestFields DEF Call, Goto, DeliveryTypeOK, cacheDir
  <1>3. ~Storing(t) /\ Stage(t) = "none" /\ PutOf(t) = Cache!NoPut
    BY <1>2, StageCases DEF Storing, PutOf, Cache!NoPut
  <1>4. CASE r.op \in {"fetch", "store"} /\ r.name # NoName
    <2>1. Storing(t)' /\ Stage(t)' = "storing"
      BY <1>2, <1>4, NextStageCases DEF Storing
    <2>2. PutOf(t)' = [file |-> CachedPath[r.name], sha |-> r.sha]
      BY <1>2, <2>1 DEF PutOf, PathOf
    <2>3. r.name \in Name /\ CachedPath[r.name] \in File /\ r.sha \in Hash
      BY <1>4, RequestFields DEF File
    <2>4. PutOf(t)' \in Cache!Put
      BY <2>2, <2>3 DEF Cache!Put, Hash
    <2> QED BY <1>1, <1>2, <1>3, <2>1, <2>4, CacheSteps
  <1>5. CASE ~(r.op \in {"fetch", "store"} /\ r.name # NoName)
    <2>1. ~Storing(t)' /\ PutOf(t)' = PutOf(t)
      BY <1>2, <1>3, <1>5 DEF Storing, PutOf, Cache!NoPut
    <2>2. Stage(t)' \in {"none", "removing"}
      BY <1>2, <2>1, NextStageCases
    <2> QED BY <1>1, <1>2, <1>3, <2>1, <2>2, CacheSteps
  <1> QED BY <1>4, <1>5

\* The caller of a store or a removal is answered.
LEMMA TakeRefines ==
  ASSUME NEW t \in Task, Acts(t), DeliveryInv, Take(t)
  PROVE  [Cache!CacheNext]_(Cache!cacheVars)
  <1>1. DeliveryTypeOK
    BY DEF DeliveryInv
  <1>2. at[t] = "done" /\ at'[t] = "idle" /\ file' = file
    BY <1>1 DEF Take, Goto, DeliveryTypeOK, cacheDir
  <1>3. ~Storing(t)' /\ Stage(t)' = "none" /\ PutOf(t)' = Cache!NoPut
    BY <1>2, NextStageCases DEF Storing, PutOf, Cache!NoPut
  <1>4. Stage(t) \in {"stored", "refused", "removed", "none"}
    BY <1>2, StageCases
  <1>5. Stage(t) = "none" => PutOf(t) = Cache!NoPut
    BY <1>2, StageCases DEF PutOf, Cache!NoPut
  <1> QED BY <1>1, <1>2, <1>3, <1>4, <1>5, CacheSteps

\* A step of a store: it takes effect with the write, or is refused.
LEMMA StoreRefines ==
  ASSUME NEW t \in Task, Acts(t), DeliveryInv,
         \/ FetchPatch(t) \/ Respond(t) \/ StorePatchData(t) \/ EnsureCacheDirectory(t)
         \/ Write(t) \/ Complete(t)
  PROVE  [Cache!CacheNext]_(Cache!cacheVars)
  <1>1. DeliveryTypeOK /\ TaskOK(t)
    BY DEF DeliveryInv
  <1>2. ASSUME NEW from \in {"fetch", "network", "store", "ensure", "write"},
               NEW res \in {"InvalidArgument", "Network", "SHA256Mismatch", "IO"},
               Finish(t, from, res), UNCHANGED <<file, call>>
        PROVE  [Cache!CacheNext]_(Cache!cacheVars)
    <2>1. call[t].op \in {"fetch", "store"}
      BY <1>1, <1>2 DEF Finish, Goto, TaskOK, InPlace
    <2> QED BY <1>1, <1>2, <2>1, FinishStage, CacheSteps
  <1>3. ASSUME NEW from \in {"fetch", "network", "store", "ensure"},
               NEW to \in {"network", "store", "ensure", "write"},
               Continue(t, from, to), UNCHANGED <<file, call>>
        PROVE  [Cache!CacheNext]_(Cache!cacheVars)
    BY <1>1, <1>3, ContinueStage, CacheSteps
  <1>4. CASE Write(t)
    <2>1. CASE /\ file' = [file EXCEPT ![PathOf(t)] = data[t]]
               /\ Finish(t, "write", "path")
      <3>1. Storing(t) /\ data[t] \in Content /\ Matches(call[t].sha, data[t])
        BY <1>1, <1>4 DEF Write, Storing, TaskOK, InPlace, Compared, DeliveryTypeOK
      <3>2. /\ Stage(t) = "storing" /\ Stage(t)' = "stored" /\ PutOf(t)' = PutOf(t)
        BY <1>1, <1>4, <2>1, <3>1, FinishStage DEF Write
      <3>3. PutOf(t).file = PathOf(t) /\ PutOf(t).sha \in {data[t], NoHash}
        BY <3>1 DEF PutOf, Matches
      <3> QED BY <1>1, <2>1, <3>1, <3>2, <3>3, CacheSteps
    <2>2. CASE UNCHANGED file /\ Finish(t, "write", "IO")
      BY <1>2, <1>4, <2>2 DEF Write
    <2> QED BY <1>4, <2>1, <2>2 DEF Write
  <1>5. CASE Complete(t)
    <2>1. /\ at[t] = "queued" /\ at'[t] = "done" /\ UNCHANGED <<file, call, result>>
          /\ call[t].op = "fetch"
      BY <1>1, <1>5 DEF Complete, Goto, cacheDir, DeliveryTypeOK, TaskOK, InPlace
    <2>2. Storing(t)' <=> Storing(t)
      BY <2>1 DEF Storing
    <2>3. PutOf(t)' = PutOf(t) /\ Stage(t)' = Stage(t)
      BY <2>1, <2>2, StageCases, NextStageCases DEF PutOf, PathOf
    <2> QED BY <1>1, <2>1, <2>3, CacheSteps
  <1>6. CASE FetchPatch(t)
    BY <1>2, <1>3, <1>6 DEF FetchPatch, cacheDir
  <1>7. CASE Respond(t)
    BY <1>2, <1>3, <1>7 DEF Respond, cacheDir
  <1>8. CASE StorePatchData(t)
    BY <1>2, <1>3, <1>8 DEF StorePatchData, cacheDir
  <1>9. CASE EnsureCacheDirectory(t)
    BY <1>2, <1>3, <1>9 DEF EnsureCacheDirectory
  <1> QED BY <1>4, <1>5, <1>6, <1>7, <1>8, <1>9

\* A step of a removal.
LEMMA RemoveRefines ==
  ASSUME NEW t \in Task, Acts(t), DeliveryInv,
         RemoveCheck(t) \/ RemoveItem(t) \/ (\E f \in File : ClearFile(t, f)) \/ ClearEnds(t)
  PROVE  [Cache!CacheNext]_(Cache!cacheVars)
  <1>1. DeliveryTypeOK /\ TaskOK(t)
    BY DEF DeliveryInv
  <1>2. ASSUME NEW from \in {"remove", "removeItem", "clear"}, NEW res, Finish(t, from, res),
               call' = call
        PROVE  Stage(t) = "removing" /\ Stage(t)' = "removed" /\ PutOf(t)' = PutOf(t)
    <2>1. call[t].op \in {"remove", "clear"}
      BY <1>1, <1>2 DEF Finish, Goto, TaskOK, InPlace
    <2> QED BY <1>1, <1>2, <2>1, FinishStage
  <1>3. CASE RemoveCheck(t)
    <2>1. CASE Finish(t, "remove", "yes")
      BY <1>1, <1>2, <1>3, <2>1, CacheSteps DEF RemoveCheck, cacheDir
    <2>2. CASE Continue(t, "remove", "removeItem")
      BY <1>1, <1>3, <2>2, ContinueStage, CacheSteps DEF RemoveCheck, cacheDir
    <2> QED BY <1>3, <2>1, <2>2 DEF RemoveCheck
  <1>4. CASE RemoveItem(t)
    <2>1. PathOf(t) \in File
      BY <1>1, <1>4, PathType DEF RemoveItem
    <2>2. Stage(t) = "removing" /\ Stage(t)' = "removed" /\ PutOf(t)' = PutOf(t)
      BY <1>2, <1>4 DEF RemoveItem
    <2> QED BY <1>1, <1>4, <2>1, <2>2, CacheSteps DEF RemoveItem
  <1>5. CASE \E f \in File : ClearFile(t, f)
    <2>1. call[t].op = "clear" /\ at[t] = "clear"
      BY <1>1, <1>5 DEF ClearFile, TaskOK, InPlace
    <2>2. Stage(t) = "removing"
      BY <2>1, StageCases
    <2>3. Stage(t)' = Stage(t) /\ PutOf(t)' = PutOf(t)
      BY <1>5 DEF ClearFile, Stage, PutOf, Storing, PathOf
    <2> QED BY <1>1, <1>5, <2>2, <2>3, CacheSteps DEF ClearFile
  <1>6. CASE ClearEnds(t)
    BY <1>1, <1>2, <1>6, CacheSteps DEF ClearEnds
  <1> QED BY <1>3, <1>4, <1>5, <1>6

\* A step of a load, which the cache does not see.
LEMMA LoadRefines ==
  ASSUME NEW t \in Task, Acts(t), DeliveryInv,
         \/ ApplyCheck(t) \/ LoadNamed(t) \/ VerifyFile(t) \/ VerifyData(t) \/ ReadFile(t)
         \/ RuntimeLoad(t) \/ ReportFailure(t) \/ Reset(t)
  PROVE  [Cache!CacheNext]_(Cache!cacheVars)
  <1> DEFINE Loading == {"apply", "loadNamed", "loadData", "verifyFile", "readFile", "load",
                         "failed", "reset"}
  <1>1. DeliveryTypeOK /\ TaskOK(t)
    BY DEF DeliveryInv
  <1>2. ASSUME NEW from \in Loading, NEW res, Finish(t, from, res), UNCHANGED <<file, call>>
        PROVE  [Cache!CacheNext]_(Cache!cacheVars)
    <2>1. call[t].op \in {"apply", "loadNamed", "loadData", "reset"}
      BY <1>1, <1>2 DEF Finish, Goto, TaskOK, InPlace
    <2>2. ~Storing(t) /\ call[t].op \notin {"remove", "clear"}
      BY <2>1 DEF Storing
    <2> QED BY <1>1, <1>2, <2>2, FinishStage, CacheSteps
  <1>3. ASSUME NEW from \in Loading, NEW to \in Loading, Continue(t, from, to),
               UNCHANGED <<file, call>>
        PROVE  [Cache!CacheNext]_(Cache!cacheVars)
    BY <1>1, <1>3, ContinueStage, CacheSteps
  <1>4. UNCHANGED <<file, call>>
    BY DEF ApplyCheck, LoadNamed, VerifyFile, VerifyData, ReadFile, RuntimeLoad, ReportFailure,
       Reset, cacheDir
  <1>5. \/ \E from \in Loading : \E res \in Results : Finish(t, from, res)
        \/ \E from \in Loading, to \in Loading : Continue(t, from, to)
    BY <1>1, CodeType DEF ApplyCheck, LoadNamed, VerifyFile, VerifyData, ReadFile, RuntimeLoad,
       ReportFailure, Reset, Results, Errors, DeliveryTypeOK
  <1> QED BY <1>2, <1>3, <1>4, <1>5

LEMMA CacheInitially == Init => Cache!CacheInit
  <1> SUFFICES ASSUME Init PROVE Cache!CacheInit
    OBVIOUS
  <1>1. \A t \in Task : ~Storing(t) /\ Stage(t) = "none"
    BY StageCases DEF Init, Storing
  <1> QED BY <1>1 DEF Init, Cache!CacheInit, Cache!NoPut

LEMMA CacheStep == DeliveryInv /\ [Next]_vars => [Cache!CacheNext]_(Cache!cacheVars)
  <1> SUFFICES ASSUME DeliveryInv, [Next]_vars PROVE [Cache!CacheNext]_(Cache!cacheVars)
    OBVIOUS
  <1>1. ASSUME NEW t \in Task, Acts(t) PROVE [Cache!CacheNext]_(Cache!cacheVars)
    BY <1>1, CallRefines, StoreRefines, RemoveRefines, LoadRefines, TakeRefines DEF Acts
  <1>2. CASE UNCHANGED vars
    BY <1>2 DEF vars, cacheDir, Cache!cacheVars, Storing, PathOf, Stage
  <1> QED BY <1>1, <1>2, NextActs

\* Whatever races in the cache directory, fetches, stores, removals, clearings and
\* directories that vanish, the cache is a map that a store changes once, as a
\* whole and only to what its hash fits, if it answers with a path, and not at all
\* if it does not.
THEOREM DeliveryImplementsCache == Spec => ImplementsCache
  BY CacheInitially, CacheStep, DeliveryInvariant, PTL DEF Spec, ImplementsCache, Cache!CacheSpec
===============================================================================
