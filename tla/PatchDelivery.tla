---------------------------- MODULE PatchDelivery ----------------------------
(***************************************************************************)
(* How a patch reaches the runtime: WAPPatchManager, which fetches patches *)
(* and keeps them in a cache directory, and WAPPatchLoader, which verifies *)
(* them and hands them to the C API.                                       *)
(*                                                                         *)
(* Neither class has a lock.  Calls run on the threads of the host, fetches*)
(* on URLSession's queue, completions on the main queue; the file system   *)
(* is what they share, and each of its operations is a step.  The runtime  *)
(* is the one of ObjcRuntime, whose loads exclude each other, so that a    *)
(* load is one step here.                                                  *)
(***************************************************************************)
EXTENDS Naturals, Sequences

CONSTANTS
  Task,       \* calls of the two classes that may be in progress together
  Name,       \* patch names; "p" and "p.wasm" are two
  CachedPath, \* the file in the cache directory that a name stands for
  Bundled,    \* the content a bundle has for each name, or NoContent
  Content,    \* contents of patches; a hash is modelled by the content it is of
  Policy,     \* what the size and the magic of each content make the runtime say
  Signed,     \* contents the configured signature fits
  Request,    \* the calls the host makes, a subset of AnyRequest
  NoName,     \* an empty name
  NoContent,  \* an empty content, or no file
  NoHash,     \* no expected hash
  NoRequest   \* a task that performs no call

File == {CachedPath[n] : n \in Name}

Hash == Content \cup {NoHash}

\* The calls, with the arguments the code looks at.
AnyRequest ==
  [op : {"fetch"}, name : Name \cup {NoName}, sha : Hash] \cup
  [op : {"store"}, name : Name \cup {NoName}, sha : Hash, data : Content \cup {NoContent}] \cup
  [op : {"remove"}, name : Name] \cup
  [op : {"clear", "reset"}] \cup
  [op : {"apply"}, name : Name, sha : Hash, signature : BOOLEAN, allowReload : BOOLEAN] \cup
  [op : {"loadNamed"}, name : Name \cup {NoName}, sha : Hash, signature : BOOLEAN, allowReload : BOOLEAN] \cup
  [op : {"loadData"}, data : Content \cup {NoContent}, sha : Hash, signature : BOOLEAN, allowReload : BOOLEAN]

ASSUME DeliveryAssumption ==
  /\ CachedPath \in [Name -> File]
  /\ Bundled \in [Name -> Content \cup {NoContent}]
  /\ \A m \in Name, n \in Name : CachedPath[m] = CachedPath[n] => Bundled[m] = Bundled[n]
  /\ Policy \in [Content -> {"none", "exceeds max_bytes", "invalid wasm magic"}]
  /\ Signed \subseteq Content
  /\ NoName \notin Name
  /\ NoContent \notin Content \cup File
  /\ NoHash \notin Content
  /\ Request \subseteq AnyRequest
  /\ NoRequest \notin AnyRequest

VARIABLES
  directory,  \* does the cache directory exist?
  file,       \* what its files hold
  call,       \* the call each task performs
  at,         \* where it is
  data,       \* the content it holds in memory
  result,     \* what the call returned, or will hand to the completion
  mainQueue,  \* completions waiting for the main queue
  loaded,     \* the patch the runtime says is loaded
  message     \* wap_last_error()

cacheDir == <<directory, file>>
runtimeVars == <<loaded, message>>
vars == <<cacheDir, call, at, data, result, mainQueue, runtimeVars>>

Errors == {"InvalidArgument", "SHA256Mismatch", "IO", "NotFound", "Network", "PatchNotFound",
           "SignatureInvalid", "AlreadyLoaded", "InvalidWasm", "PayloadTooLarge", "LoadFailed"}

-------------------------------------------------------------------------------

Init ==
  /\ directory = FALSE
  /\ file = [f \in File |-> NoContent]
  /\ call = [t \in Task |-> NoRequest]
  /\ at = [t \in Task |-> "idle"]
  /\ data = [t \in Task |-> NoContent]
  /\ result = [t \in Task |-> "none"]
  /\ mainQueue = <<>>
  /\ loaded = NoContent
  /\ message = "none"

Goto(t, from, to) == at[t] = from /\ at' = [at EXCEPT ![t] = to]

\* Bug: a fetch that fails is completed twice.
FinishTwice(t, from, res) ==
  /\ result' = [result EXCEPT ![t] = res]
  /\ Goto(t, from, IF call[t].op = "fetch" THEN "queued" ELSE "done")
  /\ mainQueue' = IF call[t].op # "fetch" THEN mainQueue
                  ELSE IF res \in Errors THEN mainQueue \o <<t, t>> ELSE Append(mainQueue, t)

\* Bug: a fetch that fails forgets its completion.
FinishSilently(t, from, res) ==
  /\ result' = [result EXCEPT ![t] = res]
  /\ Goto(t, from, IF call[t].op = "fetch" THEN "queued" ELSE "done")
  /\ mainQueue' = IF call[t].op = "fetch" /\ res \notin Errors THEN Append(mainQueue, t) ELSE mainQueue

\* A call returns, or, a fetch, queues its completion.
Finish(t, from, res) ==
  /\ result' = [result EXCEPT ![t] = res]
  /\ Goto(t, from, IF call[t].op = "fetch" THEN "queued" ELSE "done")
  /\ mainQueue' = IF call[t].op = "fetch" THEN Append(mainQueue, t) ELSE mainQueue

Continue(t, from, to) == Goto(t, from, to) /\ UNCHANGED <<result, mainQueue>>

PathOf(t) == CachedPath[call[t].name]

\* The host calls; data is what it passes.
Call(t, r) ==
  /\ call' = [call EXCEPT ![t] = r]
  /\ data' = [data EXCEPT ![t] = IF r.op \in {"store", "loadData"} THEN r.data ELSE NoContent]
  /\ Goto(t, "idle", r.op)
  /\ UNCHANGED <<cacheDir, result, mainQueue, runtimeVars>>

\* The caller takes the result.
Take(t) ==
  /\ Goto(t, "done", "idle")
  /\ call' = [call EXCEPT ![t] = NoRequest]
  /\ data' = [data EXCEPT ![t] = NoContent]
  /\ result' = [result EXCEPT ![t] = "none"]
  /\ UNCHANGED <<cacheDir, mainQueue, runtimeVars>>

-------------------------------------------------------------------------------
(* Fetching and storing                                                      *)

FetchPatch(t) ==
  /\ at[t] = "fetch"
  /\ \/ call[t].name = NoName /\ Finish(t, "fetch", "InvalidArgument")
     \/ call[t].name # NoName /\ Continue(t, "fetch", "network")
  /\ UNCHANGED <<cacheDir, call, data, runtimeVars>>

\* URLSession calls its handler once: with an error, no data, or what it got.
Respond(t) ==
  /\ \/ /\ Finish(t, "network", "Network")
        /\ UNCHANGED data
     \/ \E c \in Content :
           /\ data' = [data EXCEPT ![t] = c]
           /\ Continue(t, "network", "store")
  /\ UNCHANGED <<cacheDir, call, runtimeVars>>

\* Bug: the hash is compared with nothing.
MatchesAnything(sha, c) == TRUE

Matches(sha, c) == sha \in {c, NoHash}

\* storePatchData up to the directory.
StorePatchData(t) ==
  /\ at[t] = "store"
  /\ \/ /\ data[t] = NoContent \/ call[t].name = NoName
        /\ Finish(t, "store", "InvalidArgument")
     \/ /\ data[t] # NoContent /\ call[t].name # NoName
        /\ IF Matches(call[t].sha, data[t])
           THEN Continue(t, "store", "ensure")
           ELSE Finish(t, "store", "SHA256Mismatch")
  /\ UNCHANGED <<cacheDir, call, data, runtimeVars>>

EnsureCacheDirectory(t) ==
  /\ \/ directory' = TRUE /\ Continue(t, "ensure", "write")
     \/ ~directory /\ UNCHANGED directory /\ Finish(t, "ensure", "IO")
  /\ UNCHANGED <<file, call, data, runtimeVars>>

\* Bug: the failure of the write goes unnoticed.
WriteUnchecked(t) ==
  /\ at[t] = "write"
  /\ Finish(t, "write", "path")
  /\ \/ /\ directory
        /\ file' = [file EXCEPT ![PathOf(t)] = data[t]]
     \/ UNCHANGED file
  /\ UNCHANGED <<directory, call, data, runtimeVars>>

\* The atomic write replaces the whole file; it needs the directory, which may
\* be gone again, and may fail for other reasons.
Write(t) ==
  /\ at[t] = "write"
  /\ \/ /\ directory
        /\ file' = [file EXCEPT ![PathOf(t)] = data[t]]
        /\ Finish(t, "write", "path")
     \/ /\ UNCHANGED file
        /\ Finish(t, "write", "IO")
  /\ UNCHANGED <<directory, call, data, runtimeVars>>

\* The main queue runs the completion of a fetch.
Complete(t) ==
  /\ mainQueue # <<>>
  /\ Head(mainQueue) = t
  /\ mainQueue' = Tail(mainQueue)
  /\ Goto(t, "queued", "done")
  /\ UNCHANGED <<cacheDir, call, data, result, runtimeVars>>

-------------------------------------------------------------------------------
(* Removing                                                                  *)

\* removeCachedPatchNamed asks whether the file is there ...
RemoveCheck(t) ==
  /\ at[t] = "remove"
  /\ IF file[PathOf(t)] = NoContent
     THEN Finish(t, "remove", "yes")
     ELSE Continue(t, "remove", "removeItem")
  /\ UNCHANGED <<cacheDir, call, data, runtimeVars>>

\* ... and removes it, unless it is gone by then, or it cannot.
RemoveItem(t) ==
  /\ at[t] = "removeItem"
  /\ \/ /\ file[PathOf(t)] # NoContent
        /\ file' = [file EXCEPT ![PathOf(t)] = NoContent]
        /\ Finish(t, "removeItem", "yes")
     \/ /\ UNCHANGED file
        /\ Finish(t, "removeItem", "IO")
  /\ UNCHANGED <<directory, call, data, runtimeVars>>

\* clearCache removes the files one by one, and then the directory; a file that
\* was written meanwhile keeps the directory, and nobody hears of a failure.
ClearFile(t, f) ==
  /\ at[t] = "clear"
  /\ file[f] # NoContent
  /\ file' = [file EXCEPT ![f] = NoContent]
  /\ UNCHANGED <<directory, call, at, data, result, mainQueue, runtimeVars>>

ClearEnds(t) ==
  /\ \/ directory' = FALSE /\ \A f \in File : file[f] = NoContent
     \/ UNCHANGED directory
  /\ Finish(t, "clear", "yes")
  /\ UNCHANGED <<file, call, data, runtimeVars>>

-------------------------------------------------------------------------------
(* Loading                                                                   *)

\* applyCachedPatchNamed asks whether the file is there.
ApplyCheck(t) ==
  /\ at[t] = "apply"
  /\ IF file[PathOf(t)] = NoContent
     THEN Finish(t, "apply", "NotFound")
     ELSE Continue(t, "apply", IF call[t].signature THEN "verifyFile" ELSE "readFile")
  /\ UNCHANGED <<cacheDir, call, data, runtimeVars>>

\* loadPatchNamed looks the name up in the bundle.
LoadNamed(t) ==
  /\ at[t] = "loadNamed"
  /\ \/ call[t].name = NoName /\ Finish(t, "loadNamed", "InvalidArgument")
     \/ /\ call[t].name # NoName
        /\ IF Bundled[call[t].name] = NoContent
           THEN Finish(t, "loadNamed", "PatchNotFound")
           ELSE Continue(t, "loadNamed", IF call[t].signature THEN "verifyFile" ELSE "readFile")
  /\ UNCHANGED <<cacheDir, call, data, runtimeVars>>

OnDisk(t) == IF call[t].op = "loadNamed" THEN Bundled[call[t].name] ELSE file[PathOf(t)]

\* loadPatchAtPath reads the file for the signature, and drops what it read.
VerifyFile(t) ==
  /\ at[t] = "verifyFile"
  /\ LET c == OnDisk(t) IN
     \/ c = NoContent /\ Finish(t, "verifyFile", "PatchNotFound")
     \/ c \in Signed /\ Continue(t, "verifyFile", "readFile")
     \/ c \in Content \ Signed /\ Finish(t, "verifyFile", "SignatureInvalid")
  /\ UNCHANGED <<cacheDir, call, data, runtimeVars>>

\* loadPatchData verifies the data it was given.
VerifyData(t) ==
  /\ at[t] = "loadData"
  /\ LET c == data[t] IN
     \/ c = NoContent /\ Finish(t, "loadData", "InvalidArgument")
     \/ /\ c # NoContent
        /\ IF call[t].signature => c \in Signed
           THEN Continue(t, "loadData", "load")
           ELSE Finish(t, "loadData", "SignatureInvalid")
  /\ UNCHANGED <<cacheDir, call, data, runtimeVars>>

\* wap_load_file_with_options reads the file again, before the runtime's lock.
ReadFile(t) ==
  /\ at[t] = "readFile"
  /\ data' = [data EXCEPT ![t] = OnDisk(t)]
  /\ IF OnDisk(t) = NoContent
     THEN /\ Continue(t, "readFile", "failed")
          /\ message' = "unable to read wasm file"
          /\ loaded' = NoContent
     ELSE /\ Continue(t, "readFile", "load")
          /\ UNCHANGED runtimeVars
  /\ UNCHANGED <<cacheDir, call>>

\* What the runtime refuses, in its order: a reload, the size or the magic, the
\* hash.
Refusal(r, c) ==
  IF loaded # NoContent /\ ~r.allowReload THEN "already loaded"
  ELSE IF Policy[c] # "none" THEN Policy[c]
  ELSE IF ~Matches(r.sha, c) THEN "sha256 mismatch"
  ELSE "none"

\* The runtime loads what was read, or refuses it, or the load fails later.
RuntimeLoad(t) ==
  /\ at[t] = "load"
  /\ \/ /\ Refusal(call[t], data[t]) = "none"
        /\ loaded' = data[t]
        /\ message' = "none"
        /\ Finish(t, "load", "loaded")
     \/ /\ message' = IF Refusal(call[t], data[t]) = "none" THEN "m3_CallWithArgs"
                      ELSE Refusal(call[t], data[t])
        /\ loaded' = NoContent
        /\ Continue(t, "load", "failed")
  /\ UNCHANGED <<cacheDir, call, data>>

\* WAPPatchLoaderCodeForRuntimeMessage, of the message that is there now.
Code(text) ==
  CASE text = "already loaded" -> "AlreadyLoaded"
    [] text = "invalid wasm magic" -> "InvalidWasm"
    [] text = "exceeds max_bytes" -> "PayloadTooLarge"
    [] text = "sha256 mismatch" -> "SHA256Mismatch"
    [] text = "unable to read wasm file" -> "PatchNotFound"
    [] OTHER -> "LoadFailed"

ReportFailure(t) ==
  /\ Finish(t, "failed", Code(message))
  /\ UNCHANGED <<cacheDir, call, data, runtimeVars>>

\* WAPPatchLoader's reset; ObjcRuntime has its steps.
Reset(t) ==
  /\ loaded' = NoContent
  /\ message' = "none"
  /\ Finish(t, "reset", "yes")
  /\ UNCHANGED <<cacheDir, call, data>>

-------------------------------------------------------------------------------

StoreStep(t) ==
  FetchPatch(t) \/ Respond(t) \/ StorePatchData(t) \/ EnsureCacheDirectory(t) \/ Write(t) \/ Complete(t)

RemoveStep(t) ==
  RemoveCheck(t) \/ RemoveItem(t) \/ (\E f \in File : ClearFile(t, f)) \/ ClearEnds(t)

LoadStep(t) ==
  ApplyCheck(t) \/ LoadNamed(t) \/ VerifyFile(t) \/ VerifyData(t) \/ ReadFile(t) \/ RuntimeLoad(t) \/ ReportFailure(t) \/
  Reset(t)

Next ==
  \E t \in Task :
    \/ \E r \in Request : Call(t, r)
    \/ StoreStep(t) \/ RemoveStep(t) \/ LoadStep(t) \/ Take(t)

\* A call that was made runs on, the network answers or times out, and the main
\* queue is served.
Fairness == \A t \in Task : WF_vars(StoreStep(t)) /\ WF_vars(RemoveStep(t)) /\ WF_vars(LoadStep(t))

Spec == Init /\ [][Next]_vars

FairSpec == Spec /\ Fairness

-------------------------------------------------------------------------------

\* The cache as its users see it.  A store counts from its call to its answer, and
\* has taken effect when it answers with a path; an empty name stores nothing.
Storing(t) == at[t] # "idle" /\ call[t].op \in {"fetch", "store"} /\ call[t].name # NoName

Stage(t) ==
  CASE Storing(t) /\ at[t] \notin {"queued", "done"} -> "storing"
    [] Storing(t) /\ at[t] \in {"queued", "done"} -> IF result[t] = "path" THEN "stored" ELSE "refused"
    [] at[t] # "idle" /\ call[t].op \in {"remove", "clear"} -> IF at[t] = "done" THEN "removed" ELSE "removing"
    [] OTHER -> "none"

Cache == INSTANCE PatchCache WITH
  entry <- file,
  put <- [t \in Task |-> IF Storing(t) THEN [file |-> PathOf(t), sha |-> call[t].sha]
                         ELSE [file |-> NoContent, sha |-> NoHash]],
  stage <- [t \in Task |-> Stage(t)]

\* Whatever fetches, stores, removals and clearings race in the cache directory:
\* a store takes effect at once and whole, if its hash fits and only if it answers
\* with a path, and nothing else writes a file.
ImplementsCache == Cache!CacheSpec

\* A load with an expected hash that reports success loaded just that content,
\* however the file was rewritten while it ran; a load from memory with a
\* signature loaded what the signature fits.  A signed file may be another one
\* when it is loaded than when it was verified (WAPPatchLoader.mm:173).
LoadedAsPinned ==
  \A t \in Task : result[t] = "loaded" =>
    /\ call[t].sha \in {data[t], NoHash}
    /\ call[t].op = "loadData" /\ call[t].signature => data[t] \in Signed

\* The main queue holds one completion for each fetch that has its result, and
\* none for a call whose caller was answered.
OneCompletion ==
  /\ \A t \in Task : at[t] = "queued" => \E i \in DOMAIN mainQueue : mainQueue[i] = t
  /\ \A i \in DOMAIN mainQueue :
       /\ at[mainQueue[i]] = "queued" /\ result[mainQueue[i]] # "none"
       /\ \A j \in DOMAIN mainQueue : mainQueue[i] = mainQueue[j] => i = j

\* Every fetch runs its completion.
FetchCompletes == \A t \in Task : at[t] = "fetch" ~> at[t] = "done"
===============================================================================
