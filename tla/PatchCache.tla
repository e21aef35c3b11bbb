------------------------------ MODULE PatchCache ------------------------------
(***************************************************************************)
(* What the cache of WAPPatchManager promises to those who use it: a map   *)
(* from files to patches.  Storing a patch takes effect once, at one       *)
(* moment, as a whole and only when the patch is the one that was asked    *)
(* for, or it is refused and leaves the cache as it was; removing takes    *)
(* one file at a time away; nothing else changes the map.                  *)
(***************************************************************************)
CONSTANTS
  Task,       \* calls in progress
  File,       \* files of the cache
  Content,    \* patches
  NoContent,  \* what a missing file holds
  NoHash      \* a store that pins no hash

VARIABLES
  entry,  \* what each file holds
  put,    \* the store each task performs: the file and the hash it pins
  stage   \* how far each task is

cacheVars == <<entry, put, stage>>

Put == [file : File, sha : Content \cup {NoHash}]
NoPut == [file |-> NoContent, sha |-> NoHash]

CacheInit ==
  /\ entry = [f \in File |-> NoContent]
  /\ put = [t \in Task |-> NoPut]
  /\ stage = [t \in Task |-> "none"]

Move(t, from, to) == stage[t] = from /\ stage' = [stage EXCEPT ![t] = to]

\* A task starts to store, or to remove one file or all.
AskStore(t, p) ==
  /\ Move(t, "none", "storing")
  /\ put' = [put EXCEPT ![t] = p]
  /\ UNCHANGED entry

AskRemove(t) ==
  /\ Move(t, "none", "removing")
  /\ UNCHANGED <<entry, put>>

\* The patch is in the cache from here on; the caller hears of it later.
Store(t) ==
  /\ Move(t, "storing", "stored")
  /\ \E c \in Content :
        /\ put[t].sha \in {c, NoHash}
        /\ entry' = [entry EXCEPT ![put[t].file] = c]
  /\ UNCHANGED put

Refuse(t) ==
  /\ Move(t, "storing", "refused")
  /\ UNCHANGED <<entry, put>>

Remove(t, f) ==
  /\ stage[t] = "removing"
  /\ entry' = [entry EXCEPT ![f] = NoContent]
  /\ stage' \in {stage, [stage EXCEPT ![t] = "removed"]}
  /\ UNCHANGED put

\* Nothing to remove, or nothing more.
RemoveEnds(t) ==
  /\ Move(t, "removing", "removed")
  /\ UNCHANGED <<entry, put>>

Answer(t) ==
  /\ stage[t] \in {"stored", "refused", "removed"}
  /\ stage' = [stage EXCEPT ![t] = "none"]
  /\ put' = [put EXCEPT ![t] = NoPut]
  /\ UNCHANGED entry

CacheNext ==
  \E t \in Task :
    \/ \E p \in Put : AskStore(t, p)
    \/ AskRemove(t) \/ Store(t) \/ Refuse(t)
    \/ \E f \in File : Remove(t, f)
    \/ RemoveEnds(t) \/ Answer(t)

CacheSpec == CacheInit /\ [][CacheNext]_cacheVars
===============================================================================
