--------------------------- MODULE MCPatchDelivery ---------------------------
(* Two names of one cached file, which the bundle has too, and one of a file  *)
(* that is nowhere; a good patch, an older unsigned one, and a text.          *)
EXTENDS PatchDelivery

CONSTANTS p, pWasm, q, good, old, text, a, b

MCName == {p, pWasm, q}
MCCachedPath == [n \in MCName |-> IF n = q THEN "q.wasm" ELSE "p.wasm"]
MCBundled == [n \in MCName |-> IF n = q THEN NoContent ELSE good]

MCPolicy == [c \in {good, old, text} |-> IF c = text THEN "invalid wasm magic" ELSE "none"]

MCRequest ==
  [op : {"fetch"}, name : {p, NoName}, sha : {NoHash}] \cup
  [op : {"store"}, name : {pWasm}, sha : {good}, data : {good, old, NoContent}] \cup
  [op : {"remove"}, name : {p}] \cup
  [op : {"clear", "reset"}] \cup
  [op : {"apply"}, name : {p}, sha : {good}, signature : {TRUE}, allowReload : {TRUE}] \cup
  [op : {"loadNamed"}, name : {pWasm, q, NoName}, sha : {NoHash}, signature : {FALSE}, allowReload : {FALSE}] \cup
  [op : {"loadData"}, data : {old, text, NoContent}, sha : {NoHash}, signature : {TRUE}, allowReload : {TRUE}]
==============================================================================
