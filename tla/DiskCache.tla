------------------------------- MODULE DiskCache -------------------------------
(* DiskCache (src/sixeyes/graph/cache.py) as several processes use it over    *)
(* one directory: each has a memo of its own, and all write an entry through  *)
(* the one name <key>.tmp.  A file is written in two parts; what has only one *)
(* of them pickle refuses.  A key names one value (module Executor,           *)
(* CacheSound), so all write the same bytes.                                  *)
EXTENDS Naturals, FiniteSets

CONSTANTS
  Procs,            \* processes that use the directory
  Keys,             \* cache keys
  Inodes,           \* files that may exist
  NoFile            \* no file of the name

ASSUME NoFileAssumption == NoFile \notin Inodes

VARIABLES
  entry,            \* entry[k]: the file <key>.pkl
  temp,             \* temp[k]: the file <key>.tmp
  folder,           \* folder[k]: the directory of both exists
  written,          \* written[f]: the parts of a file that have been written
  pc, key, handle,  \* where process p is, for which key, the file it has open
  memo,             \* memo[p]: the keys in p's MemoryCache
  answer,           \* answer[p]: what get returned last: "none", "miss", "value" or "nonsense"
  tried,            \* the keys some put was called for (history)
  crowded           \* the keys two puts were on at the same time (history)

vars == <<entry, temp, folder, written, pc, key, handle, memo, answer, tried, crowded>>

Whole == {1, 2}
Putting == {"making", "opening", "first", "second", "replacing"}
Used == {entry[k] : k \in Keys} \cup {temp[k] : k \in Keys} \cup {handle[p] : p \in Procs}
Goto(p, place) == pc' = [pc EXCEPT ![p] = place]

Init ==
  /\ entry = [k \in Keys |-> NoFile] /\ temp = [k \in Keys |-> NoFile]
  /\ folder = [k \in Keys |-> FALSE] /\ written = [f \in Inodes |-> {}]
  /\ pc = [p \in Procs |-> "idle"] /\ key \in [Procs -> Keys]
  /\ handle = [p \in Procs |-> NoFile]
  /\ memo = [p \in Procs |-> {}] /\ answer = [p \in Procs |-> "none"]
  /\ tried = {} /\ crowded = {}

-----------------------------------------------------------------------------
(* put *)

Put(p, k) ==
  /\ pc[p] = "idle"
  /\ Goto(p, "making")
  /\ key' = [key EXCEPT ![p] = k]
  /\ memo' = [memo EXCEPT ![p] = @ \cup {k}]
  /\ tried' = tried \cup {k}
  /\ crowded' = crowded \cup
       {key[q] : q \in {x \in Procs \ {p} : pc[x] \in Putting /\ key[x] = k}}
  /\ UNCHANGED <<entry, temp, folder, written, handle, answer>>

MakeFolder(p) ==
  /\ pc[p] = "making"
  /\ folder' = [folder EXCEPT ![key[p]] = TRUE]
  /\ Goto(p, "opening")
  /\ UNCHANGED <<entry, temp, written, key, handle, memo, answer, tried, crowded>>

(* Mutant of OpenTemp: the file that is written is the entry already.         *)
OpenInPlace(p) ==
  /\ pc[p] = "opening" /\ folder[key[p]]
  /\ \E f \in Inodes \ Used :
       /\ entry' = [entry EXCEPT ![key[p]] = f]
       /\ temp' = [temp EXCEPT ![key[p]] = f]
       /\ handle' = [handle EXCEPT ![p] = f]
       /\ written' = [written EXCEPT ![f] = {}]
  /\ Goto(p, "first")
  /\ UNCHANGED <<folder, key, memo, answer, tried, crowded>>

(* Opened for writing: an old file of the name is emptied.                    *)
OpenTemp(p) ==
  /\ pc[p] = "opening" /\ folder[key[p]]
  /\ \E f \in IF temp[key[p]] # NoFile THEN {temp[key[p]]} ELSE Inodes \ Used :
       /\ temp' = [temp EXCEPT ![key[p]] = f]
       /\ handle' = [handle EXCEPT ![p] = f]
       /\ written' = [written EXCEPT ![f] = {}]
  /\ Goto(p, "first")
  /\ UNCHANGED <<entry, folder, key, memo, answer, tried, crowded>>

WriteTemp(p) ==
  /\ pc[p] \in {"first", "second"}
  /\ written' = [written EXCEPT ![handle[p]] = @ \cup {IF pc[p] = "first" THEN 1 ELSE 2}]
  /\ Goto(p, IF pc[p] = "first" THEN "second" ELSE "replacing")
  /\ handle' = [handle EXCEPT ![p] = IF pc[p] = "first" THEN @ ELSE NoFile]
  /\ UNCHANGED <<entry, temp, folder, key, memo, answer, tried, crowded>>

(* The file that has the name now becomes the entry.                          *)
Replace(p) ==
  /\ pc[p] = "replacing" /\ temp[key[p]] # NoFile
  /\ entry' = [entry EXCEPT ![key[p]] = temp[key[p]]]
  /\ temp' = [temp EXCEPT ![key[p]] = NoFile]
  /\ Goto(p, "idle")
  /\ UNCHANGED <<folder, written, key, handle, memo, answer, tried, crowded>>

(* Any of these calls may fail; when another put has taken the file, or a     *)
(* clear the directory, there is no other way on.  What is written stays.     *)
PutFails(p) ==
  /\ pc[p] \in Putting
  /\ Goto(p, "idle")
  /\ handle' = [handle EXCEPT ![p] = NoFile]
  /\ UNCHANGED <<entry, temp, folder, written, key, memo, answer, tried, crowded>>

-----------------------------------------------------------------------------
(* get *)

Answers(p, what) == answer' = [answer EXCEPT ![p] = what]

Get(p, k) ==
  /\ pc[p] = "idle"
  /\ key' = [key EXCEPT ![p] = k]
  /\ IF k \in memo[p]            THEN Answers(p, "value") /\ UNCHANGED pc
     ELSE IF entry[k] = NoFile   THEN Answers(p, "miss") /\ UNCHANGED pc
     ELSE Goto(p, "reading") /\ UNCHANGED answer
  /\ UNCHANGED <<entry, temp, folder, written, handle, memo, tried, crowded>>

(* Mutant of Read: whatever the file holds is taken for the value.            *)
ReadAnything(p) ==
  /\ pc[p] = "reading" /\ entry[key[p]] # NoFile
  /\ Answers(p, IF written[entry[key[p]]] = Whole THEN "value" ELSE "nonsense")
  /\ memo' = [memo EXCEPT ![p] = @ \cup {key[p]}]
  /\ Goto(p, "idle")
  /\ UNCHANGED <<entry, temp, folder, written, key, handle, tried, crowded>>

Read(p) ==
  /\ pc[p] = "reading"
  /\ IF entry[key[p]] # NoFile /\ written[entry[key[p]]] = Whole
       THEN /\ Answers(p, "value")
            /\ memo' = [memo EXCEPT ![p] = @ \cup {key[p]}]
            /\ Goto(p, "idle")
       ELSE Goto(p, "dropping") /\ UNCHANGED <<memo, answer>>
  /\ UNCHANGED <<entry, temp, folder, written, key, handle, tried, crowded>>

(* The entry of the name by now is dropped, if there is one.                  *)
Drop(p) ==
  /\ pc[p] = "dropping"
  /\ entry' = [entry EXCEPT ![key[p]] = NoFile]
  /\ Answers(p, "miss")
  /\ Goto(p, "idle")
  /\ UNCHANGED <<temp, folder, written, key, handle, memo, tried, crowded>>

-----------------------------------------------------------------------------
(* clear: the memo at once, the files one by one, what is new may stay.       *)
Clear(p) ==
  /\ pc[p] = "idle"
  /\ memo' = [memo EXCEPT ![p] = {}]
  /\ Goto(p, "clearing")
  /\ UNCHANGED <<entry, temp, folder, written, key, handle, answer, tried, crowded>>

RemoveFile(p, k) ==
  /\ pc[p] = "clearing"
  /\ \/ entry' = [entry EXCEPT ![k] = NoFile] /\ UNCHANGED <<temp, folder>>
     \/ temp' = [temp EXCEPT ![k] = NoFile] /\ UNCHANGED <<entry, folder>>
     \/ /\ entry[k] = NoFile /\ temp[k] = NoFile
        /\ folder' = [folder EXCEPT ![k] = FALSE] /\ UNCHANGED <<entry, temp>>
  /\ UNCHANGED <<written, pc, key, handle, memo, answer, tried, crowded>>

EndClear(p) ==
  /\ pc[p] = "clearing"
  /\ Goto(p, "idle")
  /\ UNCHANGED <<entry, temp, folder, written, key, handle, memo, answer, tried, crowded>>

(* The process dies, wherever it is, and another one takes its place.         *)
Die(p) ==
  /\ Goto(p, "idle")
  /\ handle' = [handle EXCEPT ![p] = NoFile]
  /\ memo' = [memo EXCEPT ![p] = {}]
  /\ answer' = [answer EXCEPT ![p] = "none"]
  /\ UNCHANGED <<entry, temp, folder, written, key, tried, crowded>>

Next ==
  \E p \in Procs :
    \/ \E k \in Keys : Put(p, k) \/ Get(p, k) \/ RemoveFile(p, k)
    \/ MakeFolder(p) \/ OpenTemp(p) \/ WriteTemp(p) \/ Replace(p) \/ PutFails(p)
    \/ Read(p) \/ Drop(p) \/ Clear(p) \/ EndClear(p) \/ Die(p)

Spec == Init /\ [][Next]_vars

-----------------------------------------------------------------------------
(* "Write-then-rename so a killed process cannot leave a half-written entry"  *)
(* (cache.py:133): an entry is whole at every moment, whoever died where, as  *)
(* long as no two processes were ever storing it at the same time; they use   *)
(* one name, and one may rename what the other has emptied.                   *)
EntryWholeUnlessCrowded ==
  \A k \in Keys : k \notin crowded /\ entry[k] # NoFile => written[entry[k]] = Whole

(* What the cache promises to who uses it, whatever other processes do.       *)
Store == INSTANCE LossyStore

StoreSpec == Store!Spec
=============================================================================
