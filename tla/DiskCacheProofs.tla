---------------------------- MODULE DiskCacheProofs ----------------------------
(* Safety of DiskCache for any number of processes, keys and files: it keeps  *)
(* the promise of LossyStore, and its entries are whole unless two processes  *)
(* were storing the same one.                                                 *)
EXTENDS DiskCache, TLAPS

Places == {"idle", "reading", "dropping", "clearing"} \cup Putting
Files == Inodes \cup {NoFile}

TypeOK ==
  /\ entry \in [Keys -> Files] /\ temp \in [Keys -> Files]
  /\ folder \in [Keys -> BOOLEAN] /\ written \in [Inodes -> SUBSET Whole]
  /\ pc \in [Procs -> Places] /\ key \in [Procs -> Keys] /\ handle \in [Procs -> Files]
  /\ memo \in [Procs -> SUBSET Keys]
  /\ answer \in [Procs -> {"none", "miss", "value"}]
  /\ tried \subseteq Keys /\ crowded \subseteq Keys

(* There is a file or a value only of a key that some put was called for.     *)
OnlyTried ==
  /\ \A k \in Keys : entry[k] # NoFile \/ temp[k] # NoFile => k \in tried
  /\ \A p \in Procs : memo[p] \subseteq tried
  /\ \A p \in Procs : pc[p] \in Putting => key[p] \in tried

StoreInv == TypeOK /\ OnlyTried

(* Who puts the same key at the same time has crowded it.                     *)
CrowdSeen ==
  \A p, q \in Procs :
    p # q /\ pc[p] \in Putting /\ pc[q] \in Putting /\ key[p] = key[q] => key[p] \in crowded

(* A file has one name at most, and is open for nobody but those who put the  *)
(* key of its name; the file of an entry only if they crowd.                  *)
OneName ==
  /\ \A k, j \in Keys : /\ entry[k] # NoFile => entry[k] # temp[j]
                        /\ temp[k] # NoFile /\ temp[k] = temp[j] => k = j
  /\ \A p \in Procs : handle[p] # NoFile <=> pc[p] \in {"first", "second"}
  /\ \A p \in Procs, k \in Keys :
       handle[p] # NoFile => /\ handle[p] = temp[k] => key[p] = k
                             /\ handle[p] = entry[k] => k \in crowded

(* How far the temporary file of an uncrowded key is.                         *)
Progress ==
  \A p \in Procs : key[p] \notin crowded =>
    /\ pc[p] \in {"first", "second"} /\ temp[key[p]] # NoFile => temp[key[p]] = handle[p]
    /\ pc[p] = "second" => 1 \in written[handle[p]]
    /\ pc[p] = "replacing" /\ temp[key[p]] # NoFile => written[temp[key[p]]] = Whole

FileInv == CrowdSeen /\ OneName /\ Progress /\ EntryWholeUnlessCrowded

-----------------------------------------------------------------------------
(* Every step keeps the types.                                                *)
LEMMA TypeStep ==
  TypeOK /\ [Next]_vars => TypeOK'
<1> SUFFICES ASSUME TypeOK, [Next]_vars PROVE TypeOK'
  OBVIOUS
<1> USE DEF TypeOK, Places, Putting, Files, Whole, Goto, Answers, Used
<1>1. ASSUME NEW p \in Procs, NEW k \in Keys, Put(p, k) PROVE TypeOK'
  BY <1>1 DEF Put
<1>2. ASSUME NEW p \in Procs, MakeFolder(p) PROVE TypeOK'
  BY <1>2 DEF MakeFolder
<1>3. ASSUME NEW p \in Procs, OpenTemp(p) PROVE TypeOK'
  BY <1>3 DEF OpenTemp
<1>4. ASSUME NEW p \in Procs, WriteTemp(p) PROVE TypeOK'
  BY <1>4 DEF WriteTemp
<1>5. ASSUME NEW p \in Procs, Replace(p) PROVE TypeOK'
  BY <1>5 DEF Replace
<1>6. ASSUME NEW p \in Procs, PutFails(p) PROVE TypeOK'
  BY <1>6 DEF PutFails
<1>7. ASSUME NEW p \in Procs, NEW k \in Keys, Get(p, k) PROVE TypeOK'
  BY <1>7 DEF Get
<1>8. ASSUME NEW p \in Procs, Read(p) PROVE TypeOK'
  BY <1>8 DEF Read
<1>9. ASSUME NEW p \in Procs, Drop(p) PROVE TypeOK'
  BY <1>9 DEF Drop
<1>10. ASSUME NEW p \in Procs, Clear(p) PROVE TypeOK'
  BY <1>10 DEF Clear
<1>11. ASSUME NEW p \in Procs, NEW k \in Keys, RemoveFile(p, k) PROVE TypeOK'
  BY <1>11 DEF RemoveFile
<1>12. ASSUME NEW p \in Procs, EndClear(p) PROVE TypeOK'
  BY <1>12 DEF EndClear
<1>13. ASSUME NEW p \in Procs, Die(p) PROVE TypeOK'
  BY <1>13 DEF Die
<1>14. CASE UNCHANGED vars
  BY <1>14 DEF vars
<1> QED
  BY <1>1, <1>2, <1>3, <1>4, <1>5, <1>6, <1>7, <1>8, <1>9, <1>10, <1>11, <1>12, <1>13, <1>14 DEF Next

(* A file gets a name, and a value a place in a memo, only in a put or after  *)
(* one.                                                                       *)
LEMMA TriedStep ==
  StoreInv /\ [Next]_vars => OnlyTried'
<1> SUFFICES ASSUME StoreInv, [Next]_vars PROVE OnlyTried'
  OBVIOUS
<1> USE DEF StoreInv, TypeOK, OnlyTried, Places, Putting, Files, Goto, Answers, Used
<1>1. ASSUME NEW p \in Procs, NEW k \in Keys, Put(p, k) PROVE OnlyTried'
  BY <1>1 DEF Put
<1>2. ASSUME NEW p \in Procs, MakeFolder(p) PROVE OnlyTried'
  BY <1>2 DEF MakeFolder
<1>3. ASSUME NEW p \in Procs, OpenTemp(p) PROVE OnlyTried'
  BY <1>3 DEF OpenTemp
<1>4. ASSUME NEW p \in Procs, WriteTemp(p) PROVE OnlyTried'
  BY <1>4 DEF WriteTemp
<1>5. ASSUME NEW p \in Procs, Replace(p) PROVE OnlyTried'
  BY <1>5 DEF Replace
<1>6. ASSUME NEW p \in Procs, PutFails(p) PROVE OnlyTried'
  BY <1>6 DEF PutFails
<1>7. ASSUME NEW p \in Procs, NEW k \in Keys, Get(p, k) PROVE OnlyTried'
  BY <1>7 DEF Get
<1>8. ASSUME NEW p \in Procs, Read(p) PROVE OnlyTried'
  BY <1>8 DEF Read
<1>9. ASSUME NEW p \in Procs, Drop(p) PROVE OnlyTried'
  BY <1>9 DEF Drop
<1>10. ASSUME NEW p \in Procs, Clear(p) PROVE OnlyTried'
  BY <1>10 DEF Clear
<1>11. ASSUME NEW p \in Procs, NEW k \in Keys, RemoveFile(p, k) PROVE OnlyTried'
  BY <1>11 DEF RemoveFile
<1>12. ASSUME NEW p \in Procs, EndClear(p) PROVE OnlyTried'
  BY <1>12 DEF EndClear
<1>13. ASSUME NEW p \in Procs, Die(p) PROVE OnlyTried'
  BY <1>13 DEF Die
<1>14. CASE UNCHANGED vars
  BY <1>14 DEF vars
<1> QED
  BY <1>1, <1>2, <1>3, <1>4, <1>5, <1>6, <1>7, <1>8, <1>9, <1>10, <1>11, <1>12, <1>13, <1>14 DEF Next

LEMMA StoreInvInductive == Spec => []StoreInv
<1>1. Init => StoreInv
  BY NoFileAssumption DEF Init, StoreInv, TypeOK, OnlyTried, Places, Putting, Files, Whole
<1>2. StoreInv /\ [Next]_vars => StoreInv'
  BY TypeStep, TriedStep DEF StoreInv
<1> QED
  BY <1>1, <1>2, PTL DEF Spec

-----------------------------------------------------------------------------
(* Only Put takes a process among those who put a key, and it looks at the    *)
(* others.                                                                    *)
LEMMA CrowdStep ==
  TypeOK /\ TypeOK' /\ FileInv /\ [Next]_vars => CrowdSeen'
<1> SUFFICES ASSUME TypeOK /\ TypeOK' /\ FileInv, [Next]_vars PROVE CrowdSeen'
  OBVIOUS
<1> USE DEF TypeOK, FileInv, CrowdSeen, Places, Putting, Files, Goto, Answers
<1>1. ASSUME NEW p \in Procs, NEW k \in Keys, Put(p, k) PROVE CrowdSeen'
  BY <1>1 DEF Put
<1>2. ASSUME NEW p \in Procs, MakeFolder(p) PROVE CrowdSeen'
  BY <1>2 DEF MakeFolder
<1>3. ASSUME NEW p \in Procs, OpenTemp(p) PROVE CrowdSeen'
  BY <1>3 DEF OpenTemp
<1>4. ASSUME NEW p \in Procs, WriteTemp(p) PROVE CrowdSeen'
  BY <1>4 DEF WriteTemp
<1>5. ASSUME NEW p \in Procs, Replace(p) PROVE CrowdSeen'
  BY <1>5 DEF Replace
<1>6. ASSUME NEW p \in Procs, PutFails(p) PROVE CrowdSeen'
  BY <1>6 DEF PutFails
<1>7. ASSUME NEW p \in Procs, NEW k \in Keys, Get(p, k) PROVE CrowdSeen'
  BY <1>7 DEF Get
<1>8. ASSUME NEW p \in Procs, Read(p) PROVE CrowdSeen'
  BY <1>8 DEF Read
<1>9. ASSUME NEW p \in Procs, Drop(p) PROVE CrowdSeen'
  BY <1>9 DEF Drop
<1>10. ASSUME NEW p \in Procs, Clear(p) PROVE CrowdSeen'
  BY <1>10 DEF Clear
<1>11. ASSUME NEW p \in Procs, NEW k \in Keys, RemoveFile(p, k) PROVE CrowdSeen'
  BY <1>11 DEF RemoveFile
<1>12. ASSUME NEW p \in Procs, EndClear(p) PROVE CrowdSeen'
  BY <1>12 DEF EndClear
<1>13. ASSUME NEW p \in Procs, Die(p) PROVE CrowdSeen'
  BY <1>13 DEF Die
<1>14. CASE UNCHANGED vars
  BY <1>14 DEF vars
<1> QED
  BY <1>1, <1>2, <1>3, <1>4, <1>5, <1>6, <1>7, <1>8, <1>9, <1>10, <1>11, <1>12, <1>13, <1>14 DEF Next

(* OpenTemp takes the file of its own key or one that nobody uses; Replace    *)
(* moves a name, which others still have open only if they crowd.             *)
LEMMA NameStep ==
  TypeOK /\ TypeOK' /\ FileInv /\ [Next]_vars => OneName'
<1> SUFFICES ASSUME TypeOK /\ TypeOK' /\ FileInv, [Next]_vars PROVE OneName'
  OBVIOUS
<1> USE DEF TypeOK, FileInv, CrowdSeen, OneName, Places, Putting, Files, Goto, Answers, Used
<1>1. ASSUME NEW p \in Procs, NEW k \in Keys, Put(p, k) PROVE OneName'
  BY <1>1 DEF Put
<1>2. ASSUME NEW p \in Procs, MakeFolder(p) PROVE OneName'
  BY <1>2 DEF MakeFolder
<1>3. ASSUME NEW p \in Procs, OpenTemp(p) PROVE OneName'
  BY <1>3 DEF OpenTemp
<1>4. ASSUME NEW p \in Procs, WriteTemp(p) PROVE OneName'
  BY <1>4 DEF WriteTemp
<1>5. ASSUME NEW p \in Procs, Replace(p) PROVE OneName'
  BY <1>5 DEF Replace
<1>6. ASSUME NEW p \in Procs, PutFails(p) PROVE OneName'
  BY <1>6 DEF PutFails
<1>7. ASSUME NEW p \in Procs, NEW k \in Keys, Get(p, k) PROVE OneName'
  BY <1>7 DEF Get
<1>8. ASSUME NEW p \in Procs, Read(p) PROVE OneName'
  BY <1>8 DEF Read
<1>9. ASSUME NEW p \in Procs, Drop(p) PROVE OneName'
  BY <1>9 DEF Drop
<1>10. ASSUME NEW p \in Procs, Clear(p) PROVE OneName'
  BY <1>10 DEF Clear
<1>11. ASSUME NEW p \in Procs, NEW k \in Keys, RemoveFile(p, k) PROVE OneName'
  BY <1>11 DEF RemoveFile
<1>12. ASSUME NEW p \in Procs, EndClear(p) PROVE OneName'
  BY <1>12 DEF EndClear
<1>13. ASSUME NEW p \in Procs, Die(p) PROVE OneName'
  BY <1>13 DEF Die
<1>14. CASE UNCHANGED vars
  BY <1>14 DEF vars
<1> QED
  BY <1>1, <1>2, <1>3, <1>4, <1>5, <1>6, <1>7, <1>8, <1>9, <1>10, <1>11, <1>12, <1>13, <1>14 DEF Next

(* What OpenTemp empties is nobody else's, unless two processes crowd.        *)
LEMMA ProgressStep ==
  TypeOK /\ TypeOK' /\ FileInv /\ [Next]_vars => Progress'
<1> SUFFICES ASSUME TypeOK /\ TypeOK' /\ FileInv, [Next]_vars PROVE Progress'
  OBVIOUS
<1> USE DEF TypeOK, FileInv, CrowdSeen, OneName, Progress, Places, Putting, Files, Goto, Answers, Used, Whole
<1>1. ASSUME NEW p \in Procs, NEW k \in Keys, Put(p, k) PROVE Progress'
  BY <1>1 DEF Put
<1>2. ASSUME NEW p \in Procs, MakeFolder(p) PROVE Progress'
  BY <1>2 DEF MakeFolder
<1>3. ASSUME NEW p \in Procs, OpenTemp(p) PROVE Progress'
  BY <1>3 DEF OpenTemp
<1>4. ASSUME NEW p \in Procs, WriteTemp(p) PROVE Progress'
  BY <1>4 DEF WriteTemp
<1>5. ASSUME NEW p \in Procs, Replace(p) PROVE Progress'
  BY <1>5 DEF Replace
<1>6. ASSUME NEW p \in Procs, PutFails(p) PROVE Progress'
  BY <1>6 DEF PutFails
<1>7. ASSUME NEW p \in Procs, NEW k \in Keys, Get(p, k) PROVE Progress'
  BY <1>7 DEF Get
<1>8. ASSUME NEW p \in Procs, Read(p) PROVE Progress'
  BY <1>8 DEF Read
<1>9. ASSUME NEW p \in Procs, Drop(p) PROVE Progress'
  BY <1>9 DEF Drop
<1>10. ASSUME NEW p \in Procs, Clear(p) PROVE Progress'
  BY <1>10 DEF Clear
<1>11. ASSUME NEW p \in Procs, NEW k \in Keys, RemoveFile(p, k) PROVE Progress'
  BY <1>11 DEF RemoveFile
<1>12. ASSUME NEW p \in Procs, EndClear(p) PROVE Progress'
  BY <1>12 DEF EndClear
<1>13. ASSUME NEW p \in Procs, Die(p) PROVE Progress'
  BY <1>13 DEF Die
<1>14. CASE UNCHANGED vars
  BY <1>14 DEF vars
<1> QED
  BY <1>1, <1>2, <1>3, <1>4, <1>5, <1>6, <1>7, <1>8, <1>9, <1>10, <1>11, <1>12, <1>13, <1>14 DEF Next

(* What Replace makes an entry has both its parts, and no file of an entry is *)
(* emptied.                                                                   *)
LEMMA WholeStep ==
  TypeOK /\ TypeOK' /\ FileInv /\ [Next]_vars => EntryWholeUnlessCrowded'
<1> SUFFICES ASSUME TypeOK /\ TypeOK' /\ FileInv, [Next]_vars PROVE EntryWholeUnlessCrowded'
  OBVIOUS
<1> USE DEF TypeOK, FileInv, OneName, Progress, EntryWholeUnlessCrowded, Places, Files, Goto, Answers, Used, Whole
<1>1. ASSUME NEW p \in Procs, NEW k \in Keys, Put(p, k) PROVE EntryWholeUnlessCrowded'
  BY <1>1 DEF Put
<1>2. ASSUME NEW p \in Procs, MakeFolder(p) PROVE EntryWholeUnlessCrowded'
  BY <1>2 DEF MakeFolder
<1>3. ASSUME NEW p \in Procs, OpenTemp(p) PROVE EntryWholeUnlessCrowded'
  BY <1>3 DEF OpenTemp
<1>4. ASSUME NEW p \in Procs, WriteTemp(p) PROVE EntryWholeUnlessCrowded'
  BY <1>4 DEF WriteTemp
<1>5. ASSUME NEW p \in Procs, Replace(p) PROVE EntryWholeUnlessCrowded'
  BY <1>5 DEF Replace
<1>6. ASSUME NEW p \in Procs, PutFails(p) PROVE EntryWholeUnlessCrowded'
  BY <1>6 DEF PutFails
<1>7. ASSUME NEW p \in Procs, NEW k \in Keys, Get(p, k) PROVE EntryWholeUnlessCrowded'
  BY <1>7 DEF Get
<1>8. ASSUME NEW p \in Procs, Read(p) PROVE EntryWholeUnlessCrowded'
  BY <1>8 DEF Read
<1>9. ASSUME NEW p \in Procs, Drop(p) PROVE EntryWholeUnlessCrowded'
  BY <1>9 DEF Drop
<1>10. ASSUME NEW p \in Procs, Clear(p) PROVE EntryWholeUnlessCrowded'
  BY <1>10 DEF Clear
<1>11. ASSUME NEW p \in Procs, NEW k \in Keys, RemoveFile(p, k) PROVE EntryWholeUnlessCrowded'
  BY <1>11 DEF RemoveFile
<1>12. ASSUME NEW p \in Procs, EndClear(p) PROVE EntryWholeUnlessCrowded'
  BY <1>12 DEF EndClear
<1>13. ASSUME NEW p \in Procs, Die(p) PROVE EntryWholeUnlessCrowded'
  BY <1>13 DEF Die
<1>14. CASE UNCHANGED vars
  BY <1>14 DEF vars
<1> QED
  BY <1>1, <1>2, <1>3, <1>4, <1>5, <1>6, <1>7, <1>8, <1>9, <1>10, <1>11, <1>12, <1>13, <1>14 DEF Next

LEMMA FileInvInductive == Spec => []FileInv
<1>1. Init => FileInv
  BY NoFileAssumption
  DEF Init, FileInv, CrowdSeen, OneName, Progress, EntryWholeUnlessCrowded, Putting
<1>2. TypeOK /\ TypeOK' /\ FileInv /\ [Next]_vars => FileInv'
  BY CrowdStep, NameStep, ProgressStep, WholeStep DEF FileInv
<1>3. StoreInv => TypeOK
  BY DEF StoreInv
<1> QED
  BY <1>1, <1>2, <1>3, StoreInvInductive, PTL DEF Spec

(* Whatever number of processes store, read and clear a directory, and        *)
(* wherever they die: an entry that no two of them were storing at the same   *)
(* time is a whole file (cache.py:133-138).                                   *)
THEOREM EntriesAreWhole == Spec => []EntryWholeUnlessCrowded
<1>1. FileInv => EntryWholeUnlessCrowded
  BY DEF FileInv
<1> QED
  BY <1>1, FileInvInductive, PTL

-----------------------------------------------------------------------------
(* A put is a store; the end of a get, found or not, and the death of a       *)
(* process are what it is told; no other step shows.                          *)
LEMMA StepIsStoreStep == StoreInv /\ [Next]_vars => [Store!Next]_Store!vars
<1> SUFFICES ASSUME StoreInv, [Next]_vars PROVE [Store!Next]_Store!vars
  OBVIOUS
<1> USE DEF StoreInv, TypeOK, OnlyTried, Goto, Answers
<1>1. ASSUME NEW p \in Procs, NEW k \in Keys, Put(p, k) PROVE Store!Store(p, k)
  BY <1>1 DEF Put, Store!Store
<1>2. ASSUME NEW p \in Procs, NEW k \in Keys, Get(p, k)
     PROVE  Store!Ask(p, k) \/ Store!Tell(p)
  <2>1. CASE k \in memo[p]
    BY <1>2, <2>1 DEF Get, Store!Tell
  <2>2. CASE k \notin memo[p] /\ entry[k] = NoFile
    BY <1>2, <2>2 DEF Get, Store!Tell
  <2>3. CASE k \notin memo[p] /\ entry[k] # NoFile
    BY <1>2, <2>3 DEF Get, Store!Ask
  <2> QED
    BY <2>1, <2>2, <2>3
<1>3. ASSUME NEW p \in Procs, Read(p) PROVE Store!Tell(p) \/ UNCHANGED Store!vars
  <2>1. CASE entry[key[p]] # NoFile /\ written[entry[key[p]]] = Whole
    BY <1>3, <2>1 DEF Read, Store!Tell
  <2>2. CASE ~(entry[key[p]] # NoFile /\ written[entry[key[p]]] = Whole)
    BY <1>3, <2>2 DEF Read, Store!vars
  <2> QED
    BY <2>1, <2>2
<1>4. ASSUME NEW p \in Procs, Drop(p) PROVE Store!Tell(p)
  BY <1>4 DEF Drop, Store!Tell
<1>5. ASSUME NEW p \in Procs, Die(p) PROVE Store!Tell(p)
  BY <1>5 DEF Die, Store!Tell
<1>6. ASSUME NEW p \in Procs, NEW k \in Keys, RemoveFile(p, k) PROVE UNCHANGED Store!vars
  BY <1>6 DEF RemoveFile, Store!vars
<1>7. ASSUME NEW p \in Procs,
             \/ MakeFolder(p) \/ OpenTemp(p) \/ WriteTemp(p) \/ Replace(p)
             \/ PutFails(p) \/ Clear(p) \/ EndClear(p)
     PROVE  UNCHANGED Store!vars
  BY <1>7 DEF MakeFolder, OpenTemp, WriteTemp, Replace, PutFails, Clear, EndClear, Store!vars
<1>8. CASE UNCHANGED vars
  BY <1>8 DEF vars, Store!vars
<1> QED
  BY <1>1, <1>2, <1>3, <1>4, <1>5, <1>6, <1>7, <1>8 DEF Next, Store!Next

(* For every process a directory shared with others is a store that may       *)
(* forget: get answers a miss or the value that was put, never the part of    *)
(* one that another process is writing or has left (cache.py:115-128).        *)
THEOREM DiskCacheIsLossyStore == Spec => StoreSpec
<1>1. Init => Store!Init
  BY DEF Init, Store!Init
<1> QED
  BY <1>1, StoreInvInductive, StepIsStoreStep, PTL DEF Spec, StoreSpec, Store!Spec
=============================================================================
