-------------------------- MODULE ModelCacheProofs --------------------------
(***************************************************************************)
(* What ModelCache guarantees about its files, and about what a process    *)
(* that has loaded its model serves, for every set of processes, any       *)
(* number of tensors and any lists of LoRA files.                          *)
(*                                                                         *)
(*   CacheInv     as long as no two processes have saved at the same time  *)
(*                (~overlap): a file that has a cache name is never        *)
(*                written to again                                         *)
(*   TypeInv      types, whoever saves when                                *)
(*   OriginInv    whoever saves when, with one LoRA file at most: a file   *)
(*                holds parts of the model of one key only, perhaps with   *)
(*                holes (OwnInv: a process's key is all it wants;          *)
(*                FilesInv: a file belongs to the key of its creator;      *)
(*                GotInv: so do the tensors read from it)                  *)
(*   AllInv       under both: a file with a cache name, one that is being  *)
(*                filled and one that is open for reading is a beginning   *)
(*                of one merge (SavedInv), and the tensors read are those  *)
(*                of the key (ReadInv)                                     *)
(*                                                                         *)
(* What a process serves is said of those that could read their files when *)
(* they hashed them (AllRead).  Without one of the three conditions it is  *)
(* false: see ServesItsFiles in the runs cache_savers and cache_lora.      *)
(***************************************************************************)
EXTENDS ModelCache, TLAPS, SequenceTheorems

\* What the argument needs of the types.
DiskTypes ==
    /\ pc \in [Procs -> {"off", "hash", "open", "header", "table", "read",
                         "reload", "merge", "create", "write", "remove",
                         "rename", "cleanup", "serving", "dead"}]
    /\ args \in [Procs -> Seq(Loras)]
    /\ version \in [{Base} \cup Loras -> Absent .. MaxVersion]
    /\ version[Base] # Absent
    /\ key \in [Procs -> Keys]
    /\ fd \in [Procs -> Procs \cup {NoInode}]
    /\ file = [p \in Procs |-> file[p]]
    /\ cache \in [Keys -> Procs \cup {NoInode}]
    /\ tmp \in [Keys -> Procs \cup {NoInode}]

\* A writer's file has the temporary name of its key.
WriterHasTmp == \A p \in Procs :
    pc[p] = "write" => fd[p] \in Procs /\ tmp[key[p]] = fd[p]

\* One process saves.
SaverIsAlone == \A p, q \in Procs : Saving(p) /\ Saving(q) => p = q

\* No file has both a temporary and a cache name, or two temporary names.
NamesApart ==
    /\ \A k, l \in Keys : cache[k] # NoInode => cache[k] # tmp[l]
    /\ \A k, l \in Keys : tmp[k] # NoInode /\ tmp[k] = tmp[l] => k = l

\* A process that has not come to save() has created no file.
Created(p) == pc[p] \in {"write", "remove", "rename", "cleanup", "serving", "dead"}
NothingCreatedYet == \A p \in Procs : ~Created(p) =>
    \A k \in Keys : cache[k] # p /\ tmp[k] # p

CacheInv ==
    /\ DiskTypes
    /\ WriterHasTmp
    /\ SaverIsAlone
    /\ NamesApart
    /\ NothingCreatedYet

-----------------------------------------------------------------------------

\* To a process a LoRA file that does not load is an end like any other.
LEMMA NextCases ==
    ASSUME Next
    PROVE  \/ \E p \in Procs : LoadStep(p) \/ SaveStep(p) \/ Die(p)
           \/ \E f \in {Base} \cup Loras : ReplaceFile(f)
<1>1. \A p \in Procs : LoraMissing(p) => Die(p)
  BY DEF LoraMissing, Die, Loading
<1> QED
  BY <1>1 DEF Next

\* Only a process that opens its temporary file can find another one saving,
\* and what has been is not forgotten.
LEMMA OverlapStep ==
    ASSUME [Next]_cacheVars
    PROVE  overlap' = overlap \/ overlap' = (overlap \/ \E q \in Procs : Saving(q))
<1>1. ASSUME NEW p \in Procs, LoadStep(p) PROVE overlap' = overlap
  BY <1>1 DEF LoadStep, Start, ComputeKey, OpenCache, ReadHeader, ReadTable,
     ReadTensor, ReloadBase, MergeLora
<1>2. ASSUME NEW p \in Procs, SaveStep(p), ~CreateTmp(p) PROVE overlap' = overlap
  BY <1>2 DEF SaveStep, CreateFails, WritePart, WriteFails, RemoveOld, RenameTmp, RemoveTmp
<1>3. ASSUME NEW p \in Procs, CreateTmp(p)
      PROVE  overlap' = (overlap \/ \E q \in Procs : Saving(q))
  BY <1>3 DEF CreateTmp
<1>4. ASSUME NEW p \in Procs, Die(p) PROVE overlap' = overlap
  BY <1>4 DEF Die
<1>5. ASSUME NEW f \in {Base} \cup Loras, ReplaceFile(f) PROVE overlap' = overlap
  BY <1>5 DEF ReplaceFile
<1>6. ASSUME UNCHANGED cacheVars PROVE overlap' = overlap
  BY <1>6 DEF cacheVars
<1> QED
  BY <1>1, <1>2, <1>3, <1>4, <1>5, <1>6, NextCases

LEMMA OverlapStays ==
    ASSUME [Next]_cacheVars, ~overlap'
    PROVE  ~overlap
  BY OverlapStep, Zenon

\* What can be hashed is a content.
LEMMA HashedContents ==
    ASSUME CacheAssumption
    PROVE  /\ Hashed({Base}) \subseteq Contents
           /\ Hashed(Loras) \subseteq Contents
<1>1. 0 .. MaxVersion \subseteq Absent .. MaxVersion
  BY DEF CacheAssumption, Absent
<1> QED
  BY <1>1 DEF Hashed, Contents

\* A path computed from the files is one of the cache's names.
LEMMA KeyOfIsKey ==
    ASSUME CacheAssumption,
           version \in [{Base} \cup Loras -> Absent .. MaxVersion],
           version[Base] # Absent, NEW l \in Seq(Loras)
    PROVE  KeyOf(l) \in Keys
<1>1. \A f \in {Base} \cup Loras :
         version[f] # Absent => version[f] \in 0 .. MaxVersion
  BY DEF CacheAssumption, Absent
<1>3. /\ Content(Base) \in Hashed({Base})
      /\ \A f \in Loras : version[f] # Absent => Content(f) \in Hashed(Loras)
  BY <1>1 DEF Content, Hashed
<1>2. l # << >> => l[1] \in Loras
  OBVIOUS
<1> QED
  BY <1>2, <1>3 DEF KeyOf, Keys

\* Initially there are no files.
LEMMA InitCacheInv == CacheAssumption /\ Init => CacheInv
<1> SUFFICES ASSUME CacheAssumption, Init PROVE CacheInv
  OBVIOUS
<1>1. << >> \in Seq(Loras)
  OBVIOUS
<1>2. Content(Base) \in Hashed({Base})
  BY DEF Init, Content, Hashed, CacheAssumption
<1>3. DiskTypes
  BY <1>1, <1>2 DEF Init, DiskTypes, Keys, CacheAssumption, Absent
<1>4. WriterHasTmp /\ SaverIsAlone
  BY DEF Init, WriterHasTmp, SaverIsAlone, Saving
<1>5. NamesApart /\ NothingCreatedYet
  BY DEF Init, NamesApart, NothingCreatedYet, CacheAssumption
<1> QED
  BY <1>3, <1>4, <1>5 DEF CacheInv

\* A step that touches no file and no name, keeps the open file of a writer
\* and enters neither save() nor the state after it keeps the invariant.
LEMMA QuietStep ==
    ASSUME CacheInv, UNCHANGED diskVars, DiskTypes',
           \A q \in Procs : Saving(q)' => Saving(q),
           \A q \in Procs : Created(q) => Created(q)',
           \A q \in Procs : pc'[q] = "write" =>
               pc[q] = "write" /\ fd'[q] = fd[q] /\ key'[q] = key[q]
    PROVE  CacheInv'
<1>1. WriterHasTmp' /\ SaverIsAlone'
  BY DEF CacheInv, WriterHasTmp, SaverIsAlone, diskVars
<1>2. NamesApart' /\ NothingCreatedYet'
  BY DEF CacheInv, NamesApart, NothingCreatedYet, diskVars
<1> QED
  BY <1>1, <1>2 DEF CacheInv

\* The steps of try_load and of the full load.
LEMMA LoadStepInv ==
    ASSUME CacheAssumption, CacheInv, NEW p \in Procs, LoadStep(p)
    PROVE  CacheInv'
<1> USE DEF Goto
<1>1. CASE Start(p)
  <2>1. PICK l \in ArgLists : args' = [args EXCEPT ![p] = l]
    BY <1>1 DEF Start
  <2>2. DiskTypes'
    BY <1>1, <2>1 DEF Start, CacheInv, DiskTypes, diskVars, saveVars, CacheAssumption
  <2> QED
    BY <1>1, <2>2, QuietStep DEF Start, CacheInv, DiskTypes, Saving, Created, diskVars, saveVars
<1>2. CASE ComputeKey(p)
  <2>1. KeyOf(args[p]) \in Keys
    BY KeyOfIsKey DEF CacheInv, DiskTypes
  <2>2. DiskTypes'
    BY <1>2, <2>1 DEF ComputeKey, CacheInv, DiskTypes, diskVars, saveVars
  <2> QED
    BY <1>2, <2>2, QuietStep DEF ComputeKey, CacheInv, DiskTypes, Saving, Created, diskVars, saveVars
<1>3. CASE OpenCache(p)
  <2>1. DiskTypes'
    BY <1>3 DEF OpenCache, CacheInv, DiskTypes, diskVars, loadVars
  <2> QED
    BY <1>3, <2>1, QuietStep DEF OpenCache, CacheInv, DiskTypes, Saving, Created, diskVars, loadVars
<1>4. CASE ReadHeader(p)
  <2>1. PICK l \in {"table", "reload"} : pc' = [pc EXCEPT ![p] = l]
    BY <1>4 DEF ReadHeader
  <2>2. DiskTypes'
    BY <1>4, <2>1 DEF ReadHeader, CacheInv, DiskTypes, diskVars, saveVars, loadVars
  <2> QED
    BY <1>4, <2>1, <2>2, QuietStep DEF ReadHeader, CacheInv, DiskTypes, Saving, Created, diskVars, saveVars, loadVars
<1>5. CASE ReadTable(p)
  <2>1. PICK l \in {"read", "reload", "serving"} : pc' = [pc EXCEPT ![p] = l]
    BY <1>5 DEF ReadTable
  <2>2. DiskTypes'
    BY <1>5, <2>1 DEF ReadTable, CacheInv, DiskTypes, diskVars, saveVars
  <2> QED
    BY <1>5, <2>1, <2>2, QuietStep DEF ReadTable, CacheInv, DiskTypes, Saving, Created, diskVars, saveVars
<1>6. CASE ReadTensor(p)
  <2>1. PICK l \in {"read", "reload", "serving"} : pc' = [pc EXCEPT ![p] = l]
    BY <1>6 DEF ReadTensor
  <2>2. DiskTypes'
    BY <1>6, <2>1 DEF ReadTensor, CacheInv, DiskTypes, diskVars, saveVars
  <2> QED
    BY <1>6, <2>1, <2>2, QuietStep DEF ReadTensor, CacheInv, DiskTypes, Saving, Created, diskVars, saveVars
<1>7. CASE ReloadBase(p)
  <2>1. DiskTypes'
    BY <1>7 DEF ReloadBase, CacheInv, DiskTypes, diskVars, saveVars
  <2> QED
    BY <1>7, <2>1, QuietStep DEF ReloadBase, CacheInv, DiskTypes, Saving, Created, diskVars, saveVars
<1>8. CASE MergeLora(p)
  <2>1. PICK l \in {"merge", "create"} : pc' = [pc EXCEPT ![p] = l]
    BY <1>8 DEF MergeLora, CacheInv, DiskTypes
  <2>2. DiskTypes'
    BY <1>8, <2>1 DEF MergeLora, CacheInv, DiskTypes, diskVars, saveVars
  <2> QED
    BY <1>8, <2>1, <2>2, QuietStep DEF MergeLora, CacheInv, DiskTypes, Saving, Created, diskVars, saveVars
<1> QED
  BY <1>1, <1>2, <1>3, <1>4, <1>5, <1>6, <1>7, <1>8 DEF LoadStep

\* The file save() opens is the temporary file of its key, a new one or the
\* one a dead process left; nobody else has it open for writing.
LEMMA CreateTmpInv ==
    ASSUME CacheAssumption, ~overlap', CacheInv, NEW p \in Procs, CreateTmp(p)
    PROVE  CacheInv'
<1> DEFINE k == key[p]
           inode == IF tmp[k] = NoInode THEN p ELSE tmp[k]
<1> USE DEF Goto
<1>1. /\ k \in Keys
      /\ inode \in Procs
      /\ tmp' = [tmp EXCEPT ![k] = inode]
      /\ fd' = [fd EXCEPT ![p] = inode]
      /\ pc[p] = "create" /\ pc' = [pc EXCEPT ![p] = "write"]
      /\ UNCHANGED <<cache, key>>
  BY DEF CreateTmp, CacheInv, DiskTypes, loadVars
<1>2. \A l \in Keys : cache[l] # p /\ tmp[l] # p
  BY <1>1 DEF CacheInv, NothingCreatedYet, Created
<1>3. \A q \in Procs : ~Saving(q)
  BY DEF CreateTmp
<1>4. DiskTypes'
  <2>1. file' = [file EXCEPT ![inode] = << >>] /\ UNCHANGED <<version, args>>
    BY DEF CreateTmp, loadVars
  <2>2. file' = [q \in Procs |-> file'[q]]
    BY <2>1 DEF CacheInv, DiskTypes
  <2> QED
    BY <1>1, <2>1, <2>2 DEF CacheInv, DiskTypes
<1>5. WriterHasTmp'
  BY <1>1, <1>3 DEF WriterHasTmp, Saving, CacheInv, DiskTypes
<1>6. SaverIsAlone'
  BY <1>1, <1>3 DEF SaverIsAlone, Saving, CacheInv, DiskTypes
<1>7. NamesApart'
  BY <1>1, <1>2 DEF NamesApart, CacheInv, DiskTypes
<1>8. NothingCreatedYet'
  BY <1>1, <1>2 DEF NothingCreatedYet, Created, CacheInv, DiskTypes
<1> QED
  BY <1>4, <1>5, <1>6, <1>7, <1>8 DEF CacheInv

\* The steps of save().
LEMMA SaveStepInv ==
    ASSUME CacheAssumption, ~overlap', CacheInv, NEW p \in Procs, SaveStep(p)
    PROVE  CacheInv'
<1> USE DEF Goto
<1>1. CASE CreateTmp(p)
  BY <1>1, CreateTmpInv
<1>2. CASE CreateFails(p)
  <2>1. DiskTypes'
    BY <1>2 DEF CreateFails, CacheInv, DiskTypes, diskVars, saveVars, loadVars
  <2> QED
    BY <1>2, <2>1, QuietStep DEF CreateFails, CacheInv, DiskTypes, Saving, Created, diskVars, saveVars, loadVars
<1>3. CASE WritePart(p)
  <2>1. PICK l \in {"write", "remove"} : pc' = [pc EXCEPT ![p] = l]
    BY <1>3 DEF WritePart
  <2>2. pc[p] = "write" /\ UNCHANGED <<key, fd, cache, tmp>>
    BY <1>3 DEF WritePart, loadVars
  <2>3. DiskTypes'
    BY <1>3, <2>1 DEF WritePart, CacheInv, DiskTypes, loadVars
  <2>4. WriterHasTmp' /\ SaverIsAlone'
    BY <2>1, <2>2 DEF CacheInv, DiskTypes, WriterHasTmp, SaverIsAlone, Saving
  <2>5. NamesApart' /\ NothingCreatedYet'
    BY <2>1, <2>2 DEF CacheInv, DiskTypes, NamesApart, NothingCreatedYet, Created
  <2> QED
    BY <2>3, <2>4, <2>5 DEF CacheInv
<1>4. CASE WriteFails(p)
  <2>1. DiskTypes'
    BY <1>4 DEF WriteFails, CacheInv, DiskTypes, diskVars, saveVars, loadVars
  <2> QED
    BY <1>4, <2>1, QuietStep DEF WriteFails, CacheInv, DiskTypes, Saving, Created, diskVars, saveVars, loadVars
<1>5. CASE RemoveOld(p)
  <2>1. /\ pc[p] = "remove" /\ pc' = [pc EXCEPT ![p] = "rename"]
        /\ cache' = [cache EXCEPT ![key[p]] = NoInode]
        /\ UNCHANGED <<key, fd, tmp>>
    BY <1>5 DEF RemoveOld, loadVars, saveVars
  <2>2. DiskTypes'
    BY <1>5 DEF RemoveOld, CacheInv, DiskTypes, loadVars, saveVars
  <2>3. WriterHasTmp' /\ SaverIsAlone'
    BY <2>1 DEF CacheInv, DiskTypes, WriterHasTmp, SaverIsAlone, Saving
  <2>4. NamesApart' /\ NothingCreatedYet'
    BY <2>1 DEF CacheInv, DiskTypes, NamesApart, NothingCreatedYet, Created, CacheAssumption
  <2> QED
    BY <2>2, <2>3, <2>4 DEF CacheInv
<1>6. CASE RenameTmp(p) /\ tmp[key[p]] # NoInode
  <2>1. /\ pc[p] = "rename" /\ pc' = [pc EXCEPT ![p] = "serving"]
        /\ cache' = [cache EXCEPT ![key[p]] = tmp[key[p]]]
        /\ tmp' = [tmp EXCEPT ![key[p]] = NoInode]
        /\ UNCHANGED <<key, fd>>
    BY <1>6 DEF RenameTmp, loadVars, saveVars
  <2>2. DiskTypes'
    BY <1>6 DEF RenameTmp, CacheInv, DiskTypes, loadVars, saveVars
  <2>3. \A q \in Procs : pc'[q] # "write"
    BY <2>1 DEF CacheInv, DiskTypes, SaverIsAlone, Saving
  <2>4. WriterHasTmp' /\ SaverIsAlone'
    BY <2>1, <2>3 DEF CacheInv, DiskTypes, WriterHasTmp, SaverIsAlone, Saving
  <2>5. NamesApart'
    BY <2>1 DEF CacheInv, DiskTypes, NamesApart, CacheAssumption
  <2>6. NothingCreatedYet'
    BY <2>1 DEF CacheInv, DiskTypes, NothingCreatedYet, Created, CacheAssumption
  <2> QED
    BY <2>2, <2>4, <2>5, <2>6 DEF CacheInv
<1>7. CASE RenameTmp(p) /\ tmp[key[p]] = NoInode
  <2>1. DiskTypes'
    BY <1>7 DEF RenameTmp, CacheInv, DiskTypes, loadVars, saveVars
  <2> QED
    BY <1>7, <2>1, QuietStep DEF RenameTmp, CacheInv, DiskTypes, Saving, Created, diskVars, loadVars, saveVars
<1>8. CASE RemoveTmp(p)
  <2>1. /\ pc[p] = "cleanup" /\ pc' = [pc EXCEPT ![p] = "serving"]
        /\ tmp' = [tmp EXCEPT ![key[p]] = NoInode]
        /\ UNCHANGED <<key, fd, cache>>
    BY <1>8 DEF RemoveTmp, loadVars, saveVars
  <2>2. DiskTypes'
    BY <1>8 DEF RemoveTmp, CacheInv, DiskTypes, loadVars, saveVars
  <2>3. \A q \in Procs : pc'[q] # "write"
    BY <2>1 DEF CacheInv, DiskTypes, SaverIsAlone, Saving
  <2>4. WriterHasTmp' /\ SaverIsAlone'
    BY <2>1, <2>3 DEF CacheInv, DiskTypes, WriterHasTmp, SaverIsAlone, Saving
  <2>5. NamesApart' /\ NothingCreatedYet'
    BY <2>1 DEF CacheInv, DiskTypes, NamesApart, NothingCreatedYet, Created, CacheAssumption
  <2> QED
    BY <2>2, <2>4, <2>5 DEF CacheInv
<1> QED
  BY <1>1, <1>2, <1>3, <1>4, <1>5, <1>6, <1>7, <1>8 DEF SaveStep

\* The end of a process and the replacement of a GGUF file.
LEMMA OutsideInv ==
    ASSUME CacheAssumption, CacheInv,
           \/ \E p \in Procs : Die(p)
           \/ \E f \in {Base} \cup Loras : ReplaceFile(f)
           \/ UNCHANGED cacheVars
    PROVE  CacheInv'
<1> USE DEF Goto
<1>1. ASSUME NEW p \in Procs, Die(p) PROVE CacheInv'
  <2>1. DiskTypes'
    BY <1>1 DEF Die, CacheInv, DiskTypes, diskVars, saveVars, loadVars
  <2> QED
    BY <1>1, <2>1, QuietStep DEF Die, Loading, CacheInv, DiskTypes, Saving, Created, diskVars, saveVars, loadVars
<1>2. ASSUME NEW f \in {Base} \cup Loras, ReplaceFile(f) PROVE CacheInv'
  <2>1. DiskTypes'
    BY <1>2 DEF ReplaceFile, CacheInv, DiskTypes, diskVars, saveVars, loadVars, CacheAssumption
  <2> QED
    BY <1>2, <2>1, QuietStep DEF ReplaceFile, CacheInv, DiskTypes, Saving, Created, diskVars, saveVars, loadVars
<1>3. ASSUME UNCHANGED cacheVars PROVE CacheInv'
  <2>1. DiskTypes'
    BY <1>3 DEF CacheInv, DiskTypes, cacheVars, diskVars, saveVars, loadVars
  <2> QED
    BY <1>3, <2>1, QuietStep DEF cacheVars, CacheInv, DiskTypes, Saving, Created, diskVars, saveVars, loadVars
<1> QED
  BY <1>1, <1>2, <1>3

\* The inductive step.
LEMMA StepCacheInv ==
    ASSUME CacheAssumption, ~overlap', CacheInv, [Next]_cacheVars
    PROVE  CacheInv'
  BY LoadStepInv, SaveStepInv, OutsideInv, NextCases

\* As long as no two processes have saved at the same time the names and files
\* of the cache directory are in order: the file being written has a temporary name
\* and no other.
THEOREM CacheInductive == Spec => [](~overlap => CacheInv)
<1>1. (~overlap => CacheInv) /\ [Next]_cacheVars => (~overlap => CacheInv)'
  <2> SUFFICES ASSUME ~overlap => CacheInv, [Next]_cacheVars, ~overlap' PROVE CacheInv'
    OBVIOUS
  <2>1. CacheInv
    BY OverlapStays
  <2> QED
    BY <2>1, StepCacheInv, CacheAssumption
<1>2. Init => (~overlap => CacheInv)
  BY InitCacheInv, CacheAssumption
<1> QED
  BY <1>1, <1>2, PTL DEF Spec

\* What one step writes is not a published file.
LEMMA StepKeepsPublished ==
    ASSUME CacheAssumption, CacheInv, Next, NEW k \in Keys, cache[k] # NoInode
    PROVE  file'[cache[k]] = file[cache[k]]
<1>1. ASSUME NEW p \in Procs, CreateTmp(p) PROVE file'[cache[k]] = file[cache[k]]
  <2> DEFINE inode == IF tmp[key[p]] = NoInode THEN p ELSE tmp[key[p]]
  <2>1. pc[p] = "create" /\ file' = [file EXCEPT ![inode] = << >>]
    BY <1>1 DEF CreateTmp
  <2>2. cache[k] # p
    BY <2>1 DEF CacheInv, NothingCreatedYet, Created
  <2>3. cache[k] # inode
    BY <2>2 DEF CacheInv, NamesApart, DiskTypes
  <2> QED
    BY <2>1, <2>3 DEF CacheInv, DiskTypes
<1>2. ASSUME NEW p \in Procs, WritePart(p) PROVE file'[cache[k]] = file[cache[k]]
  <2>1. pc[p] = "write" /\ \E s : file' = [file EXCEPT ![fd[p]] = s]
    BY <1>2 DEF WritePart
  <2>2. cache[k] # fd[p]
    BY <2>1 DEF CacheInv, WriterHasTmp, NamesApart, DiskTypes
  <2> QED
    BY <2>1, <2>2 DEF CacheInv, DiskTypes
<1>3. ASSUME NEW p \in Procs, LoadStep(p) PROVE UNCHANGED file
  BY <1>3 DEF LoadStep, Start, ComputeKey, OpenCache, ReadHeader, ReadTable,
     ReadTensor, ReloadBase, MergeLora, diskVars
<1>4. ASSUME NEW p \in Procs, SaveStep(p), ~CreateTmp(p), ~WritePart(p)
      PROVE UNCHANGED file
  BY <1>4 DEF SaveStep, CreateFails, WriteFails, RemoveOld, RenameTmp, RemoveTmp, diskVars
<1>5. ASSUME NEW p \in Procs, Die(p) PROVE UNCHANGED file
  BY <1>5 DEF Die, diskVars
<1>6. ASSUME NEW f \in {Base} \cup Loras, ReplaceFile(f) PROVE UNCHANGED file
  BY <1>6 DEF ReplaceFile, diskVars
<1> QED
  BY <1>1, <1>2, <1>3, <1>4, <1>5, <1>6, NextCases

\* As long as no two processes have saved at the same time, a file that has a
\* cache name is never written to:
\* a reader that has opened it reads one version, however long it takes.
THEOREM PublishedIsFrozenHolds == Spec => PublishedIsFrozen
<1>1. (~overlap => CacheInv) /\ [Next]_cacheVars =>
        [~overlap' => \A k \in Keys : cache[k] # NoInode =>
            file'[cache[k]] = file[cache[k]]]_cacheVars
  BY OverlapStays, StepKeepsPublished, CacheAssumption
<1> QED
  BY <1>1, CacheInductive, PTL DEF Spec, PublishedIsFrozen

-----------------------------------------------------------------------------
(***************************************************************************)
(* The parts of a file.                                                    *)
(***************************************************************************)
LEMMA PartTypes ==
    /\ Meta \in Parts /\ Hole \in Parts
    /\ \A m \in Seq(Contents) : Tensor(m) \in Parts
BY DEF Meta, Hole, Tensor, Parts

\* The three kinds of part are told apart.
LEMMA PartsDiffer ==
    /\ Meta # Hole
    /\ \A m : Tensor(m) # Meta /\ Tensor(m) # Hole
<1>1. Meta.kind = "meta" /\ Hole.kind = "hole" /\ \A m : Tensor(m).kind = "tensor"
  BY DEF Meta, Hole, Tensor
<1> QED
  BY <1>1

LEMMA KeysAreContents ==
    ASSUME CacheAssumption, NEW k \in Keys
    PROVE  k \in Seq(Contents)
<1>1. CASE k \in {<<b>> : b \in Hashed({Base})}
  <2>1. PICK b \in Contents : k = <<b>>
    BY <1>1, HashedContents
  <2> QED
    BY <2>1
<1>2. CASE k \in Hashed({Base}) \X Hashed(Loras)
  <2> DEFINE H == Hashed({Base})
             L == Hashed(Loras)
  <2>0. H \subseteq Contents /\ L \subseteq Contents /\ k \in H \X L
    BY <1>2, HashedContents
  <2> HIDE DEF H, L
  <2>1. PICK b \in Contents, c \in Contents : k = <<b, c>>
    BY <2>0
  <2> QED
    BY <2>1
<1> QED
  BY <1>1, <1>2 DEF Keys

LEMMA WholeFileElements ==
    ASSUME N \in Nat, NEW m \in Seq(Contents)
    PROVE  /\ WholeFile(m) \in Seq(Parts) /\ Len(WholeFile(m)) = N + 2
           /\ \A i \in 1 .. N + 2 : /\ WholeFile(m)[i] \in Parts
                                    /\ WholeFile(m)[i] = IF i <= 2 THEN Meta ELSE Tensor(m)
<1>1. \A i \in 1 .. N + 2 : (IF i <= 2 THEN Meta ELSE Tensor(m)) \in Parts
  BY PartTypes
<1> QED
  BY <1>1 DEF WholeFile

LEMMA WeightsElements ==
    ASSUME N \in Nat, NEW m \in Seq(Contents)
    PROVE  /\ Weights(m) \in Seq(Parts) /\ Len(Weights(m)) = N
           /\ \A i \in 1 .. N : Weights(m)[i] = Tensor(m)
BY PartTypes DEF Weights

LEMMA OverwriteElements ==
    ASSUME NEW s \in Seq(Parts), NEW i \in Nat \ {0}, NEW part \in Parts
    PROVE  LET t == Overwrite(s, i, part)
           IN  /\ t \in Seq(Parts)
               /\ Len(t) = IF Len(s) >= i THEN Len(s) ELSE i
               /\ \A j \in 1 .. Len(t) :
                     t[j] = IF j = i THEN part ELSE IF j <= Len(s) THEN s[j] ELSE Hole
<1> DEFINE n == IF Len(s) >= i THEN Len(s) ELSE i
<1>1. n \in Nat
  OBVIOUS
<1>2. \A j \in 1 .. n : (IF j = i THEN part ELSE IF j <= Len(s) THEN s[j] ELSE Hole) \in Parts
  BY PartTypes
<1>3. Overwrite(s, i, part) =
        [j \in 1 .. n |-> IF j = i THEN part ELSE IF j <= Len(s) THEN s[j] ELSE Hole]
  BY DEF Overwrite
<1>4. n = IF Len(s) >= i THEN Len(s) ELSE i
  OBVIOUS
<1> HIDE DEF n
<1> QED
  BY <1>1, <1>2, <1>3, <1>4

\* A file that is a beginning of the whole file of k, one merge's worth.
Beginning(s, k) ==
    Len(s) <= N + 2 /\ \A j \in 1 .. Len(s) : s[j] = WholeFile(k)[j]

LEMMA BeginningIsPrefix ==
    ASSUME N \in Nat, NEW k \in Seq(Contents), NEW s \in Seq(Parts), Beginning(s, k)
    PROVE  \E n \in 0 .. N + 2 : s = SubSeq(WholeFile(k), 1, n)
<1> DEFINE t == SubSeq(WholeFile(k), 1, Len(s))
<1>1. WholeFile(k) \in Seq(Parts) /\ Len(WholeFile(k)) = N + 2
  BY WholeFileElements
<1>2. Len(s) \in 0 .. N + 2
  BY DEF Beginning
<1>3. t \in Seq(Parts) /\ Len(t) = Len(s) /\ \A j \in 1 .. Len(s) : t[j] = WholeFile(k)[j]
  BY <1>1, <1>2
<1>4. s = t
  <2> HIDE DEF t
  <2> QED BY <1>3, SeqEqual DEF Beginning
<1> QED
  BY <1>2, <1>4


-----------------------------------------------------------------------------
(***************************************************************************)
(* Types, whoever saves when.                                              *)
(***************************************************************************)

\* Who has a file open, and how far each process has come.
DescriptorInv ==
    \A p \in Procs : pc[p] \in {"header", "table", "read", "write"} => fd[p] \in Procs
StepsInv == \A p \in Procs :
    /\ pc[p] = "write" => pos[p] < N + 2
    /\ pc[p] = "read" => Len(got[p]) < N
    /\ pc[p] = "merge" => merged[p] # << >>
    /\ pc[p] \in {"off", "hash", "open", "header", "table"} => got[p] = << >>

TypeInv == LoadTypes /\ DescriptorInv /\ StepsInv

LEMMA InitTypeInv == CacheAssumption /\ Init => TypeInv
<1> SUFFICES ASSUME CacheAssumption, Init PROVE TypeInv
  OBVIOUS
<1>1. <<Content(Base)>> \in Keys
  <2>1. Content(Base) \in Hashed({Base})
    BY DEF Init, Content, Hashed, CacheAssumption
  <2> QED
    BY <2>1 DEF Keys
<1>2. /\ << >> \in Seq(Loras) /\ << >> \in Seq(Contents) /\ << >> \in Seq(Parts)
      /\ Len(<< >>) = 0
  OBVIOUS
<1>3. /\ version \in [{Base} \cup Loras -> Absent .. MaxVersion] /\ args \in [Procs -> Seq(Loras)]
      /\ wanted \in [Procs -> Seq(Contents)] /\ merged \in [Procs -> Seq(Contents)]
      /\ key \in [Procs -> Keys] /\ file \in [Procs -> Seq(Parts)]
  BY <1>1, <1>2 DEF Init, CacheAssumption, Absent
<1>4. got \in [Procs -> Seq(Parts)] /\ \A p \in Procs : Len(got[p]) <= N
  BY <1>2 DEF Init, CacheAssumption
<1>5. /\ fd \in [Procs -> Procs \cup {NoInode}] /\ pos \in [Procs -> 0 .. N + 2]
      /\ cache \in [Keys -> Procs \cup {NoInode}] /\ tmp \in [Keys -> Procs \cup {NoInode}]
  BY DEF Init, CacheAssumption
<1>6. LoadTypes
  BY <1>3, <1>4, <1>5 DEF Init, LoadTypes, Absent
<1>7. DescriptorInv /\ StepsInv
  BY DEF Init, DescriptorInv, StepsInv
<1> QED
  BY <1>6, <1>7 DEF TypeInv

LEMMA ContentTypes ==
    ASSUME CacheAssumption, LoadTypes, NEW p \in Procs
    PROVE  /\ KeyOf(args[p]) \in Keys
           /\ \A f \in {Base} \cup Loras : Content(f) \in Contents
           /\ <<Content(Base)>> \o [i \in DOMAIN args[p] |-> Content(args[p][i])] \in Seq(Contents)
<1>1. /\ args[p] \in Seq(Loras) /\ version \in [{Base} \cup Loras -> Absent .. MaxVersion]
      /\ version[Base] # Absent
  BY DEF LoadTypes
<1>2. \A f \in {Base} \cup Loras : Content(f) \in Contents
  BY <1>1 DEF Content, Contents
<1>3. KeyOf(args[p]) \in Keys
  BY <1>1, KeyOfIsKey
<1>4. [i \in DOMAIN args[p] |-> Content(args[p][i])] \in Seq(Contents)
  <2>1. DOMAIN args[p] = 1 .. Len(args[p]) /\ Len(args[p]) \in Nat
    BY <1>1
  <2>2. \A i \in 1 .. Len(args[p]) : Content(args[p][i]) \in Contents
    BY <1>1, <1>2
  <2> QED
    BY <2>1, <2>2
<1>5. <<Content(Base)>> \in Seq(Contents)
  BY <1>2
<1> QED
  BY <1>2, <1>3, <1>4, <1>5, ConcatProperties

\* The steps of try_load and of the full load.
LEMMA LoadStepTypes ==
    ASSUME CacheAssumption, TypeInv, NEW p \in Procs, LoadStep(p)
    PROVE  TypeInv'
<1> USE DEF Goto
<1>t. LoadTypes /\ DescriptorInv /\ StepsInv /\ N \in Nat \ {0}
  BY DEF TypeInv, CacheAssumption
<1>1. CASE Start(p)
  <2>1. PICK l \in Seq(Loras) : args' = [args EXCEPT ![p] = l]
    BY <1>1 DEF Start, CacheAssumption
  <2>2. LoadTypes'
    BY <1>t, <1>1, <2>1 DEF Start, LoadTypes, diskVars, saveVars
  <2>3. DescriptorInv' /\ StepsInv'
    BY <1>t, <1>1 DEF Start, LoadTypes, DescriptorInv, StepsInv, diskVars, saveVars
  <2> QED
    BY <2>2, <2>3 DEF TypeInv
<1>2. CASE ComputeKey(p)
  <2>1. PICK w \in Seq(Contents), k \in Keys :
           wanted' = [wanted EXCEPT ![p] = w] /\ key' = [key EXCEPT ![p] = k]
    BY <1>t, <1>2, ContentTypes DEF ComputeKey
  <2>4. /\ UNCHANGED <<version, args, merged, got, fd, pos, file, cache, tmp>>
        /\ pc' = [pc EXCEPT ![p] = "open"]
    BY <1>2 DEF ComputeKey, diskVars, saveVars
  <2>2. LoadTypes'
    BY <1>t, <2>1, <2>4 DEF LoadTypes
  <2>3. DescriptorInv' /\ StepsInv'
    BY <1>t, <1>2 DEF ComputeKey, LoadTypes, DescriptorInv, StepsInv, diskVars, saveVars
  <2> QED
    BY <2>2, <2>3 DEF TypeInv
<1>3. CASE OpenCache(p)
  <2>1. LoadTypes'
    BY <1>t, <1>3 DEF OpenCache, LoadTypes, diskVars, loadVars
  <2>2. DescriptorInv' /\ StepsInv'
    BY <1>t, <1>3 DEF OpenCache, LoadTypes, DescriptorInv, StepsInv, diskVars, loadVars
  <2> QED
    BY <2>1, <2>2 DEF TypeInv
<1>4. CASE ReadHeader(p)
  <2>1. PICK l \in {"table", "reload"} : pc' = [pc EXCEPT ![p] = l]
    BY <1>4 DEF ReadHeader
  <2>4. /\ pc[p] = "header"
        /\ UNCHANGED <<version, args, wanted, key, merged, got, fd, pos, file, cache, tmp>>
    BY <1>4 DEF ReadHeader, diskVars, saveVars, loadVars
  <2>2. LoadTypes'
    BY <1>t, <2>1, <2>4 DEF LoadTypes
  <2>3. DescriptorInv' /\ StepsInv'
    BY <1>t, <2>1, <2>4 DEF LoadTypes, DescriptorInv, StepsInv
  <2> QED
    BY <2>2, <2>3 DEF TypeInv
<1>5. CASE ReadTable(p)
  <2> DEFINE holes == [i \in 1 .. N |-> Hole]
  <2>1. holes \in Seq(Parts) /\ Len(holes) = N
    BY <1>t, PartTypes
  <2>2. UNCHANGED <<version, args, wanted, key, merged, fd, pos, file, cache, tmp>>
    BY <1>5 DEF ReadTable, diskVars, saveVars
  <2> HIDE DEF holes
  <2>3. PICK l \in {"read", "reload", "serving"} :
           /\ pc[p] = "table" /\ pc' = [pc EXCEPT ![p] = l]
           /\ got' = got \/ (got' = [got EXCEPT ![p] = holes] /\ l = "serving")
    <3>1. CASE Len(file[fd[p]]) < 2
      BY <1>5, <3>1 DEF ReadTable
    <3>2. CASE ~(Len(file[fd[p]]) < 2) /\ file[fd[p]][2] = Meta
      BY <1>5, <3>2 DEF ReadTable
    <3>3. CASE ~(Len(file[fd[p]]) < 2) /\ file[fd[p]][2] # Meta
      BY <1>5, <3>3 DEF ReadTable, holes
    <3> QED
      BY <3>1, <3>2, <3>3
  <2>4. got' \in [Procs -> Seq(Parts)] /\ \A q \in Procs : Len(got'[q]) <= N
    <3>1. got \in [Procs -> Seq(Parts)] /\ \A q \in Procs : Len(got[q]) <= N
      BY <1>t DEF LoadTypes
    <3>2. CASE got' = got
      BY <3>1, <3>2
    <3>3. CASE got' = [got EXCEPT ![p] = holes]
      BY <1>t, <2>1, <3>1, <3>3
    <3> QED
      BY <2>3, <3>2, <3>3
  <2>5. LoadTypes'
    BY <1>t, <2>2, <2>3, <2>4 DEF LoadTypes
  <2>6. DescriptorInv' /\ StepsInv'
    <3>1. Len(<< >>) = 0
      OBVIOUS
    <3>2. got[p] = << >> /\ fd[p] \in Procs
      BY <1>t, <2>3 DEF StepsInv, DescriptorInv
    <3>3. DescriptorInv'
      BY <1>t, <2>2, <2>3, <3>2 DEF LoadTypes, DescriptorInv
    <3>4. \A q \in Procs : q # p => pc'[q] = pc[q] /\ got'[q] = got[q]
      BY <1>t, <2>3 DEF LoadTypes
    <3>5. /\ pc'[p] \in {"read", "reload", "serving"}
          /\ pc'[p] = "read" => Len(got'[p]) < N
      BY <1>t, <2>1, <2>3, <3>1, <3>2 DEF LoadTypes
    <3>6. StepsInv'
      BY <1>t, <2>2, <3>4, <3>5 DEF StepsInv
    <3> QED
      BY <3>3, <3>6
  <2> QED
    BY <2>5, <2>6 DEF TypeInv
<1>6. CASE ReadTensor(p)
  <2> DEFINE i == Len(got[p]) + 1
             s == file[fd[p]]
  <2>1. /\ pc[p] = "read" /\ fd[p] \in Procs /\ s \in Seq(Parts) /\ got[p] \in Seq(Parts)
        /\ i \in 1 .. N
    <3>1. pc[p] = "read"
      BY <1>6 DEF ReadTensor
    <3>2. fd[p] \in Procs /\ s \in Seq(Parts) /\ got[p] \in Seq(Parts)
      BY <1>t, <3>1 DEF DescriptorInv, LoadTypes
    <3>3. Len(got[p]) < N
      BY <1>t, <3>1 DEF StepsInv
    <3>4. i \in 1 .. N
      BY <1>t, <3>2, <3>3
    <3> QED
      BY <3>1, <3>2, <3>4
  <2>2. UNCHANGED <<version, args, wanted, key, merged, fd, pos, file, cache, tmp>>
    BY <1>6 DEF ReadTensor, diskVars, saveVars
  <2>3. CASE Len(s) >= i + 2
    <3>1. PICK part \in Parts : got' = [got EXCEPT ![p] = Append(@, part)]
      BY <1>6, <2>1, <2>3 DEF ReadTensor
    <3> DEFINE g == Append(got[p], part)
    <3>2. g \in Seq(Parts) /\ Len(g) = i
      BY <2>1
    <3> HIDE DEF g
    <3>3. got' = [got EXCEPT ![p] = g] /\ pc' = [pc EXCEPT ![p] = IF i = N THEN "serving" ELSE "read"]
      BY <1>6, <2>3, <3>1 DEF ReadTensor, g
    <3>6. /\ got' \in [Procs -> Seq(Parts)] /\ got'[p] = g
          /\ \A q \in Procs : q # p => got'[q] = got[q]
      BY <1>t, <3>2, <3>3 DEF LoadTypes
    <3>7. \A q \in Procs : Len(got'[q]) <= N
      <4>1. Len(g) <= N
        BY <1>t, <2>1, <3>2
      <4> QED
        BY <1>t, <3>6, <4>1 DEF LoadTypes
    <3> HIDE DEF i, s
    <3>4. LoadTypes'
      BY <1>t, <2>2, <3>3, <3>6, <3>7 DEF LoadTypes
    <3>9. i # N => i < N
      BY <1>t, <2>1
    <3>5. DescriptorInv' /\ StepsInv'
      BY <1>t, <2>1, <2>2, <3>2, <3>3, <3>6, <3>9 DEF LoadTypes, DescriptorInv, StepsInv
    <3> QED
      BY <3>4, <3>5 DEF TypeInv
  <2>4. CASE ~(Len(s) >= i + 2)
    <3>1. pc' = [pc EXCEPT ![p] = "reload"] /\ got' = got
      BY <1>6, <2>4 DEF ReadTensor
    <3>2. LoadTypes'
      BY <1>t, <2>2, <3>1 DEF LoadTypes
    <3>3. DescriptorInv' /\ StepsInv'
      BY <1>t, <2>2, <3>1 DEF LoadTypes, DescriptorInv, StepsInv
    <3> QED
      BY <3>2, <3>3 DEF TypeInv
  <2> QED
    BY <2>3, <2>4
<1>7. CASE ReloadBase(p)
  <2>1. PICK m \in Seq(Contents) : m # << >> /\ merged' = [merged EXCEPT ![p] = m]
    <3>2. Content(Base) \in Contents
      BY <1>t, ContentTypes
    <3>1. <<Content(Base)>> \in Seq(Contents) /\ <<Content(Base)>> # << >>
      BY <3>2
    <3> QED
      BY <1>7, <3>1 DEF ReloadBase
  <2>2. LoadTypes'
    BY <1>t, <1>7, <2>1 DEF ReloadBase, LoadTypes, diskVars, saveVars
  <2>3. DescriptorInv' /\ StepsInv'
    BY <1>t, <1>7, <2>1 DEF ReloadBase, LoadTypes, DescriptorInv, StepsInv, diskVars, saveVars
  <2> QED
    BY <2>2, <2>3 DEF TypeInv
<1>8. CASE MergeLora(p)
  <2> DEFINE n == Len(merged[p])
  <2>1. /\ pc[p] = "merge" /\ merged[p] \in Seq(Contents) /\ merged[p] # << >>
        /\ args[p] \in Seq(Loras) /\ n \in Nat \ {0}
    <3>1. pc[p] = "merge" /\ merged[p] \in Seq(Contents) /\ merged[p] # << >> /\ args[p] \in Seq(Loras)
      BY <1>t, <1>8 DEF MergeLora, LoadTypes, StepsInv
    <3> QED
      BY <3>1
  <2>2. UNCHANGED <<version, args, wanted, key, fd, pos, file, cache, tmp>>
    BY <1>8 DEF MergeLora, diskVars, saveVars
  <2>3. CASE n <= Len(args[p])
    <3>1. Content(args[p][n]) \in Contents
      <4>1. args[p][n] \in Loras
        BY <2>1, <2>3
      <4> QED
        BY <1>t, <4>1, ContentTypes
    <3>2. PICK m \in Seq(Contents) : m # << >> /\ merged' = [merged EXCEPT ![p] = m]
      <4> DEFINE m == Append(merged[p], Content(args[p][n]))
      <4>1. m \in Seq(Contents) /\ m # << >>
        BY <2>1, <3>1
      <4>2. merged' = [merged EXCEPT ![p] = m]
        BY <1>8, <2>3 DEF MergeLora
      <4> QED
        BY <4>1, <4>2
    <3>3. pc' = pc /\ got' = got
      BY <1>8, <2>3 DEF MergeLora
    <3>4. LoadTypes'
      BY <1>t, <2>2, <3>2, <3>3 DEF LoadTypes
    <3>5. DescriptorInv' /\ StepsInv'
      BY <1>t, <2>2, <3>2, <3>3 DEF LoadTypes, DescriptorInv, StepsInv
    <3> QED
      BY <3>4, <3>5 DEF TypeInv
  <2>4. CASE ~(n <= Len(args[p]))
    <3>1. /\ pc' = [pc EXCEPT ![p] = "create"] /\ merged' = merged
          /\ got' = [got EXCEPT ![p] = Weights(merged[p])]
      BY <1>8, <2>4 DEF MergeLora
    <3>2. Weights(merged[p]) \in Seq(Parts) /\ Len(Weights(merged[p])) = N
      BY <1>t, <2>1, WeightsElements
    <3>3. LoadTypes'
      BY <1>t, <2>2, <3>1, <3>2 DEF LoadTypes
    <3>4. DescriptorInv' /\ StepsInv'
      BY <1>t, <2>2, <3>1 DEF LoadTypes, DescriptorInv, StepsInv
    <3> QED
      BY <3>3, <3>4 DEF TypeInv
  <2> QED
    BY <2>3, <2>4
<1> QED
  BY <1>1, <1>2, <1>3, <1>4, <1>5, <1>6, <1>7, <1>8 DEF LoadStep

\* The steps of save().
LEMMA SaveStepTypes ==
    ASSUME CacheAssumption, TypeInv, NEW p \in Procs, SaveStep(p)
    PROVE  TypeInv'
<1> USE DEF Goto
<1>t. LoadTypes /\ DescriptorInv /\ StepsInv /\ N \in Nat \ {0}
  BY DEF TypeInv, CacheAssumption
<1>1. CASE CreateTmp(p)
  <2> DEFINE inode == IF tmp[key[p]] = NoInode THEN p ELSE tmp[key[p]]
  <2>1. /\ pc[p] = "create" /\ pc' = [pc EXCEPT ![p] = "write"] /\ pos' = [pos EXCEPT ![p] = 0]
        /\ tmp' = [tmp EXCEPT ![key[p]] = inode] /\ fd' = [fd EXCEPT ![p] = inode]
        /\ file' = [file EXCEPT ![inode] = << >>]
        /\ UNCHANGED <<version, args, wanted, key, merged, got, cache>>
    BY <1>1 DEF CreateTmp, loadVars
  <2>2. inode \in Procs /\ key[p] \in Keys
    BY <1>t DEF LoadTypes
  <2> HIDE DEF inode
  <2>3. file' \in [Procs -> Seq(Parts)]
    <3>1. << >> \in Seq(Parts)
      OBVIOUS
    <3> QED
      BY <1>t, <2>1, <3>1 DEF LoadTypes
  <2>6. /\ pos' \in [Procs -> 0 .. N + 2] /\ fd' \in [Procs -> Procs \cup {NoInode}]
        /\ tmp' \in [Keys -> Procs \cup {NoInode}]
        /\ pos'[p] < N + 2 /\ fd'[p] \in Procs
        /\ \A q \in Procs : q # p => pos'[q] = pos[q] /\ fd'[q] = fd[q]
    BY <1>t, <2>1, <2>2 DEF LoadTypes
  <2>4. LoadTypes'
    BY <1>t, <2>1, <2>3, <2>6 DEF LoadTypes
  <2>5. DescriptorInv' /\ StepsInv'
    BY <1>t, <2>1, <2>6 DEF LoadTypes, DescriptorInv, StepsInv
  <2> QED
    BY <2>4, <2>5 DEF TypeInv
<1>3. CASE WritePart(p)
  <2> DEFINE i == pos[p] + 1
             s == Overwrite(file[fd[p]], i, WholeFile(merged[p])[i])
  <2>1. /\ pc[p] = "write" /\ pc' = [pc EXCEPT ![p] = IF i = N + 2 THEN "remove" ELSE "write"]
        /\ pos' = [pos EXCEPT ![p] = i] /\ file' = [file EXCEPT ![fd[p]] = s]
        /\ UNCHANGED <<version, args, wanted, key, merged, got, fd, cache, tmp>>
    BY <1>3 DEF WritePart, loadVars
  <2>2. /\ fd[p] \in Procs /\ i \in 1 .. N + 2 /\ merged[p] \in Seq(Contents)
        /\ file[fd[p]] \in Seq(Parts)
    BY <1>t, <2>1 DEF LoadTypes, DescriptorInv, StepsInv
  <2>3. s \in Seq(Parts)
    <3>1. WholeFile(merged[p])[i] \in Parts
      BY <1>t, <2>2, WholeFileElements
    <3>2. i \in Nat \ {0}
      BY <2>2
    <3> QED
      BY <2>2, <3>1, <3>2, OverwriteElements
  <2> HIDE DEF s
  <2>4. i # N + 2 => i < N + 2
    BY <1>t, <2>2
  <2> HIDE DEF i
  <2>5. file' \in [Procs -> Seq(Parts)]
    BY <1>t, <2>1, <2>3 DEF LoadTypes
  <2>8. pos' \in [Procs -> 0 .. N + 2]
    <3>1. i \in 0 .. N + 2
      BY <2>2
    <3> QED
      BY <1>t, <2>1, <3>1 DEF LoadTypes
  <2>6. LoadTypes'
    BY <1>t, <2>1, <2>5, <2>8 DEF LoadTypes
  <2>7. DescriptorInv' /\ StepsInv'
    BY <1>t, <2>1, <2>2, <2>4 DEF LoadTypes, DescriptorInv, StepsInv
  <2> QED
    BY <2>6, <2>7 DEF TypeInv
<1>4. CASE CreateFails(p) \/ WriteFails(p)
  <2>1. PICK l \in {"serving", "remove"} : pc' = [pc EXCEPT ![p] = l]
    BY <1>4 DEF CreateFails, WriteFails
  <2>2. UNCHANGED <<version, args, wanted, key, merged, got, fd, pos, file, cache, tmp>>
    BY <1>4 DEF CreateFails, WriteFails, loadVars, saveVars, diskVars
  <2>3. LoadTypes'
    BY <1>t, <2>1, <2>2 DEF LoadTypes
  <2>4. DescriptorInv' /\ StepsInv'
    BY <1>t, <2>1, <2>2 DEF LoadTypes, DescriptorInv, StepsInv
  <2> QED
    BY <2>3, <2>4 DEF TypeInv
<1>5. CASE RemoveOld(p) \/ RenameTmp(p) \/ RemoveTmp(p)
  <2>1. PICK l \in {"rename", "serving", "cleanup"} : pc' = [pc EXCEPT ![p] = l]
    BY <1>5 DEF RemoveOld, RenameTmp, RemoveTmp
  <2>2. UNCHANGED <<version, args, wanted, key, merged, got, fd, pos, file>>
    BY <1>5 DEF RemoveOld, RenameTmp, RemoveTmp, loadVars, saveVars
  <2>3. cache' \in [Keys -> Procs \cup {NoInode}] /\ tmp' \in [Keys -> Procs \cup {NoInode}]
    BY <1>t, <1>5 DEF RemoveOld, RenameTmp, RemoveTmp, LoadTypes
  <2>4. LoadTypes'
    BY <1>t, <2>1, <2>2, <2>3 DEF LoadTypes
  <2>5. DescriptorInv' /\ StepsInv'
    BY <1>t, <2>1, <2>2 DEF LoadTypes, DescriptorInv, StepsInv
  <2> QED
    BY <2>4, <2>5 DEF TypeInv
<1> QED
  BY <1>1, <1>3, <1>4, <1>5 DEF SaveStep

LEMMA OutsideTypes ==
    ASSUME CacheAssumption, TypeInv,
           \/ \E p \in Procs : Die(p)
           \/ \E f \in {Base} \cup Loras : ReplaceFile(f)
           \/ UNCHANGED cacheVars
    PROVE  TypeInv'
<1> USE DEF Goto
<1>t. LoadTypes /\ DescriptorInv /\ StepsInv /\ MaxVersion \in Nat
  BY DEF TypeInv, CacheAssumption
<1>1. ASSUME NEW p \in Procs, Die(p) PROVE TypeInv'
  <2>1. /\ pc' = [pc EXCEPT ![p] = "dead"]
        /\ UNCHANGED <<version, args, wanted, key, merged, got, fd, pos, file, cache, tmp>>
    BY <1>1 DEF Die, loadVars, saveVars, diskVars
  <2>2. LoadTypes' /\ DescriptorInv' /\ StepsInv'
    BY <1>t, <2>1 DEF LoadTypes, DescriptorInv, StepsInv
  <2> QED
    BY <2>2 DEF TypeInv
<1>2. ASSUME NEW f \in {Base} \cup Loras, ReplaceFile(f) PROVE TypeInv'
  <2>1. /\ version' \in [{Base} \cup Loras -> Absent .. MaxVersion]
        /\ version'[Base] # Absent
        /\ UNCHANGED <<pc, args, wanted, key, merged, got, fd, pos, file, cache, tmp>>
    BY <1>t, <1>2 DEF ReplaceFile, LoadTypes, loadVars, saveVars, diskVars
  <2>2. LoadTypes' /\ DescriptorInv' /\ StepsInv'
    BY <1>t, <2>1 DEF LoadTypes, DescriptorInv, StepsInv
  <2> QED
    BY <2>2 DEF TypeInv
<1>3. ASSUME UNCHANGED cacheVars PROVE TypeInv'
  <2>1. UNCHANGED <<version, pc, args, wanted, key, merged, got, fd, pos, file, cache, tmp>>
    BY <1>3 DEF cacheVars, loadVars, saveVars, diskVars
  <2>2. LoadTypes' /\ DescriptorInv' /\ StepsInv'
    BY <1>t, <2>1 DEF LoadTypes, DescriptorInv, StepsInv
  <2> QED
    BY <2>2 DEF TypeInv
<1> QED
  BY <1>1, <1>2, <1>3

LEMMA StepTypeInv ==
    ASSUME CacheAssumption, TypeInv, [Next]_cacheVars
    PROVE  TypeInv'
BY LoadStepTypes, SaveStepTypes, OutsideTypes, NextCases

\* The types, the open files and how far each process has come, in every
\* reachable state.
THEOREM TypeInductive == Spec => []TypeInv
<1>1. TypeInv /\ [Next]_cacheVars => TypeInv'
  BY StepTypeInv, CacheAssumption
<1>2. Init => TypeInv
  BY InitTypeInv, CacheAssumption
<1> QED
  BY <1>1, <1>2, PTL DEF Spec

\* Every variable keeps its type, whoever saves when: in particular no part is
\* read or written beyond the last tensor.
THEOREM CacheTypeCorrect == Spec => []CacheTypeOK
<1> DEFINE Flag == overlap \in BOOLEAN
<1>1. Init => Flag
  BY DEF Init
<1>2. Flag /\ [Next]_cacheVars => Flag'
  <2> SUFFICES ASSUME Flag, [Next]_cacheVars PROVE Flag'
    OBVIOUS
  <2>1. overlap' = overlap \/ overlap' = (overlap \/ \E q \in Procs : Saving(q))
    BY OverlapStep
  <2> QED
    BY <2>1, Zenon
<1>3. TypeInv /\ Flag => CacheTypeOK
  BY DEF TypeInv, CacheTypeOK
<1> QED
  BY <1>1, <1>2, <1>3, TypeInductive, PTL DEF Spec

-----------------------------------------------------------------------------
(***************************************************************************)
(* What a process knows, when it is given one LoRA file at most: its key   *)
(* names what it will have merged, which is all it wants unless its LoRA   *)
(* file could not be read; in that case it does not come to save().        *)
(***************************************************************************)
OneLora == \A l \in ArgLists : Len(l) <= 1

OwnOf(p) ==
    /\ Len(args[p]) <= 1
    /\ Loading(p) /\ pc[p] # "hash" => key[p] = KeyOf(args[p])
    /\ pc[p] \notin {"off", "hash", "dead"} /\ AllRead(p) => wanted[p] = key[p]
    /\ pc[p] = "merge" => merged[p] = <<Content(Base)>> \/ merged[p] = key[p]
    /\ pc[p] = "create" \/ Saving(p) => merged[p] = key[p] /\ got[p] = Weights(key[p])

OwnInv == \A p \in Procs : OwnOf(p)

LEMMA PairSequence ==
    ASSUME NEW x, NEW y
    PROVE  <<x>> \o <<y>> = <<x, y>> /\ Append(<<x>>, y) = <<x, y>>
<1> DEFINE S == {x, y}
           s == <<x>>
           t == <<y>>
           u == <<x, y>>
           v == s \o t
           w == Append(s, y)
<1>1. /\ s \in Seq(S) /\ t \in Seq(S) /\ u \in Seq(S) /\ y \in S
      /\ Len(s) = 1 /\ Len(t) = 1 /\ Len(u) = 2
      /\ s[1] = x /\ t[1] = y /\ u[1] = x /\ u[2] = y
  OBVIOUS
<1> HIDE DEF s, t, u, S
<1>2. /\ v \in Seq(S) /\ Len(v) = 2
      /\ \A i \in 1 .. 2 : v[i] = IF i <= 1 THEN s[i] ELSE t[i - 1]
  BY <1>1, ConcatProperties
<1>3. /\ w \in Seq(S) /\ Len(w) = 2 /\ w[1] = x /\ w[2] = y
  <2>1. /\ w \in Seq(S) /\ Len(w) = Len(s) + 1 /\ w[Len(s) + 1] = y
        /\ \A i \in 1 .. Len(s) : w[i] = s[i]
    <3>1. w \in Seq(S) /\ Len(w) = Len(s) + 1
      BY <1>1, AppendProperties
    <3>2. \A i \in 1 .. Len(s) : w[i] = s[i]
      BY <1>1, AppendProperties
    <3>3. w[Len(s) + 1] = y
      BY <1>1, AppendProperties
    <3> QED
      BY <3>1, <3>2, <3>3
  <2> HIDE DEF w
  <2> QED
    BY <1>1, <2>1
<1> HIDE DEF v, w
<1>4. v[1] = x /\ v[2] = y
  BY <1>1, <1>2
<1>5. \A i \in 1 .. 2 : v[i] = u[i] /\ w[i] = u[i]
  BY <1>1, <1>3, <1>4
<1>6. v = u /\ w = u
  BY <1>1, <1>2, <1>3, <1>5, SeqEqual
<1> QED
  BY <1>6 DEF s, t, u, v, w

LEMMA KeyOfShort ==
    ASSUME NEW l \in Seq(Loras), Len(l) <= 1
    PROVE  LET w == <<Content(Base)>> \o [i \in DOMAIN l |-> Content(l[i])]
           IN  /\ (\A i \in DOMAIN w : w[i][2] # Absent) => KeyOf(l) = w
               /\ l = << >> => KeyOf(l) = <<Content(Base)>>
               /\ l # << >> =>
                     /\ Len(l) = 1
                     /\ KeyOf(l) = IF version[l[1]] = Absent THEN <<Content(Base)>>
                                   ELSE Append(<<Content(Base)>>, Content(l[1]))
<1> DEFINE c(f) == Content(f)
           w == <<c(Base)>> \o [i \in DOMAIN l |-> c(l[i])]
<1> HIDE DEF c
<1>1. CASE l = << >>
  <2>1. [i \in DOMAIN l |-> c(l[i])] = << >>
    BY <1>1
  <2>2. <<c(Base)>> \o << >> = <<c(Base)>>
    OBVIOUS
  <2> QED
    BY <1>1, <2>1, <2>2 DEF KeyOf, c
<1>2. CASE l # << >>
  <2>1. Len(l) = 1 /\ DOMAIN l = 1 .. 1
    <3>1. Len(l) \in Nat \ {0}
      BY <1>2, EmptySeq
    <3>2. \A n \in Nat \ {0} : n <= 1 => n = 1
      OBVIOUS
    <3>3. Len(l) = 1
      BY <3>1, <3>2, Zenon
    <3> QED
      BY <3>3
  <2>2. [i \in DOMAIN l |-> c(l[i])] = <<c(l[1])>>
    BY <2>1
  <2>3. /\ <<c(Base)>> \o <<c(l[1])>> = <<c(Base), c(l[1])>>
        /\ Append(<<c(Base)>>, c(l[1])) = <<c(Base), c(l[1])>>
    BY PairSequence
  <2>4. w = <<c(Base), c(l[1])>>
    BY <2>2, <2>3
  <2>5. 2 \in DOMAIN w /\ w[2] = c(l[1])
    BY <2>4
  <2>6. w[2][2] = version[l[1]]
    BY <2>5 DEF c, Content
  <2> HIDE DEF w
  <2>7. (\A i \in DOMAIN w : w[i][2] # Absent) => KeyOf(l) = w
    <3>1. version[l[1]] # Absent => KeyOf(l) = <<c(Base), c(l[1])>>
      BY <1>2 DEF KeyOf, c
    <3> QED
      BY <2>4, <2>5, <2>6, <3>1
  <2>8. KeyOf(l) = IF version[l[1]] = Absent THEN <<c(Base)>> ELSE Append(<<c(Base)>>, c(l[1]))
    BY <1>2, <2>3 DEF KeyOf, c
  <2> QED
    BY <1>2, <2>1, <2>7, <2>8 DEF w, c
<1> QED
  BY <1>1, <1>2

LEMMA OwnFrame ==
    ASSUME NEW q \in Procs, OwnOf(q), version' = version,
           pc'[q] = pc[q], args'[q] = args[q], key'[q] = key[q],
           wanted'[q] = wanted[q], merged'[q] = merged[q], got'[q] = got[q]
    PROVE  OwnOf(q)'
BY DEF OwnOf, Loading, Saving, KeyOf, Content, AllRead

LEMMA InitOwn == CacheAssumption /\ Init => OwnInv
<1>1. Len(<< >>) <= 1
  OBVIOUS
<1>2. ASSUME CacheAssumption, Init, NEW p \in Procs
      PROVE  pc[p] = "off" /\ args[p] = << >>
  BY <1>2 DEF Init
<1> QED
  BY <1>1, <1>2 DEF OwnInv, OwnOf, Loading, Saving

LEMMA StepOwn ==
    ASSUME CacheAssumption, OneLora, TypeInv, OwnInv, [Next]_cacheVars
    PROVE  OwnInv'
<1> USE DEF Goto
<1>1. LoadTypes /\ StepsInv
  BY DEF TypeInv
<1>2. ASSUME NEW p \in Procs, LoadStep(p) \/ SaveStep(p) \/ Die(p) PROVE OwnInv'
  <2>1. /\ version' = version
        /\ \A q \in Procs : q # p =>
              /\ pc'[q] = pc[q] /\ args'[q] = args[q] /\ key'[q] = key[q]
              /\ wanted'[q] = wanted[q] /\ merged'[q] = merged[q] /\ got'[q] = got[q]
    <3>1. CASE LoadStep(p)
      BY <1>1, <3>1 DEF LoadStep, Start, ComputeKey, OpenCache, ReadHeader, ReadTable, ReadTensor,
         ReloadBase, MergeLora, LoadTypes, loadVars
    <3>2. CASE SaveStep(p) \/ Die(p)
      BY <1>1, <3>2 DEF SaveStep, CreateTmp, CreateFails, WritePart, WriteFails, RemoveOld,
         RenameTmp, RemoveTmp, Die, LoadTypes, loadVars
    <3> QED
      BY <1>2, <3>1, <3>2
  <2>2. SUFFICES OwnOf(p)'
    <3>1. ASSUME NEW q \in Procs, q # p PROVE OwnOf(q)'
      BY <2>1, <3>1, OwnFrame DEF OwnInv
    <3> QED
      BY <3>1 DEF OwnInv
  <2>3. /\ OwnOf(p) /\ args[p] \in Seq(Loras)
        /\ args' = args => KeyOf(args[p])' = KeyOf(args[p])
        /\ Content(Base)' = Content(Base)
    BY <1>1, <2>1 DEF OwnInv, LoadTypes, KeyOf, Content
  <2>4. CASE Start(p)
    <3>1. PICK l \in ArgLists : args' = [args EXCEPT ![p] = l]
      BY <2>4 DEF Start
    <3>2. Len(args'[p]) <= 1 /\ pc'[p] = "hash"
      BY <1>1, <2>4, <3>1 DEF Start, LoadTypes, OneLora
    <3> QED
      BY <3>2 DEF OwnOf, Loading, Saving, AllRead
  <2>5. CASE ComputeKey(p)
    <3>1. /\ pc'[p] = "open" /\ args' = args /\ key'[p] = KeyOf(args[p])
          /\ wanted'[p] = <<Content(Base)>> \o [i \in DOMAIN args[p] |-> Content(args[p][i])]
      BY <1>1, <2>5 DEF ComputeKey, LoadTypes
    <3>2. AllRead(p)' => key'[p] = wanted'[p]
      BY <2>3, <3>1, KeyOfShort DEF OwnOf, AllRead
    <3> QED
      BY <2>3, <3>1, <3>2 DEF OwnOf, Loading, Saving, AllRead
  <2>6. CASE OpenCache(p) \/ ReadHeader(p) \/ ReadTable(p) \/ ReadTensor(p)
    <3>1. /\ args' = args /\ key' = key /\ wanted' = wanted
          /\ pc[p] \in {"open", "header", "table", "read"}
          /\ pc'[p] \in {"reload", "header", "table", "read", "serving"}
      BY <1>1, <2>6 DEF OpenCache, ReadHeader, ReadTable, ReadTensor, LoadTypes, loadVars
    <3> QED
      BY <2>3, <3>1 DEF OwnOf, Loading, Saving, AllRead
  <2>7. CASE ReloadBase(p)
    <3>1. /\ args' = args /\ key' = key /\ wanted' = wanted /\ pc[p] = "reload" /\ pc'[p] = "merge"
          /\ merged'[p] = <<Content(Base)>>
      BY <1>1, <2>7 DEF ReloadBase, LoadTypes
    <3> QED
      BY <2>3, <3>1 DEF OwnOf, Loading, Saving, AllRead
  <2>8. CASE MergeLora(p)
    <3>1. /\ args' = args /\ key' = key /\ wanted' = wanted /\ pc[p] = "merge"
      BY <2>8 DEF MergeLora
    <3>2. /\ key[p] = KeyOf(args[p]) /\ (AllRead(p) => wanted[p] = key[p]) /\ Len(args[p]) <= 1
          /\ merged[p] = <<Content(Base)>> \/ merged[p] = key[p]
      BY <2>3, <3>1 DEF OwnOf, Loading
    <3>3. Len(<<Content(Base)>>) = 1 /\ \A c : Len(Append(<<Content(Base)>>, c)) = 2
      OBVIOUS
    <3>4. CASE Len(merged[p]) <= Len(args[p])
      <4>1. Len(args[p]) \in Nat /\ Len(merged[p]) \in Nat
        BY <1>1 DEF LoadTypes
      <4>2. args[p] # << >>
        <5>1. CASE args[p] = << >>
          <6>1. Len(args[p]) = 0 /\ merged[p] = <<Content(Base)>>
            BY <2>3, <3>2, <5>1, KeyOfShort
          <6> QED
            BY <3>3, <3>4, <6>1
        <5> QED
          BY <5>1
      <4>6. /\ Len(args[p]) = 1
            /\ key[p] = IF version[args[p][1]] = Absent THEN <<Content(Base)>>
                        ELSE Append(<<Content(Base)>>, Content(args[p][1]))
        BY <2>3, <3>2, <4>2, KeyOfShort
      <4>4. merged[p] = <<Content(Base)>> /\ Len(merged[p]) = 1
        <5>0. Len(args[p]) = 1
          BY <4>6
        <5>1. Len(merged[p]) # 2
          BY ONLY <3>4, <4>1, <5>0
        <5>2. key[p] = <<Content(Base)>> \/ Len(key[p]) = 2
          BY <3>3, <4>6
        <5>3. merged[p] = <<Content(Base)>>
          BY <3>2, <5>1, <5>2
        <5> QED
          BY <3>3, <5>3
      <4>3. key[p] = Append(<<Content(Base)>>, Content(args[p][1]))
        BY <2>8, <3>4, <4>4, <4>6 DEF MergeLora
      <4>5. pc' = pc /\ merged'[p] = Append(merged[p], Content(args[p][1]))
        BY <1>1, <2>8, <3>4, <4>4 DEF MergeLora, LoadTypes
      <4>7. merged'[p] = key[p]
        BY <4>3, <4>4, <4>5
      <4> QED
        BY <2>3, <3>1, <3>2, <4>5, <4>7 DEF OwnOf, Loading, Saving, AllRead
    <3>5. CASE ~(Len(merged[p]) <= Len(args[p]))
      <4>1. merged[p] = key[p]
        <5>1. CASE args[p] = << >>
          BY <2>3, <3>2, <5>1, KeyOfShort
        <5>2. CASE args[p] # << >>
          <6>1. Len(args[p]) = 1
            BY <2>3, <3>2, <5>2, KeyOfShort
          <6> QED
            BY <3>2, <3>3, <3>5, <6>1
        <5> QED
          BY <5>1, <5>2
      <4>2. pc'[p] = "create" /\ merged' = merged /\ got'[p] = Weights(merged[p])
        BY <1>1, <2>8, <3>5 DEF MergeLora, LoadTypes
      <4> QED
        BY <2>3, <3>1, <3>2, <4>1, <4>2 DEF OwnOf, Loading, Saving, AllRead, Weights
    <3> QED
      BY <3>4, <3>5
  <2>9. CASE SaveStep(p)
    <3>1. /\ args' = args /\ key' = key /\ wanted' = wanted /\ merged' = merged /\ got' = got
          /\ pc[p] \in {"create", "write", "remove", "rename", "cleanup"}
          /\ pc'[p] \in {"write", "remove", "rename", "cleanup", "serving"}
      BY <1>1, <2>9 DEF SaveStep, CreateTmp, CreateFails, WritePart, WriteFails, RemoveOld,
         RenameTmp, RemoveTmp, LoadTypes, loadVars
    <3> QED
      BY <2>3, <3>1 DEF OwnOf, Loading, Saving, AllRead, Weights
  <2>10. CASE Die(p)
    <3>1. pc'[p] = "dead" /\ args' = args
      BY <1>1, <2>10 DEF Die, LoadTypes, loadVars
    <3> QED
      BY <2>3, <3>1 DEF OwnOf, Loading, Saving, AllRead
  <2> QED
    BY <1>2, <2>4, <2>5, <2>6, <2>7, <2>8, <2>9, <2>10 DEF LoadStep
<1>3. ASSUME NEW f \in {Base} \cup Loras, ReplaceFile(f) PROVE OwnInv'
  <2>1. UNCHANGED <<pc, args, wanted, key, merged, got>> /\ \A p \in Procs : ~Loading(p)
    BY <1>3 DEF ReplaceFile, loadVars
  <2> QED
    BY <2>1 DEF OwnInv, OwnOf, Loading, Saving, AllRead
<1>4. CASE UNCHANGED cacheVars
  <2>1. UNCHANGED <<version, pc, args, wanted, key, merged, got>>
    BY <1>4 DEF cacheVars, loadVars
  <2> QED
    BY <2>1 DEF OwnInv, OwnOf, Loading, Saving, AllRead, KeyOf, Content
<1> QED
  BY <1>2, <1>3, <1>4, NextCases

-----------------------------------------------------------------------------
(***************************************************************************)
(* Where the parts of a file come from, whoever saves when: a file belongs *)
(* to one key, that of the process that created it.                        *)
(***************************************************************************)
HasOpen(p) == pc[p] \in {"header", "table", "read", "write"}

\* What may be at position j of a file of key k.
Allowed(j, k) == IF j <= 2 THEN {Meta, Hole} ELSE {Hole, Tensor(k)}

NamesOfKey == \A k \in Keys :
    /\ tmp[k] # NoInode => Created(tmp[k]) /\ key[tmp[k]] = k
    /\ cache[k] # NoInode => Created(cache[k]) /\ key[cache[k]] = k

DescriptorOfKey == \A p \in Procs :
    HasOpen(p) => Created(fd[p]) /\ key[fd[p]] = key[p]

FreshIsEmpty == \A p \in Procs : ~Created(p) => file[p] = << >>

PartsOfKey == \A p \in Procs : \A j \in 1 .. Len(file[p]) : file[p][j] \in Allowed(j, key[p])

FilesInv == NamesOfKey /\ DescriptorOfKey /\ FreshIsEmpty /\ PartsOfKey

\* What has been read so far.
GotInv == \A p \in Procs :
    /\ pc[p] \in {"read", "serving"} =>
          \A j \in 1 .. Len(got[p]) : got[p][j] \in {Hole, Tensor(key[p])}
    /\ pc[p] = "serving" => Len(got[p]) = N

\* A step that changes no file and no name and opens no file.
LEMMA FilesFrame ==
    ASSUME LoadTypes, FilesInv, file' = file, cache' = cache, tmp' = tmp, DescriptorInv,
           CacheAssumption,
           \A q \in Procs : Created(q) => Created(q)' /\ key'[q] = key[q],
           \A q \in Procs : HasOpen(q)' => HasOpen(q) /\ fd'[q] = fd[q] /\ key'[q] = key[q]
    PROVE  FilesInv'
<1>1. NamesOfKey'
  <2>1. \A k \in Keys : (tmp[k] # NoInode => tmp[k] \in Procs) /\ (cache[k] # NoInode => cache[k] \in Procs)
    BY DEF LoadTypes
  <2> QED
    BY <2>1 DEF FilesInv, NamesOfKey
<1>2. DescriptorOfKey'
  <2>1. \A q \in Procs : HasOpen(q) => fd[q] \in Procs
    BY DEF DescriptorInv, HasOpen
  <2> QED
    BY <2>1 DEF FilesInv, DescriptorOfKey
<1>3. FreshIsEmpty'
  BY DEF FilesInv, FreshIsEmpty
<1>4. PartsOfKey'
  <2> SUFFICES ASSUME NEW q \in Procs, NEW j \in 1 .. Len(file[q])
               PROVE  file[q][j] \in Allowed(j, key'[q])
    BY DEF PartsOfKey, Allowed, Tensor
  <2>1. CASE Created(q)
    BY <2>1 DEF FilesInv, PartsOfKey
  <2>2. CASE ~Created(q)
    <3>1. file[q] = << >>
      BY <2>2 DEF FilesInv, FreshIsEmpty
    <3> QED
      BY <3>1
  <2> QED
    BY <2>1, <2>2
<1> QED
  BY <1>1, <1>2, <1>3, <1>4 DEF FilesInv

\* save() opens a new file or the one with the temporary name of its key.
LEMMA CreateTmpFiles ==
    ASSUME CacheAssumption, TypeInv, FilesInv, NEW p \in Procs, CreateTmp(p)
    PROVE  FilesInv'
<1> DEFINE k == key[p]
           inode == IF tmp[k] = NoInode THEN p ELSE tmp[k]
<1>1. /\ pc[p] = "create" /\ pc' = [pc EXCEPT ![p] = "write"] /\ key' = key /\ cache' = cache
      /\ tmp' = [tmp EXCEPT ![k] = inode] /\ fd' = [fd EXCEPT ![p] = inode]
      /\ file' = [file EXCEPT ![inode] = << >>]
  BY DEF CreateTmp, loadVars, Goto
<1>2. LoadTypes /\ DescriptorInv /\ k \in Keys /\ inode \in Procs
  BY DEF TypeInv, LoadTypes
<1>3. \A l \in Keys : (tmp[l] # NoInode => tmp[l] \in Procs) /\ (cache[l] # NoInode => cache[l] \in Procs)
  BY <1>2 DEF LoadTypes
<1>4. key[inode] = k /\ (inode = p \/ Created(inode))
  BY <1>2 DEF FilesInv, NamesOfKey
<1> HIDE DEF inode
<1>5. \A q \in Procs : Created(q)' <=> Created(q) \/ q = p
  BY <1>1, <1>2 DEF Created, LoadTypes
<1>6. NamesOfKey'
  <2>1. \A l \in Keys : tmp'[l] = IF l = k THEN inode ELSE tmp[l]
    BY <1>1, <1>2 DEF LoadTypes
  <2> HIDE DEF k
  <2> QED
    BY <1>1, <1>2, <1>3, <1>4, <1>5, <2>1 DEF FilesInv, NamesOfKey
<1>7. DescriptorOfKey'
  <2>1. \A q \in Procs : q # p => fd'[q] = fd[q] /\ (HasOpen(q)' <=> HasOpen(q))
    BY <1>1, <1>2 DEF LoadTypes, HasOpen
  <2>2. \A q \in Procs : HasOpen(q) => fd[q] \in Procs
    BY <1>2 DEF DescriptorInv, HasOpen
  <2>3. fd'[p] = inode
    BY <1>1, <1>2 DEF LoadTypes
  <2>4. ASSUME NEW q \in Procs, HasOpen(q)'
        PROVE  Created(fd[q])' /\ key[fd'[q]] = key[q]
    <3>1. CASE q = p
      BY <1>2, <1>4, <1>5, <2>3, <3>1
    <3>2. CASE q # p
      BY <1>5, <2>1, <2>2, <2>4, <3>2 DEF FilesInv, DescriptorOfKey
    <3> QED
      BY <3>1, <3>2
  <2> QED
    BY <1>1, <2>4 DEF DescriptorOfKey
<1>8. FreshIsEmpty'
  BY <1>1, <1>2, <1>5 DEF FilesInv, FreshIsEmpty, LoadTypes
<1>9. PartsOfKey'
  <2> SUFFICES ASSUME NEW q \in Procs, NEW j \in 1 .. Len(file'[q])
               PROVE  file'[q][j] \in Allowed(j, key[q])
    BY <1>1 DEF PartsOfKey, Allowed, Tensor
  <2>1. q # inode
    <3>1. file'[inode] = << >>
      BY <1>1, <1>2 DEF LoadTypes
    <3> QED
      BY <3>1
  <2>2. file'[q] = file[q]
    BY <1>1, <1>2, <2>1 DEF LoadTypes
  <2> QED
    BY <2>2 DEF FilesInv, PartsOfKey
<1> QED
  BY <1>6, <1>7, <1>8, <1>9 DEF FilesInv

\* A write of a part of the right key, possibly beyond what is in the file.
LEMMA WritePartFiles ==
    ASSUME CacheAssumption, TypeInv, OwnInv, FilesInv, NEW p \in Procs, WritePart(p)
    PROVE  FilesInv'
<1> DEFINE i == pos[p] + 1
           part == WholeFile(merged[p])[i]
           s == file[fd[p]]
           t == Overwrite(s, i, part)
<1>1. /\ pc[p] = "write" /\ pc' = [pc EXCEPT ![p] = IF i = N + 2 THEN "remove" ELSE "write"]
      /\ file' = [file EXCEPT ![fd[p]] = t]
      /\ key' = key /\ fd' = fd /\ cache' = cache /\ tmp' = tmp
  BY DEF WritePart, loadVars, Goto
<1>2. /\ LoadTypes /\ DescriptorInv /\ fd[p] \in Procs /\ i \in 1 .. N + 2
      /\ s \in Seq(Parts) /\ N \in Nat /\ key[p] \in Keys
  <2>1. LoadTypes /\ DescriptorInv /\ fd[p] \in Procs /\ key[p] \in Keys /\ N \in Nat
    BY <1>1 DEF TypeInv, LoadTypes, DescriptorInv, CacheAssumption
  <2>2. pos[p] \in 0 .. N + 2 /\ pos[p] < N + 2
    BY <1>1, <2>1 DEF TypeInv, LoadTypes, StepsInv
  <2>3. i \in 1 .. N + 2
    BY <2>1, <2>2
  <2>4. s \in Seq(Parts)
    BY <2>1 DEF LoadTypes
  <2> QED
    BY <2>1, <2>3, <2>4
<1>3. Created(fd[p]) /\ key[fd[p]] = key[p]
  BY <1>1 DEF FilesInv, DescriptorOfKey, HasOpen
<1>4. merged[p] = key[p] /\ key[p] \in Seq(Contents)
  BY <1>1, <1>2, KeysAreContents DEF OwnInv, OwnOf, Saving
<1>5. part \in Parts /\ part \in Allowed(i, key[p])
  <2>1. part \in Parts /\ part = IF i <= 2 THEN Meta ELSE Tensor(key[p])
    BY <1>2, <1>4, WholeFileElements
  <2> HIDE DEF part
  <2> QED
    BY <2>1 DEF Allowed
<1>6. \A q \in Procs : (Created(q)' <=> Created(q)) /\ (HasOpen(q)' => HasOpen(q))
  BY <1>1, <1>2 DEF Created, HasOpen, LoadTypes
<1>7. NamesOfKey' /\ DescriptorOfKey'
  <2>1. \A l \in Keys : (tmp[l] # NoInode => tmp[l] \in Procs) /\ (cache[l] # NoInode => cache[l] \in Procs)
    BY <1>2 DEF LoadTypes
  <2>2. \A q \in Procs : HasOpen(q) => fd[q] \in Procs
    BY <1>2 DEF DescriptorInv, HasOpen
  <2> QED
    BY <1>1, <1>6, <2>1, <2>2 DEF FilesInv, NamesOfKey, DescriptorOfKey
<1> HIDE DEF part
<1>8. /\ t \in Seq(Parts)
      /\ \A j \in 1 .. Len(t) : t[j] = IF j = i THEN part ELSE IF j <= Len(s) THEN s[j] ELSE Hole
  <2>1. i \in Nat \ {0}
    BY <1>2
  <2> HIDE DEF i, s
  <2> QED
    BY <1>2, <1>5, <2>1, OverwriteElements
<1>9. \A j \in 1 .. Len(t) : t[j] \in Allowed(j, key[p])
  <2> SUFFICES ASSUME NEW j \in 1 .. Len(t) PROVE t[j] \in Allowed(j, key[p])
    OBVIOUS
  <2>1. Hole \in Allowed(j, key[p])
    BY DEF Allowed
  <2>2. \A n \in 1 .. Len(s) : s[n] \in Allowed(n, key[p])
    BY <1>2, <1>3 DEF FilesInv, PartsOfKey
  <2>3. j \in 1 .. Len(t) /\ Len(s) \in Nat /\ Len(t) \in Nat
    BY <1>2, <1>8
  <2>4. t[j] = IF j = i THEN part ELSE IF j <= Len(s) THEN s[j] ELSE Hole
    BY <1>8
  <2> HIDE DEF t, s, i
  <2> QED
    BY <1>5, <2>1, <2>2, <2>3, <2>4
<1> HIDE DEF t
<1>10. PartsOfKey'
  <2> SUFFICES ASSUME NEW q \in Procs, NEW j \in 1 .. Len(file'[q])
               PROVE  file'[q][j] \in Allowed(j, key[q])
    BY <1>1 DEF PartsOfKey, Allowed, Tensor
  <2>1. CASE q = fd[p]
    <3>1. file'[q] = t
      BY <1>1, <1>2, <2>1 DEF LoadTypes
    <3> QED
      BY <1>3, <1>9, <2>1, <3>1
  <2>2. CASE q # fd[p]
    <3>1. file'[q] = file[q]
      BY <1>1, <1>2, <2>2 DEF LoadTypes
    <3> QED
      BY <3>1 DEF FilesInv, PartsOfKey
  <2> QED
    BY <2>1, <2>2
<1>11. FreshIsEmpty'
  BY <1>1, <1>2, <1>3, <1>6 DEF FilesInv, FreshIsEmpty, LoadTypes
<1> QED
  BY <1>7, <1>10, <1>11 DEF FilesInv

\* The names only move within a key.
LEMMA NameStepFiles ==
    ASSUME CacheAssumption, TypeInv, FilesInv, NEW p \in Procs,
           RemoveOld(p) \/ RenameTmp(p) \/ RemoveTmp(p)
    PROVE  FilesInv'
<1>1. LoadTypes /\ DescriptorInv /\ key[p] \in Keys
  BY DEF TypeInv, LoadTypes
<1>2. /\ key' = key /\ fd' = fd /\ file' = file
      /\ pc[p] \in {"remove", "rename", "cleanup"}
      /\ \E l \in {"rename", "cleanup", "serving"} : pc' = [pc EXCEPT ![p] = l]
  BY DEF RemoveOld, RenameTmp, RemoveTmp, loadVars, saveVars, Goto
<1>3. \A q \in Procs : (Created(q)' <=> Created(q)) /\ (HasOpen(q)' => HasOpen(q))
  BY <1>1, <1>2 DEF Created, HasOpen, LoadTypes
<1>4. \A l \in Keys : /\ cache'[l] \in {cache[l], tmp[l], NoInode}
                      /\ tmp'[l] \in {tmp[l], NoInode}
  BY <1>1 DEF RemoveOld, RenameTmp, RemoveTmp, LoadTypes
<1>5. NamesOfKey'
  <2>1. \A l \in Keys : (tmp[l] # NoInode => tmp[l] \in Procs) /\ (cache[l] # NoInode => cache[l] \in Procs)
    BY <1>1 DEF LoadTypes
  <2> SUFFICES ASSUME NEW l \in Keys
               PROVE  /\ tmp'[l] # NoInode => Created(tmp[l])' /\ key[tmp'[l]] = l
                      /\ cache'[l] # NoInode => Created(cache[l])' /\ key[cache'[l]] = l
    BY <1>2 DEF NamesOfKey
  <2>2. ASSUME NEW q, q # NoInode, q = tmp[l] \/ q = cache[l]
        PROVE  q \in Procs /\ (pc'[q] \in {"write", "remove", "rename", "cleanup", "serving", "dead"}) /\ key[q] = l
    <3>1. q \in Procs /\ Created(q) /\ key[q] = l
      BY <2>1, <2>2 DEF FilesInv, NamesOfKey
    <3> QED
      BY <1>3, <3>1 DEF Created
  <2>3. tmp'[l] # NoInode => Created(tmp[l])' /\ key[tmp'[l]] = l
    BY <1>4, <2>2 DEF Created
  <2>4. cache'[l] # NoInode => Created(cache[l])' /\ key[cache'[l]] = l
    BY <1>4, <2>2 DEF Created
  <2> QED
    BY <2>3, <2>4
<1>6. DescriptorOfKey'
  <2>1. \A q \in Procs : HasOpen(q) => fd[q] \in Procs
    BY <1>1 DEF DescriptorInv, HasOpen
  <2> QED
    BY <1>2, <1>3, <2>1 DEF FilesInv, DescriptorOfKey
<1>7. FreshIsEmpty' /\ PartsOfKey'
  BY <1>2, <1>3 DEF FilesInv, FreshIsEmpty, PartsOfKey, Allowed, Tensor
<1> QED
  BY <1>5, <1>6, <1>7 DEF FilesInv

LEMMA StepFiles ==
    ASSUME CacheAssumption, TypeInv, OwnInv, FilesInv, [Next]_cacheVars
    PROVE  FilesInv'
<1>1. LoadTypes /\ DescriptorInv
  BY DEF TypeInv
<1> USE DEF Goto
<1>2. ASSUME NEW p \in Procs, OpenCache(p) PROVE FilesInv'
  <2>1. /\ pc[p] = "open" /\ fd' = [fd EXCEPT ![p] = cache[key[p]]]
        /\ pc' = [pc EXCEPT ![p] = IF cache[key[p]] = NoInode THEN "reload" ELSE "header"]
        /\ file' = file /\ cache' = cache /\ tmp' = tmp /\ key' = key
    BY <1>2 DEF OpenCache, loadVars, diskVars
  <2>2. \A q \in Procs : (Created(q)' <=> Created(q)) /\ (q # p => fd'[q] = fd[q] /\ (HasOpen(q)' <=> HasOpen(q)))
    BY <1>1, <2>1 DEF LoadTypes, Created, HasOpen
  <2>3. \A l \in Keys : (tmp[l] # NoInode => tmp[l] \in Procs) /\ (cache[l] # NoInode => cache[l] \in Procs)
    BY <1>1 DEF LoadTypes
  <2>4. NamesOfKey'
    BY <2>1, <2>2, <2>3 DEF FilesInv, NamesOfKey
  <2>5. ASSUME NEW q \in Procs, HasOpen(q)'
        PROVE  Created(fd[q])' /\ key[fd'[q]] = key[q]
    <3>1. CASE q = p
      <4>1. cache[key[p]] # NoInode /\ key[p] \in Keys /\ fd'[p] = cache[key[p]]
        BY <1>1, <2>1, <2>5, <3>1 DEF LoadTypes, HasOpen
      <4>2. fd'[p] \in Procs /\ Created(cache[key[p]]) /\ key[fd'[p]] = key[p]
        BY <2>3, <4>1 DEF FilesInv, NamesOfKey
      <4>3. Created(fd[p])'
        BY <1>1, <2>1, <4>1, <4>2 DEF LoadTypes, Created
      <4> QED
        BY <3>1, <4>2, <4>3
    <3>2. CASE q # p
      <4>1. fd[q] \in Procs /\ Created(fd[q]) /\ key[fd[q]] = key[q] /\ fd'[q] = fd[q]
        BY <1>1, <2>2, <2>5, <3>2 DEF FilesInv, DescriptorOfKey, DescriptorInv, HasOpen
      <4> QED
        BY <2>2, <4>1
    <3> QED
      BY <3>1, <3>2
  <2>6. DescriptorOfKey'
    BY <2>1, <2>5 DEF DescriptorOfKey
  <2>7. FreshIsEmpty' /\ PartsOfKey'
    BY <2>1, <2>2 DEF FilesInv, FreshIsEmpty, PartsOfKey, Allowed, Tensor
  <2> QED
    BY <2>4, <2>6, <2>7 DEF FilesInv
<1>3. ASSUME NEW p \in Procs, CreateTmp(p) PROVE FilesInv'
  BY <1>3, CreateTmpFiles
<1>4. ASSUME NEW p \in Procs, WritePart(p) PROVE FilesInv'
  BY <1>4, WritePartFiles
<1>5. ASSUME NEW p \in Procs, RemoveOld(p) \/ RenameTmp(p) \/ RemoveTmp(p) PROVE FilesInv'
  BY <1>5, NameStepFiles
<1>6. ASSUME NEW p \in Procs,
             \/ Start(p) \/ ComputeKey(p) \/ ReadHeader(p) \/ ReadTable(p) \/ ReadTensor(p)
             \/ ReloadBase(p) \/ MergeLora(p) \/ CreateFails(p) \/ WriteFails(p) \/ Die(p)
      PROVE  FilesInv'
  <2>1. /\ file' = file /\ cache' = cache /\ tmp' = tmp /\ fd' = fd
        /\ \A q \in Procs : q # p => pc'[q] = pc[q] /\ key'[q] = key[q]
        /\ pc[p] = "hash" \/ key' = key
    BY <1>1, <1>6 DEF Start, ComputeKey, ReadHeader, ReadTable, ReadTensor, ReloadBase, MergeLora,
       CreateFails, WriteFails, Die, LoadTypes, loadVars, saveVars, diskVars
  <2>2. /\ Created(p) => pc[p] = "write" \/ pc[p] \notin {"hash", "create"}
        /\ Created(p) => Created(p)'
        /\ HasOpen(p)' => HasOpen(p) /\ pc[p] # "hash"
    <3>1. CASE Start(p) \/ ComputeKey(p) \/ ReadHeader(p) \/ ReadTable(p) \/ ReadTensor(p)
      BY <1>1, <3>1 DEF Start, ComputeKey, ReadHeader, ReadTable, ReadTensor, LoadTypes,
         Created, HasOpen
    <3>2. CASE ReloadBase(p) \/ MergeLora(p) \/ CreateFails(p) \/ WriteFails(p) \/ Die(p)
      BY <1>1, <3>2 DEF ReloadBase, MergeLora, CreateFails, WriteFails, Die, LoadTypes,
         Created, HasOpen
    <3> QED
      BY <1>6, <3>1, <3>2
  <2>3. \A q \in Procs : Created(q) => Created(q)' /\ key'[q] = key[q]
    BY <2>1, <2>2 DEF Created
  <2>4. \A q \in Procs : HasOpen(q)' => HasOpen(q) /\ fd'[q] = fd[q] /\ key'[q] = key[q]
    BY <2>1, <2>2 DEF HasOpen
  <2> QED
    BY <1>1, <2>1, <2>3, <2>4, FilesFrame
<1>7. ASSUME (\E f \in {Base} \cup Loras : ReplaceFile(f)) \/ UNCHANGED cacheVars PROVE FilesInv'
  <2>1. UNCHANGED <<pc, key, fd, file, cache, tmp>>
    BY <1>7 DEF ReplaceFile, cacheVars, loadVars, saveVars, diskVars
  <2> QED
    BY <1>1, <2>1, FilesFrame DEF Created, HasOpen
<1> QED
  BY <1>2, <1>3, <1>4, <1>5, <1>6, <1>7, NextCases DEF LoadStep, SaveStep

\* What a process reads next comes from a file of its key.
LEMMA ReadTensorGot ==
    ASSUME CacheAssumption, TypeInv, FilesInv, GotInv, NEW p \in Procs, ReadTensor(p)
    PROVE  /\ pc'[p] \in {"read", "serving"} =>
                 \A j \in 1 .. Len(got'[p]) : got'[p][j] \in {Hole, Tensor(key[p])}
           /\ pc'[p] = "serving" => Len(got'[p]) = N
<1> DEFINE i == Len(got[p]) + 1
           s == file[fd[p]]
           part == s[i + 2]
<1>1. /\ LoadTypes /\ pc[p] = "read" /\ fd[p] \in Procs /\ got[p] \in Seq(Parts)
      /\ s \in Seq(Parts) /\ key[fd[p]] = key[p]
  BY DEF ReadTensor, TypeInv, DescriptorInv, FilesInv, DescriptorOfKey, HasOpen, LoadTypes
<1>2. CASE Len(s) >= i + 2
  <2>1. got'[p] = Append(got[p], part) /\ pc'[p] = IF i = N THEN "serving" ELSE "read"
    BY <1>1, <1>2 DEF ReadTensor, LoadTypes, Goto
  <2>2. i + 2 \in 1 .. Len(s) /\ i + 2 > 2 /\ Len(got[p]) \in Nat
    BY <1>1, <1>2
  <2>3. part \in Allowed(i + 2, key[p]) /\ part \in Parts
    BY <1>1, <2>2 DEF FilesInv, PartsOfKey
  <2>4. part \in {Hole, Tensor(key[p])}
    BY <2>2, <2>3 DEF Allowed
  <2> HIDE DEF part
  <2>5. Len(got'[p]) = i /\ got'[p][i] = part /\ \A j \in 1 .. Len(got[p]) : got'[p][j] = got[p][j]
    BY <1>1, <2>1, <2>3
  <2>6. \A j \in 1 .. Len(got[p]) : got[p][j] \in {Hole, Tensor(key[p])}
    BY <1>1 DEF GotInv
  <2>7. \A j \in 1 .. i : j = i \/ j \in 1 .. Len(got[p])
    BY <2>2
  <2> QED
    BY <2>1, <2>4, <2>5, <2>6, <2>7
<1>3. CASE ~(Len(s) >= i + 2)
  <2>1. pc'[p] = "reload"
    BY <1>1, <1>3 DEF ReadTensor, LoadTypes, Goto
  <2> QED
    BY <2>1
<1> QED
  BY <1>2, <1>3

LEMMA StepGot ==
    ASSUME CacheAssumption, TypeInv, OwnInv, FilesInv, GotInv, [Next]_cacheVars
    PROVE  GotInv'
<1>1. LoadTypes /\ StepsInv /\ N \in Nat
  BY DEF TypeInv, CacheAssumption
<1> USE DEF Goto
<1>2. ASSUME NEW p \in Procs, LoadStep(p) \/ SaveStep(p) \/ Die(p) PROVE GotInv'
  <2>1. \A q \in Procs : q # p => pc'[q] = pc[q] /\ got'[q] = got[q] /\ key'[q] = key[q]
    <3>1. CASE LoadStep(p)
      BY <1>1, <3>1 DEF LoadStep, Start, ComputeKey, OpenCache, ReadHeader, ReadTable, ReadTensor,
         ReloadBase, MergeLora, LoadTypes, loadVars
    <3>2. CASE SaveStep(p) \/ Die(p)
      BY <1>1, <3>2 DEF SaveStep, CreateTmp, CreateFails, WritePart, WriteFails, RemoveOld,
         RenameTmp, RemoveTmp, Die, LoadTypes, loadVars
    <3> QED
      BY <1>2, <3>1, <3>2
  <2>2. SUFFICES /\ pc'[p] \in {"read", "serving"} =>
                       \A j \in 1 .. Len(got'[p]) : got'[p][j] \in {Hole, Tensor(key'[p])}
                 /\ pc'[p] = "serving" => Len(got'[p]) = N
    BY <2>1 DEF GotInv, Tensor
  <2>3. CASE ReadTable(p)
    <3>1. pc[p] = "table" /\ got[p] = << >> /\ Len(<< >>) = 0
      BY <1>1, <2>3 DEF ReadTable, StepsInv
    <3>2. /\ pc'[p] \in {"read", "reload"} => got'[p] = << >>
          /\ pc'[p] = "serving" => got'[p] = [j \in 1 .. N |-> Hole]
          /\ pc'[p] \in {"read", "reload", "serving"}
      <4>1. CASE Len(file[fd[p]]) < 2
        BY <1>1, <2>3, <3>1, <4>1 DEF ReadTable, LoadTypes
      <4>2. CASE ~(Len(file[fd[p]]) < 2) /\ file[fd[p]][2] = Meta
        BY <1>1, <2>3, <3>1, <4>2 DEF ReadTable, LoadTypes
      <4>3. CASE ~(Len(file[fd[p]]) < 2) /\ file[fd[p]][2] # Meta
        BY <1>1, <2>3, <3>1, <4>3 DEF ReadTable, LoadTypes
      <4> QED
        BY <4>1, <4>2, <4>3
    <3>3. CASE pc'[p] = "serving"
      <4> DEFINE holes == [j \in 1 .. N |-> Hole]
      <4>1. holes \in Seq(Parts) /\ Len(holes) = N /\ \A j \in 1 .. N : holes[j] = Hole
        BY <1>1, PartTypes
      <4>2. got'[p] = holes
        BY <3>2, <3>3
      <4> HIDE DEF holes
      <4> QED
        BY <4>1, <4>2
    <3> QED
      BY <3>1, <3>2, <3>3
  <2>4. CASE ReadTensor(p)
    <3>1. key' = key
      BY <2>4 DEF ReadTensor
    <3> QED
      BY <2>4, <3>1, ReadTensorGot
  <2>5. CASE SaveStep(p)
    <3>1. key' = key /\ got' = got /\ pc[p] \in {"create", "write", "remove", "rename", "cleanup"}
          /\ key[p] \in Keys
      BY <1>1, <2>5 DEF SaveStep, CreateTmp, CreateFails, WritePart, WriteFails, RemoveOld,
         RenameTmp, RemoveTmp, loadVars, LoadTypes
    <3>2. got[p] = Weights(key[p])
      BY <3>1 DEF OwnInv, OwnOf, Saving
    <3>3. Len(got[p]) = N /\ \A j \in 1 .. N : got[p][j] = Tensor(key[p])
      BY <1>1, <3>1, <3>2, KeysAreContents, WeightsElements
    <3> QED
      BY <3>1, <3>3
  <2>6. CASE ~ReadTable(p) /\ ~ReadTensor(p) /\ ~SaveStep(p)
    <3>1. pc'[p] \in {"hash", "open", "reload", "header", "table", "merge", "create", "dead"}
      BY <1>1, <1>2, <2>6 DEF LoadStep, Start, ComputeKey, OpenCache, ReadHeader, ReloadBase,
         MergeLora, Die, LoadTypes
    <3> QED
      BY <3>1
  <2> QED
    BY <2>3, <2>4, <2>5, <2>6
<1>3. ASSUME (\E f \in {Base} \cup Loras : ReplaceFile(f)) \/ UNCHANGED cacheVars PROVE GotInv'
  <2>1. UNCHANGED <<pc, key, got>>
    BY <1>3 DEF ReplaceFile, cacheVars, loadVars
  <2> QED
    BY <2>1 DEF GotInv, Tensor
<1> QED
  BY <1>2, <1>3, NextCases

OriginInv == TypeInv /\ OwnInv /\ FilesInv /\ GotInv

LEMMA InitOrigin == CacheAssumption /\ Init => OriginInv
<1> SUFFICES ASSUME CacheAssumption, Init PROVE OriginInv
  OBVIOUS
<1>1. TypeInv /\ OwnInv
  BY InitTypeInv, InitOwn
<1>2. Len(<< >>) = 0
  OBVIOUS
<1>3. FilesInv /\ GotInv
  BY <1>2 DEF Init, FilesInv, GotInv, NamesOfKey, DescriptorOfKey, FreshIsEmpty, PartsOfKey,
     HasOpen, Created
<1> QED
  BY <1>1, <1>3 DEF OriginInv

\* With one LoRA file at most, a cache file holds parts of one model only: that
\* of the key of the process that created it.
THEOREM OriginInductive ==
    ASSUME OneLora PROVE Spec => []OriginInv
<1>1. OriginInv /\ [Next]_cacheVars => OriginInv'
  BY StepTypeInv, StepOwn, StepFiles, StepGot, CacheAssumption DEF OriginInv
<1>2. Init => OriginInv
  BY InitOrigin, CacheAssumption
<1> QED
  BY <1>1, <1>2, PTL DEF Spec

\* With one LoRA file at most, the files of one model never give weights to
\* another, whatever processes save and load at the same time.
THEOREM OwnWeightsOrZerosHolds ==
    ASSUME OneLora PROVE Spec => []OwnWeightsOrZeros
<1>1. OriginInv => OwnWeightsOrZeros
  BY DEF OriginInv, OwnInv, OwnOf, GotInv, OwnWeightsOrZeros
<1> QED
  BY <1>1, OriginInductive, PTL

-----------------------------------------------------------------------------
(***************************************************************************)
(* One saver at a time: every file is a beginning of one merge.            *)
(***************************************************************************)
Reading(p) == pc[p] \in {"header", "table", "read"}
Filling(p) == pc[p] \in {"write", "remove", "rename"}

Published == \A k \in Keys : cache[k] # NoInode => Beginning(file[cache[k]], k)

Filled == \A p \in Procs : Filling(p) =>
    /\ fd[p] \in Procs /\ tmp[key[p]] = fd[p]
    /\ Beginning(file[fd[p]], key[p])
    /\ pc[p] = "write" => Len(file[fd[p]]) = pos[p]

Readable == \A p \in Procs : Reading(p) =>
    Beginning(file[fd[p]], key[p]) /\ \A k \in Keys : tmp[k] # fd[p]

SavedInv == Published /\ Filled /\ Readable

\* All that has been read is what the process wants.
ReadInv == \A p \in Procs : pc[p] \in {"read", "serving"} =>
    \A j \in 1 .. Len(got[p]) : got[p][j] = Tensor(key[p])

AllInv == CacheInv /\ OriginInv /\ SavedInv /\ ReadInv

\* A step that changes no file and lets nobody begin to read or to save.
LEMMA SavedFrame ==
    ASSUME SavedInv, file' = file, cache' = cache, tmp' = tmp,
           \A q \in Procs : Filling(q)' =>
               Filling(q) /\ fd'[q] = fd[q] /\ key'[q] = key[q] /\ pos'[q] = pos[q]
               /\ (pc'[q] = "write" => pc[q] = "write"),
           \A q \in Procs : Reading(q)' => Reading(q) /\ fd'[q] = fd[q] /\ key'[q] = key[q]
    PROVE  SavedInv'
<1>1. Published'
  BY DEF SavedInv, Published
<1>2. Filled'
  <2> SUFFICES ASSUME NEW q \in Procs, Filling(q)'
               PROVE  /\ fd'[q] \in Procs /\ tmp'[key'[q]] = fd'[q]
                      /\ Beginning(file'[fd'[q]], key'[q])
                      /\ pc'[q] = "write" => Len(file'[fd'[q]]) = pos'[q]
    BY DEF Filled
  <2>1. /\ Filling(q) /\ fd'[q] = fd[q] /\ key'[q] = key[q] /\ pos'[q] = pos[q]
        /\ pc'[q] = "write" => pc[q] = "write"
    OBVIOUS
  <2> QED
    BY <2>1 DEF SavedInv, Filled
<1>3. Readable'
  <2> SUFFICES ASSUME NEW q \in Procs, Reading(q)'
               PROVE  Beginning(file'[fd'[q]], key'[q]) /\ \A k \in Keys : tmp'[k] # fd'[q]
    BY DEF Readable
  <2> QED
    BY DEF SavedInv, Readable
<1> QED
  BY <1>1, <1>2, <1>3 DEF SavedInv

LEMMA OpenCacheSaved ==
    ASSUME CacheInv, OriginInv, SavedInv, NEW p \in Procs, OpenCache(p)
    PROVE  SavedInv'
<1>1. /\ pc[p] = "open" /\ fd' = [fd EXCEPT ![p] = cache[key[p]]]
      /\ pc' = [pc EXCEPT ![p] = IF cache[key[p]] = NoInode THEN "reload" ELSE "header"]
      /\ file' = file /\ cache' = cache /\ tmp' = tmp /\ key' = key /\ pos' = pos
  BY DEF OpenCache, loadVars, diskVars, Goto
<1>2. LoadTypes /\ key[p] \in Keys
  BY DEF OriginInv, TypeInv, LoadTypes
<1>3. \A q \in Procs : q # p => fd'[q] = fd[q] /\ pc'[q] = pc[q]
  BY <1>1, <1>2 DEF LoadTypes
<1>4. Published'
  BY <1>1 DEF SavedInv, Published
<1>5. Filled'
  <2>1. pc'[p] \in {"reload", "header"}
    BY <1>1, <1>2 DEF LoadTypes
  <2> QED
    BY <1>1, <1>3, <2>1 DEF SavedInv, Filled, Filling
<1>6. Readable'
  <2> SUFFICES ASSUME NEW q \in Procs, Reading(q)'
               PROVE  Beginning(file[fd'[q]], key[q]) /\ \A k \in Keys : tmp[k] # fd'[q]
    BY <1>1 DEF Readable
  <2>1. CASE q = p
    <3>1. cache[key[p]] # NoInode /\ fd'[p] = cache[key[p]]
      BY <1>1, <1>2, <2>1 DEF Reading, LoadTypes
    <3>2. \A k \in Keys : cache[key[p]] # tmp[k]
      BY <1>2, <3>1 DEF CacheInv, NamesApart
    <3> QED
      BY <1>2, <2>1, <3>1, <3>2 DEF SavedInv, Published
  <2>2. CASE q # p
    BY <1>3, <2>2 DEF SavedInv, Readable, Reading
  <2> QED
    BY <2>1, <2>2
<1> QED
  BY <1>4, <1>5, <1>6 DEF SavedInv

LEMMA CreateTmpSaved ==
    ASSUME CacheAssumption, ~overlap', CacheInv, OriginInv, SavedInv, NEW p \in Procs, CreateTmp(p)
    PROVE  SavedInv'
<1> DEFINE k == key[p]
           inode == IF tmp[k] = NoInode THEN p ELSE tmp[k]
<1>1. /\ pc[p] = "create" /\ pc' = [pc EXCEPT ![p] = "write"] /\ key' = key /\ cache' = cache
      /\ tmp' = [tmp EXCEPT ![k] = inode] /\ fd' = [fd EXCEPT ![p] = inode]
      /\ file' = [file EXCEPT ![inode] = << >>] /\ pos' = [pos EXCEPT ![p] = 0]
      /\ \A q \in Procs : ~Saving(q)
  BY DEF CreateTmp, loadVars, Goto
<1>2. LoadTypes /\ DescriptorInv /\ k \in Keys /\ inode \in Procs /\ N \in Nat
  BY DEF OriginInv, TypeInv, LoadTypes, CacheAssumption
<1>3. \A l \in Keys : cache[l] # NoInode => cache[l] \in Procs /\ cache[l] # inode
  <2>1. \A l \in Keys : cache[l] # p
    BY <1>1 DEF CacheInv, NothingCreatedYet, Created
  <2> QED
    BY <1>2, <2>1 DEF LoadTypes, CacheInv, NamesApart
<1>4. \A q \in Procs : Reading(q) => q # p /\ fd[q] \in Procs /\ fd[q] # inode
  <2> SUFFICES ASSUME NEW q \in Procs, Reading(q) PROVE q # p /\ fd[q] \in Procs /\ fd[q] # inode
    OBVIOUS
  <2>1. q # p /\ HasOpen(q)
    BY <1>1 DEF Reading, HasOpen
  <2>2. fd[q] \in Procs /\ Created(fd[q])
    BY <1>2, <2>1 DEF DescriptorInv, HasOpen, OriginInv, FilesInv, DescriptorOfKey
  <2>3. ~Created(p)
    BY <1>1 DEF Created
  <2>4. \A l \in Keys : tmp[l] # fd[q]
    BY DEF SavedInv, Readable
  <2> QED
    BY <1>2, <2>1, <2>2, <2>3, <2>4
<1> HIDE DEF inode
<1>5. \A i \in Procs : i # inode => file'[i] = file[i]
  BY <1>1, <1>2 DEF LoadTypes
<1>6. \A q \in Procs : q # p => fd'[q] = fd[q] /\ pc'[q] = pc[q]
  BY <1>1, <1>2 DEF LoadTypes
<1>7. file'[inode] = << >> /\ fd'[p] = inode /\ tmp'[k] = inode /\ pos'[p] = 0 /\ Len(<< >>) = 0
  BY <1>1, <1>2 DEF LoadTypes
<1>8. Published'
  <2> SUFFICES ASSUME NEW l \in Keys, cache[l] # NoInode PROVE Beginning(file'[cache[l]], l)
    BY <1>1 DEF Published
  <2> QED
    BY <1>3, <1>5 DEF SavedInv, Published
<1>9. Filled'
  <2> SUFFICES ASSUME NEW q \in Procs, Filling(q)'
               PROVE  /\ fd'[q] \in Procs /\ tmp'[key[q]] = fd'[q]
                      /\ Beginning(file'[fd'[q]], key[q])
                      /\ pc'[q] = "write" => Len(file'[fd'[q]]) = pos'[q]
    BY <1>1 DEF Filled
  <2>1. q = p
    BY <1>1, <1>6 DEF Filling, Saving
  <2>2. Beginning(<< >>, k)
    BY <1>2 DEF Beginning
  <2> QED
    BY <1>2, <1>7, <2>1, <2>2
<1>10. Readable'
  <2> SUFFICES ASSUME NEW q \in Procs, Reading(q)'
               PROVE  Beginning(file'[fd'[q]], key[q]) /\ \A l \in Keys : tmp'[l] # fd'[q]
    BY <1>1 DEF Readable
  <2>1. q # p
    BY <1>1, <1>2 DEF Reading, LoadTypes
  <2>2. Reading(q) /\ fd'[q] = fd[q] /\ fd[q] # inode /\ file'[fd'[q]] = file[fd[q]]
    BY <1>4, <1>5, <1>6, <2>1 DEF Reading
  <2>3. \A l \in Keys : tmp'[l] \in {tmp[l], inode}
    BY <1>1, <1>2 DEF LoadTypes
  <2> QED
    BY <2>2, <2>3 DEF SavedInv, Readable
<1> QED
  BY <1>8, <1>9, <1>10 DEF SavedInv

LEMMA WritePartSaved ==
    ASSUME CacheAssumption, CacheInv, OriginInv, SavedInv, NEW p \in Procs, WritePart(p)
    PROVE  SavedInv'
<1> DEFINE i == pos[p] + 1
           f == fd[p]
           s == file[f]
           part == WholeFile(merged[p])[i]
           t == Overwrite(s, i, part)
<1>1. /\ pc[p] = "write" /\ pc' = [pc EXCEPT ![p] = IF i = N + 2 THEN "remove" ELSE "write"]
      /\ file' = [file EXCEPT ![f] = t] /\ pos' = [pos EXCEPT ![p] = i]
      /\ key' = key /\ fd' = fd /\ cache' = cache /\ tmp' = tmp
  BY DEF WritePart, loadVars, Goto
<1>2. LoadTypes /\ key[p] \in Keys /\ N \in Nat
  BY DEF OriginInv, TypeInv, LoadTypes, CacheAssumption
<1>3. /\ f \in Procs /\ tmp[key[p]] = f /\ Beginning(s, key[p]) /\ Len(s) = pos[p]
      /\ s \in Seq(Parts)
  BY <1>1, <1>2 DEF SavedInv, Filled, Filling, LoadTypes
<1>4. pos[p] \in Nat /\ pos[p] < N + 2
  BY <1>1, <1>2 DEF OriginInv, TypeInv, StepsInv, LoadTypes
<1>5. i \in 1 .. N + 2 /\ i \in Nat \ {0}
  BY <1>2, <1>4
<1>6. merged[p] = key[p] /\ key[p] \in Seq(Contents)
  BY <1>1, <1>2, KeysAreContents DEF OriginInv, OwnInv, OwnOf, Saving
<1>7. part = WholeFile(key[p])[i] /\ part \in Parts
  BY <1>2, <1>5, <1>6, WholeFileElements
<1>8. Len(t) = i /\ Beginning(t, key[p])
  <2> HIDE DEF part, s
  <2>1. /\ Len(t) = IF Len(s) >= i THEN Len(s) ELSE i
        /\ \A j \in 1 .. Len(t) : t[j] = IF j = i THEN part ELSE IF j <= Len(s) THEN s[j] ELSE Hole
    <3>1. s \in Seq(Parts) /\ i \in Nat \ {0} /\ part \in Parts
      BY <1>3, <1>5, <1>7
    <3> HIDE DEF i
    <3> QED BY <3>1, OverwriteElements
  <2> HIDE DEF t
  <2>2. Len(t) = i /\ i \in Nat /\ Len(s) = i - 1
    BY <1>3, <1>4, <2>1
  <2>3. \A j \in 1 .. i : t[j] = IF j = i THEN part ELSE s[j]
    BY <1>3, <1>4, <2>1, <2>2
  <2>4. \A j \in 1 .. i : j # i => j \in 1 .. Len(s)
    BY <2>2
  <2>5. \A j \in 1 .. Len(s) : s[j] = WholeFile(key[p])[j]
    BY <1>3 DEF Beginning
  <2> HIDE DEF i
  <2>6. \A j \in 1 .. i : t[j] = WholeFile(key[p])[j]
    BY <1>7, <2>3, <2>4, <2>5
  <2>7. Len(t) <= N + 2
    BY <1>2, <1>5, <2>2
  <2> QED
    BY <2>2, <2>6, <2>7 DEF Beginning
<1> HIDE DEF t, f, i
<1>9. file'[f] = t /\ \A q \in Procs : q # f => file'[q] = file[q]
  BY <1>1, <1>2, <1>3 DEF LoadTypes
<1>10. \A q \in Procs : Saving(q) => q = p
  BY <1>1 DEF CacheInv, SaverIsAlone, Saving
<1>11. \A q \in Procs : q # p => pc'[q] = pc[q]
  BY <1>1, <1>2 DEF LoadTypes
<1>12. Published'
  <2> SUFFICES ASSUME NEW l \in Keys, cache[l] # NoInode PROVE Beginning(file'[cache[l]], l)
    BY <1>1 DEF Published
  <2>1. cache[l] \in Procs /\ cache[l] # f
    BY <1>2, <1>3 DEF CacheInv, NamesApart, LoadTypes
  <2> QED
    BY <1>9, <2>1 DEF SavedInv, Published
<1>13. Filled'
  <2> SUFFICES ASSUME NEW q \in Procs, Filling(q)'
               PROVE  /\ fd[q] \in Procs /\ tmp[key[q]] = fd[q]
                      /\ Beginning(file'[fd[q]], key[q])
                      /\ pc'[q] = "write" => Len(file'[fd[q]]) = pos'[q]
    BY <1>1 DEF Filled
  <2>1. q = p
    BY <1>10, <1>11 DEF Filling, Saving
  <2>2. pos'[p] = i
    BY <1>1, <1>2 DEF LoadTypes
  <2> QED
    BY <1>3, <1>8, <1>9, <2>1, <2>2 DEF f
<1>14. Readable'
  <2> SUFFICES ASSUME NEW q \in Procs, Reading(q)'
               PROVE  Beginning(file'[fd[q]], key[q]) /\ \A l \in Keys : tmp[l] # fd[q]
    BY <1>1 DEF Readable
  <2>1. q # p
    BY <1>1, <1>2 DEF Reading, LoadTypes
  <2>2. Reading(q) /\ fd[q] \in Procs
    BY <1>11, <2>1 DEF Reading, OriginInv, TypeInv, DescriptorInv
  <2>3. fd[q] # f
    BY <1>2, <1>3, <2>2 DEF SavedInv, Readable
  <2> QED
    BY <1>9, <2>2, <2>3 DEF SavedInv, Readable
<1> QED
  BY <1>12, <1>13, <1>14 DEF SavedInv

\* The old file loses its name and the new one gets it.
LEMMA NameStepSaved ==
    ASSUME CacheAssumption, CacheInv, OriginInv, SavedInv, NEW p \in Procs,
           RemoveOld(p) \/ RenameTmp(p) \/ RemoveTmp(p)
    PROVE  SavedInv'
<1>1. LoadTypes /\ key[p] \in Keys
  BY DEF OriginInv, TypeInv, LoadTypes
<1>2. /\ key' = key /\ fd' = fd /\ file' = file /\ pos' = pos
      /\ pc[p] \in {"remove", "rename", "cleanup"}
      /\ \E l \in {"rename", "cleanup", "serving"} : pc' = [pc EXCEPT ![p] = l]
  BY DEF RemoveOld, RenameTmp, RemoveTmp, loadVars, saveVars, Goto
<1>3. \A q \in Procs : Saving(q) => q = p
  BY <1>2 DEF CacheInv, SaverIsAlone, Saving
<1>4. \A q \in Procs : q # p => pc'[q] = pc[q]
  BY <1>1, <1>2 DEF LoadTypes
<1>5. \A q \in Procs : Filling(q)' => q = p /\ pc[p] = "remove" /\ pc'[p] = "rename"
  <2>1. ASSUME NEW q \in Procs, Filling(q)' PROVE q = p
    BY <1>3, <1>4, <2>1 DEF Filling, Saving
  <2>2. Filling(p)' => pc[p] = "remove" /\ pc'[p] = "rename"
    BY <1>1 DEF RemoveOld, RenameTmp, RemoveTmp, Filling, Goto, LoadTypes
  <2> QED
    BY <2>1, <2>2
<1>6. Published'
  <2> SUFFICES ASSUME NEW l \in Keys, cache'[l] # NoInode PROVE Beginning(file[cache'[l]], l)
    BY <1>2 DEF Published
  <2>1. CASE cache'[l] = cache[l]
    BY <2>1 DEF SavedInv, Published
  <2>2. CASE cache'[l] # cache[l]
    <3>1. /\ RenameTmp(p) /\ l = key[p] /\ cache'[l] = tmp[l] /\ pc[p] = "rename"
      BY <1>1, <2>2 DEF RemoveOld, RenameTmp, RemoveTmp, LoadTypes
    <3> QED
      BY <3>1 DEF SavedInv, Filled, Filling
  <2> QED
    BY <2>1, <2>2
<1>7. Filled'
  <2>1. pc[p] = "remove" => tmp' = tmp
    BY DEF RemoveOld, RenameTmp, RemoveTmp
  <2>2. pc[p] = "remove" => Filling(p)
    BY DEF Filling
  <2> QED
    BY <1>2, <1>5, <2>1, <2>2 DEF SavedInv, Filled
<1>8. Readable'
  <2> SUFFICES ASSUME NEW q \in Procs, Reading(q)'
               PROVE  Beginning(file[fd[q]], key[q]) /\ \A l \in Keys : tmp'[l] # fd[q]
    BY <1>2 DEF Readable
  <2>1. Reading(q) /\ fd[q] \in Procs
    BY <1>1, <1>2, <1>4 DEF Reading, OriginInv, TypeInv, DescriptorInv, LoadTypes
  <2>2. \A l \in Keys : tmp'[l] \in {tmp[l], NoInode}
    BY <1>1 DEF RemoveOld, RenameTmp, RemoveTmp, LoadTypes
  <2> QED
    BY <2>1, <2>2 DEF SavedInv, Readable, CacheAssumption
<1> QED
  BY <1>6, <1>7, <1>8 DEF SavedInv

LEMMA StepSaved ==
    ASSUME CacheAssumption, ~overlap', CacheInv, OriginInv, SavedInv, [Next]_cacheVars
    PROVE  SavedInv'
<1>1. LoadTypes
  BY DEF OriginInv, TypeInv
<1>2. ASSUME NEW p \in Procs, OpenCache(p) PROVE SavedInv'
  BY <1>2, OpenCacheSaved
<1>3. ASSUME NEW p \in Procs, CreateTmp(p) PROVE SavedInv'
  BY <1>3, CreateTmpSaved
<1>4. ASSUME NEW p \in Procs, WritePart(p) PROVE SavedInv'
  BY <1>4, WritePartSaved
<1>5. ASSUME NEW p \in Procs, RemoveOld(p) \/ RenameTmp(p) \/ RemoveTmp(p) PROVE SavedInv'
  BY <1>5, NameStepSaved
<1>6. ASSUME NEW p \in Procs,
             \/ Start(p) \/ ComputeKey(p) \/ ReadHeader(p) \/ ReadTable(p) \/ ReadTensor(p)
             \/ ReloadBase(p) \/ MergeLora(p) \/ CreateFails(p) \/ WriteFails(p) \/ Die(p)
      PROVE  SavedInv'
  <2> USE DEF Goto
  <2>1. /\ file' = file /\ cache' = cache /\ tmp' = tmp /\ fd' = fd /\ pos' = pos
        /\ \A q \in Procs : q # p => pc'[q] = pc[q] /\ key'[q] = key[q]
        /\ pc[p] = "hash" \/ key' = key
    BY <1>1, <1>6 DEF Start, ComputeKey, ReadHeader, ReadTable, ReadTensor, ReloadBase, MergeLora,
       CreateFails, WriteFails, Die, LoadTypes, loadVars, saveVars, diskVars
  <2>2. /\ pc[p] = "hash" => pc'[p] \in {"open", "dead"}
        /\ Filling(p)' => Filling(p) /\ pc'[p] # "write"
        /\ Reading(p)' => Reading(p)
    <3>1. CASE Start(p) \/ ComputeKey(p) \/ ReadHeader(p) \/ ReadTable(p) \/ ReadTensor(p)
      BY <1>1, <3>1 DEF Start, ComputeKey, ReadHeader, ReadTable, ReadTensor, LoadTypes,
         Filling, Reading
    <3>2. CASE ReloadBase(p) \/ MergeLora(p) \/ CreateFails(p) \/ WriteFails(p) \/ Die(p)
      BY <1>1, <3>2 DEF ReloadBase, MergeLora, CreateFails, WriteFails, Die, LoadTypes,
         Filling, Reading
    <3> QED
      BY <1>6, <3>1, <3>2
  <2>3. \A q \in Procs : Filling(q)' =>
           /\ Filling(q) /\ fd'[q] = fd[q] /\ key'[q] = key[q] /\ pos'[q] = pos[q]
           /\ pc'[q] = "write" => pc[q] = "write"
    BY <2>1, <2>2 DEF Filling
  <2>4. \A q \in Procs : Reading(q)' => Reading(q) /\ fd'[q] = fd[q] /\ key'[q] = key[q]
    BY <2>1, <2>2 DEF Reading
  <2> QED
    BY <2>1, <2>3, <2>4, SavedFrame
<1>7. ASSUME (\E f \in {Base} \cup Loras : ReplaceFile(f)) \/ UNCHANGED cacheVars PROVE SavedInv'
  <2>1. UNCHANGED <<pc, key, fd, pos, file, cache, tmp>>
    BY <1>7 DEF ReplaceFile, cacheVars, loadVars, saveVars, diskVars
  <2> QED
    BY <2>1, SavedFrame DEF Filling, Reading
<1> QED
  BY <1>2, <1>3, <1>4, <1>5, <1>6, <1>7, NextCases DEF LoadStep, SaveStep

\* The table is there when the file is long enough, and a tensor is the one of
\* the key of the file.
LEMMA StepRead ==
    ASSUME CacheAssumption, CacheInv, OriginInv, SavedInv, ReadInv, [Next]_cacheVars
    PROVE  ReadInv'
<1> USE DEF Goto
<1>1. LoadTypes /\ StepsInv /\ DescriptorInv /\ N \in Nat
  BY DEF OriginInv, TypeInv, CacheAssumption
<1>2. ASSUME NEW p \in Procs, LoadStep(p) \/ SaveStep(p) \/ Die(p) PROVE ReadInv'
  <2>1. \A q \in Procs : q # p => pc'[q] = pc[q] /\ got'[q] = got[q] /\ key'[q] = key[q]
    <3>1. CASE LoadStep(p)
      BY <1>1, <3>1 DEF LoadStep, Start, ComputeKey, OpenCache, ReadHeader, ReadTable, ReadTensor,
         ReloadBase, MergeLora, LoadTypes, loadVars
    <3>2. CASE SaveStep(p) \/ Die(p)
      BY <1>1, <3>2 DEF SaveStep, CreateTmp, CreateFails, WritePart, WriteFails, RemoveOld,
         RenameTmp, RemoveTmp, Die, LoadTypes, loadVars
    <3> QED
      BY <1>2, <3>1, <3>2
  <2>2. SUFFICES ASSUME pc'[p] \in {"read", "serving"}
                 PROVE  \A j \in 1 .. Len(got'[p]) : got'[p][j] = Tensor(key'[p])
    BY <2>1 DEF ReadInv, Tensor
  <2>3. CASE ReadTable(p)
    <3> DEFINE s == file[fd[p]]
    <3>1. /\ pc[p] = "table" /\ got[p] = << >> /\ Len(<< >>) = 0 /\ s \in Seq(Parts)
          /\ key[p] \in Seq(Contents)
      BY <1>1, <2>3, KeysAreContents DEF ReadTable, StepsInv, DescriptorInv, LoadTypes
    <3>2. Beginning(s, key[p])
      BY <3>1 DEF SavedInv, Readable, Reading
    <3>3. got'[p] = << >>
      <4>1. CASE Len(s) < 2
        BY <1>1, <2>3, <3>1, <4>1 DEF ReadTable
      <4>2. CASE ~(Len(s) < 2)
        <5>1. Len(s) \in Nat /\ 2 \in 1 .. Len(s) /\ 2 \in 1 .. N + 2
          BY <1>1, <3>1, <4>2
        <5>2. s[2] = Meta
          BY <1>1, <3>1, <3>2, <5>1, WholeFileElements DEF Beginning
        <5> QED
          BY <1>1, <2>3, <3>1, <4>2, <5>2 DEF ReadTable
      <4> QED
        BY <4>1, <4>2
    <3> QED
      BY <3>1, <3>3
  <2>4. CASE ReadTensor(p)
    <3> DEFINE i == Len(got[p]) + 1
               s == file[fd[p]]
               part == s[i + 2]
    <3>1. /\ pc[p] = "read" /\ fd[p] \in Procs /\ got[p] \in Seq(Parts) /\ s \in Seq(Parts)
          /\ key[p] \in Seq(Contents) /\ key' = key /\ Len(got[p]) < N
      BY <1>1, <2>4, KeysAreContents DEF ReadTensor, StepsInv, DescriptorInv, LoadTypes
    <3>2. Beginning(s, key[p])
      BY <3>1 DEF SavedInv, Readable, Reading
    <3>3. Len(s) >= i + 2 /\ got'[p] = Append(got[p], part)
      <4>1. CASE Len(s) >= i + 2
        BY <1>1, <2>4, <4>1 DEF ReadTensor, LoadTypes
      <4>2. CASE ~(Len(s) >= i + 2)
        <5>1. pc'[p] = "reload"
          BY <1>1, <2>4, <4>2 DEF ReadTensor, LoadTypes
        <5> QED
          BY <2>2, <5>1
      <4> QED
        BY <4>1, <4>2
    <3>4. i + 2 \in 1 .. Len(s) /\ i + 2 \in 1 .. N + 2 /\ ~(i + 2 <= 2) /\ Len(got[p]) \in Nat
      BY <1>1, <3>1, <3>3
    <3>5. PICK n \in 1 .. N + 2 : n = i + 2
      BY <3>4
    <3>6. s[n] = Tensor(key[p]) /\ s[n] \in Parts
      <4>1. s[n] = WholeFile(key[p])[n]
        BY <3>2, <3>4, <3>5 DEF Beginning
      <4>2. WholeFile(key[p])[n] = IF n <= 2 THEN Meta ELSE Tensor(key[p])
        BY <1>1, <3>1, WholeFileElements
      <4>3. ~(n <= 2)
        BY <3>4, <3>5
      <4> QED
        BY <3>1, <4>1, <4>2, <4>3, PartTypes
    <3>7. part = Tensor(key[p]) /\ part \in Parts
      BY <3>5, <3>6
    <3> HIDE DEF part
    <3>8. /\ Len(got'[p]) = i /\ got'[p][i] = part
          /\ \A j \in 1 .. Len(got[p]) : got'[p][j] = got[p][j]
      BY <3>1, <3>3, <3>7
    <3>9. \A j \in 1 .. i : j = i \/ j \in 1 .. Len(got[p])
      BY <3>4
    <3> QED
      BY <3>1, <3>7, <3>8, <3>9 DEF ReadInv
  <2>5. CASE SaveStep(p)
    <3>1. /\ key' = key /\ got' = got /\ key[p] \in Keys
          /\ pc[p] \in {"create", "write", "remove", "rename", "cleanup"}
      BY <1>1, <2>5 DEF SaveStep, CreateTmp, CreateFails, WritePart, WriteFails, RemoveOld,
         RenameTmp, RemoveTmp, loadVars, LoadTypes
    <3>2. got[p] = Weights(key[p])
      BY <3>1 DEF OriginInv, OwnInv, OwnOf, Saving
    <3>3. Len(got[p]) = N /\ \A j \in 1 .. N : got[p][j] = Tensor(key[p])
      BY <1>1, <3>1, <3>2, KeysAreContents, WeightsElements
    <3> QED
      BY <3>1, <3>3
  <2>6. CASE ~ReadTable(p) /\ ~ReadTensor(p) /\ ~SaveStep(p)
    <3>1. pc'[p] \in {"hash", "open", "reload", "header", "table", "merge", "create", "dead"}
      BY <1>1, <1>2, <2>6 DEF LoadStep, Start, ComputeKey, OpenCache, ReadHeader, ReloadBase,
         MergeLora, Die, LoadTypes
    <3> QED
      BY <2>2, <3>1
  <2> QED
    BY <2>3, <2>4, <2>5, <2>6
<1>3. ASSUME (\E f \in {Base} \cup Loras : ReplaceFile(f)) \/ UNCHANGED cacheVars PROVE ReadInv'
  <2>1. UNCHANGED <<pc, key, got>>
    BY <1>3 DEF ReplaceFile, cacheVars, loadVars
  <2> QED
    BY <2>1 DEF ReadInv, Tensor
<1> QED
  BY <1>2, <1>3, NextCases

LEMMA InitAll == CacheAssumption /\ Init => AllInv
<1> SUFFICES ASSUME CacheAssumption, Init PROVE AllInv
  OBVIOUS
<1>1. CacheInv /\ OriginInv
  BY InitCacheInv, InitOrigin
<1>2. SavedInv /\ ReadInv
  BY DEF Init, SavedInv, Published, Filled, Readable, Filling, Reading, ReadInv
<1> QED
  BY <1>1, <1>2 DEF AllInv

\* As long as no two processes have saved at the same time, and with one LoRA
\* file at most, a file under a cache name or open for reading is a beginning of one merge of the contents its
\* key names, and so is what has been read from it.
THEOREM CacheContentInductive ==
    ASSUME OneLora PROVE Spec => [](~overlap => AllInv)
<1>1. (~overlap => AllInv) /\ [Next]_cacheVars => (~overlap => AllInv)'
  <2> SUFFICES ASSUME ~overlap => AllInv, [Next]_cacheVars, ~overlap' PROVE AllInv'
    OBVIOUS
  <2>1. CacheInv /\ OriginInv /\ SavedInv /\ ReadInv
    BY OverlapStays DEF AllInv
  <2>2. CacheInv'
    BY <2>1, StepCacheInv, CacheAssumption
  <2>3. OriginInv'
    BY <2>1, StepTypeInv, StepOwn, StepFiles, StepGot, CacheAssumption DEF OriginInv
  <2>4. SavedInv' /\ ReadInv'
    BY <2>1, StepSaved, StepRead, CacheAssumption
  <2> QED
    BY <2>2, <2>3, <2>4 DEF AllInv
<1>2. Init => (~overlap => AllInv)
  BY InitAll, CacheAssumption
<1> QED
  BY <1>1, <1>2, PTL DEF Spec

\* A file under a cache name is never a mixture of two merges and has no hole,
\* wherever its writer was stopped.
THEOREM PublishedFromOneMergeHolds ==
    ASSUME OneLora PROVE Spec => []PublishedFromOneMerge
<1>1. (~overlap => AllInv) => PublishedFromOneMerge
  <2> SUFFICES ASSUME AllInv, NEW k \in Keys, cache[k] # NoInode
               PROVE  \E n \in 0 .. N + 2 : file[cache[k]] = SubSeq(WholeFile(k), 1, n)
    BY DEF PublishedFromOneMerge
  <2>1. k \in Seq(Contents) /\ N \in Nat
    BY KeysAreContents, CacheAssumption DEF CacheAssumption
  <2>2. file[cache[k]] \in Seq(Parts)
    BY DEF AllInv, OriginInv, TypeInv, LoadTypes
  <2>3. Beginning(file[cache[k]], k)
    BY DEF AllInv, SavedInv, Published
  <2> QED
    BY <2>1, <2>2, <2>3, BeginningIsPrefix
<1> QED
  BY <1>1, CacheContentInductive, PTL

\* A process that has loaded its model has the weights its own files gave when
\* it hashed them, whether they come from a cache file or from a full load.
THEOREM ServesItsFilesAloneHolds ==
    ASSUME OneLora PROVE Spec => []ServesItsFilesAlone
<1>1. (~overlap => AllInv) => ServesItsFilesAlone
  <2> SUFFICES ASSUME AllInv, NEW p \in Procs, pc[p] = "serving"
               PROVE  AllRead(p) => got[p] = Weights(wanted[p])
    BY DEF ServesItsFilesAlone, ServesItsOwn
  <2>1. /\ (AllRead(p) => wanted[p] = key[p]) /\ Len(got[p]) = N /\ got[p] \in Seq(Parts)
        /\ key[p] \in Keys /\ N \in Nat
    BY CacheAssumption DEF AllInv, OriginInv, OwnInv, OwnOf, GotInv, TypeInv, LoadTypes,
       CacheAssumption
  <2>2. \A j \in 1 .. Len(got[p]) : got[p][j] = Tensor(key[p])
    BY DEF AllInv, ReadInv
  <2>5. key[p] \in Seq(Contents)
    BY <2>1, CacheAssumption, KeysAreContents
  <2>3. /\ Weights(key[p]) \in Seq(Parts) /\ Len(Weights(key[p])) = N
        /\ \A i \in 1 .. N : Weights(key[p])[i] = Tensor(key[p])
    BY <2>1, <2>5, WeightsElements
  <2>4. got[p] = Weights(key[p])
    BY <2>1, <2>2, <2>3, SeqEqual
  <2> QED
    BY <2>1, <2>4
<1> QED
  BY <1>1, CacheContentInductive, PTL

=============================================================================
