----------------------------- MODULE ModelCache -----------------------------
(***************************************************************************)
(* The cache of merged weights (class ModelCache, src/src/cache.cpp) as    *)
(* Model::load uses it (src/src/model.cpp): processes that load a model at *)
(* the same time or one after the other, that may be killed at any point,  *)
(* over one directory of cache files.                                      *)
(*                                                                         *)
(* pc[p] is the next thing the loading process p does:                     *)
(*   "off"    not started             "create"  open the temporary file    *)
(*   "hash"   hash the GGUF files     "write"   write the next part of it  *)
(*   "open"   open the cache file     "remove"  remove the cache file      *)
(*   "header" read and test header    "rename"  rename the temporary file  *)
(*   "table"  read the tensor table   "cleanup" remove the temporary file  *)
(*   "read"   read the next tensor    "serving" Model::load has returned   *)
(*   "reload" read the base GGUF      "dead"    killed, or load has failed *)
(*   "merge"  apply the next LoRA                                          *)
(*                                                                         *)
(* File names refer to inodes, as on POSIX: a process keeps the inode it   *)
(* has opened whatever becomes of the name.  A process creates at most one *)
(* file, so an inode is named by the process that created it.              *)
(***************************************************************************)
EXTENDS Integers, Sequences

CONSTANTS
    Procs,       \* runs of the program
    NoInode,     \* what a name without a file refers to
    Base,        \* the base GGUF file
    Loras,       \* LoRA GGUF files
    ArgLists,    \* the values of lora_gguf_paths
    N,           \* number of tensors
    MaxVersion,  \* a GGUF file has one of the contents 0 .. MaxVersion
    Changing     \* the GGUF files that change between two loads

ASSUME CacheAssumption ==
    /\ NoInode \notin Procs
    /\ Base \notin Loras
    /\ ArgLists \subseteq Seq(Loras)
    /\ N \in Nat \ {0}
    /\ MaxVersion \in Nat
    /\ Changing \subseteq {Base} \cup Loras

VARIABLES
    version,  \* the content of each GGUF file, or Absent
    pc,       \* where each process is
    args,     \* its lora_gguf_paths
    wanted,   \* history: what its files were when it hashed them
    key,      \* cache_path_str
    merged,   \* the contents that have gone into the weights
    got,      \* the tensors of its model
    fd,       \* the inode it has open
    pos,      \* how much it has written to it
    file,     \* what each inode holds
    cache,    \* the inode of each .tvcache file
    tmp,      \* the inode of each .tvcache.tmp file
    overlap   \* history: two processes have been in save() at the same time

loadVars == <<args, wanted, key, merged, got>>
saveVars == <<fd, pos>>
diskVars == <<file, cache, tmp>>
cacheVars == <<version, pc, loadVars, saveVars, diskVars, overlap>>

-----------------------------------------------------------------------------
(* Contents, keys and files.                                               *)

\* A LoRA file that is not there, or that may not be read.
Absent == -1

Content(f) == <<f, version[f]>>
Contents == ({Base} \cup Loras) \X (Absent .. MaxVersion)

\* The name of a cache file: the hash of the base file and that of the first
\* LoRA file.  A LoRA file that cannot be opened leaves its hash empty, and
\* the name is the one of the base model without LoRA.
KeyOf(loras) ==
    IF loras = << >> \/ version[loras[1]] = Absent
    THEN <<Content(Base)>>
    ELSE <<Content(Base), Content(loras[1])>>

\* What a hash can be of: a file that is there.
Hashed(files) == files \X (0 .. MaxVersion)
Keys == {<<b>> : b \in Hashed({Base})} \cup (Hashed({Base}) \X Hashed(Loras))

\* A file is a header, the tensor table and N tensors.  A part that was never
\* written but lies before one that was reads as zeros.
Meta == [kind |-> "meta", of |-> << >>]
Hole == [kind |-> "hole", of |-> << >>]
Tensor(m) == [kind |-> "tensor", of |-> m]
WholeFile(m) == [i \in 1 .. N + 2 |-> IF i <= 2 THEN Meta ELSE Tensor(m)]
Weights(m) == [i \in 1 .. N |-> Tensor(m)]

\* The file s after a write of part at position i.
Overwrite(s, i, part) ==
    [j \in 1 .. (IF Len(s) >= i THEN Len(s) ELSE i) |->
        IF j = i THEN part ELSE IF j <= Len(s) THEN s[j] ELSE Hole]

Loading(p) == pc[p] \notin {"off", "serving", "dead"}
Saving(p) == pc[p] \in {"write", "remove", "rename", "cleanup"}

Goto(p, l) == pc' = [pc EXCEPT ![p] = l]

Init ==
    /\ version = [f \in {Base} \cup Loras |-> 0]
    /\ pc = [p \in Procs |-> "off"]
    /\ args = [p \in Procs |-> << >>]
    /\ wanted = [p \in Procs |-> << >>]
    /\ key = [p \in Procs |-> <<Content(Base)>>]
    /\ merged = [p \in Procs |-> << >>]
    /\ got = [p \in Procs |-> << >>]
    /\ fd = [p \in Procs |-> NoInode]
    /\ pos = [p \in Procs |-> 0]
    /\ file = [p \in Procs |-> << >>]
    /\ cache = [k \in Keys |-> NoInode]
    /\ tmp = [k \in Keys |-> NoInode]
    /\ overlap = FALSE

-----------------------------------------------------------------------------
(* Model::load up to the result of try_load.                               *)

Start(p) ==
    /\ pc[p] = "off"
    /\ \E l \in ArgLists : args' = [args EXCEPT ![p] = l]
    /\ Goto(p, "hash")
    /\ UNCHANGED <<overlap, version, wanted, key, merged, got, saveVars,
                   diskVars>>

\* Mutant of ComputeKey: the LoRA file is not part of the key.
ComputeBaseKey(p) ==
    /\ pc[p] = "hash"
    /\ key' = [key EXCEPT ![p] = <<Content(Base)>>]
    /\ wanted' = [wanted EXCEPT ![p] =
                     <<Content(Base)>> \o [i \in DOMAIN args[p] |-> Content(args[p][i])]]
    /\ Goto(p, "open")
    /\ UNCHANGED <<overlap, version, args, merged, got, saveVars, diskVars>>

\* compute_key and cache_path.
ComputeKey(p) ==
    /\ pc[p] = "hash"
    /\ key' = [key EXCEPT ![p] = KeyOf(args[p])]
    /\ wanted' = [wanted EXCEPT ![p] =
                     <<Content(Base)>> \o [i \in DOMAIN args[p] |-> Content(args[p][i])]]
    /\ Goto(p, "open")
    /\ UNCHANGED <<overlap, version, args, merged, got, saveVars, diskVars>>

OpenCache(p) ==
    /\ pc[p] = "open"
    /\ fd' = [fd EXCEPT ![p] = cache[key[p]]]
    /\ Goto(p, IF cache[key[p]] = NoInode THEN "reload" ELSE "header")
    /\ UNCHANGED <<overlap, version, loadVars, pos, diskVars>>

\* A short file, or zeros where the magic number should be: a miss.
ReadHeader(p) ==
    /\ pc[p] = "header"
    /\ Goto(p, IF Len(file[fd[p]]) >= 1 /\ file[fd[p]][1] = Meta
               THEN "table" ELSE "reload")
    /\ UNCHANGED <<overlap, version, loadVars, saveVars, diskVars>>

\* A table of zeros names no tensor: nothing is loaded, and it is a hit.
ReadTable(p) ==
    /\ pc[p] = "table"
    /\ IF Len(file[fd[p]]) < 2 THEN Goto(p, "reload") /\ UNCHANGED got
       ELSE IF file[fd[p]][2] = Meta THEN Goto(p, "read") /\ UNCHANGED got
       ELSE /\ got' = [got EXCEPT ![p] = [i \in 1 .. N |-> Hole]]
            /\ Goto(p, "serving")
    /\ UNCHANGED <<overlap, version, args, wanted, key, merged, saveVars,
                   diskVars>>

\* Mutant of ReadTensor: gcount() is not compared with nbytes.
ReadTensorUnchecked(p) ==
    LET i == Len(got[p]) + 1 IN
    /\ pc[p] = "read"
    /\ got' = [got EXCEPT ![p] = Append(@, IF Len(file[fd[p]]) >= i + 2
                                           THEN file[fd[p]][i + 2] ELSE Hole)]
    /\ Goto(p, IF i = N THEN "serving" ELSE "read")
    /\ UNCHANGED <<overlap, version, args, wanted, key, merged, saveVars,
                   diskVars>>

\* A short read is a miss.
ReadTensor(p) ==
    LET i == Len(got[p]) + 1 IN
    /\ pc[p] = "read"
    /\ IF Len(file[fd[p]]) >= i + 2
       THEN /\ got' = [got EXCEPT ![p] = Append(@, file[fd[p]][i + 2])]
            /\ Goto(p, IF i = N THEN "serving" ELSE "read")
       ELSE Goto(p, "reload") /\ UNCHANGED got
    /\ UNCHANGED <<overlap, version, args, wanted, key, merged, saveVars,
                   diskVars>>

-----------------------------------------------------------------------------
(* The full load after a miss.                                             *)

ReloadBase(p) ==
    /\ pc[p] = "reload"
    /\ merged' = [merged EXCEPT ![p] = <<Content(Base)>>]
    /\ Goto(p, "merge")
    /\ UNCHANGED <<overlap, version, args, wanted, key, got, saveVars, diskVars>>

\* Mutant of MergeLora: the tensors are added to those a short cache file gave.
MergeAfterRead(p) ==
    LET n == Len(merged[p]) IN
    /\ pc[p] = "merge"
    /\ n <= Len(args[p]) => version[args[p][n]] # Absent
    /\ IF n <= Len(args[p])
       THEN /\ merged' = [merged EXCEPT ![p] = Append(@, Content(args[p][n]))]
            /\ UNCHANGED <<pc, got>>
       ELSE /\ got' = [got EXCEPT ![p] = @ \o Weights(merged[p])]
            /\ Goto(p, "create")
            /\ UNCHANGED merged
    /\ UNCHANGED <<overlap, version, args, wanted, key, saveVars, diskVars>>

\* The LoRA files are read one after the other; after the last one the
\* weights are complete.
MergeLora(p) ==
    LET n == Len(merged[p]) IN
    /\ pc[p] = "merge"
    /\ n <= Len(args[p]) => version[args[p][n]] # Absent
    /\ IF n <= Len(args[p])
       THEN /\ merged' = [merged EXCEPT ![p] = Append(@, Content(args[p][n]))]
            /\ UNCHANGED <<pc, got>>
       ELSE /\ got' = [got EXCEPT ![p] = Weights(merged[p])]
            /\ Goto(p, "create")
            /\ UNCHANGED merged
    /\ UNCHANGED <<overlap, version, args, wanted, key, saveVars, diskVars>>

\* The next LoRA file does not load: Model::load returns null.
LoraMissing(p) ==
    LET n == Len(merged[p]) IN
    /\ pc[p] = "merge"
    /\ n <= Len(args[p])
    /\ version[args[p][n]] = Absent
    /\ Goto(p, "dead")
    /\ UNCHANGED <<overlap, version, loadVars, saveVars, diskVars>>

-----------------------------------------------------------------------------
(* save                                                                    *)

\* Mutant of CreateTmp: the cache file itself is truncated and written.
CreateInPlace(p) ==
    /\ pc[p] = "create"
    /\ overlap' = (overlap \/ \E q \in Procs : Saving(q))
    /\ LET inode == IF cache[key[p]] = NoInode THEN p ELSE cache[key[p]] IN
       /\ cache' = [cache EXCEPT ![key[p]] = inode]
       /\ fd' = [fd EXCEPT ![p] = inode]
       /\ file' = [file EXCEPT ![inode] = << >>]
    /\ pos' = [pos EXCEPT ![p] = 0]
    /\ Goto(p, "write")
    /\ UNCHANGED <<version, loadVars, tmp>>

\* ofstream(tmp_path, trunc): a temporary file that is already there, of a
\* process that died or of one that is still writing, is truncated.
CreateTmp(p) ==
    /\ pc[p] = "create"
    /\ overlap' = (overlap \/ \E q \in Procs : Saving(q))
    /\ LET inode == IF tmp[key[p]] = NoInode THEN p ELSE tmp[key[p]] IN
       /\ tmp' = [tmp EXCEPT ![key[p]] = inode]
       /\ fd' = [fd EXCEPT ![p] = inode]
       /\ file' = [file EXCEPT ![inode] = << >>]
    /\ pos' = [pos EXCEPT ![p] = 0]
    /\ Goto(p, "write")
    /\ UNCHANGED <<version, loadVars, cache>>

\* The temporary file cannot be created: nothing is cached.
CreateFails(p) ==
    /\ pc[p] = "create"
    /\ Goto(p, "serving")
    /\ UNCHANGED <<overlap, version, loadVars, saveVars, diskVars>>

WritePart(p) ==
    LET i == pos[p] + 1 IN
    /\ pc[p] = "write"
    /\ file' = [file EXCEPT ![fd[p]] = Overwrite(@, i, WholeFile(merged[p])[i])]
    /\ pos' = [pos EXCEPT ![p] = i]
    /\ Goto(p, IF i = N + 2 THEN "remove" ELSE "write")
    /\ UNCHANGED <<overlap, version, loadVars, fd, cache, tmp>>

\* The disk is full: this write and the following ones do nothing, and
\* nobody notices.
WriteFails(p) ==
    /\ pc[p] = "write"
    /\ Goto(p, "remove")
    /\ UNCHANGED <<overlap, version, loadVars, saveVars, diskVars>>

RemoveOld(p) ==
    /\ pc[p] = "remove"
    /\ cache' = [cache EXCEPT ![key[p]] = NoInode]
    /\ Goto(p, "rename")
    /\ UNCHANGED <<overlap, version, loadVars, saveVars, file, tmp>>

RenameTmp(p) ==
    /\ pc[p] = "rename"
    /\ IF tmp[key[p]] # NoInode
       THEN /\ cache' = [cache EXCEPT ![key[p]] = tmp[key[p]]]
            /\ tmp' = [tmp EXCEPT ![key[p]] = NoInode]
            /\ Goto(p, "serving")
       ELSE Goto(p, "cleanup") /\ UNCHANGED <<cache, tmp>>
    /\ UNCHANGED <<overlap, version, loadVars, saveVars, file>>

\* After a failed rename the temporary file is removed, whoever's it is now.
RemoveTmp(p) ==
    /\ pc[p] = "cleanup"
    /\ tmp' = [tmp EXCEPT ![key[p]] = NoInode]
    /\ Goto(p, "serving")
    /\ UNCHANGED <<overlap, version, loadVars, saveVars, file, cache>>

-----------------------------------------------------------------------------
(* What happens to a process and to its files.                             *)

\* The process is killed, or the base GGUF file cannot be read.
Die(p) ==
    /\ Loading(p)
    /\ Goto(p, "dead")
    /\ UNCHANGED <<overlap, version, loadVars, saveVars, diskVars>>

\* Somebody gives the name of a GGUF file another content, takes a LoRA file
\* away or puts it back, while nobody loads.
ReplaceFile(f) ==
    /\ f \in Changing
    /\ \A p \in Procs : ~Loading(p)
    /\ \E v \in Absent .. MaxVersion :
           /\ f = Base => v # Absent
           /\ version' = [version EXCEPT ![f] = v]
    /\ UNCHANGED <<overlap, pc, loadVars, saveVars, diskVars>>

LoadStep(p) ==
    \/ Start(p)
    \/ ComputeKey(p)
    \/ OpenCache(p)
    \/ ReadHeader(p)
    \/ ReadTable(p)
    \/ ReadTensor(p)
    \/ ReloadBase(p)
    \/ MergeLora(p)

SaveStep(p) ==
    \/ CreateTmp(p)
    \/ CreateFails(p)
    \/ WritePart(p)
    \/ WriteFails(p)
    \/ RemoveOld(p)
    \/ RenameTmp(p)
    \/ RemoveTmp(p)

Next ==
    \/ \E p \in Procs : LoadStep(p) \/ SaveStep(p) \/ LoraMissing(p) \/ Die(p)
    \/ \E f \in {Base} \cup Loras : ReplaceFile(f)

Spec == Init /\ [][Next]_cacheVars

-----------------------------------------------------------------------------

Parts == [kind : {"meta", "hole", "tensor"}, of : Seq(Contents)]

LoadTypes ==
    /\ version \in [{Base} \cup Loras -> Absent .. MaxVersion]
    /\ version[Base] # Absent
    /\ pc \in [Procs -> {"off", "hash", "open", "header", "table", "read",
                         "reload", "merge", "create", "write", "remove",
                         "rename", "cleanup", "serving", "dead"}]
    /\ args \in [Procs -> Seq(Loras)]
    /\ wanted \in [Procs -> Seq(Contents)]
    /\ key \in [Procs -> Keys]
    /\ merged \in [Procs -> Seq(Contents)]
    /\ got \in [Procs -> Seq(Parts)] /\ \A p \in Procs : Len(got[p]) <= N
    /\ fd \in [Procs -> Procs \cup {NoInode}]
    /\ pos \in [Procs -> 0 .. N + 2]
    /\ file \in [Procs -> Seq(Parts)]
    /\ cache \in [Keys -> Procs \cup {NoInode}]
    /\ tmp \in [Keys -> Procs \cup {NoInode}]

CacheTypeOK == LoadTypes /\ overlap \in BOOLEAN

\* The process could read all its files when it hashed them.
AllRead(p) == \A i \in DOMAIN wanted[p] : wanted[p][i][2] # Absent

ServesItsOwn(p) == pc[p] = "serving" => got[p] = Weights(wanted[p])

\* "prevents partial-write corruption", "Invalidated on any content change":
\* a process that has loaded its model, from a cache file or in full, has the
\* weights its files gave when the load began, whoever wrote the cache file.
ServesItsFiles == \A p \in Procs : ServesItsOwn(p)

\* The same for processes that could read their files, one LoRA file at most,
\* as long as no two have saved at the same time: whatever became of the writer
\* of a cache file, and of the disk, a load gets the weights of its own files.
ServesItsFilesAlone == ~overlap => \A p \in Procs : AllRead(p) => ServesItsOwn(p)

\* Whatever processes save and load at the same time, a tensor loaded by a
\* process that could read its files is the process's own or was never
\* written: the files of one model never give weights to another.
OwnWeightsOrZeros ==
    \A p \in Procs : pc[p] = "serving" /\ AllRead(p) =>
        /\ Len(got[p]) = N
        /\ \A i \in 1 .. N : got[p][i] \in {Hole, Tensor(wanted[p])}

\* As long as no two processes have saved at the same time, a file under a
\* cache name is a beginning of one merge of the files its name stands for (one
\* LoRA file at most): never a mixture, never with a hole.
PublishedFromOneMerge ==
    ~overlap => \A k \in Keys : cache[k] # NoInode =>
        \E n \in 0 .. N + 2 : file[cache[k]] = SubSeq(WholeFile(k), 1, n)

\* As long as no two processes have saved at the same time, what a cache name
\* refers to is never written to again: readers may take their time.
PublishedIsFrozen ==
    [][~overlap' => \A k \in Keys : cache[k] # NoInode =>
          file'[cache[k]] = file[cache[k]]]_cacheVars

=============================================================================
