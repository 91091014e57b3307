----------------------------- MODULE GgufExport -----------------------------
(***************************************************************************)
(* The GGUF file that gguf_write_f16 writes (src/src/gguf_write.cpp) and   *)
(* what gguf_load and load_tensor_from_gguf (src/src/gguf.cpp, model.cpp)  *)
(* make of it, also when the file was cut short.                           *)
(*                                                                         *)
(* The file is the sequence of the records before the tensor data, and the *)
(* place where the data of each tensor really went.  The bytes of a record *)
(* or a tensor are left out, their number is not: both sides compute where *)
(* the data are, and neither says so in the file.                          *)
(***************************************************************************)
EXTENDS Naturals, Sequences

CONSTANTS
    HeadLen,     \* bytes of the header: magic, version, n_tensors, n_metadata
    KeyLen,      \* bytes of a metadata entry
    NameLen,     \* bytes of the name and n_dims of an entry of the tensor table
    InfoLen,     \* bytes of its dims, type and offset
    FixedKeys,   \* n_fixed_kv
    Align,       \* the alignment of the tensor data
    LongMax      \* the largest position ftell can return

ASSUME ExportAssumption ==
    /\ HeadLen \in Nat \ {0} /\ KeyLen \in Nat \ {0} /\ NameLen \in Nat \ {0}
    /\ InfoLen \in Nat /\ InfoLen > 4
    /\ FixedKeys \in Nat
    /\ Align \in Nat \ {0}
    /\ LongMax \in Nat

VARIABLES
    xpc,       \* where gguf_write_f16, and then gguf_load, is
    tensors,   \* the tensors in the plan's order: whether F16, elements, bytes
    tokKeys,   \* tokenizer keys the base GGUF has
    nMeta,     \* n_meta of the header
    records,   \* the kinds of the records written after the header
    dataAt,    \* where the data of each tensor went
    pos,       \* the size of the file
    tdo,       \* the reader's tensor_data_offset
    rptr,      \* the reader's position, in bytes
    rrec,      \* the reader's position, in records
    infos,     \* the entries of the tensor table the reader has found
    loaded     \* what load_tensor_from_gguf makes of each tensor

exportVars == <<xpc, tensors, tokKeys, nMeta, records, dataAt, pos, tdo, rptr,
                rrec, infos, loaded>>

-----------------------------------------------------------------------------
(* Sizes and places.                                                       *)

RoundUp(n) == ((n + Align - 1) \div Align) * Align

\* Mutant of Offset: the sizes are not rounded up.
OffsetUnpadded(ts, i) ==
    LET before[k \in 1 .. i] ==
            IF k = 1 THEN 0 ELSE before[k - 1] + ts[k - 1].bytes
    IN  before[i]

\* offset_in_data of the i-th tensor of the plan.
Offset(ts, i) ==
    LET before[k \in 1 .. i] ==
            IF k = 1 THEN 0 ELSE before[k - 1] + RoundUp(ts[k - 1].bytes)
    IN  before[i]

\* wpad: where the file ends after padding.  Beyond LongMax ftell returns -1,
\* and the position it is taken for lacks one byte to a multiple of Align.
Padded(p) == IF p > LongMax THEN p + 1 ELSE RoundUp(p)

KeyRecord == [kind |-> "key", len |-> KeyLen]
InfoRecord(i) == [kind |-> "info", len |-> NameLen + InfoLen, of |-> i,
                  elems |-> tensors[i].elems, offset |-> Offset(tensors, i)]

-----------------------------------------------------------------------------

ExportInit ==
    /\ xpc = "idle"
    /\ tensors = << >>
    /\ tokKeys = 0
    /\ nMeta = 0
    /\ records = << >>
    /\ dataAt = << >>
    /\ pos = 0
    /\ tdo = 0
    /\ rptr = 0
    /\ rrec = 1
    /\ infos = << >>
    /\ loaded = << >>

readerVars == <<tdo, rptr, rrec, infos, loaded>>

\* Mutant of BeginExport: the tokenizer's keys are not counted.
BeginExportFixedKeys(ts, keys) ==
    /\ xpc = "idle"
    /\ tensors' = ts
    /\ tokKeys' = keys
    /\ nMeta' = FixedKeys
    /\ pos' = HeadLen
    /\ xpc' = "keys"
    /\ UNCHANGED <<records, dataAt, readerVars>>

\* The plan and the header.
BeginExport(ts, keys) ==
    /\ xpc = "idle"
    /\ tensors' = ts
    /\ tokKeys' = keys
    /\ nMeta' = FixedKeys + keys
    /\ pos' = HeadLen
    /\ xpc' = "keys"
    /\ UNCHANGED <<records, dataAt, readerVars>>

\* The fixed keys and those passed through from the base GGUF.
WriteKeys ==
    /\ xpc = "keys"
    /\ records' = [i \in 1 .. FixedKeys + tokKeys |-> KeyRecord]
    /\ pos' = pos + KeyLen * (FixedKeys + tokKeys)
    /\ xpc' = "table"
    /\ UNCHANGED <<tensors, tokKeys, nMeta, dataAt, readerVars>>

\* The table, and the padding after it.
WriteTable ==
    /\ xpc = "table"
    /\ records' = records \o [i \in 1 .. Len(tensors) |-> InfoRecord(i)]
    /\ pos' = Padded(pos + Len(tensors) * (NameLen + InfoLen))
    /\ xpc' = "data"
    /\ UNCHANGED <<tensors, tokKeys, nMeta, dataAt, readerVars>>

\* The data of the next tensor, and the padding after them.
WriteData ==
    /\ xpc = "data"
    /\ LET i == Len(dataAt) + 1
       IN  /\ dataAt' = Append(dataAt, pos)
           /\ pos' = Padded(pos + tensors[i].bytes)
    /\ xpc' = IF Len(dataAt) + 1 = Len(tensors) THEN "written" ELSE "data"
    /\ UNCHANGED <<tensors, tokKeys, nMeta, records, readerVars>>

\* fwrite fails somewhere in what the last step wrote, or in what was still in
\* the buffer: the exception leaves the beginning of the file.
ExportThrows(p) ==
    /\ xpc \in {"table", "data", "written"}
    /\ p < pos
    /\ pos' = p
    /\ xpc' = "broken"
    /\ UNCHANGED <<tensors, tokKeys, nMeta, records, dataAt, readerVars>>

\* fclose: what is still in the buffer may not reach the disk, and the result
\* is not looked at.
CloseExport(p) ==
    /\ xpc = "written"
    /\ p <= pos
    /\ pos' = p
    /\ xpc' = "closed"
    /\ UNCHANGED <<tensors, tokKeys, nMeta, records, dataAt, readerVars>>

-----------------------------------------------------------------------------
(* Reading the file back.  pos is the size of the file now.                *)

writerVars == <<tensors, tokKeys, nMeta, records, dataAt, pos>>

\* gguf_parse_buffer: too small for a header, or not.
OpenFile ==
    /\ xpc \in {"closed", "broken"}
    /\ rptr' = HeadLen
    /\ xpc' = IF pos < HeadLen THEN "refused" ELSE "rkeys"
    /\ UNCHANGED <<writerVars, tdo, rrec, infos, loaded>>

\* The next record is wholly in the file.
Whole(len) == rptr + len <= pos

\* read_string and read_metadata_value for one key; a record that is not a key
\* cannot be told from one.  The loop ends after n_metadata keys.
ReadKey ==
    /\ xpc = "rkeys"
    /\ rrec <= nMeta
    /\ rrec <= Len(records)
    /\ Whole(records[rrec].len)
    /\ rptr' = rptr + records[rrec].len
    /\ rrec' = rrec + 1
    /\ UNCHANGED <<writerVars, xpc, tdo, infos, loaded>>

\* All keys read, or the file ends here or within the next one, which leaves
\* the position in it.
EndKeys ==
    /\ xpc = "rkeys"
    /\ ~(rrec <= nMeta /\ rrec <= Len(records) /\ Whole(records[rrec].len))
    /\ rptr' = IF rrec > nMeta THEN rptr ELSE pos
    /\ xpc' = "rtable"
    /\ UNCHANGED <<writerVars, tdo, rrec, infos, loaded>>

\* The entry that comes next is in the file, as far as the bounds check knows:
\* it asks for the dims and 8 bytes more, where the type and the offset of the
\* entry are 12.
Readable ==
    /\ rrec <= Len(records)
    /\ Whole(NameLen + InfoLen - 4)

ReadInfo ==
    /\ xpc = "rtable"
    /\ Len(infos) < Len(tensors)
    /\ Readable
    /\ infos' = Append(infos, records[rrec])
    /\ rptr' = rptr + NameLen + InfoLen
    /\ rrec' = rrec + 1
    /\ UNCHANGED <<writerVars, xpc, tdo, loaded>>

\* The table ends, or the file does: after the name of an entry or within it.
\* Nobody compares the number of entries with n_tensors.
EndTable ==
    /\ xpc = "rtable"
    /\ ~(Len(infos) < Len(tensors) /\ Readable)
    /\ rptr' = IF Len(infos) < Len(tensors) /\ Whole(NameLen)
               THEN rptr + NameLen ELSE rptr
    /\ tdo' = RoundUp(rptr')
    /\ xpc' = "rdata"
    /\ UNCHANGED <<writerVars, rrec, infos, loaded>>

\* load_tensor_from_gguf for the i-th name of the plan: the entry says F16
\* whatever the tensor was.  "empty" is the default tensor that a missing
\* entry, or data that end beyond the file, give.
LoadResult(i) ==
    LET mine == {k \in 1 .. Len(infos) : infos[k].kind = "info" /\ infos[k].of = i}
    IN  IF mine = {} THEN "empty"
        ELSE LET e == infos[CHOOSE k \in mine : TRUE]
             IN  IF tdo + e.offset + 2 * e.elems > pos THEN "empty"
                 ELSE IF i <= Len(dataAt) /\ tdo + e.offset = dataAt[i]
                      THEN IF tensors[i].f16 THEN "same" ELSE "retyped"
                 ELSE "foreign"

LoadTensors ==
    /\ xpc = "rdata"
    /\ loaded' = [i \in 1 .. Len(tensors) |-> LoadResult(i)]
    /\ xpc' = "reloaded"
    /\ UNCHANGED <<writerVars, tdo, rptr, rrec, infos>>

WriterStep ==
    \/ WriteKeys
    \/ WriteTable
    \/ WriteData
    \/ \E p \in 0 .. pos : ExportThrows(p) \/ CloseExport(p)

ReaderStep ==
    \/ OpenFile
    \/ ReadKey
    \/ EndKeys
    \/ ReadInfo
    \/ EndTable
    \/ LoadTensors

-----------------------------------------------------------------------------
(* Properties.                                                             *)

\* A file that was written to its end.
Finished == Len(dataAt) = Len(tensors) /\ pos >= dataAt[Len(tensors)] + tensors[Len(tensors)].bytes

\* The places that writer and reader compute on their own are the same: a
\* complete export gives back every F16 tensor, as long as ftell could follow.
\* What is said of the others is ExportedAsStored.
ExportReloads ==
    (xpc = "reloaded" /\ Finished /\ dataAt[Len(tensors)] <= LongMax) =>
        \A i \in 1 .. Len(tensors) : tensors[i].f16 => loaded[i] = "same"

\* Every tensor is read from the file as what the model holds.
ExportedAsStored ==
    xpc = "reloaded" => \A i \in 1 .. Len(tensors) : loaded[i] = "same"

\* An export that was cut short, which the reader does not notice, loses
\* tensors and never takes other bytes of the file for one.
CutNotMisread ==
    (xpc = "reloaded" /\ pos <= LongMax) => \A i \in 1 .. Len(tensors) : loaded[i] # "foreign"

=============================================================================
