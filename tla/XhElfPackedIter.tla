--------------------------- MODULE XhElfPackedIter ---------------------------
(***************************************************************************)
(* The packed (APS2) relocation iterator of src/libxhook/jni/xh_elf.c,     *)
(* xh_elf_packed_reloc_iterator_init / _read_group_fields / _next (lines   *)
(* 112-231), as driven by the .rel(a).android loop of xh_elf_hook (lines   *)
(* 998-1009).  The byte stream is abstracted to the size_t values its      *)
(* SLEB128 numbers decode to; xh_elf_sleb128_decoder_next fails exactly   *)
(* when the stream has no value left.  All                                 *)
(* arithmetic is on size_t, modulo 2^W.                                    *)
(***************************************************************************)
EXTENDS Integers, Sequences

CONSTANTS
  W,        \* width in bits of size_t
  Regions   \* the .rel(a).android regions a run may walk: [rela, stream, records]

M == 2^W

\* lines 130-133
RELOCATION_GROUPED_BY_INFO_FLAG == 1
RELOCATION_GROUPED_BY_OFFSET_DELTA_FLAG == 2
RELOCATION_GROUPED_BY_ADDEND_FLAG == 4
RELOCATION_GROUP_HAS_ADDEND_FLAG == 8

Flag(f, b) == (f \div b) % 2 = 1

VARIABLES
  region,   \* the region being walked (its stream and is_use_rela)
  it,       \* the fields of xh_elf_packed_reloc_iterator_t, cursor as pos
  phase,    \* "init": before the iterator init; "iter": in the loop; "done"
  yielded   \* the records next() returned, in order

vars == <<region, it, phase, yielded>>

S == region.stream

\* The decoder has the value at position p (lines 93-96).
Avail(p) == p <= Len(S)

(***************************************************************************)
(* xh_elf_packed_reloc_iterator_init (lines 135-147): zero the iterator,   *)
(* then read relocation_count and r_offset.  Its error return is ignored  *)
(* by xh_elf_hook (line 1001), so a failed read just leaves fields zero.   *)
(***************************************************************************)
IterInit ==
  /\ phase = "init"
  /\ it' = [relocation_count |-> IF Avail(1) THEN S[1] ELSE 0,
            r_offset |-> IF Avail(2) THEN S[2] ELSE 0,
            pos |-> IF Avail(2) THEN 3 ELSE Len(S) + 1,
            group_size |-> 0, group_flags |-> 0, group_r_offset_delta |-> 0,
            relocation_index |-> 0, relocation_group_index |-> 0,
            r_info |-> 0, r_addend |-> 0]
  /\ phase' = "iter"
  /\ UNCHANGED <<region, yielded>>

\* next() has yielded relocation_count records (line 187).
AtEnd(t) == t.relocation_index >= t.relocation_count

\* Mutant: a grouped addend accepted in a REL region.
ReadGroupFieldsOkNoRelaCheck(t) ==
  LET p == t.pos
      f == S[p + 1]
      addHdr == Flag(f, RELOCATION_GROUP_HAS_ADDEND_FLAG)
                /\ Flag(f, RELOCATION_GROUPED_BY_ADDEND_FLAG)
      n == 2 + (IF Flag(f, RELOCATION_GROUPED_BY_OFFSET_DELTA_FLAG) THEN 1 ELSE 0)
             + (IF Flag(f, RELOCATION_GROUPED_BY_INFO_FLAG) THEN 1 ELSE 0)
             + (IF addHdr THEN 1 ELSE 0)
  IN Avail(p + 1) /\ Avail(p + n - 1)

(***************************************************************************)
(* xh_elf_packed_reloc_iterator_read_group_fields (lines 149-181).  The    *)
(* values it reads depend only on the flags, so it fails (returns nonzero  *)
(* and makes next() return NULL) when the stream runs out before the last *)
(* of them or when a grouped addend is met in a REL region.  A failed call *)
(* leaves the iterator to be discarded, so only success is given a state.  *)
(***************************************************************************)
ReadGroupFieldsOk(t) ==
  LET p == t.pos
      f == S[p + 1]
      addHdr == Flag(f, RELOCATION_GROUP_HAS_ADDEND_FLAG)
                /\ Flag(f, RELOCATION_GROUPED_BY_ADDEND_FLAG)
      n == 2 + (IF Flag(f, RELOCATION_GROUPED_BY_OFFSET_DELTA_FLAG) THEN 1 ELSE 0)
             + (IF Flag(f, RELOCATION_GROUPED_BY_INFO_FLAG) THEN 1 ELSE 0)
             + (IF addHdr THEN 1 ELSE 0)
  IN /\ Avail(p + 1)
     /\ addHdr => region.rela
     /\ Avail(p + n - 1)

\* Mutant: r_addend not cleared for a group without addends.
ReadGroupFieldsNoReset(t) ==
  LET p == t.pos
      f == S[p + 1]
      byOff == Flag(f, RELOCATION_GROUPED_BY_OFFSET_DELTA_FLAG)
      byInfo == Flag(f, RELOCATION_GROUPED_BY_INFO_FLAG)
      has == Flag(f, RELOCATION_GROUP_HAS_ADDEND_FLAG)
      addHdr == has /\ Flag(f, RELOCATION_GROUPED_BY_ADDEND_FLAG)
      pInfo == p + 2 + (IF byOff THEN 1 ELSE 0)
      pAdd == pInfo + (IF byInfo THEN 1 ELSE 0)
  IN [t EXCEPT !.group_size = S[p],
               !.group_flags = f,
               !.group_r_offset_delta = IF byOff THEN S[p + 2] ELSE @,
               !.r_info = IF byInfo THEN S[pInfo] ELSE @,
               !.r_addend = IF addHdr THEN (@ + S[pAdd]) % M ELSE @,
               !.relocation_group_index = 0,
               !.pos = pAdd + (IF addHdr THEN 1 ELSE 0)]

GroupFields(t) ==
  LET p == t.pos
      f == S[p + 1]
      byOff == Flag(f, RELOCATION_GROUPED_BY_OFFSET_DELTA_FLAG)
      byInfo == Flag(f, RELOCATION_GROUPED_BY_INFO_FLAG)
      has == Flag(f, RELOCATION_GROUP_HAS_ADDEND_FLAG)
      addHdr == has /\ Flag(f, RELOCATION_GROUPED_BY_ADDEND_FLAG)
      pInfo == p + 2 + (IF byOff THEN 1 ELSE 0)
      pAdd == pInfo + (IF byInfo THEN 1 ELSE 0)
  IN [t EXCEPT !.group_size = S[p],
               !.group_flags = f,
               !.group_r_offset_delta = IF byOff THEN S[p + 2] ELSE @,
               !.r_info = IF byInfo THEN S[pInfo] ELSE @,
               !.r_addend = CASE addHdr -> (@ + S[pAdd]) % M
                              [] ~has -> 0
                              [] OTHER -> @,
               !.pos = pAdd + (IF addHdr THEN 1 ELSE 0)]

\* Mutant: relocation_group_index not reset for the new group.
ReadGroupFieldsNoIndexReset(t) == GroupFields(t)

ReadGroupFields(t) == [GroupFields(t) EXCEPT !.relocation_group_index = 0]

(***************************************************************************)
(* The per-entry part of xh_elf_packed_reloc_iterator_next (lines 194-216) *)
(* on iterator t whose group fields are read: how many values it reads,    *)
(* and the iterator after it.                                              *)
(***************************************************************************)
PerEntryAddend(t) ==
  /\ region.rela
  /\ Flag(t.group_flags, RELOCATION_GROUP_HAS_ADDEND_FLAG)
  /\ ~Flag(t.group_flags, RELOCATION_GROUPED_BY_ADDEND_FLAG)

EntryReads(t) ==
  (IF Flag(t.group_flags, RELOCATION_GROUPED_BY_OFFSET_DELTA_FLAG) THEN 0 ELSE 1)
  + (IF Flag(t.group_flags, RELOCATION_GROUPED_BY_INFO_FLAG) THEN 0 ELSE 1)
  + (IF PerEntryAddend(t) THEN 1 ELSE 0)

Entry(t) ==
  LET byOff == Flag(t.group_flags, RELOCATION_GROUPED_BY_OFFSET_DELTA_FLAG)
      byInfo == Flag(t.group_flags, RELOCATION_GROUPED_BY_INFO_FLAG)
      pInfo == t.pos + (IF byOff THEN 0 ELSE 1)
      pAdd == pInfo + (IF byInfo THEN 0 ELSE 1)
  IN [t EXCEPT !.r_offset = (@ + (IF byOff THEN t.group_r_offset_delta ELSE S[t.pos])) % M,
               !.r_info = IF byInfo THEN @ ELSE S[pInfo],
               !.r_addend = IF PerEntryAddend(t) THEN (@ + S[pAdd]) % M ELSE @,
               !.relocation_index = @ + 1,
               !.relocation_group_index = @ + 1,
               !.pos = @ + EntryReads(t)]

\* The record next() returns: rela or rel filled from the fields (218-230).
Emit(t) == [off |-> t.r_offset, info |-> t.r_info,
            addend |-> IF region.rela THEN t.r_addend ELSE 0]

\* next() returns NULL: the loop of xh_elf_hook ends (lines 1002-1008).
Stop ==
  /\ phase' = "done"
  /\ UNCHANGED <<region, it, yielded>>

(***************************************************************************)
(* One call of xh_elf_packed_reloc_iterator_next (lines 183-231).          *)
(***************************************************************************)
PackedNext ==
  /\ phase = "iter"
  /\ LET needGroup == it.relocation_group_index = it.group_size
         grouped == IF needGroup THEN ReadGroupFields(it) ELSE it
     IN \/ /\ AtEnd(it)
           /\ Stop
        \/ /\ ~AtEnd(it)
           /\ needGroup /\ ~ReadGroupFieldsOk(it)
           /\ Stop
        \/ /\ ~AtEnd(it)
           /\ needGroup => ReadGroupFieldsOk(it)
           /\ ~Avail(grouped.pos + EntryReads(grouped) - 1)
           /\ Stop
        \/ /\ ~AtEnd(it)
           /\ needGroup => ReadGroupFieldsOk(it)
           /\ Avail(grouped.pos + EntryReads(grouped) - 1)
           /\ it' = Entry(grouped)
           /\ yielded' = Append(yielded, Emit(it'))
           /\ UNCHANGED <<region, phase>>

Init ==
  /\ region \in Regions
  /\ it = [relocation_count |-> 0, r_offset |-> 0, pos |-> 1,
           group_size |-> 0, group_flags |-> 0, group_r_offset_delta |-> 0,
           relocation_index |-> 0, relocation_group_index |-> 0,
           r_info |-> 0, r_addend |-> 0]
  /\ phase = "init"
  /\ yielded = << >>

Next ==
  \/ IterInit
  \/ PackedNext
  \/ phase = "done" /\ UNCHANGED vars

Spec == Init /\ [][Next]_vars /\ WF_vars(IterInit \/ PackedNext)

(***************************************************************************)
(* Properties                                                              *)
(***************************************************************************)

TypeOK ==
  /\ phase \in {"init", "iter", "done"}
  /\ \A fld \in {"relocation_count", "r_offset", "group_size", "group_flags",
                 "group_r_offset_delta", "relocation_index",
                 "relocation_group_index", "r_info", "r_addend"} :
        it[fld] \in Nat
  /\ it.pos \in 1..(Len(S) + 1)
  /\ it.relocation_index <= it.relocation_count
  /\ it.relocation_group_index <= it.group_size

(* The packed iterator implements the iterator contract (RelocStream) on   *)
(* the records the region encodes: it yields exactly those records, in     *)
(* order, and then ends, for every grouping and flag combination a packer *)
(* may write.                                                              *)
Abstract == INSTANCE RelocStream WITH
  records <- region.records,
  out <- yielded,
  ended <- phase = "done"

ImplementsRelocStream == Abstract!Spec

(* Every record the iterator yields is the record the region encodes at   *)
(* that position (spec 4.3; a HAS_ADDEND group in a REL region fails).    *)
YieldsEncoded ==
  /\ Len(yielded) <= Len(region.records)
  /\ \A k \in DOMAIN yielded : yielded[k] = region.records[k]
=============================================================================
