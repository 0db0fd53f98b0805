---------------------------- MODULE Aps2Encoding ----------------------------
(***************************************************************************)
(* Reference encoder of the Android packed relocation format (spec 4.3),   *)
(* the format the packer of the toolchain writes and xh_elf.c reads.  A    *)
(* region is a sequence of groups, each a flags word and a non-empty       *)
(* sequence of absolute records [off, info, addend]; the encoder writes   *)
(* the stream of SLEB128 values (as the size_t values they decode to) and *)
(* states which records a correct reader yields from it.                  *)
(***************************************************************************)
EXTENDS Integers, Sequences, SequencesExt

CONSTANT W   \* width in bits of size_t / ElfW(Addr)

M == 2^W

BY_INFO == 1
BY_OFFSET_DELTA == 2
BY_ADDEND == 4
HAS_ADDEND == 8

IsSet(f, b) == (f \div b) % 2 = 1

(***************************************************************************)
(* Encode groups gs, starting from running offset r and running addend a.  *)
(* vals: the stream; recs: the records a reader yields; ok: every grouped  *)
(* field is constant over its group and a group without HAS_ADDEND has    *)
(* zero addends.  A group with HAS_ADDEND in a REL region makes the reader *)
(* fail (spec 4.3), so recs stops before it.                               *)
(***************************************************************************)
RECURSIVE Groups(_, _, _, _)
Groups(gs, r, a, rela) ==
  IF gs = << >> THEN [vals |-> << >>, recs |-> << >>, ok |-> TRUE]
  ELSE
  LET g == Head(gs)
      e == g.entries
      n == Len(e)
      byOff == IsSet(g.flags, BY_OFFSET_DELTA)
      byInfo == IsSet(g.flags, BY_INFO)
      has == IsSet(g.flags, HAS_ADDEND)
      byAdd == IsSet(g.flags, BY_ADDEND)
      dOff(k) == (e[k].off - (IF k = 1 THEN r ELSE e[k - 1].off)) % M
      dAdd(k) == (e[k].addend - (IF k = 1 THEN a ELSE e[k - 1].addend)) % M
      hdr == <<n, g.flags>>
             \o (IF byOff THEN <<dOff(1)>> ELSE << >>)
             \o (IF byInfo THEN <<e[1].info>> ELSE << >>)
             \o (IF has /\ byAdd THEN <<dAdd(1)>> ELSE << >>)
      entry(k) == (IF byOff THEN << >> ELSE <<dOff(k)>>)
                  \o (IF byInfo THEN << >> ELSE <<e[k].info>>)
                  \o (IF has /\ ~byAdd THEN <<dAdd(k)>> ELSE << >>)
      valid == /\ n >= 1
               /\ byOff => \A k \in 1..n : dOff(k) = dOff(1)
               /\ byInfo => \A k \in 1..n : e[k].info = e[1].info
               /\ has /\ byAdd => \A k \in 1..n : e[k].addend = e[1].addend
               /\ ~has => \A k \in 1..n : e[k].addend = 0
      yielded == [k \in 1..n |-> [off |-> e[k].off, info |-> e[k].info,
                                  addend |-> IF rela THEN e[k].addend ELSE 0]]
      rest == Groups(Tail(gs), e[n].off, IF has THEN e[n].addend ELSE 0, rela)
  IN [vals |-> hdr \o FlattenSeq([k \in 1..n |-> entry(k)]) \o rest.vals,
      recs |-> IF has /\ ~rela THEN << >> ELSE yielded \o rest.recs,
      ok   |-> valid /\ rest.ok]

\* relocation_count and the initial r_offset, then the groups.
Count(gs) == FoldLeft(LAMBDA c, g : c + Len(g.entries), 0, gs)

Stream(rela, r0, gs) == <<Count(gs), r0 % M>> \o Groups(gs, r0, 0, rela).vals

\* Every split of a sequence of records into consecutive non-empty groups.
RECURSIVE Splits(_)
Splits(s) ==
  IF s = << >> THEN {<< >>}
  ELSE UNION { { <<SubSeq(s, 1, k)>> \o rest : rest \in Splits(SubSeq(s, k + 1, Len(s))) }
               : k \in 1..Len(s) }

\* Every grouping of records, with every flags word on every group.
Groupings(recs) ==
  UNION { { [i \in DOMAIN sp |-> [flags |-> fl[i], entries |-> sp[i]]]
            : fl \in [DOMAIN sp -> 0..15] } : sp \in Splits(recs) }

\* Some group sets HAS_ADDEND.
HasAddend(gs) == \E i \in DOMAIN gs : IsSet(gs[i].flags, HAS_ADDEND)

\* A region: which reader mode, the stream, and what a reader must yield.
Region(rela, r0, gs) ==
  [rela |-> rela, stream |-> Stream(rela, r0, gs), records |-> Groups(gs, r0, 0, rela).recs]
=============================================================================
