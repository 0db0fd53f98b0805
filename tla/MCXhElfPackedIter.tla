------------------------- MODULE MCXhElfPackedIter -------------------------
(***************************************************************************)
(* Regions for checking XhElfPackedIter, with a 3-bit size_t so that       *)
(* negative offset and addend deltas wrap: every split of a few record    *)
(* lists into groups, with every flags word the packer may write.         *)
(***************************************************************************)
EXTENDS XhElfPackedIter

Enc == INSTANCE Aps2Encoding

R(off, info, addend) == [off |-> off, info |-> info, addend |-> addend]

\* Constant stride and info, no addends (a REL or RELA run of JUMP_SLOTs).
L1 == << R(2, 1, 0), R(4, 1, 0), R(6, 1, 0) >>
\* Offsets going down (delta wraps), an addend then none.
L2 == << R(6, 1, 3), R(2, 2, 0) >>
\* Changing addends and infos.
L3 == << R(1, 2, 1), R(3, 2, 2) >>

GroupingsOf(Ls) == UNION {Enc!Groupings(L) : L \in Ls}

\* Groupings a packer writes for mode rela: grouped fields constant, and
\* no addends at all in a REL region.
Packed(rela, Ls) ==
  { g \in GroupingsOf(Ls) : Enc!Groups(g, 0, 0, rela).ok /\ (rela \/ ~Enc!HasAddend(g)) }

WellFormed ==
  { Enc!Region(rela, 0, g) : <<rela, g>> \in
      {<<TRUE, g>> : g \in Packed(TRUE, {L1, L2, L3})} \cup
      {<<FALSE, g>> : g \in Packed(FALSE, {L1, L2, L3})} }

\* REL regions with an addend-carrying group (spec 4.3: a FORMAT error)
\* in which every such group has its addend in the group header.
RelGroupedAddend ==
  { Enc!Region(FALSE, 0, g) : g \in
      { g \in GroupingsOf({L2, L3}) :
          /\ Enc!Groups(g, 0, 0, FALSE).ok /\ Enc!HasAddend(g)
          /\ \A i \in DOMAIN g : Enc!IsSet(g[i].flags, Enc!HAS_ADDEND)
                                => Enc!IsSet(g[i].flags, Enc!BY_ADDEND) } }

\* REL regions with a group carrying per-entry addends.
RelEntryAddend ==
  { Enc!Region(FALSE, 0, g) : g \in
      { g \in GroupingsOf({L2, L3}) :
          /\ Enc!Groups(g, 0, 0, FALSE).ok
          /\ \E i \in DOMAIN g : /\ Enc!IsSet(g[i].flags, Enc!HAS_ADDEND)
                                /\ ~Enc!IsSet(g[i].flags, Enc!BY_ADDEND) } }

\* Regions of L1 (first two records) and L3 cut short by one or more values (a stream torn by
\* a too small DT_ANDROID_REL(A)SZ).
Truncated ==
  UNION { { [r EXCEPT !.stream = SubSeq(r.stream, 1, k)] : k \in 0..(Len(r.stream) - 1) }
          : r \in { Enc!Region(x, 0, g) : <<x, g>> \in
                       {<<TRUE, g>> : g \in Packed(TRUE, {SubSeq(L1, 1, 2), L3})} \cup
                       {<<FALSE, g>> : g \in Packed(FALSE, {SubSeq(L1, 1, 2), L3})} } }

TornOrRejected == Truncated \cup RelGroupedAddend
=============================================================================
