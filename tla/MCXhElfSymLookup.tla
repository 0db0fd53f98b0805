------------------------- MODULE MCXhElfSymLookup -------------------------
(***************************************************************************)
(* Views for checking XhElfSymLookup.  The tables are laid out as the      *)
(* static linker lays them out, from the published ELF and GNU hash        *)
(* values of the names (not from the model's hash functions): every split *)
(* of four names into imported (undefined) and defined symbols, with 1 to *)
(* 3 buckets and, for GNU tables, 1 or 2 bloom words and two bloom shifts. *)
(***************************************************************************)
EXTENDS XhElfSymLookup

Malloc == <<109, 97, 108, 108, 111, 99>>
Free == <<102, 114, 101, 101>>
Syscall == <<115, 121, 115, 99, 97, 108, 108>>
Flapenguin == <<102, 108, 97, 112, 101, 110, 103, 117, 105, 110, 46, 109, 101>>
Exit == <<101, 120, 105, 116>>

Present == {Malloc, Free, Syscall, Flapenguin}
MCQueries == Present \cup {Exit}

\* Published values: ELF hash, and GNU hash as [hi, lo] 16-bit halves.
EH == [n \in MCQueries |->
        CASE n = Malloc -> 121123667 [] n = Free -> 448693
          [] n = Syscall -> 185178204 [] n = Flapenguin -> 60324117
          [] n = Exit -> 446212]
GH == [n \in MCQueries |->
        CASE n = Malloc -> [hi |-> 3385, lo |-> 44349]
          [] n = Free -> [hi |-> 31894, lo |-> 61575]
          [] n = Syscall -> [hi |-> 47810, lo |-> 4768]
          [] n = Flapenguin -> [hi |-> 35561, lo |-> 61838]
          [] n = Exit -> [hi |-> 31894, lo |-> 32319]]

SymtabOf(syms) == [k \in 0..Len(syms) |-> IF k = 0 THEN << >> ELSE syms[k]]

\* DT_HASH: symbols pushed in index order on the front of their bucket's
\* chain, so a bucket holds its last symbol and a chain entry the one before.
Classic(und, def, nb) ==
  LET syms == und \o def
      N == Len(syms) + 1
      bkt(k) == EH[syms[k]] % nb
      lastOf(S) == IF S = {} THEN 0 ELSE CHOOSE k \in S : \A j \in S : j <= k
  IN [gnu |-> FALSE, symtab |-> SymtabOf(syms), bucket_cnt |-> nb,
      bucket |-> [b \in 0..(nb - 1) |-> lastOf({k \in 1..(N - 1) : bkt(k) = b})],
      chain |-> [k \in 0..(N - 1) |->
                   IF k = 0 THEN 0 ELSE lastOf({j \in 1..(k - 1) : bkt(j) = bkt(k)})],
      symoffset |-> 0, bloom_sz |-> 1, bloom_shift |-> 0, bloom |-> <<>>]

\* DT_GNU_HASH: undefined symbols first and unhashed; defined ones grouped
\* by bucket, each chain value the hash with bit 0 marking the last of it.
Gnu(und, def, nb, bs, sh) ==
  LET bkt(n) == U32Mod(GH[n], nb)
      hashed == FlattenSeq([b \in 1..nb |-> SelectSeq(def, LAMBDA n : bkt(n) = b - 1)])
      syms == und \o hashed
      N == Len(syms) + 1
      off == Len(und) + 1
      Def == off..(N - 1)
      last(k) == k = N - 1 \/ bkt(syms[k + 1]) # bkt(syms[k])
      bits(n) == {U32Mod(GH[n], WordBits), U32ShrMod(GH[n], sh, WordBits)}
  IN [gnu |-> TRUE, symtab |-> SymtabOf(syms), bucket_cnt |-> nb,
      bucket |-> [b \in 0..(nb - 1) |->
                    IF \E k \in Def : bkt(syms[k]) = b
                      THEN CHOOSE k \in Def : bkt(syms[k]) = b
                                /\ \A j \in Def : bkt(syms[j]) = b => k <= j
                      ELSE 0],
      chain |-> [j \in 0..(N - 1 - off) |->
                   [hi |-> GH[syms[j + off]].hi,
                    lo |-> (GH[syms[j + off]].lo \div 2) * 2
                           + (IF last(j + off) THEN 1 ELSE 0)]],
      symoffset |-> off, bloom_sz |-> bs, bloom_shift |-> sh,
      bloom |-> [w \in 0..(bs - 1) |->
                   UNION { bits(syms[k]) : k \in
                           {k \in Def : U32DivMod(GH[syms[k]], WordBits, bs) = w} }]]

Splits == { <<SetToSeq(Present \ D), SetToSeq(D)>> : D \in SUBSET Present }

MCViews ==
  { Classic(s[1], s[2], nb) : s \in Splits, nb \in 1..3 }
  \cup { Gnu(s[1], s[2], nb, bs, sh) : s \in Splits, nb \in 1..3, bs \in 1..2, sh \in {6, 26} }
=============================================================================
