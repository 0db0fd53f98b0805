--------------------------- MODULE XhElfSymLookup ---------------------------
(***************************************************************************)
(* Symbol lookup of src/libxhook/jni/xh_elf.c: the ELF and GNU hash        *)
(* functions (lines 272-297), xh_elf_hash_lookup (313-332),                *)
(* xh_elf_gnu_hash_lookup_def / _undef / gnu_hash_lookup (334-395) and the *)
(* dispatch xh_elf_find_symidx_by_name (397-403).  One step is one turn of *)
(* a lookup loop.  Names are sequences of byte values.  A uint32_t GNU     *)
(* hash is kept as its two 16-bit halves [hi, lo] so that the arithmetic   *)
(* modulo 2^32 stays within TLC's integers; the ELF hash is below 2^28    *)
(* between bytes.  A bloom word is the set of its bits that are 1.         *)
(***************************************************************************)
EXTENDS Integers, Sequences, SequencesExt, Bitwise

CONSTANTS
  WordBits,  \* elfclass_bits: bits of ElfW(Addr), 32 or 64
  Views,     \* the views (symbol and hash tables) a run may look up in
  Queries,   \* the names a caller may ask for
  NotFound   \* XH_ERRNO_NOTFND

ASSUME WordBits \in {32, 64}

VARIABLES
  view,    \* the tables of the view (fixed for a run)
  query,   \* the symbol name asked for
  phase,   \* "start", "elf", "def", "undef", "done"
  i,       \* the symbol index the loop is at
  result   \* the index found, or NotFound

vars == <<view, query, phase, i, result>>

(***************************************************************************)
(* Hash functions                                                          *)
(***************************************************************************)

\* Mutant: the h ^= g >> 24 of the ELF hash left out.
ElfHashStepNoFold(h, c) ==
  LET x == (h % 2^24) * 16 + c
  IN x % 2^28

\* One byte of xh_elf_hash (lines 278-281), on h < 2^28: h = (h << 4) + c,
\* g = h & 0xf0000000, h ^= g, h ^= g >> 24.
ElfHashStep(h, c) ==
  LET x == (h % 2^24) * 16 + c                \* low 28 bits, plus a carry
      top == (h \div 2^24 + x \div 2^28) % 16  \* g >> 28
  IN (x % 2^28) ^^ (top * 16)

\* The loop over the bytes of the name, from the first.
ElfHash(name) == FoldLeft(ElfHashStep, 0, name)

\* One byte of xh_elf_gnu_hash (line 294): h += (h << 5) + c, modulo 2^32.
GnuHashStep(h, c) ==
  LET t == h.lo * 33 + c
  IN [hi |-> (h.hi * 33 + t \div 2^16) % 2^16, lo |-> t % 2^16]

GnuHash(name) == FoldLeft(GnuHashStep, [hi |-> 0, lo |-> 5381], name)

\* h % n, (h / d) % n for d dividing 2^16, and (h >> s) % n, for n > 0.
U32Mod(h, n) == ((h.hi % n) * (2^16 % n) + h.lo) % n
U32DivMod(h, d, n) == ((h.hi % n) * ((2^16 \div d) % n) + h.lo \div d) % n
U32ShrMod(h, s, n) ==
  IF s >= 16 THEN (h.hi \div 2^(s - 16)) % n
  ELSE ((h.hi % n) * (2^(16 - s) % n) + h.lo \div 2^s) % n

(***************************************************************************)
(* Lookups                                                                 *)
(***************************************************************************)

\* The hashes of the names a caller may ask for: pure functions of the
\* name, evaluated once.
QueryElfHash == [n \in Queries |-> ElfHash(n)]
QueryGnuHash == [n \in Queries |-> GnuHash(n)]

Name(k) == view.symtab[k]
Done(r) == phase' = "done" /\ result' = r /\ UNCHANGED i

\* Mutant: the bloom word picked by hash % bloom_sz.
BloomHasWordByHash(h) ==
  { U32Mod(h, WordBits), U32ShrMod(h, view.bloom_shift, WordBits) }
    \subseteq view.bloom[U32Mod(h, view.bloom_sz)]

\* The bloom filter test of lines 338-345: both bits of the hash are set.
BloomHas(h) ==
  { U32Mod(h, WordBits), U32ShrMod(h, view.bloom_shift, WordBits) }
    \subseteq view.bloom[U32DivMod(h, WordBits, view.bloom_sz)]

\* Where xh_elf_gnu_hash_lookup_def enters its chain (lines 336-349), or
\* NotFound when it returns XH_ERRNO_NOTFND before the loop.
GnuEntry(h) ==
  LET k == view.bucket[U32Mod(h, view.bucket_cnt)]
  IN IF BloomHas(h) /\ k >= view.symoffset THEN k ELSE NotFound

\* find_symidx_by_name (lines 397-403) and the entry of the lookup chosen.
Start ==
  /\ phase = "start"
  /\ UNCHANGED <<view, query, result>>
  /\ IF view.gnu
       THEN LET k == GnuEntry(QueryGnuHash[query]) IN
            IF k = NotFound THEN phase' = "undef" /\ i' = 0
                            ELSE phase' = "def" /\ i' = k
       ELSE phase' = "elf" /\ i' = view.bucket[QueryElfHash[query] % view.bucket_cnt]

\* One turn of the loop of xh_elf_hash_lookup (lines 319-329).
ElfStep ==
  /\ phase = "elf"
  /\ UNCHANGED <<view, query>>
  /\ \/ i = 0 /\ Done(NotFound)
     \/ i # 0 /\ Name(i) = query /\ Done(i)
     \/ /\ i # 0 /\ Name(i) # query
        /\ i' = view.chain[i]
        /\ UNCHANGED <<phase, result>>

\* One turn of the loop of xh_elf_gnu_hash_lookup_def (lines 352-368); its
\* NOTFND return goes on to the linear scan (line 393).
GnuDefStep ==
  LET h == QueryGnuHash[query]
      e == view.chain[i - view.symoffset]
  IN
  /\ phase = "def"
  /\ UNCHANGED <<view, query>>
  /\ \/ /\ h.hi = e.hi /\ h.lo \div 2 = e.lo \div 2 /\ Name(i) = query
        /\ Done(i)
     \/ /\ ~(h.hi = e.hi /\ h.lo \div 2 = e.lo \div 2 /\ Name(i) = query)
        /\ e.lo % 2 = 1
        /\ phase' = "undef" /\ i' = 0
        /\ UNCHANGED result
     \/ /\ ~(h.hi = e.hi /\ h.lo \div 2 = e.lo \div 2 /\ Name(i) = query)
        /\ e.lo % 2 = 0
        /\ i' = i + 1
        /\ UNCHANGED <<phase, result>>

\* Mutant: the i++ of the scan left out.
UndefNextMissing(k) == k

\* The i++ of the for loop of line 377.
UndefNext(k) == k + 1

\* One turn of the loop of xh_elf_gnu_hash_lookup_undef (lines 377-387).
GnuUndefStep ==
  /\ phase = "undef"
  /\ UNCHANGED <<view, query>>
  /\ \/ i >= view.symoffset /\ Done(NotFound)
     \/ i < view.symoffset /\ Name(i) = query /\ Done(i)
     \/ /\ i < view.symoffset /\ Name(i) # query
        /\ i' = UndefNext(i)
        /\ UNCHANGED <<phase, result>>

Init ==
  /\ view \in Views
  /\ query \in Queries
  /\ phase = "start"
  /\ i = 0
  /\ result = NotFound

Next ==
  \/ Start
  \/ ElfStep
  \/ GnuDefStep
  \/ GnuUndefStep
  \/ phase = "done" /\ UNCHANGED vars

\* A lookup runs on the caller's thread to its end.
Spec == Init /\ [][Next]_vars /\ WF_vars(Start \/ ElfStep \/ GnuDefStep \/ GnuUndefStep)

(***************************************************************************)
(* Properties                                                              *)
(***************************************************************************)

\* What a correct resolver answers: the index of the symbol with that name
\* (names are unique in the tables, index 0 is STN_UNDEF).
Resolve(v, n) ==
  IF \E k \in DOMAIN v.symtab \ {0} : v.symtab[k] = n
    THEN CHOOSE k \in DOMAIN v.symtab \ {0} : v.symtab[k] = n
    ELSE NotFound

(* Spec 8: for every name, defined or imported, in a classic or a GNU     *)
(* hashed image, xh_elf_find_symidx_by_name returns the index a correct   *)
(* resolver returns, and NOTFND for a name the image does not have.  The  *)
(* tables are built by the toolchain from the published hash values, so   *)
(* this also checks both hash functions.                                   *)
LookupCorrect == phase = "done" => result = Resolve(view, query)

(* Every lookup returns: each chain it walks on a well-formed table ends. *)
LookupReturns == <>(phase = "done")
=============================================================================
