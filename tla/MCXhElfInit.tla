---------------------------- MODULE MCXhElfInit ----------------------------
(***************************************************************************)
(* Images for checking XhElfInit: every combination of the program-header  *)
(* facts init tests with a set of dynamic sections.                        *)
(***************************************************************************)
EXTENDS XhElfInit

\* A 64-bit RELA object as GNU ld lays out .dynamic (DT_HASH first).
DynLd == <<"HASH", "GNU_HASH", "STRTAB", "SYMTAB", "OTHER",
           "PLTREL_RELA", "JMPREL", "RELA">>
\* A 32-bit REL object.
DynLdRel == <<"HASH", "STRTAB", "SYMTAB", "PLTREL_REL", "JMPREL", "REL">>
\* Only DT_GNU_HASH, with packed relocations.
DynAndroid == <<"GNU_HASH", "STRTAB", "SYMTAB", "PLTREL_RELA", "JMPREL",
                "ANDROID_RELA">>
\* No hash table / no symbol table.
DynNoHash == <<"STRTAB", "SYMTAB", "PLTREL_REL", "JMPREL">>
DynNoSymtab == <<"HASH", "STRTAB", "PLTREL_REL", "JMPREL", "REL">>

\* DT_GNU_HASH before DT_HASH: the order is not fixed by the ELF format.
DynGnuFirst == <<"GNU_HASH", "HASH", "STRTAB", "SYMTAB", "PLTREL_RELA",
                 "JMPREL", "RELA">>

\* Program headers: the usual PHDR, LOAD, LOAD, DYNAMIC; a first PT_LOAD
\* at a non-zero offset (a later one at 0); no PT_DYNAMIC (a static
\* executable).
Load(off) == [p_type |-> "LOAD", p_offset |-> off]
Ph(t) == [p_type |-> t, p_offset |-> 64]
PhLd == <<Ph("PHDR"), Load(0), Load(4096), Ph("DYNAMIC")>>
PhOffset == <<Load(4096), Load(0), Ph("DYNAMIC")>>
PhStatic == <<Load(0), Load(4096), Ph("GNU_STACK")>>

\* An AArch64 shared object, and each header one field away from it.
HdrOk == [magic |-> TRUE, class |-> 64, data |-> "LSB", ei_version |-> "CURRENT",
          version |-> "CURRENT", type |-> "DYN", machine |-> "AARCH64"]
HdrBad == { [HdrOk EXCEPT !.magic = FALSE], [HdrOk EXCEPT !.class = 32],
            [HdrOk EXCEPT !.data = "MSB"], [HdrOk EXCEPT !.ei_version = "NONE"],
            [HdrOk EXCEPT !.version = "NONE"], [HdrOk EXCEPT !.type = "REL"],
            [HdrOk EXCEPT !.type = "EXEC"], [HdrOk EXCEPT !.machine = "ARM"] }

ImagesOf(hdrs, phs, dyns) ==
  [ehdr : hdrs, phdrs : phs, biasZero : BOOLEAN, androidMagicOk : BOOLEAN,
   dyn : dyns]

MCImages ==
  ImagesOf({HdrOk}, {PhLd, PhOffset, PhStatic},
           {DynLd, DynLdRel, DynAndroid, DynNoHash, DynNoSymtab})
  \cup ImagesOf(HdrBad, {PhLd}, {DynLd})
MCImagesGnuFirst == ImagesOf({HdrOk}, {PhLd}, {DynGnuFirst})
=============================================================================
