------------------------------ MODULE XhElfInit ------------------------------
(***************************************************************************)
(* The view of a loaded ELF image, xh_elf_t, as xh_elf_init, xh_elf_check  *)
(* and xh_elf_reset of src/libxhook/jni/xh_elf.c (lines 299-311, 489-543,  *)
(* 755-899) build and clear it, and the standalone header check          *)
(* xh_elf_check_elfheader (lines 233-270).  Pointers of the view are abstracted to    *)
(* whether they are set and, for the hash tables, to which table          *)
(* (DT_HASH "ELF" or DT_GNU_HASH "GNU") they point into; the image to the *)
(* facts about it that init tests.                                         *)
(***************************************************************************)
EXTENDS Integers, Sequences, SequencesExt

CONSTANTS
  Images,    \* the images a run may be asked to parse
  NULL,      \* a NULL pathname
  Path,      \* a non-NULL pathname
  MaxCalls,  \* bound on the calls of xh_elf_init, _reset and _check_elfheader
  HostClass, \* 64 if __LP64__ is defined, else 32
  HostArch   \* "ARM" (__arm__), "AARCH64" (__aarch64__) or "OTHER"

ASSUME HostClass \in {32, 64} /\ HostArch \in {"ARM", "AARCH64", "OTHER"}

\* relandroid as an address: 0 (NULL), the region's address, or 4 past it.
AndroidAddr == 8

\* The d_tag values of the switch of lines 796-854 ("PLTREL_RELA" and
\* "PLTREL_REL" are DT_PLTREL with d_val DT_RELA / DT_REL).
Tags == {"STRTAB", "SYMTAB", "PLTREL_RELA", "PLTREL_REL", "JMPREL", "REL",
         "RELA", "ANDROID_REL", "ANDROID_RELA", "HASH", "GNU_HASH", "OTHER"}

VARIABLES
  image,  \* the mapped image at base_addr (fixed for a run)
  view,   \* the xh_elf_t
  ret,    \* the value the last call returned
  calls,  \* calls made so far
  last    \* the function the last call was: "none", "init", "reset", "check"

vars == <<image, view, ret, calls, last>>

\* memset(self, 0, sizeof(xh_elf_t))
Zero == [pathname |-> NULL, base |-> FALSE, ehdr |-> FALSE, phdr |-> FALSE,
         biasNonZero |-> FALSE, strtab |-> FALSE, symtab |-> FALSE,
         bucket |-> "none", chain |-> "none", bloom |-> FALSE,
         gnu |-> FALSE, rela |-> FALSE, relplt |-> FALSE, reldyn |-> FALSE,
         relandroid |-> 0]

(***************************************************************************)
(* Headers.  An image's ehdr is a record of the fields the check reads;   *)
(* its phdrs the sequence of its program headers, [p_type, p_offset].     *)
(* Every image has a PT_LOAD: a mapped object always has one (without it, *)
(* line 770 dereferences NULL).                                           *)
(***************************************************************************)

\* Mutant: the search keeps going past a match (the last one wins).
FirstSegmentByTypeLast(phdrs, type) == SelectLastInSeq(phdrs, LAMBDA ph : ph.p_type = type)

\* xh_elf_get_first_segment_by_type (lines 299-311): index of the first
\* program header of that type, 0 (NULL) if there is none.
FirstSegmentByType(phdrs, type) == SelectInSeq(phdrs, LAMBDA ph : ph.p_type = type)

\* Mutant: the e_version test left out.
ElfHeaderOkNoVersion(h) ==
  /\ h.magic
  /\ h.class = HostClass
  /\ h.data = "LSB"
  /\ h.ei_version = "CURRENT"
  /\ h.type \in {"EXEC", "DYN"}
  /\ HostArch # "OTHER" /\ h.machine = HostArch

\* xh_elf_check_elfheader (lines 233-270): every test returns FORMAT, so
\* the chain of early returns is the conjunction of its tests.
ElfHeaderOk(h) ==
  /\ h.magic
  /\ h.class = HostClass
  /\ h.data = "LSB"
  /\ h.ei_version = "CURRENT"
  /\ h.type \in {"EXEC", "DYN"}
  /\ HostArch # "OTHER" /\ h.machine = HostArch
  /\ h.version = "CURRENT"

(***************************************************************************)
(* One turn of the dynamic-section loop (lines 796-854).                   *)
(***************************************************************************)

\* Mutant: DT_GNU_HASH without setting is_use_gnu_hash.
DynEntryNoGnuFlag(v, tag) ==
  CASE tag = "STRTAB" -> [v EXCEPT !.strtab = TRUE]
    [] tag = "SYMTAB" -> [v EXCEPT !.symtab = TRUE]
    [] tag = "PLTREL_RELA" -> [v EXCEPT !.rela = TRUE]
    [] tag = "PLTREL_REL" -> [v EXCEPT !.rela = FALSE]
    [] tag = "JMPREL" -> [v EXCEPT !.relplt = TRUE]
    [] tag \in {"REL", "RELA"} -> [v EXCEPT !.reldyn = TRUE]
    [] tag \in {"ANDROID_REL", "ANDROID_RELA"} -> [v EXCEPT !.relandroid = AndroidAddr]
    [] tag = "HASH" -> [v EXCEPT !.bucket = "ELF", !.chain = "ELF"]
    [] tag = "GNU_HASH" -> [v EXCEPT !.bloom = TRUE, !.bucket = "GNU",
                                     !.chain = "GNU"]
    [] OTHER -> v

DynEntry(v, tag) ==
  CASE tag = "STRTAB" -> [v EXCEPT !.strtab = TRUE]
    [] tag = "SYMTAB" -> [v EXCEPT !.symtab = TRUE]
    [] tag = "PLTREL_RELA" -> [v EXCEPT !.rela = TRUE]
    [] tag = "PLTREL_REL" -> [v EXCEPT !.rela = FALSE]
    [] tag = "JMPREL" -> [v EXCEPT !.relplt = TRUE]
    [] tag \in {"REL", "RELA"} -> [v EXCEPT !.reldyn = TRUE]
    [] tag \in {"ANDROID_REL", "ANDROID_RELA"} -> [v EXCEPT !.relandroid = AndroidAddr]
    [] tag = "HASH" -> [v EXCEPT !.bucket = "ELF", !.chain = "ELF"]
    [] tag = "GNU_HASH" -> [v EXCEPT !.bloom = TRUE, !.bucket = "GNU",
                                     !.chain = "GNU", !.gnu = TRUE]
    [] OTHER -> v

\* The whole loop over the dynamic entries, in their order in the image.
ParseDynamic(v, dyn) == FoldLeft(DynEntry, v, dyn)

\* Mutant: the bias_addr test left out.
ElfCheckOkNoBias(v) ==
  /\ v.pathname # NULL
  /\ v.base /\ v.ehdr /\ v.phdr
  /\ v.strtab /\ v.symtab
  /\ v.bucket # "none" /\ v.chain # "none"
  /\ v.gnu => v.bloom

\* xh_elf_check (lines 489-543): 0 iff every field the engine needs is set.
ElfCheckOk(v) ==
  /\ v.pathname # NULL
  /\ v.base /\ v.biasNonZero /\ v.ehdr /\ v.phdr
  /\ v.strtab /\ v.symtab
  /\ v.bucket # "none" /\ v.chain # "none"
  /\ v.gnu => v.bloom

(***************************************************************************)
(* Actions                                                                 *)
(***************************************************************************)

\* The APS2 magic test of lines 859-871 fails.
AndroidMagicBad(v) == v.relandroid # 0 /\ ~image.androidMagicOk

\* Mutant: the pointer advanced past the magic even when there is no region.
StripMagicUnguarded(v) == [v EXCEPT !.relandroid = @ + 4]

\* Lines 872-873: skip the magic.
StripMagic(v) == IF v.relandroid # 0 THEN [v EXCEPT !.relandroid = @ + 4] ELSE v

Done(r) ==
  /\ ret' = r
  /\ calls' = calls + 1
  /\ last' = "init"
  /\ UNCHANGED image

(***************************************************************************)
(* xh_elf_init(self, base_addr, pathname) (lines 755-894), with its early  *)
(* returns in the order of the code.                                       *)
(***************************************************************************)
ElfInit(pathname) ==
  LET lhdr == image.phdrs[FirstSegmentByType(image.phdrs, "LOAD")]
      hasDynamic == FirstSegmentByType(image.phdrs, "DYNAMIC") # 0
      v1 == [view EXCEPT !.base = TRUE, !.ehdr = TRUE, !.phdr = TRUE]
      v2 == [v1 EXCEPT !.biasNonZero = ~image.biasZero]
      v3 == [ParseDynamic(v2, image.dyn) EXCEPT !.pathname = pathname]
      v4 == StripMagic(v3)
  IN
  /\ calls < MaxCalls
  /\ \/ /\ view.pathname # NULL
        /\ UNCHANGED view /\ Done("OK")
     \/ /\ view.pathname = NULL /\ pathname = NULL
        /\ UNCHANGED view /\ Done("INVAL")
     \* first PT_LOAD with a non-zero offset (lines 766-775)
     \/ /\ view.pathname = NULL /\ pathname # NULL
        /\ lhdr.p_offset # 0
        /\ view' = v1 /\ Done("FORMAT")
     \* no PT_DYNAMIC (lines 781-786)
     \/ /\ view.pathname = NULL /\ pathname # NULL
        /\ lhdr.p_offset = 0 /\ ~hasDynamic
        /\ view' = v2 /\ Done("FORMAT")
     \* the android region lacks the APS2 magic (lines 859-871)
     \/ /\ view.pathname = NULL /\ pathname # NULL
        /\ lhdr.p_offset = 0 /\ hasDynamic
        /\ AndroidMagicBad(v3)
        /\ view' = v3 /\ Done("FORMAT")
     \* xh_elf_check fails: the view is zeroed (lines 877-882)
     \/ /\ view.pathname = NULL /\ pathname # NULL
        /\ lhdr.p_offset = 0 /\ hasDynamic
        /\ ~AndroidMagicBad(v3)
        /\ ~ElfCheckOk(v4)
        /\ view' = Zero /\ Done("FORMAT")
     \/ /\ view.pathname = NULL /\ pathname # NULL
        /\ lhdr.p_offset = 0 /\ hasDynamic
        /\ ~AndroidMagicBad(v3)
        /\ ElfCheckOk(v4)
        /\ view' = v4 /\ Done("OK")

\* xh_elf_reset (lines 896-899)
ElfReset ==
  /\ calls < MaxCalls
  /\ view' = Zero
  /\ ret' = ret
  /\ calls' = calls + 1
  /\ last' = "reset"
  /\ UNCHANGED image

\* xh_elf_check_elfheader(base_addr): reads the header, changes no view.
CheckElfHeader ==
  /\ calls < MaxCalls
  /\ ret' = IF ElfHeaderOk(image.ehdr) THEN "OK" ELSE "FORMAT"
  /\ calls' = calls + 1
  /\ last' = "check"
  /\ UNCHANGED <<image, view>>

Init ==
  /\ image \in Images
  /\ view = Zero
  /\ ret = "OK"
  /\ calls = 0
  /\ last = "none"

Next ==
  \/ \E p \in {NULL, Path} : ElfInit(p)
  \/ ElfReset
  \/ CheckElfHeader
  \/ calls = MaxCalls /\ UNCHANGED vars

Spec == Init /\ [][Next]_vars

(***************************************************************************)
(* Properties                                                              *)
(***************************************************************************)

TypeOK ==
  /\ view \in [pathname : {NULL, Path}, base : BOOLEAN, ehdr : BOOLEAN,
               phdr : BOOLEAN, biasNonZero : BOOLEAN, strtab : BOOLEAN,
               symtab : BOOLEAN, bucket : {"none", "ELF", "GNU"},
               chain : {"none", "ELF", "GNU"}, bloom : BOOLEAN, gnu : BOOLEAN,
               rela : BOOLEAN, relplt : BOOLEAN, reldyn : BOOLEAN,
               relandroid : {0, AndroidAddr, AndroidAddr + 4}]
  /\ ret \in {"OK", "INVAL", "FORMAT"}
  /\ calls \in 0..MaxCalls
  /\ last \in {"none", "init", "reset", "check"}

\* Spec 4.4 step 1: the headers of an object built for the host (which is
\* an ARM or AArch64 build).
ValidHeader(h) ==
  h \in [magic : {TRUE}, class : {HostClass}, data : {"LSB"},
         ei_version : {"CURRENT"}, version : {"CURRENT"},
         type : {"EXEC", "DYN"}, machine : {HostArch} \ {"OTHER"}]

\* What spec 4.4 steps 2-6 require of an image for init to succeed.
Parsable(img) ==
  LET tags == ToSet(img.dyn)
      isLoad(i) == img.phdrs[i].p_type = "LOAD"
  IN
  /\ \E i \in DOMAIN img.phdrs :
       isLoad(i) /\ img.phdrs[i].p_offset = 0 /\ \A j \in 1..(i - 1) : ~isLoad(j)
  /\ \E i \in DOMAIN img.phdrs : img.phdrs[i].p_type = "DYNAMIC"
  /\ ~img.biasZero
  /\ {"STRTAB", "SYMTAB"} \subseteq tags
  /\ tags \cap {"HASH", "GNU_HASH"} # {}
  /\ tags \cap {"ANDROID_REL", "ANDROID_RELA"} # {} => img.androidMagicOk

\* A call of xh_elf_init that parses the image: the view was not
\* initialised and the pathname is not NULL.
ParsesImage == last' = "init" /\ view.pathname = NULL /\ ret' # "INVAL"

(* The two calls that inspect an image answer as spec 4.4 says.           *)
(* xh_elf_check_elfheader returns 0 iff the header is that of an object    *)
(* for the host (step 1), and FORMAT otherwise.  Every xh_elf_init call   *)
(* that parses the image returns 0 iff the image has its first PT_LOAD at *)
(* offset 0, a PT_DYNAMIC, a non-zero load bias, string and symbol        *)
(* tables, a hash table and, if it has an android relocation region, the  *)
(* APS2 magic (steps 2-6); otherwise it returns FORMAT.  (xh_elf_init     *)
(* itself does not run step 1; its callers call the header check first.)  *)
InitAcceptsParsable ==
  [][/\ last' = "check" => (ret' = "OK" <=> ValidHeader(image.ehdr))
     /\ ParsesImage => (ret' = "OK" <=> Parsable(image))]_vars

(* An initialised view looks symbols up with the tables it points to:      *)
(* is_use_gnu_hash holds iff bucket and chain are those of DT_GNU_HASH, so *)
(* xh_elf_find_symidx_by_name walks a chain of the table it chose.         *)
HashTablesConsistent ==
  view.pathname # NULL /\ ret = "OK" =>
    /\ view.bucket = view.chain
    /\ view.gnu <=> view.bucket = "GNU"

(* Spec 4.4 step 6 and scenario 6: an init that fails leaves the view not *)
(* initialised (pathname NULL), so xh_elf_hook refuses it with ELFINIT and *)
(* a later xh_elf_init parses the image again.                             *)
FailedInitNotInited ==
  ret = "FORMAT" => view.pathname = NULL
=============================================================================
