------------------------------ MODULE XhElfHook ------------------------------
(***************************************************************************)
(* The hook engine of src/libxhook/jni/xh_elf.c: xh_elf_hook walks the     *)
(* .rel(a).plt, .rel(a).dyn and .rel(a).android relocations of an          *)
(* initialised view, and xh_elf_find_and_replace_func /                    *)
(* xh_elf_replace_function rewrite every GOT slot whose relocation names   *)
(* the hooked symbol.                                                      *)
(*                                                                         *)
(* One step of the model is one record returned by a relocation iterator,  *)
(* handled by xh_elf_find_and_replace_func as a whole: the slot store is a *)
(* single aligned word store, so other threads of the process see either   *)
(* the old or the new value of a slot, and see the slots change one by    *)
(* one.  The view is immutable during hooks; symbol lookup                 *)
(* (xh_elf_find_symidx_by_name) is abstracted to its result per name, and  *)
(* the packed (APS2) region to the records its iterator yields (both are   *)
(* modelled in their own modules).                                         *)
(***************************************************************************)
EXTENDS Integers, Sequences, FiniteSets

CONSTANTS
  Slots,       \* GOT slots, i.e. the addresses bias_addr + r_offset
  Pages,       \* pages holding those slots
  PageOf,      \* [Slots -> Pages]: PAGE_START of a slot
  SegFlagsOf,  \* [Slots -> (SUBSET PFFlags) \cup {NoSeg}]: p_flags of the
               \* first PT_LOAD whose page-rounded range holds the slot
  Funcs,       \* function addresses a slot may hold or a caller install
  Names,       \* symbol names callers ask for
  Images,      \* the views (with their mapped image) a run may start from
  NoSeg,       \* get_mem_access finds no PT_LOAD holding the slot
  NotFound,    \* xh_elf_find_symidx_by_name fails
  NoValue,     \* the caller's old_func before the call writes it
  NULL,        \* a NULL new_func
  MaxCalls     \* bound on the number of xh_elf_hook calls

\* Segment flags (p_flags) and page protections (mprotect's prot).
PFFlags == {"PF_R", "PF_W", "PF_X"}
ProtFlags == {"PROT_READ", "PROT_WRITE", "PROT_EXEC"}

\* PF_TO_PROT (lines 44-46)
PF_TO_PROT(v) == { CASE f = "PF_R" -> "PROT_READ"
                     [] f = "PF_W" -> "PROT_WRITE"
                     [] f = "PF_X" -> "PROT_EXEC" : f \in v }

\* R_GENERIC_JUMP_SLOT, R_GENERIC_GLOB_DAT, R_GENERIC_ABS (lines 23-31)
HookTypes == {"JUMP_SLOT", "GLOB_DAT", "ABS"}

Statuses == {"OK", "ELFINIT", "INVAL", "NOTFND", "UNKNOWN"}

ASSUME PageOf \in [Slots -> Pages]
ASSUME SegFlagsOf \in [Slots -> (SUBSET PFFlags) \cup {NoSeg}]
ASSUME NULL \notin Funcs /\ NoValue \notin Funcs
ASSUME MaxCalls \in Nat \ {0}

VARIABLES
  img,       \* the view and the image it describes (constant in a run)
  got,       \* [Slots -> Funcs]: contents of the GOT slots
  prot,      \* [Pages -> SUBSET ProtFlags]: current page protections
  pc,        \* "idle" or the region being walked: "plt", "dyn", "android"
  cur,       \* iterator position in the region being walked
  call,      \* the current call: name, new_func and resolved symidx
  outOld,    \* the caller's old_func variable
  status,    \* return value of the last finished call
  calls,     \* number of calls started
  pre,       \* ghost: got when the current call started
  lastCall,  \* ghost: summary of the last finished call
  prevCall   \* ghost: summary of the call before it

vars == <<img, got, prot, pc, cur, call, outOld, status, calls, pre,
          lastCall, prevCall>>

NoCall == [name |-> NoValue, new |-> NoValue, status |-> "OK",
           old |-> NoValue, pre |-> NoValue]

(***************************************************************************)
(* xh_elf_plain_reloc_iterator_next (lines 64-70) advances the cursor      *)
(* before it returns it: after the k-th call the cursor is k and the       *)
(* record returned is the one at 0-based index k, so the first record is   *)
(* never returned and the last call returns the memory just past the       *)
(* array (the image's pltNext / dynNext record).                           *)
(***************************************************************************)
PlainAt(region, next, k) == IF k + 1 <= Len(region) THEN region[k + 1] ELSE next

\* Mutant: the r_sym comparison dropped; every hookable record matches.
MatchesSymIgnored(rec) == rec.type \in HookTypes

\* The r_sym / r_type test of xh_elf_find_and_replace_func (lines 930-934).
Matches(rec) == rec.sym = call.symidx /\ rec.type \in HookTypes

\* xh_elf_get_mem_access (lines 405-428): the p_flags of the first PT_LOAD
\* whose page-rounded range holds the slot, or NoSeg (XH_ERRNO_NOTFND).
GetMemAccess(slot) == SegFlagsOf[slot]

\* get mem access fails (lines 459-464)
NoMemAccess(slot) == GetMemAccess(slot) = NoSeg

\* Mutant: the flags passed to mprotect without PF_TO_PROT.
HookProtRaw(slot) == (GetMemAccess(slot) \cup {"PF_W"}) \ {"PF_X"}

\* The protection xh_elf_set_mem_access (lines 430-433) installs: the
\* segment's p_flags with PF_W added and PF_X removed (lines 466-468),
\* through PF_TO_PROT.
HookProt(slot) == PF_TO_PROT((GetMemAccess(slot) \cup {"PF_W"}) \ {"PF_X"})

\* Return from xh_elf_hook with status st (every return of lines 949-1011).
Return(st) ==
  /\ pc' = "idle"
  /\ cur' = 0
  /\ status' = st
  /\ lastCall' = [name |-> call.name, new |-> call.new, status |-> st,
                  old |-> outOld', pre |-> pre]
  /\ prevCall' = lastCall

\* Mutant: the already-replaced test dropped.
AlreadyReplacedDropped(slot) == FALSE

\* already replaced? (line 457)
AlreadyReplaced(slot) == got[slot] = call.new

\* Mutant: old_func read after the store instead of before it.
ReplaceOldAfterStore(slot) ==
  /\ prot' = [prot EXCEPT ![PageOf[slot]] = HookProt(slot)]
  /\ outOld' = call.new
  /\ got' = [got EXCEPT ![slot] = call.new]

\* Mutant: the store done without the mprotect before it.
ReplaceNoMprotect(slot) ==
  /\ UNCHANGED prot
  /\ outOld' = got[slot]
  /\ got' = [got EXCEPT ![slot] = call.new]

\* Set the page writable, save the old func into *old_func, store the new
\* func; the cache flush changes no modelled state (lines 466-483).
Replace(slot) ==
  /\ prot' = [prot EXCEPT ![PageOf[slot]] = HookProt(slot)]
  /\ outOld' = got[slot]
  /\ got' = [got EXCEPT ![slot] = call.new]

(***************************************************************************)
(* xh_elf_find_and_replace_func with xh_elf_replace_function inlined       *)
(* (lines 901-947 and 450-487), for record rec.  Found and NotMatched are  *)
(* the caller's continuations: what xh_elf_hook does next when the record  *)
(* matched (found = 1) or did not.                                         *)
(***************************************************************************)
FindAndReplace(rec, Found, NotMatched) ==
  LET slot == rec.slot IN
  \/ /\ ~Matches(rec)
     /\ NotMatched
     /\ UNCHANGED <<got, prot, outOld, status, lastCall, prevCall>>
  \/ /\ Matches(rec)
     /\ AlreadyReplaced(slot)
     /\ Found
     /\ UNCHANGED <<got, prot, outOld, status, lastCall, prevCall>>
  \* xh_elf_get_mem_access fails (lines 460-464)
  \/ /\ Matches(rec)
     /\ ~AlreadyReplaced(slot)
     /\ NoMemAccess(slot)
     /\ UNCHANGED <<got, prot, outOld>>
     /\ Return("NOTFND")
  \* mprotect fails (lines 469-473)
  \/ /\ Matches(rec)
     /\ ~AlreadyReplaced(slot)
     /\ ~NoMemAccess(slot)
     /\ UNCHANGED <<got, prot, outOld>>
     /\ Return("UNKNOWN")
  \/ /\ Matches(rec)
     /\ ~AlreadyReplaced(slot)
     /\ ~NoMemAccess(slot)
     /\ Replace(slot)
     /\ Found
     /\ UNCHANGED <<status, lastCall, prevCall>>

(***************************************************************************)
(* Actions                                                                 *)
(***************************************************************************)

\* Entry of xh_elf_hook (lines 958-969): the checks and the symbol lookup.
Call(name, new) ==
  /\ pc = "idle"
  /\ calls < MaxCalls
  /\ calls' = calls + 1
  /\ outOld' = NoValue
  /\ pre' = got
  /\ call' = [name |-> name, new |-> new, symidx |-> img.symidx[name]]
  /\ UNCHANGED <<img, got, prot>>
  /\ \/ /\ ~img.inited
        /\ Return("ELFINIT")
     \/ /\ img.inited
        /\ new = NULL
        /\ Return("INVAL")
     \/ /\ img.inited
        /\ new # NULL
        /\ img.symidx[name] = NotFound
        /\ Return("NOTFND")
     \/ /\ img.inited
        /\ new # NULL
        /\ img.symidx[name] # NotFound
        /\ pc' = "plt"
        /\ cur' = 0
        /\ UNCHANGED <<status, lastCall, prevCall>>

\* One turn of the .rel(a).plt loop (lines 971-983): stop at the first match.
PltStep ==
  /\ pc = "plt"
  /\ UNCHANGED <<img, call, calls, pre>>
  /\ \/ /\ cur >= Len(img.plt)
        /\ pc' = "dyn" /\ cur' = 0
        /\ UNCHANGED <<got, prot, outOld, status, lastCall, prevCall>>
     \/ /\ cur < Len(img.plt)
        /\ FindAndReplace(PlainAt(img.plt, img.pltNext, cur + 1),
                          pc' = "dyn" /\ cur' = 0,
                          pc' = "plt" /\ cur' = cur + 1)

\* One turn of the .rel(a).dyn loop (lines 985-996): walk to the end.
DynStep ==
  /\ pc = "dyn"
  /\ UNCHANGED <<img, call, calls, pre>>
  /\ \/ /\ cur >= Len(img.dyn)
        /\ pc' = "android" /\ cur' = 0
        /\ UNCHANGED <<got, prot, outOld, status, lastCall, prevCall>>
     \/ /\ cur < Len(img.dyn)
        /\ LET step == pc' = "dyn" /\ cur' = cur + 1
           IN FindAndReplace(PlainAt(img.dyn, img.dynNext, cur + 1), step, step)

\* One turn of the .rel(a).android loop (lines 998-1011), over the records
\* the packed iterator yields; the end of that sequence (or an error of the
\* iterator, which also yields NULL) ends the call with 0.
AndroidStep ==
  /\ pc = "android"
  /\ UNCHANGED <<img, call, calls, pre>>
  /\ \/ /\ cur >= Len(img.android)
        /\ UNCHANGED <<got, prot, outOld>>
        /\ Return("OK")
     \/ /\ cur < Len(img.android)
        /\ LET step == pc' = "android" /\ cur' = cur + 1
           IN FindAndReplace(img.android[cur + 1], step, step)

\* The caller stops after MaxCalls calls; nothing else is left to do then.
Terminated == pc = "idle" /\ calls = MaxCalls

Init ==
  /\ img \in Images
  /\ got = img.got
  /\ prot = img.prot
  /\ pc = "idle"
  /\ cur = 0
  /\ call = [name |-> NoValue, new |-> NoValue, symidx |-> NotFound]
  /\ outOld = NoValue
  /\ status = "OK"
  /\ calls = 0
  /\ pre = got
  /\ lastCall = NoCall
  /\ prevCall = NoCall

Next ==
  \/ \E name \in Names, new \in Funcs \cup {NULL} : Call(name, new)
  \/ PltStep
  \/ DynStep
  \/ AndroidStep
  \/ Terminated /\ UNCHANGED vars

Spec == Init /\ [][Next]_vars

(***************************************************************************)
(* Properties                                                              *)
(***************************************************************************)

TypeOK ==
  /\ got \in [Slots -> Funcs]
  /\ prot \in [Pages -> SUBSET ProtFlags]
  /\ pc \in {"idle", "plt", "dyn", "android"}
  /\ cur \in Nat
  /\ outOld \in Funcs \cup {NoValue}
  /\ status \in Statuses
  /\ calls \in 0..MaxCalls

(* No GOT slot is ever stored to while its page is not writable: the store *)
(* of xh_elf_replace_function (line 480) is reached only after the mprotect*)
(* of lines 467-473 made the page writable; otherwise the process faults.  *)
WriteOnlyWhenWritable ==
  [][\A s \in Slots : got'[s] # got[s] => "PROT_WRITE" \in prot'[PageOf[s]]]_vars

(* A successful xh_elf_hook never reports old_func = new_func: a caller    *)
(* that chains to old_func from its hook would call itself forever.  The   *)
(* already-replaced test (line 457) is what keeps a second hook of the     *)
(* same function from reporting the hook as the original.                 *)
OldFuncNeverNew ==
  (pc = "idle" /\ status = "OK" /\ outOld # NoValue) => outOld # call.new

(* Round trip: hook(s, f) returning old, then hook(s, old), both successful,*)
(* restore every GOT slot to its content before the first call, provided   *)
(* all slots relocated against s held the same value then (as after the    *)
(* immediate binding of the Android linker).                               *)
SymSlots(idx) ==
  { r.slot : r \in { r \in
      {img.plt[i] : i \in DOMAIN img.plt} \cup {img.dyn[i] : i \in DOMAIN img.dyn}
      \cup {img.android[i] : i \in DOMAIN img.android} \cup {img.pltNext, img.dynNext} :
      r.sym = idx /\ r.type \in HookTypes } }

Uniform(g, name) ==
  \A s, t \in SymSlots(img.symidx[name]) : g[s] = g[t]

RoundTrip ==
  (/\ pc = "idle"
   /\ prevCall.status = "OK" /\ prevCall.old # NoValue
   /\ lastCall.status = "OK"
   /\ lastCall.name = prevCall.name /\ lastCall.new = prevCall.old
   /\ Uniform(prevCall.pre, prevCall.name))
  => got = prevCall.pre

(* What a thread calling through the GOT may find, during a call and after*)
(* it: since xh_elf_hook started, a slot changed only if a relocation of   *)
(* the hooked symbol names it, and only to new_func.  The slots are stored *)
(* one by one with single word stores (line 480), and a call that fails    *)
(* half-way (lines 939-943) leaves its earlier stores in place, so every   *)
(* slot holds either its value from before the call or new_func, never a   *)
(* function meant for another symbol's slots.                              *)
SlotsOldOrNew ==
  \A s \in Slots :
    got[s] # pre[s] => s \in SymSlots(call.symidx) /\ got[s] = call.new

(* Spec 4.5: after xh_elf_hook returns 0, the first matching PLT slot and  *)
(* every matching DYN and ANDROID slot hold new_func.                      *)
HookComplete ==
  LET FirstPlt == {i \in DOMAIN img.plt : Matches(img.plt[i]) /\
                     \A j \in 1..(i - 1) : ~Matches(img.plt[j])}
  IN (pc = "idle" /\ lastCall.status = "OK" /\ lastCall.name # NoValue
      /\ call.symidx # NotFound)
     => /\ \A i \in FirstPlt : got[img.plt[i].slot] = call.new
        /\ \A i \in DOMAIN img.dyn :
             Matches(img.dyn[i]) => got[img.dyn[i].slot] = call.new
        /\ \A i \in DOMAIN img.android :
             Matches(img.android[i]) => got[img.android[i].slot] = call.new

(* Spec 8, scenario 5: after hook(s, f) returned old1 # f, a second       *)
(* hook(s, f) returns 0 with old2 = f.                                     *)
RehookReportsNew ==
  (/\ pc = "idle"
   /\ prevCall.status = "OK" /\ prevCall.old # NoValue
   /\ lastCall.status = "OK"
   /\ lastCall.name = prevCall.name /\ lastCall.new = prevCall.new)
  => lastCall.old = lastCall.new
=============================================================================
