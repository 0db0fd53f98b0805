---------------------------- MODULE MCXhElfHook ----------------------------
(***************************************************************************)
(* Images for checking XhElfHook.  Symbols n1, n2 have symidx 1, 2; n3 is  *)
(* not in the symbol table.  Slots s1, s2 are in .got.plt (page p1, left   *)
(* RW by the linker); s3, s4 in .got (page p2, made read-only by RELRO);   *)
(* s5 lies outside every PT_LOAD.                                          *)
(***************************************************************************)
EXTENDS XhElfHook

MCSlots == {"s1", "s2", "s3", "s4", "s5"}
MCPages == {"p1", "p2", "p3"}
MCPageOf == [s \in MCSlots |-> CASE s \in {"s1", "s2"} -> "p1"
                                 [] s \in {"s3", "s4"} -> "p2"
                                 [] OTHER -> "p3"]
MCSegFlagsOf == [s \in MCSlots |-> IF s = "s5" THEN NoSeg ELSE {"PF_R", "PF_W"}]
MCFuncs == {"orig1", "orig2", "hook1", "hook2"}
MCNames == {"n1", "n2", "n3"}

Rec(sym, type, slot) == [sym |-> sym, type |-> type, slot |-> slot]

\* What lies just past .rel.plt (the .plt code): not a hookable relocation.
Junk == Rec(0, "NONE", "s1")

SymIdx == [n \in MCNames |-> CASE n = "n1" -> 1 [] n = "n2" -> 2
                                [] OTHER -> NotFound]

BindNow == [s \in MCSlots |-> IF s \in {"s1", "s4", "s5"} THEN "orig1" ELSE "orig2"]
Relro == [p \in MCPages |-> IF p = "p2" THEN {"PROT_READ"} ELSE {"PROT_READ", "PROT_WRITE"}]

PltA == << Rec(1, "JUMP_SLOT", "s1"), Rec(2, "JUMP_SLOT", "s2") >>

\* GNU ld layout: .rel.dyn is followed by .rel.plt.
ImageLd ==
  [inited |-> TRUE, symidx |-> SymIdx, got |-> BindNow, prot |-> Relro,
   plt |-> PltA, pltNext |-> Junk,
   dyn |-> << Rec(2, "GLOB_DAT", "s3"), Rec(1, "ABS", "s4") >>,
   dynNext |-> PltA[1],
   android |-> << >>]

\* lld with packed relocations: .rela.dyn is empty, the GOT relocations
\* are in the APS2 region.
ImageLld ==
  [inited |-> TRUE, symidx |-> SymIdx, got |-> BindNow, prot |-> Relro,
   plt |-> PltA, pltNext |-> Junk,
   dyn |-> << >>, dynNext |-> Junk,
   android |-> << Rec(2, "GLOB_DAT", "s3"), Rec(3, "RELATIVE", "s4"),
                  Rec(1, "ABS", "s4") >>]

\* A malformed image with a GLOB_DAT slot outside every PT_LOAD.
ImageBadSlot ==
  [ImageLd EXCEPT !.dyn = << Rec(2, "GLOB_DAT", "s3"), Rec(1, "GLOB_DAT", "s5"),
                             Rec(2, "ABS", "s4") >>]

\* A view xh_elf_init never initialised.
ImageNotInited == [ImageLd EXCEPT !.inited = FALSE]

MCImages == {ImageLd, ImageLld, ImageBadSlot, ImageNotInited}
=============================================================================
