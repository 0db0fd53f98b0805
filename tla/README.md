# TLA+ models of xHook's ELF core (`src/libxhook/jni/xh_elf.c`)

xHook hooks calls in a loaded ELF shared object. It does this by rewriting
the GOT slots that the object's relocations bind to a symbol. All of it is in
one C file:

| part | code | what it does |
|---|---|---|
| plain relocation iterator | lines 48-70 | walks `.rel(a).plt` and `.rel(a).dyn` record by record |
| SLEB128 decoder | 72-110 | reads the numbers of an Android packed relocation stream |
| packed (APS2) iterator | 112-231 | decodes `.rel(a).android` groups into REL/RELA records |
| ELF header check | 234-270 | `xh_elf_check_elfheader`, a standalone validator |
| hash functions, symbol lookup | 272-403 | ELF and GNU hash, `xh_elf_find_symidx_by_name` |
| mem access, cache flush | 405-448 | p_flags of the enclosing PT_LOAD, `mprotect`, ARM cacheflush |
| slot replacement | 450-487 | `xh_elf_replace_function` |
| view check | 489-543 | `xh_elf_check`, the post-conditions of init |
| debug dump | 545-752 | compiled out (`XH_ELF_DEBUG` is 0) |
| view init / reset | 755-899 | `xh_elf_init` parses program headers and `.dynamic`; `xh_elf_reset` |
| hook engine | 901-1011 | `xh_elf_hook`, `xh_elf_find_and_replace_func` |

The parts interact as follows. `xh_elf_init` builds the view (`xh_elf_t`).
`xh_elf_hook` then looks up the symbol's index with the hash tables that
the view selects. It walks the PLT, DYN and ANDROID regions with the plain
and packed iterators. For each matching record it calls
`xh_elf_replace_function`, which makes the page writable, reports the old
value through `old_func` and stores the new one. The core itself does no
locking, and the caller (`xh_core`) is not part of this repository.

## Modules

- **XhElfHook**: the hook engine.
  - State:
    - `got`: slot contents.
    - `prot`: page protections.
    - `pc` and `cur`: the region being walked and the iterator position.
    - `call`: the current call.
    - `outOld`: the caller's `old_func`.
    - `status`.
    - Ghosts that record the last two calls.
  - Actions:
    - `Call` is the entry checks and the symbol lookup.
    - `PltStep`, `DynStep` and `AndroidStep` are each one turn of the loop for their region. A turn runs `FindAndReplace` as a whole: the match test, the already-replaced test, `get_mem_access` (`GetMemAccess`, `NoMemAccess`), `mprotect` (`HookProt`, which may fail) and the store.
    - Every early return is a disjunct.
  - Abstractions:
    - `PlainAt` models the plain iterator's cursor exactly, so the record just past a table is part of the image (`pltNext`, `dynNext`).
    - Symbol lookup is abstracted to a map from name to symidx.
    - The packed region is given as the records its iterator yields.
- **XhElfPackedIter**: the packed iterator, driven the way the ANDROID loop of
  `xh_elf_hook` drives it.
  - The stream is the sequence of decoded `size_t` values, and arithmetic is modulo `2^W`.
  - The iterator's fields are a record.
  - `IterInit` is the init. Its error return is ignored, as at line 1001.
  - `PackedNext` is one `next()` call, with `ReadGroupFields` and `Entry` as its parts. Its four disjuncts are: at end; group header read fails; entry read fails; yield.
- **RelocStream**: the abstract iterator contract. It yields the region's records in order, then ends.
  XhElfPackedIter refines it (`INSTANCE RelocStream WITH records <- region.records, out <- yielded, ended <- phase = "done"`).
- **Aps2Encoding**: a reference encoder for the packed format of spec 4.3.
  - `Groups` (RECURSIVE) encodes groups into the value stream and states which records a correct reader yields.
  - `Splits` and `Groupings` enumerate every grouping and flags word.
  - It is the property side of the packed runs and models no code of the repository.
- **XhElfInit**: `xh_elf_init`, `xh_elf_check`, `xh_elf_reset` and `xh_elf_check_elfheader`.
  - An image is its ELF header (the fields the check reads), its program headers (`p_type`, `p_offset`), whether the load bias is zero, whether the APS2 magic is present, and its dynamic tags in order.
  - `FirstSegmentByType` is `xh_elf_get_first_segment_by_type`: the first program header of a type, or 0 for NULL.
  - `CheckElfHeader` is a call of the header check. `ElfHeaderOk` is its chain of early returns, and the call changes no view. The build macros are the constants `HostClass` and `HostArch`.
  - The view is a record. Its pointers are reduced to "set or not". For the hash tables it records *which* table they point into, and `relandroid` is kept as an address (0, the region, or 4 past it).
  - `ParseDynamic` folds `DynEntry`, one case of the switch, over the image's dynamic tags in their order.
  - `ElfInit` has one disjunct per return of the function, in code order.
- **Sleb128**: `xh_elf_sleb128_decoder_init` and `_next`, byte by byte.
  - `size_t` is `W` bits, and `value`, `shift` and `cur` are the locals and the decoder's cursor.
  - `Step` is one turn of the do-while loop. Its first disjunct is the FORMAT return at the end of the range. After the last byte, the same step runs the sign extension (`Finish`) and stores `*ret`.
  - A shift by `W` or more (line 99) is undefined in C. `ShiftedAll` gives the two results the builds compute: the shift taken modulo the width (AArch64) and 0 (ARM register shifts).
- **XhElfSymLookup**: the hash functions and the lookups of lines 272-403.
  - `ElfHash` and `GnuHash` are the byte loops, as a `FoldLeft` of one step per byte. A GNU hash is a `uint32_t` kept as two 16-bit halves, and `U32Mod`, `U32DivMod` and `U32ShrMod` are the `%`, `/` and `>>` the code applies to it.
  - A view is the symbol names by index and the bucket, chain and bloom arrays. A bloom word is the set of its 1 bits.
  - `Start` is `xh_elf_find_symidx_by_name` with the code before each loop: the bloom test and the empty-bucket test of `_lookup_def`.
  - `ElfStep`, `GnuDefStep` and `GnuUndefStep` are each one turn of a lookup loop. A failed def lookup goes on to the undef scan, as `xh_elf_gnu_hash_lookup` does.
- **MCXhElfHook**, **MCXhElfPackedIter**, **MCXhElfInit**, **MCSleb128** and **MCXhElfSymLookup** instantiate the modules with images, regions, byte strings and symbol tables.
  - MCSleb128 has its own reference SLEB128 encoder (`Enc`).
  - MCXhElfSymLookup lays the tables out the way the static linker does. It uses the published ELF and GNU hash values of the names, not the model's hash functions, so the run checks the hash functions too.

## Runs

| run | expect | shows |
|---|---|---|
| hook_main | pass | Covers 3 calls on GNU ld, lld+APS2 and malformed images. Slots are stored only on writable pages (`WriteOnlyWhenWritable`). A call never reports its own new function as old (`OldFuncNeverNew`). In every intermediate state, and after a call that failed half-way, each slot holds its value from before the call or new_func, and only slots named by a relocation of the hooked symbol change (`SlotsOldOrNew`). Hooking back with the reported old function restores every slot (`RoundTrip`). |
| hook_complete | violation | `HookComplete`: the plain iterator skips the first record and reads one past the table (line 68). |
| hook_rehook | violation | `RehookReportsNew`: a repeated hook does not write `old_func` (line 457, spec scenario 5). |
| packed_main | pass | `ImplementsRelocStream`, for every grouping and flags word of three record lists, in both REL and RELA. |
| packed_torn | pass | `YieldsEncoded` on truncated streams and rejected REL regions: the iterator may stop early but never yields a wrong record. |
| packed_reladdend | violation | `YieldsEncoded`: REL with per-entry addends is not rejected and desynchronises (line 207). |
| packed_trunc | violation | `ImplementsRelocStream`: an underrun looks like the end of the region, and the hook returns 0 (lines 200 and 1002). |
| init_main | pass | `InitAcceptsParsable`: the header check accepts exactly the headers of an AArch64 object (spec 4.4 step 1), and init succeeds exactly on parsable images (steps 2-6). `HashTablesConsistent`: `is_use_gnu_hash` matches the tables. |
| init_badmagic | violation | `FailedInitNotInited`: a bad APS2 magic returns FORMAT with `pathname` already set (line 857). |
| init_hashorder | violation | `HashTablesConsistent`: DT_GNU_HASH before DT_HASH mixes the tables (line 840). |
| sleb_main | pass | `DecodesEncoded`: the decoder returns the value of every minimal encoding (spec 8: `0x7F` is -1, `0x80 0x01` is 128), and FORMAT exactly when the range ends inside a number. |
| symlookup_main | pass | `LookupCorrect`: both lookups return the index a correct resolver returns, for defined names, imported names and a missing one. `LookupReturns`: every lookup returns. |

Each property of a passing run has a mutant in `PROJECT.json`: a plausible bug
in the mapped code that makes TLC report it violated.

## Bounds and why they suffice

- **Hook runs.**
  - The model has five slots on three pages: RW `.got.plt`, a RELRO `.got`, and one slot outside every PT_LOAD.
  - There are two symbols plus one that is missing, four function values, and three calls.
  - Three calls are enough for hook, hook back, and a repeated hook.
  - The images put a symbol's relocation first in its table and give it two GOT slots in DYN/ANDROID, which is where the iterator and old_func behaviours differ.
- **Packed runs.**
  - `W = 3`, so offset and addend deltas wrap.
  - The record lists have constant strides, decreasing offsets and changing addends and infos.
  - Every split into groups, with all 16 flags words, covers every branch of `read_group_fields` and `next`.
- **Init runs.**
  - Three program-header tables: the usual one, one whose first PT_LOAD has a non-zero offset while a later one is at 0, and one without PT_DYNAMIC.
  - Each is combined with both values of the load-bias and APS2-magic facts, over five dynamic sections.
  - The header check sees a valid AArch64 header and eight headers that each differ from it in one field, so every early return of the check is taken.
  - Four calls are enough for a failed init, a retry, a reset and a re-init.
- **SLEB128 run.**
  - `W = 8`, which covers every signed 8-bit value, one- and two-byte encodings, wrap-around of the shifted payload, and sign extension both taken and skipped.
  - Minimal encodings never shift by `W` or more. With `Inputs <- Overlong` (numbers padded past `W/7` bytes), TLC reports `DecodesEncoded` violated under the shift-modulo-width outcome: `<<129, 255, 127>>` decodes to 193, not 129. Toolchains do not pad that far, so no run keeps that case.
- **Symbol lookup run.**
  - Four names may be present (`malloc`, `free`, `syscall`, `flapenguin.me`), and `exit` is missing. The last two are long enough for the ELF hash to fold its top nibble.
  - Every split of the four into imported and defined symbols is checked, with 1-3 buckets. GNU tables also take 1 or 2 bloom words and bloom shifts 6 and 26, with 64-bit words.
  - That covers empty buckets, chains of several symbols, bloom rejections, and lookups that fall back to the undef scan.

## Fairness

Two loops have a liveness obligation.
- The packed walk ends. `xh_elf_hook` calls `next()` in a loop with nothing else to wait for, which is weak fairness of `IterInit \/ PackedNext`.
- XhElfHook assumes no fairness and checks no liveness. Its three loops walk finite record sequences one record per step, so a started call ends by the shape of the model. The real termination risks lie in the packed stream (a forged count or a `group_size` of 0, listed under "Not modelled").
- A symbol lookup returns. The lookup runs to its end on the caller's thread, which is weak fairness of its steps.

The hook, init and SLEB128 runs check safety only.

## Not modelled, and why

- A forged `relocation_count` or a `group_size` of 0 (lines 187-189). With them `next()` yields records without reading the stream, bounded only by the count. The regions come from the reference encoder, and a mutant without that bound would have no finite state space.
- XhElfHook still abstracts the lookup to a map from name to symidx. XhElfSymLookup checks separately that the lookup computes that map.
- The empty name resolves to symidx 0 (STN_UNDEF) in a GNU-hashed view, because the undef scan starts at index 0, but to NOTFND in a classic one. This is listed as a hazard in `PROJECT.json` and is not a run.
- Without DT_PLTREL, `is_use_rela` stays 0 whatever DT_RELA says (line 806). The code follows spec 4.4 here, and this is listed as a hazard.
- `xh_elf_init` does not call the header check, although spec 4.4 lists it as step 1. Its callers (outside this repository) call it first, and `InitAcceptsParsable` states the two separately.
- An image without a PT_LOAD makes init dereference NULL (line 770). A mapped object always has a PT_LOAD, so the model's images all have one.
- `xh_elf_clear_cache` (lines 440-448) changes no state the model has. On 32-bit ARM it flushes the caches of the page, and on AArch64 it does nothing.
- The debug dump only logs and is compiled out.
- Other threads are not processes of the model. What they can observe is checked as an invariant over every intermediate state of a hook (`SlotsOldOrNew`): spec 5 promises only that each slot store is tear-free, and no cross-slot atomicity. The caller's locking (`xh_core`) is not in the repository.

Everything else in `xh_elf.c` that changes state is an action of a module. What is left above is either outside TLC's reach with a finite model, below the abstraction of bytes into values, or code that changes no modelled state.
