# MiqOSoft: specifications, model checking and proofs

MiqOSoft is a 32-bit x86 hobby operating system: a two-stage boot loader that reads an ELF kernel from FAT12/16/32, and a
single-address-space kernel with interrupts, a keyboard driver, system calls over `int 0x80` (heap, virtual files, sleep), a
shell with a RAM file system and an editor. This directory holds TLA+ modules of its state machines, TLC configurations that
check them, and TLAPS proofs. Source lines below are those of `src/src/...` (`kernel/` and `bootloader/`).

## 1. Inventory

There is one CPU, one thread (`start()` in `kernel/main.c`, which ends in `while(1) shell_run()`), and two interrupt handlers,
the timer (IRQ 0) and the keyboard (IRQ 1). System calls enter through an interrupt gate, so their handlers run with
interrupts off, except `sys_handler_sleep`, which turns them on. The kernel is built without optimisation, so memory accesses
happen in program order.

| Component | State | Operations | Talks to | What is hard | What makes it correct |
|---|---|---|---|---|---|
| Heap (`syscall.c` 12-39, 131-181) | list of block headers laid over a 1 MB arena | malloc (first fit, split), free (mark, merge walk) | VFS, RAM FS, shell commands | long call sequences, split and merge boundaries | blocks tile the arena, no two free neighbours at rest, holders disjoint, headers outside data, first fit, calls end |
| VFS (`syscall.c` 41-129, 183-296) | `virtual_files`, `file_descriptors`, data buffers | open, close, read, write | heap, `memcpy` | half-failed opens and writes, growing buffers, truncation under an open descriptor, 16-bit `memcpy` | descriptors valid, buffers owned once, names unique, reads deliver what was written |
| Sleep and time (`syscall.c` 307-357, `time.c`) | `s_ticks`, the loop's target and iteration | tick, sleep | PIT, 8259 | 64-bit clock read in halves with interrupts on, dead timer | not early, ends, the clock is heard |
| Key ring (`keyboard.c` 101-110, 283-300, 470-474) | `key_buffer`, `kb_head`, `kb_tail` | push (interrupt), pop, empty, clear (shell) | decoder, shell | push between any two accesses of pop and clear, full ring | FIFO, slot being read not overwritten |
| Keyboard bring-up (`keyboard.c` 228-239, `irq.c`, `i8259.c`, `main.c` 256-278, `keytest`) | 8259 mask and its cached copy, handler table, i8042 output buffer | drain, register, unmask, dispatch, EOI, poll | hardware | interrupts are on during the bring-up; the cached mask is stale; `keytest` polls behind the handler | no byte stays for ever in the controller, the handler never waits |
| Scancode decoder (`keyboard.c` 120-174, 370-463) | modifier flags, `extended_key`, dead key | one run per byte | key ring | two-byte keys, shared flags, repeats, lag of handling behind the keys | no stuck modifier, prefix paired, each character of the column and case that was held |
| RAM file system and editor (`shell/shell_commands.c` 184-401, 747-876, 1002-1133) | table of slots with parent indices, current directory, buffers, edit buffer | mkdir, touch, rm, cd, cat, edit | heap | half-failed creation, names cut to 31 characters, buffer limits | a tree, buffers owned once, texts whole |
| Shell line editor and parser (`shell/shell.c`) | `command_buffer`, length, cursor, argv | insert, delete, move, enter, parse, search of the table | key ring, VGA, commands | buffer, length, cursor and screen after any key sequence; limits of words | the buffer is a text with a cursor, the screen shows it, words as typed |
| System call dispatch (`syscall.c` 368-437) | handler table, saved flags | gate, dispatch, register | all of the above | numbers without handlers, interrupts turned on inside a handler | handlers that do not turn interrupts on run whole; an interrupted flag comes back |
| Kernel messages (`main.c` 18-230) | 20 messages and an index | add, show, clear, stats | boot, shell | full buffer, two-digit counters | first messages kept, numbers right |
| 8259, IRQ, ISR, IDT, GDT (`arch/i686`) | tables, gates, mask cache | configure, probe, mask, dispatch, EOI, panic | CPU | boot order, stale mask, unregistered handlers, spurious requests | an interrupt finds its handler, an EOI retires the line handled, requests are served |
| VGA, stdio, string, debug | cursor, screen | putc, scroll, printf | all | scrolling, formatting edges | cursor inside the screen |
| Boot stage 1 (`bootloader/stage1/boot.asm`) | registers, table of extents, memory from segment 0x2000 | read the extents of stage 2 | BIOS | retries, a failing BIOS, extents that follow each other | stage 2 starts only if all of it is read |
| Boot stage 2 (`bootloader/stage2`) | FAT layout, cache, handles, disk geometry, memory map, loaded segments | open, read, close, load ELF, jump | BIOS disk | stale sector buffer, end of chain, retries, memory of the kernel before a reboot | bytes of the file in order, segments and cleared bytes in place, a boot ends |
| Core library, host FAT tool, demos and tests | - | - | - | - | not part of the running kernel's state, or callers only |

Interactions: the keyboard interrupt feeds the ring; the shell pops it; shell commands call the RAM file system and, through
`int 0x80`, the heap and the VFS; VFS and RAM FS keep their data in heap buffers; sleep waits for the timer interrupt. The boot
loader hands the kernel a memory map; `reboot` brings the machine back to stage 1 with the old kernel still in memory.

## 2. Plan

| Step | Modules | Status |
|---|---|---|
| 1 | `Allocator` (abstract), `Heap`, `HeapTexts`, `HeapProofs` | modelled, checked, proved |
| 2 | `FileStore` (abstract), `Vfs` over the allocator's contract, `VfsProofs` | modelled, checked, proved |
| 3 | `KeyQueue` (abstract), `KeyRing`, `KeyboardIrq`, `KeyboardProofs` | modelled, checked, proved |
| 4 | `KeyDecode`, `KeyDecodeProofs` | modelled, checked, proved |
| 5 | `Sleep`, `Interrupts` which implements it, `InterruptsProofs` | modelled, checked, proved |
| 6 | `DirTree` (abstract), `RamFs` over the allocator's contract, `RamViews`, `RamFsProofs` | modelled, checked, proved |
| 7 | `FileStream` (abstract), `Fat` with the layout from the boot sector, `FatProofs` | modelled, checked, proved |
| 8 | `LineEditor` (abstract), `Console`, `Dmesg`, `Shell` | modelled, checked, proved |
| 9 | `Boot` (stage 1, boot sequence, ELF loader), `System` composing `Boot` and `Shell`, `SystemProofs` | modelled, checked, proved |
| 10 | number formatting as pure functions; `Vfs` and `RamFs` over `Heap` itself | open |

No module uses recursive operators, so that theorems can be stated about each; what a loop computes is a recursive function where a proof needs it.

## 3. Modules and the code

**`Heap`** keeps `blk`, a function from the addresses of headers to `[size, is_free, next]`: the linked list in memory.
`Malloc`/`Free` are the entries of the handlers, `Take`, `Skip`, `OutOfMemory` and `MergeNext`, `MoveOn`, `MergeDone` the
iterations of their loops. `live` is a history of what callers hold. Requests are bounded so that rounding does not wrap
(`HeapAssumption`): every caller in the kernel asks for a constant, a file's capacity or a positive int.
**`Allocator`** is what its users rely on: regions handed out are disjoint parts of the arena. **`HeapTexts`** adds the two stores that users make
outside what they hold: the zero behind a text that fills its buffer, which is the low byte of the next header's size, and the free of a default
file's string literal.

**`Vfs`** has the tables of `syscall.c` and buffers with contents; a call is one step (interrupts are off). `memcpy` is
modelled with its 16-bit count (`CopyWord`), and the unsigned subtraction of `read` with its modulus (`Word`). Buffers are
identities from a pool whose exhaustion, like any failure of malloc, is a nondeterministic outcome. Growing a default file
passes a string literal to free, which is a step of `HeapTexts`. **`FileStore`** is the abstract store: names,
byte sequences, descriptors with positions.

One state of the tables is an error of the code that the model states and does not follow: an open with `OPEN_TRUNCATE` leaves other descriptors of the
file past its end, the count of the next read through one wraps (`syscall.c:122`), and `memcpy` takes 16 bits of it, up to 65535 bytes, into a
buffer of `count` bytes. If they fit, the caller gets bytes nothing is promised of (`Read`, `Beyond`); if they do not, memory behind
the caller's buffer is overwritten, `wild` is set and the behaviour ends (`ReadOverrun`). `DescriptorsValid` says that this is
the only way there; what the calls promise (`StoreSpec`) they promise until then.

**`KeyRing`** splits pop into test, load and store, and clear into its two stores; `Push` is the interrupt handler and may
come between any two of them. **`KeyQueue`** is a FIFO that may refuse a key only when full, or lose keys while being cleared.

**`KeyboardIrq`** has, on the kernel's side, the boot steps from `keyboard_init` to `i8259_Unmask(1)`, the interrupt handler in
steps and `cmd_keytest`; on the hardware's side (external) the i8042's one-byte output buffer, the 8259's latch, mask and
in-service bit for line 1, and a CPU that takes a deliverable request after at most the instruction under way.

**`KeyDecode`** has keys that go down, repeat and come up, the bytes they send, and the branches of `keyboard_handler`. Bytes
carry what the keyboard stood at when they were sent (`Now`: the keys down, whether keys of one flag had been mixed, caps lock), so that a
property can compare the character typed with the one that stood there then: `TypedAsHeld` asks for exactly that column and case, and
allows one without a modifier that is down only after a mix (an Alt released under AltGr, one Shift of two).

**`Sleep`** has the tick handler, a timer that may stop, the interrupt flag with its saved copy, and the loop of
`sys_handler_sleep` with the two loads of the clock. The safety check, tested by the code once in 100000 iterations, is a bound on
iterations. **`Interrupts`** uses its actions (`Clock`, `Timer`) and puts under them what a tick goes through: the gates and tables that
the boot fills in its order (`HAL_Initialize` to the first unmask), `i8259_Probe` and `i8259_Configure`, a request, its vector, `i686_ISR_Handler`,
`i686_IRQ_Handler`, EOI, iret. The 8259's request, mask and in-service registers and its spurious line 7 are external. System calls, `interrupt
enable/disable` and panics are steps of the shell's side. The composition implements `Sleep`.

**`RamFs`** has the table `g_ramfs`, with functions named as in the code where they exist; a command is one step, an editor
session one step per line. Names are model values, cut by `Stored` to what the field keeps. **`DirTree`** is the abstract tree
of paths; the refinement maps a slot to the names on its way to the root. `ramfs_create` compares a name as it was typed and stores it cut: in
`DirTree` an entry made under a long name stands under what is left of it, where the long name never finds it, and a second one may be made there.
While a directory has two entries of one name (`doubled`) nothing is promised; `UniqueNames` says that no other name can be there twice. **`RamViews`** adds the commands that show the file system (pwd,
ls, find, grep, wc, hexdump) as operators of its state, with the limits of the buffer a path is built in.

**`Fat`** has the handles with their sector buffers, the cached part of the FAT, and one action per iteration of the loops of
`FAT_FindFile` and `FAT_Read`. The volume is a constant record: the fields of its boot sector, sectors, table of clusters, directory entries with their chains; `LayoutOf` derives the
places and the FAT's type as `FAT_Initialize` and `FAT_Detect` do. `MkfsAssumption` says that a volume is what mkfs.fat and mcopy write (external):
the chain of an entry is linked in the table and ended, its sectors are there, and the paths that lead to a file are those whose names are found
one in the other. `WithinLimits` names where this reader fails on such a volume, each at its line (section 4). The entries of the
FAT lie at byte positions, so that the range of the cache, and a FAT12 entry that straddles its end, come out as in the code. A sector
read may fail (all three tries of `DISK_ReadSectors`), in runs where `Errors` says so and always beyond the volume. Names are converted
by the constant `ShortName`. `FAT_Open` ends a path's last name one byte too far (fat.c:481), so that a stale byte behind it joins the short name,
except where an extension of three letters ends the conversion before it: `PathsAssumption` asks for such names (`Ended`), as kernel.elf is, and
the runs have only such. Callers open a path through a directory only with a handle to spare, as `FAT_Open` goes on with a
null pointer otherwise. **`FileStream`** is the abstract reader: a path's text, and handles with positions.

**`Console`** and **`Dmesg`** are operators on the screen and the message table. **`Shell`** keeps `command_buffer`, `command_pos`, `cursor_position`,
a screen and the messages; one step is one character taken from the ring, with everything `shell_run` does about it: shifting the buffer, repainting
the row by column numbers, parsing, searching the table, running the command. Commands whose output does not depend on this state print lines.
Two histories say where the screen can be expected to show the line: `plain`, that the prompt began at the left edge and the line has fitted its row and
held no special character since, and `far`, that a character has been written two rows below the cursor's since the screen was last cleared. The second
is needed: the arrow to the right moves `g_ScreenX` without a limit (a line of special characters is longer than what is seen of it), `VGA_putc` then
stores behind the row, and such a character may still be there when the next prompt is written in that row: without `far` TLC finds it on a screen 4 wide with a buffer of 24.
**`LineEditor`** is the abstract text with a cursor.

**`Boot`** goes from the BIOS's jump to the boot sector to the jump into the kernel: the extents of stage 2 with retries, resets and the wait for
a key, the disk's parameters, the partition, the memory map, and `ELF_Read` step by step over the contract of the FAT reader. Memory keeps what the
session before left in it. Where the code goes on after a failure it does not look at, the model says nothing of what follows (stage `wild`) and stops.
**`System`** composes `Boot` and `Shell`: a boot ends in a shell, whose `reboot` boots again.

## 4. Runs

| Run | Question | Bounds, and why they are enough |
|---|---|---|
| `heap` | structure, first fit, termination, refinement of `Allocator`, and what stores behind a buffer and frees of literals do to them | arena 24 bytes, header 3, rounding 2, requests 0, 1, 4, 6, bytes of 2 bits (`Byte` 4): up to four blocks, splits that just succeed and just fail, merges of two and three, exhaustion; a request of 4 is a file's buffer, whose text's zero hits a used, a free and no header, and costs nothing, a part or all of a size |
| `vfs` | tables, buffers, positions under all error paths; refinement of `FileStore` | 2 slots, 2 descriptors, 2 buffers, chunk 2, positions to 3: exhaustion of each, growth across a chunk, truncation under an open descriptor, after which a wrapped count modulo 4 fits its buffer or ends the run (so deadlock is not checked); bytes written, bytes of a default file and bytes nobody wrote can be told apart |
| `vfs_64k` | what `memcpy`'s count does | the count's modulus scaled to 2 (finding) |
| `key_ring` | FIFO under interleaving | 4 slots (3 usable), 3 characters: full, empty, wrapped, clear in each of these |
| `key_irq` | the boot window, stale mask, liveness of the keyboard | 2 byte values, 2 bytes held by the keyboard |
| `key_ready` | what the boot log reports | as above (finding) |
| `key_decode` | modifiers, prefix, columns | 4 bytes of lag, 2 keys at a time out of ten: both shifts, AltGr, Alt, Caps, an arrow, the fake shift, a letter, a digit, an accent |
| `interrupts` | every interrupt handled by its handler and served; early, endless or deaf sleeps over the real path of a tick; refinement of `Sleep` | a clock of 6 ticks with a 2-bit low half, delays 0, 1, 4, 3 iterations: carries between the loads, giving up; lines 0, 1 and the spurious 7, one registered number and one without a handler, 2 requests of other lines than the timer's |
| `ramfs` | tree, buffers, names, refinement of `DirTree`, what the showing commands show | 4 slots, names `/`, `..`, `a` and one that is cut to `a`: three levels deep, a name twice; 2 buffers; a line of 3 with chunk 3 and texts to 6: a full buffer, growth, a line too many; names of one character with a path room of 5 and a caller's buffer of 4, so that the deepest path is cut; two spaces in a row, rows of 4 |
| `fat` | buffers, cache, end of searches, refinement of `FileStream` | three volumes (FAT12, FAT16, FAT32 with two sectors per cluster), sectors of 3 cells, cache of 2 sectors, 2 handles; a directory of two clusters, a file of three, a short one, an empty one, a missing one: the cache moves both ways, positions end inside and at the end of sectors and chains |
| `fat_errors` | what a failing disk does to a reader | as above (finding) |
| `system` | from power on through reboots: whole stage 2, whole kernel, a boot that ends; line, screen, words and messages; refinement of `LineEditor` | extents of 2 and 1 sectors in room for 4, 3 tries, 2 memory regions; three kernel files, one with a segment as large as the load buffer, buffer of 4 and memory of 10; a screen of 6 by 2, lines of 4 characters, 3 words, 2 messages of which the boot logs 3: wrapping, scrolling, full buffers, too many words, a full table |

`vfs`, `fat_errors` and `system` run without the deadlock check: a read may overrun its caller's buffer and a failing disk can leave `FAT_Open` with a
null pointer, where the models stop; a failed boot ends in `for(;;);` or `hlt`, and `exit` halts the machine.

**Properties.** Type conditions are conjuncts of a larger invariant where one exists: descriptors and positions in `DescriptorsValid`, the handler's
registers in `ReadsFresh`, released modifiers in `ModifiersAgree`, slots in `TreeRooted` and `BuffersOwned`, handles in `BufferCurrent`, the delivery of ticks in
`HandlersRunWhole`, the zero behind the line in `ScreenShowsLine`, printed numbers in `MessagesAreFirst`. `TypeOK` and `QueueOfKeys` of `KeyRing` are proved and not run again.

**Fairness.** `HeapTexts`: weak fairness of the loop iterations; the CPU runs a handler that has started, with interrupts off.
`KeyboardIrq`: the controller hands on a byte it has, the CPU takes interrupts and runs boot code; strong fairness of `keytest`'s
loop, since keys come slower than instructions. Nobody has to press a key. `Fat`: the CPU runs a call that has begun. `Interrupts`: the CPU runs;
devices raise no request they do not want to, and the timer may stop, so `SleepReturns` does not rest on ticks. `System`: the CPU runs a boot that has
begun; nobody has to press a key, neither in the shell nor where stage 1 waits for one. The other runs check safety and state no fairness.

**What the findings show.** (1) A `write` of 65536 bytes or a growing file of that size copies nothing, as `memcpy` cuts its
count to 16 bits (`vfs_64k`). (2) A key between the end of `keyboard_init`'s drain and the registration of the handler, while the boot log
says "Keyboard driver ready", leaves its byte in the controller and the keyboard dead (`key_ready`); `KeyboardAlive` and `BytesTaken` of `key_irq`
say that this window is the only way to lose it. (3) A read of the boot loader that ends with a sector hides the failure to read the next
one: it returns its full count, and the read after it delivers the old sector as data (`fat_errors`, whose property says nothing of handles that
had a short read, after which a caller gives up; `short` in `MCFatErrors` is that history).

More came up on the way and have no run of their own.

- *Time.* A tick between the two loads of the clock that carries into the high half can end a sleep early (syscall.c:321-323); `NotEarly`
  excepts exactly such a torn reading.
- *Keyboard.* `keytest` polls the controller behind the interrupt handler, which normally takes every byte first, ESC included
  (shell_commands.c:1295-1300). The dead keys announced by the comments of the keymap (keyboard.c:145, 158) have no rows in it. `interrupt disable`
  leaves the shell without a keyboard, so that nothing can turn interrupts on again.
- *RAM file system.* Names longer than 31 characters are compared before they are cut, and so can be created twice (shell_commands.c:257); `rm` and `cat`
never find them under the name they were given. A text of a multiple of 256 bytes
  has its terminating zero written behind its buffer, into the next header of the heap (shell_commands.c:352): `LostForGood` and
  `WholeUnlessLost` say that this costs less than 256 bytes of heap each time, which no later call gives back, and nothing worse. A path that fills its caller's buffer is
  not ended, and one that fits gets one zero too many (shell.c:76).
- *FAT.* `FAT_Close` does not bring the root directory's first sector back (fat.c:378), so that only entries before the end of that sector are found
  twice. The end marks of FAT32 are not recognised (fat.c:349), so that the search for a missing file does not end there; nor need it end when the
  disk fails. That a sector of the FAT could not be read is not noticed (fat.c:271), and the chain then goes on anywhere. A small FAT32 volume is taken for FAT12. The last name of a path has a stale byte behind it (fat.c:481). A FAT12 entry that begins in the last byte of the cache is read with a byte of something else
  (fat.c:280), and an empty file is opened by reading the sectors of cluster 0 (fat.c:239). The volumes of `fat` keep clear of these, as the image of
  the kernel does: TLC evaluates `WithinLimits` for them.
- *ELF loader.* The result of the header's check is not used, and its test of the magic is inverted (elf.c:43). A load buffer of 64 KB is copied
  by the 16-bit `memcpy` as 0 bytes: the kernel is then noticed as missing only if its entry lies in such a piece; `KernelWhole` excepts these segments.
- *Shell.* A line is redrawn by column numbers, so it is shown as it is only while it fits its row and the prompt began at the left edge; the
  fifteenth word holds the rest of the line (shell.c:308).
- *Messages.* The boot logs 22 messages into a table of 20, and the number 20 has no digit of its own in the two-digit print. `dmesg --test` reports
  success when its messages are dropped. The table of system calls is announced with 27 entries and has 12. The warning of a second
  start cannot be reached, since the counter lies in memory that each boot clears.

## 5. Proofs

Seven modules with theorems cover the components, `KeyboardProofs` two of them, and `SystemProofs` the composition. What they show holds for every value of the constants that
the assumptions of the modules allow. The assumptions, and why the code justifies them:

| Assumption | Says | Because |
|---|---|---|
| `HeapAssumption`, `HeapTextsAssumption` | a block fits the arena; sizes, rounding and a byte's values are positive; requests do not wrap when rounded | every caller asks for a constant, a file's capacity or a positive int (syscall.c 12-39, 131-181) |
| `RingAssumption` | a ring of at least two slots, NUL no character of a key | keyboard.c 101-105 |
| `IrqAssumption` | ESC is one of the bytes, an empty controller holds none | the i8042 |
| `InterruptsAssumption` | the 8259's lines are among 0 to 7, with the timer's 0, the keyboard's 1 and the spurious 7; registered calls have numbers | i8259.c, irq.c, syscall.c 368-437 |
| `DecodeAssumption` | no modifier and no arrow has a row in the keymap, every row types something, the prefix is no key's code and has no row | the tables of keyboard.c 120-174 |
| `VfsAssumption`, `LiteralAssumption` | the default files have different names and fit the table; positions and counts stay below the word; a string constant is no block of the heap | syscall.c 41-129, 183-296 |
| `FatAssumption`, `MkfsAssumption`, `PathsAssumption` | sectors, cache and handles have room, positions wrap at a multiple of a sector; volumes are what mkfs.fat and mcopy write; files asked for have an extension of three letters | fat.c 14-30 and 387-406, image/SConscript; the one path opened is that of kernel.elf |
| `RamFsAssumption`, `RamViewsAssumption` | a name that is cut stays as it is when cut again; lines of the editor have their line end; NULL is no buffer and no text; a path is asked for in a buffer no larger than `temp_path`, rows of a dump have bytes, a line end ends a word | shell_commands.c 184-228, 370-401, 920-1133, 1198-1291 |
| `BootAssumption`, `LayoutAssumption`, `LinkerAssumption` | the second stage ends below the boot sector that loads it (59 sectors at most; `image/SConscript`, which writes the extent, does not look); the load buffer is no larger than what 16 bits count; LOAD segments lie apart, above `MEMORY_KERNEL_ADDR`, and are no larger in the file than in memory | boot.asm 112-136, elf.c, memory.c, linker.ld |
| `ConsoleAssumption`, `DmesgAssumption`, `ShellAssumption` | screen, line and words have room; the zero is no character of a line; controls are different and none is a printable character; the prompt has no control and fits its row; the log of the boot is a sequence; `dmesg` and `clear` are two commands | vga_text.c 85-117, main.c 18-44, 239-316, shell.c 149-300 |

Three theorems have hypotheses of their own, which is where the code fails: `FilesAreStore` assumes `MaxSize < CopyWord` (otherwise `vfs_64k` shows
the bytes that are lost), and the two of `FatProofs` that the disk can
be read (otherwise `fat_errors` shows the sector that is delivered twice) and that volumes are within the limits of the reader (`LimitsAssumption` has
TLC find that those of `fat` are).

*Heap.* `IInv` is `TypeOK /\ Tiling /\ Ownership /\ Coalesced /\ Passed`. None of the parts is inductive alone. A merge makes a
block out of two, so its size is right only if the first ended where the second began (`Tiling`); a split must not touch another
holder's bytes, which needs each used block to have one holder (`Ownership`) and blocks not to overlap (`Tiling`); that the walk of
free leaves no pair of free neighbours needs to know that none lies behind `current` (in `Coalesced`), and that malloc fails only
when nothing fits needs that nothing behind `current` fits (`Passed`). One lemma per action shows that it keeps the conjunction, with
the split of malloc and the merge of free taken apart further. From it follow type correctness, tiling, coalescing, ownership,
headers outside data, the whole heap after everything is freed, first fit (an action property), disjoint holders, and the
refinement of `Allocator`: `Take` maps to its `Malloc`, `Free` to its `Free`, all else stutters.
Headers outside data and the whole heap after everything is freed follow from the others, so no run repeats them.

*Heap with texts* (the second half of `HeapProofs`). With sizes that are too small, `Tiling` and `Ownership` fail. `TInv` is `TypeOK /\ Apart /\
Held`: no block reaches beyond the next header, which is its successor in the list, and a region has a used block of its own and ends before the next
header, whatever the block's size says. Sizes only shrink by a text's zero (`ShrunkKeeps`), and a grant keeps regions apart (`GrantKeeps`). It follows
that the heap still implements `Allocator`: no byte is handed out twice. The two loops need the order of the list and not its sizes (`Walks`), so there
are still no free neighbours between calls, and malloc is still first fit.

What a text costs is counted as the bytes no block has (`Stray`). A split leaves the same bytes to two blocks (`SplitStray`); a merge takes over the
size of the second block, so it leaves as many bytes stray as before, but others: those between the two blocks become those behind their union
(`MergeStray`, by cutting the arena in disjoint parts, `PartsCount`); a text's zero takes less than 256 from one block (`EndTextStray`). So the number
never falls, and rises only by a text (`BytesAreLostForGood`). While it is zero each block ends where the next begins, and with `HasHolder`, that a used
block has a holder, tiling and ownership are back (`HeapWholeUnlessLost`).

*Key ring.* `IInv` is `TypeOK /\ SlotStable /\ QueueOfKeys /\ Cleared`. `Cleared` is the part no run needs to state: between the two
stores of `keyboard_clear_buffer` the handler can push, but it stops short of the old `kb_tail`, so that `kb_head` does not come
round before the tail is zero too. The index arithmetic rests on one lemma about remainders. From it follow the types, that
the slot pop reads is not overwritten, that only keys are queued, and the refinement of `KeyQueue`.

*Keyboard bring-up.* `KInv` adds to `ReadsFresh` and `KeyboardAlive` what they rest on: what the handler's place says of the 8259's in-service bit, that
a byte in the controller has its request unless the request has been taken for it, and that the only byte without one came between the drain loop and
the registration.

*Interrupt path.* `IInv` describes the frames on the stack: which kinds can lie on which (`Nesting`: an interrupt only over the shell, `start()` or a
sleep), what the flag is over each, that the 8259's in-service register is the line of the frame whose EOI is still to come, which tables each stage of
the boot has filled (`BootOrder`), and what the two loads of the clock have seen. Each delivery then finds its gate and handler, and each EOI
its line. The refinement of `Sleep` (`PathIsTimer`) maps a delivery of line 0 to the timer's tick, before its handler has counted it; handlers, EOIs,
spurious interrupts, other lines and calls stutter. `NeverEarly` follows from the invariant and not through the refinement.

*Files of the system calls.* `VInv` has the ownership of buffers, the descriptors and the names together: `open` for a new file may only hand out a
buffer nobody has, which needs every buffer in use to be in one file. The refinement of `FileStore` needs that names find their slots
(`OneName`) and follows the bytes through growth: a buffer's first `size` bytes are the file's contents, a copy to a larger one keeps
them, and a write changes those it covers.

*FAT.* `FInv` says of every open handle where its position is in its entry's chain: cluster, sector and buffer are those of the position (`At`), until the
data ends, where a file knows its size and a directory is marked. That a refill finds the next cluster needs the cache to hold a part of the FAT at its
position (`CacheRight`); a 12-bit entry that straddles the end of the cache is excepted. Callers' handles are files, as directories are closed when a
search leaves them (`OpenFiles`), and the root directory stays in its first sector and rests at its first cell (`RootIs`, `RootRests`). `SearchInv` follows a
search: each name has been found in the one before, the name looked for is in none of the cells read so far, so a search that ends without it was for
a path that leads nowhere. `ReadInv` follows a read: what was copied is the file from the position where it began. `BufferCurrent` follows at once. For
the refinement (`CallsAreStreams`) a handle's stream is that of its last read that returned: the steps inside a call stutter, `Found` on the last name and
`NotFound` are `Open`, `ReadReturn` is `Read`. The arithmetic is that of quotients and remainders: a position moves on within a sector, a sector within a
cluster (`GoOn`, `NextPlace`).

*RAM file system.* `RInv` has the tree, the buffers and the editor; `UniqueNames` is kept on top of it, as a new entry's name was looked up if it
was stored whole. That every entry hangs in the tree is stated without recursion, by sets of
slots: there is no set of entries closed under "parent" that leaves the root out. Making an entry cannot close such a set, as nothing hung in its
slot before; removing one cannot either, as nothing hangs in it (what `HasEntry` looks for).

For the refinement of `DirTree` (`CommandsChangeTheTree`) a slot's path is a recursive function of the number of steps to its parents. `MaxFiles` steps are enough
(`PathStep`): while some slot's path still changes, each step settles one more. Where no directory has two entries of one name no two slots have one path (`PathsDiffer`,
by induction down the tree), so the table is a tree with one node for each slot in use (`TreeIs`), and `ramfs_find_file` finds what stands under the
current directory's path and a name (`FindLooks`). Each function is then a change of the tree at one path: `ramfs_create` adds a node or fails (`CreateTree`),
`ramfs_write_file` puts a whole text, fails, or fails with an empty file made (`WriteTree`), which is what `DirTree` allows a save. Buffers move in all
of them; that no other file's text changes is that each has a buffer of its own. These hold of steps between tables without a double; the step that makes
one is `Double` of `DirTree` (`DoubleTree`), for the new entry's name is there already and was not found, so it is not the name that was typed.

What the commands show (`WhatIsShownIsStored`) is computed by loops, each a recursive function. `RunIs` gives a loop's function its values, by induction
over sets of numbers, for steps that stay in a set; the rest is an invariant for each loop. `ls` and `find` list a set of slots, each once (`ListedIs`),
which the tree shows under paths of their own. `wc` has counted the ends of words so far, so a word that has begun is one less than `WordStarts`
(`WcIs`). `grep` stands at the start of a line, and has the numbers of the lines before it that have the pattern (`GrepStep`); with each line it is
further in the text. Rows of `hexdump` are quotients and remainders (`RowsFill`). What `pwd` has passed on its climb is the end of the path, and the
room left in front is what the path leaves of it, so it does not run out if the path fits (`PathIsShown`); `MaxFiles` steps reach the root.

*Scancode decoder.* The handler is behind the keys by up to `Wire` bytes, so nothing about the flags is inductive as it stands. `FlagAt(f, i)` is the value
a flag will have when byte `i` is read; `DInv` says of these values, byte by byte, what `ModifiersAgree` says at the end of the wire and `TypedAsHeld` of a
byte that is read (`Struck`, an equivalence unless keys were mixed), and of caps lock that each byte carries the value it leaves (`Locks`). Sending a key appends bytes and decides the values behind them only (`FlagSent`), reading one moves all places up (`FlagRead`).

*Boot.* `SoundInv` says which extents are in place already and where the next one goes. `Before`, the sum of the first counts, is a recursive function;
that it has values and grows is proved by taking a least counterexample, since the induction theorems of the library cannot be used. An extent is stored
behind all earlier ones, also when a read breaks off, so what is in place stays there. `LoadInv` follows `ELF_Read`, which uses up the table of
program headers as its counters: what is left of a header and what the file says of it give the place in the file, the place in memory, and that memory
holds the segment up to there and zeros behind (`InSegment`). Since segments are apart, earlier ones stay whole. Segments of a full load are left
out, as the 16-bit copy loses them. `SystemProofs` shows both through sessions and reboots, on memory the session before has left.

*Line editor.* `LineInv` says that the buffer's zeros begin at `command_pos` and that the cursor is in the line. The loops that open and close a gap
in the buffer are then `InsertAt` and `RemoveAt` on the text (`OpenedIs`, `ClosedIs`), of which the library's facts about `SubSeq` and `\o` give
the elements. A failed boot is an `Enter` on an empty line.

*Messages.* `Keeps` relates the table to the log of everything since the last clear: the entries below the index are the beginning of the log, and all
above are invalid. The log grows by one more message than the table holds, so that a full table that drops messages can be told from one that
overwrites. The boot's messages and the list that `dmesg` prints are recursive functions over positions; that they have values is one lemma
(`Iterates`, by induction over sets of numbers). The two digits are quotient and remainder.

*Parser.* `Scanned` says after `i` characters which words have begun, which of their ends are cut by a zero in the buffer, and whether the scan is in a
word. The number of a word is a count of starts, known by three facts only (`Ranked`): zero at first, one more at a start, the same elsewhere. A step
that ends a word cuts the line behind it, except for the last word there is room for. The string that begins at a word's start then ends where the
word does (`PartIs`).

*Screen.* `ScreenInv` is: cells below the cursor's row are blank (`Below`, while not `far`), and where `plain`, the row holds prompt, line and blanks, with
the cursor at its character. `Near` and `Fresh` follow `VGA_putc` through tabs, wraps and scrolling (`PutcIs`): whatever is printed, the rows below stay
blank, and a text that ends with a line feed leaves an empty row (`PutsStays`), so the next prompt begins in one (`AskedIs`). A text that fits its row
changes exactly its own cells (`PutsRow`). From this follow the three redraws of `shell_run`: a typed character writes the rest of the line again
(`TypedIs`), a backspace blanks the row behind the prompt and writes it (`RepaintedIs`), arrows move the cursor only (`MovedIs`). Each command leaves the
screen as some texts do or cleared (`CommandsLeave`).

*Model-checked only.*

- Liveness (`CallReturns`, `BytesTaken`, `SleepReturns`, `RequestsServed`, `BootEnds`): the prover has no rules for fairness.

## 6. Not modelled

Formatting of numbers, `printf`, string helpers and debug output: stateless conversions, and properties here are about where text goes, not how a
number is spelled. The bits of descriptor tables and the GDT; the divisor of the PIT; the second 8259; the A20 gate and the switch to protected mode.
The multi-line editing of `keyboard.c` (303-367) runs only outside shell mode, which `shell_init` sets for good. The C++ core library, which no C code
calls, and the host FAT tool, which repeats the layout of `fat.c`. The demonstration commands, which are callers of the calls modelled. What free
stores before a literal, in the kernel's own read-only strings. The hardware (i8042, 8259, PIT, CPU, PS/2 keyboard, BIOS) is modelled
from how the code drives it and marked external in the map.
