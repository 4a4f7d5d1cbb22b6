# Antigravity OS: a TLA+ development

TLA+ models of the parts of Antigravity OS that carry its own logic: boot and
paging with the two heaps, the file layer and the shell over it, the simple
file system, the keyboard read path, the PS/2 controller with mouse and
interrupts, the desktop, the terminal window with its editor, and the two
programs of `programs.cpp`. Each model is checked with TLC on small instances;
every safety property and all but one refinement are also proved with TLAPS,
for every value of the constants. `PROJECT.json` maps each definition to the
source lines it stands for.

## 1. The system

A 32-bit kernel with one framebuffer desktop. `kernel_main` sets up the heap,
the descriptor tables, paging, the console, the mouse, the file layer and the
desktop, turns interrupts on and loops forever: from then on everything happens
inside interrupt handlers. Gates are interrupt gates, so a handler runs with
interrupts off and handlers never interleave, with one exception: system call 3
turns them on while it waits for a key.

| component | state | operations | talks to |
|---|---|---|---|
| kernel heap (`kheap.cpp`) | `heap_curr`, `heap_end` | `kmalloc`, `kfree` (does nothing) | called by everyone; no caller tests for 0 |
| boot and paging (`kernel.cpp`, `paging.cpp`) | page directory and tables, in heap blocks | `PageTableManager::Init`, `MapMemory` | heap, processor |
| descriptor tables (`gdt.cpp`) | six packed descriptors | constructor, `Base`, `Limit` | processor |
| interrupts (`interrupts.cpp`) | masks, vectors, gates; requests in service | `RemapPIC`, `HandleInterrupt` | controllers, all drivers |
| system calls (`interrupts.cpp`) | `user_heap_end` | read (3), write (4), sbrk (45), reboot (88) | user program |
| user program (`programs/main.cpp`) | list of blocks | `malloc`, `free`, a command loop | system calls |
| file layer (`ext4.cpp`) | list of `VirtualFile`s, `block_size` | `ReadFile`, `WriteFile`, `Touch`, `MkDir`, `Rm`, `GetFileList`, `Ls` | heap, ATA driver |
| simple file system (`sfs.cpp`) | `file_table`, sector 1, data sectors | `Init`, `Format`, `WriteFile`, `ReadFile`, `DeleteFile` | ATA driver |
| shell (`shell.cpp`, `command_registry.cpp`) | working directory, variables, commands | tokenizer, one function per command, completion | file layer, terminal, editor |
| keyboard (`keyboard.cpp`) | `lastKey` | interrupt 0x21, `GetChar` | system call 3, desktop |
| mouse (`mouse.cpp`) | controller's configuration, packet | `Init`, interrupt 0x2C | controller, desktop |
| desktop (`desktop.cpp`) | pointer, windows, drag, Start menu, Ctrl flag | `OnMouse*`, `OnKey*` | terminal window |
| terminal window | line, history, screen, escape parser, mode | `OnKeyDown`, `Execute`, `PutChar` | shell, editor |
| editor | buffer, cursor | `Start`, `OnKeyDown`, `Render` | file layer, terminal's screen |
| Snake, Notepad (`programs.cpp`) | game and note | `Init`, `Update`, `Input`, `Save` | drawing, a file system |
| ATA, RTC, console | device I/O | per sector or pixel | |

Facts about this commit that matter for reading the models:
`SimpleFileSystem::Init` is commented out (`kernel.cpp:93`), so the simple file
system is linked and unused; `kernel_main` does not start `init.bin`, so the
system calls and the user heap are modelled from the handler and from
`programs/main.cpp`, the program written for them; `programs.cpp` is not in the
Makefile's object list, and the loop that calls it is not in the repository;
`Shell::Prompt` is never called, the window has a prompt of its own.

What is hard to get right here: the race of `GetChar` with the keyboard
interrupt; a dialogue with the mouse over a port it shares with the keyboard;
a heap that only grows, and a second one in the same addresses; page tables
that must be aligned by hand; a list of files in front of a read-only disk with
two different ideas of existence; two-sector saves and power cuts; a screen, a
line and an editor kept in step by separate code; mouse packets out of step;
and arithmetic at the ends of buffers. `PROJECT.json` lists these as hazards,
each at its line with the properties that cover it.

## 2. Modules

| module | models | actions |
|---|---|---|
| `MachineWord` | the size of a machine word | |
| `KHeapOps` | the arithmetic of `kmalloc`, modulo the word | operators only |
| `KHeap` | the heap with its live blocks | `DoKmalloc`, `DoKfree` |
| `UserHeap` | `malloc`, `free`, `sbrk` | `MallocReuse`, `MallocGrow`, `Free` |
| `Gdt` | packing and decoding of descriptors | operators only |
| `Boot` (composes the four above) | boot, page tables in memory, then both heaps | `InitGdt`, `InitDirectory`, `InitTable`, `MapFramebuffer`, `BootDone`, `KernelStep`, `UserStep` |
| `FileStore` | abstract: a map from names to contents | one per command |
| `Ext4` (extends `KHeapOps`) | virtual files, disk, shell commands, editor's open/save/quit, leaked memory | `CmdLs` ... `CmdEdit`, `Tab`, `EditType`, `EditSave`, `EditQuit` |
| `DurableStore` | abstract: writes that take effect at one instant | `Begin`, `Commit`, `Acknowledge`, `Delete`, `PowerCut` |
| `Sfs` | the simple file system, one step per sector write | `Mount`, `MountFormat`, `WriteBegin`, `WriteData`, `WriteTable`, `DeleteFile`, `PowerCut` |
| `Paths` | paths as sequences, shared by the next two | operators only |
| `Session` | abstract: a directory as a list of names, a map of variables | `Cd`, `Export` |
| `Shell` | tokenizer, registry, `cd`, `export`, the table of variables | `Execute` |
| `KeyRead` | `lastKey` between interrupt and system call 3, one step per instruction | `Press`, `KeyboardIRQ`, `Enter`, `Sti`, `Load`, `Clear`, `Test`, `Cli`, `Iret` |
| `Interrupts` | masks, vectors, gates, acknowledgement at two controllers | operators only |
| `Ps2` (extends `Interrupts`) | `Mouse::Init` against controller, mouse and keyboard; then the interrupts | `Enable` ... `Activate`; `Key`, `Acknowledge`, `Move`; `TimerIRQ`, `KeyboardIRQ`, `MouseIRQ` |
| `Desktop` | packet decoder, pointer, drag, Start menu, Ctrl | `HandleByte`, `HandlePacket`, `CtrlDown`, `CtrlUp` |
| `TextEdit` | abstract: a text split at the cursor | `Open`, `Insert`, `Delete`, `Left`, `Right`, `Close` |
| `Editor` | the editor's array, and `Render` as an operator | `Start`, `Type`, `Backspace`, `Back`, `Forward`, `Quit` |
| `Terminal` (extends `Editor`) | line, history, screen, and the editor in the window | one per key; commands by their effect on the window |
| `Snake`, `Notepad`, `Programs` | the two programs, and one of them running at a time | `Restart`, `Update`; `Input*`, `Save`; `Launch*` |

`MC*` modules hold values for constants that a configuration cannot write.
`*Proofs` modules hold the theorems (`BootProofs` those of both heaps,
`TerminalProofs` those of the editor, `ProgramsProofs` those of `KeyRead`). Definitions marked "Mutant of X" are wrong
versions of X; no specification uses them. They exist so that each property can
be shown to fail when the code is wrong in that way.

### How state and actions correspond to the code

*Boot.* `mem` maps the addresses the boot code has written to page-table
entries; tables are found by reading entries back, as the code and the
processor do, so that a table at a wrong address really overwrites another.
`Walk` is the processor's page walk. A step is one table or one page of the
framebuffer, whose address is any of `FbAddrs`. Interrupts are off until
`BootDone`, so nothing else runs. Then the kernel allocates and frees and the
program makes system calls, in any order. The task state segment may lie
anywhere in `TssBases`. The descriptors are computed with the real 32 bits;
everything else is scaled by `Page`.

*Ext4.* `vfs` is the linked list, newest first. A command is one step because
it runs inside the keyboard interrupt. `heap_curr` moves by the requests the
command makes; at the first request that fails the model stops (`"oom"`),
because the code goes on through a null pointer. `WriteFile` on a name that only
the disk has never returns; the model then stops in `"hung"`. This is why its
configurations turn the deadlock check off: the system really may stop.
The disk is a fixed map: the directory parser is abstracted to the names it
yields. File names are at most 63 characters and contents fit the 1024-byte
buffer of `cat` and the buffers of `cp` and the editor; the code tests neither.

*Sfs.* `table` is sector 1 with the first `Persist` (11) entries; the other
entries of `file_table` are read from beyond the sector buffer on a mount, so
they hold arbitrary flags and sectors. The first mount finds garbage, which
`Init` formats, or zeros, as on the disk that the repository itself makes
(`Makefile:15-17`, `setup_disk.sh`): they pass `Init`'s test (`sfs.cpp:31`), and
the disk is never formatted (`Blank`). Sector writes are atomic, and a cut may
come between any two. Contents fit one sector and are told apart by value;
an entry's size field only affects what `ls` prints and is left out.

*Shell.* A line is a sequence of symbols: characters, and words like `cd` that
the code only compares as a whole. `Tokenize` runs the tokenizer's loop over it.
Lines come from two sources: lists of words, written the way a user would quote
them (`Commands`), for which `typed` keeps the words meant; and raw lines
(`Lines`) with spaces and quotes in any order, for which it keeps `WordsOf`.
That operator is not the tokenizer: it says by their places which parts of a
line are words, without a scan. It does grant the code two losses, of what
follows a quote that is never closed and of what stands directly in front of a
quote (`a"b"` is the word `b`). `Session` is told the words only, so for the
lines and words of the instance a wrong turn of tokenizer, registry, path
arithmetic or table that changes directory or variables breaks the refinement.
Words ending in two slashes are left out of the instance: after one of them
`cd ..` removes a slash and not a name.

*KeyRead.* Each key press is a number, so a duplicate or a swap is visible. The
handler is one step (interrupts are off in it). `GetChar`'s load and store of
the volatile `lastKey` are two steps.

*Ps2.* One port delivers the bytes of keyboard, mouse and controller in order
of arrival. A byte is the set of those of its bits that mean something to the
configuration or to the decoder. During `Init` interrupts are off: each command
and each read is a step, and keys, acknowledgements and motion come in between.
`WaitRead` is `Poll` until a byte arrives or the patience ends, after which the
port is read all the same. The mouse may be absent, may answer late and may
drop an answer when the next command comes. `in_service` holds the requests
that a controller waits to see acknowledged; a request is delivered only if
neither controller has one of higher or equal priority there. `irr` holds the
requests latched but not yet delivered: `RemapPIC` programs edge mode
(`interrupts.cpp:31`), so a request outlives the byte that raised it when `Init`
polls that byte away. The controller is assumed to raise a line when a byte
comes to its head with that interrupt enabled, and never to withdraw a request.
The keyboard's handler then takes whatever byte is there
(`interrupts.cpp:192`), the mouse's returns if it is not its own
(`mouse.cpp:70-71`). `WaitWrite` is
assumed to succeed. The run turns the deadlock check off because the bounds on
keys and motion end it.

*Terminal and Editor.* `OnKeyDown` calls itself to erase and retype; the nested
calls are loops over the pair of line and screen. Commands are abstracted to
what they print: any member of `Outputs`, cut escape sequences included. `edit`
opens the editor on any of `Texts`; from then on the window's keys are the
editor's, the screen is what `Render` draws, and Ctrl+Q brings the shell back.
`content` is the array with its terminator, `NoBuffer` when freed; after a quit
the size and the cursor, which the code leaves and never reads again, are 0.
`Render` goes over the text and collects the cells it writes and the place of
the cursor. Colours are left out.

*Desktop.* Mouse bytes are arbitrary, in any phase of the decoder: this covers
lost and stray bytes. The driver's and the desktop's copies of the pointer are
assigned together and modelled as one. One window is added, as at boot.

*Programs.* The pseudo-random apple is any cell of its range. `note.txt` is the
one thing that outlives a program; the disk may be mounted or not.

## 3. What TLC checks

| run | instance | shows |
|---|---|---|
| `memory` | word of 2048, pages of 32 bytes, 3 tables of 8 entries, a framebuffer of 3 pages in two new tables, cut after its second or its first page; kernel heap of 344 bytes; user heap of 18 | `SegmentsDecode`, `TablesApart`, `IdentityMapped`, `MapsOnePage`; `HeapInv`, `ExhaustionIsFinal`; `UserHeapInv`, `BlocksStay`, `NothingLost` (110,914 states) |
| `ext4` | 2 free names, 1 disk name, 2 contents, a heap for about 7 commands | `FilesInv`; refinement of `FileStore` (74,347 states) |
| `sfs` | 4 slots, 3 of them saved, 3 names, 2 contents; a disk of garbage and a blank one | `CacheCoherent`, refinement of `DurableStore` (168,866 states) |
| `shell` | 3 arguments, 3 variables, keys of 2, values and paths of 5 symbols; 19 lists of words, 46 raw lines, among them `cd` with every order of up to 3 letters, spaces and quotes behind it | `ShellInv`, refinement of `Session` (16,649 states) |
| `keyread` | 6 key presses | order, and `LatchedIsReturned` under fairness |
| `ps2` | 3 configurations, 2 keys, 5 bytes of motion, 2 polls | `InitEnds`, `ConfigKept`, `PacketsInStep`, `PortServed` (236,307 states) |
| `window` | 3 rows of 2 columns, lines of 2, history of 2, texts of up to 5 characters, newlines among them | ten properties of line, history, screen and editor (145,550 states) |
| `desktop` | 4-bit bytes, 6 x 5 screen, one window | grip, drag, pointer and title bar on the screen, Ctrl |
| `programs` | 4 x 6 grid, length up to 6, score up to 30; notes of 2 characters | body and score of the snake, `SavedIsShown` (968,414 states) |

The bounds are the smallest at which every boundary is met: both heaps run out
with and without a remainder; the framebuffer needs a new table and then a
second one, with pages that find their table made; the list of files grows,
shrinks in the middle and loses its head; a table is larger than its sector;
the variables fill their table while known names are still set; an argument too
many is typed; a wait expires before, and after, the answer is sent; a screen
wraps and scrolls within one line; the history shifts; the text runs into the
status line; the pointer is clamped at each edge; the snake fills its arrays.
Named bounds that the code does not have: `MaxBlocks` (KHeap), `MaxKeys`
(KeyRead, Ps2), `MaxMoves` (Ps2), `MaxScore` (Snake), and `SetCWD`'s in Shell,
below. Everything else is finite because the heaps are.

In `memory` the user heap lies below the kernel's, where the two never meet:
that run is about each heap by itself and about the page tables. The run
`memory_overlap` places them as the code does.

Runs that expect a violation state what a comment or a message in the
repository says and show that the code does not do it:

| run | the code |
|---|---|
| `ext4_save` | saving a file opened from the disk recurses forever |
| `keyread_race` | a key between load and clear is thrown away |
| `memory_overlap` | sbrk hands out memory of the kernel's heap |

The models show more such limits of the code. They are not runs of their own;
the passing runs stay on this side of them:

- `mkdir` never makes a directory, because `DirExists` always returns true
  (`ext4.cpp:289`); `FileStore`'s `MkDir` says so, and `cd` goes anywhere.
- `mv a a` removes the file (`shell.cpp:416`); `FileStore`'s `Mv` says so.
- A blank disk is taken for a formatted one (`sfs.cpp:31`): every entry has
  sector 0, and all files share it. The run has such a disk; what files contain
  is left open there (`Kept`), which names exist is not. Let `Kept` return the
  contents always and `ImplementsDurableStore` fails.
- Files beyond the eleventh are lost at the next mount (`sfs.cpp:101`). Add a
  fourth name to `Sfs.cfg` and `CacheCoherent` fails.
- An increment near 2^32 wraps past sbrk's 128MB check
  (`interrupts.cpp:170-173`). Put the size 2030 for 60 in `Boot.cfg` and
  `UserHeapInv` fails; the theorems assume `NoWrap`.
- The segments end at 64MB, the page tables and sbrk's limit at 128MB
  (`gdt.cpp:5-8`, `paging.cpp:49`).
- A key that reaches the controller before its answer is written back as its
  configuration (`mouse.cpp:45-51`) and can leave the keyboard's interrupt off:
  `ConfigKept` and `PortServed` speak of the other case (`~early`).
- A key during the rest of `Init`, or a late answer, leaves the decoder out of
  step with the mouse (`mouse.cpp:33`): `PacketsInStep` speaks of a quiet start.
- The keyboard request latched for the answer polled at `mouse.cpp:45` is
  delivered after `sti` and reads the port without a test
  (`interrupts.cpp:192`). If the mouse was moved before that, it eats a byte of
  the first packet and the decoder is out of step. A quiet start therefore
  includes that the mouse rests until then. Drop `~Leftover` from `Move` and
  `PacketsInStep` fails.
- A path of 64 or more characters overruns the variable it is copied to
  (`shell.cpp:49`). `SetCWD` takes no longer one.
- With a full table of variables `PWD` is never recorded (`shell.cpp:64`);
  `Session` says so.
- Backspace over a wrap leaves the deleted characters on the row above
  (`TerminalWindow.cpp:184`): `EchoIsTail` speaks of the cursor's row only.
- TAB on a word longer than 63 characters garbles it
  (`TerminalWindow.cpp:163`). `CompletionExtends` speaks of words that fit the
  buffer (`PrefixCap`); the run has longer ones too.
- Words ending in two slashes, and text lost around quotes: see *Shell* above.
- What a drag leaves of a title bar on the screen may lie under the Start
  button, which takes the press first (`desktop.cpp:138-143`): `TitleOnScreen`
  says that it is on the screen, not that it can be reached.
- Every packet with the button held over the Start button toggles the menu
  (`desktop.cpp:140`).
- The right Ctrl key counts as the left one (`desktop.cpp:201`), so
  `CtrlNotStuck` speaks of both, and releasing one clears the flag for both.
- The Notepad's title says "Saved!" also when no disk was there to write to
  (`programs.cpp:285-290`): `SavedIsShown` speaks of saves that wrote.

*Fairness.* In `KeyRead`, `WF(Kernel)` says that the processor goes on
executing the system call, `WF(KeyboardIRQ)` that a pending interrupt is taken
while interrupts stay enabled. Nothing is assumed of the user: no key has to be
pressed and no read has to be made. In `Ps2`, `WF(MouseInit)` says that the
processor goes on with `Init`, and `WF(KeyboardIRQ)` and `WF(MouseIRQ)` that a
request the controllers pass on is taken. Nothing is assumed of the mouse,
which may never answer: `InitEnds` holds because the wait is counted down.

## 4. What is proved

All theorems hold for every value of the constants that the named assumptions
admit. An assumption that is a hypothesis of a theorem is named below with its
reason.

*Loops.* A loop is written as a recursive function over the number of its
turns. The provers cannot apply an induction principle to a predicate, so each
proof names the SET of numbers that have the property and shows that it is all
of `Nat` (`SetInduction`: a set of exceptions would have a least element). A
lemma per loop (`ScanRec`, `LineRec`, ...) first shows by the same means that
the function exists and obeys its equation. In this form the tokenizer, the
screen and `Render` are proved for inputs of every length.

*BootProofs: the heaps.* `HeapInv`: no live block ends after `heap_curr`, and
`heap_curr` stays within the heap. Disjointness is not inductive without it: a
new block must lie behind all others. The assumptions are that the heap's ends
are aligned and no request wraps 2^32; the code's sizes justify both.
`HeapExhaustion` follows from `heap_curr` never decreasing. For the user heap,
under `NoWrap`: all blocks lie between the heap's start and the break, and
(`NothingLost`) the list and the break agree on every byte in between. This
rests on two programs, malloc in the user's and sbrk in the kernel, that share
no variable: a refused request must leave both as they were.

*BootProofs: the machine.* From its boot on the machine implements each of its
heaps (`BootRunsKernelHeap`, `BootRunsUserHeap`), so what is proved of the heaps
alone holds of the whole machine. `BootInv` is about the memory the tables lie
in: the directory and its tables are pages, no two the same, that translate the
pages mapped so far (`Translates`, `Mapped`), and each is the last page of a
block of the heap (`Owned`). The last part is what keeps the next table, a new
block, off the earlier ones. `Booting` bounds the heap used, so that `kmalloc`
cannot fail before the last table. `TablesApart`, `IdentityMapped` and
`MapsOnePage` follow; `SegmentsDecode` is arithmetic on the packed descriptor.

*Ext4Proofs.* `FilesInv`: no name twice, and no virtual file with a disk name.
The inductive `ListInv` adds that the list has no directories, which holds only
because `DirExists` is a stub that always returns true (`ext4.cpp:287-289`):
`Touch` decides by all nodes and the disk, `WriteFile` by files only, and the
two agree exactly when there are no directories. From it, `Refinement` maps
each command to the step of `FileStore` of the same name, or to `Fail` when the
command never returns or runs out of memory.

*SfsProofs.* `DiskInv`: table and cache each give a name to one slot and a slot
its own sector (`Sane`), and they differ in at most the slot being saved, where
the table still has the same name or nothing. A power cut forgets the cache, so
the table alone must always be sane. `DurableStoreRefinement` takes the write of
the data sector as the instant of a save to a slot the table already has, and
the write of the table as that of a new file. On a blank disk the slots share
a sector, and the refinement is of the files' existence (`Kept`). Hypothesis
`WithinLimits`: there are no more files than sector 1 has entries for. The code
does not test it; section 3 says what happens otherwise.

*Ps2Proofs.* `ConfigInv` follows the read-modify-write through `Init`, step by
step. `StepInv` says for each step of an undisturbed `Init` what is in the port:
nothing, the one answer awaited, or, from the second acknowledgement on, the
mouse's bytes in order behind those already in the packet. `LeftoverInv` says
that as long as the keyboard request of `Init` is pending and the start was
quiet, no byte of the mouse is there for it to take. `AcknowledgedInFull`
is what lets the interrupts that follow be delivered at all.

*DesktopProofs.* `DeskInv` adds to `Grip` and to the windows' places that the
grip lies inside the window, so that a packet that presses anew finds the same
window under the pointer, and that a drag needs the button held. A part of a
window's title bar stays on the screen because the grip lies in it and under
the pointer. `DragWhileHeldHolds` has the hypothesis `Len(Places) <= 1`:
`Desktop::Init` adds one window (`desktop.cpp:55`). With two, each packet that
presses anew could take hold of the other.

*TerminalProofs: the editor.* `EditorInv`: the array is a text with one
terminator at `content_size` and the cursor inside. `EditorRefinement` compares
the shifted arrays element by element with the two halves of the abstract text.
Every key of the window is an operation of the editor or leaves its buffer
alone (`WindowRunsEditor`), so the window keeps `EditorInv` and implements
`TextEdit`. `RenderInBounds` and `CursorTellsPosition` are invariants of the
drawing loop: the place drawn next is inside the window and comes after, in
reading order, all places drawn before.

*TerminalProofs: the window.* `LinesOK`: the line's array holds exactly
`input_len` characters and the cursor is behind them, the history is within its
bounds, and the line is empty while the editor runs. `WindowOK`: the cursor is
on the screen, the escape parser is at rest, nothing is shown at or behind the
cursor (`ClearAhead`), and its row ends in the end of prompt and line
(`Showing`). The nested calls of `OnKeyDown` keep `Good`, the two together;
neither half is inductive alone, because erasing counts by the line and writes
to the screen. Hypothesis `PlainNames`: names that completion may insert have
no control characters. Names made by a command come from a typed line
(`shell.cpp:412`, `424`); a disk made elsewhere might hold others.

*ShellProofs.* `TokenizeInBounds`: `argv` is never written past its end, for
every line. `ShellOK`: the variables are a table of distinct keys, PS1 first,
and the directory a path from the root. Its steps are lemmas
about `SetEnv`, `Cut`, `Up` and `Joined` for every argument.

*ProgramsProofs.* `KeyInv`: what `lastKey` and the local `c` hold is newer than
everything delivered, and once `c`'s copy has been cleared from `lastKey`, a key
there is newer than `c`. `SnakeOK`: the cells are a body, with the length that
goes with the score, and the direction is one of four. `NoteOK`: everything
before the Notepad's cursor is a character and everything behind it NUL, which
is why Enter need not terminate the text.

Only model-checked: liveness (`LatchedIsReturned`, `InitEnds`, `PortServed`),
which the prover does not do; and the refinement of `Session`, which needs what
`Components` makes of a path and that the tokenizer agrees with `WordsOf`, for
every path and line.

## 5. What is not modelled

Drawing, fonts and colours, and the console: pixels, which no other part reads
back. The on-disk structures of ext4: the parser never writes, and its result
is the map `DiskContent`. The ATA driver's status polling and the real-time
clock: device I/O without state. System calls write and reboot. `boot.asm` and
the serial port's set-up. The string helpers, for which the models' operators
on sequences stand. `legacy_v1`, which nothing builds. And whatever happens
after a null pointer from `kmalloc` is used, or after a path overruns its
variable.

## 6. Plan

Done: the modules and theorems above. Left to prove: `ImplementsSession`, from
lemmas on `Components` of `Up` and `Joined` and a round trip of `Typed` through
`Tokenize`; without the round trip, its part about `cd` and `export` given the
words.
