-------------------------------- MODULE Boot --------------------------------
(***************************************************************************)
(* kernel_main's set-up of memory (src/src/kernel.cpp, src/src/core/       *)
(* paging.cpp, gdt.cpp) and the two allocators that share it afterwards:   *)
(* KHeap for the kernel and UserHeap for the program.  Page structures are *)
(* words of physical memory: mem maps the addresses the boot code has      *)
(* written to page-table entries, and the processor's page walk reads them *)
(* back.  The boot runs with interrupts off, one step per table or page.   *)
(***************************************************************************)
EXTENDS KHeap, UserHeap, Gdt

CONSTANTS
  Page,       \* 4096: bytes of a page; a table is one page of 4-byte entries
  Tables,     \* 32: tables that PageTableManager::Init fills
  FbAddrs,    \* where the boot loader may put the framebuffer
  FbSizes,    \* height * pitch
  TssBases    \* where the linker may put the task state segment

Entries == Page \div 4          \* 1024 entries per table
Span == Entries * Page          \* 4MB per table

\* The framebuffer starts on a page and does not wrap; the kernel heap starts
\* on a page, inside what Init maps, and holds all tables.
ASSUME BootAssumption ==
  /\ Page \in Nat \ {0} /\ Page % 4 = 0
  /\ Tables \in 1..Entries
  /\ Word = Entries * Span
  /\ {Page, 2 * Page} \subseteq Sizes
  /\ HeapStart % Page = 0
  /\ HeapEnd <= Tables * Span
  /\ FbAddrs \subseteq Nat /\ FbSizes \subseteq Nat
  /\ \A a \in FbAddrs, s \in FbSizes : a % Page = 0 /\ a + s <= Word
  /\ \A s \in FbSizes :
       HeapStart + 2 * Page * (Tables + 1) + Page * (s \div Span + 2) < HeapEnd
  /\ \A t \in TssBases : Is32(t)

VARIABLES
  pc,               \* what kernel_main does next
  n,                \* the loop counter: a table's index, or a byte offset
  gdt,              \* the descriptors
  page_directory,   \* its address, as in cr3
  mem,              \* page-table entries by address
  fb                \* framebuffer_addr, and height * pitch

boot_vars == <<pc, n, gdt, page_directory, mem, fb>>
kernel_vars == <<heap_curr, blocks>>
all_vars == <<boot_vars, kernel_vars, user_vars>>

-----------------------------------------------------------------------------

PageOf(a) == a - (a % Page)                          \* a & 0xFFFFF000

Entry(a) == [base |-> PageOf(a), present |-> TRUE]  \* a | 7

Absent == [base |-> 0, present |-> FALSE]           \* 2

\* The writes f on top of m.
Over(f, m) ==
  [a \in DOMAIN f \cup DOMAIN m |-> IF a \in DOMAIN f THEN f[a] ELSE m[a]]

\* One entry written at a.
At(a, e) == [x \in {a} |-> e]

\* A whole table written at t: entry j is e[j].
Fill(t, e) == [a \in {t + 4 * j : j \in DOMAIN e} |-> e[(a - t) \div 4]]

\* A table that maps nothing.
Vacant == [j \in 0..(Entries - 1) |-> Absent]

\* Table i of the identity map.
Identity(i) == [j \in 0..(Entries - 1) |-> Entry(i * Span + j * Page)]

\* Mutant of AlignedTable: rounds down to the page the block starts in.
AlignedTableDown(raw) == PageOf(raw + Page - 1) - Page

\* The page inside the two pages at raw that Init uses as a table.
AlignedTable(raw) == PageOf(raw + Page)

MemoryInit ==
  /\ Init
  /\ UserInit
  /\ pc = "gdt" /\ n = 0
  /\ gdt = <<>>
  /\ page_directory = 0
  /\ mem = [a \in {} |-> Absent]
  /\ fb \in [addr : FbAddrs, size : FbSizes]

\* GlobalDescriptorTable::GlobalDescriptorTable
InitGdt ==
  /\ pc = "gdt" /\ pc' = "directory"
  /\ \E tss \in TssBases :
       gdt' = [k \in 1..6 |-> LET d == Descriptors(tss)[k]
                              IN  SegmentDescriptor(d.base, d.limit, d.type)]
  /\ UNCHANGED <<n, page_directory, mem, fb, kernel_vars, user_vars>>

\* PageTableManager::Init: the directory, all entries absent.
InitDirectory ==
  LET pd == AlignedTable(Kmalloc(heap_curr, 2 * Page))
  IN  /\ pc = "directory" /\ pc' = "table"
      /\ DoKmalloc(2 * Page)
      /\ page_directory' = pd
      /\ mem' = Over(Fill(pd, Vacant), mem)
      /\ UNCHANGED <<n, gdt, fb, user_vars>>

\* PageTableManager::Init: table n maps its 4MB to themselves.  The last one
\* is followed by the load of cr3, which turns the page walk on.
InitTable ==
  LET pt == AlignedTable(Kmalloc(heap_curr, 2 * Page))
      last == n + 1 = Tables
  IN  /\ pc = "table" /\ pc' = IF last THEN "framebuffer" ELSE "table"
      /\ n' = IF last THEN 0 ELSE n + 1
      /\ DoKmalloc(2 * Page)
      /\ mem' = Over(At(page_directory + 4 * n, Entry(pt)),
                     Over(Fill(pt, Identity(n)), mem))
      /\ UNCHANGED <<gdt, page_directory, fb, user_vars>>

\* Mutant of HasTable: looks at the present bit of another entry.
HasTableFirst(virt) == mem[page_directory].present

\* Mutant of HasTable: a new table for every page.
HasTableNever(virt) == FALSE

\* The directory has a table for virt.
HasTable(virt) == mem[page_directory + 4 * (virt \div Span)].present

\* MapMemory: the entry for virt, in a new table if there is none.
MapMemory(virt, phys) ==
  LET slot == page_directory + 4 * (virt \div Span)
      new_pt == Kmalloc(heap_curr, Page)
      with == IF HasTable(virt) THEN mem
              ELSE Over(At(slot, Entry(new_pt)),
                        Over(Fill(new_pt, Vacant), mem))
      pt == with[slot].base
  IN  /\ mem' = Over(At(pt + 4 * ((virt \div Page) % Entries), Entry(phys)), with)
      /\ IF HasTable(virt) THEN UNCHANGED kernel_vars ELSE DoKmalloc(Page)

\* kernel_main: the framebuffer, page by page.
MapFramebuffer ==
  /\ pc = "framebuffer" /\ n < fb.size
  /\ MapMemory(fb.addr + n, fb.addr + n)
  /\ n' = n + Page
  /\ UNCHANGED <<pc, gdt, page_directory, fb, user_vars>>

\* The rest of kernel_main leaves the page tables alone.
BootDone ==
  /\ pc = "framebuffer" /\ n >= fb.size /\ pc' = "run"
  /\ UNCHANGED <<n, gdt, page_directory, mem, fb, kernel_vars, user_vars>>

-----------------------------------------------------------------------------

\* Addresses of the page structures in use.
TableAddrs ==
  {page_directory} \cup
  {mem[a].base : a \in {x \in DOMAIN mem : /\ x - page_directory \in 0..(Page - 1)
                                           /\ mem[x].present}}

\* The blocks kernel_main allocated for them.
TableBlocks ==
  {b \in blocks : \E t \in TableAddrs : b.addr <= t /\ t < b.addr + b.size}

\* After boot the kernel allocates and frees, but never a page table.
KernelStep ==
  /\ pc = "run"
  /\ \/ \E s \in Sizes : DoKmalloc(s)
     \/ \E b \in blocks \ TableBlocks : DoKfree(b)
  /\ UNCHANGED <<boot_vars, user_vars>>

\* System calls of the program.
UserStep ==
  /\ pc = "run"
  /\ UserNext
  /\ UNCHANGED <<boot_vars, kernel_vars>>

MemoryNext ==
  \/ InitGdt \/ InitDirectory \/ InitTable \/ MapFramebuffer \/ BootDone
  \/ KernelStep \/ UserStep

MemorySpec == MemoryInit /\ [][MemoryNext]_all_vars

-----------------------------------------------------------------------------

\* The processor's page walk: the physical page of virt, or no page.
Fault == Word
Walk(m, virt) ==
  LET de == m[page_directory + 4 * (virt \div Span)]
      pe == m[de.base + 4 * ((virt \div Page) % Entries)]
  IN  IF de.present /\ pe.present THEN pe.base ELSE Fault

Pages == {p * Page : p \in 0..(Word \div Page - 1)}

\* The segments reach the processor as they were asked for (gdt.cpp): the
\* same base, and a limit that grants no byte more and less than a page less.
SegmentsDecode ==
  gdt # <<>> =>
    \E tss \in TssBases :
      \A k \in DOMAIN gdt :
        LET d == Descriptors(tss)[k]
        IN  /\ Base(gdt[k]) = d.base
            /\ Limit(gdt[k]) \in (d.limit - 4096)..d.limit

\* Page structures never overlap each other, nor anything else the kernel
\* allocates: each fills one page, inside a block of its own (the rounding in
\* PageTableManager::Init and the missing one in MapMemory), and is itself
\* mapped to where it is, so that MapMemory's writes reach it.
TablesApart ==
  page_directory # 0 =>
    /\ \A t \in TableAddrs :
         \E b \in blocks :
           /\ t % Page = 0
           /\ b.addr <= t /\ t + Page <= b.addr + b.size
           /\ \A u \in TableAddrs \ {t} : u + Page <= b.addr \/ b.addr + b.size <= u
    /\ pc \in {"framebuffer", "run"} => \A t \in TableAddrs : Walk(mem, t) = t

\* Once the kernel runs, an address below Tables * Span or in the framebuffer
\* is mapped to itself, and every other page faults (kernel.cpp:65-71).
IdentityMapped ==
  pc = "run" =>
    \A p \in Pages :
      Walk(mem, p) =
        IF p < Tables * Span \/ (fb.addr <= p /\ p < fb.addr + fb.size)
        THEN p ELSE Fault

\* A call of MapMemory changes the translation of one page, also when it adds
\* a table for 4MB (paging.cpp:16-28).
MapsOnePage ==
  [][pc = "framebuffer" =>
       \A p \in Pages : p # PageOf(fb.addr + n) => Walk(mem', p) = Walk(mem, p)]_all_vars

\* The program's break never enters the kernel's heap: sbrk returns "start of
\* new block" (interrupts.cpp:167).
OutsideKernelHeap ==
  \A i \in DOMAIN heap_list, b \in blocks :
    \/ EndOf(heap_list[i]) <= b.addr
    \/ b.addr + b.size <= heap_list[i].addr

=============================================================================
