-------------------------------- MODULE Gdt --------------------------------
(***************************************************************************)
(* Segment descriptors (src/src/core/gdt.cpp): base and limit packed into  *)
(* eight bytes, the way the processor reads them back.  target[k] of the   *)
(* code is d[k] here; shifts and masks are divisions and remainders.       *)
(***************************************************************************)
EXTENDS Integers

\* x is a uint32_t.
Is32(x) == x \in Nat /\ x \div 16777216 < 256

\* target[6]: limit bits 16-19 under the flags (0x40: bytes, 0xC0: pages).
Flags(b) == b - (b % 16)

\* Mutant of PagesOf: a partial page is given in full.
PagesOfUp(limit) == limit \div 4096

\* The limit in pages, rounded so that no byte past limit is granted.
PagesOf(limit) ==
  IF limit % 4096 # 4095 THEN limit \div 4096 - 1 ELSE limit \div 4096

\* SegmentDescriptor::SegmentDescriptor
SegmentDescriptor(base, limit, type) ==
  LET small == limit <= 65536
      l == IF small THEN limit ELSE PagesOf(limit)
      bytes == << l % 256, (l \div 256) % 256,
                  base % 256, (base \div 256) % 256, (base \div 65536) % 256,
                  type,
                  (IF small THEN 64 ELSE 192) + ((l \div 65536) % 16),
                  (base \div 16777216) % 256 >>
  IN  [k \in 0..7 |-> bytes[k + 1]]

\* SegmentDescriptor::Base
Base(d) == ((d[7] * 256 + d[4]) * 256 + d[3]) * 256 + d[2]

\* SegmentDescriptor::Limit
Limit(d) ==
  LET l == ((d[6] % 16) * 256 + d[1]) * 256 + d[0]
  IN  IF Flags(d[6]) = 192 THEN l * 4096 + 4095 ELSE l

\* The table of GlobalDescriptorTable::GlobalDescriptorTable, in the order of
\* its members; sizeof(tss) is 104.
Descriptors(tss) ==
  LET MB64 == 64 * 1024 * 1024
  IN  << [base |-> 0, limit |-> 0, type |-> 0],
         [base |-> 0, limit |-> MB64, type |-> 154],
         [base |-> 0, limit |-> MB64, type |-> 146],
         [base |-> 0, limit |-> MB64, type |-> 250],
         [base |-> 0, limit |-> MB64, type |-> 242],
         [base |-> tss, limit |-> 104, type |-> 137] >>

=============================================================================
