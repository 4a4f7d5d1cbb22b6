-------------------------------- MODULE Ext4 --------------------------------
(***************************************************************************)
(* The file layer of the kernel (src/src/core/fs/ext4.cpp) driven by the   *)
(* file commands of the shell (src/src/core/shell/shell.cpp) and by the    *)
(* editor's open, save and quit.  Files live in a linked list of           *)
(* VirtualFile nodes in front of a read-only disk.  Every command runs     *)
(* inside the keyboard interrupt with interrupts off, so a command is one  *)
(* step.  kfree never returns memory, so every command moves heap_curr     *)
(* forward; no caller tests kmalloc's result, and the model ends (status   *)
(* "oom") at the first request that fails, where the code would go on      *)
(* through a null pointer.                                                 *)
(***************************************************************************)
EXTENDS KHeapOps, Sequences

CONSTANTS
  Names,        \* file names, at most 63 characters
  Contents,     \* NUL-free file contents that fit in cat's 1024-byte buffer
  Empty,        \* the empty content
  NoFile,       \* the editor is closed
  DiskNames,    \* names the directory parser finds when a disk is mounted
  DiskContent,  \* what reading such a name from the disk delivers
  ContentSize,  \* the length of each content
  DiskBlocks,   \* data blocks read for each disk name, at most 12
  BlockSize,    \* block_size of a mounted disk
  NodeSize,     \* sizeof(VirtualFile)
  EntrySize,    \* sizeof(FileEntry)
  DiskCount,    \* number of directory entries on the disk
  CpBuf,        \* CmdCp's buffer, 20480
  EditBuf,      \* Editor::Start's buffer, 10240
  LineSize      \* strlen(input) + 1 of a command line

ASSUME Ext4Assumption ==
  /\ Empty \in Contents
  /\ NoFile \notin Names \cup Contents
  /\ DiskNames \subseteq Names
  /\ DiskContent \in [DiskNames -> Contents]
  /\ ContentSize \in [Contents -> Nat]
  /\ DiskBlocks \in [DiskNames -> Nat]
  /\ {NodeSize, EntrySize, DiskCount, CpBuf, EditBuf, LineSize} \subseteq Nat
  /\ BlockSize \in Nat \ {0} /\ BlockSize % 4 = 0

VARIABLES
  block_size,   \* 0 when no ext4 disk was found at boot
  vfs,          \* the list from vfs_root on, newest first
  heap_curr,    \* the kernel heap's bump pointer
  status,       \* "run", "hung" (a call that never returns) or "oom"
  editing,      \* the editor's filename, or NoFile
  draft,        \* the editor's content
  op            \* the last command completed, with what it showed

vars == <<block_size, vfs, heap_curr, status, editing, draft, op>>

File == [name : Names, content : Contents, is_dir : BOOLEAN]

Op(cmd, a, b, out) == [cmd |-> cmd, a |-> a, b |-> b, out |-> out]

-----------------------------------------------------------------------------
(* Ext4's operations as functions of the list v.                           *)

NewFile(n, dir) == [name |-> n, content |-> Empty, is_dir |-> dir]

\* Positions ReadFile and WriteFile stop at: directories are passed over.
FilesAt(v, n) == {k \in DOMAIN v : ~v[k].is_dir /\ v[k].name = n}

\* Positions Rm stops at: any node with the name.
NodesAt(v, n) == {k \in DOMAIN v : v[k].name = n}

FirstOf(S) == CHOOSE k \in S : \A j \in S : k <= j

\* The names the directory parser yields; none without a disk.
DiskEntries == IF block_size > 0 THEN DiskNames ELSE {}

\* n is in GetFileList's answer: disk entries first, then the nodes.
InList(v, n) == n \in DiskEntries \/ NodesAt(v, n) # {}

\* Ext4::ReadFile: the list first, then the disk; unknown names read empty.
ReadFile(v, n) ==
  IF FilesAt(v, n) # {} THEN v[FirstOf(FilesAt(v, n))].content
  ELSE IF n \in DiskEntries THEN DiskContent[n] ELSE Empty

\* Mutant of TouchVfs: only the list is searched, not the disk's directory.
TouchVfsBlind(v, n) ==
  IF NodesAt(v, n) # {} THEN v ELSE <<NewFile(n, FALSE)>> \o v

\* Ext4::Touch
TouchVfs(v, n) == IF InList(v, n) THEN v ELSE <<NewFile(n, FALSE)>> \o v

\* Ext4::DirExists: true for a directory node, and for everything else.
DirExists(v, n) == (\E k \in DOMAIN v : v[k].is_dir /\ v[k].name = n) \/ TRUE

\* Ext4::MkDir
MkDirVfs(v, n) == IF DirExists(v, n) THEN v ELSE <<NewFile(n, TRUE)>> \o v

\* The list without its node at position k.
Unlink(v, k) == [i \in 1..(Len(v) - 1) |-> IF i < k THEN v[i] ELSE v[i + 1]]

\* Mutant of RmVfs: the head is moved even when the node has a predecessor.
RmVfsHead(v, n) ==
  IF NodesAt(v, n) = {} THEN v
  ELSE SubSeq(v, FirstOf(NodesAt(v, n)) + 1, Len(v))

\* Ext4::Rm: a disk name is only reported as unsupported.
RmVfs(v, n) ==
  IF NodesAt(v, n) = {} THEN v ELSE Unlink(v, FirstOf(NodesAt(v, n)))

\* WriteFile(n) returns: it finds n in the list, at once or after Touch.
\* Otherwise Touch has found n elsewhere and WriteFile calls itself forever.
WriteReturns(v, n) == FilesAt(v, n) # {} \/ ~InList(v, n)

\* The node f with its data replaced.
WithContent(f, c) == [name |-> f.name, content |-> c, is_dir |-> f.is_dir]

\* Ext4::WriteFile, when it returns.
WriteVfs(v, n, c) ==
  LET t == IF FilesAt(v, n) # {} THEN v ELSE TouchVfs(v, n)
  IN  [t EXCEPT ![FirstOf(FilesAt(t, n))] = WithContent(@, c)]

-----------------------------------------------------------------------------
(* heap_curr after the same operations; NULL once a request has failed.    *)
(* Requests whose sizes are multiples of 4 and that follow each other are  *)
(* added up.                                                               *)

\* The inode table and the directory, read into two fresh blocks.
RootHeap(h) == IF block_size > 0 THEN Bump(h, 2 * block_size) ELSE h

ListCount(v) == (IF block_size > 0 THEN DiskCount ELSE 0) + Len(v)

\* GetFileList: one pass to count, the array, one pass to fill.
ListHeap(h, v) ==
  IF ListCount(v) = 0 THEN RootHeap(h)
  ELSE RootHeap(Bump(RootHeap(h), EntrySize * ListCount(v)))

ReadHeap(h, v, n) ==
  IF FilesAt(v, n) # {} THEN h
  ELSE IF n \in DiskEntries
       THEN Bump(RootHeap(h), DiskBlocks[n] * block_size)
       ELSE RootHeap(h)

TouchHeap(h, v, n) ==
  IF InList(v, n) THEN ListHeap(h, v) ELSE Bump(ListHeap(h, v), NodeSize)

MkDirHeap(h, v, n) == IF DirExists(v, n) THEN h ELSE Bump(h, NodeSize)

WriteHeap(h, v, n, c) ==
  Bump(IF FilesAt(v, n) # {} THEN h ELSE TouchHeap(h, v, n), ContentSize[c])

\* Shell::Execute copies the command line.
LineHeap == Bump(heap_curr, LineSize)

-----------------------------------------------------------------------------
\* Ext4::Init, before interrupts are on; one block is read for the group
\* descriptors of a mounted disk.
Init ==
  /\ block_size \in {0, BlockSize}
  /\ vfs = <<>>
  /\ heap_curr = IF block_size > 0 THEN KmallocCurr(HeapStart, block_size)
                 ELSE HeapStart
  /\ status = "run"
  /\ editing = NoFile
  /\ draft = Empty
  /\ op = Op("boot", Empty, Empty, Empty)

\* A command's end: its requests took the heap to h, the list is now v, and
\* o is what the user sees; or one of the requests failed.
Finish(h, v, o) ==
  \/ /\ h # NULL
     /\ heap_curr' = h
     /\ vfs' = v
     /\ op' = o
     /\ UNCHANGED status
  \/ /\ h = NULL
     /\ status' = "oom"
     /\ UNCHANGED <<heap_curr, vfs, op>>

\* The command's WriteFile never returns.
Hang ==
  /\ status' = "hung"
  /\ UNCHANGED <<heap_curr, vfs, op>>

\* WriteFile(n, c) at the end of a command that has taken the heap to h;
\* the command goes on with the list it leaves.
Write(h, n, c, v, o) ==
  IF WriteReturns(vfs, n) THEN Finish(WriteHeap(h, vfs, n, c), v, o)
  ELSE Hang

\* The shell has the keyboard.
AtShell == status = "run" /\ editing = NoFile

Shell == AtShell /\ UNCHANGED <<block_size, editing, draft>>

\* CmdLs: lists the disk; the list of virtual files is not consulted.
CmdLs == Shell /\ Finish(RootHeap(LineHeap), vfs, op)

CmdCat(n) ==
  /\ Shell
  /\ Finish(ReadHeap(LineHeap, vfs, n), vfs,
            Op("cat", n, n, ReadFile(vfs, n)))

CmdMkdir(n) ==
  /\ Shell
  /\ Finish(MkDirHeap(LineHeap, vfs, n), MkDirVfs(vfs, n),
            Op("mkdir", n, n, Empty))

CmdRm(n) ==
  /\ Shell
  /\ Finish(LineHeap, RmVfs(vfs, n), Op("rm", n, n, Empty))

CmdTouch(n) ==
  /\ Shell
  /\ Finish(TouchHeap(LineHeap, vfs, n), TouchVfs(vfs, n),
            Op("touch", n, n, Empty))

CopyHeap(s) == ReadHeap(Bump(LineHeap, CpBuf), vfs, s)

CmdCp(s, d) ==
  /\ Shell
  /\ Write(CopyHeap(s), d, ReadFile(vfs, s),
           WriteVfs(vfs, d, ReadFile(vfs, s)), Op("cp", s, d, Empty))

\* CmdMv: cp, then rm of the source.
CmdMv(s, d) ==
  /\ Shell
  /\ Write(CopyHeap(s), d, ReadFile(vfs, s),
           RmVfs(WriteVfs(vfs, d, ReadFile(vfs, s)), s),
           Op("mv", s, d, Empty))

\* GetAutocompleteSuggestion when no command has the prefix: the file list
\* is built (and leaked) for every TAB.
Tab == Shell /\ Finish(ListHeap(heap_curr, vfs), vfs, op)

\* CmdEdit, CmdNano: Editor::Start
CmdEdit(n) ==
  /\ AtShell
  /\ LET h == ReadHeap(Bump(LineHeap, EditBuf), vfs, n)
     IN  /\ Finish(h, vfs, Op("open", n, n, ReadFile(vfs, n)))
         /\ editing' = IF h # NULL THEN n ELSE NoFile
         /\ draft' = IF h # NULL THEN ReadFile(vfs, n) ELSE draft
  /\ UNCHANGED block_size

\* Typing and deleting in the editor: any other content.
EditType(c) ==
  /\ status = "run" /\ editing # NoFile
  /\ c # draft
  /\ draft' = c
  /\ UNCHANGED <<block_size, vfs, heap_curr, status, editing, op>>

\* Ctrl+S
EditSave ==
  /\ status = "run" /\ editing # NoFile
  /\ Write(heap_curr, editing, draft, WriteVfs(vfs, editing, draft),
           Op("save", editing, editing, draft))
  /\ UNCHANGED <<block_size, editing, draft>>

\* Ctrl+Q
EditQuit ==
  /\ status = "run" /\ editing # NoFile
  /\ editing' = NoFile
  /\ draft' = Empty
  /\ UNCHANGED <<block_size, vfs, heap_curr, status, op>>

Next ==
  \/ CmdLs
  \/ Tab
  \/ \E n \in Names : \/ CmdCat(n)
                      \/ CmdMkdir(n)
                      \/ CmdRm(n)
                      \/ CmdTouch(n)
                      \/ CmdEdit(n)
  \/ \E s, d \in Names : CmdCp(s, d) \/ CmdMv(s, d)
  \/ \E c \in Contents : EditType(c)
  \/ EditSave
  \/ EditQuit

Spec == Init /\ [][Next]_vars

-----------------------------------------------------------------------------
\* Type invariant; heap_curr stays inside the heap after any command.
TypeOK ==
  /\ block_size \in {0, BlockSize}
  /\ vfs \in Seq(File)
  /\ heap_curr \in 0..HeapEnd
  /\ status \in {"run", "hung", "oom"}
  /\ editing \in Names \cup {NoFile}
  /\ draft \in Contents

Unique(v) == \A i, j \in DOMAIN v : v[i].name = v[j].name => i = j

OffDisk(v) == \A i \in DOMAIN v : v[i].name \notin DiskEntries

\* No two nodes of the list have the same name, whatever sequence of touch,
\* cp, mv, save, rm and mkdir built it: a second node would be unreachable
\* for cat and would come back to life after rm (ext4.cpp:219-257).
NamesUnique == Unique(vfs)

\* A virtual file never hides a file of the disk: Touch refuses names the
\* disk lists, and it is the only way into the list (ext4.cpp:237-257).
NoShadow == OffDisk(vfs)

\* The list stays in order: its types, each name once, none of the disk's.
FilesInv == TypeOK /\ NamesUnique /\ NoShadow

\* The refinement mapping: what each name holds, in the list or on the disk.
Absent == NoFile

View(v) ==
  [n \in Names |-> IF FilesAt(v, n) # {} \/ n \in DiskEntries
                   THEN ReadFile(v, n) ELSE Absent]

FS == INSTANCE FileStore WITH
  ro <- DiskEntries,
  store <- View(vfs),
  up <- status = "run"

\* The list and the disk implement the abstract file store: each command
\* changes the one name it is about, reads show the last content written,
\* mv removes exactly its source, and files on the disk never change.
ImplementsFileStore == FS!Spec

\* Every save in the editor completes.  Its status line offers
\* "[EDIT] Ctrl+S: Save" (Editor.cpp:76) for any file it opened, also one
\* from the disk.
SaveCompletes == editing # NoFile => status # "hung"

=============================================================================
