# Formal models of the 6th-semester laboratory programs

The repository holds laboratory programs in C: operating systems (file systems
in a file, threads, shared memory, semaphores, a shell) and computer networks
(chat, sorting, packet forwarding, ARP). This directory holds TLA+ models of the
programs with state that outlives a call or is shared between actors, the TLC
configurations that check them on small instances, and proofs for the TLA+ proof
system (TLAPS) that hold for every instance.

- `PROJECT.json` maps every definition to the C lines it models, and lists the
  runs, the mutants, the hazards and the theorems.
- Paths below are relative to `src/Operating System/Assignment1/` (OS) or
  `src/Computer Networks/` (CN).

Contents: [1 Inventory](#1-inventory) - [2 Modules](#2-modules) -
[3 Runs](#3-runs) - [4 Assumptions and bounds](#4-assumptions-and-bounds) -
[5 Fairness](#5-fairness) - [6 Proofs](#6-proofs) -
[7 What the code does not keep](#7-what-the-code-does-not-keep) -
[8 What is not modelled](#8-what-is-not-modelled) - [9 Plan](#9-plan)

## 1 Inventory

### 1.1 Modelled

**myfsv2, the block file system** (OS `Assignment 8.4/myfsv2.c`).
*State:* a volume file of fixed-size blocks. Block 0 holds the superblock
(geometry, head of the free chain), block 1 starts the root directory; every
block ends in the number of the next block of its chain. *Operations:*
`mymkfs`, `mycopyTo`, `mycopyFrom`, `myrm`, `mymkdir`, `myrmdir`,
`myreadBlock`, `mystat`, each a process of its own that opens the volume, reads
the superblock and works with `pread` and `pwrite`. *Interactions:* commands meet
only in the volume. *Hard:* a structure update takes several writes, so that a
kill or another command may fall between them; allocation works on a private copy
of the superblock; a full directory grows in the middle of an insertion.
*Correct when:* free chain, directory and files never share a block; a file is
whole as soon as its entry is seen; nothing is lost unless a command was killed
or gave up; a command ends whatever it meets.

**Bitmap block store** (OS `Assignment 8.1/solution.c`, and the variant
`never_submit_code.c`). *State:* a superblock (number of blocks, counts of used
and free ones, bitmap) and blocks that hold zeroes when free and ones when used.
*Operations:* `init_File_dd`, `get_freeblock`, `free_block`, `check_fs`; each
opens the file, reads the superblock, writes it back whole and then fills the
block. *Hard:* two writes for one change; overlapping callers; invalid block
numbers. *Correct when:* the counts agree with the bitmap; no block is handed out
while held; the checker complains only for a cause.

**Flat file system** (OS `Assignment 8.3/myfsv1.c`, and the tools `mymkfs.c`,
`mycopy_to.c`, `mycopy_from.c`, `myrm.c` of `Assignment 8.2`). *State:* 8 metadata
blocks of descriptors (name, size) and one data block per descriptor. The tools of
8.2 read and write one descriptor at a time; those of `myfsv1.c` copy the whole
table in and out, block by block. *Hard:* a table written in eight steps, by two
sets of commands that update it in a different order; a full table. *Correct
when:* names are unique, a copy that reports success is stored, a reader gets one
whole file, the volume behaves as an abstract file store.

**Circular queue** (OS `Assignment7/Part 2/circular_queue.c`). *State:* a ring of
items with `front` and `rear`, a mutex, two condition variables, the thread lists
of the manager. *Operations:* `enQ`, `deQ`, the loops of `producer` and
`consumer`, and the menu of `manager` (add, delete, exit). *Hard:* lost and
spurious wakeups, the wrapped index, `pthread_cancel` inside the critical
section. *Correct when:* the ring is a bounded FIFO queue, no wakeup is lost,
and what can be taken is taken.

**Mutex demonstrations** (OS `Assignment7/Part 1/threadMutex1.c`,
`threadMutex2.c`). *State:* one shared integer and one or two mutexes. In the
second program each side unlocks the mutex the other side locks. *Correct when:*
no increment is lost and, in the second, every value is read exactly once before
the next one is made and no thread set waits for ever.

**Chained file system** (OS `Assignment 8.3/solution.c`). *State:* a superblock that
counts free blocks, one directory block, data blocks that end in the number of the
next one. A block is free when all its bytes are zero; nothing else says so.
*Operations:* `mymkfs`, `mycopyto`, `mycopyfrom`, `myrm`. *Hard:* a kill between the
superblock and the block it counts; a volume that is shorter than its superblock says;
file text that looks like a free block. *Correct when:* the count follows the blocks,
the volume behaves as an abstract file store, what is read back is what was stored.

**Shared memory server and workers** (OS `Assignment5/Server.c`, `Worker.c`). *State:* a
segment with a text, the process that computed it and a status word (0 idle, 1
posted, 2 claimed, 3 done, 4 taken, -1 server gone). *Operations:* the server's loop,
its SIGINT handler, the worker's loop. *Hard:* the worker's test and claim are two
steps; each worker reads the status word twice a round; the server is stopped and started
while workers run. *Correct when:* the server reports the length of its own
text, is answered while some worker runs, and workers end when the server is gone.

**System V semaphore tools** (OS `Assignment6/semDemo.c`, `t.c`, `sem1.c`). *State:*
a semaphore set of the kernel under one key: values, what each process would undo, sleepers.
*Operations:* the commands `create`, `set`, `get`, `inc`, `dcr`, `rm` and `listp` of both tools, each a
process that makes one call and ends; `sem1`, which sets the semaphore, forks, and lets
both processes pass it as a mutex. *Hard:* every operation has SEM_UNDO, so that a kill gives
back what was taken, and the end of a tool takes back what it gave; undoing is cut at both ends of
the range; a set goes away under a sleeper; `sem1` sets the value that another `sem1` uses.
*Correct when:* the books balance, `sem1` excludes, those who sleep are served although others die.

**UDP packet forwarder** (CN `Assignment4/ServerPacketFwd.c`, `ClientPacketGen.c`). *State:* the
generator's packet number, destination and count of answers, and the datagrams under way; the
forwarder has none. *Operations:* send, wait a second, look at what came; check a packet and send it
back with its TTL decremented, or an error. *Hard:* datagrams are lost, late, doubled and overtake
each other; packets of exactly the largest size. *Correct when:* what is counted was forwarded, a
loss costs the lost packet only, the generator ends.

**Enhanced chat** (CN `Assignment3(ext)/Problem-4/`). *State:* in each program the flag `running`
that its two threads share, and the stream of bytes between the programs. *Operations:*
`send_thread`, `recv_thread`, joining both. *Hard:* one thread waits for the user while the other
learns that the chat is over; nothing in the stream separates the lines, and what one `recv` returns is compared with
`Bye`, so that a `Bye` that comes with other bytes or in pieces is overlooked, and other bytes can read as one; a
peer that closes first, noticed by `recv`, by `send` or as SIGPIPE. *Correct when:* all that
arrives is shown until a program takes what it reads for a Bye or its own user says it, and a Bye ends both programs.

**mysh, a shell** (OS `Assignment9/mysh.c`). *State:* the descriptors of the shell and of every process
of the line it runs, the pipes, the processes that were not waited for. *Operations:* the operators
`;`, `&&`, `||`, pipelines, builtins, redirections, forks, waits. *Hard:* the second half of a pipeline
is a process that makes the next pipe; every copy of a pipe end must be closed in every process; a
fork that fails half way; redirections made in the shell itself. *Correct when:* a
pipeline that is over has left no process and no pipe end behind, the status reaches `&&` and `||`, a
line comes to its end.

### 1.2 Not modelled

| Component | Why |
|---|---|
| ARP request, CN `Assignment5/ARP-App.c` | One request and one loop around `select`; most of the program is the layout of a frame. What the alarm and a reply can do to the flag is a hazard in `PROJECT.json`. |
| Factorial over shared memory, OS `Assignment4/Problem2` | A smaller form of the shared memory server: one parent, one child, two flags that each have one setter and one clearer. |
| Turn-taking chat, sorter and time servers, CN `Assignment3*/` | A request and an answer in turn, with one process or thread for each connection and nothing shared between connections. |
| Matrix multiplication, OS `Assignment7/Part 1/matrixmult*.c` | Workers write cells of their own and are joined. |
| Demonstrations, boot code, notebooks | No state beyond a call. |

## 2 Modules

| Module | Role |
|---|---|
| `FileStore` | abstract: named entries in directory cells that appear whole, stay, and disappear one at a time or all at once |
| `MyFSv2` | the eight commands of `myfsv2.c`, with `TypeOK` and `NoUnderflow` |
| `MyFSv2Props` | chains, the other properties, the refinement mapping to `FileStore` |
| `MCMyFSv2` | menus of commands for its two runs |
| `MyFSv2Proofs` | every safety property of `MyFSv2Props` and the refinement of `FileStore`, as theorems (section 6) |
| `BitmapStore`, `MCBitmapStore`, `BitmapStoreProofs` | both bitmap programs, their run, their proofs |
| `FlatFS`, `MCFlatFS`, `FlatFSProofs` | both sets of flat file system commands, mapped to `FileStore`, their run, their proofs |
| `BoundedQueue` | abstract: a FIFO queue with a capacity |
| `CircularQueue`, `MCCircularQueue`, `CircularQueueProofs` | the ring and its threads, the run, the proofs |
| `ThreadMutex`, `MCThreadMutex` | both mutex programs, the run |
| `ChainedFS`, `MCChainedFS`, `ChainedFSProofs` | the four commands of `solution.c`, mapped to `FileStore`, their run, their proofs |
| `SharedTask`, `MCSharedTask` | server and workers, the run |
| `SemTools`, `MCSemTools` | the semaphore programs and what they use of the kernel, the run |
| `SyncProofs` | the proofs about `ThreadMutex`, `SharedTask` and `SemTools` |
| `UdpForward`, `MCUdpForward` | generator, forwarder and network, the run |
| `ChatPeers`, `MCChatPeers` | both chat programs and the stream between them, the run |
| `NetworkProofs` | the proofs about `UdpForward` and `ChatPeers` |
| `Mysh`, `MCMysh`, `MyshProofs` | the shell, its children and the programs they run, the lines of the run, the proofs |

`SyncProofs` and `NetworkProofs` extend several models at once; that is why `ThreadMutex`, `SharedTask` and `ChatPeers` name
their common definitions with a prefix of their own (`MutexInit`, `TaskInit`, `ChatInit`).

**How state corresponds to code.** In `MyFSv2`, `BitmapStore` and `FlatFS`, disk state is
global (`blk`, `sbHead`; `sb`, `block`; `table`, `data`) and a command is a record of
its C locals in `pr[p]`, with a `pc` naming the next system call. One action is
what the command does from one system call to the next. A comment "Mutant" marks a
broken form of the definition that follows: it shows that some property depends
on that definition and is not part of the specification.

**MyFSv2.** `Start` opens the volume and reads the superblock (`head` is the local
copy of `first_free_block`); `Resolve`, `Traverse` are `traverse_path`;
`AllocRead`, `AllocZero`, `AllocSuper` are `allocate_block`; `CopyLink`,
`CopyWrite` are the loop of `mycopyTo`; `Ins*` are `dir_insert_entry`; `Find` is
`dir_find_entry`; `ReadData` is `mycopyFrom`; `Skip`, `ReadOne` are
`myreadBlock`; `RmRead`, `RmdirCheck`, `FreeWrite`, `FreeSuper`, `ClearRead`,
`ClearWrite` are `myrm` and `myrmdir`; `Mkfs*` are `mymkfs`. `Crash` kills a command.

**FlatFS.** `Start` does what precedes the first access to the volume. `Scan`,
`CopyMeta`, `CopyData`, `ClearName` and `Mkfs82` are the tools of 8.2; `ReadTable`,
`Decide*`, `WriteData`, `WriteTable` and `Mkfs*` those of `myfsv1.c`; `ReadData` is
shared. `mixed` and `damaged` are history variables: a tool of 8.2 wrote
since the last format; a `mycopyTo` on a full table was killed after it had
written over the last metadata block.

**BitmapStore.** `strict` says which program it is. `held` and `raced` are history
variables: the blocks callers were given and have not freed, and whether two calls
overlapped.

**CircularQueue.** A thread's `pc` is one of the points where another thread can run
or a cancelled one can stop. `fprintf` is such a point and some calls of it are
inside the critical section; a thread that is cancelled there never releases
the mutex.

**ThreadMutex.** `two` says which program it is. `made` and `taken` are history variables.

**ChainedFS.** One command runs at a time, so its locals are one record `l`, and a step
ends at each write. `length` is the length of the host file: `mymkfs` writes two blocks,
and `Extend` stands for a user who makes the file as long as the superblock says.

**SharedTask.** Every access of either process to the segment is an action; one server runs at a time. `asked`,
`seen`, `alone` and `stop` are history variables: the length of the last text, who found
status 1 since, whether only one worker was ever at work on it, and how the server ended.

**SemTools.** A process is idle or runs one command; `semid` names the set the key stands for, and a
process keeps the identifier it was given, which may be stale. `adj` is the kernel's `semadj`. `base`,
`cut` and `trusted` are history variables: what a semaphore was last set to, on which side an undo was cut
short since, and whether semaphore 0 was set to 1 while nobody was inside and only used as a mutex since.

**UdpForward.** The forwarder is one action, as it keeps nothing. `toServer` and `toClient` are sets, so datagrams
overtake each other; `recvbuf` is a queue. A late answer is one that arrives when the generator is at another packet. Line 138 of
`ClientPacketGen.c` is damaged in the repository (`continue;se if (mt == 1) {`) and does not compile; it is read
as `continue; }`.

**ChatPeers.** The two programs differ only in how they connect, and the module starts where they are connected. One
action is what a thread does between two points where the other can see it. A line is a sequence of bytes, `chan` is the
bytes of all lines that were sent and not read, one after the other, and `Recv` takes any number of them from its front and compares these with
`Bye`. `said`, `eof`, `missed` and `mistaken` are history variables: what the user of a program did; whether it read the last bytes of a Bye without
seeing it; whether it took bytes for a Bye that were not the peer's.

**Mysh.** A process is named by its place in the pipeline: `<<"rest", 0>>` is the shell, `<<"stage", d>>` and
`<<"rest", d>>` are the two children at pipe `d`, and each has at most one program of its own. `in`, `out` and
`held` are where its descriptors lead. Programs are modelled by what they do with standard input and output:
`writer` and `yes` write, `reader` reads to the end, `head` reads once, `missing` is not found. Builtins are grouped:
`print` stands for `echo`, `pwd` and `clear`, `set` for `cd` and `export`.

## 3 Runs

The runs use two TLC workers; `chat` takes about two minutes, each of the others seconds to about a minute and a half.

| Run | Configuration | Shows |
|---|---|---|
| `myfsv2` | `MCMyFSv2.cfg` | One shell gives every command, in any order, to a volume of six blocks. The chains stay apart (`ChainsApart`) at every step of every command and after a kill; an entry is never seen before its file is whole (`FilesWhole`); a command that was not killed loses no block (`NoLeak`); `myrm` and `myrmdir` of an entry in the first directory block remove the entry and free its chain (`RmRemoves`); every step creates one entry, removes one, empties the volume or shows nothing (`ImplementsStore`); counters do not wrap (`NoUnderflow`); every command ends (`EveryCommandEnds`). |
| `myfsv2_reader` | `MCMyFSv2Reader.cfg` | A writer that only adds and a reader at the same time, with a directory that grows by a block for each entry. Chains stay apart while the directory grows, and what the reader copies out is one whole file (`ReaderSeesWhole`). |
| `bitmap` | `MCBitmapStore.cfg` | Two processes make every call, overlap as they like, and one can be killed. The counts always agree with the bitmap (`SuperSound`). As long as calls do not overlap, no held block is handed out (`NeverHandedTwice`), and a kill spoils at most one block (`OneBlockPerCrash`). `check_fs` fails only for a cause (`ChecksFailForCause`). |
| `flat` | `MCFlatFS.cfg` | One shell changes a volume with the commands of either set, another reads. A copy that found a descriptor is stored (`CopyWithRoomIsStored`); a reader gets one whole file unless its descriptor changed meanwhile (`ReadsWhole`); the volume implements `FileStore`. |
| `queue` | `MCCircularQueue.cfg` | Two producers and two consumers on a ring of three slots, all items, one deletion, one spurious wakeup. The ring implements `BoundedQueue` even when threads are cancelled (`ImplementsQueue`); before the first deletion no wakeup is lost (`NoLostWakeup`) and items are put and taken (`ItemsMove`). |
| `mutex` | `MCThreadMutex.cfg` | Two producers and three consumers of both programs. No increment is lost (`EveryIncrementCounts`); in `threadMutex2.c` each value is handed over once (`HandedOver`), threads never all wait (deadlock is checked) and both sides go on (`GoesOn`). |
| `chained` | `MCChainedFS.cfg` | Every command, with files that have no block of zeroes, one kill, and a volume that is extended or not. The count differs from the free blocks by at most one per kill, also when it wraps (`CountDrift`); reading gives what the entry holds (`ReadsBack`); the volume implements `FileStore`. |
| `shared_task` | `MCSharedTask.cfg` | Two workers and a server that is interrupted anywhere and started twice. Reports are right when one worker alone was at work on the text (`ReportRight`); a server that waits is answered, however workers overtake each other (`ServerAnswered`); a server that stops while no worker is at work takes all workers with it (`WorkersEndAfterRest`). |
| `sem` | `MCSemTools.cfg` | Three processes, a kill anywhere, a `fork` that fails, values and numbers out of range, sets removed and created under those that use them. Values and pending undos add up to what was set unless an undo was cut short (`UndoBalances`); the processes of all `sem1` exclude each other until the semaphore is tampered with (`MutualExclusion`); a sleeper that asks for no more than was set is served, although the holder may be killed (`WaiterServed`). |
| `udp` | `MCUdpForward.cfg` | Four packets of the largest size, any loss, delay and reordering, any `sendto` that fails, one doubled datagram, one stranger's. What is counted was forwarded (`CountedWasForwarded`); losses cost only themselves (`LossCostsItself`); the generator ends, also when nothing ever comes back (`GeneratorEnds`). |
| `chat` | `MCChatPeers.cfg` | The whole life of a chat on a stream of bytes that `recv` joins and cuts. A program stops showing what arrives only when its own user says Bye, when it takes bytes for a Bye, or when it has shown everything and the other program is done for one of these reasons (`ShowsToTheEnd`); a Bye ends both programs, or it was overlooked by a program that has no more to send (`ByeEndsBoth`). |
| `mysh` | `MCMysh.cfg` | Two of ten lines one after the other, with up to three pipes, and one failing `fork` or `pipe` anywhere. No process and no pipe end is left behind (`NothingLeftBehind`); what runs follows from the status of each pipeline (`RunsByStatus`); the shell's own descriptors change only through external commands that are alone in their pipeline (`TerminalKept`); every line comes to its end (`EveryLineEnds`). |

All runs but `mutex` set `CHECK_DEADLOCK FALSE`: the number of commands, lines or packets is bounded, so
they do stop; a semaphore may be waited for that nobody raises; and the queue stops when the program exits, when every thread waits for
the user at the menu, or when a cancelled thread took the mutex with it.

Each property of each run has a mutant in `PROJECT.json`: a change of one definition, of the kind a slip
in the C code would be, under which TLC finds that property violated with the same configuration.

The type invariants are not among the runs' properties: they are proved (section 6). Where a theorem about the flat or the chained
volume has a condition on the constants, the module of the run assumes it too (`Conditions` in `MCFlatFS` and `MCChainedFS`), so that TLC
evaluates it on the instance; those of `MyFSv2` are about menus and `Fragile` and can be read off the two `.cfg` files.

## 4 Assumptions and bounds

Assumptions of the models:

- A `read` or `write` of one block, one descriptor or one superblock is one step. A
  kill falls between steps. The kernel's cache survives it: power loss and reordered
  disk writes are left out.
- Errors of the host (failing I/O, a full host disk, no memory) are left out. The
  errors the programs produce themselves are in: a volume that is full, a file that is
  not there, a name that is too long, a read past the end of the volume.
- The tools of 8.1 and 8.2 use stdio: a buffered write reaches the file at the
  next `fseek`, `fflush` or `fclose`, and that is the step.
- No command is given to a volume that has never been formatted, or while
  `mymkfs` runs. `mymkfs` of 8.2 (truncate and extend) is one step.
- File text is never mistaken for zeroes. A size counts whole blocks in `MyFSv2`, so a
  last block that is partly filled looks like a full one; in `FlatFS` a size is an
  abstract number of bytes, with one value above the block size.
- `MyFSv2`: paths are sequences of names, and a path of two components is taken as far
  as the code gets with it (7).
- `FlatFS`: `mycopyTo` with no hole writes 16 bytes before the local table. The
  model lets it die there or go on, and lets the text that reaches the last
  metadata block look like any mixture of free and used descriptors. A volume that was
  damaged in that way counts as empty for `ImplementsStore` until it is formatted.
- `CircularQueue`: threads are numbered in the order of their creation; the item
  a producer puts is chosen when it is stored; `clearResources` and the return of `main`
  are one step, since no property looks at the queue after that.
- `ThreadMutex`: a default mutex of glibc that a different thread unlocks is released.
  POSIX leaves that undefined; the second program depends on it.
- `ChainedFS`: no command is given to a volume whose root block was not written. A
  free count is taken modulo `Width`, which stands for 2^32.
- `SharedTask`: one server runs at a time; a second one started beside it would share the segment and is left out. Reads and writes of the segment take effect in the order of the program
  (x86, with the C library's calls between them). The server's text is written in one
  step, so that a worker left over from an earlier server never reads half of it. Workers
  are not interrupted.
- `SemTools`: what a process would undo is not itself limited in range; in the kernel an operation that would leave
  that range fails as one that leaves the range of the value does. `SEMVMX` is at once the largest value and the largest
  positive `short`, as it is on Linux, and the number of a semaphore is taken modulo twice as much and two, as an `unsigned short` is. A program that would reuse the memory of an identifier is not in: identifiers are numbered.
- `UdpForward`: a `sendto` may fail at any packet; an error of `recvfrom` other than the timeout does what the timeout does.
  The socket's buffer has no limit; a datagram it has no room for is a lost one.
- `ChatPeers`: a `send` puts all bytes of a line into the stream in one step, when the buffers have room for them; as `recv` returns any number
  of the bytes that are there, it can also return only the first part of a line. When a program closes its socket with bytes unread the
  peer may get any first part of what it sent, and finds the connection reset.
- `Mysh`: descriptors never run out (`handle_redirection` leaks two at every external command and one more at each redirection), a program's
  descriptors close when it ends, and the output buffer of a builtin is written before the process goes on. Tokens fit the
  program's arrays. A terminal or a file gives a program one item and then the end. A program ends with 0 or 1, or 127 when it is not found.

Bounds, all CONSTANTS with their value in the configuration:

| Bound | Value | Why it is enough |
|---|---|---|
| `NB`, `NE` | 6 blocks of 3 entries; reader: 8 blocks of 1 | four free blocks hold two files of two blocks and then nothing more, so allocation fails in the middle of a file too; one entry per block makes every second insertion extend the directory |
| `MaxLen` | 2 | empty file, one block, one link |
| `MB`, `EB` | 2, 2 | a table with a first and a last block, each with more than one descriptor |
| `MaxStarts`, `MaxCalls` | 3 to 6 commands | format, fill, remove, fill again, read |
| `MaxCrashes` | 1 | a kill at any point and the commands after it |
| `Cap`, `Sizes` | 3; 1, 3, 4 | less than, as many as, and more than the bitmap holds |
| `N`, `MaxProducers`, `MaxConsumers`, `MaxDeletes`, `MaxSpurious` | 3, 2, 2, 1, 1 | the ring wraps, two threads of a kind compete for one signal, one is cancelled anywhere |
| `NB`, `NE`, `Width` of `ChainedFS` | 5, 3, 8 | three data blocks: a file of two and one of one fill the volume, and the count can wrap |
| `Workers`, `Lengths`, `MaxServers` | 2; 5, 12; 2 | two workers for one task, one left over from the first server, answers of one and of two digits |
| `Procs`, `MaxStarts`, `MaxKills`, `SEMVMX`, `MaxSems` of `SemTools` | 3, 3, 1, 3, 2 | two processes of one `sem1` and a third program that interferes; values reach both ends of their range, an amount is converted to a negative `short`, and the number 8 to semaphore 0 |
| `num_packets`, `P`, `TTL` | 4, 1000, 2 | an answer can be late by more than one packet; the payload is the largest there is, so the length is at its limit |
| `Strays`, `MaxDoubled`, `MaxStrays` | 5 datagrams, 1, 1 | an empty datagram, an error, a whole packet with a number in use, a cut one, an unknown type |
| `Lines`, `BUFFER_SIZE`, `Capacity` of `ChatPeers` | the empty line, `B`, `ye`, `Bye`; 4; 4 | a Bye cut at each place or joined to the byte before it; `B` and `ye` that join to `Bye`; one `recv` holds three bytes, as many as a Bye has, and the stream one more |
| `Menu`, `Depth`, `MaxLines`, `MaxFailures`, `Capacity` of `Mysh` | 10 lines, 3, 2, 1, 1 | pipelines of one to four commands, each kind of program and builtin in each place, every operator after success and failure; what one line leaves behind meets the next; a writer writes more than a pipe holds |
| `M` | 3 | counts modulo 3: a lost or doubled step shows, since one changes the value by one |

`Fragile` names the operations that may be killed. In `MyFSv2` these are `mymkfs`,
`mycopyTo`, `mymkdir`: a kill of `myrm` between freeing the blocks and clearing the
entry leaves an entry into the free chain, by the order of the code. In `FlatFS` they
are `mycopyTo` and `myrm` of `myfsv1.c`: `mycopy_to` of 8.2 writes the descriptor first. In
`ChainedFS` they are `mymkfs` and `mycopyto`, for the reason given for `MyFSv2`.
Two writers at the same time are left out of the runs of `MyFSv2` and `FlatFS` for the
same reason: the code has no lock, and each of two writers loses the other's
change. These limits are listed as hazards. The theorems on types and counts do not assume them; those on chains
have to, and name them (`RemovalsEnd`, `NoZeroBlocks`, `OneWriter`, `KillsSpare`, section 6).

`SemTools` assumes that the processes are finitely many, as the books are a sum over them. `Mysh` assumes that what stands
between two operators of a line is one command, which is how the line is cut, and that `Depth`, the bound on the processes of a line, is as large
as the longest pipeline of the menu needs (`LinesAssumption`). `FlatFS` assumes that there is a name and a content to store.

## 5 Fairness

- `MyFSv2`: `WF(Step(p))` for every running command: a process that can run gets
  the processor. Nothing obliges a shell to give commands, or a command to be killed.
- `CircularQueue`: `WF(~exited /\ Step(t))` for every thread: the scheduler runs every
  thread that stays runnable until the program ends. No strong fairness
  of the mutex is assumed: a thread that loses every race for it may wait for ever, and the
  properties speak of items, not of single threads. The user's menu choices and
  spurious wakeups are not fair.
- `ThreadMutex`: weak fairness of every thread's step, for the same reason.
- `SharedTask`: weak fairness of the server and of each worker. A weakly fair worker that sleeps
  looks at the status word again and again, and the server sets it to 1 once and waits, so
  nothing stronger is needed.
- `SemTools`: weak fairness of each process, and strong fairness of `SemOp(p)`. The kernel keeps the sleepers of a
  semaphore in a queue and goes through it at every change of the value, so that one whose operation becomes possible again and
  again is served. No command is obliged to be given.
- `UdpForward`: weak fairness of the generator and of its timeout. Nothing is asked of the network or of the forwarder.
- `ChatPeers`: weak fairness of both threads of each program, and a user who is asked again and again types a line that is
  not empty. A user need not say Bye. Without the last part nothing ends a program whose peer is gone: `send_thread`
  stays in `fgets`.
- `Mysh`: weak fairness of every process. That programs such as `reader` and `head` end when their input ends is part
  of what they are; `yes` never ends by itself.

## 6 Proofs

The theorems hold for every value of the constants that satisfies the named
assumptions of the modules: any number of blocks, slots, names, menus, processes, threads and kills.

| Module | Theorem | Argument |
|---|---|---|
| `MyFSv2Proofs` | `TypeCorrect` | `TypeOK` alone is not inductive: `CopyWrite`, `ReadData` and `Skip` decrement `rem` without a test of their own. The inductive invariant is `TypeOK /\ NoUnderflow`: at each of those program counters `rem` is positive, and while a file is copied it is at most the file's length, so that the chunk number is one the file has. One lemma per action, over one changed record. |
| | `CountsSound` | the same invariant gives `NoUnderflow` |
| | `ChainsStayApart` | `ChainsApart` at every step of every behaviour that is `Careful` throughout, that is, with one changing command at a time and removals of entries in the first directory block, where the operations that may be killed are not removals (`RemovalsEnd`). The argument is given below. |
| | `AddersStayApart` | the same without a condition on the behaviour, for menus that make only one shell change the volume (`OneShell`) and remove nothing (`NoRemovals`); the run `myfsv2_reader` is an instance |
| | `RemovalsRemove` | `RmRemoves` under the hypotheses of `ChainsStayApart`; the chain a removal has in its hands is the chain the entry pointed to, and the entry that is cleared is the entry that was found |
| | `FilesStayWhole`, `AddedFilesWhole` | `FilesWhole` under the hypotheses of `ChainsStayApart`, and without a condition on the behaviour under those of `AddersStayApart` (and so for each pair below); the invariant says besides what the blocks of each entry contain (`WInv`) |
| | `StoreImplemented`, `AddersImplementStore` | `ImplementsStore`: step simulation, from what each step does to the directory a user sees (`Effect`) |
| | `NothingLost`, `AddersLoseNothing` | `NoLeak`: every block is free, in the directory, in an entry, or in a command's hands (`LInv`) |
| | `ReadersSeeWhole`, `ReadersOfAddersSeeWhole` | `ReaderSeesWhole`, when no removal has found its entry while a `mycopyFrom` runs (`Undisturbed`): how far the copy is, and that its entry is still there (`RInv`) |
| `BitmapStoreProofs` | `TypeCorrect`, `SuperAlwaysSound` | A process holds a superblock in its locals between reading and writing, so `SuperSound` needs that every copy about to be written is sound too (`LocalOK`). Then whichever copy is written last is sound. Cardinality of the bitmap by the library's theorems on finite sets. |
| | `HandedOutOnce`, `SpoiltAtMostCrashes` | while no two calls overlap, at most one process is past its start (`Alone`), so the copy of the superblock it holds is the one on the disk; bits, bytes and `held` agree except at the one block that process is at, and except at as many blocks as there were kills |
| | `FailsForCause` | the same, and what the checker has counted so far is what the blocks it has passed contain |
| `CircularQueueProofs` | `TypeCorrect` | the types of the indices follow from `% N`, those of the thread lists from the library's facts on `Append` and `SubSeq` |
| | `WakeupsKept` | the inductive invariant is `TypeOK /\ NoneCancelled /\ NoLostWakeup`: no thread stops before a deletion (`NoneCancelled`), so a thread that changed the queue is at `signal` until it has woken one of the other kind or found none asleep. The exclusion by the mutex is not needed. |
| | `RingIsQueue` | step simulation from `TypeOK` alone: `Put` appends to the ring's content, `Take` removes its head, all else stutters; lemmas on `%` with a variable modulus |
| `SyncProofs`, on `ThreadMutex` | `MutexTypeCorrect`, `NoIncrementLost` | a producer between load and store is the only one past the lock, so its register is the current value |
| | `EachValueHandedOver` | the right to go on is one token: `p_mutex` free, `c_mutex` free, or the one thread inside (`Token`); where the token is says whether `sharedData` has been read (`Known`) |
| on `SharedTask` | `TaskTypeCorrect`, `ReportsRight` | status 1 is seen only while the server waits (`Offered`); from the new text to the report, what the one worker has done can be read off its program counter (`Progress`), and the server can see status 3 only after its last step (`OneClaim`) |
| on `SemTools` | `TypeCorrect`, `OneInside` | while `trusted` holds there is one unit (`OneUnit`): it is in the value, or one process has it as its adjustment, and only that process may be between P and V; every `sem1` that is not ending holds the set there is. V, the end and a kill hand the unit back, and the kernel finds room for it. |
| | `BooksBalance` | the sum of the pending undos is taken over a finite set of processes. Lemmas on such sums come first: one that changes at one process changes by as much; one of zeroes is zero. Then each step moves an amount between the value and one adjustment, or cuts an undo and says so in `cut`. |
| `NetworkProofs`, on `UdpForward` | `TypeCorrect`, `CountsForwarded` | every datagram under way is a request, or the reply to one, of a packet the generator has reached (`Underway`), and the forwarder accepts every request (`Answered`, from the checks of the command line) |
| | `LossesStayApart` | while nothing was late, doubled or foreign, the socket holds nothing or the reply to the packet the generator is at (`Turn`) |
| on `ChatPeers` | `ChatTypeCorrect`, `AllShown` | any lines over any bytes, any `BUFFER_SIZE` and `Capacity` (`ChatAssumption`). The flag is cleared, and a program killed, only for a cause (`FlagForCause`, `ThreadForFlag`), a Bye that was a mistake among them; a program that said Bye sends nothing more, so a Bye that was none can be told from the last bytes of one (`ByeIsLast`); the first program to go has said Bye, read one or been mistaken (`FirstToGo`) |
| `FlatFSProofs` | `FlatTypeCorrect` | `TypeOK` with what the place of each command says of its locals (`StepOK`); no condition |
| | `CopiedIsStored`, `ReaderGetsWhole`, `FlatStoreImplemented` | what the one writer has in hand, by its program counter (`Hand`); when one shell writes (`OneWriter`) and, for the last, the kills spare two commands (`KillsSpare`) |
| `ChainedFSProofs` | `VolumeTypeCorrect` | `TypeOK` with what the place of the command says of its locals and of the volume (`Place`); no condition |
| | `ReadsBackWhole` | what has been read is the front of what the entry leads to, link by link (`Reading`); no condition |
| | `CountDriftsByKills`, `ChainedStoreImplemented` | a chain of blocks for each entry and for the file being copied (`Vol`), when no host file has a block of zeroes (`NoZeroBlocks`) and removals are not killed (`RemovalsEnd`) |
| `MyshProofs` | `ShellIsAlone`, `LineRunsByStatus`, `ShellKeepsTerminal` | which processes exist (`Tree`) and which of them decides the status (`Reported`) |
| | `ShellTypeCorrect` | a process at depth `d` has at most `Depth - d` pipes to make (`Deep`), by counting the pipes of a pipeline |

**The chains of `MyFSv2`.** `ChainsApart` speaks of what can be reached in the volume, and reachability is a fold over the
disk with no theorem of its own in the prover's library. The proof therefore spells a chain out: `Spells(s, h)` says that the
sequence `s` of blocks starts at `h`, follows the links and ends where the code stops. `ChainIs` shows that what the
model's `Chain(h)` collects is the range of that sequence, so that a chain can be extended at its end, or given another first
block, as a sequence can. Where an induction is needed (a chain of `n` blocks is reached in `n` hops) it is made by the least
counterexample (`Least`, from `WFMin`), as the library's induction theorems take an operator and cannot be instantiated.

The inductive invariant is `IInv /\ CInv`, that is, types and counts and two more parts:

- `Volume`: the free chain, the directory and the chain of each entry are spelled by sequences without repetition, no two of
  which share a block, and none contains the superblock.
- `Phase`: what a running command has in hand, by its program counter. After `AllocRead` the allocated block is still the head of the free chain;
  after `AllocZero` its link is 0 but the superblock still names it; after `AllocSuper` it is in no chain; while a
  file is copied the blocks written so far are a chain of the command's own; while a directory grows the new block is
  linked or not; after `FreeWrite` the chain of a removed entry ends in the free chain but the superblock does not name it yet; after
  `FreeSuper` the entry points into the free chain until `ClearWrite`. `MkfsPhase` says the same of a format.

There is one lemma per action. `ChainsApart` is weaker than `Volume`, as it leaves out the entry a removal is just taking away.

The two hypotheses exclude what the code does not keep: with a removal in a later directory block (section 7, item 1), with a kill inside a removal
(hazard at `myfsv2.c:611`) or with two commands that change the volume at once (hazard at `myfsv2.c:397`) the chains do
run into each other: TLC finds it when the constants of the run `myfsv2` are widened (`NE = 1`; `myrm` in `Fragile`; `Procs = {p1, p2}`). Both runs of `MyFSv2` satisfy them in every state: in `myfsv2` one
shell gives all commands to a directory of one block, in `myfsv2_reader` one shell changes the volume and removes nothing.

**What the chains hold.** The other theorems on `MyFSv2` add three parts to that invariant.

- Files and the refinement: `WInv`. Every entry a user sees is `Good`: a directory has one block, a file as many as its size,
  and these hold the chunks of one host file in order (`Stored`). `WPhase` says the same of what a running `mycopyTo` or
  `mymkdir` has done so far: while it allocates, the first `Count` chunks are written; when it reaches the directory, all are. The
  lemmas show for each action its `Effect`: the directory a user sees stays, loses one entry (`Shrinks`) or gains one that is `Good`
  (`Grows`), and the blocks of all other entries are as before. These are the stutter, `Remove` and `Create` of `FileStore`; a
  format is its `Format` when it truncates the volume, and stutters from then on.
- Lost blocks: `LInv`. While no command was killed or gave up with blocks in hand (`dirty`), every block is `Kept`: in the
  directory, in the free chain, in an entry a user sees, or gripped by a command (`Grips`, by program counter). `Traced` adds what this
  needs of the locals: a command that gives up while it extends the directory can be seen to hold a chain, and a removal frees its chain to
  the end. `myrmdir` frees one block only, so that `NoLeak` needs `Stored` too: a directory has one block.
- Readers: `RInv`. While `mycopyFrom` copies, the entry it read is still in the directory, `cur` is the block of the next chunk, and
  what it wrote is the chunks before it. A writer beside it changes no block of a live entry (`Stays`), and no format runs
  beside it, as a format needs the volume to itself. Here a removal has to be excluded: `mycopyFrom` looks at the entry once and follows
  the links afterwards, so that with a `myrm` in between it reads blocks of the free chain or of a newer file. In the run `myfsv2`
  one shell gives all commands, and in `myfsv2_reader` nothing is removed, so both satisfy `Undisturbed`.

**The chained volume.** Nothing on the disk of `ChainedFS` says that a block is in use but its content, so the proof says of
every block whose it is. `Vol(c)` is a family of sequences, one for each directory entry and one (number 0) for the file that is being
copied in: no block occurs twice in the family (`Apart`); each sequence starts where the entry points and follows the links (`Linked`);
none of its blocks is zeroed (`Full`); it is as long as the size says and carries the whole file, except in the entry a removal is taking
away (`Stored`); the sequence of a running copy carries the chunks copied so far (`Prefix`). `CInv` says that such a family exists; each step's lemma gives the family after it. Then:

- the refinement follows from what a step does to the entries a user sees (`Kept`, `LiveMoves`);
- `Counted` says that at every step the count, plus one for a block that is counted but not yet written, is short of the zeroed blocks by at most one
  for each kill, modulo the width of the counter;
- both conditions are needed for these two. A block of zeroes in a file is allocated again (section 7, item 4), and a removal that is killed leaves a name on blocks
  it has freed. TLC shows both when the run's constants are widened;
- `ReadsBackWhole` needs neither. A reader follows the links from the entry it found, and so does what a user is said to see of it (`Hops`), also
  where the links lead through blocks of another file; one command runs at a time, so nothing changes under it. That links can be followed
  any number of times (`HopsExist`) is shown by the least number for which they could not.

**The flat volume.** A command of `myfsv1.c` works on a copy of the table that it read in steps and writes back in steps, while
the tools of 8.2 change one descriptor at a time. `Hand` relates the writer's copy to the table on the volume at every program counter: how much
of it has been read; that the slot it chose is a hole; that its data is written and the rest of the table is equal; that it is the
copy that will be written over an overfull table; which of its blocks a format has zeroed. With two shells that change the volume nothing of
this holds, as neither set of commands locks anything: hence `OneWriter`. The other shells, any number of them, read at any time.

- `CopiedIsStored`: from `Hand` at the last write.
- `ReaderGetsWhole`: `Sound` says that, as long as only `myfsv1.c` wrote since the last format, every descriptor of the table that counts has
  its file in its data block, because `mycopyTo` writes the data first. A kill leaves this true.
- `FlatStoreImplemented`: for each slot a step keeps, sets or drops what a user sees there (`Effect`), at most one slot changing, or it
  empties all (`Empties`). This needs `KillsSpare`: a `mycopy_to` of 8.2 writes the descriptor first, and a kill leaves a name without its
  data; a `mymkfs` of `myfsv1.c` that is killed leaves a volume with some names gone.

**The shell.** The processes of a line are spread over up to `Depth` levels, each of which knows only its children. `Tree` says that a process
exists exactly if it is the shell or a child that some process has at its step (`Kids`), so that the processes that have not ended form one chain
(`Chain`), and that the shell at a step without children is alone (`Alone`). From this:

- `ShellIsAlone`, with `ShellEnds`: the shell holds ends of its own pipe only, and only while it makes a pipeline;
- `LineRunsByStatus`: `Reported` says that a process of the chain that is done carries the status the last command ended with, and at most one
  process can still change that status (`OneDecides`); `Where` that the words the shell keeps are the rest of the line, so that what `Continue`
  cuts off agrees with the places that `Follows` counts;
- `ShellKeepsTerminal`: an external command that the shell is about to run itself had its redirections noted (`Noted`). That a pipeline without
  `|` is one command comes from `LinesAssumption`: the shell takes all the text between two operators as one command;
- `ShellTypeCorrect`: the rest of a pipeline has one pipe less, and no pipeline has more than `Depth`.

**Only model-checked.** Every invariant, action property and refinement that a run checks is also stated by a theorem. What stays with TLC is
liveness (`EveryCommandEnds`, `ItemsMove`, `GoesOn`, `ServerAnswered`, `WorkersEndAfterRest`, `WaiterServed`, `GeneratorEnds`,
`ByeEndsBoth`, `EveryLineEnds`): the prover does no ENABLED.

## 7 What the code does not keep

The models show these behaviours of the code. The properties are stated so that they hold beside them, and say
nothing of these cases themselves:

1. `myrm` (`Assignment 8.4/myfsv2.c:616`) clears the slot in the first
   directory block, not in the block where the entry was found. A file whose entry is
   in a later block keeps its entry while its blocks go to the free chain, and another entry disappears. `myrmdir`
   does the same. `RmRemoves` speaks of the first block; the runs that remove entries have directories of one block.
2. `traverse_path` (`myfsv2.c:298`) passes a null
   pointer for `entry_index`, and `dir_find_entry` stores through it when it finds the directory.
   No path with an existing intermediate directory can be used, so `MyFSv2` has entries in
   the root directory only.
3. `mycopyTo` of `Assignment 8.3/myfsv1.c:229` does not test for a full table,
   writes over metadata block 7, writes the table back and returns 0. `CopyWithRoomIsStored` speaks of the other case.
4. `allocate_block` of `Assignment 8.3/solution.c:163` takes any block of
   zeroes for free, also one that `mycopyto` has just stored: the file loses that block and
   success is reported. The run has files without such a block.
5. A worker at work when the server is interrupted stores 2 or 3 over the
   -1 of `cleanup` (`Assignment5/Server.c:21`); no worker that has not seen the -1 ever ends. `WorkersEndAfterRest` speaks of servers
   interrupted while no worker is at work.
6. `inc` and `dcr` (`Assignment6/semDemo.c:147`, `t.c:123`) use SEM_UNDO, so that what they print is undone when they end; and
   an undo that the kernel cuts at 0 or at the largest value leaves the semaphore off for good (`UndoBalances`).
7. `sem1` (`Assignment6/sem1.c:66`) sets the semaphore to 1 also while the processes of another `sem1` are inside, and does
   not look at what P returns. `MutualExclusion` starts at a SETVAL with nobody inside.
8. One answer that comes after its second (`Assignment4/ClientPacketGen.c:97`) makes the generator read each later answer one packet
   late, so that it counts none of them; and a datagram of a stranger becomes the destination of the next packet.
9. In the enhanced chat (`Problem-4/enhanced_chat_server.c:52`) a Bye that arrives in one `recv` with other bytes, or in two parts, is overlooked,
   against the comment above the test. When the program that overlooks it has said Bye itself, or its input has ended, both programs wait for ever. A program that saw
   the Bye ends only after its user typed one more line. The other way round, the lines `B` and `ye` in one `recv`, or the end of
   `GoodBye` when `recv` cuts before it, are taken for a Bye, and the thread that shows lines stops although nobody said one: `ShowsToTheEnd`
   excepts the program that is `mistaken`.
10. `mysh` redirects its own descriptors for an external command and never puts them back (`Assignment9/mysh.c:360`
    duplicates each onto itself): everything later is redirected too. A test of `&&` or `||` that fails leaves out all up to
    the next `;`, so that `false && a || b` does not run `b`.
11. The worker's test of the status word and its claim (`Assignment5/Worker.c:44`) are two steps: two workers take one text, the second
    measures the answer of the first, and the server prints that as the length. `ReportRight` is for a text that one worker alone took.
12. A `mycopyTo` of `myfsv2.c` that finds no free block (`:431`) keeps the blocks it has allocated: they are lost until the next format. `NoLeak`
    excludes such volumes.

The hazards without a property in `PROJECT.json` are of this kind too: item 1, a kill inside a removal, and two commands that allocate at
the same time (and one in a program that is not modelled). Their notes, and those of the hazards whose worst case a property excludes, say so.

## 8 What is not modelled

See 1.2. Beyond that, of the modelled programs: command line parsing, messages, times and
permissions in `mystat`, the prompts of the manager's menu, the content of
blocks beyond what a property tells apart, the read of `numProducers` through a pointer by a
new thread (its only use is in a message), what `mycopyFrom` leaves of a longer host file, the names and counts that
`listp` prints, round-trip times, the set-up of sockets, and of `mysh` the environment, `PATH`, the
limit on descriptors and what the C library's buffers hold across `fork` and `exit`.

## 9 Plan

Done, in order of importance: the file systems (8.4, 8.1, flat, chained), the circular
queue, the mutex programs, the shared memory server, the semaphore tools, the packet forwarder, the enhanced chat, the shell.
Then the proofs: all safety properties and refinements of all models.
What is left: the ARP program and the factorial program.
