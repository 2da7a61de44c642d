# TLA+ models of RealXV6

This directory holds a formal model of the system in this repository: the
RealXV6 kernel (`src/drive_c/XV6/KERNEL`), a port of Sixth Edition Unix to the
8086 PC, and the programs around it that have logic of their own: the shell, the
editor, `mkfs`, and the DeSmet C compiler, assembler, linker and debugger that
build the system.  It has TLA+ modules translated from the C source, TLC
configurations that model-check them on small machines, and theorems about the
kernel's modules proved with TLAPS for machines of any size.  Below, `K` stands
for `src/drive_c/XV6/KERNEL` and `B` for `src/drive_c/BUILD`.

## 1. The system

### The machine the code runs on

One 8086.  Everything the models say about interleaving comes from four facts of
the source:

* **The kernel is not preemptive.**  A process gives the processor up only in
  `swtch` (`K/KEN/SLP.C:323-393`), which is reached from `sleep`, `exit`,
  `xalloc`, `swgrow`'s users, and from `check_runrun` on the way back to user
  mode (`K/DMR/M86.A`, `K/DMR/PC.C`).  Between two such points the code of one
  process is atomic for every other process.
* **Interrupt handlers are not processes.**  Clock, disk, keyboard and serial
  handlers run whenever interrupts are enabled, on whoever's stack, and never
  switch.  `spl5/6/7` are all `cli`, `spl0` is `sti`.
* **`sleep(chan)` and `wakeup(chan)` keep no memory.**  A wakeup that finds
  nobody asleep is lost, and it wakes everybody on the channel; every sleeper
  therefore goes round a loop and tests its condition again.
* **I/O sleeps.**  `bread`, `bwrite`, `getblk`, `iget`, `plock`, `malloc`'s
  callers: every one of them may hand the processor to another process in the
  middle of a system call.  Most of what can go wrong in this kernel is state
  read before such a call and used after it.

The tools are sequential programs: what is hard there is a long sequence of
legal inputs, not an interleaving.

### Components

| component | files | state | operations | interacts with |
|---|---|---|---|---|
| buffer cache | `K/DMR/BIO.C`, `K/H/BUF.H` | `buf[NBUF]`, `bfreelist`, device lists | bread, breada, bwrite, bdwrite, bawrite, brelse, getblk, incore, iowait, iodone, bflush, geterror | drivers (strategy / iodone), every file system routine |
| disk drivers | `K/DMR/RK.C`, `IDE.C`, `FD.C` | `rktab` queue, controller registers | rkstrategy, rkintr, devstart, fdstrategy | buffer cache, interrupts |
| inode table | `K/KEN/IGET.C`, `ALLOC.C` (inode half), `K/H/INODE.H` | `inode[NINODE]`, `s_inode[100]`, `s_ilock` | iget, iput, iupdat, itrunc, maknode, wdir, ialloc, ifree, update | buffer cache, file calls |
| free block list | `K/KEN/ALLOC.C` (block half), `SUBR.C`, `K/H/FILSYS.H` | `s_free[100]`, `s_flock`, the chain on disk | alloc, free, bmap, itrunc, getfs | buffer cache, writei |
| file and directory calls | `K/KEN/NAMI.C`, `RDWRI.C`, `SYS2.C`, `SYS3.C`, `SYS4.C`, `FIO.C` | `file[NFILE]`, `u_ofile`, directories, mount table | open, creat, read, write, link, unlink, mknod, mount, umount, seek, dup, close | inode table, free lists |
| pipes | `K/KEN/PIPE.C` | inode flags and modes of an unlinked inode, two file offsets | pipe, readp, writep, plock, prele, closef | inode table, sleep/wakeup |
| processes | `K/KEN/SLP.C`, `SYS1.C`, `SIG.C`, `K/DMR/M86.A` | `proc[NPROC]`, `u`, `runrun`, `runin`, `runout` | sleep, wakeup, setrun, setpri, swtch, sched, newproc, fork, exec, exit, wait, signals, ptrace | everything |
| text table and swapping | `K/KEN/TEXT.C` | `text[NTEXT]`, swap map | xswap, xfree, xalloc, xccdec, swgrow | processes, resource maps, BIO's swap |
| resource maps | `K/KEN/MALLOC.C` | `coremap`, `swapmap` | malloc, mfree | processes, text |
| clock, callouts, sleep(2) | `K/KEN/CLOCK.C`, `SYS2.C` | `time`, `tout`, `callout[NCALL]`, `lbolt` | clock, timeout, sslep, stime | processes, tty |
| terminals | `K/DMR/TTY.C`, `KL.C`, `KBD.C`, `UART.C` | clists, `tty` flags | ttyinput, ttyoutput, ttread, ttwrite, canon, getc, putc, sgtty | clock, signals |
| traps and system call entry | `K/KEN/TRAP.C`, `SYSENT.C`, `K/DMR/PC.C`, `M86.A` | register frame, `u_ar0` | trap, trap1, user memory access | everything |
| memory device, kernel printf, boot | `K/DMR/MEM.C`, `K/KEN/PRF.C`, `MAIN.C`, `K/BOOT/BOOTSEC.A` | initial tables | mmread, printf, panic, main, iinit | - |
| shell | `src/drive_c/XV6/USR/SH.C` | a parse tree; the descriptors of its processes | parsecmd, runcmd | fork, exec, pipe, dup, wait |
| editor | `USR/ED.C` | line table, temporary file, compiled pattern | commands, global, substitution, execute | files |
| mkfs, run time | `USR/MKFS.C`, `XV6/RT` | an image; none | mkfs, ctime, system call stubs, printf | files |
| compiler | `B/C88`, `B/GEN` | node table, symbol table, registers | parse, heir1..26, gen, fixl, fixr | files |
| assembler | `B/ASM` | label table, the pipe of undecided jumps | one, flush, expressions, encodings | files |
| linker, librarian | `B/BIND`, `B/LIB88` | name table, module list, two output buffers | pass1, between, pass2 | files |
| debugger | `B/D88` | the debuggee's memory | disassembly, breakpoints, expressions | - |
| host scripts, images, evidence | `src/scripts`, `src/evidence` | image files | mkfs.py, mkboot.py | - |

### What makes each part correct, and what is hard

* **Buffer cache.**  One buffer per block; a buffer is on the free list exactly
  when it is not busy; a busy buffer has one owner; no write is lost when the
  buffer is reused; whoever sleeps is woken; `reboot` leaves nothing in flight.
  Hard: the interrupt between a test and a sleep, `getblk`'s loop that sleeps
  between looking up and assigning, asynchronous and delayed writes, read ahead
  holding two buffers, errors.
* **Inode table.**  One in-core inode per number, its reference count equal to
  the references held, the lock protocol, an inode freed when and only when
  nobody refers to it.  Hard: every routine sleeps while it holds inodes, and
  `link`, `unlink`, `close` and `update` handle inodes they have not locked.
* **Free list, files' blocks.**  No block used twice, none lost; the in-core
  array never exceeds its 100 entries; sleepers on `s_flock` look again.
* **Pipes.**  Bytes come out in order, once; a reader and a writer never both
  sleep for ever; a broken pipe is noticed.  Hard: the reader resets both
  offsets while the writer sleeps; last close against a sleeping peer.
* **Processes, swapping.**  Core and swap are neither leaked nor handed out
  twice; a parent gets each child's status once; the scheduler does not sleep
  when somebody waits to come in.
* **Resource maps.**  Areas never overlap, adjacent free areas coalesce, space
  is conserved.  Hard: `mfree` shifts the array without looking at its end.
* **Clock.**  Callouts are called in time; `sleep(2)` never sleeps past its time
  because of another sleeper.
* **Terminals.**  Lines are delivered once and in order; a flush at interrupt
  level against `canon` half way through a line.
* **Descriptors, signals, ps.**  Counts and offsets of shared file structures
  over early returns; a signal between the test and the sleep; what a walk over
  the process table sees while the table moves.
* **Shell.**  Every command of a line gets the files the line says, and the
  prompt waits for what it must.  **Editor.**  The table is the text the commands
  mean although `global` marks lines in the table it rearranges.
* **Tools.**  The code computes what the text says: registers moved and pushed
  under the operands' feet, labels numbered by counters while statements nest,
  jumps shortened against places that still move, references added to bytes that
  are in one of two buffers or in the file.

## 2. The modules

| module | what it is | translated from |
|---|---|---|
| `BlockStore` | abstract specification: every block is a register with one holder | what `BIO.C`'s callers rely on |
| `BufferCache` | the cache, `rktab`'s queue, both drivers, `reboot`'s flush-and-wait | `K/DMR/BIO.C`, `RK.C`, `IDE.C`, `FD.C`, `K/KEN/SYS4.C:403-438` |
| `InodeTable` | the inode table, the spare inodes and the calls that use them | `K/KEN/IGET.C`, `ALLOC.C`, `NAMI.C`, `SYS2.C`, `SYS4.C`, `FIO.C` |
| `Pipe` | one pipe from `pipe()`'s return to the last close | `K/KEN/PIPE.C`, `RDWRI.C`, `FIO.C`, `ALLOC.C:312-316` |
| `ProcSwap` | processes, text table and the swapper over core and swap as sets of units | `K/KEN/SLP.C`, `TEXT.C`, `SYS1.C` |
| `ResourceMap` | `malloc` and `mfree` on the array, beside a set of free units | `K/KEN/MALLOC.C`, `SLP.C` (`swgrow`) |
| `FileBlocks` | the free list and its chain, `bmap`, `itrunc` | `K/KEN/ALLOC.C`, `SUBR.C`, `IGET.C` |
| `FileTable` | descriptors, file structures, offsets, references to inodes | `K/KEN/FIO.C`, `SYS2.C`, `SYS3.C`, `SYS1.C` |
| `SleepCall` | `sleep(2)` of any number of processes over one `tout` | `K/KEN/SYS2.C`, `CLOCK.C` |
| `Callout` | `timeout`'s list of differences and the clock's walk | `K/KEN/CLOCK.C` |
| `Signals` | posting, finding and taking a signal, and the sleeps it ends | `K/KEN/SIG.C`, `SLP.C`, `SYS4.C` |
| `PsInfo` | `psinfo` reading a process that moves between core and swap | `K/KEN/SYS4.C` |
| `Tty`, `Keyboard` | the console: clists, `ttyinput`, `canon`, flush; scan codes | `K/DMR/TTY.C`, `KL.C`, `KBD.C` |
| `Shell` | the shell's grammar; the processes `runcmd` makes | `USR/SH.C` |
| `EdText`, `EdTemp` | the editor's table, `global` and its matcher; its temporary file | `USR/ED.C` |
| `Mkfs`, `CTime` | the image `mkfs` makes of a prototype; dates in 16 bits | `USR/MKFS.C`, `RT/CTIME.C` |
| `CExpr` | expressions: precedence, types, scaled addresses, members, calls, constants | `B/C88/C4.C` - `C7.C` |
| `CStmt` | statements through both passes: tree, labels, jumps, switches | `B/C88/C3.C`, `B/GEN/GEN2.C`, `GEN4.C` |
| `GenExpr` | GEN's registers, stack and instructions for an expression | `B/GEN/GEN3.C` - `GEN6.C` |
| `AsmExpr`, `AsmInst`, `AsmJumps` | the assembler's operands, encodings (the 8087's too), jump shortening | `B/ASM` |
| `Bind` | both passes of the linker, libraries, overlays | `B/BIND/BIND.C` |
| `Dis` | the disassembler, against the assembler's encodings | `B/D88/DIS.A` |
| `KernelParts` | the smaller parts of the kernel side by side, of any size, and what is claimed of each | |
| `*Inv` | what is claimed of a component: its properties and mappings | |
| `*Proofs`, `ChainLemmas` | the theorems and the lemmas they rest on (section 4) | |
| `MC*` | instances for TLC: symmetry, lists of inputs, the words of an input | |

The kernel's modules draw the processor the same way.  `chan[p]` is `p_wchan`.
`cpu` is the process in the middle of a call.  A step is the code from one point
where the process may lose the processor, or where an interrupt may matter, to
the next; `Goes` (`Goto`) ends a step without a switch, `Waits` ends it where the
process may sleep for I/O, `Sleeps` (`Sleep`) is the C `sleep`, `Wakeup` the C
`wakeup`.  A step that is interrupted in C by nothing that could see the
difference is one step here.

### BufferCache

State: `flags`, `id` (`b_dev`, `b_blkno`), `data` of each buffer; `avail`, the
free list; `freeWanted`, B_WANTED of its header; `queue` and `active`, `rktab`;
`disk`, the media; for each process its place `pc`, call `op`, arguments and the
buffers it holds.  Actions:

* `Start...` - a process enters `bread`, `getblk`, `breada`, `sync`'s `bflush`,
  or `reboot`.
* `GetblkBusy / Hit / Wait / Evict / Take` - the five ways through `getblk`'s
  loop (`BIO.C:220-276`): found busy, found free, nothing free, the head of the
  list is a delayed write, a buffer is reassigned.
* `GotBread`, `GotGetblk`, `GotBreada`, `Ahead`, `GotAhead`, `Join`,
  `IowaitRead`, `IowaitWrite` - what each caller does with the buffer, with
  `iowait`'s sleep.
* `HoldRelse / Bdwrite / Bawrite / Bwrite` - the client gives the buffer back
  in one of the four ways, with new contents or not.
* `Flush`, `FlushDone`, `Drain` - `bflush`'s restarted scan and `reboot`'s wait.
* `RkIntr` - the disk interrupt: transfer, `iodone`, start of the next one.  It
  may come between any two steps.  (The IDE driver pushes write data at the
  start, but the buffer stays BUSY until the interrupt, so nobody can tell.)
* `Boot` - the machine comes up on the disk as it was left.

A floppy transfer happens inside `FdStrategy`, and may fail after its retries.
A block past the end fails inside `RkStrategy`.

### InodeTable

State: `flag`, `count`, `num`, `node` of the in-core slots; `dnode`, the inodes
on disk; `dir`, the entries of the one directory; `spare` and `ilock`, the
superblock's list; `updlock`; a record `u[p]` of the process's place and the
inodes it has in hand; `fd[p]`, its open file.  The actions are grouped as the
routines are: `Iget` (locked, found, read, table full), `Iput` (shared, clean,
dirty, last link gone), `Namei`, `Open` (and `creat` of an existing file),
`UnlinkStep`, `Ialloc` (with the i-list scan, `maknode` and `wdir`), `Link`,
`Sync` (`update`'s walk over the table), and `ReadWrite`, `Close`, which touch
an inode they have not locked.  `bread` and `bwrite` of an i-list or directory
block are points where the process sleeps; the transfer itself is atomic
because the cache gives a block to one process at a time
(`BufferCacheInv!Exclusive`, proved).  The spare list the superblock begins with
is any the last crash may have left (`Spares`).

### Pipe

State: the inode's `flag`, `mode`, `icount`, `size`; the reader's offset `roff`
(the writer's is the size); the two `f_count`s; who has which end open; the
bytes in the file, numbered as written.  `Read`/`Write` enter `readp`/`writep`;
`ReadEof`, `ReadWaits`, `ReadStarts`, `WriteDone`, `WriteBroken`, `WriteFull`,
`WriteStarts` are the branches after `plock`; `ReadBlock`, `WriteBlock` one turn
of `readi`'s and `writei`'s loop, with faults in the middle; `Close` is `closef`
with its wakeups and `iput`; `Fork`, `Interrupt` (a signal ends an interruptible
sleep) and `Sync`, which locks the inode in passing.

### ProcSwap

State: for each process its status, SLOAD / SLOCK / SSWAP, address and size, the
place in its call and its text; for each text the two counts `x_count` and
`x_ccount`, its core and its swap image; `core` and `swap` as sets of free units
taken by first fit (which `ResourceMap` shows `malloc` and `mfree` to be);
`runin` and `runout`.  Process 1 starts, process 0 is the swapper.  Calls are
fork (`newproc` with core, and without, where the parent is swapped out to make
the child), exec (`xfree`, `xalloc` with its waits, the new image), exit, wait;
the swapper's two searches and its `xswap` and swap-in are `Sched`'s steps.
`p_time` and the priorities only rank candidates: any may be chosen.

### The smaller parts of the kernel

`ResourceMap` runs the C loops over the array's cells and keeps beside them the
set of free units and the areas given out; `swgrow`'s splits are there because
they decide how many areas there can be.  `FileBlocks` takes the steps of
`alloc`, `free`, `bmap` and `itrunc` between sleeps; each file has one writer at a
time (see section 5).  `FileTable` follows a descriptor from `falloc` to the last
`closef` over fork, exit, dup, pipe, chdir and failing opens; the 32-bit offset is
two words of a small width, so that a carry happens.  `Signals` separates
`sleep`'s test, its change of status and its switch, because the keyboard's
interrupt comes between.  `PsInfo` reads a process's frame from core or from the
swap device through the block cache while `xswap` moves it past that cache:
`swgrow` and `newproc` write an image that still has SLOAD (`SwapSelf`), but `sched`
takes SLOAD away first (`SwapOut`) and the address follows the transfer (`SwapOutDone`).
`Tty` has the interrupts between `canon`'s `getc`s, and between the flush of `stty`
and its change of mode; `Keyboard` takes the bytes of
a key one at a time, with any keys overlapping; `Callout` puts an entry into the
list of differences and takes the due ones off it, while functions that are
called call `timeout` again.  (`NCALL` is no bound there: `timeout` does not look
at it.)  `KernelParts` instantiates them beside each other; `MCParts` adds the
programs and gives all of them sizes.

### The programs

An algorithm that reads one input and gives one result is an operator, run
beside a reference written from what the input means:

* `Shell`'s parser against the grammar's sentences; its trees are run by forks,
  pipes, dups and waits, one process step at a time.
* `EdText` rearranges the table in place, beside a list of lines with the marks
  `global` gave them, and its matcher backtracks, beside the set of all matches;
  `EdTemp` keeps two blocks in memory, beside all that was put.
* `Mkfs` beside the tree and the free blocks its prototype asks for; `CTime`
  beside a calendar.
* `CExpr` reads an expression into the tree C88 hands to GEN, beside an
  evaluation of the same words on a memory of bytes: value, type and effect.
  `CStmt` makes the tree, then the labels and jumps, and runs them beside the
  statement.  `GenExpr` gives registers away, moves and pushes their holders,
  emits instructions and runs them on the part of an 8086 they use, beside the
  expression's value and effect on memory.
* `AsmExpr` and `AsmInst` turn an operand or instruction into bytes; `Dis` reads
  them back; `AsmInst`'s 8087 part is compared with that chip's opcode map.  `AsmJumps` is a
  state machine of the pipe, whose output is walked beside the text.
* `Bind` runs both passes over up to three modules; every reference is compared
  with the address its module's text means.

## 3. What is checked

### Runs

| run | instance | properties | result |
|---|---|---|---|
| `BufferCacheDisk` | 2 buffers, 2 processes, a disk block and a floppy block that may fail, 2 values, all calls | `TypeOK FreeListExact Exclusive NoAlias NoLostWakeup Coherent RebootSaves RefinesBlockStore` | hold |
| `BufferCacheLive` | 2 disk blocks, one value, no `breada` | `SleeperWakes RebootFinishes` | hold |
| `BufferCacheHang` | 3 blocks, only `breada` | `ReadAheadNeverHangs` | violated |
| `InodeTable` | 2 slots, 3 inodes, 2 entries, 2 names, 4 calls of any kind | `TypeOK RefCount NoAlias NoLostWakeup` | hold |
| `InodeFiles` | 3 slots, 1 entry, 3 calls, no `sync` or `link` | `Coherent Named CallsEnd` | hold |
| `InodeLock` | `open` and `unlink` | `LockHeld` | violated |
| `InodeSync` | `open` and `sync` | `Named` | violated |
| `InodeLink` | all but `sync` | `LinkEnds` | violated |
| `Pipe` | 3 processes, 2 blocks of 1 byte, 3 bytes, 2 events | `TypeOK Ends NoLostWakeup Fifo CallsEnd PeerGone` | hold |
| `ProcSwap` | 3 processes, 2 texts, 5 units of core, 5 of swap, 5 calls | `TypeOK SchedAwake CoreOwned SwapOwned TextCounted Family` | hold |
| `ProcOrphan` | 4 processes | `ImageKept` | violated |
| `Parts` | every other part, each on its own small machine | `NoOversleep UnitsOnce Modifiers OnTime Attended Calls Console EachOnce Programs Compiled Assembled` | hold |

A behaviour of `Parts` is of one part: they share no state, and their product
would only multiply their states.  The sequential algorithms among them read one
input that grows by a word at a time (`MayFollow` says which word may follow),
so that every input up to the bound is a state.

### What the passing runs say

* `FreeListExact`, `Exclusive`, `NoAlias`: the cache never hands out a buffer in
  use, never caches a block twice, never loses a buffer.
* `Coherent`, `RefinesBlockStore`: whatever the order of delayed, asynchronous
  and synchronous writes, evictions and interrupts, a process that holds a block
  sees the last value anybody gave it, and what is on the medium is a value the
  block had.  A failed transfer may throw a floppy block back to what the medium
  holds, and no other.  A delayed write of a block whose read had failed is lost
  without a transfer of its own: `bdwrite` keeps B_ERROR, and `brelse`
  disassociates the buffer.  The register never takes that value.
* `RebootSaves`, `RebootFinishes`: the port's `reboot` does what its comment
  promises when nothing else enters the kernel: the wait ends, and at the reset
  the disk holds the current value of every block.
* `RefCount`, `NoAlias` of the inode table: over every early return of every
  call, `i_count` is the number of references there are, and no inode is in two
  slots - although four routines handle inodes they have not locked.
* `Coherent`, `Named`, `CallsEnd`: without `sync`, an inode not marked modified
  is what the disk has; an inode somebody refers to keeps its number; every call
  ends, unless `maknode` has lost a directory's lock (`lost`).
* `NoLostWakeup` (three modules): a process asleep is always on the list of
  somebody who will come to wake it.
* `Fifo`, `Ends`, `PeerGone`: what was read followed by what the file still holds
  is what was written, over all resets of the offsets, partial transfers and
  signals; `i_count < 2` does mean that the other side is gone; nobody is told so
  before it is.
* `CoreOwned`, `SwapOwned`: each page of core and each sector of swap is free or
  has one owner - a process, a text, a zombie's status, a transfer under way -
  whatever fork, exec, exit, `swgrow` and the swapper do between each other's
  sleeps.  `TextCounted`: `x_count` and `x_ccount` are the references there are.
  `Family`: nobody waits for a child that is already dead.  `SchedAwake`: the
  swapper does not sleep while somebody on the swap device is ready.
* `Parts`: `UnitsOnce` - the array of a resource map is a set of units under first
  fit; `EachOnce` - a disk block is in one place; `NoOversleep`, `OnTime` - the
  shared `tout` and the list of differences wake in time; `Modifiers` - no shift
  key sticks, whatever keys overlap; `Attended` - nobody sleeps on a line that has
  been typed; `Console` - what is typed is read once, in order, as erase, kill, end
  of file and `\` edit it; `Calls` - counts, offsets, signals, and that `psinfo`'s
  answer is of one instant or comes at one of two moments (`old`, `out`: below); `Programs`, `Compiled`, `Assembled` -
  the shell, the editor, `mkfs` and `ctime`, the compiler, and the assembler,
  disassembler and linker do what their input means.

### What the violated runs say

Each is a disagreement between the code and a comment of its own, and each
counterexample is a legal sequence of system calls.

1. `BufferCacheHang`: `breada` keeps its own block while `getblk` waits for a
   buffer for the read-ahead block.  When every buffer is held that way all wait
   for ever.  (`NBUF` is 15, `NPROC` 50.)  The comment of `incore` says it is
   there "mainly to avoid getting hung up on a wait in breada"; it avoids only
   the case of the block already in core.
2. `InodeLock`: `iput` unlocks the inode whoever holds the lock.  `unlink`
   unlocks its directory, sleeps, and puts it at the end - under a process that
   has meanwhile locked it in `namei`.  The last close of a pipe's end does the
   same to a reader asleep in `readi`.
3. `InodeSync`: `update` locks inodes it has no reference to.  The last `iput`
   of the same inode and an `iget` that finds it meet around `update`'s sleep;
   the opener is left with inode number 0.
4. `InodeLink`: `link` clears ILOCK by hand, without the wakeup `prele` does,
   "to avoid possibly hanging the namei" - and hangs in that `namei` when the
   sleeper it did not wake holds the directory.
5. `ProcOrphan`: `newproc` without core waits for swap space as the child, whose
   `p_addr` is the parent's core; the swapper may choose that child as a victim
   and free the parent's core under the parent.

### Seen in passing

Disagreements met while modelling that no run stands for; the models leave out
the input or the moment that shows them, and the comments of the modules say so.

* Kernel.  `PIPE.C:48` sets `i_flag = IACC|IUPD` and drops an IWANT.  A signal
  from the keyboard between `sleep`'s test (`SLP.C:24`) and its change of status
  is slept through (`late` in `Signals`), which `SLP.C:8` denies; `kill(pid, 0)`
  clears a pending signal and negative numbers are not refused (`SIG.C`).
  `psinfo` reads the swap device through the block cache, which `swap` passes by,
  and may be told of a process long gone (`old` in `PsInfo`, `SYS4.C:331`).  Or
  `sched` is writing the process out: SLOAD is off, `p_addr` is still in core
  (`SLP.C:233`, `TEXT.C:27-31`), `psinfo` reads the swap device at that address, sees
  nothing moved and reports what it finds (`out`; without that disjunct
  `OneInstant` fails after five steps), although `SYS4.C:346-351` says the two halves
  "always describe the same instant".  Nobody looks at B_ERROR between `bread` and
  `bdwrite` or `bwrite` (`SUBR.C:76`, `IGET.C:131-145`): an indirect block that cannot
  be read loses its change, and a block of inodes is written back with what the
  buffer held before.  A driver is not told of the last close of a device when
  another open holds the inode in `namei` and is then refused (`FIO.C:76`,
  `SYS2.C:131`).
  `rdwr` reads the offset before a transfer and adds to it after: two sharers of a
  file structure may write the same place.  `creat` truncates before `falloc` may
  fail.  A flush while `canon` sleeps leaves `t_delct` counting a line that is gone
  (`torn` in `Tty`).
* Run time and `mkfs`.  `ctime`'s quotient of days is kept in signed 16 bits, so
  dates after November 1999 are wrong; the comment of `sunday` (`CTIME.C:137-141`)
  is not what it does; `mkfs`'s "too many inodes" test compares inodes with blocks
  (`MKFS.C:234-238`), and a file whose indirect block has exactly 256 entries is
  refused although it fits.
* Compiler.  A signed `x/2`, `/4`, `/8` with `x` not in AX adjusts AX
  (`GEN4.C:104-125`); an lvalue whose address register is evicted with nothing free
  is pushed as a value, and the assignment is lost (`GEN5.C:619-750`); the arms of
  `?:` may leave different amounts on the stack (`GEN4.C:277-321`); `(char)` of a
  bit-field reads the low byte of its word (`GEN5.C:105-113`); the value of
  `a && (b == (c && d))` is reloaded from below SP (`GEN4.C:346-352`); in
  `i = c = 300` `i` gets 300 (`GEN3.C:443-446`); the value of an assignment to a
  bit-field is the shifted one; the left side of `*= /= %= <<= >>=` is evaluated
  twice; `case 0x8000` is taken for `default`; cases nested in another statement
  of a switch are numbered but not found.  Of a comma list of exactly 6 or 11
  expressions only the last is kept (`C4.C:276-297`); `f((a,b))` passes two
  arguments; `sizeof (*p).x` is taken for `sizeof(*p)` and more; `sizeof -c` of a
  char is 1; a difference of pointers is unsigned; `p++->n` is refused.
* Assembler.  `FSUBR` without operands is DE E0 instead of DE E1 (`ASM3.C:173`);
  `FIST` of a QWORD assembles as `FBSTP`, `FST` of a TBYTE as that of a QWORD;
  `5-OFFSET x` gives x-5; a long LOOPZ is turned round wrongly when CX becomes 0;
  EVEN counts from the last flush; more than 160 labels in one pipe overrun it;
  `ESC` above 63 and `INC` of a DWORD overflow into the opcode; `XLAT` drops a
  segment override.  `DIS.A` shows F2 as REP.

### Bounds, and why they are enough

* Two buffers and two blocks are the least in which a lookup can hit, miss,
  evict a delayed write and find nothing free, and in which `breada` can hold one
  buffer and want another; three blocks let the hang happen.  Two processes give
  every pairwise interleaving; the safety properties of the cache are proved for
  any number.
* Two inode slots make the table full while a call needs a third; three slots
  are enough for the directory and two files.  Three inodes in blocks of two put
  two inodes in one block of the i-list and one in another.  `NICINOD = 2` lets
  the spare list be empty, partly filled and full.  `MaxCalls` bounds the calls
  (closes and transfers come on top): four are needed for the longest story
  told here, create - link - unlink - reuse of the number.
* The pipe of two one-byte blocks is full after a two-byte write, wraps after
  three bytes, and takes a multi-block transfer in two turns.  Three processes
  allow two readers or two writers next to a peer.  `MaxEvents` counts forks,
  signals, syncs and faults together, so any two of them meet.
* Five units of core do not hold three processes of two units and their text,
  so forks without core, swaps both ways, waits for core and for swap and the
  text's loss and reload all happen; four processes are needed for the orphan.
* `Parts`: a map of 8 units in 6 cells; four callouts of
  delays that tie, exceed and follow each other; a console of two readers and four
  keys out of two letters, newline, erase, kill, end of file, `\` and interrupt (in
  raw mode, where all are alike, of kill alone), with 5 blocks of two, just
  enough: with 4 a character is dropped.  (The kernel's `NCLIST` of 100 blocks of 6 is
  more than enough for one console, 44 + 43 + 1 blocks at most.)  Further, files of direct, single and double indirection with 7 blocks; file
  structures and descriptors of two; six processes and six descriptors for lines
  of three commands; five lines of a table; blocks of four characters; a pipe of
  jumps whose reach is 9 of 14.  Inputs of the algorithms are taken up to 4 to 8
  words of the vocabularies in `MCParts`, chosen so that registers run out
  (three products wait around an operand), switches take each of their three
  layouts, modules share, hide and reserve names, and months end.
* `CHECK_DEADLOCK FALSE` stands where the model may really stop: the processes
  in `breada` may hang (`BufferCacheDisk`), the calls run out (inode, pipe and
  process runs, `Parts`), or a `creat` that failed has kept its directory (`lost`).

### Fairness

`SF(Step(p))`: a process that is runnable again and again when the processor is
given up is chosen in the end.  `swtch` takes the best priority and, among
equals, goes round; a process that slept in the kernel has a better priority
than any user program, and kernel sections are finite.  Weak fairness would not
do: a step is disabled while another process is inside the kernel.
`WF(RkIntr)`: the drive answers a command (`ideintr`; there is no timeout in the
driver, so a drive that never answers hangs this kernel).  `SF(User(p))` in
`Pipe`: a program with an end of a pipe open uses it or closes it sooner or
later, for instance by exiting.  The liveness properties name what they exclude:
`Halted`, `lost > 0`, and in `CallsEnd` of the pipe a process that waits for
bytes only processes asleep with it could write.

## 4. What is proved

TLAPS proves the following for any values of the constants that meet the
assumptions named in the modules (there is a buffer, blocks are distinct,
`NoProc` is no process, ...).  Processes, blocks, slots, names need not be finite
unless an assumption says so.

| module | theorems | property |
|---|---|---|
| `BufferCacheProofs` | `CacheInvariant`, `MarksCorrect` | the inductive invariants |
| | `TypeCorrect`, `FreeListCorrect`, `MutualExclusion`, `OneBufferPerBlock`, `WakeupsDue`, `CleanBuffersAgree` | `TypeOK FreeListExact Exclusive NoAlias NoLostWakeup Coherent` |
| | `ImplementsBlockStore` | `RefinesBlockStore` |
| | `RebootIsSafe` | `RebootSaves` |
| `InodeProofs` | `TableInvariant` | the inductive invariant |
| | `TypesHold`, `CountsHold`, `OneSlotEach`, `SleepersWoken` | `TypeOK RefCount NoAlias NoLostWakeup` |
| | `NumbersKept`, `MarkedOrSaved` (nobody calls `sync`) | `Named Coherent` |
| `PipeProofs` | `PipeInvariant` | the inductive invariant |
| | `TypeCorrect`, `EndsCounted`, `WakeupsDue`, `BytesInOrder`, `PeerIsGone` | `TypeOK Ends NoLostWakeup Fifo PeerGone` |
| `ProcSwapProofs` | `Machine` | the inductive invariant |
| | `TypesHold`, `CoreIsOwned`, `SwapIsOwned`, `TextsAreCounted`, `FamilyHolds`, `SchedIsAwake` | `TypeOK CoreOwned SwapOwned TextCounted Family SchedAwake` |
| `ResourceMapProofs` | `MapIsFirstFit` | `FirstFit` |
| `KernelPartsProofs` | `ReferencesCounted`, `SignalsDelivered`, `EntriesAtOneInstant` | `Counted Delivered OneInstant` |
| | `CallsCorrect` | `Calls` |
| | `NoModifierSticks` | `Modifiers` |
| | `NoCalloutLate` | `OnTime` |
| | `NoLineMissed` | `Attended` |
| | `TimesCorrect`, `SleepersSafe` | `NoOversleep` |
| | `UnitsNeverTwice` (while the array has cells left) | `UnitsOnce` |
| | `BlocksNeverTwice` | `EachOnce` |
| `FileBlocksProofs` | `BlocksOnce` | `FileBlocks!EachOnce` |

### The buffer cache

None of the properties is inductive alone.  `Exclusive` needs to know which
registers mean ownership at which place (`RegistersOK`); `FreeListExact` survives
`iodone` only because what the drive finishes is busy and queued once
(`QueueExact`); `NoLostWakeup` of a process in `iowait` needs its transfer to be
in the driver's hands (`TransfersOK`); `Coherent` of a write that has finished
needs all of it.  `IInv` is the conjunction of two halves, `CacheOK` about
buffers and `ProcOK` about processes.

Every step of the module is a composition of a few moves of one buffer: off the
free list, to the driver, completed, back on the free list.  The proof follows
that: `HandedOver`, `Completed` and `Freed` are shown to keep `CacheOK` whoever
makes them (`...KeepsCache`), and to take the buffer out of its owner's hands
(`...GivesUp`); then there is one lemma for each action (`...Keeps`), and
`NextKeeps` puts them together.  `ChainLemmas` has the facts about lists without
repetition: append, tail, removal from the middle.

The refinement maps a block's register to the buffer that caches it, or the
medium (`Store`), and its holder to the process whose register the buffer is in
(`Owner`); one lemma per action shows which step of `BlockStore`, or stutter, it
is.  It needs `MarksOK` besides: no delayed write is without its data, and no
buffer with an error behind it is found or written.  `RebootIsSafe` follows from
`RebootOK`, which says, for each place of the one process left in the kernel,
which blocks are already on their way.

### The inode table

`IInv` is a conjunction of named parts: `Regs` (what a process has in its
registers where it is; where it is, is the place `iget` or `iput` will return it
to), `Fds`, `Numbers` (no number twice), `Free`, `Disk`, `Flags`, `Counts`,
`Locks`, `Sleepers`.  A process's hands (`Hands`) are the slots it answers for:
`Counts` says that `i_count` is the number of hands on a slot, plus descriptors,
plus the root's.  The lemmas `Gains`, `Loses`, `Moves` and `Strands` say what
one more hand, one less, a hand that changes and one kept for ever do to those
sums; each action then only names which of the four it is.  `Sleepers` needs to
know who wakes whom: `Rouses`, `Tells` and `Guards` say of each action whose lock
it gives up and whom it tells.

With `sync` among the calls neither `Named` nor `Coherent` holds (run
`InodeSync`): `update` works without a reference.  The theorems assume that
nobody calls it, and rest on `Alone`: a slot whose last reference is being put is
nobody else's.

### The pipe

The lock excludes until a last close takes it away (`LockOK`); once it is stolen
`i_count < 2`, so nobody sleeps for the other side any more.  `OffsetOK` and
`BytesOK` say, place by place, where the holder of the lock is in `readi` or
`writei`, and hence which bytes the file holds; `Fifo` is claimed only as long as
the lock has not been stolen, and a run shows why (section 3).

### Processes and swapping

`IInv` is `TypeOK` and, as long as `fault` is `"none"`, nine more parts.  `LocalOK`
says what a process's slot and registers hold at each place of a call
(`StatusOK`, `PurposeOK`, `AttachOK`, `SizeOK`); `BootOK` that the bootstrap,
whose data is smaller than any program's, is alone in the machine; `RunOK` that
`xalloc` keeps the processor from its search of the table to its claim; `LockOK`
who may not be swapped; `SchedOK` what the swapper has in hand; `ExecOK` that an
exec holds its file's inode, so that a text being read in has one reader;
`FamilyOK` what links a parent and its children.  `CountOK` is `TextCounted` in terms of what
one process adds to each count (`Tally`, `CoreTally`), and `CoreOK` and `SwapOK`
are `CoreOwned` and `SwapOwned`: `Split` says that the free units and the shares of
all holders - a block, a text, an exec's old block, a register whose area is not
yet anybody's, the swapper's hand - cover the memory and are disjoint in pairs.
The owners are a function of who holds (`CoreOf`, `SwapOf`), so an action that
moves memory changes that function at one or two holders, and the lemmas about
`Split` do the rest.

One lemma per action (`...Keeps`) shows all ten parts; `StepKeeps`, `StandKeeps`,
`NoticedKeeps` and `SwapperKeeps` are the shapes that many actions share: a
process moves on, stands by, is woken with the swapper told, or is moved by the
swapper.  `SchedAwake` says more than its state: whoever becomes ready on the
swap device wakes the swapper in the same step, whether through `setrun` or
`xswap` (`StepNoticed`, `UserNoticed`).

The attempt found the first statement of `TextCounted` wrong: a process that
`xalloc` had swapped out for want of core (`TEXT.C:197-212`) was still counted at
its old text after exec had dropped it.  No run meets it: that branch needs 7
units of swap and 9 million states.  The statement is corrected, and the theorem covers
the valve, as it covers four and more processes.  The theorems say nothing past
a `fault`, of which there are five: `"panic"`, the source's own; `"orphan"`, the
child of a fork without core chosen as a victim (section 3); `"moved"`, exec's
process swapped out and in between `da = p_addr` and its use (`SYS1.C:156-165`);
`"unheld"`, `xswap` dropping an in-core reference the process has not got; and
`"twice"`, a text read in by two.

### The resource map

`MInv`: the array is well formed up to its terminator (`Good`: areas in order,
apart), and every unit is in one area of the array or given out.  Areas are
counted by an injection (`AreasCounted`), which shows that a release never needs
more cells than there are areas given out, plus two.  That there are no more is
the hypothesis `[]Fits`: the code never checks it.  `CMAPSIZ` and `SMAPSIZ` are
100 ints, 50 cells, and there may be `NPROC` 50 + `NTEXT` 40 areas.
`UnitsNeverTwice` is the same theorem of the instance in `KernelParts`.

### Files' blocks

`EachOnce` counts places; its inductive form does not.  `BlocksInv` says, until an
indirect block is left unwritten (`stale`), that there is a function `home` from blocks to
places (`Homed`): a block's home is the free list, a process's hand, what a
truncation has still to free, or a row of a file's map - an address of the inode,
a word of the block there, or a word of a block one further down - and each of
these holds exactly the blocks that are at home there.  Since `home` is a
function, no block is in two places and none is nowhere.  An action moves one
block, or a file's row, from one home to another; the lemmas about `Homed`,
`FileMap` (`MapFrame`, `MapAddTop`, ...) and `Listed` say when the rest stays.

* `Listed`: the blocks of the free list are those met on the chain from `Start`,
  each once.  `Start` is `s_free`, or, while `s_flock` is held, what the block
  being read or written holds; `Locked` says that one process at a time is there.
* `FileMap`: what is at home in a file is what its addresses and indirect blocks
  name.  It is read off `Holds`, a block just allocated counting as zeros, and off
  `Tops`, where a row being truncated counts as empty: its blocks are at home in
  what the process has to free (`TodoHome`), in the order of `Under`, which is
  shown to list each once.
* `Local`: what `bmap` has in its registers where it is - the indirect block it
  holds is the file's, and the word it is about to set is still 0.
* `Alone`: one process to a file, as the module has it.

The invariant is about any `NICFREE` above 1 and below `NINDIR`, and `NADDR` at
most `NINDIR`: the list and the addresses of a small file fit a block
(`BlocksAssumption`; the code's numbers are 100, 8 and 256).  A file's blocks
written are those `bmap` does not refuse.

`EachOnce` follows because the ways to the blocks (the pairs it counts) and the
blocks' homes are one to one.  Init is what `free` makes of blocks 1 to `NBLOCK`,
in closed form; the proof of `Init` shows that its chain lists each once.
`BlocksNeverTwice` is the same theorem of the instance in `KernelParts`.

### `sleep(2)`

`NoOversleep` is inductive with the types alone: the second `tout` names wakes
all; one it does not name leaves `tout` ahead; who sets `tout` sets it no later
than it was, unless it was past and nobody slept.

### Files, signals and `psinfo`

`FileInv`, the invariant of the descriptors, is seven parts: `FileTypes`;
`DeadClear`, a process that is no more has nothing open; `LastAlone`, whoever is
in the middle of the last close of a file structure is its one reference; `FilesCounted` and `InodesCounted`, the counts are the
numbers of references; `DriversTold`; `OffsetsMeant`.  The middle of a call is
what makes the counts hard: `open1` holds an inode no descriptor refers to yet,
`closef` a structure no descriptor refers to any more.  A count is the cardinality of a set of (process, descriptor)
pairs and of processes in such a place, so each action is shown to put in, take
out or move one member (`Recount` and the lemmas after it).  The offset is two
words; `Divided` shows the carry right.

`SigInv` adds to `Delivered` that nothing was sent to a free entry, and that a
process between `sleep`'s test and its sleep has a signal only if it is in
`late`: without that, a sleep could begin with a signal nobody noticed.  `PsInv`
adds that a process on the swap device has its frame where its entry says, which
is what an answer taken from the disk is compared with; it needs 0 not to be a
swap area.  `CallsCorrect` puts the three beside each other.

### The keyboard

`NoneSticks` speaks of the moments when no byte of a key is under way.  Between
them `KeyInv` follows the key: `AtRest`; `Pressing`, its bytes from the prefix on
or, once the handler has noted the prefix, from the code on; `Releasing`, whose
modifier stays on until the code is read although no key of its kind may be down
any more.  The two bytes of a key must come back to one code (`UnderWay`), which
is arithmetic on the top bit.

### The callouts

An entry's time is the sum of the differences up to it.  That sum is a fold, and
what a fold is for every list would need induction; but any two functions with
the recursion's equations agree, so the invariant says that there is a function
`g` of positions that starts at the first difference, grows by the next
(`Sums`), and at each entry is the ticks left to it (`ListInv`).  Insertion,
the tick and the removal of what is due each give the next `g`.  `ListInv` also
says that each call stands in the list once; `CallingInv`, that what the clock has
yet to call no longer does.

### The console

`TtyInv` says: two delimiters are never adjacent in the raw queue, because a
delimiter follows the character that ends a line; so a queue of `TTYHOG` characters
has at most half as many, and `t_delct`, a byte, does not run over.  The count is
the number of delimiters, plus the one `canon` has taken out and not yet counted
down (`PoppedOne`), unless a flush came in that moment (`torn`, section 3).
Nobody is asleep with the count above 0, and nobody at all while a line is being
taken: a wakeup reaches everybody, and a reader goes to sleep only after a test
that nothing comes between.  `NoLineMissed` assumes a queue's limit under
which a byte does hold the count, at most 507; `TTYHOG` is 256.

### What is only model-checked

* Liveness (`SleeperWakes`, `RebootFinishes`, both `CallsEnd`): out of the
  prover's reach.
* `Programs`, `Compiled`, `Assembled`: the algorithms and their references are
  recursive, and that they agree on every input is an induction over inputs.
* `Console` (`Whole`): that the characters read are those typed, after erasing,
  compares two recursive readings of one sequence.

## 5. What is not modelled

* Cache: `swap` and `physio`, which put their own headers in the same queue; the
  tape branch of `bdwrite`; register-level I/O; the bytes of a block.
* Inode table: mounted file systems, more than one directory, permissions (any
  open may be refused), the blocks of a file, I/O errors (the IDE driver reports
  none), several descriptors to a process.  The superblock half of `update`
  writes a block the cache already orders.
* Pipe: `dup` (to a file structure it is what a fork is), the inode's life before
  `pipe()` returns and after the last close, the indirect way a block is found
  (`bmap`), and the loss of a block that `writei` changed and released unmarked
  after a fault (`RDWRI.C:97-98`).
* Processes: tracing (compiled out), priorities and ages (any candidate may be
  chosen), the sticky bit, the frame a signal pushes.
* `FileBlocks` lets one process at a time work on a file: the kernel does not see
  to that, and two writers may lose a block (`stale`, a hazard without a property).
* `Tty`: UART, delays, case mapping, the screen; a tab's echo loop when no clist
  is free; `stty` that changes the erase and kill characters.  `Console` says
  nothing of a line that fills `canonb` (`TTY.C:249`), of one where an erase leaves a
  `\` last, which then quotes the next character, or past a flush inside `canon`.
* Editor: addresses and command syntax, the file commands, an interrupt in the
  middle of a command, `e`; in the matcher, an unmatched `\(`, `*` inside a global
  substitution of empty matches, lines of 254 characters.
* Linker: arguments, listing, the 64K tests, `-M`; STATIC names in overlays, and
  names given by an overlay as well as by the root or the library; libraries
  between the files of one overlay.
* Assembler: 80186 and V20, SEG, data directives, conditionals, listing;
  comparisons of comparisons (`ASM4.C:117-142`).
* Compiler: declarations, initialisers, the preprocessor; in `GenExpr` long,
  float, structures, the large model, OPT other than 0, and the inputs listed in
  section 3; the encoder.
* Debugger: everything but the disassembler; its 30-character buffer and layout.
* The processor, the interrupt controller, the context switch, traps and the
  segment arithmetic of user memory: assumptions of every module (section 1).
* Librarian, file compare, boot, host scripts, images: straight-line copying.
* The order in which the superblock, inodes and data reach the disk after a
  crash: the cache's part is `RefinesBlockStore`, the file system's is not stated.

## 6. Plan

1. `EdTemp`: a theorem of `ReadBack`, from what its two buffers and the file hold.
2. `FileBlocks` over a crash: what may be wrong on the disk after any prefix of
   the writes.
3. The compiler's declarations and the preprocessor.
