# Verification of the SD card audio player (Program 5)

TLA+ models, TLC runs and TLAPS proofs for the ATmega2560 program in `src/`
that reads an ext2 file system from an SD card over SPI and plays audio with a
timer interrupt. The models are translated from the C source; line numbers
below are those of the files in `src/`.

## The system

| Part | Source | State | Operations |
|---|---|---|---|
| SD block reader | `SdReader.c` | `block_`, `offset_`, `inBlock_`, `partialBlockRead_`, `errorCode_`, `type_` | `sdReadData`, `sdReadBlock`, `sdReadEnd`, `sdPartialBlockRead`, `sdReadCSD/CID`, `sdCardCommand`, the two wait loops |
| SD initialisation | `SdReader.c` | the same globals; `retry`, `t0` | `sdInit` |
| Player main | `program5.c` | superblock, inode, directory entry, buffer (all static) | `main`, `get_super_block`, `get_inode_p5`, `getBlock`, `print_directory`, `readMus` |
| Timers, playback | `os.c`, `os_util.c` | `isr1`, `isr2`, `temporaryBuffer`, the timers | `TIMER0_COMPA`, `TIMER1_COMPA`, `start_system_timer`, `start_audio_pwm` |
| Threads | `os.c`, `os.h` | `system_t` with up to 8 threads, `runningThread`, `numThreads`, saved stack pointers | `create_thread`, `os_init`, `os_start`, `yieldGiven`, `context_switch`, `get_next_thread` |
| Mutexes, semaphores | `synchro.c` | `lock`, `waiting`, `owner` of `printLock` (the pointer of `os.c:16`); `value` | `mutex_init/lock/unlock`, `seminit`, `sem_wait`, `sem_signal` |
| ext2 reader | `program4.c`, `ext2.c` | an open image file, inodes, directory entries | `get_inode`, `find_file`, `entry_amount`, `read_direct_block_dir`, `read_blk`, the file branch of `main` |
| Serial console | `serial.c` | the UART | `print_int`, `print_int32`, `print_hex`, cursor and colour commands |
| Animations | `synchro.c` from line 132 | counters of what is on screen | terminal output |

`main` calls `sdInit` once, starts the timers and enables interrupts; from then
on it reads the superblock, inodes and blocks with `sdReadData` while the
22 kHz timer interrupt feeds bytes of `temporaryBuffer` to the PWM output. The
components share memory, not messages: the reader's cached position is shared
between one call and the next, the buffer between main and the interrupt. The
thread library and the mutexes are linked into the program, although this
version of `main` starts no thread. The ext2 reader `program4.c` is a host
program and not part of the firmware (its line of the Makefile is commented
out).

What is hard in this code:

- **The stream position.** The card has no notion of "read byte 17": it sends a
  block from its first byte on, and the driver counts. `offset_` and `block_`
  are right only if every path (a continued read, a skipped byte, a partial
  read, an error, an end of block) counts exactly the bytes that were clocked.
- **Re-initialisation.** The card keeps its state when the processor resets or
  `sdInit` is called again.
- **The wait loops** on a card that may be slow, absent, or answer with noise.
- **16-bit arithmetic**: `int` has 16 bits on this processor.
- **Interrupts and threads** that share variables with `main`, and switch
  stacks.

What makes each part correct: the reader returns exactly the requested bytes or
an error; `sdInit` returns, and reports success only for a card the reader can
use; the playback interrupt plays the bytes the reader loaded, in order; at most
one thread is past `mutex_lock`, a thread runs its own code on its own stack, the threads never lose their table, and
the searches pass over no ready thread; every thread created has its row and a
stack of its own; the ext2 reader outputs each byte of a file once and in order,
and each directory entry once; a printed number is the number. `PROJECT.json`
lists the hazards line by line, each with the properties about it.

## Modules

| Module | Models |
|---|---|
| `SdCard` | the card at the other end of the bus (external: what SD cards do in SPI mode, as far as `SdReader.c` relies on it) |
| `SdCalls` | the calls a client of `SdReader.h` makes |
| `SdBlockStore` | what those calls promise: the abstract specification |
| `SdReader` | the reader of `SdReader.c`, byte by byte on the bus |
| `SdInit` | the handshake of `sdInit` with every kind of card |
| `SdSize` | `sdCardSize`: the fields of the CSD register at the widths of C |
| `Player` | `main` of `program5.c` up to its endless loop, against the playback interrupt |
| `Ext2Inode` | `get_inode` and `get_inode_p5`: from an inode number to a place on the card |
| `FilePrinter` | what "display the contents of files" promises: the abstract specification |
| `Ext2File` | the file branch of `main` in `program4.c`, with `read_blk` |
| `DirListing` | what "list the files/directories" promises: the abstract specification |
| `Ext2Dir` | the directory branch of that `main`, with `entry_amount` and `read_direct_block_dir` |
| `Threads` | `os_start`, `yieldGiven`, `context_switch`, `thread_start`, the mutex and the semaphore |
| `ThreadTable` | `os_init`, `create_thread`, `os_start` as writes to the table and the heap |
| `NextThread` | `get_next_thread` and `get_next_thread2` |
| `Stats` | `display_stats`, over `NextThread` |
| `Animations` | `consumer_anim`, `producer_anim`, `display_bounded_buffer`, `just_animations` |
| `Serial` | number printing of `serial.c` with the static buffer of `giveInt` |
| `CInt` | signed integers of a given width, and division of C |
| `SdReader_proofs`, `SdInit_proofs`, `Player_proofs`, `Ext2File_proofs`, `Ext2Dir_proofs`, `Threads_proofs` | theorems about the module each is named after |
| `ThreadData_proofs` | theorems about `ThreadTable`, `NextThread`, `Stats` and `Animations` |
| `Numbers_proofs` | theorems about `Ext2Inode`, `SdSize` and `Serial` |
| `MC*` | small instances for TLC |

`SdReader` keeps the names of the C globals. One step is one pass through a
loop of the driver, that is, one byte on the bus. `spdr` is the SPI data
register: the code writes it to start the next transfer and reads it one
transfer later, and the model keeps that pipeline, which is why the card is one
byte ahead of `offset_` inside a transfer and level with it between calls.
`pc` says where in the call the driver stands; `cont` is where `sdReadEnd`, which
is called from four places, returns to. A byte is modelled by what it means (byte k of
block b, a crc byte, filler), so reading a wrong byte is always visible. The six
bytes of a command are one step: a card that is quiet sends nothing meanwhile,
and `CommandsMeetReadyCard` shows it is quiet. The card may answer or fail at
every wait, and every pass of a wait loop is a step, so each wait ends by an
answer, an error or its limit.

`SdInit` takes a command in two steps: the card's attention (`sdReadEnd`, slave
select, the busy wait) and the response. `kind` is the card in the socket,
`doubtful` (the type was found for another card, or read from one still sending) and `initialised` belong to the environment; between calls the client may call
`sdInit` again with a block open, the processor may restart, or the card may be
changed. A restart finds the card anywhere in a block or a register or, if the reset came in
`sdWaitStartBlock`, still preparing it: then the card may send its token in any byte of the handshake,
a command may be ignored, and the driver may take a byte of the block for any response. `waited` marks
such a card until it is heard quiet, or exchanged. The busy wait ends at the first byte that reads 0xFF; as a data byte may be 0xFF,
it may end in the middle of a block, and the model lets it.

`Ext2File` starts where `main` has read an inode and found a regular file. (The
call of `find_file` is commented out in this version, so the inode is number
2.) One step is a `read_data` with its `fwrite`, or the end of a loop; `pc` names the
loop. The loops are bounded by two counts that `main` keeps apart, bytes
(`sizeLeft`) and blocks (`blksLeft`); `size / 1024 + 1` is one block too many for a
size that is a multiple of 1024, so the walk then reads pointer blocks it does not need,
which may be block 0. What is printed is a sequence of half blocks, each with its length.

`Ext2Dir` keeps a block as a function from the offsets where its entries begin to
the entries, so that `sizeRead` lands on an entry or nowhere. A store past
`dirEntry` or `nameBuffer` ends in `pc = "undefined"`. Names are numbers in the
order `cmpfunc` is taken to have; the repository declares it and defines it nowhere.
`qsort` is not stable, so `Sort` may leave entries of one name (a deleted file and
its successor) in either order.

`Threads` keeps what the switch really works on: a stack pointer, and the words
in the memory of each stack, which stay there when they are popped. A word is a
return address or a set of saved registers. `yieldGiven` picks both rows by
`runningThread`, which nothing changes after `os_init`; so from the second
switch on, it loads the first frame of thread 2 again, whose memory thread 2
has used since. What RET then finds is either the untouched `thread_start` or an
address in the body of thread 2, left there by its last call. The bodies are a constant,
sequences of calls repeated for ever, as the thread functions of `synchro.c`
are; each behaviour gives every thread one of them. Nothing
preempts a thread in this version (the switch in the timer interrupt is commented
out), so a call of the mutex is one step up to the point where it gives up
control, and `Continue` is what is left of a function after a switch.

The mutex of the bodies is not the one `main` initialises. `program5.c:30` declares a `printLock` of
its own, static, and `mutex_init` (`program5.c:50`) sets that one; the `extern mutex_t printLock` of
`synchro.c:7` links to the pointer of `os.c:16`, two bytes of zeros. So `lock` and `waiting` start at 0,
which means taken, and `owner` is the byte behind the pointer, the low byte of `memBegin`, the
address of the thread table (`Taken` stores it). `LowBytes` are the values that byte may have: it is
207 in `program5.hex`, and 1 is the value of `runningThread`, for which `mutex_unlock` would do something.

`ThreadTable` writes addresses, so that two stacks can overlap. `create_thread` reads
`numThreads` again for each field; a row past the eighth lies over
`numThreads` itself and its `ticks = 0` sends the stores that follow to row 0. `memcpy` of a
name runs over the fields behind `tName` in their order in `thread_t`.

`Player` is `main` as a sequence of reads, each a sequence of stores to the
variables of the model. `get_super_block` reads 512 bytes into 84,
and `getBlock` 512 into 8; what lies behind is taken from the
symbol table of `program5.elf`: `sb` 0x8007c7, `isr2` 0x80089c, `dP` 0x80089e, the
driver's `block_` 0x8008a7 and `offset_` 0x8008ab. The interrupt may come between
any two stores, also between the two bytes of one variable.

`Serial`, `SdSize` and `Ext2Inode` are what the code computes, at its widths: a
number is converted by `AsInt` where the code stores it in an `int`. `Serial` keeps
`giveInt`'s buffer between calls, because callers hold pointers into it. `SdSize` takes `c_size_high` of
version 2 out of byte 7 as the compiler does, which allocates bit-fields from the lowest bit: its
upper six bits, while the card has its bits in the lower six (`SdInfo.h:199-200`).
`Animations` keeps, of each row, the marks and the colour each is drawn in, and
`Stats` one panel per place of the screen.

## Runs

| Run | Shows |
|---|---|
| `sd_reader` | `TypeOK`, `StreamInSync`, `CommandsMeetReadyCard`, `CloseLeavesNothing`, that the driver implements the block store, and that every call returns |
| `sd_reader_wrap` | *violation*: an offset and count whose 16-bit sum wraps pass the range test (`SdReader.c:283`) and the read returns 1 with bytes that are not in the block |
| `sd_init` | `TypeOK`, `HandshakeMeetsQuietCard`, `SuccessMeansUsable`, and that `sdInit` returns |
| `sd_init_timeout` | *violation*: the loop with the comment "timeout after 2 seconds" counts passes, not microseconds |
| `ext2_file` | `TypeOK`, `CountsAgree`, and that the walk implements the file printer |
| `ext2_file_short` | with an `fwrite` that may be short or fail: the walk prints no more blocks than it counted, and ends |
| `ext2_dir` | `TypeOK`, `NothingLeaks`, that the directory branch implements the listing, and that it ends |
| `player` | `TypeOK`, that a read takes one whole block off the card although the sector overwrites the driver's count, that playback reaches every byte of the buffer, that old bytes fade |
| `threads` | `TypeOK`, `MutualExclusion`, `OwnCodeOwnStack`, `OnlyThreadTwo`, that no lock moves the table (`TableStays`), `InterruptsReturn` |
| `threads_swap` | *violation*: `os.c:122` says that threads swap continuously; none but the second runs again |
| `parts` | the table (`EveryThreadStored`, `FramesInOwnStack`), the searches (`NextInTurn`, `FindsReady`), the statistics (`StatesShown`), the animations (`ColoursAreKept`, `PicturesAreErased`), and the computations (`PrintsTheNumber`, `SizeIsCapacity`, `RightInode`) |
| `print_int32` | *violation*: `print_int32`, "nearly identical to print_int" (`serial.c:101`), prints nothing for 0 |

`parts` puts modules next to one another that share no step: the variables `running` and, among the
thread data, `part`, chosen in the initial state, say which of them runs, and the others keep a
fixed state. The parts in `MCThreadData` share the state of `NextThread` where
the code does (`display_stats` reads what the search counts).

Bounds. `SECTOR` is 3 in `sd_reader` and `sd_init`: enough for a first, a middle and a last byte, so
that a read can start at, continue from and end at each; two blocks, so that a
read can miss the open block; every read inside a block and each that ends one
byte past it; three passes of a wait loop and two of the response loop.
`MOD16` is 8, the smallest power of two above the block and its crc, which
puts the wrap of `offset_` within reach. `sd_init` gives CMD0 one retry and the
ACMD41 loop a few passes; `BYTE_US` is 0 there so that time does not multiply
the states, and 64 (f_osc/128) in `sd_init_timeout`. That run uses a limit of
20 ms instead of 2000: the factor between a pass and the microsecond it is
counted as is the same, and the run is a hundred times shorter.
`Ext2File` has two direct pointers, two pointers per block and sectors of two
bytes: eight blocks behind direct, indirect and double indirect pointers, and in `ext2_file`
every size from 0 to 32 bytes, so that a file ends before, at and after each
boundary of a half block, a block, a row and a level. `ext2_file_short` has sectors of
one byte (each `fwrite` succeeds or fails) and the sizes about those boundaries.

`ext2_dir` has directories of none, one or two blocks of four bytes, cut into entries in
five ways, any of which may be deleted; up to five entries fit, `MAXENT` is
5 and `NDIR` 2, so both are reached and not passed. `MOD8` is 8.
`threads` has three threads and seven bodies: those of `synchro.c` (lock, draw, unlock),
ones that yield before or between sections, and two that yield or lock again
inside one, each with both bytes of `LowBytes`. Thread 3 shows that nothing reaches a third thread; `threads_swap`
needs two. `parts` fills the table of eight rows with seven creations, two stack
sizes and names of 4 and 12 characters (12 is the longest that leaves the address
alone), searches among four threads and lets `sched_count` wrap at 2;
`Cells` is the code's 10. `player` has a buffer of four bytes and bytes of two
bits, so that an `int` runs from -8 to 7 and the wrap of `isr2` is near; its
sectors have zero or other bytes over `isr2`, and what ext2 writes over `offset_`.
`parts` prints numbers of one to five digits, 0 included, with longer and shorter
numbers before, and some that an `int` does not hold; the registers of `SdSize` have bytes of six bits and the edges of
each field, of version 2 on both sides of the middle of `c_size_mid`, with bits in byte 7 that the code finds and
bits that it does not, up to the largest card; `Ext2Inode` has the first 32 and the last 16 inodes of each of four groups
of 256 with an `int` of 28 bits (a 32-bit one is out of TLC's integers), and the first 256 inodes of a group with one of
16. `print_int32` has three numbers for each function, which is enough to show the call that prints nothing.

Fairness. The driver is alone on the bus and makes its own clock, so a call
that executes keeps executing: weak fairness of the driver's steps as a whole,
and none for the client, the card or the user. A card that never answers is
covered: the poll steps are steps of the driver, and end at their limit.
The block walk, the directory walk and the threads from `os_start` on
are each one processor that goes on executing: weak fairness of their next step. In
`Player` the timer and `main` each have their own weak fairness, since the interrupt
is periodic and returns. In `NextThread` the loop of the search goes on, and nobody has to call it; the animations and the computations need no fairness, for nothing is claimed of their ends.

Deadlock is checked in the runs of the driver, the handshake, the player and the
threads, and in `print_int32`, which never stop. The block walk and the directory
walk end, and the thread table is full after its last creation, so their runs do not
check for deadlock; that the walks end where they should is `Terminates`.

## Proofs

The theorems about the driver hold for every sector size, register size, set of
blocks and of calls, card type, and limit of the wait loops.

*The reader* (`SdReader_proofs`), under two named assumptions: `NoWrap` (no call
has an offset and count that add up to 2^16; the run `sd_reader_wrap` shows
why it is needed) and `RightAddressing` (the driver was told the card's type,
which is what `SdInit` is about, and a byte address fits 32 bits).

- `TypeCorrect`, `StreamStaysInSync`, `CommandsSafe`, `ClosesExactly`: the
  invariants and the action property of the run.
- `StoreImplemented`: every behaviour of the driver is one of the block store,
  under the mapping `busy <- pc # "idle"`.

The properties are not inductive: that the right bytes arrive depends on the
card being one byte ahead of `offset_` in the middle of a transfer, on the data
register holding the byte in between, and on what has been stored so far.
`IInv` says this for each label: `BetweenInv` between calls, `ReadEndInv` and
`DrainInv` while a block is closed, `CommandInv` during a command,
`TransferInv` during a transfer (the card is at `offset_ + i + 1`, `spdr` holds
byte `offset_ + i`, `dst` the first `i` bytes asked for), `RegisterInv` during a
register read. One lemma per group of actions shows that it is kept; TLC
checked it first.

*The handshake* (`SdInit_proofs`), with no assumption but those on the constants.

- `InitTypeCorrect`, `HandshakeQuiet`, `SuccessUsable`.

`BusInv` says that at most one byte of a block survives the 513 bytes of the
pre-drain and that the first busy wait swallows it; `KnowledgeInv` says what the
handshake knows of the card at each command. Both properties except a card that a reset caught before its
token (`waited`): its token may come in the last of these bytes or later, and nothing in the code
waits for it. `SuccessMeansUsable` excepts one more
case: CMD8 rejected by a card that was exchanged since `type_` was assigned,
for which nothing in the code gives a guarantee. That `sdInit` returns has no exception.

*The block walk* (`Ext2File_proofs`), for every number of pointers in an inode and in a
block, every block size and every set of files:

- `WalkTypeCorrect` and `WalkWithinBlocks`, whatever `fwrite` returns.
- `WalkCountsAgree`, if every `fwrite` is complete and the files need no triple
  indirect block (`WithinReach`).
- `WalkPrintsFile`, the refinement, if moreover no file has a hole
  (`NoHoles`). Both assumptions are needed: a longer file is cut off and a hole
  prints block 0 (see below).

`CountInv` is the strengthening: while bytes are missing, `sizeLeft`, `blksLeft` and the
length of the output all tell the same position `Index` in the file, which each
loop expresses by its own counters. A loop that ends then has used up
its pointers, because `size` is below the start of block `BlockCount` (`BlocksRemain`);
`PointerInv` and the lemma `DivMod` turn `i` and `j` into the block ext2 has at `Index`.

*The threads* (`Threads_proofs`), for every set of bodies and two to seven threads:

- `OwnCode`, `ThreadTwoKeepsRunning`, `NeverTwoInside`, `TableKept`, `ThreadTypes`.

`OwnCodeOwnStack` is not inductive, since it says nothing of what a switch will find.
`IInv` adds that (`FrameInv`): row 2 still points at the first frame, and that
frame is either the one `create_thread` built or has an address of the body of
thread 2 over its first word. The key lemma is `PushedOnEmpty`: a thread calls
with an empty stack, so the first word it pushes lands exactly there. `SwitchGoesToTwo`
shows that every switch keeps this. It follows that no function that gave up
control is ever returned to (`ContinueStep`): the second half of `mutex_lock`
behind its `yieldGiven` never runs. For mutual exclusion `MutexInv` adds that the lock is taken and nobody is inside until
the processor is with thread 2: the lock starts taken, so the first `mutex_lock` of thread 1 gives control away for ever.
Thread 2 comes back from its own on the stale frame, without the lock. So the exclusion needs no
assumption on the bodies, and owes nothing to the lock. `TableKept` rests on the last part of `MutexInv`: the lock is open only
if the byte behind it is 1, the value of `runningThread`, so a `mutex_lock` that gets it stores the byte that is there.

*The directory listing* (`Ext2Dir_proofs`), for every block size, array size and set of
directories whose entries fill their blocks (`WellFormed`):

- `ListingTypeCorrect` and `ListingFreesAll`, whatever the directory.
- `ListingImplemented`, the refinement, if the directories are `Listable`: they fit the
  arrays and the 8-bit count, have no file types in their entries and no two files
  of one name. The run `ext2_dir` checks that its directories are (`DirsListable`).

`ScanInv` says that `dirEntry` is a copy of the entries at the places passed so far, each once
(`Copies`: a bijection from its indices to `Places`). `CursorInv` keeps `sizeRead` on the
beginning of an entry or on the end of the block. A sort composes that bijection with a permutation;
`ListInv` then says that the copy is sorted and that as many lines are printed as files were
passed. As the names in use differ, the files passed are the smallest, which
is what the abstract listing prints next; a deleted entry is a stutter.

*The player* (`Player_proofs`), for every buffer that an `int` can index, width of a byte
and set of sectors: `PlayerTypeCorrect`; and `ReadsTakeWholeBlocks`, if what falls on `offset_` is
zero (`ZeroOverCount`, as mke2fs leaves it). `UncountedInv` is the strengthening: every store still
to come that falls on `offset_` is zero, and from a read's first store to its
last `offset_` is zero. Stores and interrupts come in any order.

*The table* (`ThreadData_proofs`): `EveryThreadKept`, if main and the threads fit the
table (`FewThreads`) and no name reaches the address (`ShortNames`); `FramesKept`, if moreover
the heap is large enough for the stacks (`LargeHeap`). `StacksInv` says that
stacks follow one another up to malloc's next address and that what is left
suffices for the calls to come.

*The search* (`ThreadData_proofs`), for every number of threads: `TakenInTurn` and
`SearchTypeCorrect`. `SearchInv` says that no ready thread lies between the running one
and the row looked at, going round.

*The statistics* (`ThreadData_proofs`): `EveryPanelShown`, for up to six threads
(`SixPanels`; the seventh panel covers the fourth). `DrawnInv` says that the panels of
the rows passed are on the screen, each in a place of its own (`PlacesDiffer`).

*The animations* (`ThreadData_proofs`), for every length of the bounded buffer and every order in which
threads draw: `AnimationsTypeCorrect`, `ColoursStay`, `PicturesGo`. `PicturesAreErased` is not
inductive: it says nothing of a picture that is still being drawn. `ErasedInv` adds that the
letter G stands in no row but the first, is gone from the producer's first row before the blank
frame, and that a picture is gone once its last frame is drawn, before the task changes.
`ColoursStay` rests on what each row leaves as the terminal's colour for the next.

*The types of `MCThreadData`*: `TypesCorrect` puts the four parts together.

*The inode* (`Numbers_proofs`): `InodeIsRight`, for every width of `int`, number of
inodes and blocks per group, and request, if every group's inode table is at its sixth
block (`SixthBlock`) and no value leaves the `int` (`FitsInt`).

*The card size* (`Numbers_proofs`): `SizeIsRight`, for every width of the fields, if the largest
size of version 1 fits a `uint32_t` (`SizeFits`, true of the real widths). For version 2 it is an equivalence: the size is right
for the cards of `Readable` and wrong for all others. These are the cards with no bit of C_SIZE in byte 7 and a
`c_size_mid` below 128 (up to 16 GiB), and those with all of the upper bits set, but the largest. Both the bit-field order
and the 16-bit shift of `SdReader.c:144` are in it.

*The number printing* (`Numbers_proofs`): `NumbersArePrinted`, for every width of `int` and padding, with no other
assumption: every number from 0 on that an `int` holds is printed as its digits, but 0 by `print_int32`, for
which `Expected` has the empty output of the code (the run `print_int32` shows that this is not what the comment says).
`Digits` and `Value` are recursive functions, and the induction theorems of the library cannot be
instantiated; `SetInduction` derives an induction from its pigeonhole theorem: a set that has 0
and all its successors but misses m would map its members below m one to one into those but 0.
With it `DigitsExist` and `ValuesExist` show that the functions are what their equations say, and
`DigitsAreNumeral` that the loops find the numeral of a number. `ShownIsWritten` is what the
shared buffer needs: what `giveInt` writes at its end is what its pointer shows.

Only model-checked: liveness (`EveryCallReturns`, `InitReturns`, `Terminates`, `InterruptsReturn`,
`FindsReady`, `EveryBytePlayed`, `OldBytesFade`), because the prover does not
reason about `ENABLED`. Every other property of the passing runs is a theorem.

## Assumptions about the card

A card that has accepted a read ignores commands until it has sent the block
and its crc; a card that has not sent its start token within the 300 ms of
`sdWaitStartBlock` has given up (`SdReader.c:384`; the driver could not tell);
transmission errors hit responses, not data (the driver does not check crc).

## Where the code does less than it seems to

The properties hold under preconditions that the instances and the theorems
state. Outside them the code does the following, which the runs leave out.

- `SdReader.c:236`: a card that rejects CMD8 is not refused, although `SdReader.h:44` calls it
  not valid; the error is recorded and `sdInit` goes on.
- `SdReader.c:197-204`: the pre-drain and the busy wait do not cover a processor reset in `sdWaitStartBlock`
  (`SdReader.c:378-388`): the card may send its token during the handshake, and CMD0 meets its data.
- `SdInfo.h:199-200`: `reserved3` is declared before `c_size_high`, so the code takes bits 7:2 of byte 7 for the card's 5:0; and
  `SdReader.c:144`: `c_size_mid << 8` is a 16-bit shift. The size of a version 2 card is wrong from 16 GiB on, except for
  all but the last of the largest cards, for which the two mistakes cancel (`Readable`).
- `program4.c`: a file that needs its triple indirect block is cut off; a hole prints block 0;
  a directory is read up to twelve blocks and 256 entries, and a `rec_len` of 0 fills the 256;
  with file types in the entries, `name_len` indexes past `nameBuffer`.
- `program4.c:195`, `program5.c:281`: the inode table is not at the sixth block of a group without
  copies of the superblock (sparse_super); inode 257 of a group overflows the `int` of `program5.c`.
- `program5.c:44`: a failed `sdInit` or read is not acted on. `main` reads sectors into shorter
  variables; what ext2 leaves there is zero in the usual image.
- `os.c:43`: the eighth thread loses its address; `os.c:82`: a name of 13 or more
  characters overwrites the address; `os.c:42`: after a failed malloc the first frame is written below the heap.
- `os.c:98`: all switches go to thread 2 (run `threads_swap`). `os.c:16`, `program5.c:30, 50`: the
  mutex the bodies lock is never initialised. It starts taken, so thread 1 stays in its first `mutex_lock` for ever; the branch
  "lock resource if available" (`synchro.c:75`) is taken only after an unlock that found `runningThread` in the low byte of
  `memBegin`, which no unlock does in this build (207); and `owner` is stored over that byte. `sem_wait` does not block. The row marked
  RUNNING is not the row on the processor.
- `synchro.c:774`: every panel of `display_stats` shows the count of the running thread; the
  seventh covers the fourth. The blank row over CONSUMING is a letter short, so its G
  stays, and the last row of the producer's picture stays.
- `serial.c:75, 118, 137`: numbers from 32768 up are cut to an `int`: they print nothing, a negative remainder, or another
  number. `serial.c:104`: `print_int32` prints nothing for 0, which `synchro.c:729` passes in the first second.

## Not modelled

- `print_directory` of `program5.c`, which walks from a pointer that is never set, `print_inode`,
  `print_super_block`, `blank_audio`.
- The interrupt of timer 1, which only counts `isr1`; the timer registers.
- `GNT` and the commented-out preemption of `os.c`; `thread_sleep` and `sem_signal_swap`, which are empty.
- `find_file` and the command line of `program4.c`: the call of the one is commented out.
- `blink`, `lightOn`, `lightOff`, `print_string`, `set_color`, `clear_screen`: fixed output.
- Cursor positions of the animations, except the places of the panels.
- The 32-bit wrap of `block * 512` in `read_data`: images stay below 4 GiB.
- `WavePinDefs.h`: pin numbers.
