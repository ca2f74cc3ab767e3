# Rebug Toolbox in TLA+

Rebug Toolbox is an application for the PS3: an XMB-like menu (`src/source/toolbox.cpp`) from which
the user dumps and patches the flash, swaps kernels and emulators, changes LV1/LV2 settings, backs up
the registry and so on, with an FTP server (`src/source/openftp/`) that runs in threads of its own
beside it. This directory holds TLA+ models of its concurrent and failure-prone parts, the TLC
configurations that check them, and TLAPS proofs about them.

    tlc -config MCFtpRecvFile.cfg MCFtpRecvFile.tla     model-check one run
    tlc -config MCRetailMenu.cfg SystemModes.tla        the same, without an MC module
    tlapm FtpRecvFile_proofs.tla                        check one module's proofs

## 1. Inventory

| Component | Source | State | Operations | Talks to |
|---|---|---|---|---|
| FTP upload | `openftp/ftpcmd.c` `recvfile`, `callback_aio` | double buffer, `aiow0`, `ret` | receive a half, write the other half asynchronously, wait, return | data socket, file system's AIO, `app_shutdown` |
| FTP download | `openftp/ftpcmd.c` `sendfile`, `callback_aio` | double buffer, `aior0`, `tmp_offset`, `ret` | read a half asynchronously, send the other, return | the same |
| FTP sessions, listener | `openftp/ftp.c` | per session: sockets, login, `rest`, `rnfr`, `cwd`; global: `timeout`, `exitapp` | accept; the commands; time out; exit | upload, download, each other through the globals, life cycle |
| FTP strings | `openftp/functions.c`, CDUP in `ftp.c` | none (`cwd`) | `ssplit`, `absPath`, CDUP's loop | sessions |
| FTP listings | `openftp/ftp.c` LIST, MLSD, MLST, NLST | none | format directory entries | data socket |
| File copy | `toolbox.cpp` 3826-3987, 1109-1118 | double buffer, `aiow0`, parts | read, write asynchronously, split, remove on abort | registry, kernel loader, emulator swap, screenshots |
| Registry, kernel loader, emulator swap | `toolbox.cpp` 8358-8545, 11916-11971 | files, LV1's path to the kernel | unlink, rename, copy, judge by `exist()`; restart LV2 | file copy, dialogs, LV1 |
| System modes (Selector) | `toolbox.cpp` 9109-9269, 11584-11914, 11973-12028 | names of files, `rebug_mode`, `xmb_mode`, `menu_mode`, `cobra_mode`, `webman_mode`, `cfw_settings` | tell the modes from the names; chains of renames | file system, life cycle |
| Target ID, kernels and plug-ins | `toolbox.cpp` 6785-7370, 8635-8649, `storage.h` 663-780 | EID0 in flash, two ROS banks, plug-in names, `error_cex_dex`, `dex_flash`, `dex_mode` | convert or overwrite the target, rename plug-ins, swap kernels | storage syscalls, file system, cryptography |
| Flash dump | `toolbox.cpp` 6453-6671, 8651-8704 | sector, step, retries, dump file | read with retries, write, remove if incomplete | storage syscalls, LV1 (system ROM) |
| Root key, IDPS, QA flag | `toolbox.cpp` 6673-6783, 2021, `storage.h` 405-953 | IDPS in LV2 memory, EEPROM | read, search and poke; toggle flags and token | storage syscalls, peek/poke, LV1 patches |
| LV1/LV2 patches, settings | `toolbox.cpp` 7601-7887, 8810-12102, `syscall36.cpp` | `c_firmware`, `dex_mode`, LV1's and LV2's memory, `lv1_*` | detect the firmware, read back, patch, unpatch | peek/poke, EEPROM, OtherOS |
| OtherOS, petitboot, VFLASH | `toolbox.cpp` 4078-4423, 4948-5024, 8547-8633 | region table, header, image, boot flag | resize the region, install, set the flag, boot | storage syscalls, LV1 patches |
| XMB columns, text pool | `toolbox.cpp` 4504-4902, 6046 | columns of entries, pool of rendered texts | add, scroll, render, recycle | pad, main loop |
| Side menu | `toolbox.cpp` 5026-5141, 5288-5823 | open lists, selections | open, move, choose | settings |
| Dialogs, pad, screen saver | `toolbox.cpp` 1222-1303, 1413-1737 | `dialog_ret`, pad repeat, `ss_timer` | open, wait, answer; dim | system callback, every component |
| Options file | `toolbox.cpp` 4425-4450, 5262-5277 | `options.bin` | read, remove and rewrite | life cycle |
| Life cycle | `toolbox.cpp` 2267-2427, 3054-3117, 7372-8151 | `app_shutdown`, loaded modules, `memory_container` | load, run, unload, exit | every thread |
| Hypervisor, storage and system calls | `hvcall.cpp`, `mm.cpp`, `peek_poke.cpp`, `syscall36.cpp` | none | wrappers in assembly | flash, EID, patches |
| Cryptography | `aes.c`, `sha1.c`, `aes_omac.cpp` | none | hash, cipher, MAC | EID |
| Fonts, graphics, shaders | `graphics.cpp`, `fonts*.c`, `*.cg` | textures | draw | XMB |

What is hard: asynchronous I/O whose callback writes variables the thread polls (upload, download,
copy); unlocked globals shared by all FTP sessions; an order to end that threads look at only between
blocking calls; failures noticed in some places and not in others; installation sequences that may
stop between two steps; modes that are nowhere recorded but in the names of files; sixteen options on
ten groups of firmwares, tested by some addresses and written by others; retries that change the size
of a step. `PROJECT.json` lists every such place under `hazards`, with its line.

What makes each component correct is stated with the properties below for the modelled ones; for the
planned ones, in the plan (section 7).

## 2. The modules

| Module | Models | Abstract specification |
|---|---|---|
| `FileTransfer` | what any of the three transfers promises | - |
| `FtpRecvFile` (`MCFtpRecvFile`, `FtpRecvFile_proofs`) | `recvfile()` and its callback | `FileTransfer`, slack one buffer |
| `FtpSendFile` (`MCFtpSendFile`, `FtpSendFile_proofs`) | `sendfile()` and its callback | `FileTransfer`, no slack |
| `FileCopy` (`MCFileCopy`, `FileCopy_proofs`) | `file_copy()` and its callback | `FileTransfer`, slack one chunk |
| `FtpServer` (`MCFtpServer`, `FtpServer_proofs`) | `handleconnections()`, `handleclient()` | - |
| `FlashTarget` (`MCFlashTarget`, `FlashTarget_proofs`) | `swap_kernel()`, `write_to_device()`, `write_eid()`, `cex_dex()`, `get_eid()`, `search_flash()` | - |
| `FtpPath` (`MCPure`, `FtpServer_proofs`) | `ssplit()`, `absPath()`, CDUP | reference statements in `MCPure` |
| `Firmware` | the detection of the kernel in `main()`, the addresses of system calls, `generic_patches()` | - |
| `Lv1Tables` | the addresses of every option on every firmware, as tested and as written, and what tells them apart | - |
| `Lv1Patches` | `check_settings()`, `apply_settings()`, `change_lv1_um()`, `change_lv1_dm()`, `add_utilities()`, the flags of `storage.h` | - |
| `FileSteps` | `unlink`, `rename` and `file_copy()` as steps that may fail | - |
| `SystemModes` | "Selector": what the names tell, and the renames of each switch | - |
| `SystemFiles` | `set_xReg()`, `load_lv2_kernel()`, `reboot_ps3()`, `swap_emu` | - |
| `OtherOs` (`OtherOsConstants`, `OtherOs_proofs`) | `resize_vflash()`, `install_petiboot()`, `boot_otherOS()`, `set_gameos_flag()` | - |
| `FlashDump` (`FlashDumpConstants`, `FlashDump_proofs`) | `dump_flash()`, `read_flash()` | - |
| `MCToolbox` (`MCToolbox_proofs`) | the menu's dispatch of the five modules above | - |

**FileTransfer.** A sink grows by stretches of the source, in order; a transfer ends as "ok" or
"failed", or is stopped. "ok" without a stop means that no more than `Slack` units are missing at the
end. `Slack` is what each implementation's unchecked last write can lose: one buffer for an upload and
a copy, nothing for a download.

**FtpRecvFile.** `pc` is the place of the thread in `recvfile()`: `open`, the guard of the outer loop
(`loop`), in `recv()` (`recv`), the inner loop (`dispatch`), the submission (`submit`), the final wait
(`drain`), `done`. `userData`, `aioOffset`, `aioBuf`, `aioSize` are the fields of `aiow0`, which the
callback (`WriteDone`, `WriteFails`) changes at any time. `rbuf` and `file` hold units, numbered by
their place in the peer's file, so that loss, duplication, reordering and corruption of a half that is
still being written can all be told apart. A half written to while its write is in flight has its new
contents written: the write takes effect when it ends.

**FtpSendFile.** Places: `open`, the guard (`guard`), the label `send_next` (`next`), `resubmit`
(label `aioagain`), `retry` (the loop after a busy read), `send`, `finish`, `done`. The gotos of the
code are kept: after a `send()` the thread goes to `next`, past the guard, so `app_shutdown` is seen
only at the start and after a retry.

**FileCopy.** Places: `start`, `loop`, `dispatch`, `submit`, `check` (line 3929), `split` and
`splitWait` (3938-3944), `next` (3945-3956), `wait` and `finalWait` (3965-3971), `finish`, `done`.
`parts` is what the parts contain, by offset, since the offset is not reset between them. Every caller
passes progress 0, so the branch at 3962 is unreachable and not in the model. The arguments are taken
to pass the test of line 3828.

**FtpServer.** One record per session holds the local variables of `handleclient()` and its place
(`at`); `timeout`, `exitapp`, `appShutdown` are the globals. `timeout++` is two steps, a load into
`reg` and a store, since nothing makes it atomic; the comparison after it may use the register or load
the variable again, and the model allows both. A command is one action from its `recv()` to the reset
of `timeout`, except PASV (which blocks in `accept()`: `pasv`), transfers and listings (`xfer`) and the
SITE commands that set `exitapp` and then call `exit(0)` (`exit`). `heard`, `late` and `lateAccepts`
are history, read by no action. The transfers themselves are in `FtpRecvFile` and `FtpSendFile`, whose
`Returns` says how they end; here they last as long as they like.

**FlashTarget.** An operation goes through the places `convert` (in `cex_dex()`) or `file` (in
`write_eid()`), `settle` (the `get_eid()` after the write), `rename` (one step per `rename()` call),
`search` (the loop of `search_flash()` over the two banks) and `report` (the rest of
`write_to_device()`); `swap_kernel()` goes straight to `search`. Data are kept to what the code compares:
the target ID in clear (`id0`, byte 0x75 of EID0) and in the signed section (`seal`, byte 5 of what it
decrypts to), the letter of each kernel's name in the directory of a bank (`_`, `C`, `D`, other), and
which kind of plug-in is under each of its three names. Encryption and MAC appear as the condition
that a section verifies with this console's key only. One action is one call that may fail, with what
the code does on its result; where the code ignores the result, so does the action. After `Cut`, a
power cut, the console may be started again if a bank with one active kernel is left. `faults`,
`missed`, `refused` and `lostEid5` are history, read by no guard but the bound.

**FtpPath.** Strings are sequences of characters without their NUL. In `MCPure` a peer's lines drive
`ssplit()`, `absPath()` and CDUP, so that every working directory checked is one a peer can bring about.
`ssplit()` cuts the command to `MaxCmd` characters and the parameter to `MaxParam`, both less than a line may
have. `MaxPath` is what the buffer of `cwd` holds: what the code does with a longer directory is not modelled.

**Firmware, Lv1Tables, Lv1Patches.** A patched word of LV1 is known by its address: `mem` is the set
of words that hold a patched value. `Core355` ... `Upper465` are the words that `apply_settings()`
writes for an option on one group of firmwares, `Test355` ... `Test465` the words that
`check_settings()` looks at, each copied from its own block of code, since the question is whether the
two agree. What the theorems need of the tables - which options share a word, and by which words a test
tells an option - is `TablesAssumption`, a statement without parameters that TLC evaluates on all of them;
`Misread` names the options whose test is wrong. One choice in the menu is one action: the option's variable, `apply_settings()`, and the
columns rebuilt with `check_settings()`. `add_utilities()` opens the EEPROM by two patches and puts
back what was read before (`Opened`, `Restored`). A debug kernel without an address in the chain of
comparisons is `Unknown` and takes the number of `version.txt` and the mode of a retail kernel.
`chosen`, which options were chosen and for which target, is history. The values poked are reduced to
patched and original; halves of doublewords that are written back as read are not in the sets.

**FileSteps, SystemModes, SystemFiles.** `files` maps a name to its contents. An operation is the list
of its calls (`job`), made one per step, so that a failure or a power cut may come between any two; `&&`
between two renames is the field `chained`. `Calls` and the constants like `RegRestore` are the bodies
of the code's branches in their order. After the calls `SystemFiles` goes on where the code looks at
the names (`then`); `SystemModes` ends with `check_settings()`, as every redraw of the columns does.
Whether `rename()` replaces an existing file is chosen in `Init`, as the code never relies on one
answer and nothing in the repository says.

**OtherOs.** The region's table, the size LV2 knows of (`capacity`, read at LV2's start), the header
with its flag, and how many sectors of its image are in place. `install_petiboot()` is `InstallHeader`,
a number of `InstallPiece`s and `InstallEnd`. `Start` is what happens when LV2 starts again. On a console
whose table cannot be told apart (`is_vflash_on()` ignores the result of its call and looks at a byte
that was never written) `Resize` may take the other branch; it then finds no magic numbers. `asked` and
`misread` are history.

**FlashDump.** The file is the sequence of sectors written to it. `ReadGives` and `ReadFails` are the
outcomes of one read in the loop of retries, `Write` the rest of an iteration, `Close` the end. A NAND
dump has the system ROM at its two ends (`rom`), the hole at its beginning included.

**MCToolbox.** The main loop dispatches one choice at a time (toolbox.cpp 7960-8151), and these five
modules share no state, so that `part`, chosen at the beginning, says which of them a behaviour is
about; the variables of the others are `Unused`. Names that mean different things in two modules
(`at`, `files`, `choices`) are one variable here with the part's own values.

## 3. The environment assumed

- Asynchronous I/O: a request is accepted, refused as busy or refused; an accepted one ends exactly
  once, with success or an error, at a time of its own, and its callback runs then (in a thread of the
  system or in one that polls `cellSysutilCheckCallback()`: the code allows both, and no property
  depends on it). It takes the offset in its `CellFsAio`, not the position of the descriptor. A
  successful write or read is complete except for reads at the end of the file.
- A peer may stop, break off or close at any time. `recv()` with `MSG_WAITALL` gives a full buffer or
  what is left; a `send()` may take less than it was given.
- An order to end (`app_shutdown`) may come at any time, and the process may end any time after it.
- Flash and file system, in `FlashTarget`: a sector is written whole or not at all, a write that fails
  may have been done; the directory of a bank has three sectors and may be written in part. A sector
  that `cex_dex()` could not read is whatever was in its buffer, which does not verify. `rename()`
  refuses a missing source and an existing destination. At the beginning the firmware has both files of
  every plug-in and the user a console whose target, kernel and plug-ins agree (`rex_compatible`, tested
  by the menu, means a firmware with both kinds); a bank may also hold another firmware (`Foreign`). The
  console starts from a bank with exactly one active kernel and `dex_mode` is that kernel's kind. A
  file given to `write_eid()` with the console's ID is a dump of this console.
- LV1's memory outlives the program and a restart of LV2 and is lost with the power; LV2's is lost with
  both. Calls to the update manager may fail (`MaxFaults`). A firmware may come with no option patched
  or with `lv1_um` and `lv1_pp` (`Shipped`); REBUG firmware is installed as `Installed` in `SystemModes`
  says, in debug mode with every switch on offer.
- `unlink()` and `rename()` do all or nothing; a `file_copy()` ends as `FileCopy` shows: complete,
  removed, or short and kept, and it makes an empty file of a missing one.
- At the beginning the flash holds COBRA's emulators (REBUG firmware with COBRA); the original ones come from
  the USB device. LV1's path to the kernel is found or not (`Install`); LV2 restarts either way.
- A sector of the flash is written or not; a read of the flash may fail or, in a dump, come short.
- Every interleaving of threads and callbacks between two steps that a thread can be interrupted at.

## 4. Runs

| Run | Bounds | States | Shows |
|---|---|---|---|
| `recv` | half of 2 units, files of 0-5, 1 busy refusal, every restart point and earlier partial file | 6074 | see below |
| `send` | half of 2, files of 0-5, restart points of 0-5, 2 busy reports | 13308 | see below |
| `copy` | half of 2, parts of 5, sources of 0-9, split or not | 2251 | see below |
| `server` | 2 peers, 4 commands between them | 337208 | see below |
| `flash` | 2 regions, 2 plug-ins, 2 faults (failed calls or power cuts) | 2331432 | see below |
| `pure` | lines of up to `MaxLine` = 6 characters (2047 in the code) out of `/`, blank, letter; commands of up to `MaxCmd` = 2 (15), parameters of up to `MaxParam` = 3 (1023), directories of up to `MaxPath` = 6 (1023) | 8617 | see below |
| `toolbox` | every kernel of the code; 2 choices in "LV1 Patches" and "Utilities", 3 in the other columns; 1 failed call or power cut; a flash of 11 sectors read 5 at a time with 4 attempts, 2 dumps; images of 0, 20, 33 and 50 sectors and regions of 0, 30, 48 and 60 | 482904 | see below |
| `recv_last`, `recv_rest`, `timeout`, `copy_ends`, `retail_menu` | as above; 3 commands for `timeout`; 3 choices and no failure for `retail_menu` | - | findings, section 6 |

Why the bounds are enough: with halves of 2 units, 5 units of file end on a full and on a short half
and make the double buffer return to the half it began with while each of the two writes is in
flight; a busy answer changes no other variable, so that one per place suffices (two where a read may
end busy and its retry be refused as busy). Nine units of copy make three parts, each of two chunks,
with a short chunk last. Four commands are what it takes for one session to log in, open a data
connection, give a restart point and transfer, and for two sessions to log in and act on each other.
Two regions
tell "back to the original one" from "to the USA"; the two plug-ins are those of the code; the banks are
two; two faults let one step fail and the repair or restart after it fail too, and every number of
operations between faults is explored. In "LV1 Patches" two choices -
one to disturb, one to be disturbed, on every firmware, target and flash - show any two options that
share a word, and a restart may come before, between and after them.
Three switches are what it takes to leave the installed state, meet a second mode and come back; one
fault per behaviour is what the code's own recovery could be expected to stand. Eleven sectors are two
whole steps and a short one, 4 attempts halve a step of 5 down to one sector; the images are below, at
and above the piece of 16 sectors, the chunk's multiple and the limit of `MaxImage`, the regions too
small, too large and as the resized one. Paths need a directory of one character, one of two, and a trailing slash; six characters have them. A line
of six characters can be too long for either buffer or fit in both; the two cuts are independent.

Upload (`recv`): `BufferExclusive` - the half `recv()` fills is not being written, nor is the buffer
freed under a write. `Accounted` - every unit taken from the socket is on disk, in the write not yet
successful, or in the current half, unless the call returns an error or was shut down.
`SuccessIffLastWriteDone` - what a return of 0 means. `Returns`, `TransferSpec`.

Download (`send`): `SendBufferStable` - the half being sent holds exactly the next units, and the read
in flight fills the other. `FreedUnderReadOnlyOnAbort` - the buffer goes away under a read only after
a failed `send()` or a shutdown (on these exits it does). `Returns`, `TransferSpec`.

Copy (`copy`): `WriteUndisturbed`; `KeptIffLastWriteDone` - a copy that is not removed is whole exactly
if the last write did not fail unnoticed; `UnitsInPlace` - each unit at its offset, in one part;
`EndsUnlessRefused`; `TransferSpec`.

Sessions (`server`): `AtMostOneMore` - after an order to end each session executes one more command at
most, and the listener accepts one more peer; `RestBelongsToConnection` - a transfer starts at a
restart point only if REST came after the connection was opened; `SessionsEnd` - a session ends once
the peer has gone or the end was ordered, although other sessions reset the count it waits for.

Target (`flash`): `TargetKept` - the ID in clear and the sealed one agree after every step, and become
0 only by an EID5 that could not be read; `OneLossPerFault` - each failed call or power cut costs at most
one bank its only active kernel or one plug-in its file; `KernelChanged` - what "LV2 Kernel successfully
changed" means for the banks; `CexTargetHasCexKernel`, `PluginsFollowTarget` - without faults, kernels
and plug-ins go with the target after every sequence of operations; `RefusalReported` - without faults
the user is told of a refused conversion and of no other.

Menu (`toolbox`): `SettingsTellThePatches` - what the menu shows of an option is what was last chosen
for it, over every restart, conversion of the target and access to the EEPROM, but for the options that
`Misread` names; `OnlyChosenPatches` - LV1 holds the patches chosen and no others, so that opening the
EEPROM for a flag takes none away and leaves none behind; `FlagsAreShown` - without a failed call the
flags shown are those of the EEPROM and QA flag and token agree; `ModesTell` - without a failed call
the modes told from names are those of the files that the system loads; `CobraHeals` - a switch of COBRA
that meets no failure leaves its two files on the same side, whatever an earlier one left; `FilesKept` -
no single failure loses the registry, the emulators are of one kind and COBRA's are kept, LV1 loads a
kernel that is there unless one was refused for want of space; `OtherOsSafe` - a failed or cut
installation never starts unless its owner asked for OtherOS since, a reported one is whole unless a
piece could not be read, and header and image stay inside the region when it is resized; `DumpInOrder` -
a dump holds the sectors in order, and one that is kept all of them or, on NAND, none.

Strings (`pure`): `CwdAbsolute`; `SplitAtFirstBlank` - a line is parted at its first blank, and command and
parameter are whole as far as their buffers hold them and cut there, so that they make up the line if
both fit; `CdupUndoesCwd` - with its exception: after CWD
to a name of one character without a slash, CDUP leaves the parent without its slash.

### Fairness

Weak fairness of a thread's own steps (the system schedules runnable threads) and of the end of
accepted asynchronous requests (each has its callback). No fairness of peers: `recv()`, `send()`,
`accept()`, commands. That is why `Returns` excepts a thread that stays in `recv()` or `send()` - the
code sets `SO_RCVTIMEO` and `SO_SNDTIMEO` on the control connection (ftp.c:404, 443) and none on the
data connection - and `SessionsEnd` excepts `pasv` and `xfer`. In `FtpServer` fairness is per session
and leaves out commands and the listener. `CHECK_DEADLOCK FALSE` everywhere: every component comes to
an end (a transfer returns, all sessions are gone), may wait for its peer for ever or, in
`FlashTarget` and `OtherOs`, may be a console that does not start again. `FlashTarget` and the modules of
`MCToolbox` state no fairness: their user may stop anywhere.

## 5. Proofs

For all values of `BUFFER_SIZE > 0`, `MaxTotal` and `MaxBusy` in Nat:

- `FtpRecvFile_proofs`: `RecvInvariant`, `TypeCorrect`, `HalvesExclusive`, `UnitsAccounted`,
  `SuccessMeaning`, `RecvImplementsTransfer`.
- `FtpSendFile_proofs`: `SendInvariant`, `TypeCorrect`, `BufferStable`, `FreedOnlyOnAbort`,
  `SendImplementsTransfer`.

For all `BUF_SIZE` and `SPLIT_LIMIT` above 0, in any proportion, and `MaxSize` in Nat:

- `FileCopy_proofs`: `CopyInvariant`, `TypeCorrect`, `WritesUndisturbed`, `KeptMeaning`, `UnitsAreInPlace`,
  `CopyImplementsTransfer`.

For any finite set of peers and any number of commands:

- `FtpServer_proofs`: `ServerInvariant`, `TypeCorrect`, `OneMoreAtMost`, `RestIsTheConnections`, and
  `TimeoutIsOwnAlone`, that with a single peer a session is expelled for its own silence only: the finding
  `timeout` takes two.
- The same module, of the functions on strings in `FtpPath`, for buffers of any sizes
  and lines and directories of any length: `CwdStaysAbsolute`, `SplitsAtFirstBlank`, `CdupLeadsBackAlways`.

For all `Regions` with `USA` and without `DEX` and `NoId`, `Plugins > 0` and `MaxFaults` in Nat:

- `FlashTarget_proofs`: `TypeCorrect`, `OneLossEach`, `TargetIsKept`, `KernelReallyChanged`, `KernelFollowsTarget`,
  `PluginsAreTheTargets`, `RefusalIsReported`.

For all `Sectors`, `Step` and `Retries` above 0 and `MaxDumps` in Nat; for all sizes of pieces, images and
regions, and any bounds on choices and faults:

- `FlashDump_proofs`: `DumpInvariant`, `TypeCorrect`, `DumpsAreInOrder`.
- `OtherOs_proofs`: `OtherOsInvariant`, `TypeCorrect`, `OtherOsIsSafe`.
- `MCToolbox_proofs`: `ToolboxDumpsInOrder` and `ToolboxOtherOsSafe`, the properties of the run `toolbox`,
  carried over from the two modules: a step of the composition is a step of the part or leaves its
  variables alone (`DumpKeptAlways`, `OtherKeptAlways`).
- The same module, of "LV1 Patches" and "Utilities", for every set of kernels among the code's, every set of
  options that a firmware may come with and any number of choices and faults:
  `ToolboxSettingsTellThePatches`, `ToolboxOnlyChosenPatches`, `ToolboxFlagsAreShown`.
- The same module, of the registry, its backup, the kernel loader and the emulators, for any number of
  operations, of failing calls and of power cuts: `ToolboxFilesKept`.
- The same module, of the modes in "Selector": `ToolboxModesTell`, for any number of switches in any order and
  both behaviours of `rename()` (`replaces`), and `ToolboxCobraHeals`, an action property, for any number of
  failing calls and power cuts.
- The same module: `ToolboxTypeCorrect`, the types of all five parts.

`BufferExclusive` alone is not inductive: that a submission is made only when no write is in flight
rests on `userData` being 1 exactly while one is (`PendingMeansWriting`), and that the write then
takes the other half on what `submit` leaves behind (`Control`). `SuccessIffLastWriteDone` rests on
`Accounted`, a balance of units. The refinement needs `InOrder`: what is on disk and in the halves
continues the stream. `RecvInv` is the conjunction, and the proofs show `Init => RecvInv`, one lemma per step, and the consequences. `SendInv` is built likewise from
`ReadIsPending`, `CurrentHalf`, `SendBufferStable` and `Progress`; `CurrentHalf` says that the units
read and not yet sent are those the offset has moved over. The refinement proofs use the invariant at
both ends of a step: every step maps to `Deliver`, `Complete`, `Fail`, `Stop` or to a stutter.

In `FlashTarget`, `KernelChanged` speaks of the moment of the message; `KernelInv` adds what has to hold
of the banks passed so far while the loop runs, with `BankStep` as the lemma of one round. The three
properties of fault-free histories rest on `QuietInv`: as long as `faults` is 0, `Quiet` says for each
place of an operation which kernels the banks have, how far each plug-in is renamed and what
`error_cex_dex` tells; it contains the three properties at the places `menu` and `off`.

`DumpInOrder` rests on `Aligned`: before a read, the sector is the number of sectors written and the step
ends inside the flash, which the halved step of a retry must keep and the next one start from. The
lemma `FirstGrows` says what a write appends. `OtherOsSafe` rests on `Running` - what is in place of an
image ends where the next piece goes, unless a piece was misread - and on `Blamed`: behind every
incomplete image there is a failure. `StartKeeps` is the one lemma for the four ways to restart.

In `FileCopy`, `CopyInv` says at each place how far the write is behind the count (`Lag`), that what is
handed over continues the stream (`Stream`), and where every unit written is: in one part, at its own offset
(`Placed`; `PlacedNextPart` is the change of the part). `KeptIffLastWriteDone` then follows at the end from
`Lag` and `WritePending`. `UnitsAccounted` is a part of `RecvInv` that is stated for itself.

In `FtpServer`, `AtMostOneMore` rests on `LateOnce`: a session that has begun a command after the order to
end is past its last `recv()`. `RestOk` ties the restart point to the open connection at the places that
a session can be at, PASV's `accept()` included. `CommandStep` and `SessionStep` say what a step
does to the session it belongs to and leaves alone in the others. `OwnCount` is the count of a session that
is alone. The theorems on strings need no induction over lines: where a loop of the code
looks for the last slash or the first blank, the proof takes the greatest or the least of a set of
positions (`GreatestNumber`, `LeastNumber`, from the well-foundedness of the numbers in
`WellFoundedInduction`).

`OneLossEach` is about a sum of cardinalities. `LossInv` bounds the losses by the faults; the lemmas on
finite sets say that a failed step moves the sum by one at most (`RenameLoses`, `BankLoses`); a plug-in
between its two renames is not yet counted as lost (`OnTheWay`).

In `Lv1Patches`, `OnlyChosenPatches` is not inductive: whether closing the EEPROM leaves the memory as it was
rests on the variables `lv1_*` being a reading of it, and that on the tables. `LvInv` adds that reading, made for the
target it was made for, and `Held` and `Paired`, which tie memory and choices together word by word.
`TestTells` is the lemma in the middle: given `TablesAssumption`, an option that is not `Misread` is found
exactly if it was chosen. `Closing` and `Opening` are its consequences for the two patches
of the EEPROM, with 4.31 as a case of its own (`NeverSeen`).

`FilesKept` says what an operation leaves behind, and so rests on what each call of it leaves for the next
one. `FilesInv` therefore names every list of calls and every rest of it (`Restoring(k)`, `Storing(k)`,
`Swapping(P, k)`, ... with k calls to go) and says what the files hold there as long as nothing has failed:
`RegQuiet`, `EmuQuiet` and `LoadQuiet`, one for each group of files. Each list touches one group; a lemma
per list says what its next call does, `LeftCall` the one for the three copies of emulators. `CutRegistry`
is the power cut: what is left of the registry then depends on the call that was running.

`ModesInv` has two halves. `ModesTyped` holds whatever fails: each of COBRA's files is there under exactly one
of its two names (`CobraThere`), the other modes' lists rename no file of COBRA's (`NonCobraCalls`), and
`Switching(v)` follows the two renames of a switch, each of which may fail or not be needed: one that is
through and met no failure has its file on the side of `v`. `CobraHeals` follows at `Finish`. `Undisturbed`
holds as long as nothing has failed: it names each list of renames and each of its rests (`RebugOff(x, k)`,
`CfwOn(k)`, ... with k calls to go) and says of each file that the list touches whether it has its first name,
is away, or has its second (`Slot` for three names, `Two` for two); the other modes' files are at rest.
`SlotCall` and `TwoCall` are the lemmas of one rename, one lemma per list says what its next call does, one
per mode that `Calls` makes that list and no other, and `ReadTells` that `check_settings()` reads the modes
from files at rest. `XmbLong` is the list whose last two calls are in vain (the finding `retail_menu`): they
are skipped or impossible unless `rename()` replaces, and then it is `sysconf` alone that they disturb, which
`ModesTell` says nothing about in that case.

`ToolboxTypeCorrect` puts the invariants of the five parts together: each contains its module's `TypeOK`, and
a behaviour stays with its part (`PartsStay`).

Only model-checked: liveness, which needs fairness and ENABLED. What a recursive definition computes for
every input cannot be proved by induction here, and no theorem needs it.

## 6. Findings

- `recv_last` (ftpcmd.c:180): an upload whose last write fails is answered with 226.
- `recv_rest` (ftpcmd.c:131, 271): REST has no effect on where data goes or comes from, except that an
  upload does not truncate the file first.
- `timeout` (ftp.c:1007): a session can be expelled with a timeout because of another's silence.
- `copy_ends` (toolbox.cpp:3916): a refused write makes `file_copy()` hang.
- `retail_menu` (toolbox.cpp:11713): switching to the retail XMB, without a failure, leaves the DEX menu in
  place although the comments announce the CEX one: `menu_mode` is compared with the wrong value.

Seen while modelling, not run:

- On a NAND console `write_eid()` is called for a file that is missing and returns silently
  (toolbox.cpp:7353, `A && B || C`); the offset is not reset when a copy goes on to the next part
  (toolbox.cpp:3955); the two settings of `SO_RCVTIMEO`/`SO_SNDTIMEO` go to the control connection; SITE
  RESTARTMM sets `restart_request`, which only the screen saver reads (toolbox.cpp:1686); FEAT lists SITE
  PASSWD and SITE EXITAPP, which do not exist.
- Debug kernels 4.75 and 4.76 get the retail kernels' addresses of system calls (toolbox.cpp:7853,
  `A || B || C && D`), that of 4.50 gets none, and those of 4.31, 4.40 and 4.60 are not recognised and taken
  for the retail kernel of the number in `version.txt`; `OwnSyscalls` in `Lv1Patches` is what should hold.
- `check_settings()` tests an address that `apply_settings()` does not write for `lv1_keys` on 4.30 and 4.40 to
  4.46, for `lv1_um` and `lv1_indi` on 4.31 and for the two options of GameOS on some consoles: the
  operator `Misread`. On 4.31 an access to the EEPROM therefore switches `lv1_um` off.
- `read_qa_flag()` takes a failed read for a set flag (storage.h:783); success of a flash dump is decided
  by `A || !A` (toolbox.cpp:6606); a negative result of `fread()` is waited for, which it never gives
  (toolbox.cpp:4184); one address of the patches of debug kernels 4.75 and later has two digits swapped
  (syscall36.cpp:372).

## 7. Plan

Done: transfers, copy, sessions, strings, target, flash dump, OtherOS, LV1 patches, modes and files of the
system; proofs of every invariant and action property that the runs check. Left, in this order:

1. `XmbText`: the pool of rendered texts and the columns that index it; an index points to its own
   entry's text.
2. `AppLife`: dialogs, system callback, options file, unloading of modules against FTP threads and the
   screen saver; composes `FtpServer`.
3. `set_idps()` and `dump_root_key()`: searches in memory that write what they find. `aes_omac.cpp` as a
   pure function in `MCPure`.

## 8. Not modelled

In the modelled components:

Short successful writes and reads in the middle of a file; names, permissions and contents of files in
FTP commands, RNFR's name included; the text of replies and listings, and blocking while a reply is
sent; the port numbers of PASV; sockets lost when `data_s` is overwritten; commands the peer sent before
it left and that were not yet received; the framing of commands. In
`FlashTarget`: the wording of messages other than success, failure and refusal, the differences of NOR and
NAND in sector numbers. Fonts, graphics, shaders, AES and SHA-1
are third-party or SDK code and stay out.

In `MCToolbox`: the values written to LV1 and LV2 other than patched or original; `version.txt` other
than the running kernel's number or none; the split of a dump, which a flash is too small to meet;
`export_lv()`, one loop that copies memory to a file; the copy of `set_gameos_flag()` in
`apply_settings()` (toolbox.cpp 12030-12099), whose option is commented out; messages that no property
is about; switches of modes on other firmwares than REBUG, where fewer are offered; the file `fb.xml` of
webMAN's web page, which disabling webMAN deletes (toolbox.cpp 11677): webMAN writes it, the toolbox never
looks at it, and no property could tell it.

What the code does not undo or report is modelled, and named as an exception by the property it touches, not
caught by it: a refused kernel (`FilesKept`), a failed read of EID5 (`TargetKept`), failures between QA token and
flag (`FlagsAreShown`), a chain of renames that stops (`ModesTell`), a refused first read and a silent peer
(`Returns`). The hazards say so in their notes.

Whole components: columns and text buffers of the XMB, side menu, dialogs, pad and screen saver, the
options file and the order of unloading are in the plan; the wrappers of system calls have no state of
their own and appear as the calls that may fail in the modules that make them.
