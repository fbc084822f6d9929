# Lacuna: TLA+ models and proofs

Lacuna runs a virtual machine in a *private session*: nothing the session does
with the keyboard, the mouse, the sound card, the network or the swap space may
be left in the host when the session ends. It is a set of changes to Linux 3.0
(`src/host/linux-3.0`), to QEMU 0.15.1 (`src/host/qemu-kvm-0.15.1`) and a
library between them (`src/crypto/libprivcrypt`). Device data is encrypted by
the kernel as close to the device as possible and decrypted in QEMU; when QEMU
exits the keys go, and what is left in the host's buffers is noise.

Below, `K/` is `src/host/linux-3.0/`, `Q/` is `src/host/qemu-kvm-0.15.1/` and
`L/` is `src/crypto/libprivcrypt/`.

## 1. Inventory

| # | Component | State | Operations | Where |
|---|---|---|---|---|
| 1 | Kernel cryptographic contexts | list of contexts under `ctx_list_lock`; per context `user_lock`, `user_ref`, `activated`, `alloc_pid`; one pointer per open file | open, the ioctls NEW_CTX, USE_CTX, KEY_EXCHANGE, SET_IV, ACTIVATE, DEACTIVATE, DESTROY; `use_ctx`, `unuse_ctx`, `priv_pid_death_action` | `K/drivers/priv/priv_crypt_drv.c`, `crypto.c` |
| 2 | Key exchange | the exchange of either side, the key, the IV | one message each way, key derivation | `K/drivers/priv/kex.c`, `crypto_math_drv.c`, `L/polarssl_kex.c` |
| 3 | USB input | one URB and one `urb_encrypt_work` per endpoint | completion, encryption in a work queue, giveback | `K/drivers/priv/usb.c`, hooks in `ehci-q.c`, `uhci-q.c`, `endpoint.c` |
| 4 | `crypt_ctx_id` attribute | the place of a device for a context (`cctx_ref`) | store, setup, destruction | `K/drivers/priv/sysfs.c` |
| 5 | Sound | an output and an input ring per channel, with pointers and contexts | register, remove, write, read, fetch, capture | `K/drivers/priv_sysfs/privsound/privsound.c`, `hda_intel_priv.c` |
| 6 | Swap | private contexts of address spaces with reference counts, a tree of swapped private pages | clone, fork, exec, exit, map, unmap, merge; encrypt on swap-out, decrypt on swap-in, discard | `K/mm/privos.c`, hooks in `fork.c`, `exec.c`, `mmap.c`, `vmscan.c`, `page_io.c`, `swapfile.c` |
| 7 | Network | a tree of private MAC addresses with their contexts; QEMU's queue at the tap device | add, remove, encrypt or decrypt a frame at either end | `K/drivers/priv_sysfs/privnet/privnet.c`, `K/drivers/net/e1000e_priv/`, `Q/net/tap.c` |
| 8 | Input mode of the kernel | `privacy_mode_on`, the handlers of a device | pass an event, toggle | `K/drivers/input/priv-input.c`, `input.c` |
| 9 | libprivcrypt | a library context: backend, cipher, key schedule | create, exchange, activate, crypt, destroy | `L/priv_crypt.c`, `kern_backend.c`, `aesni.c` |
| 10 | QEMU: USB, sound, input, PCI | the connected devices; the grab | connect, disconnect, reap, cancel, write, read | `Q/priv-usb.c`, `audio/alsaaudio.c`, `priv-input.c`, `priv-pci.c`, `ui/sdl.c` |
| 11 | Guest input switcher | a toggle that is pending | event, timer, work | `src/host/input_switcher/module.c` |
| 12 | GPU display | an encrypted frame buffer | CUDA kernels | `src/host/gpu/` |

How they interact. A user of the library (USB or sound in QEMU) creates a
library context (9). Its backend opens `/dev/priv_crypt_ctl`, gets a kernel
context (1) and agrees on a key with it (2). QEMU writes the id of the context
where a driver will look for it: the `crypt_ctx_id` attribute of a USB device
(4), or the control file of the sound card (5). From then on the driver
encrypts with the context (3, 5) and QEMU decrypts with the library; the two
ends count AES counter blocks independently and never compare. QEMU's exit
destroys the contexts through `priv_pid_death_action`, which `do_exit` calls
before files are closed. The network works the same way, with the MAC address of
the VM as the place (7). QEMU takes the devices when its window grabs the input
and gives them back when it lets go, or when the guest asks for it (10, 11).
Swap (6) stands alone: its keys never leave the kernel.

What is hard, and which property makes the component correct:

- *Lifetimes.* Three kinds of pointer to a context (list, file, place), three
  ways for it to go (DESTROY, death, unplugging of the device) and a lock that
  is taken in one task and released in another. Correct: no pointer to freed
  memory is followed, a context serves one device, the dead leave nothing.
- *Check, then act later.* USB data is checked in interrupt context and encrypted in
  a work queue, with the context possibly gone in between. Correct: with the
  device open QEMU gets ciphertext or nothing, and a release lets out no more than
  what was outstanding.
- *Key streams in step.* Any packet or frame that one end counts and the other
  does not makes all that follows garbage. Correct: the positions agree.
- *Rings without locks.* The sound rings are shared by a system call and an
  interrupt handler. Correct: a lossless FIFO, and nothing decrypted stays.
- *Error paths.* Setting up a context is a dozen calls that fail independently
  in three layers. Correct: what is activated has the agreed key, nothing is
  lost, and no copy stays of a key that was not agreed on.
- *Reference counts over areas.* The swap key of a process lives as long as its
  `mm_struct` and its areas, which the kernel splits, merges, copies and drops in
  many places. Correct: the key is there as long as somebody needs it and no
  longer, and no freed context is used.
- *A page that changes under its write.* Correct: what comes back from swap is what
  the process wrote, and it was not there in the clear but for a known reason.
- *Taking the user's keyboard.* The window, the guest and the keyboard itself start
  the same loops over the devices, each from its own idea of the state. Correct:
  the devices come back, the keystrokes are encrypted, and the user can always
  get out.

`PROJECT.json` lists the hazards one by one with the line where each bites.

## 2. Modules

| Module | Models | State and actions |
|---|---|---|
| `PrivCrypt` | components 1 and 4, with any caller | every file, context, device and process; an ioctl is an action, a call that takes a lock in the middle is split where it does (`pc` of the process) |
| `CtxService` | what `include/linux/priv_crypt.h` promises drivers | the abstract specification: contexts that exist, and which device has which |
| `PrivCryptClient` | `PrivCrypt` used as QEMU and the library use it | adds `claim`, the virtual machine that has a device, and the guards of the callers; states the inductive invariant and the refinement |
| `PrivUsb` | component 3, usbfs, and `Q/priv-usb.c`, `Q/usb-linux.c` | builds on `CtxService`; one URB per device moves from the host controller through the work queue to QEMU; a release is three steps, the deactivation, `async_complete` within `usb_host_close` (`ReapOnClose`) and the kernel's close |
| `PrivSession` | components 2 and 9, and how sound and USB of QEMU call them | one thread (`pc`, `slot`, `cctx`), a record for each library context, with the keys its destructors leave in freed memory (`left`), and one for the file and kernel context behind it |
| `SoundFifo` | what a sound channel promises | frames sent and heard |
| `PrivSoundOut` | the output ring, its writer in QEMU and its reader in the sound driver | every load and store of a shared pointer is a step |
| `PrivSoundIn` | the input ring, its writer in the sound driver and its reader in QEMU | as above |
| `PrivMm` | the lifetime of swap keys in component 6 | processes with their areas, contexts with `mapcount` and `pagecount`; the two halves of `priv_ctx_entry_put` are steps |
| `PrivSwap` | the pages of component 6 | one page per process from memory through the swap cache to a slot and back; each step of reclaim under the page lock is an action; `add_to_priv` has the three outcomes of `Outcome` |
| `PrivNet` | component 7 and `Q/net/tap.c`, `net/queue.c` | a QEMU per MAC address: its setup, and each place a frame waits in both directions |
| `PrivInput` | components 10 (input, PCI) and 11, SDL and the USB bus of QEMU as far as they take part | the loop over the devices one device at a time (`task`, `at`), the USB objects with their addresses, the keys as each party knows them; a report that completes while the keyboard is being closed is `DisconnectKbdLate`, the toggler's use of the object it freed is `ReapFreed` |
| `PrivCryptProofs`, `PrivSoundProofs` | | theorems about `PrivCryptClient` and `PrivSoundOut` |
| `PrivInputProofs` | | theorems about `PrivUsb` and `PrivInput` |
| `PrivSessionProofs`, `PrivSoundInProofs`, `PrivMmProofs`, `PrivSwapProofs`, `PrivNetProofs` | | theorems about the module in the name |
| `MCPrivCryptClient`, `MCPrivUsb`, `MCPrivMm`, `MCPrivSwap`, `MCPrivInput` | | the instances TLC checks |

Definitions have the names of the functions they model where there is one; the
`map` of `PROJECT.json` gives the lines. A definition that begins with the
comment "A bug:" is a plausible wrong version of the next one, used only to
show that the properties notice it; no specification contains it.

What stands for what:

- A context is a number or a model value; its id is the same. An id is given
  out once (`FreshId`).
- `fault` is set by an access to freed memory, to a place that went away, to
  NULL or to an uninitialized pointer. Nothing is modelled after it.
- A cipher is a position in the key stream. AES, the padding of packets to
  blocks and the sound samples are left out.
- Diffie-Hellman is the pair of exponents: both sides derive the set of the
  two. Arithmetic that runs out of memory is a failure of the call.
- In `PrivNet`, where a frame can be encrypted twice, a frame is the set of the
  pieces of key stream it was combined with. In `PrivSwap` a page is the number of
  the write that made its content.
- In `PrivInput` an object is a device and a number; the number of a freed object
  is used again, as its memory would be.
- The history variables (`lost`, `owed`, `excused`, `amiss`, `cause`, `clear`,
  `garbled`, `leftover`, `handed` and the field `left`) are read by properties
  only, never by an action, except that bounds limit them. `handed` counts the
  packets a release gave to the guest in the clear, `clear` says whether a report
  of the keyboard was one since it was connected, `excused` begins anew each time
  a page is filed.
- `malloc`, `open`, ioctls, writes to sysfs, URBs and arithmetic may fail whenever the code
  looks at the result, and when it does not.

Assumptions about what is around the models. Each is a guard or is stated at
the top of its module:

- `PrivCryptClient`: a file has one backend and is used by its own process; a
  process writes only ids of its own contexts, each device once; a device
  belongs to one virtual machine at a time; USE_CTX is not used (no code in the
  repository issues it); a device is not unplugged between the two reads of
  `user_ref` in `__remove_ctx`.
- `PrivUsb`: one URB in flight per endpoint (usbhid resubmits when one
  completes); no unplugging while one is; QEMU's main loop is one thread.
- `PrivSession`: one thread; the build of `config.mak` (AES-NI, not gcrypt); the
  exponent of the library is always the same (`null_rng`); USB options are
  parsed before sound starts. Library contexts are never freed, as in the code.
- Sound: `+=` followed by `%=` on a pointer is one store where the compiler may
  drop the first (owptr, iwptr, ifptr) and two where code between them keeps
  both (ofptr); each pointer is loaded once in `bin_get_out_avail`; sizes are
  multiples of a frame; there is one playback and one capture caller; one
  channel, whose removal waits for the access under way; the size field of the
  attributes, which comes uninitialized from `kmalloc`, is 0, so sysfs does
  not cut accesses short.

- `PrivMm`: a put of `mapcount` is atomic (`atomic_dec_and_lock`); an exit's puts
  are one step; a context that was freed is not allocated again. An `mm_struct`
  belongs to one process (threads share it without a reference of their own).
- `PrivSwap`: what a page holds depends on one process; of another that maps it,
  or whose area is on its `anon_vma` list, there is only what `add_to_priv` makes of
  it. A context is that of one process, and there is one swap device. What happens after `delete_all_from_priv` has met
  a page in flight is not modelled (`halted`).
- `PrivNet`: one NIC per QEMU; frames of one piece; the table is a function of the
  address; `remove_mac`, which is used by hand, is one step.
- `PrivInput`: QEMU runs under its mutex, so handlers are atomic; one keyboard is
  private; the guest gives a device the lowest free address; a device that was
  unplugged comes back as another one; the command line names each device once.

## 3. Runs

| Run | Bounds | Result |
|---|---|---|
| `privcrypt_client` | 2 contexts, 2 devices (1 removable), 2 files, 2 processes, `user_lock` up to 2; 230 682 states | `TypeOK`, `NoFault`, `ExclusiveUse`, `DeadLeaveNothing`, `DeathCompletes`, `KeepsPromise` hold |
| `usb` | 2 contexts, keyboard and mouse, 2 packets per context, 2 URBs unreaped; 487 386 states | `UsbTypeOK`, `CipherOnly`, `InStep`, `Unblocks` hold |
| `session` | 4 library contexts, 2 secrets; 837 881 states | `SessTypeOK`, `KeyAgreement`, `NoOrphan`, `OnlyAgreedKeyStays`, `SetupEnds` hold |
| `sound_out` | ring of 5, writes of 2, updates of up to 5, 12 frames; 8 790 states | `OutTypeOK`, `NeverShort`, `ErasedAfterUse`, `FifoSpec` hold |
| `sound_in` | ring of 4, updates and reads of up to 5, 8 frames; 12 412 states | `InTypeOK`, `ReadsInStep`, `NothingLost` hold |
| `mm` | 2 processes with 2 areas each, 2 contexts, 2 pages per context, 2 references lost or owed; 996 328 states up to symmetry | `MmTypeOK`, `KeyLives`, `KeyDies`, `SafeFree` hold |
| `swap` | 2 private processes, 1 slot, 2 writes, 2 generations; 292 980 states up to symmetry | `SwapTypeOK`, `ReadBack`, `ClearOnlyIfExcused`, `EntryIsUsers` hold |
| `net` | 2 QEMUs, a tap device of 1 frame, 3 frames; about 838 000 states | `NetTypeOK`, `Intelligible`, `Sealed`, `FramesErased`, `Drains` hold |
| `input` | keyboard and mouse, with and without a controller, with and without a toggler; 2 objects per device; 845 512 states | `InputTypeOK`, `CleanRelease`, `DevicesReturn`, `NeverInClear`, `Escape` hold |
| `privcrypt_any` | 2 contexts, one of everything else, any caller | `RemovedIsUnusable` fails |
| `usb_erase` | one keyboard, one context | `ErasedOrEncrypted` fails |
| `mm_clone` | 2 processes, 2 areas, 3 contexts, only the case the comment calls safe | `IndependentLifetime` fails |

Several properties of `usb`, `mm`, `swap`, `net` and `input` have the form "... unless".
The code does not promise them without: each exception is a case the code
really has (section 5 and the hazards), the history variable marks it where it
happens, and the property says that nothing else does it.

Why the bounds are enough:

- Two processes, two contexts and two devices are what a conflict over the
  list lock, over a context or over a device needs; processes die and are
  born again with the same pid, so that there are histories of more than two.
  `user_lock` may reach 2, one more than it should, so a release too many would
  be seen.
- A context of `PrivUsb` encrypts two packets: one is lost or late, the other
  shows it. Contexts are not reused, so a second context per device is the
  second QEMU.
- Four library contexts are two for sound, one for USB and one for the attempt after a failure.
- The rings wrap at least twice, are smaller than an update (so that one is
  cut) and are not a multiple of the write size.

- `PrivMm`: two areas of one process can be merged, split and dropped in any
  order, and a parent and a child share what they share; a third context would
  only repeat this. Two pages let one be on its way out while another stays.
- `PrivSwap`: one slot is used by one process after the other, which is when an
  old entry or an old key would show; two writes are one before and one after
  the swap-out; the second generation is the process that follows a dead one.
- `PrivNet`: with room for one frame the tap device is full with the second, and
  the third is behind it in the queue; two QEMUs register at once.
- `PrivInput`: a second object per device is what a second connect makes.

A mutant for each property (`mutants` of `PROJECT.json`) shows that the bounds
reach the case: the property fails as soon as the code is changed the way the
mutant says.

Fairness, and why the code gives it:

- `FairSpec` (`privcrypt_client`): strong fairness of every process that is
  inside a system call. `ctx_list_lock` is a kernel mutex: waiters are queued
  and woken when it is released, so a process that can take it again and
  again does. No process has to start a call, no device to be unplugged.
- `FairUsbSpec`: weak fairness of the work queue, of the host controller for
  an URB it was told to unlink, of the close of a device that has begun, of a
  process that exits, and of the next QEMU. Not of data, of the guest or of
  the user.
- `SessSpec`: weak fairness of `Continue`, the steps inside a call: system
  calls return and the thread runs on. Deadlock is not checked in this run:
  when QEMU is dead the model ends.
- `NetSpec`: weak fairness of the handlers that QEMU's main loop calls
  (`TapWritable`, `Flush`), and of the host's network stack and the card
  (`Transmit`, `PutTxbuf`). Not of the VM, the network or the user.
- `InputSpec`: weak fairness of the loop over the devices, which is one function,
  and of the guest's worker; strong fairness of the hypercall, because the
  thread of the virtual processor needs QEMU's mutex, which is free again and
  again though not for good.
- The sound, mm and swap models have no liveness property: nothing has to be
  played, mapped or reclaimed.

Deadlock is not checked in `mm` and `swap` either: contexts and generations are
used up, and the model ends. It is checked in all other passing runs.

## 4. Proved

`PrivCryptProofs`, for any sets of processes, devices, files and contexts with
`NULL` in none of them and the contexts natural numbers:

- `NeverFaults`, `TypeCorrect`, `UseIsExclusive`, `DeathCleansUp`: the
  invariants of `privcrypt_client`.
- `Implements`: `PrivCryptClient` implements `CtxService` under the mapping
  `Svc`.

None of these invariants is inductive. The argument is about who may touch a
context: a place and the context in it point at each other (`PlaceInv`,
`UserInv`) except while the process that allocated the context is at the one
step between emptying the place and clearing `user_ref`; only the allocating
process stores it (`StoringInv`) or removes it (`RemovingInv`); so a context
found under the list lock is still there when the lock is gone, though the code
drops the lock before it uses the context. `LockInv`, `LocalsInv`, `ListInv`
and `FileInv` say who holds the list lock, which locals are live, that a
context is on the list or freed or about to be freed by its process, and which file
has it. The conjunction `IInv` is preserved by every action: one lemma
per action, one step per conjunct. The four invariants and each step of the
refinement follow from it.

`PrivSoundProofs`, for every ring of at least two frames and every write and
update size:

- `OutTypeCorrect`, `WritesAreWhole`, `FramesAreErased` and `RingIsFifo` (the
  ring implements `SoundFifo`).

The invariant `OutInv` says that one slot stays empty and what is between the
pointers was sent (`PointerInv`), that the room QEMU was told of can only grow
(`RoomInv`), that the slots between the pointers hold the key stream in order, and
those copied and not yet published its continuation (`ContentInv`), and that
the kernel's counter is where the driver is (`CounterInv`). The store of `ofptr`
before it is wrapped makes `ofptr = N` visible to the writer; `Filled` and
`Ahead` are the same number for `ofptr = N` and `ofptr = 0`, which is why
it does no harm.

`PrivSoundInProofs`, for every ring of at least two frames and every update and
read size:

- `InTypeCorrect`, `InputReadsInStep`, `InputNothingLost`.

Writer and reader decide on sizes from pointers that the other moves
afterwards. `RoomInv` says that the update the driver decided on still fits behind
what is in the ring, `FetchInv` that the read QEMU decided on is still covered by
it. `CountInv` accounts for every frame between the kernel's counter
and QEMU's: in the ring, copied and not published, or fetched and not decrypted.
`ContentInv` says that the slots between the pointers hold the key stream in that
order. Both properties are the instant of this where one side is idle or about to
decrypt.

`PrivInputProofs` about `PrivUsb`, for any devices, contexts, numbers of packets and of unreaped
URBs, with `NULL` not a context:

- `UsbTypeCorrect`, `OpenMeansEncrypted` (`CipherOnly`), `CountersAgree` (`InStep`).

`CipherOnly` needs that an URB in the work queue finds an activated context as long
as QEMU has the device open (`SessionInv`), and for that, that the place of a
device holds QEMU's context for it and no other device's (`OwnInv`). Its second half,
that a release hands over at most one packet in the clear, is `LiveInv`: the guest has
one packet outstanding, which is in flight, or waits to be reaped, or was handed over, and
submits the next only to a device that is open. `InStep` needs more than it says:
`StepInv` states that the kernel is ahead of QEMU by exactly the number of encrypted
packets that wait (if none was lost), and that each of them has the position it has
by its place among the encrypted ones, so that reaping one keeps the rest aligned.

`PrivInputProofs` about `PrivInput`, for any number of objects and any lists of
devices that name the keyboard and the mouse, with or without the controller, each
once and in any order:

- `InputTypeCorrect`, `ReleaseIsClean` (`CleanRelease`), `DevicesComeBack`
  (`DevicesReturn`), `KeysNeverInClear` (`NeverInClear`).
- `ReleasesOwnDevice`: a step of the disconnecting loop frees the object of its own device and
  leaves those of the others alone, though `usb_device_delete_addr` goes by the
  address, unless the devices were connected twice, let go of before the guest had
  addressed them, or unplugged.

The properties speak of the moments between the loops; the invariant `SwitchInv` says
how the loops get from one to the next. As long as the devices were not connected
twice in a row (`Single`), the VM has all of them or none between the loops
(`RestInv`), those the loop has been at while they are connected (`TakeInv`), and
those it has not been at while they are disconnected (`GiveInv`). The last has an
exception: an object may have been freed in place of another with the
same address, and then there is a device ahead whose pointer is stale, so the loop
ends QEMU rather than finish with a device left behind. `AddrInv` (open objects that
have an address have different ones) says when this cannot happen. `OneInv` makes
`pud->dev` the only object of its device, `ActiveInv` ties having a device to its
encryption, `GrabInv` ties it to the window. `KeysNeverInClear` rests on `ActiveInv`
outside the loops; within the disconnecting one, the step that may hand over a
report in the clear is also the one that frees the keyboard's object, so the VM has none
until the next connect (`SideInv`). `ObjectsOK` and `OldestInv` keep the lists of
`usb-linux.c` and `hw/usb-bus.c` in step with the objects.

`PrivSessionProofs`, for any library contexts (numbers) and secrets, with `NULL` in
neither:

- `SessTypeCorrect`, `ActivatedIsAgreed` (`KeyAgreement`), `NothingOrphaned`
  (`NoOrphan`), `OnlyAgreedKeysStay` (`OnlyAgreedKeyStays`).
- `ActivatedKeyIsKept`: an activated kernel context keeps its key, IV and direction
  until it is destroyed.

The callers activate a context long after its setup and never look at what the
setup did. `ReadyInv` carries the result across: a context that the library can
still reach through `backend_ctx` is ready (same key, its own IV, same direction), unless it is the
one being set up, or QEMU is dying. `SetupInv` and `KexInv` say for each
step of the setup what has been agreed so far; `SoundInv` that the input's context
is still there when the output's setup succeeds or fails. `StaysInv` says what is left in
freed memory: a library context is used for one exchange, whatever that leaves was
derived after the kernel had derived the same key, and the kernel keeps it.

`PrivMmProofs`, for any finite numbers of processes and areas and any contexts and
bounds:

- `MmTypeCorrect`, `KeyOfHoldersLives` (`KeyLives`), `KeyOfNobodyDies` (`KeyDies`),
  `FreedAfterLastPage` (`SafeFree`).
- `NoUseAfterFree`: a destroyed key is never live again, and a freed context is not
  touched, unless a fork copied areas that hold it without a reference.

`SafeFree` has the condition `owed = 0`: `priv_ctx_entry_get` does not look at the
state of the context, so once a put too many has freed it under an area that still holds
it, reclaim files pages against freed memory.

The invariant is an equation, `CountInv`: `mapcount` is the number of holders, plus
the references that were dropped without a put (`lost`), minus those that were
never taken (`owed`). With `StateInv` (live exactly while `mapcount` is positive)
`KeyLives` and `KeyDies` are its two directions. Every action is reduced to how
it changes the number of holders: the lemmas about `Held`, `Rest` and `AreasIn`
count them one area and one process at a time, a fork and an exit all areas of a
process at once. `PageInv` is separate from it: `pagecount` covers the entries and the
put under way. So the put that frees a context, whichever of the two it is, leaves no page
behind; and nobody who could file another holds the context then, by `CountInv`, as long as
nothing is owed. `FreeStep` puts the two together, and `OwedGrows` adds that what is owed
stays owed, so that the condition is that of the present state.

`PrivSwapProofs`, for any processes, slots, versions and generations:

- `SwapTypeCorrect`, `SwapReadsBack` (`ReadBack`), `SwapIsEncrypted`
  (`ClearOnlyIfExcused`), `EntriesAreUsers` (`EntryIsUsers`).

`PlaceInv` says where a page can be and that no two share a slot; `EntryInv` that an
entry goes with the page and the process that are in its slot now; `ContentInv` that the
last version is in the frame, under writeback or in the slot, in the form (clear or encrypted)
that the entry stands for. `ExcuseInv` looks ahead: a page that may still be
written as it is has its scratch page, or is excused already, since it was given its slot.

`PrivNetProofs`, for any number of QEMUs and frames and any capacity of the tap
device:

- `NetTypeCorrect`, `NetIntelligible`, `NetSealed`, `NetFramesErased`.

`Intelligible` says only that what came out garbled is excused. What makes it
inductive is `HomeInv` (the contexts of a QEMU are filed under one address, its own
unless two writers met) and, for a direction with no excuse, that the frames in the
tap device are the run of the key stream between the two counters (`StepInInv`,
`StepOutInv`). `Sealed` needs `QueueInv`: a queued frame carries only pieces
before QEMU's counter, so encrypting it again with the next one adds a piece and
can never cancel one.

What the proofs assume of constants is in the `ASSUME` of each module: `NULL` is none
of the values it is compared with, sizes and capacities are positive, processes and areas of `PrivMm`
are finite sets, a list of devices has the keyboard and the mouse and nothing twice.
Nothing is assumed of how large the bounds on counters are: they
are part of the guards, and the theorems hold for every value of them.

Three theorems are about steps and not about states: `ReleasesOwnDevice`,
`NoUseAfterFree` and `ActivatedKeyIsKept`. Each follows from the invariant of its
module, and none is a property of a run.

Only model-checked: liveness (`DeathCompletes`, `Unblocks`, `SetupEnds`, `Drains`,
`Escape`), which the proof system does not do. That `KeepsPromise` and `FifoSpec`
hold is both checked and proved, as are all the invariants of the passing runs.

## 5. Where code and comments disagree

1. `RemovedIsUnusable` (`K/drivers/priv/priv_crypt_drv.c:124`). `unuse_ctx`
   does not empty the place. If the `use_ctx` that follows in the same write
   fails, the device keeps a pointer that DESTROY of the context does not
   find. QEMU writes each attribute once, so `privcrypt_client` is not affected.
2. `ErasedOrEncrypted` (`K/drivers/priv/usb.c:51`). If the context is
   deactivated between the completion of an URB and the work, the data is
   erased; if the context is destroyed, the data is given back as it came.
3. `IndependentLifetime` (`K/kernel/fork.c`, `copy_mm`). The comment calls a separately
   private child that execs at once the main safe case. The areas it inherits
   hold the parent's context without a reference of their own, and its exec puts
   them: the count of the parent's context is too low from then on, and the
   parent loses its key, and the context, while it is still running.

What else the models met, and where the properties make an exception for it:

- An URB that is encrypted and then cancelled advances the kernel's counter and
  not QEMU's (`InStep`); a frame that is lost between driver and QEMU, or is
  encrypted again because the tap device was full, does the same (`Intelligible`).
- A merge of areas drops a reference without a put, so the key of a process that
  is gone may stay (`KeyDies`).
- A context that a fork left without its reference is freed under its areas, and
  pages are then filed against freed memory (`SafeFree`).
- A page goes to swap in the clear when an entry could not be allocated, when
  `__add_to_priv` sees another process or no private area at the page and returns
  success without an entry, when a write failed, or when the page was written to
  during its writeback (`ClearOnlyIfExcused`).
- `usb_dev_disconnect` deactivates the context and clears `priv_handle_packet`
  before it closes the device, and `usb_host_close` reaps once more: a packet that
  the device sends in between reaches the guest in the clear, one that was encrypted before
  reaches it as noise. It is one packet, and the device is the host's afterwards
  (`CipherOnly`, `NeverInClear`).
- A toggler lets go from within `async_complete`, which goes on with the
  `USBHostDevice` that was freed meanwhile (`CleanRelease`).
- When QEMU ends with the PCI controller assigned, or fails between unbinding and
  assigning it, no driver has it (`driver = "none"`); `DevicesReturn` is about a QEMU
  that runs.
- `polarssl_destroy` does not wipe its big numbers and `priv_aesni_destroy` clears
  eight bytes of a key schedule: copies of the agreed key stay in freed memory of
  QEMU (`OnlyAgreedKeyStays` says of which key). The kernel's own destructors are as
  brief; what they leave is not modelled.
- Full screen connects devices that are connected; the toggler and the second
  hypercall disconnect ones that are not; `usb_close_host_dev` goes by an address
  that devices share before they are enumerated (`CleanRelease`, `DevicesReturn`,
  `NeverInClear`).
- Error paths of the setup that follow a NULL, freed or uninitialized pointer end
  in `fault` of `PrivSession`.

## 6. Not modelled

- The kernel's input mode (`K/drivers/input/priv-input.c`): a switch that nothing in the
  repository sets, with a second event node for the AT keyboard only, which
  `atkbd.c` calls "our go-to testing device". It is not synchronised with the
  events it divides.
- Unplugging a USB device with an URB in flight, several URBs per endpoint, the
  removal of a sound channel or of a MAC address during an interrupt that uses it:
  the code then uses freed memory, and no property can be stated of what follows.
- What follows a `delete_all_from_priv` that met a page in flight, and what a second
  process does with a page that it maps too (copy on write). What
  the kernel's memory holds after a context was freed.
- A `find_mac` in the driver during a `remove_mac`, which nothing in the repository
  writes.
- Parsing of options and of PCI addresses, the scripts, the benchmarks, the
  emulated-device mode of `priv-pci.c`.
- The GPU display (numeric kernels; its backend is stubs), the `priv_sysfs` root
  (one kobject), AES, big-number arithmetic and `tls1_prf` (data), `gcrypt.c` (not
  built), `null_kex.c` and `test_kex.c` (no caller), debugging ioctls, the mixing
  of sound samples. `PRIV_FREE_CACHE` and `PRIV_CLEAN_KSTACK` clear memory and
  have no protocol.
- Stock Linux and QEMU, except where the changed code calls them or is called.

## 7. What is left

All components with a protocol of their own are modelled, and every safety property
of the passing runs is proved. What would come next:

1. The five liveness properties stay with TLC; a proof would need `ENABLED` and fairness.
2. The orders of events that section 6 leaves out because the code then uses freed
   memory (unplugging with an URB in flight, removal during an interrupt). They are listed as
   hazards without a property; a fix in the code would make them worth a model.
