------------------------------ MODULE PrivInput ------------------------------
(***************************************************************************)
(* Switching the user's input between the host and a VM.  QEMU takes the   *)
(* private devices away from the host when its window grabs the input      *)
(* (ui/sdl.c, priv-input.c, priv-usb.c, priv-pci.c) and gives them back    *)
(* when it lets go: on its own shortcuts, on left-ctrl and left-alt of a   *)
(* keyboard marked as a toggler, or when the switcher in the guest         *)
(* (input_switcher/module.c) sees them and makes a hypercall.              *)
(*                                                                         *)
(* A USB device is represented by USBHostDevice objects (usb-linux.c) that *)
(* live in hostdevs, and on the list of used ports (hw/usb-bus.c) while    *)
(* open.  An object is named by its device and a number; the number of one *)
(* that was freed is used again for the next, at which pud->dev then       *)
(* points.  All of QEMU runs under one mutex: handlers are atomic, but the *)
(* loops over the devices are taken one device at a time.                  *)
(***************************************************************************)
EXTENDS Integers, Sequences, FiniteSets, SequencesExt

CONSTANTS
    Kbd, Mouse, Bus,  \* the devices: two USB devices, a PCI USB controller
    Configs,          \* the lists of devices QEMU may be started with
    MaxObj            \* bound on the objects of a device

Usb == {Kbd, Mouse}

ASSUME InputAssumption ==
    /\ Kbd # Mouse /\ Bus \notin Usb
    /\ \A c \in Configs :
           c \in Seq({Kbd, Mouse, Bus}) /\ Usb \subseteq ToSet(c) /\ IsInjective(c)
    /\ MaxObj \in Nat \ {0}

\* The objects of a device are numbered; no object, the null pointer, is 0.
Num == 1 .. MaxObj
NoObj == 0
Obj == Usb \X Num
Addr == 1 .. Cardinality(Usb)

VARIABLES
    priv_devices, \* the private devices, in the order of the list
    died,         \* "no" while QEMU runs, or why it ended
    gui_grab, gui_fullscreen, gui_saved_grab,
    task, at,     \* the loop over priv_devices that is under way, and its index
    inside,       \* the object of the keyboard in whose async_complete it runs, if any
    dev,          \* pud->dev of the USB devices
    st,           \* object -> none, closed, open or freed
    addr,         \* object -> the address the guest gave it, 0 before that
    hostdevs,     \* USB device -> its objects, oldest first
    used,         \* open objects in the order of bus->used
    activated,    \* USB devices whose encryption context is activated
    plugged,      \* USB devices that are plugged in
    driver,       \* whose driver has the controller: host, none, vm
    toggler,      \* the keyboard is marked as a toggler
    keys,         \* of left-ctrl and left-alt, those that are down
    pki,          \* the same as QEMU knows it (struct priv_kbd_info)
    hid,          \* the same in the last report the guest has seen
    is,           \* the same as the guest's switcher knows it
    work,         \* the_toggle_work: idle, pending or corrupt
    worker,       \* the guest's worker: idle, or before which hypercall
    held,         \* history: the devices were connected last, not disconnected
    cause,        \* history: what may explain that something went wrong
    clear         \* history: since the keyboard was connected, a report of it has
                  \* reached the guest unencrypted

guiVars == <<gui_grab, gui_fullscreen, gui_saved_grab>>
loopVars == <<task, at, inside>>
objVars == <<dev, st, addr, hostdevs, used, activated>>
kbdVars == <<keys, pki, hid, is>>
guestVars == <<work, worker>>
configVars == <<priv_devices, toggler>>
inputVars == <<configVars, died, guiVars, loopVars, objVars, plugged, driver, kbdVars,
               guestVars, held, cause, clear>>

Combo == {"ctrl", "alt"}

\* A QEMU that has just been started, or has just gone.
NoObjects ==
    /\ dev' = [d \in Usb |-> NoObj]
    /\ st' = [o \in Obj |-> "none"]
    /\ addr' = [o \in Obj |-> 0]
    /\ hostdevs' = [d \in Usb |-> <<>>]
    /\ used' = <<>>
    /\ activated' = {}

InputInit ==
    /\ priv_devices \in Configs /\ toggler \in BOOLEAN
    /\ died = "no"
    /\ gui_grab = FALSE /\ gui_fullscreen = FALSE /\ gui_saved_grab = FALSE
    /\ task = "none" /\ at = 1 /\ inside = NoObj
    /\ dev = [d \in Usb |-> NoObj]
    /\ st = [o \in Obj |-> "none"]
    /\ addr = [o \in Obj |-> 0]
    /\ hostdevs = [d \in Usb |-> <<>>]
    /\ used = <<>>
    /\ activated = {}
    /\ plugged = Usb /\ driver = "host"
    /\ keys = {} /\ pki = {} /\ hid = {} /\ is = {}
    /\ work = "idle" /\ worker = "idle"
    /\ held = FALSE /\ cause = {} /\ clear = FALSE

\* The mutex is free: a handler may run.
Idle == died = "no" /\ task = "none"

\* exit(1), or a crash: the guest goes with QEMU, and the exit notifiers and the
\* kernel give the devices back,
Exits(why) ==
    /\ died' = why
    /\ gui_grab' = FALSE /\ gui_fullscreen' = FALSE /\ gui_saved_grab' = FALSE
    /\ task' = "none" /\ at' = 1 /\ inside' = NoObj
    /\ NoObjects
    /\ pki' = {} /\ hid' = {} /\ is' = {}
    /\ work' = "idle" /\ worker' = "idle"
    /\ held' = FALSE
    /\ clear' = FALSE
    /\ UNCHANGED <<plugged, configVars, keys, cause>>

\* but nobody binds a controller that the VM had.
Dies(why) ==
    /\ Exits(why)
    /\ driver' = IF driver = "host" THEN "host" ELSE "none"

\* The user starts QEMU again, with everything plugged in and bound as it should be.
Restart ==
    /\ died # "no"
    /\ died' = "no" /\ driver' = "host" /\ plugged' = Usb
    /\ cause' = {}
    /\ UNCHANGED <<clear, held, guiVars, loopVars, objVars, configVars, kbdVars, guestVars>>

-----------------------------------------------------------------------------
(* Objects *)

\* The object that usb_host_auto_scan opens for d, if any: the oldest, unless that is
\* open already or the device is not there.
ToOpen(d) ==
    IF d \in plugged /\ hostdevs[d] # <<>> /\ st[<<d, hostdevs[d][1]>>] = "closed"
    THEN {<<d, hostdevs[d][1]>>} ELSE {}

\* usb_host_auto_check, from its timer: a device is opened, unless usb_host_open
\* fails, which is only reported.
AutoCheck(d) ==
    /\ Idle
    /\ \E o \in ToOpen(d) :
           /\ st' = [st EXCEPT ![o] = "open"]
           /\ used' = Append(used, o)
    /\ UNCHANGED <<held, died, guiVars, loopVars, dev, addr, hostdevs, activated, plugged, driver,
                   configVars, kbdVars, guestVars, cause, clear>>

\* The guest gives an open device an address that no other has, and its drivers
\* start: the keyboard's with all keys up.
Enumerate(o) ==
    /\ Idle
    /\ st[o] = "open" /\ addr[o] = 0
    /\ LET free == {a \in Addr : \A i \in 1 .. Len(used) : addr[used[i]] # a}
       IN  \E a \in free : /\ \A b \in free : a <= b
                           /\ addr' = [addr EXCEPT ![o] = a]
    /\ IF o[1] = Kbd THEN hid' = {} /\ is' = {} ELSE UNCHANGED <<hid, is>>
    /\ UNCHANGED <<held, died, guiVars, loopVars, dev, st, hostdevs, used, activated, plugged, driver,
                   configVars, keys, pki, guestVars, cause, clear>>

\* The user pulls the plug; async_complete of the object that is open gets ENODEV and
\* do_disconnect closes it, which keeps its address.  The device would come back as
\* another one.
Unplug(d) ==
    /\ Idle
    /\ d \in plugged
    /\ plugged' = plugged \ {d}
    /\ \/ /\ \A n \in Num : st[<<d, n>>] # "open"
          /\ UNCHANGED <<st, used>>
       \/ \E n \in Num :
              /\ st[<<d, n>>] = "open"
              /\ st' = [st EXCEPT ![<<d, n>>] = "closed"]
              /\ used' = RemoveFirst(used, <<d, n>>)
    /\ IF d = Kbd THEN hid' = {} /\ is' = {} ELSE UNCHANGED <<hid, is>>
    /\ UNCHANGED <<held, died, guiVars, loopVars, dev, addr, hostdevs, activated, driver, configVars,
                   keys, pki, guestVars, cause, clear>>

-----------------------------------------------------------------------------
(* Connecting and disconnecting all devices *)

\* What pud->dev of d points to is a live object.
Live(d) == dev[d] # NoObj /\ st[<<d, dev[d]>>] \in {"closed", "open"}

\* priv_connect_all and priv_disconnect_all begin.  The causes that are noted: the
\* last of the two was the same; a device has no address yet.  n is the object in
\* whose async_complete the loop runs.
StartConnect ==
    /\ task' = "connect" /\ at' = 1 /\ UNCHANGED inside
    /\ cause' = IF held THEN cause \cup {"again"} ELSE cause

StartDisconnect(n) ==
    /\ task' = "disconnect" /\ at' = 1 /\ inside' = n
    /\ cause' = cause
           \cup (IF held THEN {} ELSE {"twice"})
           \cup (IF \E d \in Usb : Live(d) /\ addr[<<d, dev[d]>>] = 0 THEN {"early"} ELSE {})

\* The number of a new object of d, if the bound allows one.
NewNum(d) ==
    LET free == {n \in Num : st[<<d, n>>] \in {"none", "freed"}}
    IN  {n \in free : \A k \in free : n <= k}

\* A bug: a device that was connected before is taken to be connected.
ConnectUsbOnce(d) ==
    /\ task = "connect" /\ at <= Len(priv_devices) /\ priv_devices[at] = d
    /\ IF dev[d] # NoObj THEN UNCHANGED <<dev, st, addr, hostdevs, used, activated, pki>>
       ELSE \E n \in NewNum(d) :
           /\ dev' = [dev EXCEPT ![d] = n]
           /\ st' = [st EXCEPT ![<<d, n>>] = "open"]
           /\ addr' = [addr EXCEPT ![<<d, n>>] = 0]
           /\ hostdevs' = [hostdevs EXCEPT ![d] = Append(@, n)]
           /\ used' = Append(used, <<d, n>>)
           /\ activated' = activated \cup {d}
           /\ pki' = {}
    /\ clear' = IF d = Kbd THEN FALSE ELSE clear
    /\ at' = at + 1
    /\ UNCHANGED <<held, died, guiVars, task, inside, plugged, driver, configVars, keys, hid, is,
                   guestVars, cause>>

\* A bug: only a device that could be opened is encrypted.
ConnectUsbIfOpen(d) ==
    /\ task = "connect" /\ at <= Len(priv_devices) /\ priv_devices[at] = d
    /\ \E n \in NewNum(d), opens \in BOOLEAN :
           /\ opens => d \in plugged /\ hostdevs[d] = <<>>
           /\ dev' = [dev EXCEPT ![d] = n]
           /\ st' = [st EXCEPT ![<<d, n>>] = IF opens THEN "open" ELSE "closed"]
           /\ addr' = [addr EXCEPT ![<<d, n>>] = 0]
           /\ hostdevs' = [hostdevs EXCEPT ![d] = Append(@, n)]
           /\ used' = IF opens THEN Append(used, <<d, n>>) ELSE used
           /\ activated' = IF opens THEN activated \cup {d} ELSE activated
    /\ pki' = IF d = Kbd /\ toggler THEN {} ELSE pki
    /\ clear' = IF d = Kbd THEN FALSE ELSE clear
    /\ at' = at + 1
    /\ UNCHANGED <<held, died, guiVars, task, inside, plugged, driver, configVars, keys, hid, is,
                   guestVars, cause>>

\* usb_dev_connect and usb_kbd_connect of d: a new object, which is opened at once if
\* it can be; then the context is activated.
ConnectUsb(d) ==
    /\ task = "connect" /\ at <= Len(priv_devices) /\ priv_devices[at] = d
    /\ \E n \in NewNum(d), opens \in BOOLEAN :
           /\ opens => d \in plugged /\ hostdevs[d] = <<>>
           /\ dev' = [dev EXCEPT ![d] = n]
           /\ st' = [st EXCEPT ![<<d, n>>] = IF opens THEN "open" ELSE "closed"]
           /\ addr' = [addr EXCEPT ![<<d, n>>] = 0]
           /\ hostdevs' = [hostdevs EXCEPT ![d] = Append(@, n)]
           /\ used' = IF opens THEN Append(used, <<d, n>>) ELSE used
    /\ activated' = activated \cup {d}
    /\ pki' = IF d = Kbd /\ toggler THEN {} ELSE pki
    /\ clear' = IF d = Kbd THEN FALSE ELSE clear
    /\ at' = at + 1
    /\ UNCHANGED <<held, died, guiVars, task, inside, plugged, driver, configVars, keys, hid, is,
                   guestVars, cause>>

\* priv_activate fails: sdl_grab_start exits.
ConnectUsbFails(d) ==
    /\ task = "connect" /\ at <= Len(priv_devices) /\ priv_devices[at] = d
    /\ Dies("open")

\* pci_usb_bus_connect: the controller is unbound from its driver on the host and
\* assigned to the VM.
ConnectPci ==
    /\ task = "connect" /\ at <= Len(priv_devices) /\ priv_devices[at] = Bus
    /\ driver = "host"
    /\ driver' = "vm"
    /\ at' = at + 1
    /\ UNCHANGED <<held, died, guiVars, task, inside, objVars, plugged, configVars, kbdVars, guestVars,
                   cause, clear>>

\* Either of the two fails, the first also when the controller is not bound; after the
\* second nobody has it.
ConnectPciFails ==
    /\ task = "connect" /\ at <= Len(priv_devices) /\ priv_devices[at] = Bus
    /\ Exits("open")
    /\ driver' \in {"none"} \cup ({driver} \cap {"host"})

\* The rest of sdl_grab_start: the window grabs the input, or cannot.
GrabStarted(granted) ==
    /\ task = "connect" /\ at > Len(priv_devices)
    /\ task' = "none" /\ at' = 1 /\ UNCHANGED inside
    /\ held' = TRUE
    /\ gui_grab' = (gui_grab \/ granted)
    /\ cause' = IF granted THEN cause ELSE cause \cup {"refused"}
    /\ UNCHANGED <<died, gui_fullscreen, gui_saved_grab, objVars, plugged, driver, configVars,
                   kbdVars, guestVars, clear>>

\* The keys that are down after the user has pressed or released k.
Toggled(k) == IF k \in keys THEN keys \ {k} ELSE keys \cup {k}

\* The object whose reports the guest gets from the keyboard.
Reporting == {n \in Num : st[<<Kbd, n>>] = "open" /\ addr[<<Kbd, n>>] # 0}

\* schedule_toggle: INIT_WORK on a work that is pending leaves a list that the worker
\* never gets to the end of.
ScheduleToggle == work' = IF work = "idle" THEN "pending" ELSE "corrupt"

\* What the switcher knows after a report, and whether the report completes the two.
SwitcherKnows(down) == (is \ (hid \ down)) \cup (down \ hid)
Completes(down) == ~(down \subseteq hid) /\ SwitcherKnows(down) = Combo

\* input_switcher_event, for each of the keys that the report changes: the toggle is
\* scheduled when the one pressed completes the two.
SwitcherSees(down) ==
    /\ is' = SwitcherKnows(down)
    /\ IF Completes(down) THEN ScheduleToggle ELSE UNCHANGED work

\* The objects that usb_device_delete_addr may free for d: it goes by the address.
Victims(d) == {i \in 1 .. Len(used) : addr[used[i]] = addr[<<d, dev[d]>>]}

\* Bugs: the port of a freed object stays in use; the object is only closed, and the
\* timer finds it.
FreeObjPort(o) ==
    /\ st' = [st EXCEPT ![o] = IF dev[o[1]] = o[2] THEN "freed" ELSE "none"]
    /\ hostdevs' = [hostdevs EXCEPT ![o[1]] = RemoveFirst(@, o[2])]
    /\ UNCHANGED <<addr, used, hid, is>>

FreeObjKeep(o) ==
    /\ st' = [st EXCEPT ![o] = "closed"]
    /\ used' = RemoveFirst(used, o)
    /\ UNCHANGED <<addr, hostdevs, hid, is>>

\* qdev_free of an object, down to usb_host_handle_destroy; the guest's drivers let go
\* of the device.
FreeObj(o) ==
    /\ st' = [st EXCEPT ![o] = IF dev[o[1]] = o[2] THEN "freed" ELSE "none"]
    /\ addr' = [addr EXCEPT ![o] = 0]
    /\ IF o[1] = Kbd THEN hid' = {} /\ is' = {} ELSE UNCHANGED <<hid, is>>
    /\ used' = RemoveFirst(used, o)
    /\ hostdevs' = [hostdevs EXCEPT ![o[1]] = RemoveFirst(@, o[2])]

\* usb_dev_disconnect and usb_kbd_disconnect of d: deactivated, then closed.  pud->dev
\* is not cleared.
CloseUsb(d) ==
    /\ task = "disconnect" /\ at <= Len(priv_devices) /\ priv_devices[at] = d
    /\ \/ /\ dev[d] = NoObj
          /\ UNCHANGED <<st, addr, used, hostdevs, activated, pki, hid, is>>
       \/ /\ Live(d)
          /\ \E i \in Victims(d) : (\A j \in Victims(d) : i <= j) /\ FreeObj(used[i])
          /\ activated' = activated \ {d}
          /\ pki' = IF d = Kbd THEN {} ELSE pki
    /\ at' = at + 1
    /\ UNCHANGED <<held, died, guiVars, task, inside, dev, plugged, driver, configVars, worker,
                   cause>>

\* usb_host_close finds no report that has completed.
DisconnectUsb(d) == CloseUsb(d) /\ UNCHANGED <<keys, work, clear>>

\* The user presses or releases k during the loop, and async_complete in
\* usb_host_close hands the report to the guest without decryption: as noise if it
\* completed before the deactivation, in the clear if after.  The guest's switcher may
\* see it before the device goes.  A release from within the keyboard's own
\* async_complete has taken the one report there is.
DisconnectKbdLate(k) ==
    LET down == Toggled(k)
    IN  /\ CloseUsb(Kbd)
        /\ dev[Kbd] \in Reporting /\ dev[Kbd] # inside
        /\ keys' = down
        /\ \E seen \in SUBSET Combo, plain \in BOOLEAN :
               /\ plain => seen = down
               /\ clear' = (clear \/ plain)
               /\ UNCHANGED work \/ (Completes(seen) /\ ScheduleToggle)

\* No device has the address: sdl_grab_end exits.
DisconnectUsbFails(d) ==
    /\ task = "disconnect" /\ at <= Len(priv_devices) /\ priv_devices[at] = d
    /\ Live(d) /\ Victims(d) = {}
    /\ Dies("close")

\* pud->dev is not NULL, and what it points to has been freed.
DisconnectUsbStale(d) ==
    /\ task = "disconnect" /\ at <= Len(priv_devices) /\ priv_devices[at] = d
    /\ dev[d] # NoObj /\ ~Live(d)
    /\ Dies("stale")

\* pci_usb_bus_disconnect: the controller is taken from the VM and bound again.
DisconnectPci ==
    /\ task = "disconnect" /\ at <= Len(priv_devices) /\ priv_devices[at] = Bus
    /\ driver = "vm"
    /\ driver' = "host"
    /\ at' = at + 1
    /\ UNCHANGED <<held, died, guiVars, task, inside, objVars, plugged, configVars, kbdVars, guestVars,
                   cause, clear>>

\* The VM does not have it, or it cannot be unplugged or bound again.
DisconnectPciFails ==
    /\ task = "disconnect" /\ at <= Len(priv_devices) /\ priv_devices[at] = Bus
    /\ Dies(IF driver = "vm" THEN "bind" ELSE "close")

\* The rest of sdl_grab_end.
GrabEnded ==
    /\ task = "disconnect" /\ at > Len(priv_devices)
    /\ task' = "none" /\ at' = 1 /\ inside' = NoObj
    /\ gui_grab' = FALSE
    /\ held' = FALSE
    /\ cause' = cause \ {"refused", "twice", "early"}
    /\ UNCHANGED <<died, gui_fullscreen, gui_saved_grab, objVars, plugged, driver, configVars,
                   kbdVars, guestVars, clear>>

\* ... but async_complete of the toggler goes on with the object that was freed
\* within it, its list and its descriptor, and may not survive that.
ReapFreed ==
    /\ task = "disconnect" /\ at > Len(priv_devices)
    /\ inside # NoObj /\ st[<<Kbd, inside>>] \notin {"closed", "open"}
    /\ Dies("freed")

-----------------------------------------------------------------------------
(* What starts them *)

\* A click into the window, or its shortcut.
UserGrab ==
    /\ Idle /\ ~gui_grab
    /\ StartConnect
    /\ UNCHANGED <<held, died, guiVars, objVars, plugged, driver, configVars, kbdVars, guestVars, clear>>

\* The shortcut, a text console, another window, a change of the mouse mode.
UserRelease ==
    /\ Idle /\ gui_grab
    /\ StartDisconnect(NoObj)
    /\ UNCHANGED <<held, died, guiVars, objVars, plugged, driver, configVars, kbdVars, guestVars, clear>>

\* toggle_full_screen
FullScreen ==
    /\ Idle
    /\ gui_fullscreen' = ~gui_fullscreen
    /\ \/ /\ ~gui_fullscreen
          /\ gui_saved_grab' = gui_grab
          /\ StartConnect
       \/ /\ gui_fullscreen /\ ~gui_saved_grab
          /\ StartDisconnect(NoObj)
          /\ UNCHANGED gui_saved_grab
       \/ /\ gui_fullscreen /\ gui_saved_grab
          /\ UNCHANGED <<gui_saved_grab, loopVars, cause>>
    /\ UNCHANGED <<held, died, gui_grab, objVars, plugged, driver, configVars, kbdVars, guestVars, clear>>

\* The user presses or releases k on the keyboard; while the VM has it that is a
\* report, seen by priv_kbd_handle_packet of a toggler, which may keep it, and then by
\* the switcher in the guest.
Key(k) ==
    LET down == Toggled(k)
        kept == toggler /\ down = Combo /\ pki # Combo
    IN  /\ Idle
        /\ keys' = down
        /\ \/ /\ Reporting = {}
              /\ UNCHANGED <<loopVars, pki, hid, is, work, cause, clear>>
           \/ /\ Reporting # {} /\ kept
              /\ pki' = down
              /\ \E n \in Reporting : StartDisconnect(n)
              /\ clear' = (clear \/ Kbd \notin activated)
              /\ UNCHANGED <<hid, is, work>>
           \/ /\ Reporting # {} /\ ~kept
              /\ pki' = IF toggler THEN down ELSE pki
              /\ hid' = down
              /\ SwitcherSees(down)
              /\ clear' = (clear \/ Kbd \notin activated)
              /\ UNCHANGED <<loopVars, cause>>
        /\ UNCHANGED <<held, died, guiVars, objVars, plugged, driver, configVars, worker>>

\* do_toggle: all keys of the device are released, then two hypercalls,
DoToggle ==
    /\ died = "no" /\ worker = "idle" /\ work # "idle"
    /\ worker' = "first"
    /\ work' = IF work = "corrupt" THEN "corrupt" ELSE "idle"
    /\ is' = {}
    /\ UNCHANGED <<held, died, guiVars, loopVars, objVars, plugged, driver, configVars, keys, pki, hid,
                   cause, clear>>

\* A bug: only a window that grabs the input reacts.
KvmToggleIfGrabbed(a0) ==
    IF a0 = 0 /\ gui_grab THEN StartDisconnect(NoObj) ELSE UNCHANGED <<loopVars, cause>>

\* KVM_HC_TOGGLE (the keyboard is private)
KvmToggle(a0) ==
    IF a0 = 0 THEN StartDisconnect(NoObj) ELSE UNCHANGED <<loopVars, cause>>

\* the first with argument 0, the second without: a0 is what the register holds.
Hypercall(a0) ==
    /\ Idle /\ worker # "idle"
    /\ worker = "first" => a0 = 0
    /\ KvmToggle(a0)
    /\ worker' = IF worker = "first" THEN "second" ELSE "idle"
    /\ UNCHANGED <<held, died, guiVars, objVars, plugged, driver, configVars, kbdVars, work, clear>>

-----------------------------------------------------------------------------
Loop ==
    \/ \E d \in Usb : ConnectUsb(d) \/ DisconnectUsb(d)
    \/ \E k \in Combo : DisconnectKbdLate(k)
    \/ \E d \in Usb : ConnectUsbFails(d) \/ DisconnectUsbFails(d) \/ DisconnectUsbStale(d)
    \/ ConnectPci \/ ConnectPciFails \/ DisconnectPci \/ DisconnectPciFails
    \/ \E granted \in BOOLEAN : GrabStarted(granted)
    \/ GrabEnded \/ ReapFreed

InputNext ==
    \/ Loop
    \/ \E d \in Usb : AutoCheck(d) \/ Unplug(d)
    \/ \E o \in Obj : Enumerate(o)
    \/ UserGrab \/ UserRelease \/ FullScreen
    \/ \E k \in Combo : Key(k)
    \/ DoToggle \/ \E a0 \in {0, 3} : Hypercall(a0)
    \/ Restart

\* A loop over the devices goes on; the guest's worker and QEMU's processor threads
\* run, the latter whenever the mutex is free often enough.
InputFairness ==
    /\ WF_inputVars(Loop)
    /\ WF_inputVars(DoToggle)
    /\ SF_inputVars(\E a0 \in {0, 3} : Hypercall(a0))

InputSpec == InputInit /\ [][InputNext]_inputVars /\ InputFairness

-----------------------------------------------------------------------------
\* The objects on bus->used are the open ones, each of which is in hostdevs, and no
\* two objects of a device are open.
ObjectsOK ==
    /\ dev \in [Usb -> Num \cup {NoObj}]
    /\ st \in [Obj -> {"none", "closed", "open", "freed"}]
    /\ addr \in [Obj -> Addr \cup {0}]
    /\ used \in Seq(Obj) /\ hostdevs \in [Usb -> Seq(Num)]
    /\ ToSet(used) = {o \in Obj : st[o] = "open"} /\ IsInjective(used)
    /\ \A d \in Usb :
           /\ ToSet(hostdevs[d]) = {n \in Num : st[<<d, n>>] \in {"closed", "open"}}
           /\ IsInjective(hostdevs[d])
           /\ \A m, n \in Num : st[<<d, m>>] = "open" /\ st[<<d, n>>] = "open" => m = n

\* The state keeps its types, and the two lists of objects agree with the objects.
InputTypeOK ==
    /\ ObjectsOK
    /\ priv_devices \in Configs
    /\ died \in {"no", "open", "close", "stale", "bind", "freed"}
    /\ gui_grab \in BOOLEAN /\ gui_fullscreen \in BOOLEAN /\ gui_saved_grab \in BOOLEAN
    /\ toggler \in BOOLEAN /\ held \in BOOLEAN /\ clear \in BOOLEAN
    /\ task \in {"none", "connect", "disconnect"} /\ at \in 1 .. Len(priv_devices) + 1
    /\ inside \in Num \cup {NoObj}
    /\ activated \subseteq Usb /\ plugged \subseteq Usb
    /\ driver \in {"host", "none", "vm"}
    /\ keys \subseteq Combo /\ pki \subseteq Combo /\ hid \subseteq Combo /\ is \subseteq Combo
    /\ work \in {"idle", "pending", "corrupt"} /\ worker \in {"idle", "first", "second"}
    /\ cause \subseteq {"again", "twice", "early", "refused"}

\* Letting go of the input ends QEMU (sdl_grab_end exits, or usb_dev_disconnect
\* follows a pointer to a freed object) only if the devices were connected or
\* disconnected twice in a row, the guest had not addressed one of them yet, or one
\* was unplugged.  A toggler may end it whenever it lets go: its async_complete
\* follows a pointer to the object that it has freed.
CleanRelease ==
    /\ died \in {"close", "stale"} =>
           cause \cap {"again", "twice", "early"} # {} \/ plugged # Usb
    /\ died = "freed" => toggler

\* When the window does not grab the input the devices are the host's, unless SDL
\* refused the grab after priv_connect_all had taken them, or they were connected
\* twice in a row.
DevicesReturn ==
    Idle /\ ~gui_grab /\ cause \cap {"again", "refused"} = {}
        => used = <<>> /\ driver = "host"

\* While the VM has the keyboard its reports reach the guest encrypted, unless the
\* devices were connected twice in a row.  One that is in the clear is the last: it
\* came while usb_dev_disconnect was at the keyboard, which is then the host's.
NeverInClear == clear /\ Reporting # {} => "again" \in cause

\* Left-ctrl and left-alt, once the guest's switcher has seen them, take the devices
\* away from the VM, whatever the window's state.
Escape == (work # "idle") ~> (used = <<>>)
=============================================================================
