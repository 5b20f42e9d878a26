------------------------------ MODULE CardReaders ------------------------------
(***************************************************************************)
(* The card readers of a kiosk: CardReaderManager, which chooses between a *)
(* USB CCID reader, a vendor HID reader, a keyboard-like reader and the    *)
(* built-in NFC, the threads that poll a USB reader, and the part of       *)
(* kiosk.js that pauses the built-in NFC while the camera reads QR codes.  *)
(*                                                                         *)
(* The manager runs on the main thread, whose looper takes broadcasts,     *)
(* calls of the page and reports of the polling threads from one queue.    *)
(* The page runs in a thread of its own; what the manager tells it         *)
(* (evaluateJavascript) waits in a second queue. USB devices have a new    *)
(* name whenever they are plugged in, so a device comes and goes once.     *)
(***************************************************************************)
EXTENDS Integers, Sequences, FiniteSets

CONSTANTS
  Devices,
  Kind(_),      \* UsbDeviceClassifier: CCID, VENDOR or KEYBOARD
  NoDevice,
  HasNfc,       \* the tablet has an NFC adapter
  Refusing,     \* devices whose interface may prove impossible to claim
  Slots,        \* polling threads that may exist at a time, 1..n
  NoSlot,
  NoThread,
  MaxQueue,     \* messages in the main queue
  MaxNotes,     \* mode changes on their way to the page
  Reloads,      \* whether the page is reloaded
  MaxTimers     \* setTimeout calls of stopCameraScanner in progress

Streaming == {"CCID", "VENDOR"}
Modes == {"NONE", "USB_CCID", "USB_VENDOR_HID_NFC", "USB_HID_KEYBOARD", "BUILTIN_NFC"}

ASSUME ReaderAssumption ==
  /\ \A d \in Devices : Kind(d) \in Streaming \cup {"KEYBOARD"}
  /\ NoDevice \notin Devices /\ Refusing \subseteq Devices
  /\ HasNfc \in BOOLEAN /\ Reloads \in BOOLEAN
  /\ NoSlot \notin Slots /\ Slots \subseteq Nat
  /\ MaxQueue \in Nat /\ MaxNotes \in Nat /\ MaxTimers \in Nat

VARIABLES
  usb,          \* where each device is: out, in, in but refusing, gone
  permitted,    \* devices the user has granted
  dialogs,      \* devices whose permission dialogue is open
  app,          \* activity: shown (receivers registered), hidden, dead
  mode,         \* currentMode
  held,         \* activeCcidReader and activeVendorHidReader
  threads,      \* the polling threads
  pending,      \* pendingPermissionDevice
  lastHid,      \* lastLoggedHidDevice
  nfc,          \* the built-in NFC is in reader mode
  watchdog,     \* vendorHidWatchdogTask is scheduled
  queue,        \* messages of the main looper
  notes,        \* onCardReaderModeChanged calls the page has not run yet
  ready,        \* the page's script has run
  shown,        \* page: currentReaderMode
  scanning,     \* page: isCameraScanning
  timers,       \* page: reader to be re-enabled 500 ms after the camera
  cutOff        \* history: a reload forgot to re-enable the NFC it had paused

outside == <<usb, permitted>>
manager == <<mode, held, threads, pending, lastHid, nfc, watchdog>>
page == <<ready, shown, scanning, timers>>
vars == <<outside, dialogs, app, manager, queue, notes, page, cutOff>>

Thread == [kind : Streaming, dev : Devices, open : BOOLEAN,
           phase : {"idle", "busy", "stuck", "ended"}]
ASSUME ThreadAssumption == NoThread \notin Thread
Message == [type : {"attached", "pause", "reenable", "dropped"}]
  \cup [type : {"detached"}, dev : Devices]
  \cup [type : {"permission"}, dev : Devices, granted : BOOLEAN]
  \cup [type : {"failed"}, kind : Streaming]

TypeOK ==
  /\ usb \in [Devices -> {"out", "in", "refusing", "gone"}]
  /\ permitted \subseteq Devices /\ dialogs \subseteq Devices
  /\ app \in {"shown", "hidden", "dead"}
  /\ mode \in Modes
  /\ held \in [Streaming -> Slots \cup {NoSlot}]
  /\ threads \in [Slots -> Thread \cup {NoThread}]
  /\ \A k \in Streaming : held[k] # NoSlot =>
       /\ threads[held[k]] \in Thread
       /\ threads[held[k]].kind = k /\ threads[held[k]].open
  /\ pending \in Devices \cup {NoDevice} /\ lastHid \in Devices \cup {NoDevice}
  /\ nfc \in BOOLEAN /\ watchdog \in BOOLEAN
  /\ queue \in Seq(Message) /\ notes \in Seq(Modes)
  /\ ready \in BOOLEAN /\ shown \in Modes \cup {"UNKNOWN"}
  /\ scanning \in BOOLEAN /\ timers \in 0..MaxTimers
  /\ cutOff \in BOOLEAN

-------------------------------------------------------------------------------
(* The manager's methods, as functions of its state: they call each other, *)
(* and everything one message causes happens before the next message.     *)

IsIn(d) == usb[d] \in {"in", "refusing"}
Plugged(k) == {d \in Devices : IsIn(d) /\ Kind(d) = k}
ModeOf(k) == CASE k = "CCID" -> "USB_CCID" [] k = "VENDOR" -> "USB_VENDOR_HID_NFC"
               [] k = "KEYBOARD" -> "USB_HID_KEYBOARD"

State == [app |-> app, mode |-> mode, held |-> held, threads |-> threads,
          pending |-> pending, lastHid |-> lastHid, nfc |-> nfc,
          watchdog |-> watchdog, dialogs |-> dialogs, notes |-> notes]

NoHeld == [k \in Streaming |-> NoSlot]
Fresh == [app |-> "shown", mode |-> "NONE", held |-> NoHeld,
          threads |-> [s \in Slots |-> NoThread], pending |-> NoDevice,
          lastHid |-> NoDevice, nfc |-> FALSE, watchdog |-> FALSE,
          dialogs |-> dialogs, notes |-> << >>]

\* notifyModeChange
Notify(m, g) == [g EXCEPT !.notes = Append(@, m)]

\* What is left of a thread whose connection is closed: a thread in a transfer
\* finds out later, one that sleeps is interrupted and ends.
Closed(t) == IF t.phase \in {"busy", "stuck"} THEN [t EXCEPT !.open = FALSE] ELSE NoThread

\* stopCcidSession, stopVendorHidSession
Stop(k, g) ==
  [g EXCEPT !.threads = [s \in Slots |-> IF s = g.held[k] THEN Closed(@[s]) ELSE @[s]],
            !.held = [@ EXCEPT ![k] = NoSlot],
            !.watchdog = @ /\ k # "VENDOR"]

ActiveDevice(k, g) == IF g.held[k] = NoSlot THEN NoDevice ELSE g.threads[g.held[k]].dev

\* The process dies: an open that fails every time makes openCcidConnection and
\* evaluateAndActivate call each other until the stack is full.
Dead(g) == [Fresh EXCEPT !.app = "dead", !.dialogs = g.dialogs]

\* Threads that are left when a new session replaces the one of kind k without
\* stopping it: the old thread polls on, unless it has ended already.
Replaced(k, g) ==
  [s \in Slots |-> IF s = g.held[k] /\ g.threads[s].phase = "ended"
                   THEN NoThread ELSE g.threads[s]]

\* openCcidConnection, openVendorHidConnection, on a device that is plugged in.
Open(d, g) ==
  LET k == Kind(d)
      free == {s \in Slots : g.threads[s] = NoThread}
  IN IF usb[d] = "refusing" THEN {Dead(g)}
     ELSE { Notify(ModeOf(k),
              [g EXCEPT !.held = [@ EXCEPT ![k] = s],
                        !.threads = [Replaced(k, g) EXCEPT ![s] =
                           [kind |-> k, dev |-> d, open |-> TRUE, phase |-> "idle"]],
                        !.watchdog = @ \/ k = "VENDOR"])
            : s \in {x \in free : \A y \in free : x <= y} }

\* activateCcid, activateVendorHid, requestUsbPermission
Activate(d, g) ==
  LET k == Kind(d)
      off == [g EXCEPT !.nfc = FALSE, !.mode = ModeOf(k)]
  IN IF g.mode = ModeOf(k) /\ d \in {ActiveDevice(k, g), g.pending} THEN {g}
     ELSE IF d \in permitted THEN Open(d, off)
     ELSE {[off EXCEPT !.pending = d, !.dialogs = @ \cup {d}]}

\* Mutant of ActivateHidPassive: the built-in NFC is left on.
ActivateHidPassiveNfcOn(d, g) ==
  Notify("USB_HID_KEYBOARD", [g EXCEPT !.mode = "USB_HID_KEYBOARD", !.lastHid = d])

\* activateHidPassive
ActivateHidPassive(d, g) ==
  IF g.mode = "USB_HID_KEYBOARD" /\ g.lastHid = d THEN g
  ELSE Notify("USB_HID_KEYBOARD",
              [g EXCEPT !.nfc = FALSE, !.mode = "USB_HID_KEYBOARD", !.lastHid = d])

\* activateBuiltinNfc
ActivateBuiltinNfc(g) ==
  IF g.mode = "BUILTIN_NFC" THEN g
  ELSE Notify("BUILTIN_NFC", [g EXCEPT !.nfc = TRUE, !.mode = "BUILTIN_NFC"])

\* emitNoReaderError
EmitNoReaderError(g) == Notify("NONE", [g EXCEPT !.mode = "NONE"])

\* evaluateAndActivate: of several devices of a kind the first of a HashMap.
EvaluateAndActivate(g) ==
  LET noCcid == Stop("CCID", g)
      noUsb == Stop("VENDOR", noCcid)
      noHid == [noUsb EXCEPT !.lastHid = NoDevice]
  IN IF Plugged("CCID") # {}
     THEN UNION {Activate(d, Stop("VENDOR", g)) : d \in Plugged("CCID")}
     ELSE IF Plugged("VENDOR") # {}
     THEN UNION {Activate(d, noCcid) : d \in Plugged("VENDOR")}
     ELSE IF Plugged("KEYBOARD") # {}
     THEN {ActivateHidPassive(d, noUsb) : d \in Plugged("KEYBOARD")}
     ELSE IF HasNfc THEN {ActivateBuiltinNfc(noHid)}
     ELSE {EmitNoReaderError(noHid)}

\* The recurring ending "currentMode = NONE; evaluateAndActivate()".
StartOver(g) == EvaluateAndActivate([g EXCEPT !.mode = "NONE"])

\* onUsbPermissionResult: only for the device asked about last. A device that
\* is no longer there cannot be opened.
OnUsbPermissionResult(d, granted, g) ==
  LET answered == [g EXCEPT !.pending = NoDevice]
  IN IF d # g.pending THEN {g}
     ELSE IF granted /\ IsIn(d) THEN Open(d, answered)
     ELSE StartOver(answered)

\* Mutant of OnUsbDetached: a device no session uses is ignored.
OnUsbDetachedOfSession(d, g) ==
  IF d = ActiveDevice("CCID", g) THEN StartOver(Stop("CCID", g))
  ELSE IF d = ActiveDevice("VENDOR", g) THEN StartOver(Stop("VENDOR", g)) ELSE {g}

\* onUsbDetached
OnUsbDetached(d, g) ==
  IF d = ActiveDevice("CCID", g) THEN StartOver(Stop("CCID", g))
  ELSE IF d = ActiveDevice("VENDOR", g) THEN StartOver(Stop("VENDOR", g))
  ELSE IF d = g.lastHid THEN StartOver([g EXCEPT !.lastHid = NoDevice])
  ELSE EvaluateAndActivate(g)

\* Mutant of OnSessionFailed: no reader is looked for.
OnSessionFailedOnlyStops(k, g) == {[Stop(k, g) EXCEPT !.mode = "NONE"]}

\* onSessionFailed: the session that is held now is stopped, whichever failed.
OnSessionFailed(k, g) == StartOver(Stop(k, g))

\* pauseBuiltinNfcForCamera
PauseBuiltinNfcForCamera(g) ==
  IF g.mode = "BUILTIN_NFC"
  THEN Notify("NONE", [g EXCEPT !.nfc = FALSE, !.mode = "NONE"]) ELSE g

\* onPause of the manager
OnPause(g) ==
  [Stop("VENDOR", Stop("CCID", g)) EXCEPT !.nfc = FALSE, !.mode = "NONE", !.app = "hidden"]

-------------------------------------------------------------------------------
PauseIn(q) == \E i \in 1..Len(q) : q[i].type = "pause"

\* The manager and what it changes take one of the given states. A dead process
\* takes its page and its queue along.
Become(outcomes, rest) ==
  \E g \in outcomes :
    /\ Len(g.notes) <= MaxNotes
    /\ app' = g.app /\ mode' = g.mode /\ held' = g.held /\ threads' = g.threads
    /\ pending' = g.pending /\ lastHid' = g.lastHid /\ nfc' = g.nfc
    /\ watchdog' = g.watchdog /\ dialogs' = g.dialogs /\ notes' = g.notes
    /\ cutOff' = (cutOff /\ g.app # "dead" /\ (g.mode = "NONE" \/ PauseIn(rest)))
    /\ IF g.app = "dead"
       THEN /\ queue' = << >> /\ ready' = FALSE /\ shown' = "UNKNOWN"
            /\ scanning' = FALSE /\ timers' = 0
       ELSE queue' = rest /\ UNCHANGED page

Post(m) == queue' = Append(queue, m)
\* Broadcasts reach the receivers only while they are registered.
Broadcast(m) == IF app = "shown" THEN Post(m) ELSE UNCHANGED queue
Room == Len(queue) < MaxQueue

Init ==
  /\ usb = [d \in Devices |-> "out"] /\ permitted = {} /\ dialogs = {}
  /\ app = "hidden" /\ mode = "NONE" /\ held = NoHeld
  /\ threads = [s \in Slots |-> NoThread] /\ pending = NoDevice /\ lastHid = NoDevice
  /\ nfc = FALSE /\ watchdog = FALSE /\ queue = << >> /\ notes = << >>
  /\ ready = FALSE /\ shown = "UNKNOWN" /\ scanning = FALSE /\ timers = 0
  /\ cutOff = FALSE

\* ---- the USB host and the user ----
Plug(d) ==
  /\ usb[d] = "out" /\ Room
  /\ \E w \in {"in"} \cup {"refusing" : r \in Refusing \cap {d}} : usb' = [usb EXCEPT ![d] = w]
  /\ Broadcast([type |-> "attached"])
  /\ UNCHANGED <<permitted, dialogs, app, manager, notes, page, cutOff>>

Unplug(d) ==
  /\ IsIn(d) /\ Room
  /\ usb' = [usb EXCEPT ![d] = "gone"]
  /\ permitted' = permitted \ {d}
  /\ Broadcast([type |-> "detached", dev |-> d])
  /\ UNCHANGED <<dialogs, app, manager, notes, page, cutOff>>

\* The user, or the removal of the device, closes a permission dialogue.
Answer(d, granted) ==
  /\ d \in dialogs /\ Room
  /\ granted => IsIn(d)
  /\ dialogs' = dialogs \ {d}
  /\ permitted' = IF granted THEN permitted \cup {d} ELSE permitted
  /\ Broadcast([type |-> "permission", dev |-> d, granted |-> granted])
  /\ UNCHANGED <<usb, app, manager, notes, page, cutOff>>

\* Activity.onPause: a broadcast that still waits for an unregistered receiver
\* is ignored when its turn comes.
Dropped(m) == IF m.type \in {"attached", "detached", "permission"} THEN [type |-> "dropped"] ELSE m
Hide ==
  /\ app = "shown"
  /\ Become({OnPause(State)}, [i \in DOMAIN queue |-> Dropped(queue[i])])
  /\ UNCHANGED outside

\* Activity.onResume
Show ==
  /\ app = "hidden" /\ Room
  /\ Become(EvaluateAndActivate([State EXCEPT !.app = "shown"]), queue)
  /\ UNCHANGED outside

\* Somebody starts the app again after it died.
Launch ==
  /\ app = "dead"
  /\ Become(EvaluateAndActivate(Fresh), queue)
  /\ UNCHANGED outside

\* ---- the main looper ----
Handle(m) ==
  CASE m.type \in {"attached", "reenable"} -> EvaluateAndActivate(State)
    [] m.type = "detached" -> OnUsbDetached(m.dev, State)
    [] m.type = "permission" -> OnUsbPermissionResult(m.dev, m.granted, State)
    [] m.type = "failed" -> OnSessionFailed(m.kind, State)
    [] m.type = "dropped" -> {State}
    [] m.type = "pause" -> {PauseBuiltinNfcForCamera(State)}

MainStep ==
  /\ queue # << >>
  /\ Become(Handle(Head(queue)), Tail(queue))
  /\ UNCHANGED outside

\* vendorHidWatchdogTask: a cycle is over within 3.2 s, unless the driver
\* ignores the timeout.
Watchdog ==
  /\ watchdog /\ held["VENDOR"] # NoSlot /\ Room
  /\ threads[held["VENDOR"]].phase = "stuck"
  /\ Become(StartOver(Stop("VENDOR", State)), queue)
  /\ UNCHANGED outside

\* ---- CcidUidReader.run, VendorHidUidReader.run ----
Alive(s) == threads[s] # NoThread /\ threads[s].phase # "ended"
Held(s) == \E k \in Streaming : held[k] = s
\* No transfer can succeed: the connection is closed, the device has gone, or
\* another session has claimed its interface by force.
Cut(s) ==
  \/ ~threads[s].open \/ ~IsIn(threads[s].dev)
  \/ \E k \in Streaming : held[k] \notin {s, NoSlot} /\ threads[held[k]].dev = threads[s].dev
OnlyThreads == UNCHANGED <<outside, dialogs, app, mode, held, pending, lastHid, nfc,
                           watchdog, notes, page, cutOff>>

\* A round begins: the request goes to the reader.
StartTransfer(s) ==
  /\ Alive(s) /\ threads[s].phase = "idle"
  /\ threads' = [threads EXCEPT ![s].phase = "busy"]
  /\ UNCHANGED queue /\ OnlyThreads

\* The answer came, with a card or without; a stopped thread ends.
EndTransfer(s) ==
  /\ Alive(s) /\ threads[s].phase = "busy"
  /\ threads[s].open => ~Cut(s)
  /\ threads' = [threads EXCEPT ![s] = IF @.open THEN [@ EXCEPT !.phase = "idle"] ELSE NoThread]
  /\ UNCHANGED queue /\ OnlyThreads

\* A transfer fails; the thread reports it, even when it has been stopped.
FailTransfer(s) ==
  /\ Alive(s) /\ threads[s].phase \in {"busy", "stuck"}
  /\ Cut(s) \/ (threads[s].phase = "busy" /\ Room)
  /\ threads' = [threads EXCEPT ![s] = IF Held(s) THEN [@ EXCEPT !.phase = "ended"] ELSE NoThread]
  /\ Post([type |-> "failed", kind |-> threads[s].kind])
  /\ OnlyThreads

\* The driver of some tablets blocks in a transfer to a HID reader.
GetStuck(s) ==
  /\ Alive(s) /\ threads[s].phase = "busy" /\ threads[s].open
  /\ threads[s].kind = "VENDOR"
  /\ threads' = [threads EXCEPT ![s].phase = "stuck"]
  /\ UNCHANGED queue /\ OnlyThreads

\* ---- the page (kiosk.js) ----
OnlyPage == UNCHANGED <<outside, dialogs, app, manager, cutOff>>

\* onCardReaderModeChanged; a call is lost before the script has run.
DeliverNote ==
  /\ app # "dead" /\ notes # << >>
  /\ shown' = IF ready THEN Head(notes) ELSE shown
  /\ notes' = Tail(notes)
  /\ UNCHANGED <<queue, ready, scanning, timers>> /\ OnlyPage

\* initWebNFC asks for the current mode.
PageReady ==
  /\ app = "shown" /\ ~ready
  /\ ready' = TRUE /\ shown' = mode
  /\ UNCHANGED <<queue, notes, scanning, timers>> /\ OnlyPage

\* A reload ends the camera and forgets the timers.
Reload ==
  /\ Reloads /\ app = "shown" /\ ready
  /\ ready' = FALSE /\ shown' = "UNKNOWN" /\ notes' = << >>
  /\ scanning' = FALSE /\ timers' = 0
  /\ cutOff' = (cutOff \/ scanning \/ timers > 0)
  /\ UNCHANGED <<queue, outside, dialogs, app, manager>>

\* startCameraScanner from its last await on: the camera is there, and the
\* built-in NFC is paused if the page knows it is on. A camera that cannot be
\* opened changes nothing.
StartCameraScanner ==
  /\ app = "shown" /\ ready /\ ~scanning /\ Room
  /\ scanning' = TRUE
  /\ IF shown = "BUILTIN_NFC" THEN Post([type |-> "pause"]) ELSE UNCHANGED queue
  /\ UNCHANGED <<notes, ready, shown, timers>> /\ OnlyPage

\* stopCameraScanner
StopCameraScanner ==
  /\ app = "shown" /\ scanning /\ timers < MaxTimers
  /\ scanning' = FALSE /\ timers' = timers + 1
  /\ UNCHANGED <<queue, notes, ready, shown>> /\ OnlyPage

\* Its setTimeout calls reenableNfcReader.
ReenableReader ==
  /\ app = "shown" /\ timers > 0 /\ Room
  /\ timers' = timers - 1
  /\ Post([type |-> "reenable"])
  /\ UNCHANGED <<notes, ready, shown, scanning>> /\ OnlyPage

Poll(s) == StartTransfer(s) \/ EndTransfer(s) \/ FailTransfer(s)
Outside == \/ Hide \/ Show \/ Launch
           \/ \E d \in Devices : Plug(d) \/ Unplug(d) \/ \E b \in BOOLEAN : Answer(d, b)
Camera == StartCameraScanner \/ StopCameraScanner \/ ReenableReader
Next ==
  \/ Outside \/ MainStep \/ Watchdog
  \/ \E s \in Slots : Poll(s) \/ GetStuck(s)
  \/ DeliverNote \/ PageReady \/ Reload \/ Camera

Spec == Init /\ [][Next]_vars

\* The looper, the watchdog, the polling threads and the page's event loop go
\* on. Nothing is assumed of the user, the devices and the camera.
Fairness ==
  /\ WF_vars(MainStep) /\ WF_vars(Watchdog)
  /\ \A s \in Slots : WF_vars(Poll(s))
  /\ WF_vars(DeliverNote) /\ WF_vars(ReenableReader)
FairSpec == Spec /\ Fairness
-------------------------------------------------------------------------------
\* The built-in NFC and a USB session are never active together, and the NFC is
\* on exactly while the manager says so.
NfcAlone ==
  /\ nfc <=> mode = "BUILTIN_NFC"
  /\ nfc => \A k \in Streaming : held[k] = NoSlot

\* The permission to open a reader of kind k is waited for.
Waiting(k) == mode = ModeOf(k) /\ held[k] = NoSlot

\* A vendor HID session is watched, and only such a session is.
VendorWatched == watchdog <=> held["VENDOR"] # NoSlot

BroadcastsWait == \E i \in 1..Len(queue) : queue[i].type \in {"attached", "detached"}
Preferred ==
  IF Plugged("CCID") # {} THEN "USB_CCID"
  ELSE IF Plugged("VENDOR") # {} THEN "USB_VENDOR_HID_NFC"
  ELSE IF Plugged("KEYBOARD") # {} THEN "USB_HID_KEYBOARD"
  ELSE IF HasNfc THEN "BUILTIN_NFC" ELSE "NONE"
\* evaluateAndActivate's order: once every plug and unplug is handled the
\* manager is in the mode of the best reader, or the NFC is paused.
PriorityFollowed ==
  app = "shown" /\ ~BroadcastsWait =>
    mode = Preferred \/ (mode = "NONE" /\ Preferred = "BUILTIN_NFC")

Serving ==
  \/ mode \in {"BUILTIN_NFC", "USB_HID_KEYBOARD"}
  \/ \E k \in Streaming : held[k] # NoSlot /\ threads[held[k]].phase \in {"idle", "busy"}
\* As long as the app is shown, the camera is off and no permission is waited
\* for, some reader reads again and again - unless a reload of the page has cut
\* off the call that turns the built-in NFC on again after the camera.
ReaderReturns ==
  []<>(Serving \/ app # "shown" \/ scanning \/ cutOff \/ ~HasNfc
       \/ \E k \in Streaming : Waiting(k))

===============================================================================
