-------------------------- MODULE CardReaders_proofs --------------------------
(***************************************************************************)
(* Theorems about CardReaders for any devices, any number of polling       *)
(* threads and messages. The manager's methods are functions of its state, *)
(* so the lemmas follow the methods, from the inner ones to the handlers,  *)
(* and the steps of the system only plug them together.                    *)
(***************************************************************************)
EXTENDS CardReaders, SequenceTheorems, TLAPS

\* The manager's state.
ManagerType ==
  [app : {"shown", "hidden", "dead"}, mode : Modes,
   held : [Streaming -> Slots \cup {NoSlot}],
   threads : [Slots -> Thread \cup {NoThread}],
   pending : Devices \cup {NoDevice}, lastHid : Devices \cup {NoDevice},
   nfc : BOOLEAN, watchdog : BOOLEAN,
   dialogs : SUBSET Devices, notes : Seq(Modes)]

\* A session that is held has an open thread of its kind.
HeldFits(g) ==
  \A k \in Streaming : g.held[k] # NoSlot =>
    /\ g.threads[g.held[k]] \in Thread
    /\ g.threads[g.held[k]].kind = k /\ g.threads[g.held[k]].open

WatchFits(g) == g.watchdog <=> g.held["VENDOR"] # NoSlot

\* What NfcAlone leaves of the built-in NFC in the middle of a handler, after
\* the mode has been reset.
NfcFits(g) ==
  /\ g.mode = "BUILTIN_NFC" => g.nfc
  /\ g.nfc => /\ g.mode \in {"BUILTIN_NFC", "NONE"} /\ HasNfc
              /\ \A k \in Streaming : g.held[k] = NoSlot

\* A device that permission was asked for has been plugged in, and while it is
\* in, the built-in NFC is not the best reader.
PendingFits(g) ==
  g.pending # NoDevice =>
    /\ usb[g.pending] # "out" /\ Kind(g.pending) \in Streaming
    /\ IsIn(g.pending) => g.mode # "BUILTIN_NFC"

Fits(g) == g \in ManagerType /\ HeldFits(g) /\ WatchFits(g) /\ NfcFits(g)
InHandler(g) == Fits(g) /\ PendingFits(g)
\* Between two messages.
NfcOff(g) == g.nfc => g.mode = "BUILTIN_NFC"
AtRest(g) == InHandler(g) /\ NfcOff(g)

\* What a method that ends with evaluateAndActivate does to g.
Chosen(g, o) ==
  /\ AtRest(o)
  /\ o.app = "dead" \/ (o.app = g.app /\ o.mode = Preferred)

-------------------------------------------------------------------------------
(* The methods.                                                            *)

\* The modes of the kinds, and the two kinds that have sessions.
LEMMA KindFacts ==
  /\ Streaming = {"CCID", "VENDOR"}
  /\ ModeOf("CCID") = "USB_CCID" /\ ModeOf("VENDOR") = "USB_VENDOR_HID_NFC"
  /\ ModeOf("KEYBOARD") = "USB_HID_KEYBOARD"
  /\ \A k \in Streaming : ModeOf(k) \in Modes \ {"NONE", "BUILTIN_NFC"}
  BY DEF Streaming, ModeOf, Modes

\* A thread whose connection is closed is a thread or gone.
LEMMA ClosedType ==
  ASSUME NEW t \in Thread
  PROVE  Closed(t) \in Thread \cup {NoThread}
  BY DEF Closed, Thread

\* stopCcidSession and stopVendorHidSession change nothing but their session.
LEMMA StopKeeps ==
  ASSUME NEW k \in Streaming, NEW g, InHandler(g)
  PROVE  /\ InHandler(Stop(k, g))
         /\ Stop(k, g).app = g.app /\ Stop(k, g).mode = g.mode
         /\ Stop(k, g).nfc = g.nfc /\ Stop(k, g).pending = g.pending
         /\ Stop(k, g).held[k] = NoSlot
         /\ \A j \in Streaming \ {k} : Stop(k, g).held[j] = g.held[j]
<1> DEFINE o == Stop(k, g)
           th == [s \in Slots |-> IF s = g.held[k] THEN Closed(g.threads[s]) ELSE g.threads[s]]
           he == [g.held EXCEPT ![k] = NoSlot]
<1>1. g \in ManagerType /\ HeldFits(g) /\ WatchFits(g) /\ NfcFits(g) /\ PendingFits(g)
  BY DEF InHandler, Fits
<1>2. o = [g EXCEPT !.threads = th, !.held = he, !.watchdog = @ /\ k # "VENDOR"]
  BY <1>1 DEF Stop, ManagerType
<1>3. /\ o.app = g.app /\ o.mode = g.mode /\ o.nfc = g.nfc /\ o.pending = g.pending
      /\ o.threads = th /\ o.held = he /\ o.lastHid = g.lastHid
      /\ o.watchdog = (g.watchdog /\ k # "VENDOR")
  BY <1>1, <1>2 DEF ManagerType
<1>4. he \in [Streaming -> Slots \cup {NoSlot}]
  BY <1>1 DEF ManagerType
<1>5. th \in [Slots -> Thread \cup {NoThread}]
  <2> SUFFICES ASSUME NEW s \in Slots
               PROVE  th[s] \in Thread \cup {NoThread}
    OBVIOUS
  <2>1. CASE s = g.held[k]
    <3>1. g.threads[s] \in Thread
      BY <1>1, <2>1, ReaderAssumption DEF HeldFits
    <3> QED BY <3>1, <2>1, ClosedType
  <2>2. CASE s # g.held[k]
    BY <1>1, <2>2 DEF ManagerType
  <2> QED BY <2>1, <2>2
<1>6. o \in ManagerType
  BY <1>1, <1>2, <1>4, <1>5 DEF ManagerType
<1>7. HeldFits(o)
  <2> SUFFICES ASSUME NEW j \in Streaming, o.held[j] # NoSlot
               PROVE  /\ o.threads[o.held[j]] \in Thread
                      /\ o.threads[o.held[j]].kind = j /\ o.threads[o.held[j]].open
    BY DEF HeldFits
  <2>1. j # k /\ o.held[j] = g.held[j] /\ g.held[j] \in Slots
    BY <1>1, <1>3, <1>4 DEF ManagerType
  <2>2. g.threads[g.held[j]] \in Thread /\ g.threads[g.held[j]].kind = j
        /\ g.threads[g.held[j]].open
    BY <1>1, <2>1 DEF HeldFits
  <2>3. g.held[j] # g.held[k]
    BY <1>1, <2>1, <2>2, ReaderAssumption DEF HeldFits
  <2>4. o.threads[g.held[j]] = g.threads[g.held[j]]
    BY <1>3, <2>1, <2>3
  <2> QED BY <2>1, <2>2, <2>4
<1>8. o.held[k] = NoSlot /\ \A j \in Streaming \ {k} : o.held[j] = g.held[j]
  BY <1>1, <1>3 DEF ManagerType
<1>9. WatchFits(o)
  BY <1>1, <1>3, <1>8, KindFacts DEF WatchFits
<1>10. NfcFits(o)
  BY <1>1, <1>3, <1>8 DEF NfcFits
<1>11. PendingFits(o)
  BY <1>1, <1>3 DEF PendingFits
<1> QED BY <1>3, <1>6, <1>7, <1>8, <1>9, <1>10, <1>11 DEF InHandler, Fits

\* An application that starts is at rest, and so is one that has died.
Started(a, D) ==
  [app |-> a, mode |-> "NONE", held |-> NoHeld, threads |-> [s \in Slots |-> NoThread],
   pending |-> NoDevice, lastHid |-> NoDevice, nfc |-> FALSE, watchdog |-> FALSE,
   dialogs |-> D, notes |-> << >>]

LEMMA StartedFits ==
  ASSUME NEW D \in SUBSET Devices, NEW a \in {"shown", "hidden", "dead"}
  PROVE  AtRest(Started(a, D)) /\ Started(a, D).app = a /\ Started(a, D).mode = "NONE"
<1> DEFINE g == Started(a, D)
<1>1. /\ g.app = a /\ g.mode = "NONE" /\ g.held = NoHeld /\ ~g.nfc /\ ~g.watchdog
      /\ g.pending = NoDevice
  BY DEF Started
<1>2. g \in ManagerType
  <2>1. NoHeld \in [Streaming -> Slots \cup {NoSlot}]
    BY DEF NoHeld
  <2>2. [s \in Slots |-> NoThread] \in [Slots -> Thread \cup {NoThread}]
    OBVIOUS
  <2>3. "NONE" \in Modes /\ << >> \in Seq(Modes)
    BY DEF Modes
  <2> QED BY <2>1, <2>2, <2>3 DEF ManagerType, Started
<1>3. \A k \in Streaming : g.held[k] = NoSlot
  BY <1>1 DEF NoHeld
<1>4. HeldFits(g) /\ WatchFits(g)
  BY <1>1, <1>3, KindFacts DEF HeldFits, WatchFits
<1>5. NfcFits(g) /\ PendingFits(g) /\ NfcOff(g)
  BY <1>1 DEF NfcFits, PendingFits, NfcOff
<1> QED BY <1>1, <1>2, <1>4, <1>5 DEF AtRest, InHandler, Fits

\* openCcidConnection and openVendorHidConnection hold a session of the
\* device's kind, or the process dies.
LEMMA OpenKeeps ==
  ASSUME NEW d \in Devices, Kind(d) \in Streaming, NEW g, InHandler(g), ~g.nfc,
         NEW o \in Open(d, g)
  PROVE  /\ AtRest(o)
         /\ o.app = "dead" \/ (o.app = g.app /\ o.mode = g.mode)
<1>1. g \in ManagerType /\ HeldFits(g) /\ WatchFits(g) /\ NfcFits(g) /\ PendingFits(g)
  BY DEF InHandler, Fits
<1>2. CASE usb[d] = "refusing"
  <2>1. o = Started("dead", g.dialogs)
    BY <1>2 DEF Open, Dead, Fresh, Started
  <2>2. g.dialogs \in SUBSET Devices
    BY <1>1 DEF ManagerType
  <2> QED BY <2>1, <2>2, StartedFits
<1>3. CASE usb[d] # "refusing"
  <2> DEFINE k == Kind(d)
             new == [kind |-> k, dev |-> d, open |-> TRUE, phase |-> "idle"]
  <2>1. PICK s \in Slots :
          /\ g.threads[s] = NoThread
          /\ o = Notify(ModeOf(k),
                  [g EXCEPT !.held = [g.held EXCEPT ![k] = s],
                            !.threads = [Replaced(k, g) EXCEPT ![s] = new],
                            !.watchdog = g.watchdog \/ k = "VENDOR"])
    BY <1>1, <1>3 DEF Open, ManagerType
  <2> DEFINE he == [g.held EXCEPT ![k] = s]
             th == [Replaced(k, g) EXCEPT ![s] = new]
  <2>2. new \in Thread
    BY DEF Thread
  <2>3. Replaced(k, g) \in [Slots -> Thread \cup {NoThread}]
    BY <1>1 DEF Replaced, ManagerType
  <2>4. th \in [Slots -> Thread \cup {NoThread}] /\ th[s] = new
    BY <2>2, <2>3
  <2>5. he \in [Streaming -> Slots \cup {NoSlot}] /\ he[k] = s
    BY <1>1 DEF ManagerType
  <2>6. Append(g.notes, ModeOf(k)) \in Seq(Modes)
    <3>1. g.notes \in Seq(Modes) /\ ModeOf(k) \in Modes
      BY <1>1, KindFacts DEF ManagerType
    <3> QED BY <3>1
  <2>7. o = [g EXCEPT !.held = he, !.threads = th, !.watchdog = g.watchdog \/ k = "VENDOR",
                      !.notes = Append(g.notes, ModeOf(k))]
    BY <1>1, <2>1 DEF Notify, ManagerType
  <2>8. /\ o.app = g.app /\ o.mode = g.mode /\ o.nfc = g.nfc /\ o.pending = g.pending
        /\ o.held = he /\ o.threads = th /\ o.watchdog = (g.watchdog \/ k = "VENDOR")
    BY <1>1, <2>7 DEF ManagerType
  <2>9. o \in ManagerType
    <3>1. (g.watchdog \/ k = "VENDOR") \in BOOLEAN
      OBVIOUS
    <3> QED BY <1>1, <2>7, <2>4, <2>5, <2>6, <3>1 DEF ManagerType
  <2>10. HeldFits(o)
    <3> SUFFICES ASSUME NEW j \in Streaming, o.held[j] # NoSlot
                 PROVE  /\ o.threads[o.held[j]] \in Thread
                        /\ o.threads[o.held[j]].kind = j /\ o.threads[o.held[j]].open
      BY DEF HeldFits
    <3>1. CASE j = k
      BY <3>1, <2>8, <2>4, <2>5, <2>2
    <3>2. CASE j # k
      <4>1. o.held[j] = g.held[j] /\ g.held[j] \in Slots
        BY <1>1, <2>8, <3>2 DEF ManagerType
      <4>2. g.threads[g.held[j]] \in Thread /\ g.threads[g.held[j]].kind = j
            /\ g.threads[g.held[j]].open
        BY <1>1, <4>1 DEF HeldFits
      <4>3. g.held[j] # s
        BY <4>2, <2>1, ThreadAssumption
      <4>4. g.held[j] # g.held[k]
        BY <1>1, <3>2, <4>1, <4>2, ReaderAssumption DEF HeldFits
      <4>5. th[g.held[j]] = g.threads[g.held[j]]
        BY <4>1, <4>3, <4>4 DEF Replaced
      <4> QED BY <4>1, <4>2, <4>5, <2>8
    <3> QED BY <3>1, <3>2
  <2>11. WatchFits(o)
    BY <1>1, <2>5, <2>8, ReaderAssumption, KindFacts DEF WatchFits, ManagerType
  <2>12. NfcFits(o) /\ NfcOff(o)
    BY <1>1, <2>8 DEF NfcFits, NfcOff
  <2>13. PendingFits(o)
    BY <1>1, <2>8 DEF PendingFits
  <2> QED BY <2>8, <2>9, <2>10, <2>11, <2>12, <2>13 DEF AtRest, InHandler, Fits
<1> QED BY <1>2, <1>3

\* The mode a handler has reset to NONE, or the forgotten last keyboard, leaves
\* the rest in order.
LEMMA ResetKeeps ==
  ASSUME NEW g, InHandler(g)
  PROVE  /\ InHandler([g EXCEPT !.mode = "NONE"])
         /\ InHandler([g EXCEPT !.lastHid = NoDevice])
         /\ InHandler([g EXCEPT !.pending = NoDevice])
<1>1. g \in ManagerType /\ HeldFits(g) /\ WatchFits(g) /\ NfcFits(g) /\ PendingFits(g)
  BY DEF InHandler, Fits
<1>2. InHandler([g EXCEPT !.mode = "NONE"])
  <2> DEFINE o == [g EXCEPT !.mode = "NONE"]
  <2>1. o \in ManagerType
    BY <1>1 DEF ManagerType, Modes
  <2>2. /\ o.mode = "NONE" /\ o.nfc = g.nfc /\ o.held = g.held /\ o.threads = g.threads
        /\ o.watchdog = g.watchdog /\ o.pending = g.pending
    BY <1>1 DEF ManagerType
  <2> HIDE DEF o
  <2>3. HeldFits(o) /\ WatchFits(o)
    BY <1>1, <2>2 DEF HeldFits, WatchFits
  <2>4. NfcFits(o) /\ PendingFits(o)
    BY <1>1, <2>2 DEF NfcFits, PendingFits
  <2> QED BY <2>1, <2>3, <2>4 DEF InHandler, Fits, o
<1>3. InHandler([g EXCEPT !.lastHid = NoDevice])
  <2> DEFINE o == [g EXCEPT !.lastHid = NoDevice]
  <2>1. o \in ManagerType
    BY <1>1 DEF ManagerType
  <2>2. /\ o.mode = g.mode /\ o.nfc = g.nfc /\ o.held = g.held /\ o.threads = g.threads
        /\ o.watchdog = g.watchdog /\ o.pending = g.pending
    BY <1>1 DEF ManagerType
  <2> HIDE DEF o
  <2>3. HeldFits(o) /\ WatchFits(o)
    BY <1>1, <2>2 DEF HeldFits, WatchFits
  <2>4. NfcFits(o) /\ PendingFits(o)
    BY <1>1, <2>2 DEF NfcFits, PendingFits
  <2> QED BY <2>1, <2>3, <2>4 DEF InHandler, Fits, o
<1>4. InHandler([g EXCEPT !.pending = NoDevice])
  <2> DEFINE o == [g EXCEPT !.pending = NoDevice]
  <2>1. o \in ManagerType
    BY <1>1 DEF ManagerType
  <2>2. /\ o.mode = g.mode /\ o.nfc = g.nfc /\ o.held = g.held /\ o.threads = g.threads
        /\ o.watchdog = g.watchdog /\ o.pending = NoDevice
    BY <1>1 DEF ManagerType
  <2> HIDE DEF o
  <2>3. HeldFits(o) /\ WatchFits(o)
    BY <1>1, <2>2 DEF HeldFits, WatchFits
  <2>4. NfcFits(o) /\ PendingFits(o)
    BY <1>1, <2>2 DEF NfcFits, PendingFits
  <2> QED BY <2>1, <2>3, <2>4 DEF InHandler, Fits, o
<1> QED BY <1>2, <1>3, <1>4

\* notifyModeChange
LEMMA NotifyKeeps ==
  ASSUME NEW m \in Modes, NEW g, InHandler(g)
  PROVE  /\ InHandler(Notify(m, g)) /\ Notify(m, g).app = g.app
         /\ Notify(m, g).mode = g.mode /\ Notify(m, g).nfc = g.nfc
<1> DEFINE o == Notify(m, g)
<1>1. g \in ManagerType /\ HeldFits(g) /\ WatchFits(g) /\ NfcFits(g) /\ PendingFits(g)
  BY DEF InHandler, Fits
<1>2. Append(g.notes, m) \in Seq(Modes)
  <2>1. g.notes \in Seq(Modes)
    BY <1>1 DEF ManagerType
  <2> QED BY <2>1
<1>3. o \in ManagerType
  BY <1>1, <1>2 DEF Notify, ManagerType
<1>4. /\ o.app = g.app /\ o.mode = g.mode /\ o.nfc = g.nfc /\ o.held = g.held
      /\ o.threads = g.threads /\ o.watchdog = g.watchdog /\ o.pending = g.pending
  BY <1>1 DEF Notify, ManagerType
<1>5. HeldFits(o) /\ WatchFits(o)
  BY <1>1, <1>4 DEF HeldFits, WatchFits
<1>6. NfcFits(o) /\ PendingFits(o)
  BY <1>1, <1>4 DEF NfcFits, PendingFits
<1> QED BY <1>3, <1>4, <1>5, <1>6 DEF InHandler, Fits

\* activateCcid and activateVendorHid take up the mode of the device.
LEMMA ActivateKeeps ==
  ASSUME NEW d \in Devices, Kind(d) \in Streaming, IsIn(d),
         NEW g, InHandler(g), NEW o \in Activate(d, g)
  PROVE  /\ AtRest(o)
         /\ o.app = "dead" \/ (o.app = g.app /\ o.mode = ModeOf(Kind(d)))
<1> DEFINE k == Kind(d)
           off == [g EXCEPT !.nfc = FALSE, !.mode = ModeOf(k)]
           ask == [off EXCEPT !.pending = d, !.dialogs = @ \cup {d}]
<1>1. g \in ManagerType /\ HeldFits(g) /\ WatchFits(g) /\ NfcFits(g) /\ PendingFits(g)
  BY DEF InHandler, Fits
<1>2. ModeOf(k) \in Modes \ {"NONE", "BUILTIN_NFC"}
  BY KindFacts
<1>3. off \in ManagerType
  BY <1>1, <1>2 DEF ManagerType
<1>4. /\ off.app = g.app /\ off.mode = ModeOf(k) /\ off.nfc = FALSE /\ off.held = g.held
      /\ off.threads = g.threads /\ off.watchdog = g.watchdog
      /\ off.pending = g.pending /\ off.dialogs = g.dialogs
  BY <1>1 DEF ManagerType
<1>5. CASE g.mode = ModeOf(k) /\ d \in {ActiveDevice(k, g), g.pending}
  <2>1. o = g
    BY <1>5 DEF Activate
  <2>2. NfcOff(g)
    BY <1>1, <1>2, <1>5 DEF NfcFits, NfcOff
  <2> QED BY <1>5, <2>1, <2>2 DEF AtRest
<1>6. CASE ~(g.mode = ModeOf(k) /\ d \in {ActiveDevice(k, g), g.pending}) /\ d \in permitted
  <2> HIDE DEF off
  <2>1. o \in Open(d, off)
    BY <1>6 DEF Activate, off
  <2>2. HeldFits(off) /\ WatchFits(off)
    BY <1>1, <1>4 DEF HeldFits, WatchFits
  <2>3. NfcFits(off) /\ PendingFits(off)
    BY <1>1, <1>2, <1>4 DEF NfcFits, PendingFits
  <2>4. InHandler(off) /\ ~off.nfc
    BY <1>3, <1>4, <2>2, <2>3 DEF InHandler, Fits
  <2> QED BY <1>4, <2>1, <2>4, OpenKeeps
<1>7. CASE ~(g.mode = ModeOf(k) /\ d \in {ActiveDevice(k, g), g.pending}) /\ d \notin permitted
  <2>1. o = ask
    BY <1>7 DEF Activate
  <2> HIDE DEF off
  <2>2. /\ ask.app = off.app /\ ask.mode = off.mode /\ ask.nfc = off.nfc
        /\ ask.held = off.held /\ ask.threads = off.threads
        /\ ask.watchdog = off.watchdog /\ ask.pending = d
    BY <1>3 DEF ManagerType
  <2>3. ask \in ManagerType
    <3>1. off.dialogs \cup {d} \in SUBSET Devices
      BY <1>3 DEF ManagerType
    <3> QED BY <1>3, <3>1 DEF ManagerType
  <2> HIDE DEF ask
  <2>4. HeldFits(ask) /\ WatchFits(ask)
    BY <1>1, <1>4, <2>2 DEF HeldFits, WatchFits
  <2>5. NfcFits(ask) /\ NfcOff(ask)
    BY <1>2, <1>4, <2>2 DEF NfcFits, NfcOff
  <2>6. PendingFits(ask)
    BY <1>2, <1>4, <2>2 DEF PendingFits, IsIn
  <2> QED BY <1>4, <2>1, <2>2, <2>3, <2>4, <2>5, <2>6 DEF AtRest, InHandler, Fits, k
<1> QED BY <1>5, <1>6, <1>7

\* activateHidPassive
LEMMA ActivateHidPassiveKeeps ==
  ASSUME NEW d \in Devices, NEW g, InHandler(g)
  PROVE  /\ AtRest(ActivateHidPassive(d, g))
         /\ ActivateHidPassive(d, g).app = g.app
         /\ ActivateHidPassive(d, g).mode = "USB_HID_KEYBOARD"
<1> DEFINE off == [g EXCEPT !.nfc = FALSE, !.mode = "USB_HID_KEYBOARD", !.lastHid = d]
           o == ActivateHidPassive(d, g)
<1>1. g \in ManagerType /\ HeldFits(g) /\ WatchFits(g) /\ NfcFits(g) /\ PendingFits(g)
  BY DEF InHandler, Fits
<1>2. CASE g.mode = "USB_HID_KEYBOARD" /\ g.lastHid = d
  <2>1. o = g
    BY <1>2 DEF ActivateHidPassive
  <2>2. NfcOff(g)
    BY <1>1, <1>2 DEF NfcFits, NfcOff
  <2> QED BY <1>2, <2>1, <2>2 DEF AtRest
<1>3. CASE ~(g.mode = "USB_HID_KEYBOARD" /\ g.lastHid = d)
  <2>1. "USB_HID_KEYBOARD" \in Modes
    BY DEF Modes
  <2>2. off \in ManagerType
    BY <1>1, <2>1 DEF ManagerType
  <2>3. /\ off.app = g.app /\ off.mode = "USB_HID_KEYBOARD" /\ off.nfc = FALSE
        /\ off.held = g.held /\ off.threads = g.threads /\ off.watchdog = g.watchdog
        /\ off.pending = g.pending
    BY <1>1 DEF ManagerType
  <2>4. o = Notify("USB_HID_KEYBOARD", off)
    BY <1>3 DEF ActivateHidPassive
  <2> HIDE DEF off, o
  <2>5. HeldFits(off) /\ WatchFits(off)
    BY <1>1, <2>3 DEF HeldFits, WatchFits
  <2>6. NfcFits(off) /\ PendingFits(off)
    BY <1>1, <2>3 DEF NfcFits, PendingFits
  <2>7. InHandler(off)
    BY <2>2, <2>5, <2>6 DEF InHandler, Fits
  <2>8. InHandler(o) /\ o.app = off.app /\ o.mode = off.mode /\ o.nfc = off.nfc
    BY <2>1, <2>4, <2>7, NotifyKeeps
  <2> QED BY <2>3, <2>8 DEF AtRest, NfcOff, o
<1> QED BY <1>2, <1>3

\* activateBuiltinNfc, when no USB device that could be asked for is there and
\* no session is held.
LEMMA ActivateBuiltinNfcKeeps ==
  ASSUME NEW g, InHandler(g), HasNfc,
         \A k \in Streaming : g.held[k] = NoSlot /\ Plugged(k) = {}
  PROVE  /\ AtRest(ActivateBuiltinNfc(g))
         /\ ActivateBuiltinNfc(g).app = g.app
         /\ ActivateBuiltinNfc(g).mode = "BUILTIN_NFC"
<1> DEFINE on == [g EXCEPT !.nfc = TRUE, !.mode = "BUILTIN_NFC"]
           o == ActivateBuiltinNfc(g)
<1>1. g \in ManagerType /\ HeldFits(g) /\ WatchFits(g) /\ NfcFits(g) /\ PendingFits(g)
  BY DEF InHandler, Fits
<1>2. CASE g.mode = "BUILTIN_NFC"
  BY <1>2 DEF ActivateBuiltinNfc, AtRest, NfcOff
<1>3. CASE g.mode # "BUILTIN_NFC"
  <2>1. "BUILTIN_NFC" \in Modes
    BY DEF Modes
  <2>2. on \in ManagerType
    BY <1>1, <2>1 DEF ManagerType
  <2>3. /\ on.app = g.app /\ on.mode = "BUILTIN_NFC" /\ on.nfc = TRUE
        /\ on.held = g.held /\ on.threads = g.threads /\ on.watchdog = g.watchdog
        /\ on.pending = g.pending
    BY <1>1 DEF ManagerType
  <2>4. o = Notify("BUILTIN_NFC", on)
    BY <1>3 DEF ActivateBuiltinNfc
  <2> HIDE DEF on, o
  <2>5. HeldFits(on) /\ WatchFits(on)
    BY <1>1, <2>3 DEF HeldFits, WatchFits
  <2>6. NfcFits(on)
    BY <2>3 DEF NfcFits
  <2>7. PendingFits(on)
    <3>1. g.pending # NoDevice => ~IsIn(g.pending)
      BY <1>1 DEF PendingFits, Plugged, ManagerType
    <3> QED BY <1>1, <2>3, <3>1 DEF PendingFits
  <2>8. InHandler(on)
    BY <2>2, <2>5, <2>6, <2>7 DEF InHandler, Fits
  <2>9. InHandler(o) /\ o.app = on.app /\ o.mode = on.mode
    BY <2>1, <2>4, <2>8, NotifyKeeps
  <2> QED BY <2>3, <2>9 DEF AtRest, NfcOff, o
<1> QED BY <1>2, <1>3

\* emitNoReaderError
LEMMA EmitNoReaderErrorKeeps ==
  ASSUME NEW g, InHandler(g), ~HasNfc
  PROVE  /\ AtRest(EmitNoReaderError(g))
         /\ EmitNoReaderError(g).app = g.app /\ EmitNoReaderError(g).mode = "NONE"
<1> DEFINE none == [g EXCEPT !.mode = "NONE"]
           o == EmitNoReaderError(g)
<1>1. g \in ManagerType /\ NfcFits(g)
  BY DEF InHandler, Fits
<1>2. none.app = g.app /\ none.mode = "NONE" /\ none.nfc = g.nfc
  BY <1>1 DEF ManagerType
<1>3. InHandler(none)
  BY ResetKeeps
<1>4. o = Notify("NONE", none) /\ "NONE" \in Modes
  BY DEF EmitNoReaderError, Modes
<1> HIDE DEF none, o
<1>5. InHandler(o) /\ o.app = none.app /\ o.mode = none.mode /\ o.nfc = none.nfc
  BY <1>3, <1>4, NotifyKeeps
<1>6. NfcOff(o)
  BY <1>1, <1>2, <1>5 DEF NfcFits, NfcOff
<1> QED BY <1>2, <1>5, <1>6 DEF AtRest, o

\* evaluateAndActivate chooses the preferred reader.
LEMMA EvaluateChooses ==
  ASSUME NEW g, InHandler(g), NEW o \in EvaluateAndActivate(g)
  PROVE  Chosen(g, o)
<1> DEFINE noVendor == Stop("VENDOR", g)
           noCcid == Stop("CCID", g)
           noUsb == Stop("VENDOR", noCcid)
           noHid == [noUsb EXCEPT !.lastHid = NoDevice]
<1>1. InHandler(noVendor) /\ noVendor.app = g.app
  BY StopKeeps, KindFacts
<1>2. InHandler(noCcid) /\ noCcid.app = g.app /\ noCcid.held["CCID"] = NoSlot
  BY StopKeeps, KindFacts
<1> HIDE DEF noVendor, noCcid
<1>3. /\ InHandler(noUsb) /\ noUsb.app = g.app
      /\ \A k \in Streaming : noUsb.held[k] = NoSlot
  BY <1>2, StopKeeps, KindFacts
<1> HIDE DEF noUsb
<1>4. CASE Plugged("CCID") # {}
  <2>1. PICK d \in Plugged("CCID") : o \in Activate(d, noVendor)
    BY <1>4 DEF EvaluateAndActivate, noVendor
  <2>2. d \in Devices /\ Kind(d) = "CCID" /\ IsIn(d)
    BY DEF Plugged
  <2>3. Preferred = ModeOf(Kind(d))
    BY <1>4, <2>2, KindFacts DEF Preferred
  <2> QED BY <1>1, <2>1, <2>2, <2>3, ActivateKeeps, KindFacts DEF Chosen
<1>5. CASE Plugged("CCID") = {} /\ Plugged("VENDOR") # {}
  <2>1. PICK d \in Plugged("VENDOR") : o \in Activate(d, noCcid)
    BY <1>5 DEF EvaluateAndActivate, noCcid
  <2>2. d \in Devices /\ Kind(d) = "VENDOR" /\ IsIn(d)
    BY DEF Plugged
  <2>3. Preferred = ModeOf(Kind(d))
    BY <1>5, <2>2, KindFacts DEF Preferred
  <2> QED BY <1>2, <2>1, <2>2, <2>3, ActivateKeeps, KindFacts DEF Chosen
<1>6. CASE Plugged("CCID") = {} /\ Plugged("VENDOR") = {} /\ Plugged("KEYBOARD") # {}
  <2>1. PICK d \in Plugged("KEYBOARD") : o = ActivateHidPassive(d, noUsb)
    BY <1>6 DEF EvaluateAndActivate, noUsb, noCcid
  <2>2. d \in Devices
    BY DEF Plugged
  <2>3. Preferred = "USB_HID_KEYBOARD"
    BY <1>6 DEF Preferred
  <2> QED BY <1>3, <2>1, <2>2, <2>3, ActivateHidPassiveKeeps DEF Chosen
<1>7. CASE Plugged("CCID") = {} /\ Plugged("VENDOR") = {} /\ Plugged("KEYBOARD") = {}
  <2>1. InHandler(noHid)
    BY <1>3, ResetKeeps
  <2>2. noHid.app = g.app /\ noHid.held = noUsb.held
    BY <1>3 DEF InHandler, Fits, ManagerType
  <2>3. CASE HasNfc
    <3>1. o = ActivateBuiltinNfc(noHid)
      BY <1>7, <2>3 DEF EvaluateAndActivate, noUsb, noCcid
    <3>2. Preferred = "BUILTIN_NFC"
      BY <1>7, <2>3 DEF Preferred
    <3> HIDE DEF noHid
    <3>3. \A k \in Streaming : noHid.held[k] = NoSlot /\ Plugged(k) = {}
      BY <1>3, <1>7, <2>2, KindFacts
    <3> QED BY <2>1, <2>2, <2>3, <3>1, <3>2, <3>3, ActivateBuiltinNfcKeeps DEF Chosen
  <2>4. CASE ~HasNfc
    <3>1. o = EmitNoReaderError(noHid)
      BY <1>7, <2>4 DEF EvaluateAndActivate, noUsb, noCcid
    <3>2. Preferred = "NONE"
      BY <1>7, <2>4 DEF Preferred
    <3> HIDE DEF noHid
    <3> QED BY <2>1, <2>2, <2>4, <3>1, <3>2, EmitNoReaderErrorKeeps DEF Chosen
  <2> QED BY <2>3, <2>4
<1> QED BY <1>4, <1>5, <1>6, <1>7

\* "currentMode = NONE; evaluateAndActivate()"
LEMMA StartOverChooses ==
  ASSUME NEW g, InHandler(g), NEW o \in StartOver(g)
  PROVE  Chosen(g, o)
<1>1. InHandler([g EXCEPT !.mode = "NONE"])
  BY ResetKeeps
<1>2. [g EXCEPT !.mode = "NONE"].app = g.app
  BY DEF InHandler, Fits, ManagerType
<1> QED BY <1>1, <1>2, EvaluateChooses DEF StartOver, Chosen

\* onUsbDetached
LEMMA DetachedChooses ==
  ASSUME NEW d \in Devices, NEW g, InHandler(g), NEW o \in OnUsbDetached(d, g)
  PROVE  Chosen(g, o)
<1>1. \A k \in Streaming : InHandler(Stop(k, g)) /\ Stop(k, g).app = g.app
  BY StopKeeps
<1>2. CASE d = ActiveDevice("CCID", g)
  BY <1>1, <1>2, StartOverChooses, KindFacts DEF OnUsbDetached, Chosen
<1>3. CASE d # ActiveDevice("CCID", g) /\ d = ActiveDevice("VENDOR", g)
  BY <1>1, <1>3, StartOverChooses, KindFacts DEF OnUsbDetached, Chosen
<1>4. CASE d # ActiveDevice("CCID", g) /\ d # ActiveDevice("VENDOR", g) /\ d = g.lastHid
  <2>1. InHandler([g EXCEPT !.lastHid = NoDevice])
    BY ResetKeeps
  <2>2. [g EXCEPT !.lastHid = NoDevice].app = g.app
    BY DEF InHandler, Fits, ManagerType
  <2>3. o \in StartOver([g EXCEPT !.lastHid = NoDevice])
    BY <1>4 DEF OnUsbDetached
  <2> QED BY <2>1, <2>2, <2>3, StartOverChooses DEF Chosen
<1>5. CASE d # ActiveDevice("CCID", g) /\ d # ActiveDevice("VENDOR", g) /\ d # g.lastHid
  BY <1>5, EvaluateChooses DEF OnUsbDetached
<1> QED BY <1>2, <1>3, <1>4, <1>5

\* onSessionFailed and the watchdog
LEMMA FailedChooses ==
  ASSUME NEW k \in Streaming, NEW g, InHandler(g), NEW o \in StartOver(Stop(k, g))
  PROVE  Chosen(g, o)
<1>1. InHandler(Stop(k, g)) /\ Stop(k, g).app = g.app
  BY StopKeeps
<1> QED BY <1>1, StartOverChooses DEF Chosen

\* onUsbPermissionResult leaves the mode as it is or chooses again.
LEMMA PermissionKeeps ==
  ASSUME NEW d \in Devices, NEW granted \in BOOLEAN, NEW g, AtRest(g),
         NEW o \in OnUsbPermissionResult(d, granted, g)
  PROVE  /\ AtRest(o)
         /\ o.app = "dead" \/ (o.app = g.app /\ o.mode \in {g.mode, Preferred})
<1> DEFINE answered == [g EXCEPT !.pending = NoDevice]
<1>1. g \in ManagerType /\ NfcFits(g) /\ PendingFits(g) /\ InHandler(g) /\ NfcOff(g)
  BY DEF AtRest, InHandler, Fits
<1>2. answered.app = g.app /\ answered.mode = g.mode /\ answered.nfc = g.nfc
  BY <1>1 DEF ManagerType
<1>3. InHandler(answered)
  BY <1>1, ResetKeeps
<1>4. CASE d # g.pending
  BY <1>4 DEF OnUsbPermissionResult
<1>5. CASE d = g.pending /\ granted /\ IsIn(d)
  <2>1. o \in Open(d, answered)
    BY <1>5 DEF OnUsbPermissionResult
  <2> HIDE DEF answered
  <2>2. d # NoDevice
    BY ReaderAssumption
  <2>3. Kind(d) \in Streaming /\ ~answered.nfc
    BY <1>1, <1>2, <1>5, <2>2 DEF PendingFits, NfcOff
  <2> QED BY <1>2, <1>3, <2>1, <2>3, OpenKeeps
<1>6. CASE d = g.pending /\ ~(granted /\ IsIn(d))
  <2>1. o \in StartOver(answered)
    BY <1>6 DEF OnUsbPermissionResult
  <2> HIDE DEF answered
  <2> QED BY <1>2, <1>3, <2>1, StartOverChooses DEF Chosen
<1> QED BY <1>4, <1>5, <1>6

\* pauseBuiltinNfcForCamera turns the built-in NFC off and nothing else.
LEMMA PauseKeeps ==
  ASSUME NEW g, AtRest(g)
  PROVE  LET o == PauseBuiltinNfcForCamera(g)
         IN  AtRest(o) /\ o.app = g.app
             /\ o.mode = IF g.mode = "BUILTIN_NFC" THEN "NONE" ELSE g.mode
<1> DEFINE none == [g EXCEPT !.mode = "NONE"]
           off == [g EXCEPT !.nfc = FALSE, !.mode = "NONE"]
           o == PauseBuiltinNfcForCamera(g)
<1>1. g \in ManagerType /\ HeldFits(g) /\ WatchFits(g) /\ NfcFits(g) /\ PendingFits(g)
  BY DEF AtRest, InHandler, Fits
<1>2. CASE g.mode = "BUILTIN_NFC"
  <2>1. "NONE" \in Modes
    BY DEF Modes
  <2>2. off \in ManagerType
    BY <1>1, <2>1 DEF ManagerType
  <2>3. /\ off.app = g.app /\ off.mode = "NONE" /\ off.nfc = FALSE
        /\ off.held = g.held /\ off.threads = g.threads /\ off.watchdog = g.watchdog
        /\ off.pending = g.pending
    BY <1>1 DEF ManagerType
  <2>4. o = Notify("NONE", off)
    BY <1>2 DEF PauseBuiltinNfcForCamera
  <2> HIDE DEF off, o
  <2>5. HeldFits(off) /\ WatchFits(off)
    BY <1>1, <2>3 DEF HeldFits, WatchFits
  <2>6. NfcFits(off) /\ PendingFits(off)
    BY <1>1, <2>3 DEF NfcFits, PendingFits
  <2>7. InHandler(off)
    BY <2>2, <2>5, <2>6 DEF InHandler, Fits
  <2>8. InHandler(o) /\ o.app = off.app /\ o.mode = off.mode /\ o.nfc = off.nfc
    BY <2>1, <2>4, <2>7, NotifyKeeps
  <2> QED BY <1>2, <2>3, <2>8 DEF AtRest, NfcOff, o
<1>3. CASE g.mode # "BUILTIN_NFC"
  BY <1>3 DEF PauseBuiltinNfcForCamera
<1> QED BY <1>2, <1>3

\* onPause of the manager ends every session.
LEMMA OnPauseKeeps ==
  ASSUME NEW g, AtRest(g)
  PROVE  AtRest(OnPause(g)) /\ OnPause(g).app = "hidden"
<1> DEFINE noCcid == Stop("CCID", g)
           noUsb == Stop("VENDOR", noCcid)
           o == [noUsb EXCEPT !.nfc = FALSE, !.mode = "NONE", !.app = "hidden"]
<1>1. InHandler(noCcid)
  BY StopKeeps, KindFacts DEF AtRest
<1> HIDE DEF noCcid
<1>2. InHandler(noUsb)
  BY <1>1, StopKeeps, KindFacts
<1>3. OnPause(g) = o
  BY DEF OnPause, noCcid
<1> HIDE DEF noUsb
<1>4. noUsb \in ManagerType /\ HeldFits(noUsb) /\ WatchFits(noUsb) /\ PendingFits(noUsb)
  BY <1>2 DEF InHandler, Fits
<1>5. o \in ManagerType
  <2>1. "NONE" \in Modes
    BY DEF Modes
  <2> QED BY <1>4, <2>1 DEF ManagerType
<1>6. /\ o.app = "hidden" /\ o.mode = "NONE" /\ o.nfc = FALSE /\ o.held = noUsb.held
      /\ o.threads = noUsb.threads /\ o.watchdog = noUsb.watchdog
      /\ o.pending = noUsb.pending
  BY <1>4 DEF ManagerType
<1> HIDE DEF o
<1>7. HeldFits(o) /\ WatchFits(o)
  BY <1>4, <1>6 DEF HeldFits, WatchFits
<1>8. NfcFits(o) /\ PendingFits(o) /\ NfcOff(o)
  BY <1>4, <1>6 DEF NfcFits, PendingFits, NfcOff
<1> QED BY <1>3, <1>5, <1>6, <1>7, <1>8 DEF AtRest, InHandler, Fits

-------------------------------------------------------------------------------
(* The queue.                                                              *)

Waits(q) == \E i \in 1..Len(q) : q[i].type \in {"attached", "detached"}

\* What the messages of each type carry.
LEMMA MessageFacts ==
  ASSUME NEW m \in Message
  PROVE  /\ m.type \in {"attached", "pause", "reenable", "dropped", "detached",
                        "permission", "failed"}
         /\ m.type = "detached" => m.dev \in Devices
         /\ m.type = "permission" => m.dev \in Devices /\ m.granted \in BOOLEAN
         /\ m.type = "failed" => m.kind \in Streaming
  BY DEF Message

\* Messages that may be posted.
LEMMA PostedTypes ==
  /\ \A t \in {"attached", "pause", "reenable", "dropped"} : [type |-> t] \in Message
  /\ \A d \in Devices : [type |-> "detached", dev |-> d] \in Message
  /\ \A d \in Devices, b \in BOOLEAN :
       [type |-> "permission", dev |-> d, granted |-> b] \in Message
  /\ \A k \in Streaming : [type |-> "failed", kind |-> k] \in Message
  BY DEF Message

\* A plug or unplug that waits is still waiting when another message has been
\* posted or handled.
LEMMA WaitsOn ==
  ASSUME NEW q \in Seq(Message), NEW m \in Message
  PROVE  /\ Append(q, m) \in Seq(Message)
         /\ Waits(q) => Waits(Append(q, m))
         /\ m.type \in {"attached", "detached"} => Waits(Append(q, m))
         /\ q # << >> => /\ Head(q) \in Message /\ Tail(q) \in Seq(Message)
                         /\ Waits(q) /\ Head(q).type \notin {"attached", "detached"}
                              => Waits(Tail(q))
<1>1. Append(q, m) \in Seq(Message) /\ Len(Append(q, m)) = Len(q) + 1
  OBVIOUS
<1>2. Waits(q) => Waits(Append(q, m))
  <2> SUFFICES ASSUME NEW i \in 1..Len(q), q[i].type \in {"attached", "detached"}
               PROVE  Waits(Append(q, m))
    BY DEF Waits
  <2>1. Append(q, m)[i] = q[i] /\ i \in 1..Len(Append(q, m))
    BY <1>1
  <2> QED BY <2>1 DEF Waits
<1>3. m.type \in {"attached", "detached"} => Waits(Append(q, m))
  <2>1. Append(q, m)[Len(q) + 1] = m /\ Len(q) + 1 \in 1..Len(Append(q, m))
    BY <1>1
  <2> QED BY <2>1 DEF Waits
<1>4. ASSUME q # << >>
      PROVE  /\ Head(q) \in Message /\ Tail(q) \in Seq(Message)
             /\ Waits(q) /\ Head(q).type \notin {"attached", "detached"} => Waits(Tail(q))
  <2>1. /\ Head(q) \in Message /\ Tail(q) \in Seq(Message)
        /\ Len(Tail(q)) = Len(q) - 1 /\ Head(q) = q[1]
    BY <1>4
  <2>2. ASSUME NEW i \in 1..Len(q), q[i].type \in {"attached", "detached"},
               Head(q).type \notin {"attached", "detached"}
        PROVE  Waits(Tail(q))
    <3>1. i # 1
      BY <2>1, <2>2
    <3>2. i - 1 \in 1..Len(Tail(q))
      BY <2>1, <3>1
    <3>3. Tail(q)[i - 1] = q[i]
      BY <2>1, <3>1, <1>4
    <3> QED BY <2>2, <3>2, <3>3 DEF Waits
  <2> QED BY <2>1, <2>2 DEF Waits
<1> QED BY <1>1, <1>2, <1>3, <1>4

\* Broadcasts that are dropped leave messages.
LEMMA DroppedType ==
  ASSUME NEW q \in Seq(Message)
  PROVE  [i \in DOMAIN q |-> Dropped(q[i])] \in Seq(Message)
<1>1. DOMAIN q = 1..Len(q) /\ Len(q) \in Nat
  OBVIOUS
<1>2. \A i \in DOMAIN q : Dropped(q[i]) \in Message
  <2> SUFFICES ASSUME NEW i \in DOMAIN q
               PROVE  Dropped(q[i]) \in Message
    OBVIOUS
  <2>1. q[i] \in Message
    BY <1>1
  <2>2. [type |-> "dropped"] \in Message
    BY PostedTypes
  <2> QED BY <2>1, <2>2 DEF Dropped
<1>3. [i \in DOMAIN q |-> Dropped(q[i])] \in [1..Len(q) -> Message]
  BY <1>1, <1>2
<1> QED BY <1>1, <1>3, SeqDef

-------------------------------------------------------------------------------
(* The system.                                                             *)

RestType ==
  /\ usb \in [Devices -> {"out", "in", "refusing", "gone"}]
  /\ permitted \subseteq Devices /\ queue \in Seq(Message)
  /\ ready \in BOOLEAN /\ shown \in Modes \cup {"UNKNOWN"}
  /\ scanning \in BOOLEAN /\ timers \in 0..MaxTimers /\ cutOff \in BOOLEAN

Inv == AtRest(State) /\ RestType /\ PriorityFollowed

\* The manager's state between two messages has the types of its parts.
LEMMA StateFacts ==
  /\ State.app = app /\ State.mode = mode /\ State.held = held
  /\ State.threads = threads /\ State.pending = pending /\ State.nfc = nfc
  /\ State.watchdog = watchdog /\ State.dialogs = dialogs /\ State.notes = notes
  /\ State.lastHid = lastHid
  /\ State \in ManagerType <=>
       /\ app \in {"shown", "hidden", "dead"} /\ mode \in Modes
       /\ held \in [Streaming -> Slots \cup {NoSlot}]
       /\ threads \in [Slots -> Thread \cup {NoThread}]
       /\ pending \in Devices \cup {NoDevice} /\ lastHid \in Devices \cup {NoDevice}
       /\ nfc \in BOOLEAN /\ watchdog \in BOOLEAN
       /\ dialogs \in SUBSET Devices /\ notes \in Seq(Modes)
  BY DEF State, ManagerType

\* After a method the manager's state is one of the method's results.
LEMMA BecomeKeeps ==
  ASSUME NEW outcomes, NEW rest \in Seq(Message), RestType, UNCHANGED outside,
         \A o \in outcomes : AtRest(o), Become(outcomes, rest)
  PROVE  /\ AtRest(State)' /\ RestType'
         /\ Preferred' = Preferred
         /\ \E o \in outcomes : app' = o.app /\ mode' = o.mode
                                /\ (o.app = "dead" \/ queue' = rest)
<1>1. PICK g \in outcomes :
        /\ app' = g.app /\ mode' = g.mode /\ held' = g.held /\ threads' = g.threads
        /\ pending' = g.pending /\ lastHid' = g.lastHid /\ nfc' = g.nfc
        /\ watchdog' = g.watchdog /\ dialogs' = g.dialogs /\ notes' = g.notes
        /\ cutOff' = (cutOff /\ g.app # "dead" /\ (g.mode = "NONE" \/ PauseIn(rest)))
        /\ IF g.app = "dead"
           THEN /\ queue' = << >> /\ ready' = FALSE /\ shown' = "UNKNOWN"
                /\ scanning' = FALSE /\ timers' = 0
           ELSE queue' = rest /\ UNCHANGED page
  BY DEF Become
<1>2. usb' = usb /\ permitted' = permitted
  BY DEF outside
<1>3. AtRest(g)
  OBVIOUS
<1>4. State' = g
  BY <1>1, <1>3 DEF AtRest, InHandler, Fits, ManagerType, State
<1>5. AtRest(State)'
  BY <1>2, <1>3, <1>4 DEF AtRest, InHandler, Fits, HeldFits, WatchFits, NfcFits,
                          PendingFits, NfcOff, IsIn
<1>6. RestType'
  <2>1. cutOff' \in BOOLEAN
    BY <1>1 DEF RestType
  <2>2. /\ queue' \in Seq(Message) /\ ready' \in BOOLEAN /\ shown' \in Modes \cup {"UNKNOWN"}
        /\ scanning' \in BOOLEAN /\ timers' \in 0..MaxTimers
    <3>1. CASE g.app = "dead"
      <4>1. << >> \in Seq(Message) /\ 0 \in 0..MaxTimers
        BY ReaderAssumption
      <4>2. /\ queue' = << >> /\ ready' = FALSE /\ shown' = "UNKNOWN"
            /\ scanning' = FALSE /\ timers' = 0
        BY <1>1, <3>1
      <4> QED BY <4>1, <4>2
    <3>2. CASE g.app # "dead"
      BY <1>1, <3>2 DEF RestType, page
    <3> QED BY <3>1, <3>2
  <2> QED BY <1>2, <2>1, <2>2 DEF RestType
<1>7. Preferred' = Preferred
  BY <1>2 DEF Preferred, Plugged, IsIn
<1> QED BY <1>1, <1>5, <1>6, <1>7

\* A step that leaves the choice of the manager alone.
LEMMA ChoiceKept ==
  ASSUME AtRest(State),
         UNCHANGED <<app, mode, held, pending, lastHid, nfc, watchdog>>,
         threads' \in [Slots -> Thread \cup {NoThread}],
         \A k \in Streaming : held[k] # NoSlot =>
            /\ threads'[held[k]] \in Thread
            /\ threads'[held[k]].kind = k /\ threads'[held[k]].open,
         dialogs' \in SUBSET Devices, notes' \in Seq(Modes),
         \A d \in Devices : usb[d] # "out" =>
            /\ usb'[d] # "out"
            /\ usb'[d] \in {"in", "refusing"} => IsIn(d)
  PROVE  AtRest(State)'
<1>1. /\ State \in ManagerType /\ HeldFits(State) /\ WatchFits(State) /\ NfcFits(State)
      /\ PendingFits(State) /\ NfcOff(State)
  BY DEF AtRest, InHandler, Fits
<1>2. /\ State'.app = app' /\ State'.mode = mode' /\ State'.held = held'
      /\ State'.threads = threads' /\ State'.pending = pending' /\ State'.nfc = nfc'
      /\ State'.watchdog = watchdog' /\ State'.dialogs = dialogs'
      /\ State'.notes = notes' /\ State'.lastHid = lastHid'
  BY DEF State
<1>3. (State \in ManagerType)'
  BY <1>1, StateFacts DEF ManagerType, State
<1>4. HeldFits(State)'
  BY <1>1, <1>2, StateFacts DEF HeldFits
<1>5. WatchFits(State)' /\ NfcFits(State)' /\ NfcOff(State)'
  BY <1>1, <1>2, StateFacts DEF WatchFits, NfcFits, NfcOff
<1>6. PendingFits(State)'
  <2>1. pending \in Devices \cup {NoDevice}
    BY <1>1, StateFacts
  <2> QED BY <1>1, <1>2, <2>1, StateFacts DEF PendingFits, IsIn
<1> QED BY <1>3, <1>4, <1>5, <1>6 DEF AtRest, InHandler, Fits

\* The same, when only the queue and the page change.
LEMMA ManagerKept ==
  ASSUME AtRest(State), UNCHANGED <<app, manager, dialogs, usb>>, notes' \in Seq(Modes)
  PROVE  AtRest(State)'
<1>1. State \in ManagerType /\ HeldFits(State)
  BY DEF AtRest, InHandler, Fits
<1>2. /\ threads \in [Slots -> Thread \cup {NoThread}] /\ dialogs \in SUBSET Devices
      /\ \A k \in Streaming : held[k] # NoSlot =>
            /\ threads[held[k]] \in Thread
            /\ threads[held[k]].kind = k /\ threads[held[k]].open
  BY <1>1, StateFacts DEF HeldFits
<1>3. \A d \in Devices : usb'[d] = usb[d]
  OBVIOUS
<1> QED BY <1>2, <1>3, ChoiceKept DEF manager, IsIn

\* PriorityFollowed in terms of Waits.
LEMMA PriorityKept ==
  ASSUME PriorityFollowed, UNCHANGED <<app, mode>>, Waits(queue) => Waits(queue'),
         usb' = usb \/ app # "shown" \/ Waits(queue')
  PROVE  PriorityFollowed'
<1>1. BroadcastsWait' <=> Waits(queue')
  BY DEF BroadcastsWait, Waits
<1>2. BroadcastsWait <=> Waits(queue)
  BY DEF BroadcastsWait, Waits
<1>3. usb' = usb => Preferred' = Preferred
  BY DEF Preferred, Plugged, IsIn
<1> QED BY <1>1, <1>2, <1>3 DEF PriorityFollowed

\* A method that chooses a reader and hands over the queue.
LEMMA ChosenStep ==
  ASSUME Inv, NEW outcomes, NEW rest \in Seq(Message), UNCHANGED outside,
         NEW g, \A o \in outcomes : Chosen(g, o), Become(outcomes, rest)
  PROVE  Inv'
<1>1. /\ AtRest(State)' /\ RestType' /\ Preferred' = Preferred
      /\ \E o \in outcomes : app' = o.app /\ mode' = o.mode
  BY BecomeKeeps DEF Inv, Chosen
<1>2. PriorityFollowed'
  BY <1>1 DEF PriorityFollowed, Chosen
<1> QED BY <1>1, <1>2 DEF Inv

\* Initially nothing is plugged in.
LEMMA InitHolds == Init => Inv
<1> SUFFICES ASSUME Init
             PROVE  Inv
  OBVIOUS
<1> USE DEF Init
<1>1. State = Started("hidden", {})
  BY DEF State, Started
<1>2. AtRest(State)
  BY <1>1, StartedFits
<1>3. RestType
  <2>1. << >> \in Seq(Message) /\ 0 \in 0..MaxTimers
    BY ReaderAssumption
  <2> QED BY <2>1 DEF RestType
<1>4. PriorityFollowed
  BY DEF PriorityFollowed
<1> QED BY <1>2, <1>3, <1>4 DEF Inv

\* The USB host and the user.
LEMMA OutsideStep ==
  ASSUME Inv, Outside
  PROVE  Inv'
<1>1. /\ AtRest(State) /\ RestType /\ PriorityFollowed /\ InHandler(State)
      /\ State \in ManagerType /\ queue \in Seq(Message)
  BY DEF Inv, AtRest, InHandler, Fits, RestType
<1>2. ASSUME NEW d \in Devices, Plug(d)
      PROVE  Inv'
  <2>1. PICK w \in {"in", "refusing"} : usb' = [usb EXCEPT ![d] = w]
    BY <1>2 DEF Plug
  <2>2. /\ usb[d] = "out" /\ Broadcast([type |-> "attached"])
        /\ UNCHANGED <<permitted, dialogs, app, manager, notes, page, cutOff>>
    BY <1>2 DEF Plug
  <2>3. [type |-> "attached"] \in Message
    BY PostedTypes
  <2>4. queue' \in Seq(Message) /\ (Waits(queue) => Waits(queue'))
        /\ (app = "shown" => Waits(queue'))
    BY <1>1, <2>2, <2>3, WaitsOn DEF Broadcast, Post
  <2>5. AtRest(State)'
    <3>1. \A x \in Devices : usb[x] # "out" =>
            usb'[x] # "out" /\ (usb'[x] \in {"in", "refusing"} => IsIn(x))
      BY <1>1, <2>1, <2>2 DEF RestType, IsIn
    <3>2. HeldFits(State)
      BY <1>1 DEF InHandler, Fits
    <3> QED BY <1>1, <2>2, <3>1, <3>2, ChoiceKept, StateFacts DEF manager, HeldFits
  <2>6. RestType'
    BY <1>1, <2>1, <2>2, <2>4 DEF RestType, page
  <2>7. PriorityFollowed'
    BY <1>1, <2>2, <2>4, PriorityKept DEF manager
  <2> QED BY <2>5, <2>6, <2>7 DEF Inv
<1>3. ASSUME NEW d \in Devices, Unplug(d)
      PROVE  Inv'
  <2>1. /\ usb' = [usb EXCEPT ![d] = "gone"] /\ permitted' = permitted \ {d}
        /\ Broadcast([type |-> "detached", dev |-> d])
        /\ UNCHANGED <<dialogs, app, manager, notes, page, cutOff>>
    BY <1>3 DEF Unplug
  <2>2. [type |-> "detached", dev |-> d] \in Message
    BY PostedTypes
  <2>3. queue' \in Seq(Message) /\ (Waits(queue) => Waits(queue'))
        /\ (app = "shown" => Waits(queue'))
    BY <1>1, <2>1, <2>2, WaitsOn DEF Broadcast, Post
  <2>4. AtRest(State)'
    <3>1. \A x \in Devices : usb[x] # "out" =>
            usb'[x] # "out" /\ (usb'[x] \in {"in", "refusing"} => IsIn(x))
      BY <1>1, <2>1 DEF RestType, IsIn
    <3>2. HeldFits(State)
      BY <1>1 DEF InHandler, Fits
    <3> QED BY <1>1, <2>1, <3>1, <3>2, ChoiceKept, StateFacts DEF manager, HeldFits
  <2>5. RestType'
    BY <1>1, <2>1, <2>3 DEF RestType, page
  <2>6. PriorityFollowed'
    BY <1>1, <2>1, <2>3, PriorityKept DEF manager
  <2> QED BY <2>4, <2>5, <2>6 DEF Inv
<1>4. ASSUME NEW d \in Devices, NEW b \in BOOLEAN, Answer(d, b)
      PROVE  Inv'
  <2>1. /\ dialogs' = dialogs \ {d} /\ permitted' \in {permitted, permitted \cup {d}}
        /\ Broadcast([type |-> "permission", dev |-> d, granted |-> b])
        /\ UNCHANGED <<usb, app, manager, notes, page, cutOff>>
    BY <1>4 DEF Answer
  <2>2. [type |-> "permission", dev |-> d, granted |-> b] \in Message
    BY PostedTypes
  <2>3. queue' \in Seq(Message) /\ (Waits(queue) => Waits(queue'))
    BY <1>1, <2>1, <2>2, WaitsOn DEF Broadcast, Post
  <2>4. AtRest(State)'
    <3>1. HeldFits(State)
      BY <1>1 DEF InHandler, Fits
    <3>2. dialogs' \in SUBSET Devices
      BY <1>1, <2>1, StateFacts
    <3> QED BY <1>1, <2>1, <3>1, <3>2, ChoiceKept, StateFacts DEF manager, HeldFits, IsIn
  <2>5. RestType'
    BY <1>1, <2>1, <2>3 DEF RestType, page
  <2>6. PriorityFollowed'
    BY <1>1, <2>1, <2>3, PriorityKept DEF manager
  <2> QED BY <2>4, <2>5, <2>6 DEF Inv
<1>5. ASSUME Hide
      PROVE  Inv'
  <2> DEFINE rest == [i \in DOMAIN queue |-> Dropped(queue[i])]
  <2>1. /\ Become({OnPause(State)}, rest) /\ UNCHANGED outside
    BY <1>5 DEF Hide
  <2>2. rest \in Seq(Message)
    BY <1>1, DroppedType
  <2> HIDE DEF rest
  <2>3. \A o \in {OnPause(State)} : AtRest(o) /\ o.app = "hidden"
    BY <1>1, OnPauseKeeps
  <2>4. AtRest(State)' /\ RestType' /\ app' = "hidden"
    BY <1>1, <2>1, <2>2, <2>3, BecomeKeeps
  <2> QED BY <2>4 DEF Inv, PriorityFollowed
<1>6. ASSUME Show
      PROVE  Inv'
  <2> DEFINE g == [State EXCEPT !.app = "shown"]
  <2>1. Become(EvaluateAndActivate(g), queue) /\ UNCHANGED outside
    BY <1>6 DEF Show
  <2>2. InHandler(g)
    <3>1. g \in ManagerType
      BY <1>1 DEF ManagerType
    <3>2. /\ g.mode = State.mode /\ g.nfc = State.nfc /\ g.held = State.held
          /\ g.threads = State.threads /\ g.watchdog = State.watchdog
          /\ g.pending = State.pending
      BY <1>1 DEF ManagerType
    <3> HIDE DEF g
    <3> QED BY <1>1, <3>1, <3>2
        DEF InHandler, Fits, HeldFits, WatchFits, NfcFits, PendingFits
  <2> HIDE DEF g
  <2>3. \A o \in EvaluateAndActivate(g) : Chosen(g, o)
    BY <2>2, EvaluateChooses
  <2> QED BY <1>1, <2>1, <2>3, ChosenStep
<1>7. ASSUME Launch
      PROVE  Inv'
  <2>1. Become(EvaluateAndActivate(Fresh), queue) /\ UNCHANGED outside
    BY <1>7 DEF Launch
  <2>2. Fresh = Started("shown", dialogs) /\ dialogs \in SUBSET Devices
    BY <1>1, StateFacts DEF Fresh, Started
  <2>3. InHandler(Fresh)
    BY <2>2, StartedFits DEF AtRest
  <2>4. \A o \in EvaluateAndActivate(Fresh) : Chosen(Fresh, o)
    BY <2>3, EvaluateChooses
  <2> QED BY <1>1, <2>1, <2>4, ChosenStep
<1> QED BY <1>2, <1>3, <1>4, <1>5, <1>6, <1>7 DEF Outside

\* One message of the main looper.
LEMMA MainStepKeeps ==
  ASSUME Inv, MainStep
  PROVE  Inv'
<1> DEFINE m == Head(queue)
           rest == Tail(queue)
<1>1. /\ AtRest(State) /\ RestType /\ PriorityFollowed /\ InHandler(State)
      /\ queue \in Seq(Message)
  BY DEF Inv, AtRest, RestType
<1>2. queue # << >> /\ Become(Handle(m), rest) /\ UNCHANGED outside
  BY DEF MainStep
<1>3. /\ m \in Message /\ rest \in Seq(Message)
      /\ Waits(queue) /\ m.type \notin {"attached", "detached"} => Waits(rest)
  BY <1>1, <1>2, PostedTypes, WaitsOn
<1> HIDE DEF m, rest
\* A method that does not always choose leaves the mode as it is, pauses the
\* built-in NFC, or takes up the preferred mode.
<1>4. ASSUME m.type \notin {"attached", "detached"},
             \A o \in Handle(m) :
               /\ AtRest(o)
               /\ \/ o.app = "dead"
                  \/ /\ o.app = app
                     /\ \/ o.mode \in {mode, Preferred}
                        \/ mode = "BUILTIN_NFC" /\ o.mode = "NONE"
      PROVE  Inv'
  <2>1. /\ AtRest(State)' /\ RestType' /\ Preferred' = Preferred
        /\ \E o \in Handle(m) : /\ app' = o.app /\ mode' = o.mode
                                /\ o.app = "dead" \/ queue' = rest
    BY <1>1, <1>2, <1>3, <1>4, BecomeKeeps
  <2>2. /\ BroadcastsWait <=> Waits(queue)
        /\ BroadcastsWait' <=> Waits(queue')
    BY DEF BroadcastsWait, Waits
  <2>3. PriorityFollowed'
    BY <1>1, <1>3, <1>4, <2>1, <2>2 DEF PriorityFollowed
  <2> QED BY <2>1, <2>3 DEF Inv
<1>5. CASE m.type \in {"attached", "reenable"}
  <2>1. Handle(m) = EvaluateAndActivate(State)
    BY <1>5 DEF Handle
  <2>2. \A o \in Handle(m) : Chosen(State, o)
    BY <1>1, <2>1, EvaluateChooses
  <2> QED BY <1>2, <1>3, <2>2, ChosenStep
<1>6. CASE m.type = "detached"
  <2>1. Handle(m) = OnUsbDetached(m.dev, State) /\ m.dev \in Devices
    BY <1>3, <1>6, MessageFacts DEF Handle
  <2>2. \A o \in Handle(m) : Chosen(State, o)
    BY <1>1, <2>1, DetachedChooses
  <2> QED BY <1>2, <1>3, <2>2, ChosenStep
<1>7. CASE m.type = "failed"
  <2>1. Handle(m) = StartOver(Stop(m.kind, State)) /\ m.kind \in Streaming
    BY <1>3, <1>7, MessageFacts DEF Handle, OnSessionFailed
  <2>2. \A o \in Handle(m) : Chosen(State, o)
    BY <1>1, <2>1, FailedChooses
  <2> QED BY <1>2, <1>3, <2>2, ChosenStep
<1>8. CASE m.type = "permission"
  <2>1. /\ Handle(m) = OnUsbPermissionResult(m.dev, m.granted, State)
        /\ m.dev \in Devices /\ m.granted \in BOOLEAN
    BY <1>3, <1>8, MessageFacts DEF Handle
  <2>2. \A o \in Handle(m) :
          AtRest(o) /\ (o.app = "dead" \/ (o.app = app /\ o.mode \in {mode, Preferred}))
    BY <1>1, <2>1, PermissionKeeps, StateFacts
  <2> QED BY <1>4, <1>8, <2>2
<1>9. CASE m.type = "dropped"
  <2>1. Handle(m) = {State}
    BY <1>9 DEF Handle
  <2> QED BY <1>1, <1>4, <1>9, <2>1, StateFacts
<1>10. CASE m.type = "pause"
  <2>1. Handle(m) = {PauseBuiltinNfcForCamera(State)}
    BY <1>10 DEF Handle
  <2>2. \A o \in Handle(m) :
          /\ AtRest(o) /\ o.app = app
          /\ o.mode = IF mode = "BUILTIN_NFC" THEN "NONE" ELSE mode
    BY <1>1, <2>1, PauseKeeps, StateFacts
  <2> QED BY <1>4, <1>10, <2>2
<1> QED BY <1>3, <1>5, <1>6, <1>7, <1>8, <1>9, <1>10, MessageFacts

\* vendorHidWatchdogTask
LEMMA WatchdogKeeps ==
  ASSUME Inv, Watchdog
  PROVE  Inv'
<1>1. InHandler(State) /\ queue \in Seq(Message)
  BY DEF Inv, AtRest, RestType
<1>2. Become(StartOver(Stop("VENDOR", State)), queue) /\ UNCHANGED outside
  BY DEF Watchdog
<1>3. \A o \in StartOver(Stop("VENDOR", State)) : Chosen(State, o)
  BY <1>1, FailedChooses, KindFacts
<1> QED BY <1>1, <1>2, <1>3, ChosenStep

\* What a polling thread may do to itself and to the queue.
LEMMA ThreadStep ==
  ASSUME Inv, NEW s \in Slots, NEW t \in Thread \cup {NoThread},
         threads' = [threads EXCEPT ![s] = t], OnlyThreads,
         Held(s) => t \in Thread /\ t.kind = threads[s].kind /\ t.open = threads[s].open,
         queue' = queue \/ \E m \in Message : queue' = Append(queue, m)
  PROVE  Inv'
<1>1. /\ AtRest(State) /\ RestType /\ PriorityFollowed /\ HeldFits(State)
      /\ State \in ManagerType /\ queue \in Seq(Message)
  BY DEF Inv, AtRest, InHandler, Fits, RestType
<1>2. threads \in [Slots -> Thread \cup {NoThread}]
      /\ held \in [Streaming -> Slots \cup {NoSlot}]
      /\ notes \in Seq(Modes) /\ dialogs \in SUBSET Devices
  BY <1>1, StateFacts
<1>3. threads' \in [Slots -> Thread \cup {NoThread}]
  BY <1>2
<1>4. ASSUME NEW k \in Streaming, held[k] # NoSlot
      PROVE  /\ threads'[held[k]] \in Thread
             /\ threads'[held[k]].kind = k /\ threads'[held[k]].open
  <2>1. /\ threads[held[k]] \in Thread /\ threads[held[k]].kind = k
        /\ threads[held[k]].open /\ held[k] \in Slots
    BY <1>1, <1>2, <1>4, StateFacts DEF HeldFits
  <2>2. CASE held[k] = s
    BY <1>2, <2>1, <2>2 DEF Held
  <2>3. CASE held[k] # s
    BY <1>2, <2>1, <2>3
  <2> QED BY <2>2, <2>3
<1>5. AtRest(State)'
  BY <1>1, <1>2, <1>3, <1>4, ChoiceKept DEF OnlyThreads, outside, IsIn
<1>6. queue' \in Seq(Message) /\ (Waits(queue) => Waits(queue'))
  BY <1>1, WaitsOn
<1>7. RestType'
  BY <1>1, <1>6 DEF RestType, OnlyThreads, outside, page
<1>8. PriorityFollowed'
  BY <1>1, <1>6, PriorityKept DEF OnlyThreads, outside
<1> QED BY <1>5, <1>7, <1>8 DEF Inv

\* The polling threads.
LEMMA PollKeeps ==
  ASSUME Inv, NEW s \in Slots, Poll(s) \/ GetStuck(s)
  PROVE  Inv'
<1>1. threads \in [Slots -> Thread \cup {NoThread}] /\ HeldFits(State)
  BY StateFacts DEF Inv, AtRest, InHandler, Fits
<1>2. threads[s] # NoThread
  BY DEF Poll, StartTransfer, EndTransfer, FailTransfer, GetStuck, Alive
<1>3. threads[s] \in Thread
  BY <1>1, <1>2
<1>4. ASSUME NEW p \in {"idle", "busy", "stuck", "ended"}
      PROVE  /\ [threads[s] EXCEPT !.phase = p] \in Thread
             /\ [threads[s] EXCEPT !.phase = p].kind = threads[s].kind
             /\ [threads[s] EXCEPT !.phase = p].open = threads[s].open
  BY <1>3 DEF Thread
<1>5. CASE StartTransfer(s)
  <2>1. /\ threads' = [threads EXCEPT ![s] = [threads[s] EXCEPT !.phase = "busy"]]
        /\ queue' = queue /\ OnlyThreads
    BY <1>5, <1>1 DEF StartTransfer
  <2> QED BY <1>4, <2>1, ThreadStep
<1>6. CASE GetStuck(s)
  <2>1. /\ threads' = [threads EXCEPT ![s] = [threads[s] EXCEPT !.phase = "stuck"]]
        /\ queue' = queue /\ OnlyThreads
    BY <1>6, <1>1 DEF GetStuck
  <2> QED BY <1>4, <2>1, ThreadStep
<1>7. CASE EndTransfer(s)
  <2> DEFINE t == IF threads[s].open THEN [threads[s] EXCEPT !.phase = "idle"] ELSE NoThread
  <2>1. threads' = [threads EXCEPT ![s] = t] /\ queue' = queue /\ OnlyThreads
    BY <1>7, <1>1 DEF EndTransfer
  <2>2. Held(s) => threads[s].open
    BY <1>1, ReaderAssumption, StateFacts DEF Held, HeldFits
  <2>3. /\ t \in Thread \cup {NoThread}
        /\ Held(s) => t \in Thread /\ t.kind = threads[s].kind /\ t.open = threads[s].open
    BY <1>4, <2>2
  <2> HIDE DEF t
  <2> QED BY <2>1, <2>3, ThreadStep
<1>8. CASE FailTransfer(s)
  <2> DEFINE t == IF Held(s) THEN [threads[s] EXCEPT !.phase = "ended"] ELSE NoThread
             m == [type |-> "failed", kind |-> threads[s].kind]
  <2>1. threads' = [threads EXCEPT ![s] = t] /\ queue' = Append(queue, m) /\ OnlyThreads
    BY <1>8, <1>1 DEF FailTransfer, Post
  <2>2. m \in Message
    <3>1. threads[s].kind \in Streaming
      BY <1>3 DEF Thread
    <3> QED BY <3>1, PostedTypes
  <2>3. /\ t \in Thread \cup {NoThread}
        /\ Held(s) => t \in Thread /\ t.kind = threads[s].kind /\ t.open = threads[s].open
    BY <1>4
  <2> HIDE DEF t, m
  <2> QED BY <2>1, <2>2, <2>3, ThreadStep
<1> QED BY <1>5, <1>6, <1>7, <1>8 DEF Poll

\* What the page may do to itself, to its notes and to the queue.
LEMMA PageStep ==
  ASSUME Inv, UNCHANGED <<outside, dialogs, app, manager>>,
         queue' = queue \/ \E m \in Message : queue' = Append(queue, m),
         notes' \in Seq(Modes), ready' \in BOOLEAN, shown' \in Modes \cup {"UNKNOWN"},
         scanning' \in BOOLEAN, timers' \in 0..MaxTimers, cutOff' \in BOOLEAN
  PROVE  Inv'
<1>1. AtRest(State) /\ RestType /\ PriorityFollowed /\ queue \in Seq(Message)
  BY DEF Inv, RestType
<1>2. queue' \in Seq(Message) /\ (Waits(queue) => Waits(queue'))
  BY <1>1, WaitsOn
<1>3. AtRest(State)'
  BY <1>1, ManagerKept DEF outside
<1>4. RestType'
  BY <1>1, <1>2 DEF RestType, outside
<1>5. PriorityFollowed'
  BY <1>1, <1>2, PriorityKept DEF outside, manager
<1> QED BY <1>3, <1>4, <1>5 DEF Inv

\* The page.
LEMMA PageKeeps ==
  ASSUME Inv, DeliverNote \/ PageReady \/ Reload \/ Camera
  PROVE  Inv'
<1>1. /\ RestType /\ queue \in Seq(Message) /\ notes \in Seq(Modes) /\ mode \in Modes
      /\ ready \in BOOLEAN /\ shown \in Modes \cup {"UNKNOWN"} /\ scanning \in BOOLEAN
      /\ timers \in 0..MaxTimers /\ cutOff \in BOOLEAN
  BY StateFacts DEF Inv, AtRest, InHandler, Fits, RestType
<1>2. MaxTimers \in Nat
  BY ReaderAssumption
<1>3. CASE DeliverNote
  <2>1. Head(notes) \in Modes /\ Tail(notes) \in Seq(Modes)
    BY <1>1, <1>3 DEF DeliverNote
  <2> QED BY <1>1, <1>3, <2>1, PageStep DEF DeliverNote, OnlyPage
<1>4. CASE PageReady
  BY <1>1, <1>4, PageStep DEF PageReady, OnlyPage
<1>5. CASE Reload
  <2>1. << >> \in Seq(Modes) /\ 0 \in 0..MaxTimers
    BY <1>2
  <2>2. (cutOff \/ scanning \/ timers > 0) \in BOOLEAN
    OBVIOUS
  <2> QED BY <1>1, <1>5, <2>1, <2>2, PageStep DEF Reload
<1>6. CASE StartCameraScanner
  <2>1. queue' = queue \/ queue' = Append(queue, [type |-> "pause"])
    BY <1>6 DEF StartCameraScanner, Post
  <2>2. [type |-> "pause"] \in Message
    BY PostedTypes
  <2> QED BY <1>1, <1>6, <2>1, <2>2, PageStep DEF StartCameraScanner, OnlyPage
<1>7. CASE StopCameraScanner
  <2>1. timers' \in 0..MaxTimers
    BY <1>1, <1>2, <1>7 DEF StopCameraScanner
  <2> QED BY <1>1, <1>7, <2>1, PageStep DEF StopCameraScanner, OnlyPage
<1>8. CASE ReenableReader
  <2>1. timers' \in 0..MaxTimers
    BY <1>1, <1>2, <1>8 DEF ReenableReader
  <2>2. [type |-> "reenable"] \in Message
    BY PostedTypes
  <2>3. queue' = Append(queue, [type |-> "reenable"])
    BY <1>8 DEF ReenableReader, Post
  <2> QED BY <1>1, <1>8, <2>1, <2>2, <2>3, PageStep DEF ReenableReader, OnlyPage
<1> QED BY <1>3, <1>4, <1>5, <1>6, <1>7, <1>8 DEF Camera

LEMMA StepKeeps == Inv /\ [Next]_vars => Inv'
<1> SUFFICES ASSUME Inv, [Next]_vars
             PROVE  Inv'
  OBVIOUS
<1>1. CASE UNCHANGED vars
  <2>1. /\ notes \in Seq(Modes) /\ ready \in BOOLEAN /\ shown \in Modes \cup {"UNKNOWN"}
        /\ scanning \in BOOLEAN /\ timers \in 0..MaxTimers /\ cutOff \in BOOLEAN
    BY StateFacts DEF Inv, AtRest, InHandler, Fits, RestType
  <2> QED BY <1>1, <2>1, PageStep DEF vars, page
<1>2. CASE Outside
  BY <1>2, OutsideStep
<1>3. CASE MainStep
  BY <1>3, MainStepKeeps
<1>4. CASE Watchdog
  BY <1>4, WatchdogKeeps
<1>5. CASE \E s \in Slots : Poll(s) \/ GetStuck(s)
  BY <1>5, PollKeeps
<1>6. CASE DeliverNote \/ PageReady \/ Reload \/ Camera
  BY <1>6, PageKeeps
<1> QED BY <1>1, <1>2, <1>3, <1>4, <1>5, <1>6 DEF Next

LEMMA Invariant == Spec => []Inv
<1>1. Init => Inv
  BY InitHolds
<1>2. Inv /\ [Next]_vars => Inv'
  BY StepKeeps
<1> QED BY <1>1, <1>2, PTL DEF Spec

-------------------------------------------------------------------------------
\* Types, and that a session in the manager's fields has an open thread of its
\* kind: CardReaderManager never keeps a session it has stopped.
THEOREM TypeCorrect == Spec => []TypeOK
<1>1. Inv => TypeOK
  BY StateFacts DEF Inv, AtRest, InHandler, Fits, HeldFits, RestType, TypeOK
<1> QED BY <1>1, Invariant, PTL

\* The built-in NFC is on exactly when the manager says so, and never together
\* with a USB session, whatever is plugged, denied, late or paused.
THEOREM NfcNeverShared == Spec => []NfcAlone
<1>1. Inv => NfcAlone
  BY StateFacts DEF Inv, AtRest, InHandler, Fits, NfcFits, NfcOff, NfcAlone
<1> QED BY <1>1, Invariant, PTL

\* The watchdog of vendor HID readers runs exactly while such a session is held.
THEOREM VendorAlwaysWatched == Spec => []VendorWatched
<1>1. Inv => VendorWatched
  BY StateFacts DEF Inv, AtRest, InHandler, Fits, WatchFits, VendorWatched
<1> QED BY <1>1, Invariant, PTL

\* Once every plug and unplug has been handled, the manager is in the mode of
\* the best reader that is plugged in, or the built-in NFC is paused.
THEOREM BestReaderChosen == Spec => []PriorityFollowed
<1>1. Inv => PriorityFollowed
  BY DEF Inv
<1> QED BY <1>1, Invariant, PTL
===============================================================================
