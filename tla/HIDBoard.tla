------------------------------ MODULE HIDBoard ------------------------------
(***************************************************************************)
(* The Micro-controller board on the USB port, and the part of the HID     *)
(* library (hidapi-1.1.jar and its natives) that ReCoMonBUpdater calls.    *)
(* Neither is source of this repository (the firmware is a .hex file, the  *)
(* library a binary), so this module states what ReCoMonBUpdater.java      *)
(* relies on: HIDManager.openById returns a handle, returns null or        *)
(* throws; HIDDevice.write delivers a frame or throws; the board answers   *)
(* every frame with a report that repeats the frame's data[1..12];         *)
(* HIDDevice.read blocks until a report is queued on its handle.  A handle *)
(* belongs to one attachment of the board: once the board is unplugged it  *)
(* never works again.                                                      *)
(***************************************************************************)
EXTENDS Naturals, Sequences

CONSTANTS
    Handles,     \* the native devices openById may return (ids are reused)
    NoHandle,    \* Java's null
    Frames,      \* the 37-byte frames the program writes
    Keys,        \* the 12-byte reports the board answers with
    EchoOf,      \* EchoOf[f]: the report the board answers to frame f
    SharedOpen,  \* the platforms: TRUE lets one process open the device twice
                 \* (Windows), FALSE fails a second open while a handle is
                 \* open (the libusb back end of Linux)
    MaxFaults    \* bound: transient failures of a call on a plugged board

ASSUME BoardAssumption ==
    /\ NoHandle \notin Handles
    /\ EchoOf \in [Frames -> Keys]
    /\ SharedOpen \subseteq BOOLEAN
    /\ MaxFaults \in Nat

VARIABLES
    shared,   \* the platform, which never changes
    plugged,  \* the board is on the USB port
    wire,     \* the reports the board has still to send, oldest first
    open,     \* the native devices that nobody has closed
    alive,    \* those opened on the attachment that still lasts
    queue,    \* queue[h]: the reports received on h and not yet read
    faults    \* the transient failures so far

boardVars == <<shared, plugged, wire, open, alive, queue, faults>>

BoardTypeOK ==
    /\ shared \in SharedOpen
    /\ plugged \in BOOLEAN
    /\ wire \in Seq(Keys)
    /\ open \subseteq Handles
    /\ alive \subseteq open
    /\ queue \in [Handles -> Seq(Keys)]
    /\ faults \in 0..MaxFaults

BoardInit ==
    /\ shared \in SharedOpen
    /\ plugged \in BOOLEAN
    /\ wire = <<>>
    /\ open = {}
    /\ alive = {}
    /\ queue = [h \in Handles |-> <<>>]
    /\ faults = 0

-----------------------------------------------------------------------------
(* What happens on the USB side. *)

Plug ==
    /\ ~plugged
    /\ plugged' = TRUE
    /\ UNCHANGED <<shared, wire, open, alive, queue, faults>>

\* The board loses its power: what it had to send is gone, every handle is dead.
Unplug ==
    /\ plugged
    /\ plugged' = FALSE
    /\ wire' = <<>>
    /\ alive' = {}
    /\ UNCHANGED <<shared, open, queue, faults>>

\* The host fetches the board's oldest report.  Every live handle gets its own
\* copy; nobody can read from a handle outside refs, so it keeps none.
Answer(refs) ==
    /\ wire # <<>>
    /\ alive # {}
    /\ wire' = Tail(wire)
    /\ queue' = [h \in Handles |-> IF h \in alive \cap refs
                                     THEN Append(queue[h], Head(wire))
                                     ELSE queue[h]]
    /\ UNCHANGED <<shared, plugged, open, alive, faults>>

\* HIDDevice.finalize closes a handle that no thread and no field refers to.
Finalize(refs) ==
    \E h \in open \ refs :
        /\ open' = open \ {h}
        /\ alive' = alive \ {h}
        /\ queue' = [queue EXCEPT ![h] = <<>>]
        /\ UNCHANGED <<shared, plugged, wire, faults>>

\* The process ends: the system closes its handles.  The board keeps the
\* reports it has still to send.
CloseAll ==
    /\ open' = {}
    /\ alive' = {}
    /\ queue' = [h \in Handles |-> <<>>]
    /\ UNCHANGED <<shared, plugged, wire, faults>>

-----------------------------------------------------------------------------
(* The library calls, one operator per outcome. *)

Glitch == faults < MaxFaults /\ faults' = faults + 1

\* openById(2341, 28673, null)
OpenReturns(h) ==
    /\ plugged
    /\ shared \/ alive = {}
    /\ h \notin open
    /\ open' = open \cup {h}
    /\ alive' = alive \cup {h}
    /\ queue' = [queue EXCEPT ![h] = <<>>]
    /\ UNCHANGED <<shared, plugged, wire, faults>>

\* The board is listed but the native open fails.
OpenReturnsNull ==
    /\ plugged
    /\ \/ ~shared /\ alive # {} /\ UNCHANGED faults
       \/ Glitch
    /\ UNCHANGED <<shared, plugged, wire, open, alive, queue>>

\* HIDDeviceNotFoundException: the board is not listed.
OpenThrowsNotFound == ~plugged /\ UNCHANGED boardVars

\* The native enumeration fails and the library trips over a null.
OpenThrowsNPE == Glitch /\ UNCHANGED <<shared, plugged, wire, open, alive, queue>>

WriteReturns(h, f) ==
    /\ h \in alive
    /\ wire' = Append(wire, EchoOf[f])
    /\ UNCHANGED <<shared, plugged, open, alive, queue, faults>>

\* IOException, on a live handle whether or not the board got the frame.
WriteThrows(h, f) ==
    \/ h \notin alive /\ UNCHANGED boardVars
    \/ /\ h \in alive
       /\ Glitch
       /\ wire' \in {wire, Append(wire, EchoOf[f])}
       /\ UNCHANGED <<shared, plugged, open, alive, queue>>

ReadReturns(h, k) ==
    /\ queue[h] # <<>>
    /\ k = Head(queue[h])
    /\ queue' = [queue EXCEPT ![h] = Tail(@)]
    /\ UNCHANGED <<shared, plugged, wire, open, alive, faults>>

ReadThrows(h) ==
    \/ h \notin alive /\ UNCHANGED boardVars
    \/ /\ h \in alive
       /\ Glitch
       /\ UNCHANGED <<shared, plugged, wire, open, alive, queue>>
=============================================================================
