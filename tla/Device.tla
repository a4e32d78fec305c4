------------------------------- MODULE Device -------------------------------
(***************************************************************************)
(* What several processes that have the character device open may do to    *)
(* each other: my_ioctl, my_read and my_write take no lock.  The keypad    *)
(* and the screen share no state, apart from the password line that        *)
(* key_process_input writes to the screen as any update does.  So the two  *)
(* are put side by side, and a behaviour is about the one or the other.    *)
(***************************************************************************)
EXTENDS KeyMatrix, Oled

VARIABLE half   \* which of the two the processes are busy with

deviceVars == <<half, matrixVars, oledVars>>

(* The device is loaded: the rows are high and the screen has its test     *)
(* picture.                                                                *)
DeviceInit ==
  /\ half \in {"keypad", "screen"}
  /\ MatrixInit /\ OledInit

UsesKeypad == half = "keypad" /\ MatrixNext /\ UNCHANGED <<half, oledVars>>
UsesScreen == half = "screen" /\ OledNext   /\ UNCHANGED <<half, matrixVars>>

DeviceNext == UsesKeypad \/ UsesScreen

DeviceSpec == DeviceInit /\ [][DeviceNext]_deviceVars

-----------------------------------------------------------------------------
Steps == {"outside", "drive", "read", "again", "raise",
          "compare", "advance", "test", "put", "delete"}

(* The type invariant.  A process is at a step of the driver, a key it found is a key of the    *)
(* matrix, and it processes nothing but a key it found.  Whatever the scans *)
(* did to each other, all rows are high when the last of them is over.  An *)
(* update holds a copy of the buffer exactly while it sends it, and has    *)
(* sent all commands by then.                                              *)
DeviceTypeOK ==
  /\ down \subseteq Keys /\ Cardinality(down) <= 1 /\ low \subseteq 1..Rows
  /\ (\A p \in Scanners : ~Scanning(p)) => low = {}
  /\ \A p \in Scanners :
       /\ proc[p].at \in Steps
       /\ proc[p].got \in Keys \cup {Nothing}
       /\ Processing(p) => proc[p].got # Nothing
  /\ {changing, shared} \subseteq BOOLEAN
  /\ buf \in Contents /\ panel.shown \in Contents
  /\ \A t \in Tasks :
       /\ job[t].at \in {"rest", "clear", "draw", "commands", "copy", "send"}
       /\ (job[t].at \in {"copy", "send"}) <=> (job[t].sent = Len(DisplayCommands))
       /\ (job[t].copy # <<>>) <=> (job[t].at = "send")

(* That, and how far the indexes of the keypad stray.                      *)
DeviceInv == DeviceTypeOK /\ IndexStrays /\ AloneInRange
=============================================================================
