-------------------------------- MODULE Oled --------------------------------
(***************************************************************************)
(* The OLED of the kernel module (oled.c).  Each status has a line of the  *)
(* screen of its own; an update clears the line in the frame buffer, draws *)
(* the new text and sends the whole buffer to the panel: six commands that *)
(* set the address window, then the data.  Any number of processes, and    *)
(* the servo thread, may be inside an update at a time, and nothing locks. *)
(* The panel is the SSD1306, as far as these bytes drive it.  Drawing only *)
(* sets pixels, so a line holds all texts drawn since it was last cleared. *)
(***************************************************************************)
EXTENDS Integers, Sequences, FiniteSets

CONSTANTS
  Tasks,   \* who may be inside an update
  Lines,   \* the lines that have an update function
  Texts,   \* the texts an update may draw
  Updates, \* bound: how many updates begin
  Losses   \* bound: how many sends the bus refuses

SelfTest == 0   \* the text oled_init leaves on every line

ASSUME OledAssumption ==
  /\ Texts \subseteq Nat \ {SelfTest}
  /\ Updates \in Nat /\ Losses \in Nat

VARIABLES
  buf,        \* oled_buffer: the texts on each line
  job,        \* where each task is
  panel,      \* the SSD1306
  last,       \* the text each line should have, if its updates did not overlap
  disturbed,  \* two displays have overlapped, or the bus has failed
  clean,      \* undisturbed displays in a row, up to two
  begun,      \* how many updates have begun
  lost        \* how many sends were refused

oledVars == <<buf, job, panel, last, disturbed, clean, begun, lost>>

(* SetColumnAddress 0..127, SetPageAddress 0..7 *)
ColumnAddr == 33
PageAddr   == 34

DisplayCommands == <<ColumnAddr, 0, 127, PageAddr, 0, 7>>

Rest == [at |-> "rest", line |-> "none", text |-> SelfTest, sent |-> 0,
         alone |-> TRUE, copy |-> <<>>]

Contents == [Lines -> SUBSET (Texts \cup {SelfTest})]

-----------------------------------------------------------------------------
(* The panel.  A command may wait for its arguments; an argument is used   *)
(* as it comes.  In horizontal addressing 0x00 and 0x07 do nothing by      *)
(* themselves, and 0x7F moves the start line.                              *)

Powered(content) ==
  [wait |-> <<>>, cols |-> <<0, 127>>, pages |-> <<0, 7>>,
   home |-> {"col", "page"}, shifted |-> FALSE, garbled |-> FALSE,
   shown |-> content]

Receive(p, byte) ==
  CASE Len(p.wait) = 0 ->
         IF byte \in {ColumnAddr, PageAddr} THEN [p EXCEPT !.wait = <<byte>>]
         ELSE IF byte = 127 THEN [p EXCEPT !.shifted = TRUE]
         ELSE p
    [] Len(p.wait) = 1 -> [p EXCEPT !.wait = Append(@, byte)]
    [] Len(p.wait) = 2 ->
         IF p.wait[1] = ColumnAddr
         THEN [p EXCEPT !.wait = <<>>, !.cols = <<p.wait[2], byte>>,
                        !.home = @ \cup {"col"}]
         ELSE [p EXCEPT !.wait = <<>>, !.pages = <<p.wait[2] % 8, byte % 8>>,
                        !.home = @ \cup {"page"}]

(* Data that starts at the window's origin and fills the screen shows as   *)
(* it is, and leaves the pointers at the origin.                           *)
ReceiveData(p, content) ==
  IF p.cols = <<0, 127>> /\ p.pages = <<0, 7>> /\ p.home = {"col", "page"}
  THEN [p EXCEPT !.shown = content, !.garbled = FALSE]
  ELSE [p EXCEPT !.garbled = TRUE, !.home = {}]

-----------------------------------------------------------------------------
(* oled_init: the panel shows the self-test, window and pointers are set.  *)
OledInit ==
  /\ buf = [l \in Lines |-> {SelfTest}]
  /\ job = [t \in Tasks |-> Rest]
  /\ panel = Powered(buf)
  /\ last = [l \in Lines |-> SelfTest]
  /\ disturbed = FALSE
  /\ clean = 2
  /\ begun = 0 /\ lost = 0

Drawing(t) == job[t].at \in {"clear", "draw"}
Sending(t) == job[t].at \in {"commands", "copy", "send"}
Senders(t) == {u \in Tasks \ {t} : Sending(u)}

(* History: what another task is in the middle of when t does its step is  *)
(* not alone any more, and neither is t.                                   *)
Meet(t, step, others) ==
  [u \in Tasks |->
     CASE u = t         -> [step EXCEPT !.alone = @ /\ others = {}]
       [] u \in others  -> [job[u] EXCEPT !.alone = FALSE]
       [] OTHER         -> job[u]]

(* oled_update_..._status(text): any task, any line.                       *)
Update(t, line, text) ==
  /\ job[t] = Rest
  /\ begun < Updates
  /\ begun' = begun + 1
  /\ job' = Meet(t, [Rest EXCEPT !.at = "clear", !.line = line, !.text = text],
                 {u \in Tasks : Drawing(u) /\ job[u].line = line})
  /\ UNCHANGED <<buf, panel, last, disturbed, clean, lost>>

(* Mutant: nothing is cleared. *)
KeepLine(t) ==
  /\ job[t].at = "clear"
  /\ job' = [job EXCEPT ![t].at = "draw"]
  /\ UNCHANGED <<buf, panel, last, disturbed, clean, begun, lost>>

ClearLine(t) ==
  /\ job[t].at = "clear"
  /\ buf' = [buf EXCEPT ![job[t].line] = {}]
  /\ job' = [job EXCEPT ![t].at = "draw"]
  /\ UNCHANGED <<panel, last, disturbed, clean, begun, lost>>

(* Mutant: the display that is under way is taken to be enough. *)
DrawUnlessShown(t) ==
  /\ job[t].at = "draw"
  /\ buf' = [buf EXCEPT ![job[t].line] = @ \cup {job[t].text}]
  /\ last' = [last EXCEPT ![job[t].line] = IF job[t].alone THEN job[t].text ELSE -1]
  /\ job' = [job EXCEPT ![t] = IF Senders(t) # {} THEN Rest ELSE
                [@ EXCEPT !.at = "commands", !.alone = TRUE,
                          !.line = "none", !.text = SelfTest]]
  /\ UNCHANGED <<panel, disturbed, clean, begun, lost>>

DrawString(t) ==
  /\ job[t].at = "draw"
  /\ buf' = [buf EXCEPT ![job[t].line] = @ \cup {job[t].text}]
  /\ last' = [last EXCEPT ![job[t].line] = IF job[t].alone THEN job[t].text ELSE -1]
  /\ job' = [job EXCEPT ![t] = [@ EXCEPT !.at = "commands", !.alone = TRUE,
                                         !.line = "none", !.text = SelfTest]]
  /\ UNCHANGED <<panel, disturbed, clean, begun, lost>>

(* A send arrives, or is one of those that the bus refuses. *)
Refuses(arrives) ==
  /\ arrives \/ lost < Losses
  /\ lost' = IF arrives THEN lost ELSE lost + 1

(* oled_command: the next byte of oled_display.  A send that the bus       *)
(* refuses is not repeated.                                                *)
SendCommand(t, arrives) ==
  /\ job[t].at = "commands"
  /\ LET n == job[t].sent + 1
     IN  /\ panel' = IF arrives THEN Receive(panel, DisplayCommands[n]) ELSE panel
         /\ job' = Meet(t, [job[t] EXCEPT
                              !.sent = n,
                              !.at = IF n = Len(DisplayCommands) THEN "copy" ELSE @,
                              !.alone = @ /\ arrives], Senders(t))
  /\ disturbed' = (disturbed \/ ~job'[t].alone)
  /\ Refuses(arrives)
  /\ UNCHANGED <<buf, last, clean, begun>>

(* oled_data copies the buffer ... *)
CopyBuffer(t) ==
  /\ job[t].at = "copy"
  /\ job' = [job EXCEPT ![t].at = "send", ![t].copy = buf]
  /\ UNCHANGED <<buf, panel, last, disturbed, clean, begun, lost>>

(* ... and sends the copy; without memory or bus nothing is sent.  Data    *)
(* may end a command that waits for its arguments.                         *)
SendData(t, arrives) ==
  /\ job[t].at = "send"
  /\ \E wait \in {panel.wait, <<>>} :
       panel' = IF arrives
                THEN [ReceiveData(panel, job[t].copy) EXCEPT !.wait = wait]
                ELSE panel
  /\ LET quiet == job[t].alone /\ arrives /\ Senders(t) = {}
     IN  /\ disturbed' = (disturbed \/ ~quiet)
         /\ clean' = IF ~quiet THEN 0 ELSE IF clean < 2 THEN clean + 1 ELSE 2
  /\ job' = [Meet(t, Rest, Senders(t)) EXCEPT ![t] = Rest]
  /\ Refuses(arrives)
  /\ UNCHANGED <<buf, last, begun>>

OledNext ==
  \E t \in Tasks :
    \/ \E line \in Lines, text \in Texts : Update(t, line, text)
    \/ ClearLine(t) \/ DrawString(t) \/ CopyBuffer(t)
    \/ \E arrives \in BOOLEAN : SendCommand(t, arrives) \/ SendData(t, arrives)

-----------------------------------------------------------------------------
AllRest == \A t \in Tasks : job[t] = Rest

(* A line shows the text of its last update, and that alone, whatever the  *)
(* updates of the other lines do meanwhile.  Only updates of the same line *)
(* may leave their texts on top of each other.  That the lines share no    *)
(* byte of the buffer is in the model: oled.c gives each its own pages.    *)
LinesIndependent ==
  \A l \in Lines :
    last[l] # -1 /\ (\A t \in Tasks : Drawing(t) => job[t].line # l)
      => buf[l] = {last[l]}

(* As long as no two displays overlap and the bus works, the panel shows   *)
(* the buffer whenever no update is under way, also what was drawn while   *)
(* another task was sending.  After bytes were mixed up or lost, two       *)
(* undisturbed displays in a row bring the picture back: the first one     *)
(* ends with the panel waiting for a command, the second sets the whole    *)
(* window.  The start line does not come back: only oled_init sets it.     *)
PanelShows ==
  AllRest /\ (~disturbed \/ clean = 2) =>
    /\ ~panel.garbled /\ panel.shown = buf
    /\ ~disturbed => ~panel.shifted
=============================================================================
