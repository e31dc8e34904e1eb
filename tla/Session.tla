------------------------------- MODULE Session -------------------------------
(***************************************************************************)
(* main as a whole, after the DisplayAdapter is constructed: the program   *)
(* takes a virtual terminal, runs RepaintLoop and gives the terminal back. *)
(* An exception is caught nowhere and a failed assertion aborts: neither   *)
(* gives anything back.                                                    *)
(***************************************************************************)
EXTENDS RepaintLoop

CONSTANT VTs   \* the virtual terminals

VARIABLES
  setup,       \* what main does next about the terminal
  tty_num,     \* the terminal it uses
  orig_vt,     \* the terminal that was active
  orig_mode,   \* the keyboard mode it had
  active,      \* the terminal that is on the screen
  kbmode,      \* kbmode[v]: KDSKBMODE of terminal v
  kdmode,      \* kdmode[v]: KDSETMODE of terminal v
  found,       \* kbmode when the program started
  failed       \* an ioctl of set_text failed

consoleVars == <<active, kbmode, kdmode, found, failed>>
mainVars    == <<tty_num, orig_vt, orig_mode>>
ttyVars     == <<setup, mainVars, consoleVars>>
sessionVars == <<vars, ttyVars>>

NoVT     == 0
KbModes  == {"xlate", "unicode", "off"}

SessionInit ==
  /\ Init
  /\ setup = "find"
  /\ tty_num = NoVT /\ orig_vt = NoVT /\ orig_mode = "unicode"
  /\ active \in VTs
  /\ kbmode \in [VTs -> KbModes] /\ kdmode \in [VTs -> {"text", "graphics"}]
  /\ found = kbmode /\ failed = FALSE

-----------------------------------------------------------------------------
\* find_free_VT: the terminal of stdin, or a free one.
find_free_VT ==
  /\ setup = "find"
  /\ tty_num' \in VTs
  /\ setup' = "query"
  /\ UNCHANGED <<vars, orig_vt, orig_mode, consoleVars>>

get_active_vt ==
  /\ setup = "query"
  /\ orig_vt' = active
  /\ setup' = "activate"
  /\ UNCHANGED <<vars, tty_num, orig_mode, consoleVars>>

\* VT_ACTIVATE, and VT_WAITACTIVE until it has happened.
activate_vt(v) == active' = v

\* The second ioctl is interrupted, or already the first fails.
activate_vt_throws(v) ==
  /\ active' \in {active, v}
  /\ setup' = "thrown"
  /\ UNCHANGED <<mainVars, kbmode, kdmode, found, failed>>

ActivateOurs ==
  /\ setup = "activate"
  /\ activate_vt(tty_num)
  /\ setup' = "keyboard"
  /\ UNCHANGED <<vars, mainVars, kbmode, kdmode, found, failed>>

ActivateOursThrows ==
  /\ setup = "activate"
  /\ activate_vt_throws(tty_num)
  /\ UNCHANGED vars

\* Mutant: the mode is read after it was set.
disable_keyboard_late ==
  /\ setup = "keyboard"
  /\ kbmode' = [kbmode EXCEPT ![tty_num] = "off"]
  /\ orig_mode' = kbmode'[tty_num]
  /\ setup' = "graphics"
  /\ UNCHANGED <<vars, tty_num, orig_vt, active, kdmode, found, failed>>

disable_keyboard ==
  /\ setup = "keyboard"
  /\ orig_mode' = kbmode[tty_num]
  /\ kbmode' = [kbmode EXCEPT ![tty_num] = "off"]
  /\ setup' = "graphics"
  /\ UNCHANGED <<vars, tty_num, orig_vt, active, kdmode, found, failed>>

set_graphics ==
  /\ setup = "graphics"
  /\ kdmode' = [kdmode EXCEPT ![tty_num] = "graphics"]
  /\ setup' = "loop"
  /\ UNCHANGED <<vars, mainVars, active, kbmode, found, failed>>

\* stdin is a terminal that is none of the console's, none is free or can be
\* opened, or an ioctl fails. What was done before is not undone.
SetupThrows ==
  /\ setup \in {"find", "query", "keyboard", "graphics"}
  /\ setup' = "thrown"
  /\ UNCHANGED <<vars, mainVars, consoleVars>>

\* The loop, with the kernel and the GPU, up to where it is left.
LoopStep ==
  /\ setup \in {"loop", "switch"}
  /\ Next
  /\ pc = "restore" => pc' = "restore"
  /\ UNCHANGED ttyVars

\* set_text, which does not look at what the ioctls answer.
set_text ==
  /\ setup = "loop" /\ pc = "restore"
  /\ kbmode' \in {kbmode, [kbmode EXCEPT ![tty_num] = orig_mode]}
  /\ kdmode' \in {kdmode, [kdmode EXCEPT ![tty_num] = "text"]}
  /\ failed' = (kbmode'[tty_num] # orig_mode \/ kdmode'[tty_num] # "text")
  /\ setup' = "switch"
  /\ UNCHANGED <<vars, mainVars, active, found>>

\* The terminal that was active is activated again, and main returns.
SwitchBack ==
  /\ setup = "switch" /\ Leave
  /\ activate_vt(orig_vt)
  /\ setup' = "left"
  /\ UNCHANGED <<mainVars, kbmode, kdmode, found, failed>>

SwitchBackThrows ==
  /\ setup = "switch" /\ Leave
  /\ activate_vt_throws(orig_vt)

\* Somebody else switches terminals, which the program does not notice.
UserSwitches ==
  /\ Running /\ setup # "thrown"
  /\ \E v \in VTs : activate_vt(v)
  /\ UNCHANGED <<vars, setup, mainVars, kbmode, kdmode, found, failed>>

SessionNext ==
  \/ find_free_VT \/ get_active_vt \/ ActivateOurs \/ ActivateOursThrows
  \/ disable_keyboard \/ set_graphics \/ SetupThrows
  \/ LoopStep \/ set_text \/ SwitchBack \/ SwitchBackThrows \/ UserSwitches

SessionSpec == SessionInit /\ [][SessionNext]_sessionVars
-----------------------------------------------------------------------------
\* A loop that is left, after whatever failure of the device, gives back what
\* it took: every terminal's keyboard is as it was found, no matter who
\* switched terminals in between, ours shows text again, and the terminal
\* that was active is active (main.cpp:836-837).
TerminalRestored ==
  setup = "left" =>
    /\ active = orig_vt
    /\ ~failed => kbmode = found /\ kdmode[tty_num] = "text"
=============================================================================
