--------------------------- MODULE SessionProofs -----------------------------
(***************************************************************************)
(* Taking the terminal and giving it back, for any number of terminals and *)
(* of displays: the loop in main is the loop of RepaintLoop, and leaving   *)
(* it gives the keyboards and the active terminal back as it found them.   *)
(***************************************************************************)
EXTENDS Session, FenceProofs

-----------------------------------------------------------------------------
(***************************************************************************)
(* main runs the loop of RepaintLoop.                                      *)
(***************************************************************************)
LEMMA SessionStepIsLoopStep == SessionNext => [Next]_vars
<1>1. Leave => Next
  BY DEF Next, Program
<1>2. SwitchBack \/ SwitchBackThrows => Next
  BY <1>1 DEF SwitchBack, SwitchBackThrows
<1> QED
  BY <1>2
     DEF SessionNext, find_free_VT, get_active_vt, ActivateOurs, ActivateOursThrows,
         disable_keyboard, set_graphics, SetupThrows, LoopStep, set_text, UserSwitches

\* The whole program, with its terminal and its early exits, is an instance of
\* the loop, so what holds of the loop holds in it (main.cpp:700-840).
THEOREM SessionRunsLoop == SessionSpec => Spec
<1>1. SessionInit => Init
  BY DEF SessionInit
<1>2. [SessionNext]_sessionVars => [Next]_vars
  BY SessionStepIsLoopStep DEF sessionVars
<1> QED
  BY <1>1, <1>2, PTL DEF SessionSpec, Spec

\* The program that holds the terminal is as safe as the loop: whatever KMS
\* scans out or was committed belongs to KMS, and with a driver that delays
\* flips it is drawn.
THEOREM SessionSafe ==
  /\ CrtcsApart /\ SessionSpec => []KmsOwnsInUse
  /\ CrtcsApart /\ ImplicitFencing /\ SessionSpec => []ScanoutRendered
BY SessionRunsLoop, KmsAlwaysOwnsInUse, ScanoutAlwaysRendered, PTL

\* Nor does the terminal come between a descriptor and the one that closes it,
\* or between a buffer and the fence of its last commit.
THEOREM SessionFences ==
  CrtcsApart /\ HeapZeroed /\ SessionSpec =>
    [](FencesHeldOnce /\ NoFenceLeak /\ ReusedFenceSignalled)
BY SessionRunsLoop, FencesAlwaysHeldOnce, NoFenceEverLeaks, ReusedAlwaysSignalled, PTL

\* With one display, fences on both sides, enough descriptors and an EGL that
\* does what it is asked, the program fails no assertion while it holds the
\* terminal, so it gets to the end of main whenever it leaves the loop
\* (main.cpp:154-182, 308-425, 809, 836).
THEOREM SessionNeverAsserts ==
  SaneSetup /\ EnoughFds /\ ~PaintFaults /\ NumDisplays = 1 /\ SessionSpec
    => []AssertionsHold
BY SessionRunsLoop, SoloNeverAsserts, PTL

-----------------------------------------------------------------------------
(***************************************************************************)
(* The inductive invariant.                                                *)
(***************************************************************************)
\* Every keyboard but ours is as it was found, and ours is off.
KeyboardTaken ==
  /\ kbmode = [found EXCEPT ![tty_num] = "off"]
  /\ orig_mode = found[tty_num]

\* What the program has taken so far, and after set_text, what it has given
\* back; failed tells whether the kernel refused a part of that.
SessionInv ==
  /\ kbmode \in [VTs -> KbModes] /\ found \in [VTs -> KbModes]
  /\ DOMAIN kdmode = VTs
  /\ setup \in {"query", "activate", "keyboard", "graphics", "loop", "switch", "left"} =>
       tty_num \in VTs
  /\ setup \in {"find", "query", "activate", "keyboard"} => kbmode = found
  /\ setup \in {"graphics", "loop"} => KeyboardTaken
  /\ setup \in {"switch", "left"} /\ ~failed => kbmode = found /\ kdmode[tty_num] = "text"
  /\ setup = "left" => ~Running /\ active = orig_vt

LEMMA SessionInitEstablishes == SessionInit => SessionInv
BY DEF SessionInit, SessionInv

\* Turning the keyboard off keeps what it was in orig_mode.
LEMMA DisableTakes ==
  ASSUME SessionInv, disable_keyboard
  PROVE  SessionInv'
<1>1. kbmode = found /\ tty_num \in VTs
  BY DEF SessionInv, disable_keyboard
<1>2. KeyboardTaken'
  BY <1>1 DEF KeyboardTaken, disable_keyboard
<1>3. kbmode' \in [VTs -> KbModes]
  BY <1>1 DEF SessionInv, disable_keyboard, KbModes
<1> QED
  BY <1>1, <1>2, <1>3 DEF SessionInv, disable_keyboard

\* If the kernel does as it is told, the keyboards are all as found.
LEMMA SetTextGivesBack ==
  ASSUME SessionInv, set_text
  PROVE  SessionInv'
<1>1. KeyboardTaken /\ tty_num \in VTs /\ UNCHANGED <<tty_num, found, orig_mode>>
  BY DEF SessionInv, set_text, mainVars
<1>2. /\ kbmode' \in [VTs -> KbModes]
      /\ \A v \in VTs : v # tty_num => kbmode'[v] = found[v]
  BY <1>1 DEF SessionInv, set_text, KeyboardTaken
<1>3. DOMAIN kdmode' = VTs
  BY DEF SessionInv, set_text
<1>4. ASSUME ~failed'
      PROVE  kbmode' = found /\ kdmode'[tty_num] = "text"
  <2>1. kbmode'[tty_num] = found[tty_num] /\ kdmode'[tty_num] = "text"
    BY <1>1, <1>4 DEF set_text, KeyboardTaken
  <2>2. \A v \in VTs : kbmode'[v] = found[v]
    BY <1>2, <2>1
  <2> QED
    BY <1>2, <2>1, <2>2 DEF SessionInv
<1> QED
  BY <1>1, <1>2, <1>3, <1>4 DEF SessionInv, set_text

LEMMA SessionPreserved == SessionInv /\ [SessionNext]_sessionVars => SessionInv'
<1> SUFFICES ASSUME SessionInv, [SessionNext]_sessionVars PROVE SessionInv'
  OBVIOUS
<1> USE DEF SessionInv
<1>1. CASE find_free_VT
  BY <1>1 DEF find_free_VT, consoleVars
<1>2. CASE get_active_vt
  BY <1>2 DEF get_active_vt, consoleVars
<1>3. CASE ActivateOurs
  BY <1>3 DEF ActivateOurs, mainVars
<1>4. CASE ActivateOursThrows
  BY <1>4 DEF ActivateOursThrows, activate_vt_throws, mainVars
<1>5. CASE disable_keyboard
  BY <1>5, DisableTakes
<1>6. CASE set_graphics
  BY <1>6 DEF set_graphics, mainVars, KeyboardTaken
<1>7. CASE SetupThrows
  BY <1>7 DEF SetupThrows, mainVars, consoleVars
<1>8. CASE LoopStep
  BY <1>8 DEF LoopStep, ttyVars, mainVars, consoleVars, KeyboardTaken
<1>9. CASE set_text
  BY <1>9, SetTextGivesBack
<1>10. CASE SwitchBack
  BY <1>10 DEF SwitchBack, activate_vt, Leave, Running, mainVars
<1>11. CASE SwitchBackThrows
  BY <1>11 DEF SwitchBackThrows, activate_vt_throws, mainVars
<1>12. CASE UserSwitches
  BY <1>12 DEF UserSwitches, activate_vt, mainVars, vars, loopVars, Running, KeyboardTaken
<1>13. CASE UNCHANGED sessionVars
  BY <1>13 DEF sessionVars, ttyVars, mainVars, consoleVars, vars, loopVars, Running, KeyboardTaken
<1> QED
  BY <1>1, <1>2, <1>3, <1>4, <1>5, <1>6, <1>7, <1>8, <1>9, <1>10, <1>11, <1>12, <1>13
     DEF SessionNext

\* Unless an ioctl of set_text fails, whoever leaves the loop finds every
\* keyboard as it was, our terminal in text mode and the terminal that was
\* active on the screen (main.cpp:836-837).
THEOREM TerminalAlwaysRestored == SessionSpec => []TerminalRestored
<1>1. SessionInv => TerminalRestored
  BY DEF SessionInv, TerminalRestored
<1> QED
  BY <1>1, SessionInitEstablishes, SessionPreserved, PTL DEF SessionSpec
=============================================================================
