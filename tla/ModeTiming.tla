------------------------------ MODULE ModeTiming -----------------------------
(***************************************************************************)
(* The refresh interval that the frame clock works with, from the display  *)
(* mode the CRTC has (Display::Display, millihzToNsec). The units are      *)
(* parameters, so that TLC can check the rounding on small ones.           *)
(***************************************************************************)
EXTENDS Integers

CONSTANTS
  MHZ_PER_KHZ,   \* 1000000
  NSEC_MHZ,      \* 1000000000000: the period of 1 mHz in ns
  UINT_RANGE     \* 2^32: how many values a uint32_t has

ASSUME TimingUnitsOK ==
  MHZ_PER_KHZ \in Nat \ {0} /\ NSEC_MHZ \in Nat \ {0} /\ UINT_RANGE \in Nat \ {0}

\* A mode has a pixel clock in kHz, and pixels per line and lines per frame.
ModesOf(S) == [clock : S, htotal : S \ {0}, vtotal : S \ {0}]

\* Mutant: the frequency is cut off.
refresh_cut(mode) == ((mode.clock * MHZ_PER_KHZ) \div mode.htotal) \div mode.vtotal

\* The frequency in millihertz.
refresh(mode) ==
  ((mode.clock * MHZ_PER_KHZ) \div mode.htotal + mode.vtotal \div 2) \div mode.vtotal

\* The period in nanoseconds; nothing is returned for a frequency of zero, for
\* which an exception is thrown.
millihzToNsec(mhz) == IF mhz < 1 THEN {} ELSE {NSEC_MHZ \div mhz}

\* The argument of millihzToNsec is a uint32_t, the frequency a long long.
refreshIntervalNsec_of(mode) == millihzToNsec(refresh(mode) % UINT_RANGE)

\* The frequency is the nearest there is to the mode's (to the half line that
\* an odd number of lines is cut by). If it fits the argument, the interval is
\* the longest that is no longer than its period, and a frequency of zero is the
\* only one without.
Nearest(mode) ==
  LET pixels == mode.htotal * mode.vtotal
      error  == refresh(mode) * pixels - mode.clock * MHZ_PER_KHZ
      intervals == refreshIntervalNsec_of(mode)
  IN /\ 2 * error <= pixels + mode.htotal /\ -2 * error <= pixels + mode.htotal
     /\ refresh(mode) < UINT_RANGE =>
          /\ intervals = {} <=> refresh(mode) = 0
          /\ \A interval \in intervals :
               interval * refresh(mode) <= NSEC_MHZ /\ NSEC_MHZ < (interval + 1) * refresh(mode)
=============================================================================
