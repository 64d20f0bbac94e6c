----------------------------- MODULE MCKeyboard -----------------------------
(***************************************************************************)
(* The way to the keyboard for TLC: the session, the Win32 transport below *)
(* it and the playlist above it.  They share no variable, so each behaviour*)
(* looks at one of them (part), and the other two stay where they start.   *)
(***************************************************************************)
EXTENDS F108Upload, Integers

CONSTANTS short, long,                 \* payloads of one page and of three
          Handles, NoHandle, Ios, NoIo

VARIABLES part,
          table, ioPc, feature, lcd, io, irp, storage, target, event, retained, reaper,
          window, file, saved, payload
ioVars == <<table, ioPc, feature, lcd, io, irp, storage, target, event, retained, reaper>>
playVars == <<window, file, saved, payload>>

MCPages == [c \in Contents |-> IF c = short THEN 1 ELSE 3]

Transport == INSTANCE Win32Io WITH pc <- ioPc

\* The numbers of the source, and what a file edited by hand may hold.
Playing == INSTANCE Playlist WITH
  Counts <- {0, 1, 7, 28, 36}, Holds <- {2, 5, 20},
  RawHolds <- {0, 7, 60}, RawBudgets <- {32, 48, 200, -1000},
  MaxFrames <- 141, SoftCap <- 141, DefaultBudget <- 80, LegacyBudget <- 32,
  V7Budget <- 48, DesiredFrames <- 8, Tick <- 20, FirmwareTick <- 2

ASSUME TransportAssumption == Transport!HandlesAssumption

KeyboardInit ==
  /\ part \in {"session", "transport", "playlist"}
  /\ Init /\ Transport!Init /\ Playing!PlaylistInit

KeyboardNext ==
  \/ part = "session" /\ Next /\ UNCHANGED <<part, ioVars, playVars>>
  \/ part = "transport" /\ Transport!Next /\ UNCHANGED <<part, vars, playVars>>
  \/ part = "playlist" /\ Playing!PlaylistNext /\ UNCHANGED <<part, vars, ioVars>>

keyboardVars == <<part, vars, ioVars, playVars>>

\* The fairness of Win32Io!FairSpec, when the transport is looked at.
KeyboardSpec ==
  /\ KeyboardInit /\ [][KeyboardNext]_keyboardVars
  /\ \A i \in Ios :
       /\ WF_keyboardVars(/\ part = "transport" /\ Transport!TransferStep(i)
                          /\ UNCHANGED <<part, vars, playVars>>)
       /\ WF_keyboardVars(/\ part = "transport" /\ Transport!ReaperStep(i)
                          /\ UNCHANGED <<part, vars, playVars>>)

\* The variables keep their kinds of values (F108Upload, Win32Io).
TypesOK == TypeOK /\ Transport!TypeOK

\* The memory and the handles of a transfer outlive its request (Win32Io).
IoIsSafe == Transport!IoIsSafe

\* Every transfer comes to its end, and the reaper gives back a quarantined
\* one, whatever the driver does (Win32Io).
TransfersEnd == Transport!TransferEnds /\ Transport!QuarantineIsReaped

\* Settings that were saved are refused neither by the renderer nor at the
\* keyboard, and every account is played for exactly the hold time (Playlist).
SettingsPlay == Playing!SavedSettingsPlay /\ Playing!HoldIsPlayed
=============================================================================
