------------------------------ MODULE Playlist ------------------------------
(***************************************************************************)
(* How long each account is shown, from the settings to the bytes for the  *)
(* keyboard: the frame budget (renderer/budget.py), the settings file that *)
(* carries it over versions (config.py), and the frame delays the payload  *)
(* declares (devices/aula_f108/payload.py).                                *)
(*                                                                         *)
(* The same arithmetic is done three times - when the settings are saved,  *)
(* when the frames are rendered, and once more when the keyboard is        *)
(* written - and each of them refuses on its own.                          *)
(***************************************************************************)
EXTENDS Integers, Sequences, Functions

CONSTANTS
    Counts,        \* numbers of enabled accounts tried
    Holds,         \* scene_hold_seconds tried
    RawHolds,      \* what a settings file may hold for it,
    RawBudgets,    \* and for the frame budget
    MaxFrames,     \* LCD_MAX_FRAMES
    SoftCap,       \* LCD_SOFT_CAP
    DefaultBudget, LegacyBudget, V7Budget,
    DesiredFrames, \* DESIRED_FRAMES_PER_ACCOUNT
    Tick,          \* LOGICAL_DELAY_TICK_MS
    FirmwareTick   \* FIRMWARE_DELAY_TICK_MS

VARIABLES
    window,        \* the settings of the running program
    file,          \* the settings file
    saved,         \* the file is what save_config wrote
    payload        \* what the last step built for the keyboard

playlistVars == <<window, file, saved, payload>>

(* A value the file does not have, or that is no number.                    *)
Missing == -1000

HeaderBytes == 256
FrameBytes == 240 * 135 * 2
PageBytes == 4096
Version == 8

Least(a, b) == IF a < b THEN a ELSE b
Most(a, b) == IF a > b THEN a ELSE b
CeilDiv(a, b) == (a + b - 1) \div b

(* LCD_MAX_DELAY_MS: the longest delay byte, on the logical grid.            *)
MaxDelay == ((255 * FirmwareTick) \div Tick) * Tick

---------------------------------------------------------------------------
(* renderer/budget.py                                                        *)
FramesForHold(hold) == Most(1, CeilDiv(hold * 1000, MaxDelay))

Required(count, hold) == count * FramesForHold(hold)

(* validate_playlist_budget: every enabled account gets its hold time.       *)
FeasibleAtFiveSeconds(count, hold) == Required(count, 5) <= MaxFrames
Feasible(count, hold) == Required(count, hold) <= MaxFrames

Raised(count, hold, budget) ==
    LET needed == Required(count, hold)
    IN  IF 0 < needed /\ needed <= MaxFrames /\ budget < needed THEN needed ELSE budget

(* A number of ticks over a number of frames, the longer frames last.        *)
DistributeEvenly(ticks, frames) ==
    [i \in 1..frames |-> (ticks \div frames) * Tick]

Distribute(ticks, frames) ==
    [i \in 1..frames |->
        ((ticks \div frames) + IF i > frames - (ticks % frames) THEN 1 ELSE 0) * Tick]

(* allocate: the delays of one account's slot; none when it refuses.         *)
Refused == <<>>
Allocate(count, hold, budget) ==
    LET ms == hold * 1000
        room == Least(Least(SoftCap, MaxFrames), Most(Most(1, budget), Required(count, hold)))
        frames == Most(FramesForHold(hold),
                       Least(Least(DesiredFrames, room \div count), Most(1, ms \div Tick)))
        delays == Distribute(ms \div Tick, frames)
    IN  IF Required(count, hold) > MaxFrames \/ \E i \in DOMAIN delays : delays[i] > MaxDelay
        THEN Refused ELSE delays

---------------------------------------------------------------------------
(* payload.py                                                                *)
DelayByte(ms) == Most(1, Least(255, ms \div FirmwareTick))

(* The frames of a payload are n times one slot of delays.                   *)
ValidFrames(n, delays) ==
    /\ n * Len(delays) \in 1..MaxFrames
    /\ \A i \in DOMAIN delays :
          /\ delays[i] \in Tick..MaxDelay
          /\ delays[i] % Tick = 0

PageCount(frames) == CeilDiv(HeaderBytes + FrameBytes * frames, PageBytes)

Build(n, delays) ==
    [frames |-> n * Len(delays), slots |-> n,
     bytes |-> [i \in DOMAIN delays |-> DelayByte(delays[i])],
     pages |-> PageCount(n * Len(delays))]

(* What the protocol asks again before the first command.                    *)
ValidPayload(p) ==
    /\ p.frames \in 1..MaxFrames
    /\ p.pages = PageCount(p.frames)
    /\ \A i \in DOMAIN p.bytes : p.bytes[i] # 0

Duration(p) == p.slots * FoldFunction(+, 0, p.bytes) * FirmwareTick

---------------------------------------------------------------------------
(* config.py                                                                 *)
ClampBudget(value) ==
    Most(1, Least(Least(IF value = Missing THEN DefaultBudget ELSE value, SoftCap), MaxFrames))

LoadedBudget(f) ==
    IF \/ f.budget = Missing
       \/ f.version < 7 /\ f.budget = LegacyBudget
       \/ f.version < 8 /\ f.budget = V7Budget
    THEN DefaultBudget ELSE ClampBudget(f.budget)

(* A zero is no hold, and means the default.                                 *)
LoadedHold(f) ==
    IF f.hold = Missing \/ f.hold = 0 THEN 5 ELSE Most(2, Least(20, f.hold))

NoPayload == [frames |-> 0]

PlaylistInit ==
    /\ window = [count |-> 0, hold |-> 5, budget |-> DefaultBudget]
    /\ file = [version |-> Version, count |-> 0, hold |-> 5, budget |-> DefaultBudget]
    /\ saved = TRUE
    /\ payload = NoPayload

(* The settings window: accounts switched on and off, the hold time.         *)
Edit ==
    /\ \E c \in Counts, h \in Holds : window' = [window EXCEPT !.count = c, !.hold = h]
    /\ payload' = NoPayload /\ UNCHANGED <<file, saved>>

(* save_config: the budget is raised to what is needed; what does not fit    *)
(* into the keyboard is not written.                                         *)
Save ==
    /\ Feasible(window.count, window.hold)
    /\ LET budget == Raised(window.count, window.hold, window.budget)
       IN  /\ window' = [window EXCEPT !.budget = budget]
           /\ file' = [version |-> Version, count |-> window.count, hold |-> window.hold,
                       budget |-> budget]
    /\ saved' = TRUE
    /\ payload' = NoPayload

(* A file of an older version, or one edited by hand (one until the next    *)
(* save).                                                                    *)
Replace ==
    /\ saved
    /\ \E v \in {6, 7, 8}, c \in Counts, h \in RawHolds, b \in RawBudgets :
          file' = [version |-> v, count |-> c, hold |-> h, budget |-> b]
    /\ saved' = FALSE
    /\ payload' = NoPayload /\ UNCHANGED window

Load ==
    /\ LET hold == LoadedHold(file)
       IN  window' = [count |-> file.count, hold |-> hold,
                      budget |-> Raised(file.count, hold, LoadedBudget(file))]
    /\ payload' = NoPayload /\ UNCHANGED <<file, saved>>

(* render_playlist and the upload: a slot for every account that has         *)
(* something to show, the same delays in each.                               *)
Render ==
    /\ \E n \in Counts \ {0} :
          LET delays == Allocate(n, window.hold, window.budget)
              built == Build(n, delays)
          IN  /\ n <= window.count
              /\ delays # Refused /\ ValidFrames(n, delays) /\ ValidPayload(built)
              /\ payload' = [frames |-> built.frames, pages |-> built.pages,
                             shown |-> n, hold |-> window.hold,
                             duration |-> Duration(built)]
    /\ UNCHANGED <<window, file, saved>>

PlaylistNext == Edit \/ Save \/ Replace \/ Load \/ Render

PlaylistSpec == PlaylistInit /\ [][PlaylistNext]_playlistVars

---------------------------------------------------------------------------
(* The three checks agree: settings that save_config accepted are never      *)
(* refused later, neither when they are rendered nor at the keyboard,        *)
(* however many of the accounts have something to show (SceneBudgetError).   *)
SavedSettingsPlay ==
    saved =>
        \A n \in Counts \ {0} :
            n <= file.count =>
                LET delays == Allocate(n, file.hold, file.budget)
                IN  /\ delays # Refused
                    /\ ValidFrames(n, delays)
                    /\ ValidPayload(Build(n, delays))

(* What the keyboard is given stays inside its memory, and plays every       *)
(* account for exactly the hold time, no rounding left (allocate "exact-     *)
(* duration", delay_byte).                                                   *)
HoldIsPlayed ==
    payload.frames # 0 =>
        /\ payload.frames <= MaxFrames
        /\ payload.duration = payload.shown * payload.hold * 1000

=============================================================================
