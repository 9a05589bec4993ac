------------------------ MODULE AudioVolumeMeter_Peak ------------------------
(***************************************************************************)
(* The peak meter (audio_engine/AudioVolumeMeter_Peak.hpp): the level of a  *)
(* block and the highest level of late, which is held for a second.  Time   *)
(* is counted in ticks; ages stop at Forever.                               *)
(***************************************************************************)
EXTENDS Naturals

CONSTANTS
    Second,        \* ticks a level is held
    Forever,       \* where ages stop
    Peak           \* bound: absolute peaks of blocks

VARIABLES
    recentMaxLevel,
    elapsed,       \* now - lastTimeStamp
    shown,         \* what calculate returned last: [level_, recentMaxLevel]
    ago            \* for each level, the ticks since a block had it (history)

meterVars == <<recentMaxLevel, elapsed, shown, ago>>

MaxVolumeLevel == 10
FullScale == 2^15               \* the absolute value of the least int16_t

LevelOf_Uncapped(peak) == (peak * MaxVolumeLevel) \div FullScale

(* The level of a block: an index into the ten bars of a window. *)
LevelOf(peak) == IF (peak * MaxVolumeLevel) \div FullScale > MaxVolumeLevel - 1
                 THEN MaxVolumeLevel - 1 ELSE (peak * MaxVolumeLevel) \div FullScale

Levels == 0 .. MaxVolumeLevel - 1
Age(t, d) == IF t + d > Forever THEN Forever ELSE t + d

MeterTypeOK == /\ recentMaxLevel \in Levels
               /\ elapsed \in 0 .. Forever
               /\ shown \in [level_ : Levels, recentMaxLevel : Levels]
               /\ ago \in [Levels -> 0 .. Forever]

MeterInit == /\ recentMaxLevel = 0 /\ elapsed = 0
             /\ shown = [level_ |-> 0, recentMaxLevel |-> 0]
             /\ ago = [l \in Levels |-> Forever]

Held_Always(d) == TRUE
Held(d) == Age(elapsed, d) <= Second

(* calculate, d ticks after the block before.  A level that equals the one shown
   does not begin the second again. *)
Calculate(d, peak) ==
    LET level == LevelOf(peak)
        kept == IF Held(d) THEN recentMaxLevel ELSE 0
    IN  /\ recentMaxLevel' = IF level > kept THEN level ELSE kept
        /\ elapsed' = IF level > kept \/ ~Held(d) THEN 0 ELSE Age(elapsed, d)
        /\ shown' = [level_ |-> level, recentMaxLevel |-> recentMaxLevel']
        /\ ago' = [l \in Levels |-> IF l = level THEN 0 ELSE Age(ago[l], d)]

(* A block that the meter is not given. *)
Skip(d) == /\ elapsed' = Age(elapsed, d)
           /\ ago' = [l \in Levels |-> Age(ago[l], d)]
           /\ UNCHANGED <<recentMaxLevel, shown>>

-------------------------------------------------------------------------------
(* What the meter shows for a block it has just measured as the recent maximum is
   not less than the level of that block, and was the level of a block of the last
   second, however long the meter was not asked in between. *)
MeterIsHonest ==
    ago[shown.level_] = 0 =>
       /\ shown.recentMaxLevel >= shown.level_
       /\ shown.recentMaxLevel > 0 => ago[shown.recentMaxLevel] <= Second
===============================================================================
