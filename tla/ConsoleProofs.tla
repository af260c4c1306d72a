---------------------------- MODULE ConsoleProofs ----------------------------
(***************************************************************************)
(* What the run of Console checks for a few drones, pages and keys, proved *)
(* for any number of them: that a reset of the simulation can be repeated, *)
(* that a list shows what is selected in it, and that the HUD marks the    *)
(* aircraft it shows.                                                      *)
(***************************************************************************)
EXTENDS Console, FiniteSetTheorems, TLAPS

-----------------------------------------------------------------------------
(* The simulation: the inductive invariant.                                *)

DroneState == [angle : Nat, speed : Nat]

LoopPlaces == {"key", "press", "mode", "enable", "tick", "count", "angle", "advance",
               "frame", "draw", "radar", "search", "fallback"}

(* Where the bridge is not inside a reset, nor about to begin one.         *)
Between == {"read", "shortcut", "scenario", "mode", "enable"}

SimTypes ==
    /\ scenario \in Scenarios
    /\ ticks \in Nat /\ loaded \in Nat
    /\ flying \in 1..Drones
    /\ drones \in [1..Drones -> DroneState]
    /\ crossed \in BOOLEAN
    /\ loop \in LoopPlaces
    /\ bridge \in Between \cup {"clear", "copy", "adjust"}
    /\ bridge = "scenario" => command.scenario \in Scenarios
    /\ loop \in {"tick", "count"} => flying = 1

(* The speed of a drone in a scenario.                                     *)
Speed(s, d) == Scaled(s, d, TemplateSpeed)

(* A drone after n steps of its profile.                                   *)
Flown(drone, d, s, n) == drone = [angle |-> n * Speed(s, d), speed |-> Speed(s, d)]

AllFlown(n) == \A d \in 1..Drones : Flown(drones[d], d, scenario, n)

(* A tick in progress: which drones it has moved, and what it holds.       *)
MidTick ==
    /\ loop = "count" => loaded = ticks /\ AllFlown(ticks)
    /\ loop \in {"angle", "advance"} =>
         /\ ticks >= 1
         /\ \A d \in 1..(flying - 1) : Flown(drones[d], d, scenario, ticks)
         /\ \A d \in flying..Drones : Flown(drones[d], d, scenario, ticks - 1)
    /\ loop = "advance" => loaded = ticks * Speed(scenario, flying)

InStep ==
    bridge \in Between /\ ~crossed =>
        /\ ~Ticking => AllFlown(ticks)
        /\ MidTick

(* Inside a reset no tick is under way, unless it is marked.               *)
MidReset ==
    bridge \in {"copy", "adjust"} /\ ~crossed =>
        /\ ~Ticking /\ ticks = 0
        /\ bridge = "adjust" => drones = Template

SimInv == SimTypes /\ InStep /\ MidReset

-----------------------------------------------------------------------------
(* Arithmetic of a drone's steps.                                          *)

LEMMA SpeedIs ==
    ASSUME NEW s, NEW d
    PROVE  Speed(s, d) \in {8, 20, 35}
  <1>1. (20 * 40) \div 100 = 8 /\ (20 * 175) \div 100 = 35
    BY SMT
  <1>2. QED
    BY <1>1, Zenon DEF Speed, Scaled, TemplateSpeed

LEMMA ScaledIsNat ==
    ASSUME NEW s, NEW d, NEW v \in Nat
    PROVE  Scaled(s, d, v) \in Nat
  <1>1. (v * 40) \div 100 \in Nat /\ (v * 175) \div 100 \in Nat
    BY SMT
  <1>2. QED
    BY <1>1, Zenon DEF Scaled

LEMMA OneStepMore ==
    ASSUME NEW n \in Nat, NEW v \in {8, 20, 35}
    PROVE  /\ n * v \in Nat
           /\ n * v + v = (n + 1) * v
           /\ 0 * v = 0
  <1>1. CASE v = 8
    BY <1>1
  <1>2. CASE v = 20
    BY <1>2
  <1>3. CASE v = 35
    BY <1>3
  <1>4. QED
    BY <1>1, <1>2, <1>3

(* The template of module Console is a state of the drones.                *)
LEMMA TemplateIsFresh ==
    /\ Template \in [1..Drones -> DroneState]
    /\ \A d \in 1..Drones : Template[d].angle = 0
  BY DEF Template, DroneState, TemplateSpeed

-----------------------------------------------------------------------------
(* Every step keeps it.                                                    *)

LEMMA SimStarts == Init => SimInv
  <1> SUFFICES ASSUME Init PROVE SimInv
    OBVIOUS
  <1>1. Drones \in Nat \ {0} /\ 1 \in 1..Drones
    BY ConsoleAssumption
  <1>2. /\ scenario = "FIELD_DEMO" /\ ticks = 0 /\ drones = Template /\ loaded = 0
        /\ flying = 1 /\ crossed = FALSE /\ loop = "key" /\ bridge = "read"
    BY DEF Init
  <1>3. SimTypes
    BY <1>1, <1>2, TemplateIsFresh DEF SimTypes, Scenarios, LoopPlaces, Between
  <1>4. AllFlown(0)
    <2> SUFFICES ASSUME NEW d \in 1..Drones PROVE Flown(Template[d], d, scenario, 0)
      BY <1>2 DEF AllFlown
    <2>1. 0 * Speed("FIELD_DEMO", d) = 0
      BY SpeedIs, OneStepMore, 0 \in Nat
    <2>2. QED
      BY <1>2, <2>1 DEF Flown, Template, Speed, Scaled
  <1>5. InStep /\ MidReset
    BY <1>2, <1>4 DEF InStep, MidTick, MidReset, Ticking
  <1>6. QED
    BY <1>3, <1>5 DEF SimInv

(* Steps of the UI task outside the tick leave the simulation alone.       *)
LEMMA UiKeepsSim ==
    ASSUME SimInv, UNCHANGED <<bridge, command, scenario, ticks, drones, loaded, crossed>>,
           ~Ticking, loop' \in LoopPlaces \ {"count", "angle", "advance"},
           \/ flying' = flying /\ loop' # "tick"
           \/ flying' = 1
    PROVE  SimInv'
  <1>1. ~Ticking'
    BY DEF Ticking
  <1>2. SimTypes'
    <2>1. 1 \in 1..Drones
      BY ConsoleAssumption
    <2>2. QED
      BY <2>1 DEF SimInv, SimTypes
  <1>3. InStep'
    BY <1>1 DEF SimInv, InStep, AllFlown, MidTick, Ticking
  <1>4. MidReset'
    BY <1>1 DEF SimInv, MidReset
  <1>5. QED
    BY <1>2, <1>3, <1>4 DEF SimInv

LEMMA TickKeepsSim ==
    ASSUME SimInv, ReadTicks \/ WriteTicks \/ ReadAngle \/ WriteAngle
    PROVE  SimInv'
  <1>0. /\ SimTypes /\ InStep /\ MidReset /\ Drones \in Nat \ {0}
        /\ UNCHANGED <<bridge, command, resets, scenario>>
    BY ConsoleAssumption DEF SimInv, ReadTicks, WriteTicks, ReadAngle, WriteAngle, bridgeVars
  <1>1. CASE ReadTicks /\ loop' = "frame"
    <2>1. UNCHANGED <<ticks, drones, loaded, crossed, flying>> /\ loop = "tick"
      BY <1>1 DEF ReadTicks, LoopAt, LoopTo
    <2>2. QED
      BY <1>0, <1>1, <2>1, UiKeepsSim DEF Ticking, LoopPlaces
  <1>2. CASE ReadTicks /\ loop' # "frame"
    <2>1. /\ loop = "tick" /\ loop' = "count" /\ loaded' = ticks
          /\ crossed' = (crossed \/ bridge \in {"copy", "adjust"})
          /\ UNCHANGED <<ticks, drones, flying>>
      BY <1>2 DEF ReadTicks, LoopAt, LoopTo
    <2>2. SimTypes'
      BY <1>0, <2>1 DEF SimTypes, LoopPlaces
    <2>3. InStep' /\ MidReset'
      BY <1>0, <2>1 DEF InStep, MidTick, MidReset, Ticking, AllFlown
    <2>4. QED
      BY <2>2, <2>3 DEF SimInv
  <1>3. CASE WriteTicks
    <2>1. /\ loop = "count" /\ loop' = "angle" /\ ticks' = loaded + 1
          /\ UNCHANGED <<drones, loaded, flying, crossed>>
      BY <1>3 DEF WriteTicks, LoopAt, LoopTo
    <2>2. SimTypes'
      BY <1>0, <2>1 DEF SimTypes, LoopPlaces
    <2>3. MidReset'
      BY <1>0, <2>1 DEF MidReset, Ticking
    <2>4. InStep'
      <3> SUFFICES ASSUME bridge \in Between, ~crossed
                   PROVE  InStep'
        BY <1>0, <2>1 DEF InStep
      <3>1. loaded = ticks /\ ticks \in Nat /\ flying = 1 /\ AllFlown(ticks)
        BY <1>0, <2>1 DEF InStep, MidTick, SimTypes
      <3>2. /\ ticks' >= 1 /\ ticks' - 1 = ticks
            /\ 1..(flying' - 1) = {} /\ flying'..Drones = 1..Drones
        BY <1>0, <2>1, <3>1
      <3>3. \A d \in flying'..Drones : Flown(drones'[d], d, scenario', ticks' - 1)
        BY <1>0, <2>1, <3>1, <3>2 DEF AllFlown
      <3>4. QED
        BY <2>1, <3>2, <3>3 DEF InStep, MidTick, Ticking
    <2>5. QED
      BY <2>2, <2>3, <2>4 DEF SimInv
  <1>4. CASE ReadAngle
    <2>1. /\ loop = "angle" /\ loop' = "advance"
          /\ loaded' = drones[flying].angle + drones[flying].speed
          /\ UNCHANGED <<drones, ticks, flying, crossed>>
      BY <1>4 DEF ReadAngle, LoopAt, LoopTo
    <2>2. flying \in 1..Drones /\ drones[flying] \in DroneState /\ ticks \in Nat
      BY <1>0 DEF SimTypes
    <2>3. loaded' \in Nat
      BY <2>1, <2>2 DEF DroneState
    <2>4. SimTypes'
      BY <1>0, <2>1, <2>3 DEF SimTypes, LoopPlaces
    <2>5. MidReset'
      BY <1>0, <2>1 DEF MidReset, Ticking
    <2>6. InStep'
      <3> SUFFICES ASSUME bridge \in Between, ~crossed
                   PROVE  loaded' = ticks * Speed(scenario, flying)
        BY <1>0, <2>1 DEF InStep, MidTick, Ticking
      <3> DEFINE v == Speed(scenario, flying)
      <3>0. flying \in flying..Drones
        BY <1>0, <2>2
      <3>1. ticks >= 1 /\ Flown(drones[flying], flying, scenario, ticks - 1)
        BY <1>0, <2>1, <3>0 DEF InStep, MidTick
      <3>2. drones[flying].angle = (ticks - 1) * v /\ drones[flying].speed = v
        BY <3>1 DEF Flown
      <3>3. ticks - 1 \in Nat /\ v \in {8, 20, 35}
        BY <2>2, <3>1, SpeedIs
      <3> HIDE DEF v
      <3>4. (ticks - 1) * v + v = (ticks - 1 + 1) * v
        BY <3>3, OneStepMore
      <3>5. ticks - 1 + 1 = ticks
        BY <2>2
      <3>6. loaded' = ticks * v
        BY <2>1, <3>2, <3>4, <3>5
      <3>7. QED
        BY <3>6 DEF v
    <2>7. QED
      BY <2>4, <2>5, <2>6 DEF SimInv
  <1>5. CASE WriteAngle
    <2>1. /\ loop = "advance" /\ loop' \in {"angle", "frame"} /\ loaded' = 0
          /\ drones' = [drones EXCEPT ![flying].angle = loaded]
          /\ loop' = "angle" => flying < Drones /\ flying' = flying + 1
          /\ loop' = "frame" => ~(flying < Drones) /\ flying' = 1
          /\ UNCHANGED <<ticks, crossed>>
      BY <1>5 DEF WriteAngle, LoopAt, LoopTo
    <2>2. /\ flying \in 1..Drones /\ drones[flying] \in DroneState /\ loaded \in Nat
          /\ drones \in [1..Drones -> DroneState] /\ ticks \in Nat
      BY <1>0 DEF SimTypes
    <2>3. /\ drones'[flying] = [angle |-> loaded, speed |-> drones[flying].speed]
          /\ \A d \in 1..Drones : d # flying => drones'[d] = drones[d]
          /\ drones' \in [1..Drones -> DroneState]
      BY <2>1, <2>2 DEF DroneState
    <2>4. flying' \in 1..Drones
      BY <1>0, <2>1, <2>2
    <2>5. SimTypes'
      BY <1>0, <2>1, <2>3, <2>4 DEF SimTypes, LoopPlaces
    <2>6. MidReset'
      BY <1>0, <2>1 DEF MidReset, Ticking
    <2>7. InStep'
      <3> SUFFICES ASSUME bridge \in Between, ~crossed
                   PROVE  InStep'
        BY <1>0, <2>1 DEF InStep
      <3>1. /\ ticks >= 1 /\ loaded = ticks * Speed(scenario, flying)
            /\ \A d \in 1..(flying - 1) : Flown(drones[d], d, scenario, ticks)
            /\ \A d \in flying..Drones : Flown(drones[d], d, scenario, ticks - 1)
        BY <1>0, <2>1 DEF InStep, MidTick, Ticking
      <3>2. Flown(drones'[flying], flying, scenario, ticks)
        <4>1. flying \in flying..Drones
          BY <1>0, <2>2
        <4>2. Flown(drones[flying], flying, scenario, ticks - 1)
          BY <3>1, <4>1
        <4>3. drones[flying].speed = Speed(scenario, flying)
          BY <4>2 DEF Flown
        <4>4. QED
          BY <2>3, <3>1, <4>3 DEF Flown
      <3>3. ASSUME NEW d \in 1..flying
            PROVE  Flown(drones'[d], d, scenario', ticks')
        <4>1. d = flying \/ (d \in 1..(flying - 1) /\ d \in 1..Drones /\ d # flying)
          BY <1>0, <2>2
        <4>2. QED
          BY <1>0, <2>1, <2>3, <3>1, <3>2, <4>1
      <3>4. ASSUME NEW d \in (flying + 1)..Drones
            PROVE  Flown(drones'[d], d, scenario', ticks' - 1)
        <4>1. d \in flying..Drones /\ d \in 1..Drones /\ d # flying
          BY <1>0, <2>2
        <4>2. QED
          BY <1>0, <2>1, <2>3, <3>1, <4>1
      <3>5. CASE loop' = "angle"
        <4>1. flying' - 1 = flying /\ flying' = flying + 1 /\ ticks' >= 1
          BY <2>1, <2>2, <3>1, <3>5
        <4>2. QED
          BY <3>3, <3>4, <3>5, <4>1 DEF InStep, MidTick, Ticking
      <3>6. CASE loop' = "frame"
        <4>1. flying = Drones
          BY <1>0, <2>1, <2>2, <3>6
        <4>2. AllFlown(ticks)'
          BY <3>3, <4>1 DEF AllFlown
        <4>3. QED
          BY <3>6, <4>2 DEF InStep, MidTick
      <3>7. QED
        BY <2>1, <3>5, <3>6
    <2>8. QED
      BY <2>5, <2>6, <2>7 DEF SimInv
  <1>6. QED
    BY <1>1, <1>2, <1>3, <1>4, <1>5

(* Steps of the bridge outside a reset leave the simulation alone.         *)
LEMMA BridgeKeepsSim ==
    ASSUME SimInv, UNCHANGED <<loop, scenario, ticks, drones, loaded, flying, crossed>>,
           bridge \in Between, bridge' \in Between \cup {"clear"},
           bridge' = "scenario" => command'.scenario \in Scenarios
    PROVE  SimInv'
  <1>1. SimTypes'
    BY DEF SimInv, SimTypes
  <1>2. InStep'
    BY DEF SimInv, InStep, AllFlown, MidTick, Ticking, Between
  <1>3. MidReset'
    BY DEF MidReset, Between
  <1>4. QED
    BY <1>1, <1>2, <1>3 DEF SimInv

LEMMA ResetKeepsSim ==
    ASSUME SimInv, SetScenario \/ ClearTicks \/ CopyTemplates \/ AdjustDrones
    PROVE  SimInv'
  <1>0. /\ SimTypes /\ InStep /\ MidReset /\ Drones \in Nat \ {0}
        /\ UNCHANGED <<loop, command, flying, loaded>>
    BY ConsoleAssumption DEF SimInv, SetScenario, ClearTicks, CopyTemplates, AdjustDrones,
       uiVars
  <1>1. CASE SetScenario
    <2>1. /\ bridge = "scenario" /\ bridge' = "clear" /\ scenario' = command.scenario
          /\ UNCHANGED <<ticks, drones, crossed>>
      BY <1>1 DEF SetScenario, BridgeAt, BridgeTo
    <2>2. SimTypes'
      BY <1>0, <2>1 DEF SimTypes, Between
    <2>3. InStep' /\ MidReset'
      BY <2>1 DEF InStep, MidReset, Between
    <2>4. QED
      BY <2>2, <2>3 DEF SimInv
  <1>2. CASE ClearTicks
    <2>1. /\ bridge = "clear" /\ bridge' = "copy" /\ ticks' = 0 /\ crossed' = Ticking
          /\ UNCHANGED <<scenario, drones>>
      BY <1>2 DEF ClearTicks, BridgeAt, BridgeTo
    <2>2. SimTypes'
      BY <1>0, <2>1 DEF SimTypes, Between, Ticking
    <2>3. InStep' /\ MidReset'
      BY <1>0, <2>1 DEF InStep, MidReset, Between, Ticking
    <2>4. QED
      BY <2>2, <2>3 DEF SimInv
  <1>3. CASE CopyTemplates
    <2>1. /\ bridge = "copy" /\ bridge' = "adjust" /\ drones' = Template
          /\ UNCHANGED <<scenario, ticks, crossed>>
      BY <1>3 DEF CopyTemplates, BridgeAt, BridgeTo
    <2>2. SimTypes'
      BY <1>0, <2>1, TemplateIsFresh DEF SimTypes, Between
    <2>3. InStep' /\ MidReset'
      BY <1>0, <2>1 DEF InStep, MidReset, Between, Ticking
    <2>4. QED
      BY <2>2, <2>3 DEF SimInv
  <1>4. CASE AdjustDrones
    <2>1. /\ bridge = "adjust" /\ bridge' \in {"clear", "mode"}
          /\ drones' = [d \in 1..Drones |->
                          [drones[d] EXCEPT !.speed = Scaled(scenario, d, drones[d].speed)]]
          /\ UNCHANGED <<scenario, ticks, crossed>>
      BY <1>4 DEF AdjustDrones, BridgeAt, BridgeTo
    <2>2. drones \in [1..Drones -> DroneState]
      BY <1>0 DEF SimTypes
    <2>3. ASSUME NEW d \in 1..Drones
          PROVE  drones'[d] = [angle |-> drones[d].angle,
                              speed |-> Scaled(scenario, d, drones[d].speed)]
      BY <2>1, <2>2 DEF DroneState
    <2>4. drones' \in [1..Drones -> DroneState]
      <3>1. ASSUME NEW d \in 1..Drones
            PROVE  drones'[d] \in DroneState
        <4>1. drones[d].angle \in Nat /\ drones[d].speed \in Nat
          BY <2>2 DEF DroneState
        <4>2. Scaled(scenario, d, drones[d].speed) \in Nat
          BY <4>1, ScaledIsNat
        <4> DEFINE v == Scaled(scenario, d, drones[d].speed)
        <4>3. drones'[d] = [angle |-> drones[d].angle, speed |-> v] /\ v \in Nat
          BY <2>3, <4>2
        <4> HIDE DEF v
        <4>4. QED
          BY <4>1, <4>3 DEF DroneState
      <3>2. QED
        BY <2>1, <3>1
    <2>5. SimTypes'
      BY <1>0, <2>1, <2>4 DEF SimTypes, Between
    <2>6. MidReset'
      BY <2>1 DEF MidReset
    <2>7. InStep'
      <3> SUFFICES ASSUME bridge' \in Between, ~crossed' PROVE InStep'
        BY DEF InStep
      <3>1. ~Ticking' /\ ticks' = 0 /\ drones = Template
        BY <1>0, <2>1 DEF MidReset, Ticking
      <3>2. ASSUME NEW d \in 1..Drones
            PROVE  Flown(drones'[d], d, scenario', ticks')
        <4>1. 0 * Speed(scenario, d) = 0
          BY SpeedIs, OneStepMore, 0 \in Nat
        <4>2. drones'[d] = [angle |-> 0 * Speed(scenario, d), speed |-> Speed(scenario, d)]
          <5>1. drones[d].speed = TemplateSpeed /\ drones[d].angle = 0
            BY <3>1 DEF Template
          <5>2. QED
            BY <2>3, <4>1, <5>1, Zenon DEF Speed
        <4>3. Flown(drones'[d], d, scenario, 0)
          BY <4>2 DEF Flown
        <4>4. QED
          BY <2>1, <3>1, <4>3
      <3>3. QED
        BY <3>1, <3>2 DEF InStep, MidTick, AllFlown, Ticking
    <2>8. QED
      BY <2>5, <2>6, <2>7 DEF SimInv
  <1>5. QED
    BY <1>1, <1>2, <1>3, <1>4

LEMMA SimStep == SimInv /\ [Next]_vars => SimInv'
  <1> SUFFICES ASSUME SimInv, [Next]_vars PROVE SimInv'
    OBVIOUS
  <1>1. CASE ReadKey \/ Press \/ ReadMode \/ FollowMode \/ ReadScreen \/ DrawFrame
             \/ DrawHud
    <2>1. /\ UNCHANGED <<bridge, command, scenario, ticks, drones, loaded, crossed>>
          /\ loop \in LoopPlaces \ {"tick", "count", "angle", "advance"}
          /\ loop' \in LoopPlaces \ {"count", "angle", "advance"}
          /\ \/ flying' = flying /\ loop' # "tick"
             \/ flying' = 1
      BY <1>1 DEF ReadKey, Press, ReadMode, FollowMode, ReadScreen, DrawFrame, DrawHud,
         CountTargets, DrawRadar, FindSelected, FallBack, ShowPanel, LoopAt, LoopTo,
         LoopPlaces, bridgeVars, simVars
    <2>2. QED
      BY <2>1, UiKeepsSim DEF Ticking, LoopPlaces
  <1>2. CASE ReadTicks \/ WriteTicks \/ ReadAngle \/ WriteAngle
    BY <1>2, TickKeepsSim
  <1>3. CASE ReadLine \/ ShortcutKey \/ SetSimulationMode \/ SetEnabled
    <2>1. UNCHANGED <<loop, scenario, ticks, drones, loaded, flying, crossed>>
      BY <1>3 DEF ReadLine, ShortcutKey, SetSimulationMode, SetEnabled, uiVars, simVars
    <2>2. /\ bridge \in Between /\ bridge' \in Between \cup {"clear"}
          /\ bridge' = "scenario" => command'.scenario \in Scenarios
      <3>1. CASE ReadLine
        <4>1. bridge = "read" /\ bridge' = FirstStep(command')
          BY <3>1 DEF ReadLine, BridgeAt, BridgeTo
        <4>2. QED
          BY <4>1 DEF FirstStep, Between
      <3>2. CASE ShortcutKey \/ SetSimulationMode \/ SetEnabled
        BY <3>2 DEF ShortcutKey, SetSimulationMode, SetEnabled, BridgeAt, BridgeTo, Between
      <3>3. QED
        BY <1>3, <3>1, <3>2
    <2>3. QED
      BY <2>1, <2>2, BridgeKeepsSim
  <1>4. CASE SetScenario \/ ClearTicks \/ CopyTemplates \/ AdjustDrones
    BY <1>4, ResetKeepsSim
  <1>5. CASE Register \/ UNCHANGED vars
    <2>1. /\ UNCHANGED <<loop, bridge, command, scenario, ticks, drones, loaded, flying,
                         crossed>>
      BY <1>5 DEF Register, vars, uiVars, bridgeVars, simVars
    <2>2. QED
      BY <2>1 DEF SimInv, SimTypes, InStep, MidReset, MidTick, AllFlown, Ticking
  <1>6. QED
    BY <1>1, <1>2, <1>3, <1>4, <1>5 DEF Next, UiTask, Bridge, RunCommand

(* A reset that no tick overlapped leaves the drones where the counter     *)
(* says, whatever ticks, resets and changes of the scenario came before    *)
(* and whatever comes after, for any number of drones.                     *)
THEOREM ResetsRepeat == Spec => []ResetsAreRepeatable
  <1>1. SimInv => ResetsAreRepeatable
    BY DEF SimInv, InStep, Between, AllFlown, Flown, Speed, ResetsAreRepeatable, BridgeAt
  <1>2. QED
    BY <1>1, SimStarts, SimStep, PTL DEF Spec

-----------------------------------------------------------------------------
(* The screens: the inductive invariant.  A selection need not be among    *)
(* the rows there are now, but the row of the log that is selected is one  *)
(* of those that its scroll position leaves visible.                       *)

Screen == {"SCANNER", "MAP", "HUD", "STATUS", "MODES", "SETTINGS", "LOG",
           "MAIN_MENU", "AIRCRAFT_LIST"}

Counters(u) ==
    /\ u.menu \in 1..7
    /\ u.page \in Nat /\ u.sel \in Nat /\ u.hud \in Nat
    /\ u.row \in Nat /\ u.scroll \in Nat /\ u.total \in Nat

RowIsVisible(u) ==
    /\ u.row = 0 => u.scroll = 0
    /\ u.row > 0 => u.scroll < u.row /\ u.row <= u.scroll + LogPage

ListsFit(u) ==
    /\ DOMAIN u = DOMAIN FirstUi
    /\ u.screen \in Screen
    /\ Counters(u)
    /\ RowIsVisible(u)

UiInv == ListsFit(ui) /\ at \in Screen

(* The fields that the screens' state has.                                 *)
LEMMA UiFields ==
    DOMAIN FirstUi = {"screen", "previous", "menu", "page", "sel", "scale", "hud", "mode",
                      "modes", "category", "item", "editing", "sound", "values", "row",
                      "scroll", "total", "exported", "silent"}
BY DEF FirstUi

(* The screens as the values of the order in which they are gone through.  *)
LEMMA OrderedScreens ==
    /\ Order \in [1..9 -> Screen] /\ Len(Order) = 9
    /\ \A s \in Screen : \E i \in 1..9 : Order[i] = s
<1>1. Len(Order) = 9 /\ Order \in [1..9 -> Screen]
  BY DEF Order, Screen
<1>2. ASSUME NEW s \in Screen PROVE \E i \in 1..9 : Order[i] = s
  BY DEF Order, Screen
<1> QED
  BY <1>1, <1>2

(* The neighbours of a screen are screens.                                 *)
LEMMA NeighboursAreScreens ==
  ASSUME NEW s \in Screen
  PROVE  NextScreen(s) \in Screen /\ PrevScreen(s) \in Screen
<1>1. Position(s) \in 1..9
  BY OrderedScreens DEF Position
<1>2. After(Position(s), 9) \in 1..9 /\ Before(Position(s), 9) \in 1..9
  BY <1>1 DEF After, Before
<1> QED
  BY <1>2, OrderedScreens DEF NextScreen, PrevScreen

(* To a screen: nothing of the lists changes.                              *)
LEMMA NavigationFits ==
  ASSUME NEW u, ListsFit(u), NEW s \in Screen
  PROVE  ListsFit(NavigateTo(u, s))
BY UiFields DEF ListsFit, NavigateTo, Counters, RowIsVisible

LEMMA MenuFits ==
  ASSUME NEW u, ListsFit(u), NEW key
  PROVE  ListsFit(MenuKey(u, key))
<1>1. Len(Menu) = 7 /\ Menu[u.menu] \in Screen
  BY DEF Menu, Screen, ListsFit, Counters
<1>2. ListsFit(NavigateTo(u, Menu[u.menu]))
  BY <1>1, NavigationFits
<1>3. ListsFit([u EXCEPT !.menu = Before(u.menu, 7)])
  BY UiFields DEF ListsFit, Counters, RowIsVisible, Before
<1>4. ListsFit([u EXCEPT !.menu = After(u.menu, 7)])
  BY UiFields DEF ListsFit, Counters, RowIsVisible, After
<1> QED
  BY <1>1, <1>2, <1>3, <1>4 DEF MenuKey

LEMMA ScannerFits ==
  ASSUME NEW u, ListsFit(u), NEW key
  PROVE  ListsFit(ScannerKey(u, key))
<1>1. Pages \in Nat \ {0} /\ PageSize \in Nat \ {0}
  BY ScreensAssumption
<1>2. (u.page + 1) % Pages \in Nat
  BY <1>1 DEF ListsFit, Counters
<1>3. ASSUME NEW p \in Nat, NEW s \in Nat
      PROVE  ListsFit([u EXCEPT !.page = p, !.sel = s])
  BY UiFields DEF ListsFit, Counters, RowIsVisible
<1>4. ASSUME NEW s \in Nat PROVE ListsFit([u EXCEPT !.sel = s])
  BY UiFields DEF ListsFit, Counters, RowIsVisible
<1>5. Upper(u.sel - 1, 0) \in Nat /\ Lower(u.sel + 1, PageSize - 1) \in Nat
  BY <1>1 DEF ListsFit, Counters, Upper, Lower
<1>6. u.page > 0 => u.page - 1 \in Nat
  BY DEF ListsFit, Counters
<1>7. CASE key = "UP"
  BY <1>7, <1>4, <1>5 DEF ScannerKey
<1>8. CASE key = "DOWN"
  BY <1>8, <1>4, <1>5 DEF ScannerKey
<1>9. CASE key = "LEFT"
  BY <1>9, <1>3, <1>6 DEF ScannerKey
<1>10. CASE key = "RIGHT"
  BY <1>10, <1>3, <1>2 DEF ScannerKey
<1> QED
  BY <1>7, <1>8, <1>9, <1>10 DEF ScannerKey

LEMMA HudFits ==
  ASSUME NEW u, ListsFit(u), NEW key
  PROVE  ListsFit(HudKey(u, key))
<1>1. MaxAircraft \in Nat \ {0}
  BY ScreensAssumption
<1>2. Upper(u.hud - 1, 0) \in Nat /\ Lower(u.hud + 1, MaxAircraft - 1) \in Nat
  BY <1>1 DEF ListsFit, Counters, Upper, Lower
<1>3. ASSUME NEW h \in Nat PROVE ListsFit([u EXCEPT !.hud = h])
  BY UiFields DEF ListsFit, Counters, RowIsVisible
<1> QED
  BY <1>2, <1>3 DEF HudKey

(* The log: moving up keeps the row above the last visible one, moving     *)
(* down below the first.                                                   *)
LEMMA LogFits ==
  ASSUME NEW u, ListsFit(u), NEW key, NEW ok
  PROVE  ListsFit(LogKey(u, key, ok))
<1>1. LogPage \in Nat \ {0}
  BY ScreensAssumption
<1>2. ASSUME NEW r \in Nat, NEW s \in Nat, r = 0 => s = 0,
             r > 0 => s < r /\ r <= s + LogPage
      PROVE  ListsFit([u EXCEPT !.row = r, !.scroll = s])
  BY <1>2, UiFields DEF ListsFit, Counters, RowIsVisible
<1>3. CASE key = "UP" /\ u.row > 0
  <2> DEFINE s == IF u.row > 1 /\ u.row - 2 < u.scroll THEN u.row - 2 ELSE u.scroll
  <2>1. u.row - 1 \in Nat /\ s \in Nat
    BY <1>3 DEF ListsFit, Counters
  <2>2. /\ u.row - 1 = 0 => s = 0
        /\ u.row - 1 > 0 => s < u.row - 1 /\ u.row - 1 <= s + LogPage
    BY <1>3, <1>1 DEF ListsFit, Counters, RowIsVisible
  <2>3. LogKey(u, key, ok) = [u EXCEPT !.row = u.row - 1, !.scroll = s]
    BY <1>3 DEF LogKey
  <2> QED
    BY <2>1, <2>2, <2>3, <1>2
<1>4. CASE key = "DOWN" /\ u.row < u.total
  <2> DEFINE s == IF u.row >= u.scroll + LogPage THEN u.row - LogPage + 1 ELSE u.scroll
  <2>1. u.row + 1 \in Nat /\ s \in Nat
    BY <1>4, <1>1 DEF ListsFit, Counters
  <2>2. s < u.row + 1 /\ u.row + 1 <= s + LogPage
    BY <1>4, <1>1 DEF ListsFit, Counters, RowIsVisible
  <2>3. LogKey(u, key, ok) = [u EXCEPT !.row = u.row + 1, !.scroll = s]
    BY <1>4 DEF LogKey
  <2>4. ~(u.row + 1 = 0)
    BY DEF ListsFit, Counters
  <2> QED
    BY <2>1, <2>2, <2>3, <2>4, <1>2
<1>5. CASE key = "ENTER" /\ u.row = 0
  <2>1. ListsFit([u EXCEPT !.exported = ok])
    BY UiFields DEF ListsFit, Counters, RowIsVisible
  <2> QED
    BY <1>5, <2>1 DEF LogKey
<1> QED
  BY <1>3, <1>4, <1>5 DEF LogKey

(* The screens without a list.                                             *)
LEMMA OthersFit ==
  ASSUME NEW u, ListsFit(u), NEW key
  PROVE  /\ ListsFit(MapKey(u, key)) /\ ListsFit(ModesKey(u, key))
         /\ ListsFit(SettingsKey(u, key)) /\ ListsFit(GenericKey(u, key))
         /\ \A m, enabledNow : ListsFit(SetMode(u, m, enabledNow))
<1>1. ListsFit(MapKey(u, key))
  BY UiFields DEF ListsFit, Counters, RowIsVisible, MapKey
<1>2. ASSUME NEW m, NEW b PROVE ListsFit(SetMode(u, m, b))
  BY UiFields DEF ListsFit, Counters, RowIsVisible, SetMode
<1>3. ListsFit(ModesKey(u, key))
  <2>1. ASSUME NEW m PROVE ListsFit([u EXCEPT !.mode = m])
    BY UiFields DEF ListsFit, Counters, RowIsVisible
  <2> QED
    BY <1>2, <2>1 DEF ModesKey
<1>4. ASSUME NEW up PROVE ListsFit(Adjust(u, up))
  <2> DEFINE name == Settings[u.category][u.item]
  <2>1. ListsFit([u EXCEPT !.sound = ~u.sound, !.silent = u.sound])
    BY UiFields DEF ListsFit, Counters, RowIsVisible
  <2>2. ASSUME NEW v PROVE ListsFit([u EXCEPT !.values[name] = v])
    <3> HIDE DEF name
    <3> QED
      BY UiFields DEF ListsFit, Counters, RowIsVisible
  <2> QED
    BY <2>1, <2>2 DEF Adjust
<1>5. ListsFit(SettingsKey(u, key))
  <2>1. ASSUME NEW c, NEW i PROVE ListsFit([u EXCEPT !.category = c, !.item = i])
    BY UiFields DEF ListsFit, Counters, RowIsVisible
  <2>2. ASSUME NEW i PROVE ListsFit([u EXCEPT !.item = i])
    BY UiFields DEF ListsFit, Counters, RowIsVisible
  <2>3. ASSUME NEW b PROVE ListsFit([u EXCEPT !.editing = b])
    BY UiFields DEF ListsFit, Counters, RowIsVisible
  <2> QED
    BY <2>1, <2>2, <2>3, <1>4, Zenon DEF SettingsKey
<1>6. ListsFit(GenericKey(u, key))
  <2>1. /\ NextScreen(u.screen) \in Screen /\ PrevScreen(u.screen) \in Screen
        /\ "MAIN_MENU" \in Screen
    BY NeighboursAreScreens DEF ListsFit, Screen
  <2> QED
    BY <2>1, NavigationFits, Zenon DEF GenericKey
<1> QED
  BY <1>1, <1>2, <1>3, <1>5, <1>6, Zenon

(* Whatever key, for whatever screen it was meant.                         *)
LEMMA KeysFit ==
  ASSUME NEW u, ListsFit(u), NEW key, NEW s \in Screen, NEW ok
  PROVE  ListsFit(HandleKey(u, key, s, ok))
<1>1. ASSUME key \in DOMAIN Shortcut PROVE Shortcut[key] \in Screen
  BY <1>1 DEF Shortcut, Digits, Screen
<1>2. NextScreen(s) \in Screen /\ "MAIN_MENU" \in Screen
  BY NeighboursAreScreens DEF Screen
<1>3. ListsFit(ScreenKey(u, key, s, ok))
  BY MenuFits, ScannerFits, HudFits, LogFits, OthersFit, Zenon DEF ScreenKey
<1>4. CASE key \in DOMAIN Shortcut
  <2>1. HandleKey(u, key, s, ok) = NavigateTo(u, Shortcut[key])
    <3>1. key \notin {"TAB", "BACK"}
      BY <1>4 DEF Shortcut, Digits
    <3> QED
      BY <1>4, <3>1, Zenon DEF HandleKey
  <2> QED
    BY <1>1, <1>4, <2>1, NavigationFits
<1>5. CASE key \notin DOMAIN Shortcut
  <2>1. \/ HandleKey(u, key, s, ok) = NavigateTo(u, NextScreen(s))
        \/ HandleKey(u, key, s, ok) = NavigateTo(u, "MAIN_MENU")
        \/ HandleKey(u, key, s, ok) = ScreenKey(u, key, s, ok)
    BY <1>5, Zenon DEF HandleKey
  <2> QED
    BY <1>2, <1>3, <2>1, NavigationFits
<1> QED
  BY <1>4, <1>5

(* A frame of the log notes the records it found.                          *)
LEMMA FramesFit ==
  ASSUME NEW u, ListsFit(u), NEW s, NEW records \in Nat
  PROVE  ListsFit(Drawn(u, s, records))
<1>1. LogTotal(records) \in Nat
  BY ScreensAssumption DEF LogTotal, Lower
<1>2. ASSUME NEW k \in Nat PROVE ListsFit([u EXCEPT !.total = k])
  BY UiFields DEF ListsFit, Counters, RowIsVisible
<1> QED
  BY <1>1, <1>2 DEF Drawn

LEMMA UiFirst == Init => UiInv
<1> SUFFICES ASSUME Init PROVE UiInv
  OBVIOUS
<1>1. ListsFit(FirstUi)
  BY DEF FirstUi, ListsFit, Counters, RowIsVisible, Screen
<1> QED
  BY <1>1 DEF Init, UiInv, Screen

LEMMA UiStep == ASSUME UiInv, [Next]_vars PROVE UiInv'
<1>1. ListsFit(ui) /\ at \in Screen /\ ui.screen \in Screen
  BY DEF UiInv, ListsFit
<1>2. CASE ReadKey
  BY <1>1, <1>2 DEF UiInv, ReadKey
<1>3. CASE Press
  <2>1. PICK key \in Pressed, ok \in BOOLEAN : ui' = HandleKey(ui, key, at, ok)
    BY <1>3 DEF Press
  <2>2. ListsFit(ui')
    BY <1>1, <2>1, KeysFit
  <2> QED
    BY <1>1, <1>3, <2>2 DEF UiInv, Press
<1>4. CASE ShortcutKey
  <2>1. ui' = HandleKey(ui, command.key, ui.screen, TRUE) /\ UNCHANGED at
    BY <1>4 DEF ShortcutKey
  <2>2. ListsFit(ui')
    BY <1>1, <2>1, KeysFit
  <2> QED
    BY <1>1, <2>1, <2>2 DEF UiInv
<1>5. CASE SetSimulationMode
  <2>1. ui' = SetMode(ui, SIMULATION, command.enabled) /\ UNCHANGED at
    BY <1>5 DEF SetSimulationMode
  <2>2. ListsFit(ui')
    BY <1>1, <2>1, OthersFit
  <2> QED
    BY <1>1, <2>1, <2>2 DEF UiInv
<1>6. CASE DrawFrame
  <2>1. PICK records \in 0..(LogMax + 1) : ui' = Drawn(ui, curr, records)
    BY <1>6 DEF DrawFrame
  <2>2. records \in Nat
    BY ScreensAssumption, <2>1
  <2>3. ListsFit(ui')
    BY <1>1, <2>1, <2>2, FramesFit
  <2> QED
    BY <1>1, <1>6, <2>3 DEF UiInv, DrawFrame
<1>11. CASE FallBack
  <2>1. ListsFit([ui EXCEPT !.hud = 0])
    BY <1>1, UiFields DEF ListsFit, Counters, RowIsVisible
  <2> QED
    BY <1>1, <1>11, <2>1 DEF UiInv, FallBack
<1>7. ASSUME UNCHANGED <<ui, at>> PROVE UiInv'
  BY <1>1, <1>7 DEF UiInv
<1>8. CASE ReadMode \/ FollowMode \/ ReadTicks \/ WriteTicks \/ ReadAngle \/ WriteAngle
           \/ ReadScreen \/ CountTargets \/ DrawRadar \/ FindSelected
  BY <1>7, <1>8 DEF ReadMode, FollowMode, ReadTicks, WriteTicks, ReadAngle, WriteAngle,
     ReadScreen, CountTargets, DrawRadar, FindSelected
<1>9. CASE ReadLine \/ SetScenario \/ ClearTicks \/ CopyTemplates \/ AdjustDrones
           \/ SetEnabled
  BY <1>7, <1>9 DEF ReadLine, SetScenario, ClearTicks, CopyTemplates, AdjustDrones,
     SetEnabled, uiVars
<1>10. CASE Register \/ UNCHANGED vars
  BY <1>7, <1>10 DEF Register, vars, uiVars
<1> QED
  BY <1>2, <1>3, <1>4, <1>5, <1>6, <1>8, <1>9, <1>10, <1>11
  DEF Next, UiTask, DrawHud, Bridge, RunCommand

-----------------------------------------------------------------------------
(* The slots of the registry: aircraft take them in their order and keep   *)
(* them, so that slot and rank are the same.                               *)

SlotsInOrder == \E n \in 0..MaxAircraft : active = 1..n

LEMMA SlotsCounted ==
  ASSUME SlotsInOrder
  PROVE  Cardinality(active) \in Nat /\ (active # {} => Cardinality(active) > 0)
<1>1. PICK n \in 0..MaxAircraft : active = 1..n
  BY DEF SlotsInOrder
<1>2. n \in Nat
  BY ScreensAssumption
<1>3. Cardinality(1..n) = n
  <2>1. n = 0 => 1..n = {}
    OBVIOUS
  <2>2. n > 0 => Cardinality(1..n) = n - 1 + 1
    BY <1>2, FS_Interval
  <2> QED
    BY <1>2, <2>1, <2>2, FS_EmptySet
<1> QED
  BY <1>1, <1>2, <1>3

LEMMA RankIsSlot ==
  ASSUME SlotsInOrder, NEW u, u.hud \in Nat
  PROVE  /\ OfRank(u, active) = MarkedOnRadar(u, active)
         /\ active # {} => FirstOf(active) = {1}
<1>1. PICK n \in 0..MaxAircraft : active = 1..n
  BY DEF SlotsInOrder
<1>2. n \in Nat
  BY ScreensAssumption
<1>3. ASSUME NEW i \in active PROVE Cardinality({j \in active : j < i}) = i - 1
  <2>1. i \in Nat \ {0} /\ {j \in active : j < i} = 1..(i - 1)
    BY <1>1, <1>2
  <2>2. CASE i = 1
    <3>1. 1..(i - 1) = {}
      BY <2>2
    <3> QED
      BY <2>1, <2>2, <3>1, FS_EmptySet
  <2>3. CASE i > 1
    <3>1. i \in Nat /\ (i - 1) - 1 + 1 = i - 1
      BY <1>1, <1>2
    <3>2. Cardinality(1..(i - 1)) = (i - 1) - 1 + 1
      BY <2>3, <3>1, FS_Interval
    <3> QED
      BY <2>1, <3>1, <3>2, Zenon
  <2> QED
    BY <2>1, <2>2, <2>3
<1>4. ASSUME NEW i \in active
      PROVE  Cardinality({j \in active : j < i}) = u.hud <=> i = u.hud + 1
  <2>1. i \in Nat
    BY <1>1, <1>2
  <2> QED
    BY <1>3, <2>1
<1>5. OfRank(u, active) = MarkedOnRadar(u, active)
  BY <1>4, Zenon DEF OfRank, MarkedOnRadar
<1>6. active # {} => FirstOf(active) = {1}
  BY <1>1, <1>2 DEF FirstOf
<1> QED
  BY <1>5, <1>6

LEMMA SlotsStay == SlotsInOrder /\ [Next]_vars => SlotsInOrder' /\ active \subseteq active'
<1> SUFFICES ASSUME SlotsInOrder, [Next]_vars
             PROVE  SlotsInOrder' /\ active \subseteq active'
  OBVIOUS
<1>1. ASSUME active' = active PROVE SlotsInOrder' /\ active \subseteq active'
  BY <1>1 DEF SlotsInOrder
<1>2. CASE Register
  <2>1. PICK n \in 0..MaxAircraft : active = 1..n
    BY DEF SlotsInOrder
  <2>2. PICK i \in 1..MaxAircraft \ active :
             /\ \A j \in 1..MaxAircraft \ active : i <= j
             /\ active' = active \cup {i}
    BY <1>2 DEF Register
  <2>3. MaxAircraft \in Nat
    BY ScreensAssumption
  <2>4. n + 1 \in 1..MaxAircraft \ active /\ i = n + 1
    BY <2>1, <2>2, <2>3
  <2>5. active' = 1..(n + 1) /\ n + 1 \in 0..MaxAircraft
    BY <2>1, <2>2, <2>3, <2>4
  <2> QED
    BY <2>2, <2>5 DEF SlotsInOrder
<1>3. CASE UiTask
  BY <1>1, <1>3 DEF UiTask, ReadKey, Press, ReadMode, FollowMode, ReadTicks, WriteTicks,
     ReadAngle, WriteAngle, ReadScreen, DrawFrame, DrawHud, CountTargets, DrawRadar,
     FindSelected, FallBack
<1>4. CASE Bridge
  BY <1>1, <1>4 DEF Bridge, ReadLine, RunCommand, ShortcutKey, SetScenario, ClearTicks,
     CopyTemplates, AdjustDrones, SetSimulationMode, SetEnabled
<1>5. CASE UNCHANGED vars
  BY <1>1, <1>5 DEF vars
<1> QED
  BY <1>2, <1>3, <1>4, <1>5 DEF Next

-----------------------------------------------------------------------------
(* What a frame shows of a list.                                           *)

(* The page that is drawn begins below the last aircraft.                  *)
LEMMA PageBegins ==
  ASSUME NEW p \in Nat \ {0}, NEW n \in Nat \ {0}, NEW page \in Nat
  PROVE  /\ Lower(page, ((n + p - 1) \div p) - 1) * p \in Nat
         /\ Lower(page, ((n + p - 1) \div p) - 1) * p < n
<1> DEFINE q == (n + p - 1) \div p
<1>1. q \in Int /\ q >= 1 /\ q * p <= n + p - 1
  OBVIOUS
<1> DEFINE k == Lower(page, q - 1)
<1>2. k \in Nat /\ k <= q - 1
  BY <1>1 DEF Lower
<1> HIDE DEF q, k
<1>3. ASSUME NEW a \in Nat, NEW b \in Nat, a <= b PROVE a * p <= b * p
  BY <1>3
<1>4. k * p \in Nat /\ (q - 1) * p = q * p - p
  BY <1>1, <1>2
<1>5. k * p <= (q - 1) * p
  BY <1>1, <1>2, <1>3
<1>6. k * p <= n - 1
  BY <1>1, <1>4, <1>5
<1> QED
  BY <1>4, <1>6 DEF k, q

(* A page of the list of the aircraft has one row drawn as selected.       *)
LEMMA ScannerShows ==
  ASSUME NEW u, ListsFit(u), NEW n \in Nat \ {0}
  PROVE  \E i \in 1..n : DrawScanner(u, n).picked = {i}
<1> DEFINE total == (n + PageSize - 1) \div PageSize
           first == Lower(u.page, total - 1) * PageSize
           rows  == {i \in 1..n : i > first /\ i <= first + PageSize}
           last  == Lower(n, first + PageSize)
           i     == first + 1 + Lower(u.sel, Cardinality(rows) - 1)
<1>1. PageSize \in Nat \ {0} /\ u.page \in Nat /\ u.sel \in Nat
  BY ScreensAssumption DEF ListsFit, Counters
<1>2. first \in Nat /\ first < n
  BY <1>1, PageBegins
<1>3. DrawScanner(u, n).picked = {j \in rows : j = i}
  BY DEF DrawScanner, Picture
<1> HIDE DEF total, first
<1>4. rows = (first + 1)..last /\ last \in Int /\ last > first /\ last <= first + PageSize
      /\ last <= n
  BY <1>1, <1>2 DEF Lower
<1> HIDE DEF last, rows
<1>5. Cardinality(rows) = last - first
  <2>1. first + 1 \in Int /\ (first + 1) <= last
    BY <1>2, <1>4
  <2>2. Cardinality((first + 1)..last) = last - (first + 1) + 1
    BY <1>4, <2>1, FS_Interval
  <2> QED
    BY <1>2, <1>4, <2>2
<1>6. i \in Int /\ i > first /\ i <= last
  BY <1>1, <1>2, <1>4, <1>5 DEF Lower
<1> HIDE DEF i
<1>7. i \in rows /\ i \in 1..n
  BY <1>2, <1>4, <1>6
<1>8. {j \in rows : j = i} = {i}
  BY <1>7
<1> QED
  BY <1>3, <1>7, <1>8

(* In the log, the row that is selected is visible, if it is still there.  *)
LEMMA LogShows ==
  ASSUME NEW u, ListsFit(u), NEW records \in Nat, u.row <= LogTotal(records)
  PROVE  DrawLog(u, records).picked = {u.row}
<1>1. LogMax \in Nat /\ LogTotal(records) \in Nat
  BY ScreensAssumption DEF LogTotal, Lower
<1> DEFINE rows == {0} \cup {i \in 1..LogTotal(records) :
                                  i > u.scroll /\ i <= u.scroll + LogPage}
<1>2. DrawLog(u, records).picked = {i \in rows : i = u.row /\ (i = 0 => u.scroll = 0)}
  BY DEF DrawLog, Picture
<1>3. u.row \in rows
  BY <1>1, ScreensAssumption DEF ListsFit, Counters, RowIsVisible
<1>4. u.row = 0 => u.scroll = 0
  BY DEF ListsFit, RowIsVisible
<1> HIDE DEF rows
<1> QED
  BY <1>2, <1>3, <1>4

(* A frame draws what is selected.                                         *)
LEMMA FrameShows ==
  ASSUME UiInv, SlotsInOrder, DrawFrame
  PROVE  /\ curr = "SCANNER" /\ active # {} => Cardinality(picture'.picked) = 1
         /\ curr = "LOG" /\ ui.row <= picture'.of => picture'.picked = {ui.row}
<1> DEFINE n == Cardinality(active)
<1>1. PICK records \in 0..(LogMax + 1) : picture' = Draw(ui, curr, n, records, picture)
  BY DEF DrawFrame
<1>2. n \in Nat /\ (active # {} => n > 0) /\ records \in Nat /\ ListsFit(ui)
  BY <1>1, ScreensAssumption, SlotsCounted DEF UiInv
<1> HIDE DEF n
<1>3. CASE curr = "SCANNER" /\ active # {}
  <2>1. picture' = DrawScanner(ui, n)
    BY <1>1, <1>3 DEF Draw
  <2>2. PICK i \in 1..n : picture'.picked = {i}
    BY <1>2, <1>3, <2>1, ScannerShows
  <2> QED
    BY <1>3, <2>2, FS_Singleton
<1>4. CASE curr = "LOG"
  <2>1. picture' = DrawLog(ui, records) /\ picture'.of = LogTotal(records)
    BY <1>1, <1>4 DEF Draw, DrawLog, Picture
  <2>2. ui.row <= picture'.of => picture'.picked = {ui.row}
    BY <1>2, <2>1, LogShows
  <2> QED
    BY <1>4, <2>2
<1> QED
  BY <1>3, <1>4

(* The screens' state always fits the lists: the counters are counters and *)
(* the log's row is visible at its scroll position (the key handlers of    *)
(* components/ui, through both tasks).                                     *)
THEOREM UiInvariance == Spec => []UiInv
<1>1. Init => UiInv
  BY UiFirst
<1>2. UiInv /\ [Next]_vars => UiInv'
  BY UiStep
<1> QED
  BY <1>1, <1>2, PTL DEF Spec

(* Whatever is selected, a page of the scanner draws one row as selected,  *)
(* and the log the row that the keys chose, unless it has become shorter   *)
(* than that (screen_scanner_render, screen_log_render).                   *)
THEOREM SelectionIsShown == Spec => SelectionShown
<1>1. UiInv /\ SlotsInOrder /\ [Next]_vars =>
        [DrawFrame =>
           /\ curr = "SCANNER" /\ active # {} => Cardinality(picture'.picked) = 1
           /\ curr = "LOG" /\ ui.row <= picture'.of => picture'.picked = {ui.row}]_vars
  BY FrameShows
<1>2. Init => SlotsInOrder
  <2>1. 0 \in 0..MaxAircraft /\ {} = 1..0
    BY ScreensAssumption
  <2> QED
    BY <2>1 DEF Init, SlotsInOrder
<1> QED
  BY <1>1, <1>2, SlotsStay, UiInvariance, PTL DEF Spec, SelectionShown

-----------------------------------------------------------------------------
(* The HUD: the inductive invariant.  What the radar has marked is the     *)
(* selection, if it was there; it is there if the last frame showed it;    *)
(* and a search that found nothing had nothing marked before it.           *)

Selected == ui.hud + 1

HudTypes ==
    /\ frame \in [screen : {"HUD"}, of : Nat, rows : {{}}, picked : SUBSET Nat]
    /\ bridge = "shortcut" => command.key \in Digits

Marking ==
    loop \in {"search", "fallback"} =>
        /\ frame.picked \subseteq {Selected} \cap active
        /\ picture.screen = "HUD" /\ picture.rows = {Selected} => frame.picked = {Selected}
        /\ loop = "fallback" => active # {} /\ frame.picked = {}

HudInv ==
    /\ SlotsInOrder
    /\ HudTypes
    /\ frame.of > 0 => active # {}
    /\ picture.screen = "HUD" => picture.rows \subseteq active
    /\ Marking

LEMMA HudStarts == Init => HudInv
<1> SUFFICES ASSUME Init PROVE HudInv
  OBVIOUS
<1>1. 0 \in 0..MaxAircraft /\ {} = 1..0
  BY ScreensAssumption
<1>2. SlotsInOrder
  BY <1>1 DEF Init, SlotsInOrder
<1>3. HudTypes
  BY DEF Init, HudTypes, NoFrame, Picture
<1> QED
  BY <1>2, <1>3 DEF Init, HudInv, Marking, Picture, NoFrame

(* A frame of another screen is no HUD.                                    *)
LEMMA OtherPictures ==
  ASSUME NEW u, NEW s, s # "HUD", NEW n, NEW records, NEW before
  PROVE  Draw(u, s, n, records, before) = before
            \/ Draw(u, s, n, records, before).screen # "HUD"
BY DEF Draw, DrawScanner, DrawLog, Picture

(* A step that leaves frame, picture and selection alone.                  *)
LEMMA HudUntouched ==
  ASSUME HudInv, [Next]_vars, UNCHANGED <<frame, picture>>,
         loop' \in {"search", "fallback"} => loop' = loop /\ ui'.hud = ui.hud,
         bridge' = "shortcut" => command'.key \in Digits
  PROVE  HudInv'
<1>1. SlotsInOrder' /\ active \subseteq active'
  BY SlotsStay DEF HudInv
<1>2. HudTypes'
  BY DEF HudInv, HudTypes
<1>3. Marking'
  BY <1>1 DEF HudInv, Marking, Selected
<1> QED
  BY <1>1, <1>2, <1>3 DEF HudInv

(* What a HUD is when its panel is drawn.                                  *)
HudAgrees ==
    LET shows == picture'.rows  marks == picture'.picked
    IN  loop' = "key" /\ shows # {} =>
          /\ marks \subseteq shows
          /\ shows = {ui'.hud + 1}
          /\ picture.screen = "HUD" /\ picture.rows = {ui.hud + 1} => marks = shows

LEMMA PanelFits ==
  ASSUME HudInv, UiInv, FindSelected \/ FallBack
  PROVE  HudAgrees /\ HudInv'
<1>1. /\ SlotsInOrder /\ HudTypes /\ Marking /\ UNCHANGED <<active, bridge, command>>
      /\ ui.hud \in Nat /\ SlotsInOrder'
      /\ (picture.screen = "HUD" => picture.rows \subseteq active)
      /\ (frame.of > 0 => active # {})
  BY DEF HudInv, FindSelected, FallBack, bridgeVars, UiInv, ListsFit, Counters, SlotsInOrder
<1>2. /\ frame.screen = "HUD" /\ frame.rows = {}
      /\ DOMAIN frame = {"screen", "of", "rows", "picked"}
      /\ NoFrame \in [screen : {"HUD"}, of : Nat, rows : {{}}, picked : SUBSET Nat]
      /\ NoFrame.of = 0
  BY <1>1 DEF HudTypes, NoFrame, Picture
<1>3. ASSUME NEW rows, ShowPanel(rows)
      PROVE  /\ picture'.rows = rows /\ picture'.picked = frame.picked /\ loop' = "key"
             /\ picture'.screen = "HUD" /\ frame' = NoFrame
  BY <1>2, <1>3 DEF ShowPanel, LoopTo
<1>4. ASSUME NEW rows \in SUBSET active, ShowPanel(rows) PROVE HudInv'
  BY <1>1, <1>2, <1>3, <1>4 DEF HudInv, HudTypes, Marking
<1>5. CASE FindSelected
  <2> DEFINE found == IF frame.of > 0 THEN OfRank(ui, active) ELSE {}
  <2>1. /\ loop = "search" /\ ui' = ui
        /\ \/ /\ frame.of > 0 /\ found = {} /\ loop' = "fallback"
              /\ UNCHANGED <<picture, frame>>
           \/ ShowPanel(found)
    BY <1>5 DEF FindSelected, LoopAt, LoopTo
  <2>2. found \subseteq {Selected} \cap active
    BY <1>1, RankIsSlot DEF MarkedOnRadar, Selected
  <2>3. frame.of > 0 => (found = {} <=> Selected \notin active)
    BY <1>1, RankIsSlot DEF MarkedOnRadar, Selected
  <2>4. CASE ShowPanel(found)
    <3>1. HudInv'
      BY <1>4, <2>2, <2>4
    <3>2. found # {} => found = {Selected}
      BY <2>2
    <3>3. HudAgrees
      BY <1>1, <1>3, <2>1, <2>4, <3>2 DEF HudAgrees, Marking, Selected
    <3> QED
      BY <3>1, <3>3
  <2>5. CASE /\ frame.of > 0 /\ found = {} /\ loop' = "fallback"
             /\ UNCHANGED <<picture, frame>>
    <3>1. Selected \notin active /\ frame.picked = {}
      BY <1>1, <2>1, <2>3, <2>5 DEF Marking
    <3> QED
      BY <1>1, <2>1, <2>5, <3>1 DEF HudAgrees, HudInv, HudTypes, Marking, Selected
  <2> QED
    BY <2>1, <2>4, <2>5
<1>6. CASE FallBack
  <2>1. /\ loop = "fallback" /\ ShowPanel(FirstOf(active))
        /\ ui' = IF active = {} THEN ui ELSE [ui EXCEPT !.hud = 0]
    BY <1>6 DEF FallBack, LoopAt
  <2>2. active # {} /\ frame.picked = {} /\ FirstOf(active) = {1} /\ 1 \in active
    <3>1. active # {} /\ frame.picked = {}
      BY <1>1, <2>1 DEF Marking
    <3>2. FirstOf(active) = {1}
      BY <1>1, <3>1, RankIsSlot
    <3> QED
      BY <3>1, <3>2 DEF FirstOf
  <2>3. ui'.hud = 0
    BY <2>1, <2>2, UiFields DEF UiInv, ListsFit
  <2>4. ~(picture.screen = "HUD" /\ picture.rows = {Selected})
    BY <1>1, <2>1, <2>2 DEF Marking
  <2>5. HudAgrees
    BY <1>3, <2>1, <2>2, <2>3, <2>4 DEF HudAgrees, Selected
  <2> QED
    BY <1>4, <2>1, <2>2, <2>5
<1> QED
  BY <1>5, <1>6

LEMMA RadarFits ==
  ASSUME HudInv, UiInv, CountTargets \/ DrawRadar
  PROVE  HudInv'
<1>1. /\ SlotsInOrder /\ HudTypes /\ UNCHANGED <<active, picture, ui, bridge, command>>
      /\ ui.hud \in Nat /\ SlotsInOrder'
      /\ (picture.screen = "HUD" => picture.rows \subseteq active)
      /\ (frame.of > 0 => active # {})
  BY DEF HudInv, CountTargets, DrawRadar, bridgeVars, UiInv, ListsFit, Counters, SlotsInOrder
<1>2. CASE CountTargets
  <2>1. loop' = "radar" /\ frame' = Picture("HUD", Cardinality(active), {}, {})
    BY <1>2 DEF CountTargets, LoopTo
  <2>2. Cardinality(active) \in Nat /\ (Cardinality(active) > 0 => active # {})
    BY <1>1, SlotsCounted, FS_EmptySet
  <2>3. HudTypes' /\ (frame'.of > 0 => active' # {})
    BY <1>1, <2>1, <2>2 DEF HudTypes, Picture
  <2> QED
    BY <1>1, <2>1, <2>3 DEF HudInv, Marking
<1>3. CASE DrawRadar
  <2>1. /\ loop' = "search"
        /\ frame' = [frame EXCEPT !.picked = MarkedOnRadar(ui, active)]
    BY <1>3 DEF DrawRadar, LoopTo
  <2>2. /\ MarkedOnRadar(ui, active) \subseteq {Selected} \cap active
        /\ Selected \in active => MarkedOnRadar(ui, active) = {Selected}
        /\ Selected \in Nat
    BY <1>1 DEF MarkedOnRadar, Selected
  <2>3. HudTypes' /\ frame'.of = frame.of /\ frame'.picked = MarkedOnRadar(ui, active)
    BY <1>1, <2>1, <2>2 DEF HudTypes
  <2>4. Marking'
    BY <1>1, <2>1, <2>2, <2>3 DEF Marking, Selected
  <2> QED
    BY <1>1, <2>3, <2>4 DEF HudInv
<1> QED
  BY <1>2, <1>3

(* The bridge moves from screen to screen only.                            *)
LEMMA DigitsNavigate ==
  ASSUME NEW u, ListsFit(u), NEW key \in Digits
  PROVE  HandleKey(u, key, u.screen, TRUE).hud = u.hud
<1>1. key \in DOMAIN Shortcut /\ key \notin {"TAB", "BACK"}
  BY DEF Shortcut, Digits
<1>2. HandleKey(u, key, u.screen, TRUE) = NavigateTo(u, Shortcut[key])
  BY <1>1, Zenon DEF HandleKey
<1> QED
  BY <1>2, UiFields DEF NavigateTo, ListsFit

LEMMA HudStep == HudInv /\ UiInv /\ [Next]_vars => HudInv'
<1> SUFFICES ASSUME HudInv, UiInv, [Next]_vars PROVE HudInv'
  OBVIOUS
<1>1. ListsFit(ui) /\ (bridge = "shortcut" => command.key \in Digits)
  BY DEF UiInv, HudInv, HudTypes
<1>2. CASE CountTargets \/ DrawRadar
  BY <1>2, RadarFits
<1>3. CASE FindSelected \/ FallBack
  BY <1>3, PanelFits
<1>4. CASE DrawFrame
  <2>1. PICK records \in 0..(LogMax + 1) :
             picture' = Draw(ui, curr, Cardinality(active), records, picture)
    BY <1>4 DEF DrawFrame
  <2>2. /\ curr # "HUD" /\ loop' = "key"
        /\ UNCHANGED <<frame, active, bridge, command>>
    BY <1>4 DEF DrawFrame, LoopTo, bridgeVars
  <2>3. picture' = picture \/ picture'.screen # "HUD"
    BY <2>1, <2>2, OtherPictures
  <2> QED
    BY <2>2, <2>3 DEF HudInv, HudTypes, Marking, SlotsInOrder
<1>5. CASE ReadKey \/ Press \/ ReadMode \/ FollowMode \/ ReadTicks \/ WriteTicks
             \/ ReadAngle \/ WriteAngle \/ ReadScreen
  <2>1. /\ UNCHANGED <<frame, picture, bridge, command>>
        /\ loop' \notin {"search", "fallback"}
    BY <1>5 DEF ReadKey, Press, ReadMode, FollowMode, ReadTicks, WriteTicks, ReadAngle,
       WriteAngle, ReadScreen, LoopTo, bridgeVars
  <2> QED
    BY <1>1, <2>1, HudUntouched
<1>6. CASE Bridge
  <2>1. UNCHANGED <<frame, picture, loop>>
    BY <1>6 DEF Bridge, ReadLine, RunCommand, ShortcutKey, SetScenario, ClearTicks,
       CopyTemplates, AdjustDrones, SetSimulationMode, SetEnabled, uiVars
  <2>2. bridge' = "shortcut" => command'.key \in Digits
    <3>1. CASE ReadLine
      BY <3>1 DEF ReadLine, BridgeTo, FirstStep
    <3>2. CASE RunCommand
      BY <3>2 DEF RunCommand, ShortcutKey, SetScenario, ClearTicks, CopyTemplates,
         AdjustDrones, SetSimulationMode, SetEnabled, BridgeTo
    <3> QED
      BY <1>6, <3>1, <3>2 DEF Bridge
  <2>3. ui'.hud = ui.hud
    <3>1. CASE ShortcutKey
      <4>1. /\ command.key \in Digits
            /\ ui' = HandleKey(ui, command.key, ui.screen, TRUE)
        BY <1>1, <3>1 DEF ShortcutKey, BridgeAt
      <4>2. HandleKey(ui, command.key, ui.screen, TRUE).hud = ui.hud
        <5>1. ListsFit(ui)
          BY ONLY <1>1
        <5>2. command.key \in Digits
          BY ONLY <4>1
        <5> QED
          BY ONLY <5>1, <5>2, DigitsNavigate, Zenon
      <4> QED
        BY ONLY <4>1, <4>2
    <3>2. CASE SetSimulationMode
      BY <1>1, <3>2, UiFields DEF SetSimulationMode, SetMode, ListsFit
    <3>3. CASE ReadLine \/ SetScenario \/ ClearTicks \/ CopyTemplates \/ AdjustDrones
                 \/ SetEnabled
      BY <3>3 DEF ReadLine, SetScenario, ClearTicks, CopyTemplates, AdjustDrones,
         SetEnabled, uiVars
    <3> QED
      BY <1>6, <3>1, <3>2, <3>3 DEF Bridge, RunCommand
  <2> QED
    BY <2>1, <2>2, <2>3, HudUntouched
<1>7. CASE Register \/ UNCHANGED vars
  <2>1. UNCHANGED <<frame, picture, loop, ui, bridge, command>>
    BY <1>7 DEF Register, vars, uiVars, bridgeVars
  <2> QED
    BY <1>1, <2>1, HudUntouched
<1> QED
  BY <1>2, <1>3, <1>4, <1>5, <1>6, <1>7 DEF Next, UiTask, DrawHud

(* The HUD marks the aircraft it shows or, when the selection was past the *)
(* last one, none, and the next frame makes that good, for any number of   *)
(* slots and whatever joins in the middle of a frame (screen_hud_render).  *)
THEOREM HudMarks == Spec => HudMarksShown
<1>1. HudInv /\ UiInv /\ [Next]_vars => [FindSelected \/ FallBack => HudAgrees]_vars
  BY PanelFits
<1>2. HudInv /\ UiInv /\ [Next]_vars =>
        [FindSelected \/ FallBack =>
           LET shows == picture'.rows  marks == picture'.picked
           IN  loop' = "key" /\ shows # {} =>
                 /\ marks \subseteq shows
                 /\ shows = {ui'.hud + 1}
                 /\ picture.screen = "HUD" /\ picture.rows = {ui.hud + 1} =>
                      marks = shows]_vars
  BY <1>1 DEF HudAgrees
<1> QED
  BY <1>2, HudStarts, HudStep, UiInvariance, PTL DEF Spec, HudMarksShown

=============================================================================
