------------------------------ MODULE Console ------------------------------
(***************************************************************************)
(* Two tasks that work on the screens' state and on the simulation without *)
(* a lock: the UI task of main/task_manager.c on core 1, and the serial    *)
(* bridge of main/serial_bridge.c on core 0, which runs the commands of a  *)
(* browser; with them components/services/src/simulation_service.c.        *)
(*                                                                         *)
(* Each access of one task to what the other writes is a step.  The bytes  *)
(* of a command are collected in variables of the bridge alone, so that a  *)
(* line is one step; the unit of its length is one word, a command or a    *)
(* filler.  What the browser is sent is left out, the greeting too, and    *)
(* the key matrix is the set of keys that may come.                        *)
(***************************************************************************)
EXTENDS Screens

CONSTANTS
    Pressed,      \* the keys that are pressed
    Sent,         \* the commands that are sent
    Drones,       \* SIM_DRONE_COUNT
    MaxCommand,   \* sizeof(command) - 1, in words
    MaxInputs,    \* bound on keys and lines
    MaxTicks      \* bound on s_sim_tick_count

ASSUME ConsoleAssumption ==
    /\ Pressed \subseteq Keys
    /\ {Drones, MaxCommand} \subseteq Nat \ {0} /\ {MaxInputs, MaxTicks} \subseteq Nat

VARIABLES
    ui,                          \* s_ui_state and the statics of the screens
    loop, at, wanted, curr,      \* the UI task: place, screen of a key, mode, screen of a frame
    picture, frame,              \* what is on the display, what is drawn of a HUD
    active,                      \* the slots of the registry that hold an active aircraft
    bridge, command, resets,     \* the bridge: place, command it runs, resets it has left
    enabled, scenario, ticks,    \* s_sim_enabled, s_sim_scenario, s_sim_tick_count
    drones,                      \* s_drones: angle and angle_speed_deg
    loaded, flying,              \* what the tick has read, the drone it is at
    crossed,                     \* did a tick overlap the last reset
    inputs                       \* keys and lines so far

uiVars     == <<ui, loop, at, wanted, curr, picture, frame>>
bridgeVars == <<bridge, command, resets>>
simVars    == <<enabled, scenario, ticks, drones, loaded, flying, crossed>>
vars       == <<uiVars, bridgeVars, simVars, active, inputs>>

SIMULATION == Len(ModeItems)
Scenarios  == {"FIELD_DEMO", "SPARSE", "DENSE"}

(* The degrees a tick turns a drone by, of which a scenario takes 0.40 or  *)
(* 1.75 (apply_scenario): in an eighth of the first template's degree.     *)
TemplateSpeed == 20
Scaled(s, d, speed) ==
    CASE s = "SPARSE" /\ d > 1 -> (speed * 40) \div 100
      [] s = "DENSE" -> (speed * 175) \div 100
      [] OTHER -> speed

Template == [d \in 1..Drones |-> [angle |-> 0, speed |-> TemplateSpeed]]

NoCommand == [kind |-> "other"]

NoFrame == Picture("HUD", 0, {}, {})

Init ==
    /\ ui = FirstUi
    /\ loop = "key" /\ at = "MAIN_MENU" /\ wanted = FALSE /\ curr = "MAIN_MENU"
    /\ picture = Picture("SPLASH", 0, {}, {}) /\ frame = NoFrame /\ active = {}
    /\ bridge = "read" /\ command = NoCommand /\ resets = 0
    /\ enabled = FALSE /\ scenario = "FIELD_DEMO" /\ ticks = 0 /\ drones = Template
    /\ loaded = 0 /\ flying = 1 /\ crossed = FALSE
    /\ inputs = 0

-----------------------------------------------------------------------------
(* The UI task, task_ui_render. *)

LoopAt(place) == loop = place
LoopTo(place) == loop' = place

(* A frame begins: a key is read, and for which screen it is.              *)
ReadKey ==
    /\ LoopAt("key")
    /\ \/ /\ inputs < MaxInputs
          /\ inputs' = inputs + 1 /\ at' = ui.screen /\ LoopTo("press")
       \/ inputs' = inputs /\ at' = at /\ LoopTo("mode")
    /\ UNCHANGED <<ui, wanted, curr, picture, frame, active, bridgeVars, simVars>>

Press ==
    /\ LoopAt("press")
    /\ \E key \in Pressed, ok \in BOOLEAN : ui' = HandleKey(ui, key, at, ok)
    /\ LoopTo("mode")
    /\ UNCHANGED <<at, wanted, curr, picture, frame, active, bridgeVars, simVars, inputs>>

ReadMode ==
    /\ LoopAt("mode")
    /\ wanted' = ui.modes[SIMULATION]
    /\ LoopTo("enable")
    /\ UNCHANGED <<ui, at, curr, picture, frame, active, bridgeVars, simVars, inputs>>

\* Seeded fault: the simulation is not switched off with its mode.
FollowMode_OnlyOn ==
    /\ LoopAt("enable")
    /\ enabled' = (enabled \/ wanted)
    /\ \/ LoopTo("frame") /\ UNCHANGED flying
       \/ wanted /\ LoopTo("tick") /\ flying' = 1
    /\ UNCHANGED <<ui, at, wanted, curr, picture, frame, active, bridgeVars,
                   scenario, ticks, drones, loaded, crossed, inputs>>

(* simulation_service_set_enabled; every 500 ms a tick follows.            *)
FollowMode ==
    /\ LoopAt("enable")
    /\ enabled' = wanted
    /\ \/ LoopTo("frame") /\ UNCHANGED flying
       \/ wanted /\ LoopTo("tick") /\ flying' = 1
    /\ UNCHANGED <<ui, at, wanted, curr, picture, frame, active, bridgeVars,
                   scenario, ticks, drones, loaded, crossed, inputs>>

(* simulation_service_tick: the counter is read and written, then each     *)
(* drone's angle.                                                          *)
ReadTicks ==
    /\ LoopAt("tick")
    /\ \/ /\ enabled /\ ticks < MaxTicks
          /\ loaded' = ticks /\ LoopTo("count")
          /\ crossed' = (crossed \/ bridge \in {"copy", "adjust"})
       \/ /\ ~(enabled /\ ticks < MaxTicks)
          /\ UNCHANGED <<loaded, crossed>> /\ LoopTo("frame")
    /\ UNCHANGED <<ui, at, wanted, curr, picture, frame, active, bridgeVars,
                   enabled, scenario, ticks, drones, flying, inputs>>

WriteTicks ==
    /\ LoopAt("count")
    /\ ticks' = loaded + 1
    /\ LoopTo("angle")
    /\ UNCHANGED <<ui, at, wanted, curr, picture, frame, active, bridgeVars,
                   enabled, scenario, drones, loaded, flying, crossed, inputs>>

ReadAngle ==
    /\ LoopAt("angle")
    /\ loaded' = drones[flying].angle + drones[flying].speed
    /\ LoopTo("advance")
    /\ UNCHANGED <<ui, at, wanted, curr, picture, frame, active, bridgeVars,
                   enabled, scenario, ticks, drones, flying, crossed, inputs>>

WriteAngle ==
    /\ LoopAt("advance")
    /\ drones' = [drones EXCEPT ![flying].angle = loaded]
    /\ IF flying < Drones THEN flying' = flying + 1 /\ LoopTo("angle")
       ELSE flying' = 1 /\ LoopTo("frame")
    /\ loaded' = 0
    /\ UNCHANGED <<ui, at, wanted, curr, picture, frame, active, bridgeVars,
                   enabled, scenario, ticks, crossed, inputs>>

ReadScreen ==
    /\ LoopAt("frame")
    /\ curr' = ui.screen
    /\ LoopTo("draw")
    /\ UNCHANGED <<ui, at, wanted, picture, frame, active, bridgeVars, simVars, inputs>>

(* A screen other than the HUD.  The records the logger buffers come and   *)
(* go, so that a frame may find any number of them.                        *)
DrawFrame ==
    /\ LoopAt("draw") /\ curr # "HUD"
    /\ \E records \in 0..(LogMax + 1) :
         /\ picture' = Draw(ui, curr, Cardinality(active), records, picture)
         /\ ui' = Drawn(ui, curr, records)
    /\ LoopTo("key")
    /\ UNCHANGED <<at, wanted, curr, frame, active, bridgeVars, simVars, inputs>>

(* screen_hud_render reads the registry four times, but for its number     *)
(* without the mutex: the number of aircraft, the radar, and two searches. *)
CountTargets ==
    /\ LoopAt("draw") /\ curr = "HUD"
    /\ frame' = Picture("HUD", Cardinality(active), {}, {})
    /\ LoopTo("radar")
    /\ UNCHANGED <<ui, at, wanted, curr, picture, active, bridgeVars, simVars, inputs>>

DrawRadar ==
    /\ LoopAt("radar")
    /\ frame' = [frame EXCEPT !.picked = MarkedOnRadar(ui, active)]
    /\ LoopTo("search")
    /\ UNCHANGED <<ui, at, wanted, curr, picture, active, bridgeVars, simVars, inputs>>

ShowPanel(rows) ==
    /\ picture' = [frame EXCEPT !.rows = rows]
    /\ frame' = NoFrame
    /\ LoopTo("key")

FindSelected ==
    /\ LoopAt("search")
    /\ LET found == IF frame.of > 0 THEN OfRank(ui, active) ELSE {}
       IN  IF frame.of > 0 /\ found = {}
           THEN LoopTo("fallback") /\ UNCHANGED <<picture, frame>>
           ELSE ShowPanel(found)
    /\ UNCHANGED <<ui, at, wanted, curr, active, bridgeVars, simVars, inputs>>

\* Seeded fault: the selection that is not there is kept.
FallBack_KeepsSelection ==
    /\ LoopAt("fallback")
    /\ ShowPanel(FirstOf(active))
    /\ UNCHANGED <<ui, at, wanted, curr, active, bridgeVars, simVars, inputs>>

FallBack ==
    /\ LoopAt("fallback")
    /\ ShowPanel(FirstOf(active))
    /\ ui' = IF active = {} THEN ui ELSE [ui EXCEPT !.hud = 0]
    /\ UNCHANGED <<at, wanted, curr, active, bridgeVars, simVars, inputs>>

DrawHud == CountTargets \/ DrawRadar \/ FindSelected \/ FallBack

UiTask == ReadKey \/ Press \/ ReadMode \/ FollowMode \/ ReadTicks \/ WriteTicks
              \/ ReadAngle \/ WriteAngle \/ ReadScreen \/ DrawFrame \/ DrawHud

(* A decoder on core 0 registers an aircraft, in the first free slot.  No  *)
(* task frees a slot or calls registry_update_status, so that one that is  *)
(* there stays active.                                                     *)
Register ==
    /\ \E i \in 1..MaxAircraft \ active :
         /\ \A j \in 1..MaxAircraft \ active : i <= j
         /\ active' = active \cup {i}
    /\ UNCHANGED <<uiVars, bridgeVars, simVars, inputs>>

-----------------------------------------------------------------------------
(* The serial bridge. *)

BridgeAt(place) == bridge = place
BridgeTo(place) == bridge' = place

(* One word of a line: with the buffer full, all of it is dropped.         *)
Collect(text, word) == IF Len(text) < MaxCommand THEN Append(text, word) ELSE <<>>

Filler == [kind |-> "filler"]
Lines  == {<<c>> : c \in Sent}
              \cup {[i \in 1..(MaxCommand + 1) |-> Filler] \o <<c>> : c \in Sent}

(* handle_command looks for the words of a command anywhere in the text.   *)
CommandOf(text) ==
    IF \E i \in DOMAIN text : text[i] # Filler
    THEN text[CHOOSE i \in DOMAIN text : text[i] # Filler] ELSE NoCommand

FirstStep(c) ==
    CASE c.kind = "shortcut" -> IF c.key \in Digits THEN "shortcut" ELSE "read"
      [] c.kind = "simulation" -> IF c.scenario \in Scenarios THEN "scenario" ELSE "clear"
      [] OTHER -> "read"

ReadLine ==
    /\ BridgeAt("read") /\ inputs < MaxInputs
    /\ inputs' = inputs + 1
    /\ \E line \in Lines :
         /\ command' = CommandOf(FoldLeft(Collect, <<>>, line))
         /\ BridgeTo(FirstStep(command'))
    /\ resets' = 1
    /\ UNCHANGED <<uiVars, simVars, active>>

(* A shortcut is a key press on core 0.                                    *)
ShortcutKey ==
    /\ BridgeAt("shortcut") /\ BridgeTo("read")
    /\ ui' = HandleKey(ui, command.key, ui.screen, TRUE)
    /\ UNCHANGED <<loop, at, wanted, curr, picture, frame, active,
                   command, resets, simVars, inputs>>

(* simulation_service_set_scenario, which resets by itself.                *)
SetScenario ==
    /\ BridgeAt("scenario") /\ BridgeTo("clear")
    /\ scenario' = command.scenario /\ resets' = 2
    /\ UNCHANGED <<uiVars, active, command,
                   enabled, ticks, drones, loaded, flying, crossed, inputs>>

Ticking == loop \in {"count", "angle", "advance"}

(* simulation_service_reset: the counter, then apply_scenario's copy of    *)
(* the templates and its changes to them.                                  *)
ClearTicks ==
    /\ BridgeAt("clear") /\ BridgeTo("copy")
    /\ ticks' = 0
    /\ crossed' = Ticking
    /\ UNCHANGED <<uiVars, active, command, resets,
                   enabled, scenario, drones, loaded, flying, inputs>>

\* Seeded fault: the profile is copied, the angle is not.
CopyTemplates_KeepsAngles ==
    /\ BridgeAt("copy") /\ BridgeTo("adjust")
    /\ drones' = [d \in 1..Drones |-> [Template[d] EXCEPT !.angle = drones[d].angle]]
    /\ UNCHANGED <<uiVars, active, command, resets,
                   enabled, scenario, ticks, loaded, flying, crossed, inputs>>

CopyTemplates ==
    /\ BridgeAt("copy") /\ BridgeTo("adjust")
    /\ drones' = Template
    /\ UNCHANGED <<uiVars, active, command, resets,
                   enabled, scenario, ticks, loaded, flying, crossed, inputs>>

AdjustDrones ==
    /\ BridgeAt("adjust")
    /\ drones' = [d \in 1..Drones |-> [drones[d] EXCEPT !.speed = Scaled(scenario, d, @)]]
    /\ resets' = resets - 1
    /\ BridgeTo(IF resets > 1 THEN "clear" ELSE "mode")
    /\ UNCHANGED <<uiVars, active, command,
                   enabled, scenario, ticks, loaded, flying, crossed, inputs>>

SetSimulationMode ==
    /\ BridgeAt("mode") /\ BridgeTo("enable")
    /\ ui' = SetMode(ui, SIMULATION, command.enabled)
    /\ UNCHANGED <<loop, at, wanted, curr, picture, frame, active,
                   command, resets, simVars, inputs>>

SetEnabled ==
    /\ BridgeAt("enable") /\ BridgeTo("read")
    /\ enabled' = command.enabled
    /\ UNCHANGED <<uiVars, active, command, resets,
                   scenario, ticks, drones, loaded, flying, crossed, inputs>>

RunCommand == ShortcutKey \/ SetScenario \/ ClearTicks \/ CopyTemplates \/ AdjustDrones
                 \/ SetSimulationMode \/ SetEnabled

Bridge == ReadLine \/ RunCommand

Next == UiTask \/ Register \/ Bridge

(* Both tasks are scheduled for ever; nobody need press or send anything.  *)
Fairness == WF_vars(UiTask) /\ WF_vars(RunCommand)

Spec == Init /\ [][Next]_vars /\ Fairness

-----------------------------------------------------------------------------
(* Whatever page and row the keys have left selected, and however many     *)
(* aircraft there are, a page of the scanner draws one row as selected; in *)
(* the log that row is the one the keys chose, wherever they scrolled,     *)
(* unless the records have become fewer than that (screen_scanner_render,  *)
(* screen_log_render, screen_log_handle_key).                              *)
SelectionShown ==
    [][DrawFrame =>
         /\ curr = "SCANNER" /\ active # {} => Cardinality(picture'.picked) = 1
         /\ curr = "LOG" /\ ui.row <= picture'.of => picture'.picked = {ui.row}]_vars

(* A HUD that has a yellow blip and a panel means the same aircraft by     *)
(* them, though the one goes by slot and the other by rank, and aircraft   *)
(* join meanwhile.  A selection past the last aircraft has no blip; but    *)
(* the frame leaves the aircraft it showed selected, and the next one that *)
(* finds it selected has both (draw_radar_scope, screen_hud_render).       *)
HudMarksShown ==
    [][FindSelected \/ FallBack =>
         LET shows == picture'.rows  marks == picture'.picked
         IN  loop' = "key" /\ shows # {} =>
               /\ marks \subseteq shows
               /\ shows = {ui'.hud + 1}
               /\ picture.screen = "HUD" /\ picture.rows = {ui.hud + 1} => marks = shows]_vars

(* The screen that stays current, through keys and shortcuts that cross,   *)
(* gets drawn and stays so; the aircraft list has no drawing function      *)
(* (task_ui_render).                                                       *)
ShownFollows ==
    \A s \in Range(Order) \ {"AIRCRAFT_LIST"} :
        <>[](ui.screen = s) => <>[](picture.screen = s)

(* The simulation runs in the end as its mode says, whichever of the two   *)
(* tasks set the mode last and in whatever order they wrote mode and flag  *)
(* (handle_command, task_ui_render).                                       *)
EnabledFollowsMode ==
    \A b \in BOOLEAN :
        <>[](ui.modes[SIMULATION] = b) => <>[](enabled = b)

(* "Reset trajectories to a deterministic initial state for repeatable     *)
(* tests" (simulation_service.h): after a reset that no tick overlapped,   *)
(* whatever an earlier one left, each drone has made as many steps of the  *)
(* scenario's profile as the counter says.  A tick that does overlap it,   *)
(* which no lock prevents, leaves a drone ahead or its counter.            *)
ResetsAreRepeatable ==
    BridgeAt("read") /\ ~Ticking /\ ~crossed =>
        \A d \in 1..Drones :
            LET speed == Scaled(scenario, d, TemplateSpeed)
            IN  drones[d] = [angle |-> ticks * speed, speed |-> speed]

=============================================================================
