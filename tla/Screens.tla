------------------------------ MODULE Screens ------------------------------
(***************************************************************************)
(* The screens of components/ui: what a key does to the state they keep,   *)
(* and which rows of a list a screen draws.  The state is one record, ui;  *)
(* module Console says which task reads and writes it when.                *)
(*                                                                         *)
(* The BACK and MENU cases of the single screens are left out, because     *)
(* ui_manager_handle_key answers both keys before a screen sees them; so   *)
(* are the digits in the menu.  Coordinates, colours and texts are left    *)
(* out.  Distances of the map are in eighths of a metre.                   *)
(***************************************************************************)
EXTENDS Integers, Sequences, FiniteSets, SequencesExt

CONSTANTS
    MaxAircraft,   \* MAX_AIRCRAFT, the slots of the registry
    PageSize,      \* UI_PAGE_SIZE, SCANNER_ITEMS_PER_PAGE
    Pages,         \* values of scanner_page, a uint8_t
    LogPage,       \* SCREEN_LOG_ITEMS_PER_PAGE
    LogMax         \* SCREEN_LOG_MAX_RECORDS

ASSUME ScreensAssumption ==
    /\ {MaxAircraft, PageSize, Pages, LogPage, LogMax} \subseteq Nat \ {0}
    /\ MaxAircraft < Pages * PageSize

Order == <<"SCANNER", "MAP", "HUD", "STATUS", "MODES", "SETTINGS", "LOG",
           "MAIN_MENU", "AIRCRAFT_LIST">>

Menu == <<"SCANNER", "HUD", "MAP", "MODES", "SETTINGS", "LOG", "STATUS">>

ModeItems == <<"WIFI", "BLE", "LORA", "GPS", "ALERTS", "SERIAL", "SIMULATION">>

(* The settings: three of a kind, the first alert setting is the sound.    *)
Settings ==
    [ALERT   |-> <<"sound", "proximity_threshold_m", "proximity_repeat_interval_s">>,
     MONITOR |-> <<"remoteid_cycle_ms", "lora_dwell_time_ms", "module_poll_interval_ms">>]

Limits ==
    [proximity_threshold_m       |-> [low |-> 50,   high |-> 5000,  step |-> 50],
     proximity_repeat_interval_s |-> [low |-> 5,    high |-> 60,    step |-> 5],
     remoteid_cycle_ms           |-> [low |-> 1000, high |-> 10000, step |-> 500],
     lora_dwell_time_ms          |-> [low |-> 10,   high |-> 200,   step |-> 10],
     module_poll_interval_ms     |-> [low |-> 100,  high |-> 2000,  step |-> 100]]

(* config_store_get_defaults, which screen_settings_init starts from.      *)
Defaults ==
    [proximity_threshold_m |-> 500, proximity_repeat_interval_s |-> 10,
     remoteid_cycle_ms |-> 3000, lora_dwell_time_ms |-> 50, module_poll_interval_ms |-> 500]

MinScale == 8 * 50
MaxScale == 8 * 10000

(* ui_manager_init and the init functions of the screens; modes are the    *)
(* initial values of s_modes_state.  silent is the alert engine's.         *)
FirstUi ==
    [screen |-> "MAIN_MENU", previous |-> "MAIN_MENU", menu |-> 1,
     page |-> 0, sel |-> 0, scale |-> 8 * 500, hud |-> 0,
     mode |-> 1, modes |-> [m \in 1..Len(ModeItems) |-> ModeItems[m] # "SIMULATION"],
     category |-> "ALERT", item |-> 1, editing |-> FALSE, sound |-> TRUE, values |-> Defaults,
     row |-> 0, scroll |-> 0, total |-> 0, exported |-> FALSE,
     silent |-> FALSE]

-----------------------------------------------------------------------------
(* Moving about. *)

Lower(a, b) == IF a < b THEN a ELSE b
Upper(a, b) == IF a > b THEN a ELSE b

(* The next and the one before of n things in a ring that starts at 1.     *)
After(i, n)  == IF i < n THEN i + 1 ELSE 1
Before(i, n) == IF i > 1 THEN i - 1 ELSE n

Position(screen)   == CHOOSE i \in 1..Len(Order) : Order[i] = screen
NextScreen(screen) == Order[After(Position(screen), Len(Order))]
PrevScreen(screen) == Order[Before(Position(screen), Len(Order))]

(* ui_manager_navigate_to *)
NavigateTo(u, screen) == [u EXCEPT !.previous = u.screen, !.screen = screen]

-----------------------------------------------------------------------------
(* The key handlers of the screens: the state a key leaves. *)

Digits   == {"1", "2", "3", "4", "5", "6", "7"}
Shortcut == [k \in Digits \cup {"MENU"} |->
                CASE k = "1" -> "SCANNER"  [] k = "2" -> "HUD"  [] k = "3" -> "MAP"
                  [] k = "4" -> "MODES"    [] k = "5" -> "SETTINGS"
                  [] k = "6" -> "LOG"      [] k = "7" -> "STATUS"
                  [] k = "MENU" -> "MAIN_MENU"]

Keys == DOMAIN Shortcut \cup {"UP", "DOWN", "LEFT", "RIGHT", "ENTER", "SPACE", "BACK", "TAB"}

Chosen == {"ENTER", "SPACE"}

(* screen_menu_handle_key *)
MenuKey(u, key) ==
    CASE key = "UP"   -> [u EXCEPT !.menu = Before(@, Len(Menu))]
      [] key = "DOWN" -> [u EXCEPT !.menu = After(@, Len(Menu))]
      [] key \in Chosen -> NavigateTo(u, Menu[u.menu])
      [] OTHER -> u

(* handle_key_scanner: a page beyond the last one is let be.               *)
ScannerKey(u, key) ==
    CASE key = "UP"   -> [u EXCEPT !.sel = Upper(@ - 1, 0)]
      [] key = "DOWN" -> [u EXCEPT !.sel = Lower(@ + 1, PageSize - 1)]
      [] key = "LEFT" /\ u.page > 0 -> [u EXCEPT !.page = @ - 1, !.sel = 0]
      [] key = "RIGHT" -> [u EXCEPT !.page = (@ + 1) % Pages, !.sel = 0]
      [] OTHER -> u

(* handle_key_map *)
MapKey(u, key) ==
    CASE key = "UP"   -> [u EXCEPT !.scale = Upper(@ \div 2, MinScale)]
      [] key = "DOWN" -> [u EXCEPT !.scale = Lower(@ * 2, MaxScale)]
      [] OTHER -> u

(* screen_hud_handle_key *)
HudKey(u, key) ==
    CASE key \in {"UP", "LEFT"}    -> [u EXCEPT !.hud = Upper(@ - 1, 0)]
      [] key \in {"DOWN", "RIGHT"} -> [u EXCEPT !.hud = Lower(@ + 1, MaxAircraft - 1)]
      [] OTHER -> u

(* screen_modes_set_enabled *)
SetMode(u, m, enabled) ==
    [u EXCEPT !.modes[m] = enabled,
              !.silent = IF ModeItems[m] = "ALERTS" THEN ~enabled ELSE @]

(* screen_modes_handle_key *)
ModesKey(u, key) ==
    CASE key = "UP"   -> [u EXCEPT !.mode = Before(@, Len(ModeItems))]
      [] key = "DOWN" -> [u EXCEPT !.mode = After(@, Len(ModeItems))]
      [] key \in Chosen -> SetMode(u, u.mode, ~u.modes[u.mode])
      [] OTHER -> u

(* adjust_value *)
Adjust(u, up) ==
    LET name == Settings[u.category][u.item]
    IN  IF name = "sound" THEN [u EXCEPT !.sound = ~@, !.silent = u.sound]
        ELSE LET limit == Limits[name]
             IN  [u EXCEPT !.values[name] =
                     IF up THEN IF @ < limit.high THEN @ + limit.step ELSE @
                     ELSE IF @ > limit.low THEN @ - limit.step ELSE @]

(* screen_settings_handle_key; nothing of it reaches the configuration.    *)
SettingsKey(u, key) ==
    IF u.editing
    THEN CASE key \in {"LEFT", "RIGHT"} -> Adjust(u, key = "RIGHT")
           [] key = "ENTER" -> [u EXCEPT !.editing = FALSE]
           [] OTHER -> u
    ELSE CASE key = "UP"   -> [u EXCEPT !.item = Before(@, 3)]
           [] key = "DOWN" -> [u EXCEPT !.item = After(@, 3)]
           [] key \in {"LEFT", "RIGHT"} ->
                [u EXCEPT !.category = IF @ = "ALERT" THEN "MONITOR" ELSE "ALERT", !.item = 1]
           [] key \in Chosen ->
                IF Settings[u.category][u.item] = "sound" THEN Adjust(u, TRUE)
                ELSE [u EXCEPT !.editing = TRUE]
           [] OTHER -> u

\* Seeded fault: the list scrolls one row too late.
LogKey_ScrollsLate(u, key, ok) ==
    CASE key = "UP" /\ u.row > 0 ->
           [u EXCEPT !.row = @ - 1,
                     !.scroll = IF u.row > 1 /\ u.row - 2 < @ THEN u.row - 2 ELSE @]
      [] key = "DOWN" /\ u.row < u.total ->
           [u EXCEPT !.row = @ + 1,
                     !.scroll = IF u.row > @ + LogPage THEN u.row - LogPage + 1 ELSE @]
      [] key = "ENTER" /\ u.row = 0 -> [u EXCEPT !.exported = ok]
      [] OTHER -> u

(* screen_log_handle_key: row 0 is the export, which may fail; the number  *)
(* of records is that of the last time the screen was drawn.               *)
LogKey(u, key, ok) ==
    CASE key = "UP" /\ u.row > 0 ->
           [u EXCEPT !.row = @ - 1,
                     !.scroll = IF u.row > 1 /\ u.row - 2 < @ THEN u.row - 2 ELSE @]
      [] key = "DOWN" /\ u.row < u.total ->
           [u EXCEPT !.row = @ + 1,
                     !.scroll = IF u.row >= @ + LogPage THEN u.row - LogPage + 1 ELSE @]
      [] key = "ENTER" /\ u.row = 0 -> [u EXCEPT !.exported = ok]
      [] OTHER -> u

(* handle_key_generic *)
GenericKey(u, key) ==
    CASE key \in Chosen             -> NavigateTo(u, "MAIN_MENU")
      [] key \in {"LEFT", "UP"}     -> NavigateTo(u, PrevScreen(u.screen))
      [] key \in {"RIGHT", "DOWN"}  -> NavigateTo(u, NextScreen(u.screen))
      [] OTHER -> u

(* The second switch of ui_manager_handle_key, over the current screen; ok *)
(* says whether a file can be written.                                     *)
ScreenKey(u, key, at, ok) ==
    CASE at = "MAIN_MENU"   -> MenuKey(u, key)
      [] at = "SCANNER"     -> ScannerKey(u, key)
      [] at = "MAP"         -> MapKey(u, key)
      [] at = "HUD"         -> HudKey(u, key)
      [] at = "MODES"       -> ModesKey(u, key)
      [] at = "SETTINGS"    -> SettingsKey(u, key)
      [] at = "LOG"         -> LogKey(u, key, ok)
      [] OTHER              -> GenericKey(u, key)

(* ui_manager_handle_key, for the screen it found current.                 *)
HandleKey(u, key, at, ok) ==
    CASE key \in DOMAIN Shortcut -> NavigateTo(u, Shortcut[key])
      [] key = "TAB" -> NavigateTo(u, NextScreen(at))
      [] key = "BACK" /\ at # "MAIN_MENU" -> NavigateTo(u, "MAIN_MENU")
      [] OTHER -> ScreenKey(u, key, at, ok)

-----------------------------------------------------------------------------
(* What a frame draws of a list, and what drawing changes: a picture is    *)
(* the screen, the length of the list, and the rows of it that are drawn,  *)
(* and drawn as selected.                                                  *)

Picture(screen, of, rows, picked) ==
    [screen |-> screen, of |-> of, rows |-> rows, picked |-> picked]

(* screen_scanner_render, with n active aircraft. *)
DrawScanner(u, n) ==
    LET total == (n + PageSize - 1) \div PageSize
        first == Lower(u.page, total - 1) * PageSize
        rows  == {i \in 1..n : i > first /\ i <= first + PageSize}
    IN  Picture("SCANNER", n, rows,
                {i \in rows : i = first + 1 + Lower(u.sel, Cardinality(rows) - 1)})

(* The HUD, in the order it is drawn: the radar, whose yellow blip is      *)
(* chosen by slot (draw_radar_scope); the aircraft with the selected rank, *)
(* whose data the panel shows; and, if there is none, the first one        *)
(* (screen_hud_render).                                                    *)
MarkedOnRadar(u, active) == {i \in active : i = u.hud + 1}
OfRank(u, active) == {i \in active : Cardinality({j \in active : j < i}) = u.hud}
FirstOf(active)   == {i \in active : \A j \in active : i <= j}

(* screen_log_render: row 0 is the export.                                 *)
LogTotal(records) == Lower(records, LogMax)
DrawLog(u, records) ==
    LET rows == {0} \cup {i \in 1..LogTotal(records) : i > u.scroll /\ i <= u.scroll + LogPage}
    IN  Picture("LOG", LogTotal(records), rows,
                {i \in rows : i = u.row /\ (i = 0 => u.scroll = 0)})

\* Seeded fault: the state screen has no case either.
Draw_NoStatus(u, screen, n, records, before) ==
    CASE screen = "SCANNER" -> DrawScanner(u, n)
      [] screen = "LOG"     -> DrawLog(u, records)
      [] screen \in {"STATUS", "AIRCRAFT_LIST"} -> before
      [] OTHER -> Picture(screen, 0, {}, {})

(* The picture after a frame: the content of one screen, or, of a screen   *)
(* without a case in task_ui_render, what was there before.                *)
Draw(u, screen, n, records, before) ==
    CASE screen = "SCANNER" -> DrawScanner(u, n)
      [] screen = "LOG"     -> DrawLog(u, records)
      [] screen = "AIRCRAFT_LIST" -> before
      [] OTHER -> Picture(screen, 0, {}, {})

(* What screen_log_render writes back; the other functions that draw in    *)
(* one step write nothing.                                                 *)
Drawn(u, screen, records) ==
    IF screen = "LOG" THEN [u EXCEPT !.total = LogTotal(records)] ELSE u
=============================================================================
