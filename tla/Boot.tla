-------------------------------- MODULE Boot --------------------------------
(***************************************************************************)
(* The start of the firmware, main/main.c, composed with the decoder it    *)
(* prepares: the phases of app_main in order, each with the modules that   *)
(* may fail in it, the two files of the SD card, and the tasks.            *)
(*                                                                         *)
(* config.json says whether it is there and parses, and of every field     *)
(* whether it is absent, in its range, or not.  signatures.csv is the      *)
(* sequence of its lines, empty when there is no such file.                *)
(***************************************************************************)
EXTENDS TelemetryDecoder

CONSTANT Starts     \* the starts: what fails, and what is on the card

ASSUME StartsAssumption == \A s \in Starts : s.csv \in Seq(CsvLine)

VARIABLES
    phase,     \* the phase of app_main that is next, "run" or "halted" at the end
    up,        \* the modules that are initialised
    fault,     \* the modules that fail in this start
    config,    \* g_config: field -> "default" or "file"
    card       \* the SD card: [config, csv]

bootVars == <<phase, up, fault, config, card>>
vars == <<decVars, bootVars>>

HalModules     == {"display", "gps", "sd", "wifi", "ble", "lora", "buzzer", "keyboard"}
ServiceModules == {"geo", "detection", "locator", "logger", "alert", "simulation"}
TaskModules    == {"serial", "detect_tasks", "app_tasks"}

ConfigField == {"proximity_repeat_interval_s", "min_satellites"}

DefaultConfig == [f \in ConfigField |-> "default"]

Init ==
    /\ DecInit
    /\ phase = "buses" /\ up = {} /\ config = DefaultConfig
    /\ \E s \in Starts : fault = s.fault /\ card = [config |-> s.config, csv |-> s.csv]

Step(from, to) == phase = from /\ phase' = to

-----------------------------------------------------------------------------
(* init_phase_buses: an error of the bus is only logged. *)
Buses ==
    /\ Step("buses", "hal")
    /\ UNCHANGED <<decVars, up, fault, config, card>>

(* init_phase_hal: a module that fails is reported and left out. *)
Hal ==
    /\ Step("hal", "config")
    /\ up' = HalModules \ fault
    /\ UNCHANGED <<decVars, fault, config, card>>

(* config_store_load_from_json: every field for itself. *)
LoadConfig(json) ==
    IF ~json.parses THEN DefaultConfig
    ELSE [f \in ConfigField |-> IF json.field[f] = "valid" THEN "file" ELSE "default"]

(* init_phase_config *)
LoadFiles ==
    /\ Step("config", "domain")
    /\ IF "sd" \in up
       THEN /\ config' = LoadConfig(card.config)
            /\ table' = IF card.csv = <<>> THEN DefaultSignatures
                        ELSE LoadCsv(card.csv).table
       ELSE /\ config' = DefaultConfig /\ table' = DefaultSignatures
    /\ UNCHANGED <<s_decoders, attached, reg, metrics, calls, last, up, fault, card>>

(* init_phase_domain: registry_init, then signatures_init, which loads the *)
(* built-in table.                                                         *)
Domain ==
    /\ Step("domain", "services")
    /\ reg' = << >>
    /\ table' = DefaultSignatures
    /\ UNCHANGED <<s_decoders, attached, metrics, calls, last, up, fault, config, card>>

(* init_phase_services: the classifier loads the built-in table once more, *)
(* and neither it nor the decoder can fail.                                *)
Services ==
    /\ Step("services", "ui")
    /\ table' = DefaultSignatures
    /\ s_decoders' = RegisteredDecoders /\ attached' = TRUE
    /\ up' = up \cup (ServiceModules \ fault) \cup {"classifier", "decoder"}
    /\ UNCHANGED <<reg, metrics, calls, last, fault, config, card>>

(* init_phase_ui *)
Ui ==
    /\ Step("ui", "tasks")
    /\ up' = up \cup ({"ui"} \ fault)
    /\ UNCHANGED <<decVars, fault, config, card>>

(* init_phase_tasks: without the pipeline or the task manager nothing is   *)
(* started; anything else that fails is left out.                          *)
Tasks ==
    /\ IF fault \cap {"pipeline", "task_manager"} # {}
       THEN /\ Step("tasks", "halted")
            /\ up' = up \cup ({"pipeline"} \ fault)
       ELSE /\ Step("tasks", "run")
            /\ up' = up \cup {"pipeline", "task_manager"} \cup (TaskModules \ fault)
    /\ UNCHANGED <<decVars, fault, config, card>>

(* The decoder task takes what the detection tasks hear. *)
Run ==
    /\ phase = "run" /\ {"detection", "detect_tasks", "app_tasks"} \subseteq up
    /\ Arrive
    /\ UNCHANGED bootVars

Next == Buses \/ Hal \/ LoadFiles \/ Domain \/ Services \/ Ui \/ Tasks \/ Run

Spec == Init /\ [][Next]_vars

-----------------------------------------------------------------------------
(* Properties. *)

Header == {<<>>, <<{}>>, <<{0}>>, <<1..7>>, <<{0, 2, 4, 6}>>, <<{3, 6, 7}>>, <<FF, {1}>>, <<{1}, {1}>>}
Freq   == {868100, 915000, NanFreq, 5800000}

(* Whatever table is loaded, from the card or built in, it can be saved    *)
(* and loaded again without loss.                                          *)
TableSurvivesSaving == SavedIsReloaded(table)

(* Whatever table is loaded, the classifier and signatures_find_match give *)
(* the same answer for every header and frequency.                         *)
ClassifierFollowsTable == \A hdr \in Header, freq \in Freq : SearchesAgree(table, hdr, freq)

(* The table the decoder works with is the one of the card, when the card  *)
(* has one: signatures_init in the domain phase "just" initialises the     *)
(* module, the table being "already loaded in config phase".               *)
CardTableInUse ==
    phase = "run" /\ "sd" \in up /\ card.csv # <<>> /\ ~LoadCsv(card.csv).err =>
        table = LoadCsv(card.csv).table
=============================================================================
