------------------------------- MODULE Config -------------------------------
(***************************************************************************)
(* The configuration as far as it decides what runs: Config::load with     *)
(* `validate`, Device::password and `fast_path_enabled` of                 *)
(* src/src/config.rs, and the name of the state file a device gets,        *)
(* DeviceState::path and `sanitize` of src/src/state.rs.                   *)
(*                                                                         *)
(* A device name is a sequence of characters, because sanitize works on    *)
(* them one by one.  Of a number only the comparison with zero matters.    *)
(* A secret is the value Missing when its variable or file is not there.   *)
(***************************************************************************)
EXTENDS Integers, Sequences

CONSTANTS
    Alphabet,   \* the characters that sanitize keeps: [A-Za-z0-9_.-]
    Unset,      \* an option that is not in the configuration
    Missing     \* a variable or a file that is named but not there

ASSUME ConfigAssumption == "_" \in Alphabet /\ Unset # Missing

sanitize(name) ==
    [i \in DOMAIN name |-> IF name[i] \in Alphabet THEN name[i] ELSE "_"]

(* DeviceState::path, in the one state_dir there is.                       *)
path(device) == sanitize(device.name)

(* Device::password: the first source that is named is the only one that   *)
(* is tried.                                                               *)
password(device) ==
    IF device.password_env # Unset THEN device.password_env
    ELSE IF device.password_file # Unset THEN device.password_file
    ELSE IF device.password # Unset THEN device.password
    ELSE Missing

(* `tick_hz <= 0.0`, which is false of a NaN.                              *)
NotPositive(tick_hz) == tick_hz \in {"negative", "zero"}

validate_NoDuplicates(config) ==
    /\ config.devices # << >>
    /\ \A i \in DOMAIN config.devices :
         LET device == config.devices[i]
         IN  /\ device.name # << >>
             /\ ~NotPositive(device.tick_hz)
             /\ password(device) # Missing
    /\ config.facility <= 23
validate(config) ==
    /\ config.devices # << >>
    /\ \A i, j \in DOMAIN config.devices :
         config.devices[i].name = config.devices[j].name => i = j
    /\ \A i \in DOMAIN config.devices :
         LET device == config.devices[i]
         IN  /\ device.name # << >>
             /\ ~NotPositive(device.tick_hz)
             /\ password(device) # Missing
    /\ config.facility <= 23

(* Config::fast_path_enabled.                                              *)
fast_path_enabled(config) ==
    config.skip_poll_when_unchanged /\ config.device_info_source = "connector"
=============================================================================
