------------------------------ MODULE MCFleet -------------------------------
(* Configurations for the runs of module Fleet.                            *)
EXTENDS Fleet

ADevice(name) ==
    [name |-> name, tick_hz |-> "positive",
     password_env |-> Unset, password_file |-> Unset, password |-> "secret"]
AConfig(devices) ==
    [devices |-> devices, facility |-> 16,
     device_info_source |-> "connector", skip_poll_when_unchanged |-> TRUE]

a == ADevice(<<"h", "a">>)
b == ADevice(<<"h", "b">>)

(* Two devices, and the configurations that are refused: no device, two    *)
(* devices of one name, no name, no rate, a secret that is not there.      *)
PlainConfigs ==
    {AConfig(<<a, b>>), AConfig(<< >>), AConfig(<<a, a>>), AConfig(<<ADevice(<< >>)>>),
     AConfig(<<[a EXCEPT !.tick_hz = "zero"]>>),
     AConfig(<<[a EXCEPT !.password_env = Missing]>>)}

(* Two names that are distinct, and the same after sanitize.               *)
AlikeConfigs == {AConfig(<<ADevice(<<"h", "/">>), ADevice(<<"h", ":">>)>>)}

ServiceAndOnce == [p \in {"run", "once"} |-> IF p = "run" THEN {FALSE} ELSE BOOLEAN]
ServiceOnly == [p \in {"run"} |-> {FALSE}]
=============================================================================
