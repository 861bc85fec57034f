----------------------------- MODULE ProbeFrame -----------------------------
(***************************************************************************)
(* The answer to an unauthenticated GetDeviceInfo: src/src/probe.rs        *)
(* `parse`, over frames as sequences of bytes, and, as its reference, the  *)
(* frames a device sends.                                                  *)
(***************************************************************************)
EXTENDS Integers, Sequences

CMD_DEVICE_INFO == 6
RSP_DEVICE_INFO == 128 + CMD_DEVICE_INFO
RSP_ERROR == 255
MIN_BODY_LEN == 9       \* version (3), serial (4), log capacity, log used
MAX_LENGTH == 65535     \* the largest length two bytes declare

Rejected == [error |-> TRUE]     \* parse() returned an error

(* u16::from_be_bytes and u32::from_be_bytes.                              *)
u16_from_be_bytes(b1, b2) == 256 * b1 + b2
u32_from_be_bytes(b1, b2, b3, b4) == 256 * (256 * (256 * b1 + b2) + b3) + b4

DeviceInfoOf(body) ==
    [version            |-> <<body[1], body[2], body[3]>>,
     serial             |-> u32_from_be_bytes(body[4], body[5], body[6], body[7]),
     log_store_capacity |-> body[8],
     log_store_used     |-> body[9]]

(* Decode a frame: code(1) length(2) body, ignoring what follows the body. *)
parse_WholeFrame(frame) ==
    IF Len(frame) < 3 THEN Rejected
    ELSE LET body == SubSeq(frame, 4, Len(frame))
         IN  IF frame[1] = RSP_DEVICE_INFO /\ Len(body) >= MIN_BODY_LEN
             THEN DeviceInfoOf(body) ELSE Rejected
parse(frame) ==
    IF Len(frame) < 3 THEN Rejected
    ELSE LET length == u16_from_be_bytes(frame[2], frame[3])
             body   == SubSeq(frame, 4, 3 + length)
         IN  IF /\ 3 + length <= Len(frame)
                /\ frame[1] = RSP_DEVICE_INFO
                /\ Len(body) >= MIN_BODY_LEN
             THEN DeviceInfoOf(body) ELSE Rejected

-----------------------------------------------------------------------------
(* The reference: what a device sends for its figures and algorithms,      *)
(* numbers with their high byte first.                                     *)
u16_bytes(n) == <<n \div 256, n % 256>>
u32_bytes(n) ==
    LET high == n \div 65536
        low  == n % 65536
    IN  <<high \div 256, high % 256, low \div 256, low % 256>>

Body(info, algorithms) ==
    info.version \o u32_bytes(info.serial)
        \o <<info.log_store_capacity, info.log_store_used>> \o algorithms
Frame(code, length, body) == <<code>> \o u16_bytes(length) \o body
Encode(info, algorithms) ==
    LET body == Body(info, algorithms) IN Frame(RSP_DEVICE_INFO, Len(body), body)

(* Such an answer cut off anywhere, with the code of another message, or   *)
(* with a length that is too short or more than there is.                  *)
Damaged(info, algorithms) ==
    LET frame == Encode(info, algorithms)
        body  == Body(info, algorithms)
    IN  {SubSeq(frame, 1, n) : n \in 0 .. Len(frame) - 1}
            \union {Frame(c, Len(body), body) : c \in {CMD_DEVICE_INFO, RSP_ERROR, 0}}
            \union {Frame(RSP_DEVICE_INFO, n, body) :
                      n \in (0 .. MIN_BODY_LEN - 1) \union {Len(body) + 1, MAX_LENGTH}}
=============================================================================
