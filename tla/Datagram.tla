------------------------------ MODULE Datagram ------------------------------
(***************************************************************************)
(* The datagrams client and server exchange: hw2/bufferprobe2/message.h.   *)
(*                                                                         *)
(* A header is kept as the record of the fields the two programs read and  *)
(* write; the byte order conversions of its accessors cancel out (every    *)
(* setter applies hton, every getter ntoh) and are left out.  The payload  *)
(* of a probe is padding nobody reads and is left out too; the payload of  *)
(* a COMPLETE_ACK is the vector of burst results.                          *)
(*                                                                         *)
(* "run" is no field of the header.  It records which client run sent the  *)
(* datagram, or sent the request the datagram answers, so that properties  *)
(* can speak of it; no guard of the programs reads it.                     *)
(***************************************************************************)
EXTENDS Integers, Sequences

RequestTypes == {"BEGIN", "COMPLETE"}
ReplyTypes   == {"BEGIN_ACK", "COMPLETE_ACK"}
MessageTypes == {"PROBE", "ERROR"} \cup RequestTypes \cup ReplyTypes

\* One entry of the payload of a COMPLETE_ACK (results.h, class BurstResults).
BurstResultType ==
    [num_sent : Nat, num_received : Nat, num_contiguous : Nat]

MessageType ==
    [type : MessageTypes, run : Nat, burst_num : Nat, seq_num : Nat,
     burst_len : Nat, results : Seq(BurstResultType)]

Message(type, run, burst_num, seq_num, burst_len) ==
    [type |-> type, run |-> run, burst_num |-> burst_num,
     seq_num |-> seq_num, burst_len |-> burst_len, results |-> <<>>]

\* Without the case for the second handshake.
isResponsePair_BeginOnly(control, response) ==
    /\ control.type = "BEGIN" /\ response.type = "BEGIN_ACK"
    /\ control.seq_num = response.seq_num

\* A response answers a control message when its type is the acknowledgement
\* of that request and it echoes the three numbers of the header.
isResponsePair(control, response) ==
    /\ \/ control.type = "BEGIN"    /\ response.type = "BEGIN_ACK"
       \/ control.type = "COMPLETE" /\ response.type = "COMPLETE_ACK"
    /\ control.burst_num = response.burst_num
    /\ control.seq_num = response.seq_num
    /\ control.burst_len = response.burst_len
=============================================================================
