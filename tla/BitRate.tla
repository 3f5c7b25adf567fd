------------------------------ MODULE BitRate ------------------------------
(***************************************************************************)
(* The constant bit rate tools: udpcbr/client.c sends numbered datagrams   *)
(* until Ctrl-C and prints how many; udpcbr/server.c prints the time of    *)
(* day of every datagram it gets, and sleeptest.c that of every turn of    *)
(* its loop.  The receive of the server is the one of TimedReceive, the    *)
(* numbers in the datagrams are not looked at: here a datagram is one of   *)
(* those in flight.                                                        *)
(*                                                                         *)
(* The lines are read as decimal numbers by whoever plots them, so the     *)
(* printf is modelled by the number its line shows.                        *)
(***************************************************************************)
EXTENDS Integers, Sequences

CONSTANTS
    Base,           \* of the numerals printed (10 in the code)
    Digits,         \* of the microseconds in a second (6 in the code)
    MaxPackets,     \* bound on the datagrams sent
    MaxNow,         \* bound on the time of day, in microseconds
    MaxLines        \* bound on the lines of each program

ASSUME BitRateAssumption ==
    /\ Base \in Nat \ {0, 1}
    /\ {Digits, MaxPackets, MaxNow, MaxLines} \subseteq Nat

VARIABLES
    cbr_client,     \* call the sender makes next, or how it ended
    cbr_stopping,   \* its flag
    packet,         \* its seq_num
    packets_sent,   \* the number it prints
    in_flight,      \* datagrams on their way
    handed,         \* history: datagrams sendto took
    now,            \* the time of day, in microseconds
    arrivals,       \* history: when the server got each datagram
    lines,          \* what the server printed for them
    turns,          \* history: the times of day sleeptest read
    turn_lines      \* what it printed for them

senderVars  == <<cbr_client, cbr_stopping, packet, packets_sent, handed>>
printerVars == <<arrivals, lines, turns, turn_lines>>
rateVars    == <<senderVars, in_flight, now, printerVars>>

RateInit ==
    /\ cbr_client = "test"
    /\ cbr_stopping = FALSE
    /\ packet = 0
    /\ packets_sent = 0
    /\ in_flight = 0
    /\ handed = 0
    /\ now = 0
    /\ arrivals = <<>>
    /\ lines = <<>>
    /\ turns = <<>>
    /\ turn_lines = <<>>

-----------------------------------------------------------------------------
(* The sender.                                                             *)

\* while (!stopping), and the number for the next datagram; the last line.
TestStopping ==
    /\ cbr_client = "test"
    /\ IF cbr_stopping
       THEN cbr_client' = "ended" /\ packets_sent' = packet /\ UNCHANGED packet
       ELSE /\ packet < MaxPackets
            /\ cbr_client' = "sendto" /\ packet' = packet + 1 /\ UNCHANGED packets_sent
    /\ UNCHANGED <<cbr_stopping, handed, in_flight, now, printerVars>>

\* sendto, and the network; a sendto that fails ends the program.
SendPacket ==
    /\ cbr_client = "sendto"
    /\ cbr_client' = "usleep"
    /\ handed' = handed + 1
    /\ in_flight' \in {in_flight, in_flight + 1}
    /\ UNCHANGED <<cbr_stopping, packet, packets_sent, now, printerVars>>

SendPacketFails ==
    /\ cbr_client = "sendto"
    /\ cbr_client' = "died"
    /\ UNCHANGED <<cbr_stopping, packet, packets_sent, handed, in_flight, now, printerVars>>

\* usleep ends, after the delay or with Ctrl-C.
Sleep ==
    /\ cbr_client = "usleep"
    /\ cbr_client' = "test"
    /\ UNCHANGED <<cbr_stopping, packet, packets_sent, handed, in_flight, now, printerVars>>

InterruptClient ==
    /\ cbr_client \in {"test", "sendto", "usleep"}
    /\ cbr_stopping' = TRUE
    /\ UNCHANGED <<cbr_client, packet, packets_sent, handed, in_flight, now, printerVars>>

CbrClient == TestStopping \/ SendPacket \/ SendPacketFails \/ Sleep \/ InterruptClient

-----------------------------------------------------------------------------
(* What is printed.  A line is the microseconds it denotes.                *)

\* The powers of the base.
Power[k \in Nat] == IF k = 0 THEN 1 ELSE Base * Power[k - 1]

Second == Power[Digits]

\* The digits after the point, as a fraction of a second: without leading
\* zeros they are moved to the front.
Unpadded(usec) ==
    IF usec = 0 THEN 0
    ELSE CHOOSE x \in {usec * Power[k] : k \in 0..Digits} : Second <= Base * x /\ x < Second

\* printf("%d.%d\n") of the server.
ServerLine(t) == ((t \div Second) * Second) + Unpadded(t % Second)

\* printf("%d.%06d\n") of sleeptest, and without the width.
SleepTestLine_NoWidth(t) == ((t \div Second) * Second) + Unpadded(t % Second)
SleepTestLine(t) == ((t \div Second) * Second) + (t % Second)

Clock ==
    /\ now < MaxNow
    /\ now' = now + 1
    /\ UNCHANGED <<senderVars, in_flight, printerVars>>

\* The server gets a datagram and prints the time.
PrintArrival ==
    /\ in_flight > 0
    /\ Len(lines) < MaxLines
    /\ in_flight' = in_flight - 1
    /\ arrivals' = Append(arrivals, now)
    /\ lines' = Append(lines, ServerLine(now))
    /\ UNCHANGED <<senderVars, now, turns, turn_lines>>

\* A turn of the loop of sleeptest.
PrintTurn ==
    /\ Len(turn_lines) < MaxLines
    /\ turns' = Append(turns, now)
    /\ turn_lines' = Append(turn_lines, SleepTestLine(now))
    /\ UNCHANGED <<senderVars, in_flight, now, arrivals, lines>>

RateNext == CbrClient \/ Clock \/ PrintArrival \/ PrintTurn

RateSpec == RateInit /\ [][RateNext]_rateVars

-----------------------------------------------------------------------------
RateTypeOK ==
    /\ cbr_client \in {"test", "sendto", "usleep", "ended", "died"}
    /\ cbr_stopping \in BOOLEAN
    /\ {packet, packets_sent, in_flight, handed} \subseteq 0..MaxPackets
    /\ now \in 0..MaxNow
    /\ \A s \in {arrivals, lines, turns, turn_lines} : s \in Seq(Nat) /\ Len(s) <= MaxLines

\* A sender that prints its count prints how many datagrams it handed to the
\* network, whenever Ctrl-C came.
CountIsSent == cbr_client = "ended" => packets_sent = handed

\* The lines of sleeptest are the times it read.  Those of the server are
\* out of order only within a second and only behind an arrival in its first
\* tenth, whose line denotes a later time.
LinesMisread ==
    /\ turn_lines = turns
    /\ \A i, j \in DOMAIN lines :
          (i < j /\ lines[j] < lines[i])
              => /\ arrivals[i] \div Second = arrivals[j] \div Second
                 /\ arrivals[i] % Second < Second \div Base
                 /\ arrivals[i] < lines[i]

RatePrintsExplained == CountIsSent /\ LinesMisread
=============================================================================
