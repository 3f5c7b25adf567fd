----------------------------- MODULE UdpChannel -----------------------------
(***************************************************************************)
(* The network between the two programs, as hw2/bufferprobe2/socket.h uses *)
(* it: sendto puts a datagram in flight, recvfrom takes one out.  UDP      *)
(* promises nothing more; which of its failures a run admits is chosen by  *)
(* the constants.  The network itself is external to the repository.       *)
(***************************************************************************)
EXTENDS Datagram, FiniteSets

CONSTANTS
    Reordering,      \* any datagram in flight may arrive next, not only the oldest
    MaxDuplicates,   \* bound on how often a datagram arrives and stays in flight as well
    SendFailures,    \* sendto may fail
    MaxControlLoss   \* control datagrams the network may drop in one handshake

ASSUME ChannelAssumption ==
    /\ Reordering \in BOOLEAN
    /\ MaxDuplicates \in Nat
    /\ SendFailures \in BOOLEAN
    /\ MaxControlLoss \in Nat

VARIABLES
    toServer,   \* datagrams in flight to the server's port, oldest first
    toClient,   \* datagrams in flight to the client's port, oldest first
    lost,       \* history: the datagrams the network dropped in this client run
    duplicates  \* history: how many duplicates the network has made

channelVars == <<toServer, toClient, lost, duplicates>>

ChannelTypeOK ==
    /\ toServer \in Seq(MessageType)
    /\ toClient \in Seq(MessageType)
    /\ lost \subseteq MessageType
    /\ duplicates \in 0..MaxDuplicates

ChannelInit ==
    /\ toServer = <<>>
    /\ toClient = <<>>
    /\ lost = {}
    /\ duplicates = 0

\* The positions of the datagrams that may arrive next.
Deliverable(q) == {i \in 1..Len(q) : Reordering \/ i = 1}

\* q without its i-th datagram.
Without(q, i) == [j \in 1..(Len(q) - 1) |-> IF j < i THEN q[j] ELSE q[j + 1]]

\* The i-th datagram of q arrives: q becomes rest.  A duplicate of it may
\* still be under way.
Arrive(q, i, rest) ==
    /\ i \in Deliverable(q)
    /\ \/ rest = Without(q, i) /\ UNCHANGED duplicates
       \/ /\ duplicates < MaxDuplicates
          /\ rest = q
          /\ duplicates' = duplicates + 1

\* The control datagrams of one handshake the network has dropped.
DroppedIn(handshake) == {m \in lost : m.type \in handshake}

BeginHandshake    == {"BEGIN", "BEGIN_ACK"}
CompleteHandshake == {"COMPLETE", "COMPLETE_ACK"}

MayDrop(m) ==
    \A handshake \in {BeginHandshake, CompleteHandshake} :
        m.type \in handshake => Cardinality(DroppedIn(handshake)) < MaxControlLoss

\* The network drops a datagram on its way to the server, or to the client.
DropToServer ==
    \E i \in Deliverable(toServer) :
        /\ MayDrop(toServer[i])
        /\ toServer' = Without(toServer, i)
        /\ lost' = lost \cup {toServer[i]}
        /\ UNCHANGED <<toClient, duplicates>>

DropToClient ==
    \E i \in Deliverable(toClient) :
        /\ MayDrop(toClient[i])
        /\ toClient' = Without(toClient, i)
        /\ lost' = lost \cup {toClient[i]}
        /\ UNCHANGED <<toServer, duplicates>>
=============================================================================
