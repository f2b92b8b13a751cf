------------------------------ MODULE BaseTester ------------------------------
(***************************************************************************)
(* The acknowledgements of ics721-base-tester, the contract that the       *)
(* end-to-end tests put at the other end of a channel.  It answers packets *)
(* in the ack mode it was told, and remembers the last acknowledgement     *)
(* that its own packets got.                                               *)
(***************************************************************************)
EXTENDS Naturals

CONSTANT MaxSent    \* bound: packets of the tester not yet acknowledged

AckMode == {"Error", "Success"}
None == "none"

VARIABLES
  storage,    \* the contract's storage, by key
  mode,       \* the mode the last instantiate or SetAckMode asked for
  pending,    \* packets sent that have no acknowledgement yet
  answer      \* the last acknowledgement written for a packet received

vars == <<storage, mode, pending, answer>>

\* state.rs gives both items the same key.
ACK_MODE == "ack_mode"
LAST_ACK == "ack_mode"

Save(key, value) == storage' = [storage EXCEPT ![key] = value]

TypeOK == /\ storage \in [{ACK_MODE, LAST_ACK} -> AckMode]
          /\ mode \in AckMode
          /\ pending \in 0..MaxSent
          /\ answer \in AckMode \cup {None}

Init == /\ mode \in AckMode
        /\ storage = [key \in {ACK_MODE, LAST_ACK} |-> mode]   \* instantiate
        /\ pending = 0
        /\ answer = None

SetAckMode(m) == /\ Save(ACK_MODE, m)
                 /\ mode' = m
                 /\ UNCHANGED <<pending, answer>>

SendPacket == /\ pending < MaxSent
              /\ pending' = pending + 1
              /\ UNCHANGED <<storage, mode, answer>>

\* The chain at the other end decides on the result.
PacketAck(result) == /\ pending > 0
                     /\ Save(LAST_ACK, result)
                     /\ pending' = pending - 1
                     /\ UNCHANGED <<mode, answer>>

PacketTimeout == /\ pending > 0
                 /\ pending' = pending - 1
                 /\ UNCHANGED <<storage, mode, answer>>

PacketReceive == /\ answer' = storage[ACK_MODE]
                 /\ UNCHANGED <<storage, mode, pending>>

Next == \/ \E m \in AckMode : SetAckMode(m) \/ PacketAck(m)
        \/ SendPacket \/ PacketTimeout \/ PacketReceive

Spec == Init /\ [][Next]_vars

\* AckMode "gets the current ack mode" (QueryMsg::AckMode), the one that says
\* which acknowledgement "messages should respond with": packets are answered
\* in the mode the tester was last told, whatever acknowledgements came in.
AnswersInAckMode == [][PacketReceive => answer' = mode]_vars
===============================================================================
