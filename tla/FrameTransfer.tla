---------------------------- MODULE FrameTransfer ----------------------------
(***************************************************************************)
(* What writing frames to a bitstream and interpreting it promise together:*)
(* a map of frames is collected, and then arrives at the other end, one    *)
(* frame at a time in address order, each once, none changed and none that *)
(* was not sent.  That holds up to the first address that the way does not *)
(* lead to; what was sent from there on arrives beyond that address, if at *)
(* all.  Collecting may also be given up, and then nothing arrives.        *)
(***************************************************************************)
EXTENDS Integers

VARIABLES
    sent,     \* the frames to transfer, by the number that orders addresses
    arrived,  \* the frames at the other end
    astray,   \* the addresses sent to that the way does not lead to
    phase     \* "collecting", "transferring", "abandoned"

vars == <<sent, arrived, astray, phase>>

Grows ==
    /\ DOMAIN sent \subseteq DOMAIN sent'
    /\ \A key \in DOMAIN sent : sent'[key] = sent[key]
    /\ astray' \subseteq DOMAIN sent'

Init ==
    /\ sent = <<>>
    /\ arrived = <<>>
    /\ astray = {}
    /\ phase = "collecting"

\* More frames are known; none is forgotten or replaced.
Collect ==
    /\ phase = "collecting"
    /\ Grows
    /\ UNCHANGED <<arrived, phase>>

EndCollecting ==
    /\ phase = "collecting"
    /\ Grows
    /\ phase' \in {"transferring", "abandoned"}
    /\ UNCHANGED arrived

\* The least frame that has not arrived arrives.
Arrive ==
    /\ phase = "transferring"
    /\ \E key \in DOMAIN sent \ DOMAIN arrived :
          /\ \A k \in DOMAIN sent \ DOMAIN arrived : key <= k
          /\ \A k \in astray : key < k
          /\ arrived' = [k \in DOMAIN arrived \union {key} |-> sent[k]]
    /\ UNCHANGED <<sent, astray, phase>>

\* Something arrives beyond the first address that the way does not lead to,
\* when everything before that address has arrived.
Stray ==
    /\ phase = "transferring"
    /\ \E first \in astray :
          /\ \A k \in astray : first <= k
          /\ \A k \in DOMAIN sent : k < first => k \in DOMAIN arrived
          /\ \A k \in DOMAIN arrived' \ DOMAIN arrived : first < k
          /\ \A k \in DOMAIN arrived :
                k \in DOMAIN arrived' /\ arrived'[k] = arrived[k]
    /\ UNCHANGED <<sent, astray, phase>>

Next == Collect \/ EndCollecting \/ Arrive \/ Stray

Spec == Init /\ [][Next]_vars

Complete == phase = "transferring" /\ arrived = sent

=============================================================================
