--------------------------- MODULE OrderedDelivery ---------------------------
(***************************************************************************)
(* What an analysis run promises its processor, whatever the chunks, caches *)
(* and threads behind it: messages of the request arrive, each at most once *)
(* and, for a processor that asked for it, in the order of their times; the *)
(* run ends well only when all of them have arrived; and nothing arrives    *)
(* after the end.                                                           *)
(***************************************************************************)
EXTENDS Integers, Sequences

CONSTANTS
  Message,  \* the messages of all files
  Time      \* Time[m]: the timestamp of m, a number

VARIABLES
  contract,   \* the request: [ordered, expected], fixed
  delivered,  \* the messages handed to the processor, in order
  outcome     \* "running", "done" or "failed"

vars == <<contract, delivered, outcome>>

Delivered     == {delivered[i] : i \in DOMAIN delivered}
Chronological == \A i \in 1..(Len(delivered) - 1) :
                   Time[delivered[i]] <= Time[delivered[i + 1]]
NoDuplicates  == \A i, j \in DOMAIN delivered : delivered[i] = delivered[j] => i = j

\* What has arrived is always right, and complete at a good end.
Sound ==
  /\ Delivered \subseteq contract.expected
  /\ NoDuplicates
  /\ contract.ordered => Chronological
  /\ outcome = "done" => Delivered = contract.expected

Init ==
  /\ contract \in [ordered : BOOLEAN, expected : SUBSET Message]
  /\ delivered = <<>>
  /\ outcome = "running"

\* A batch is appended to what has arrived.
Deliver ==
  /\ outcome = "running"
  /\ delivered' \in Seq(Message)
  /\ Len(delivered) < Len(delivered')
  /\ SubSeq(delivered', 1, Len(delivered)) = delivered
  /\ Delivered' \subseteq contract.expected
  /\ NoDuplicates'
  /\ contract.ordered => Chronological'
  /\ UNCHANGED <<contract, outcome>>

Finish ==
  /\ outcome = "running"
  /\ Delivered = contract.expected
  /\ outcome' = "done"
  /\ UNCHANGED <<contract, delivered>>

Abort ==
  /\ outcome = "running"
  /\ outcome' = "failed"
  /\ UNCHANGED <<contract, delivered>>

Next == Deliver \/ Finish \/ Abort

Spec == Init /\ [][Next]_vars

=============================================================================
