-------------------------- MODULE MCTransferEngine --------------------------
(* Instances of TransferEngine for TLC.                                     *)
EXTENDS TransferEngine, TLC

\* Items that are flushed in the middle of their copy.
MCOne == [i \in Items |-> 3]

\* One item flushed in the middle of its copy, one the device will refuse, one
\* of which the device serves less than it listed.
MCQueue == <<3, 1, 2>>
MCQueueServed == <<3, 1, 1>>

=============================================================================
