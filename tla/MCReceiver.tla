----------------------------- MODULE MCReceiver -----------------------------
(* ReceiverCalls with interchangeable publishers, for model checking.      *)
EXTENDS ReceiverCalls

PublisherSymmetry == Permutations(PublisherIds)
=============================================================================
