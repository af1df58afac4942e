----------------------------- MODULE MCChatPipeline -----------------------------
(***************************************************************************)
(* ChatPipeline on small instances.  Session ids and requests are          *)
(* interchangeable; the runs that check liveness do not use the symmetry.  *)
(***************************************************************************)
EXTENDS ChatPipeline, TLC

Symmetry == Permutations(Sids) \cup Permutations(Reqs)

=============================================================================
