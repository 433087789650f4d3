---------------------------- MODULE MCTranscript ----------------------------
(* Model checking of WebClient on one thread with a stored turn and a draft, *)
(* one message, no fault and no reload.                                      *)
EXTENDS WebClient

MCScenes == {[old |-> 1, running |-> {}, pinned |-> {}, threads |-> 2, cap |-> 3, events |-> 1,
              sends |-> 1, does |-> {"delete"}, moves |-> 1, reloads |-> 0, faults |-> 0, posts |-> 1]}
=============================================================================
