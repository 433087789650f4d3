-------------------------- MODULE MCRedisRunBuffer --------------------------
(* Model checking of RedisRunBuffer on one connection and one worker: the  *)
(* readers of a run share nothing they write to.                           *)
EXTENDS RedisRunBuffer
=============================================================================
