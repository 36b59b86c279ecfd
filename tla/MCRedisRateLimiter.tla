------------------------ MODULE MCRedisRateLimiter ------------------------
(* RedisRateLimiter on a small instance. *)
EXTENDS RedisRateLimiter, TLC

\* Keys and requests are interchangeable.
Symmetry == Permutations(Keys) \cup Permutations(Requests)

=============================================================================
