------------------------------- MODULE Cache -------------------------------
(***************************************************************************)
(* The two uses of the cache manager that decide something, side by side:  *)
(* the blacklist of revoked tokens and the rate limiter.  They share Redis *)
(* but no key, so what one does is explored while the other is at rest: no *)
(* more can be reached of either by interleaving their steps.              *)
(***************************************************************************)
EXTENDS Sessions, RateLimiter

cacheVars == <<vars, limiterVars>>

CacheInit == Init /\ LimiterInit

CacheNext ==
    \/ LimiterInit /\ Next /\ UNCHANGED limiterVars
    \/ Init /\ LimiterNext /\ UNCHANGED vars

CacheSpec == CacheInit /\ [][CacheNext]_cacheVars
=============================================================================
