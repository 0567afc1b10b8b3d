------------------------------- MODULE RateLimit -------------------------------
(***************************************************************************)
(* The fixed-window limiter (insight-api middleware.rs, insight-core       *)
(* storage/cache.rs) on the Redis counter of one tenant or client address. *)
(* INCR, TTL and EXPIRE are three calls, each of which may fail.           *)
(***************************************************************************)
EXTENDS Integers

CONSTANTS
  Hits,          \* requests in flight
  MaxHits,       \* rate_limit_max, auth_rate_limit_max
  Window,        \* rate_limit_window_secs, in ticks
  MaxRedisFaults \* bound on failed calls and dropped requests

ASSUME RateLimitAssumption ==
  MaxHits \in Nat \ {0} /\ Window \in Nat \ {0} /\ MaxRedisFaults \in Nat

VARIABLES
  counter,  \* 0: no key; not told apart above MaxHits + 1
  ttl,      \* of the key; NoTtl: it has none
  hit,      \* requests: the next call, and the count they were given
  redisFaults

rvars == <<counter, ttl, hit, redisFaults>>

NoTtl == -1
NoHit == [pc |-> "idle", count |-> 0]

RateTypeOK ==
  /\ counter \in 0 .. MaxHits + 1
  /\ ttl \in {NoTtl} \cup 1 .. Window
  /\ hit \in [Hits -> [pc : {"idle", "ttl", "expire"}, count : 0 .. MaxHits + 1]]
  /\ redisFaults \in 0 .. MaxRedisFaults
  /\ counter = 0 => ttl = NoTtl

RateInit ==
  /\ counter = 0 /\ ttl = NoTtl
  /\ hit = [h \in Hits |-> NoHit]
  /\ redisFaults = 0

SetHit(h, r) == hit' = [hit EXCEPT ![h] = r]

Incr(h) ==
  /\ hit[h].pc = "idle"
  /\ counter' = IF counter <= MaxHits THEN counter + 1 ELSE counter
  /\ SetHit(h, [pc |-> "ttl", count |-> counter'])
  /\ UNCHANGED <<ttl, redisFaults>>

\* Mutant of ReadTtl: only the first hit of a window arms it.
ReadTtlOfFirst(h) ==
  /\ hit[h].pc = "ttl"
  /\ SetHit(h, IF hit[h].count = 1 THEN [hit[h] EXCEPT !.pc = "expire"] ELSE NoHit)
  /\ UNCHANGED <<counter, ttl, redisFaults>>

\* A key with an expiry is left alone; the answer, 429 above MaxHits, follows.
ReadTtl(h) ==
  /\ hit[h].pc = "ttl"
  /\ SetHit(h, IF ttl = NoTtl THEN [hit[h] EXCEPT !.pc = "expire"] ELSE NoHit)
  /\ UNCHANGED <<counter, ttl, redisFaults>>

\* EXPIRE, of whatever is under the key by now.
Expire(h) ==
  /\ hit[h].pc = "expire"
  /\ ttl' = IF counter > 0 THEN Window ELSE NoTtl
  /\ SetHit(h, NoHit)
  /\ UNCHANGED <<counter, redisFaults>>

\* A call fails, applied or not, or the client hangs up: nothing follows it.
RedisFault(h) ==
  /\ redisFaults < MaxRedisFaults
  /\ redisFaults' = redisFaults + 1
  /\ \/ hit[h].pc = "idle" /\ counter' = (IF counter <= MaxHits THEN counter + 1 ELSE counter)
     \/ hit[h].pc # "idle" /\ UNCHANGED counter
  /\ SetHit(h, NoHit)
  /\ UNCHANGED ttl

SecondPasses ==
  /\ ttl # NoTtl
  /\ ttl' = IF ttl = 1 THEN NoTtl ELSE ttl - 1
  /\ counter' = IF ttl = 1 THEN 0 ELSE counter
  /\ UNCHANGED <<hit, redisFaults>>

RateNext ==
  \/ \E h \in Hits : Incr(h) \/ ReadTtl(h) \/ Expire(h) \/ RedisFault(h)
  \/ SecondPasses

HitStep(h) == Incr(h) \/ ReadTtl(h) \/ Expire(h)

\* The caller keeps asking, and time goes on.
RateFairness == WF_rvars(SecondPasses) /\ \A h \in Hits : WF_rvars(HitStep(h))

RateSpec == RateInit /\ [][RateNext]_rvars /\ RateFairness

-----------------------------------------------------------------------------
(* Properties *)

\* "A lost EXPIRE cannot leave an immortal counter that permanently 429s the
\* caller" (middleware.rs:27): whoever is limited is let through again.
LimitLifts == counter > MaxHits ~> counter <= MaxHits
=============================================================================
