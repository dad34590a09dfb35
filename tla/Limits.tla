-------------------------------- MODULE Limits --------------------------------
(***************************************************************************)
(* The arithmetic of the library's limits: the configuration NewHandler    *)
(* settles on, the lease a subscriber is granted and the bodies that are   *)
(* read with a bound (src/handler.go, src/subscription.go, src/helpers.go).*)
(* Integers are Go's int64 and wrap around.                                *)
(***************************************************************************)
EXTENDS Integers

MaxInt64 == 9223372036854775807
TwoTo64  == 18446744073709551616
Int64    == {n \in Int : -MaxInt64 - 1 <= n /\ n <= MaxInt64}
Second   == 1000000000                      \* time.Second, in nanoseconds

\* What an int64 holds of the integer n.
Wrap(n) ==
    LET low == n % TwoTo64
    IN  IF low > MaxInt64 THEN low - TwoTo64 ELSE low

-----------------------------------------------------------------------------
(* Config                                                                  *)

Configs == [DefaultLease : Int64, MaxLease : Int64, VerificationTimeout : Int64,
            MaxRequestBody : Int64, MaxCallbackBody : Int64,
            VerificationWorkers : Int64, VerificationQueue : Int64]

Defaults == [DefaultLease |-> 864000 * Second, MaxLease |-> 864000 * Second,
             VerificationTimeout |-> 10 * Second,
             MaxRequestBody |-> 65536, MaxCallbackBody |-> 4096,
             VerificationWorkers |-> 4, VerificationQueue |-> 1024]

\* A field left at zero takes its default.
WithDefaults(config) ==
    [field \in DOMAIN Defaults |->
        IF config[field] = 0 THEN Defaults[field] ELSE config[field]]

WholeSeconds(duration) == duration >= Second /\ duration % Second = 0

\* normalizeConfig accepts config; it then returns WithDefaults(config).
Accepted(config) ==
    /\ \A field \in DOMAIN Defaults : config[field] >= 0
    /\ WholeSeconds(WithDefaults(config).DefaultLease)
    /\ WholeSeconds(WithDefaults(config).MaxLease)
    /\ WithDefaults(config).DefaultLease <= WithDefaults(config).MaxLease

-----------------------------------------------------------------------------
(* Leases                                                                  *)

\* The values of hub.lease_seconds parseSubscription lets through.
LeaseRequests == {seconds \in Int : 1 <= seconds /\ seconds <= MaxInt64 \div Second}

\* runSubscription, with the lease that was asked for; 0 stands for none.
EffectiveLeaseSeconds(config, requested) ==
    LET lease == IF requested = 0 THEN config.DefaultLease ELSE Wrap(requested * Second)
    IN  (IF lease > config.MaxLease THEN config.MaxLease ELSE lease) \div Second

-----------------------------------------------------------------------------
(* Bounded bodies                                                          *)

\* How many bytes io.LimitReader lets io.ReadAll read of a body of length bytes.
ReadThrough(length, n) == IF n <= 0 THEN 0 ELSE IF length < n THEN length ELSE n

\* readBounded: the number of bytes it returns, or -1 for an error.
ReadBounded(length, limit) ==
    LET read == ReadThrough(length, Wrap(limit + 1))
    IN  IF limit <= 0 \/ read > limit THEN -1 ELSE read

=============================================================================
