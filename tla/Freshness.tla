----------------------------- MODULE Freshness -----------------------------
(***************************************************************************)
(* validate_freshness of crates/module/src/candidate.rs in the saturating  *)
(* and checked 64-bit arithmetic of the code, and what it amounts to.      *)
(***************************************************************************)
EXTENDS Integers

CONSTANTS
    MaxLifetime,        \* Settings::max_signature_lifetime_seconds
    ClockSkew,          \* Settings::clock_skew_seconds
    I64Max,             \* i64::MAX, small in a model
    NoTime              \* an absent created or expires

I64 == (-I64Max - 1)..I64Max

ASSUME FreshnessAssumption ==
    /\ I64Max \in Nat
    /\ MaxLifetime \in Nat \ {0}
    /\ ClockSkew \in Nat
    /\ NoTime \notin Int

Saturate(x) == IF x > I64Max THEN I64Max
               ELSE IF x < -I64Max - 1 THEN -I64Max - 1 ELSE x

(* Mutant: only the start of the lifetime is compared with the clock. *)
ValidateStartOnly(created, expires, now) ==
    /\ created # NoTime
    /\ expires # NoTime
    /\ expires - created >= 0
    /\ expires - created <= MaxLifetime
    /\ created <= Saturate(now + ClockSkew)

ValidateFreshness(created, expires, now) ==
    /\ created # NoTime
    /\ expires # NoTime
    /\ ClockSkew <= I64Max
    /\ expires - created \in I64
    /\ expires - created >= 0
    /\ expires - created <= MaxLifetime
    /\ created <= Saturate(now + ClockSkew)
    /\ expires >= Saturate(now - ClockSkew)

(* What the arithmetic is meant to say, over the integers. *)
FreshOverIntegers(created, expires, now) ==
    /\ 0 <= expires - created /\ expires - created <= MaxLifetime
    /\ created <= now + ClockSkew
    /\ expires >= now - ClockSkew
============================================================================
