----------------------------- MODULE HintPolicy -----------------------------
(***************************************************************************)
(* What the FreshnessExecutor puts into a scheduler hint and how it reads  *)
(* it back when it decides whether a message is too old to run.  Times are *)
(* 64-bit unsigned nanosecond counts in the code; here they are 0..MaxU64  *)
(* for any MaxU64, and every subtraction is one the code may really do.    *)
(***************************************************************************)
EXTENDS Integers

CONSTANT MaxU64             \* std::numeric_limits<uint64_t>::max()

ASSUME MaxU64Assumption == MaxU64 \in Nat \ {0}

Time == 0 .. MaxU64

Class == {"background", "deadline", "urgent"}

\* The fields of CallbackProfile that a decision of the executor depends on.
Profile == [class : Class, relative_deadline : Time, stale : Time,
            reject_expired : BOOLEAN]

\* The same fields of fresh_task_hint.
Hint == [class : Class, release : Time, deadline : Time, stale : Time]

-----------------------------------------------------------------------------
AddSaturating(lhs, rhs) == IF rhs > MaxU64 - lhs THEN MaxU64 ELSE lhs + rhs

\* A zero relative deadline means "no deadline" and stays zero in the hint.
MakeHint(profile, release) ==
    [class    |-> profile.class,
     release  |-> release,
     deadline |-> IF profile.relative_deadline = 0 THEN 0
                  ELSE AddSaturating(release, profile.relative_deadline),
     stale    |-> profile.stale]

\* The clock has passed the deadline or the staleness bound of hint h.  The
\* guard now > h.release keeps the unsigned difference from wrapping around
\* for a message whose release stamp lies in the future.
PastBounds(h, now) ==
    \/ h.deadline # 0 /\ now > h.deadline
    \/ h.stale # 0 /\ now > h.release /\ now - h.release > h.stale

\* Expired is what expired() returns for work with this hint.
Expired(profile, h, now) == profile.reject_expired /\ PastBounds(h, now)

-----------------------------------------------------------------------------
(* The reference: the same decision in unbounded integer arithmetic.       *)

ExactlyExpired(profile, release, now) ==
    /\ profile.reject_expired
    /\ \/ profile.relative_deadline # 0
          /\ now > release + profile.relative_deadline
       \/ profile.stale # 0 /\ now > release + profile.stale
=============================================================================
