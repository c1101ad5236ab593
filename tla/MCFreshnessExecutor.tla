------------------------ MODULE MCFreshnessExecutor ------------------------
(* Small instances of the executor: groups with and without extractor.     *)
EXTENDS FreshnessExecutor, HintAblation, TLC

CONSTANTS j1, j2, j3, gm, gt

Fresh(relative, stale) ==
    [class |-> "deadline", relative_deadline |-> relative, stale |-> stale,
     reject_expired |-> TRUE]

Lenient == [class |-> "background", relative_deadline |-> 0, stale |-> 0,
            reject_expired |-> FALSE]

\* gm: a message-aware subscription that rejects expired input; gt: a timer
MCProfileOf == (gm :> Fresh(1, 0)) @@ (gt :> Lenient)
MCGroupOf2  == (j1 :> gm) @@ (j2 :> gt)
MCGroupOf3  == (j1 :> gm) @@ (j2 :> gm) @@ (j3 :> gt)
MCRelease2  == (j1 :> 1) @@ (j2 :> 1)
MCRelease3  == (j1 :> 1) @@ (j2 :> 0) @@ (j3 :> 1)

\* The expiry test agrees with the comparison in unbounded arithmetic for every
\* profile, stamp and time of this clock, saturation and future stamps included.
ASSUME ExpiryExact ==
    \A p \in Profile, release \in Time, t \in Time :
        Expired(p, MakeHint(p, release), t) <=> ExactlyExpired(p, release, t)

\* The two routes of the hint modes show the scheduler the same hint, and no job
\* as too old that the executor of a bag run admits.
ASSUME AblationAgrees ==
    \A stage \in Stage, mode \in HintMode, d, s, release \in Time :
        LET p == [stage |-> stage, class |-> "urgent", relative_deadline |-> d, stale |-> s,
                  budget |-> 1, reject_expired |-> FALSE]
            a == admission_profile("external", mode, p)
        IN  /\ Seen("synthetic", mode, p, 1, release) = Seen("external", mode, p, 1, release)
            /\ \A h \in Seen("external", mode, p, 1, release), instant \in Time :
                   stage # "imu" /\ PastBounds(h, instant) =>
                       Expired(a, MakeHint(a, release), instant)

=============================================================================
