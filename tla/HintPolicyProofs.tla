-------------------------- MODULE HintPolicyProofs --------------------------
(***************************************************************************)
(* The expiry decision of the executor and the two routes of the hint      *)
(* modes, for every width of the clock.                                    *)
(***************************************************************************)
EXTENDS HintAblation, TLAPS

(* add_saturating() stays in the type and is the sum capped at its maximum. *)
LEMMA AddSaturatingBounds ==
    ASSUME NEW lhs \in Time, NEW rhs \in Time
    PROVE  /\ AddSaturating(lhs, rhs) \in Time
           /\ AddSaturating(lhs, rhs) >= lhs
           /\ lhs + rhs <= MaxU64 => AddSaturating(lhs, rhs) = lhs + rhs
           /\ lhs + rhs > MaxU64 => AddSaturating(lhs, rhs) = MaxU64
BY MaxU64Assumption DEF AddSaturating, Time

(* make_hint() makes a hint of the right type.                              *)
LEMMA MakeHintType ==
    ASSUME NEW profile \in Profile, NEW release \in Time
    PROVE  MakeHint(profile, release) \in Hint
<1>1. /\ profile.class \in Class /\ profile.relative_deadline \in Time
      /\ profile.stale \in Time
    BY DEF Profile
<1>2. AddSaturating(release, profile.relative_deadline) \in Time
    BY <1>1, AddSaturatingBounds
<1>3. 0 \in Time
    BY MaxU64Assumption DEF Time
<1> QED
    BY <1>1, <1>2, <1>3 DEF MakeHint, Hint

(* expired() on a hint made by make_hint() is the exact comparison: neither  *)
(* the saturation of the deadline nor a release stamp in the future changes  *)
(* the decision, at any value of the 64-bit clock.                           *)
THEOREM ExpiredIsExact ==
    ASSUME NEW profile \in Profile, NEW release \in Time, NEW now \in Time
    PROVE  Expired(profile, MakeHint(profile, release), now)
               <=> ExactlyExpired(profile, release, now)
<1> DEFINE h == MakeHint(profile, release)
<1>1. /\ profile.relative_deadline \in Time /\ profile.stale \in Time
    BY DEF Profile
<1>2. /\ h.deadline = IF profile.relative_deadline = 0 THEN 0
                      ELSE AddSaturating(release, profile.relative_deadline)
      /\ h.stale = profile.stale /\ h.release = release
    BY DEF MakeHint
<1>3. (h.deadline # 0 /\ now > h.deadline)
          <=> (profile.relative_deadline # 0
               /\ now > release + profile.relative_deadline)
    BY <1>1, <1>2, MaxU64Assumption DEF AddSaturating, Time
<1>4. (h.stale # 0 /\ now > h.release /\ now - h.release > h.stale)
          <=> (profile.stale # 0 /\ now > release + profile.stale)
    BY <1>1, <1>2, MaxU64Assumption DEF Time
<1> QED
    BY <1>3, <1>4 DEF Expired, PastBounds, ExactlyExpired

(* A message that has expired stays expired while the clock advances.       *)
THEOREM ExpiryIsMonotone ==
    ASSUME NEW profile \in Profile, NEW release \in Time,
           NEW now \in Time, NEW later \in Time, later >= now,
           ExactlyExpired(profile, release, now)
    PROVE  ExactlyExpired(profile, release, later)
<1>1. /\ profile.relative_deadline \in Time /\ profile.stale \in Time
    BY DEF Profile
<1> QED
    BY <1>1, MaxU64Assumption DEF ExactlyExpired, Time

-----------------------------------------------------------------------------
(* The two routes of the hint modes                                        *)

(* A stage profile is also what make_hint() needs of a profile, and its hint *)
(* has the right type.                                                       *)
LEMMA HintForType ==
    ASSUME NEW p \in StageProfile, NEW id \in Nat, NEW r \in Time
    PROVE  HintFor(p, id, r) \in StageHint
<1>1. /\ p.class \in Class /\ p.relative_deadline \in Time /\ p.stale \in Time
      /\ p.stage \in Stage \cup {"misc"} /\ p.budget \in Time
    BY DEF StageProfile
<1>2. AddSaturating(r, p.relative_deadline) \in Time
    BY <1>1, AddSaturatingBounds
<1>3. 0 \in Time
    BY MaxU64Assumption DEF Time
<1> QED
    BY <1>1, <1>2, <1>3 DEF HintFor, MakeHint, StageHint

(* Rewriting the profile of a stage, as a synthetic run does, and rewriting  *)
(* its hints, as a bag run does, show the scheduler the same hint of every   *)
(* job: an ablation measured with one input is comparable with the other.    *)
THEOREM RoutesAgree ==
    ASSUME NEW p \in StageProfile, NEW mode \in HintMode, NEW id \in Nat,
           NEW r \in Time, p.stage \in Stage
    PROVE  Seen("synthetic", mode, p, id, r) = Seen("external", mode, p, id, r)
<1>1. CASE mode = "none"
    BY <1>1 DEF Seen, Written
<1>2. CASE mode # "none"
    <2> DEFINE q == admission_profile("synthetic", mode, p)
               e == admission_profile("external", mode, p)
    <2>1. /\ p.class \in Class /\ p.relative_deadline \in Time
          /\ p.stale \in Time /\ p.budget \in Time
          /\ p = [stage |-> p.stage, class |-> p.class, relative_deadline |-> p.relative_deadline,
                  stale |-> p.stale, budget |-> p.budget, reject_expired |-> p.reject_expired]
        BY DEF StageProfile
    <2>2. HintFor(q, id, r) = project_hint(HintFor(e, id, r), mode)
        <3>1. CASE mode = "imu-only" /\ p.stage # "imu"
            <4>1. q.stage = "misc" /\ q.class = "background" /\ q.relative_deadline = 0
                  /\ q.stale = 0 /\ q.budget = 0
                BY <2>1, <3>1 DEF admission_profile, stage_profile
            <4>2. e = [p EXCEPT !.reject_expired = (p.stage # "imu")]
                BY DEF admission_profile
            <4>3. HintFor(e, id, r).stage = p.stage
                BY <2>1, <4>2 DEF HintFor
            <4> QED
                BY <3>1, <4>1, <4>3 DEF project_hint, HintFor, MakeHint
        <3>2. CASE mode = "fe-only" /\ p.stage = "imu"
            BY ZenonT(40), <2>1, <3>2 DEF admission_profile, stage_profile, project_hint, HintFor,
                                          MakeHint
        <3>3. CASE ~ (mode = "imu-only" /\ p.stage # "imu")
                   /\ ~ (mode = "fe-only" /\ p.stage = "imu")
            BY <2>1, <3>3 DEF admission_profile, stage_profile, project_hint, HintFor, MakeHint
        <3> QED
            BY <3>1, <3>2, <3>3
    <2> QED
        BY <1>2, <2>2 DEF Seen, Written
<1> QED
    BY <1>1, <1>2

(* A rewritten hint never shows the scheduler of a bag run as too old what   *)
(* the executor still admits: where the hint of a stage is past its bounds,  *)
(* the executor rejects the message by the profile that no mode touches.     *)
(* The modes that leave the bounds of the camera stages alone show exactly   *)
(* the expiry that the executor decides.                                     *)
THEOREM AdmittedIsShownInTime ==
    ASSUME NEW p \in StageProfile, p.stage \in Stage \ {"imu"}, NEW mode \in HintMode,
           NEW id \in Nat, NEW r \in Time, NEW now \in Time,
           NEW h \in Seen("external", mode, p, id, r)
    PROVE  LET a == admission_profile("external", mode, p)
               rejected == Expired(a, MakeHint(a, r), now)
           IN  /\ PastBounds(h, now) => rejected
               /\ mode # "imu-only" => (rejected <=> PastBounds(h, now))
<1> DEFINE a == admission_profile("external", mode, p)
           g == HintFor(a, id, r)
<1>1. /\ a = [p EXCEPT !.reject_expired = TRUE]
      /\ h = project_hint(g, mode)
    BY DEF admission_profile, Seen, Written
<1>2. /\ a.reject_expired = TRUE /\ a.stage = p.stage
      /\ g = [stage |-> a.stage, class |-> g.class, job_id |-> id, release |-> r,
              deadline |-> MakeHint(a, r).deadline, stale |-> MakeHint(a, r).stale,
              budget |-> a.budget]
    BY <1>1 DEF StageProfile, HintFor, MakeHint
<1>3. Expired(a, MakeHint(a, r), now) <=> PastBounds(g, now)
    BY <1>2 DEF Expired, PastBounds, MakeHint
<1>4. CASE mode = "imu-only"
    <2>1. h.deadline = 0 /\ h.stale = 0
        BY <1>1, <1>2, <1>4 DEF project_hint
    <2>2. ~ PastBounds(h, now)
        BY <2>1 DEF PastBounds
    <2> QED
        BY <1>4, <2>2
<1>5. CASE mode # "imu-only"
    <2>1. h = g
        BY <1>1, <1>2, <1>5 DEF project_hint
    <2> QED
        BY <1>3, <2>1
<1> QED
    BY <1>4, <1>5

(* Whatever the mode, a hint that reaches the scheduler names the job and    *)
(* the release of the message, and only the imu stage is ever urgent.        *)
THEOREM IdentityKept ==
    ASSUME NEW p \in StageProfile, NEW mode \in HintMode, NEW id \in Nat, NEW r \in Time,
           NEW input \in {"synthetic", "external"},
           p.class = "urgent" => p.stage = "imu",
           NEW h \in Seen(input, mode, p, id, r)
    PROVE  /\ h.job_id = id /\ h.release = r
           /\ h.class = "urgent" => h.stage = "imu"
<1> DEFINE a == admission_profile(input, mode, p)
<1>1. /\ p = [stage |-> p.stage, class |-> p.class, relative_deadline |-> p.relative_deadline,
              stale |-> p.stale, budget |-> p.budget, reject_expired |-> p.reject_expired]
    BY DEF StageProfile
<1>2. a.class = "urgent" => a.stage = "imu"
    BY <1>1 DEF admission_profile, stage_profile
<1>3. h = HintFor(a, id, r) \/ h = project_hint(HintFor(a, id, r), mode)
    BY DEF Seen, Written
<1> DEFINE g == HintFor(a, id, r)
<1>4. /\ g = [stage |-> g.stage, class |-> g.class, job_id |-> g.job_id, release |-> g.release,
              deadline |-> g.deadline, stale |-> g.stale, budget |-> g.budget]
      /\ g.job_id = id /\ g.release = r /\ (g.class = "urgent" => g.stage = "imu")
    BY <1>2 DEF HintFor, MakeHint
<1>5. LET k == project_hint(g, mode) IN
      /\ k.job_id = id /\ k.release = r /\ (k.class = "urgent" => k.stage = "imu")
    BY <1>4 DEF project_hint
<1> QED
    BY <1>3, <1>4, <1>5
=============================================================================
