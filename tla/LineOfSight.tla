----------------------------- MODULE LineOfSight -----------------------------
(* The line-of-sight guidance along the legs of a route: ALOSpathFollowing    *)
(* (gnc/guidance.py) and the part of PathFollower.update (gnc/autopilot.py)   *)
(* that carries its progress from call to call.  Only the along-track         *)
(* distance is kept; the vehicle's place and speed are a choice.              *)
EXTENDS Integers, FiniteSetsExt

CONSTANTS
  Legs,        \* number of legs
  Length,      \* length of a leg
  Circle,      \* acceptance radius
  LookAhead    \* look-ahead distances max(delta_min, k_delta * U), by speed

ASSUME LineOfSightAssumption ==
  {Legs, Length, Circle} \subseteq Nat /\ Legs > 0 /\ LookAhead \subseteq Nat \ {0}

VARIABLES
  leg,        \* wp_index
  along,      \* s, the vehicle's place on the leg
  progress,   \* prev_progress of the path follower
  aim,        \* the virtual target on the segment
  furthest    \* the furthest place the vehicle has been at on this leg

sightVars == <<leg, along, progress, aim, furthest>>

Spots == -Circle .. Length + Circle + 1

SightInit ==
  /\ leg = 1 /\ along = 0 /\ progress = 0 /\ aim = 0 /\ furthest = 0

\* ALOSpathFollowing: the progress is kept unclamped and never goes back, the
\* aim is its point on the segment.
Progress(s, d) == Max({s + d, progress})

OnSegment(p) == Max({0, Min({p, Length})})
AtEnd(s) == leg < Legs /\ s \in Length - Circle .. Length + Circle
Follow(s, d) ==
  /\ s \in along - 1 .. along + 1 /\ ~AtEnd(s)
  /\ along' = s
  /\ progress' = Progress(s, d) /\ aim' = OnSegment(Progress(s, d))
  /\ furthest' = Max({furthest, s})
  /\ UNCHANGED leg

\* PathFollower.update: within the circle of its end the next leg begins, and
\* the same call goes on with it.
SwitchLeg(s, d) ==
  /\ s \in along - 1 .. along + 1 /\ AtEnd(s)
  /\ leg' = leg + 1 /\ along' = s - Length /\ furthest' = s - Length
  /\ progress' = Max({s - Length + d, 0}) /\ aim' = OnSegment(progress')

SightNext == \E s \in Spots, d \in LookAhead : Follow(s, d) \/ SwitchLeg(s, d)
SightSpec == SightInit /\ [][SightNext]_sightVars

----------------------------------------------------------------------------
\* Types: the point steered to lies on the segment.
SightTypeOK ==
  /\ leg \in 1 .. Legs /\ along \in Int /\ furthest \in Int
  /\ progress \in Nat /\ aim \in 0 .. Length

\* On a leg the point the vehicle is steered to never moves back, although the
\* vehicle drifts and the look-ahead shrinks with its speed.
AimNeverReturns == [][leg' = leg => aim' >= aim]_sightVars

\* It is ahead of every place the vehicle has reached on this leg, up to the
\* leg's end: a vehicle pushed back is not led behind its own progress, and one
\* that overshot the end is led back to it.
AimIsAhead == aim >= Min({furthest, Length})
=============================================================================
