--------------------------- MODULE HeadingControl ---------------------------
(* The reference model and the integrator of the heading autopilot            *)
(* (refModel3 in gnc/guidance.py, PIDpolePlacement in gnc/control.py,         *)
(* HeadingAutopilot in gnc/autopilot.py).  Angles are integers, Turn to the   *)
(* circle, and a step of the reference model has wn * h = 1 / 2 and zeta = 1, *)
(* rounded towards zero.  The vehicle is a choice: how far off its heading it *)
(* is.  Torque and allocation are left out.                                   *)
EXTENDS Integers

CONSTANTS
  Turn,        \* units of a full circle
  Targets,     \* headings the guidance may ask for
  RateLimit,   \* r_max * h
  IntLimit,    \* e_int_max
  Threshold,   \* e_x_threshold
  Errors,      \* heading errors
  MaxTurns     \* bound: changes of the heading asked for

ASSUME HeadingAssumption ==
  /\ Turn \in Nat \ {0} /\ Targets \subseteq Int /\ Errors \subseteq Int
  /\ {RateLimit, IntLimit, Threshold, MaxTurns} \subseteq Nat

VARIABLES
  target,     \* the heading asked for
  ref,        \* psi_d, r_d * h and a_d * h^2 of the reference model
  origin,     \* psi_d when the target was last changed
  turns,
  integral    \* e_int

headingVars == <<target, ref, origin, turns, integral>>

Least(a, b) == IF a < b THEN a ELSE b
Most(a, b) == IF a < b THEN b ELSE a
Size(x) == IF x < 0 THEN -x ELSE x
Toward0(x, n) == IF x < 0 THEN -((-x) \div n) ELSE x \div n
Clamp(x, bound) == Most(-bound, Least(x, bound))
\* ssa: the smallest signed angle, in [-Turn/2, Turn/2).
SmallestAngle(a) == ((a + Turn \div 2) % Turn) - Turn \div 2

HeadingInit ==
  /\ target = 0 /\ ref = [x |-> 0, v |-> 0, a |-> 0] /\ origin = 0 /\ turns = 0
  /\ integral = 0

\* The guidance asks for another heading.
AskHeading ==
  /\ turns < MaxTurns /\ turns' = turns + 1
  /\ target' \in Targets \ {target} /\ origin' = ref.x
  /\ UNCHANGED <<ref, integral>>

\* refModel3, towards the target by the short way round.
Jerk == LET e == SmallestAngle(target - ref.x)
        IN Toward0(e - 6 * ref.v - 12 * ref.a, 8)
RefModel ==
  [x |-> ref.x + ref.v,
   v |-> Clamp(ref.v + ref.a, RateLimit),
   a |-> ref.a + Jerk]

\* PIDpolePlacement: conditional integration, clamped; it decays elsewhere.
Integrated(e) == IF Size(e) < Threshold THEN Clamp(integral + e, IntLimit)
                 ELSE Toward0(integral * 19, 20)
\* HeadingAutopilot.compute: the integrator, then the reference model.
Compute(e) ==
  /\ integral' = Integrated(e) /\ ref' = RefModel
  /\ UNCHANGED <<target, origin, turns>>

HeadingNext == AskHeading \/ \E e \in Errors : Compute(e)

\* The autopilot runs on every tick.
HeadingFairness == WF_headingVars(\E e \in Errors : Compute(e))
HeadingSpec == HeadingInit /\ [][HeadingNext]_headingVars /\ HeadingFairness

----------------------------------------------------------------------------
\* Types: the reference turns no faster than its limit and the integral
\* never leaves its own, however long the error lasts.
HeadingTypeOK ==
  /\ target \in Int /\ origin \in Int /\ turns \in 0 .. MaxTurns
  /\ ref \in [x : Int, v : -RateLimit .. RateLimit, a : Int]
  /\ integral \in -IntLimit .. IntLimit

\* HeadingAutopilot's "Prevent reference model unwinding (360 degree spins)":
\* whatever turn it is in when another heading is asked for, the reference
\* takes the short way, with less than an eighth of a circle beyond it.
NoSpin == Size(ref.x - origin) < Turn \div 2 + Turn \div 8

\* Asked for nothing else, the reference comes to rest on the heading.
ReferenceSettles ==
  <>[](Size(SmallestAngle(target - ref.x)) <= Turn \div 16)
=============================================================================
