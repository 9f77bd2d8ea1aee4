-------------------------------- MODULE HiZ ---------------------------------
(***************************************************************************)
(* The depth pyramid of occlusion culling (src/shaders/MetalRast.metal) and*)
(* the test of a box against it, on one axis of the screen: both axes are  *)
(* halved, mapped and sampled in the same way.  Depths are small integers; *)
(* Far stands for an empty pixel.                                          *)
(***************************************************************************)
EXTENDS Integers, FiniteSetsExt

CONSTANTS
  W,      \* pixels of the axis
  Far     \* depth of a pixel nothing covers

ASSUME ScreenAssumption == W \in Nat \ {0} /\ Far \in Nat \ {0}

Pixel == 0..(W - 1)
Smaller(a, b) == IF a < b THEN a ELSE b
Larger(a, b) == IF a < b THEN b ELSE a

\* 1 << n.
Pow2[n \in Nat] == IF n = 0 THEN 1 ELSE 2 * Pow2[n - 1]

\* floor(log2(W)) + 1 levels; an odd level loses its last texel when halved.
NumMips == CHOOSE n \in 1..W : W < Pow2[n] /\ Pow2[n - 1] <= W
MipSize(m) == Larger(1, W \div Pow2[m])

\* Mutant: every other texel is left out.
HalfPyramid(d) ==
  LET level[m \in 0..(NumMips - 1)] ==
        IF m = 0 THEN d
        ELSE [x \in 0..(MipSize(m) - 1) |-> level[m - 1][2 * x]]
  IN  level

\* The levels over the depths d: each texel is the farther of two.
Pyramid(d) ==
  LET level[m \in 0..(NumMips - 1)] ==
        IF m = 0 THEN d
        ELSE [x \in 0..(MipSize(m) - 1) |->
                LET last == MipSize(m - 1) - 1
                IN  Larger(level[m - 1][Smaller(2 * x, last)],
                           level[m - 1][Smaller(2 * x + 1, last)])]
  IN  level

CeilLog2(r) == CHOOSE k \in 0..r : r <= Pow2[k] /\ (k = 0 \/ Pow2[k - 1] < r)

\* The level at which an extent of r pixels spans at most two texels.
MipFor(r) == Smaller(IF r <= 1 THEN 0 ELSE CeilLog2(r) - 1, NumMips - 1)

\* The texel of level m that holds the screen coordinate c.
Texel(c, m) == Smaller((c * MipSize(m)) \div W, MipSize(m) - 1)

\* The farthest depth recorded where the box [lo, hi] lies.
Occluder(d, lo, hi) ==
  LET m == MipFor(hi - lo)
  IN  Max({Pyramid(d)[m][x] : x \in Texel(lo, m)..Texel(hi, m)})

\* cull_instances_aabb: a box through the near plane is kept, one off the
\* screen is not, and another is when it is nearer than some occluder.
BoxVisible(box, d) ==
  \/ box.straddles
  \/ /\ box.hi >= 0 /\ box.lo <= W
     /\ box.near <= Occluder(d, Larger(box.lo, 0), Smaller(box.hi, W))
=============================================================================
