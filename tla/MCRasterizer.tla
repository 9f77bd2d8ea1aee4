---------------------------- MODULE MCRasterizer ----------------------------
(* A wall in front of, or beside, instances of a ball.                      *)
EXTENDS Rasterizer

\* What the theorems about culling assume is so at eight pixels, not at six.
ASSUME EvenAtEight == W = 8 => EvenLevels

\* A triangle at depth z over the pixels a..b.
T(route, a, b, z) == [route |-> route, z |-> [p \in (a..b) \cap Pixel |-> z]]
B(lo, hi, near) == [straddles |-> FALSE, lo |-> lo, hi |-> hi, near |-> near]
Call(tris, insts, first, cum) == [tris |-> tris, insts |-> insts, first |-> first, cum |-> cum]
Slotwise(s) == [i \in 0..(Len(s) - 1) |-> s[i + 1]]

MCViews == <<
  \* the wall hides the first ball; the second looks over it
  [dc |-> <<Call(3, 1, 0, 0), Call(1, 2, 1, 3)>>,
   box |-> Slotwise(<<B(0, 6, 1), B(1, 4, 2), B(3, 7, 2)>>),
   tri |-> Slotwise(<<Slotwise(<<T("large", 0, 5, 1), T("small", 1, 1, 1), T("small", 2, 2, 1)>>),
                      Slotwise(<<T("medium", 1, 3, 2)>>),
                      Slotwise(<<T("medium", 3, 6, 3)>>)>>)],
  \* the wall has moved to the right and hides the second; the first looks out
  \* at an odd pixel
  [dc |-> <<Call(3, 1, 0, 0), Call(1, 2, 1, 3)>>,
   box |-> Slotwise(<<B(0, 8, 1), B(1, 4, 2), B(3, 7, 2)>>),
   tri |-> Slotwise(<<Slotwise(<<T("large", 2, 7, 1), T("small", 0, 0, 1), T("small", 7, 7, 1)>>),
                      Slotwise(<<T("medium", 1, 3, 2)>>),
                      Slotwise(<<T("medium", 3, 6, 3)>>)>>)],
  \* the wall is gone: the balls have moved down a slot, one is cut by the near plane
  [dc |-> <<Call(2, 1, 0, 0), Call(1, 1, 1, 2)>>,
   box |-> Slotwise(<<[B(0, 8, 0) EXCEPT !.straddles = TRUE], B(3, 6, 2)>>),
   tri |-> Slotwise(<<Slotwise(<<T("large", 1, 2, 3), T("medium", 1, 3, 2)>>),
                      Slotwise(<<T("small", 3, 5, 3)>>)>>)] >>

\* A wall over all but the last two pixels, and a ball that looks out there.
MCCorner == <<
  [dc |-> <<Call(1, 1, 0, 0), Call(2, 1, 1, 1)>>,
   box |-> Slotwise(<<B(0, 4, 1), B(0, 6, 2)>>),
   tri |-> Slotwise(<<Slotwise(<<T("large", 0, 3, 1)>>),
                      Slotwise(<<T("medium", 1, 3, 2), T("small", 5, 5, 2)>>)>>)] >>
=============================================================================
