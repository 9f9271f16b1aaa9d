------------------------------- MODULE MCNag -------------------------------
(***************************************************************************)
(* Small flashes for TLC.  The pages of a path lie below those of the path *)
(* before it, as in Flash.h.                                               *)
(***************************************************************************)
EXTENDS Nag

\* One path of one page.
PageStartPage == <<2>>
PageEndPage == <<2>>

\* One path of two pages.
OneStartPage == <<3>>
OneEndPage == <<2>>

\* A path of two pages above one of one page.
TwoStartPage == <<4, 2>>
TwoEndPage == <<3, 2>>

MCTickSteps == {1}
=============================================================================
