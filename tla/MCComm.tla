------------------------------- MODULE MCComm -------------------------------
(* Two writers with one reader that alternates between them, the same with *)
(* all other ways to read, and two processes that poll.                    *)
EXTENDS Comm, TLC

CONSTANTS p1, p2, p3, c1, c2, c3

WriterAlt == c1 :> p1 @@ c2 :> p2
ReaderAlt == c1 :> p3 @@ c2 :> p3
GuardsAlt == p1 :> << >> @@ p2 :> << >> @@ p3 :> <<c1, c2>>

\* p3 selects c1 or skips, and polls c2; p1 reads c3
WriterMix == c1 :> p1 @@ c2 :> p2 @@ c3 :> p2
ReaderMix == c1 :> p3 @@ c2 :> p3 @@ c3 :> p1
GuardsMix == p1 :> << >> @@ p2 :> << >> @@ p3 :> <<c1, SKIP>>

WriterPair == c1 :> p1 @@ c2 :> p2
ReaderPair == c1 :> p2 @@ c2 :> p1
GuardsPair == p1 :> << >> @@ p2 :> << >>
=============================================================================
