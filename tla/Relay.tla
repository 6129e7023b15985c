------------------------------- MODULE Relay --------------------------------
(***************************************************************************)
(* What the proxy promises for every connection it accepts, whatever it    *)
(* has to read, answer or throw away to find out where the connection      *)
(* goes: it stands between one client and at most one backend, and each    *)
(* side gets what the other sends, in order, until it is told the end.     *)
(*                                                                         *)
(* The backend gets one range of positions of the client's stream; where   *)
(* the range starts depends on what the proxy keeps for itself.  The       *)
(* client gets the backend's answers, which are counted.                   *)
(***************************************************************************)
EXTENDS Integers, Sequences

CONSTANTS
    Destination, \* where a connection may go
    Nowhere      \* it has not been decided yet

VARIABLES
    dest,        \* where it goes
    got,         \* the ranges of positions the backend has got
    answers,     \* how many answers the client has got
    toldBackend, \* whether each side has been told that no more will come
    toldClient

RelayInit ==
    /\ dest = Nowhere /\ got = <<>> /\ answers = 0
    /\ ~toldBackend /\ ~toldClient

\* It is decided once.
Choose ==
    /\ dest = Nowhere /\ dest' \in Destination
    /\ UNCHANGED <<got, answers, toldBackend, toldClient>>

\* The backend gets what comes next in the stream, in one piece.
Forward ==
    /\ dest # Nowhere /\ ~toldBackend
    /\ Len(got') = 1
    /\ got # <<>> => got'[1][1] = got[1][1] /\ got'[1][2] > got[1][2]
    /\ UNCHANGED <<dest, answers, toldBackend, toldClient>>

Answer ==
    /\ dest # Nowhere /\ ~toldClient
    /\ answers' > answers
    /\ UNCHANGED <<dest, got, toldBackend, toldClient>>

\* The end of a stream is final.
Tell ==
    /\ toldBackend => toldBackend'
    /\ toldClient => toldClient'
    /\ UNCHANGED <<dest, got, answers>>

RelayNext == Choose \/ Forward \/ Answer \/ Tell

RelaySpec ==
    RelayInit /\ [][RelayNext]_<<dest, got, answers, toldBackend, toldClient>>
=============================================================================
