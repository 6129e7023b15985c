------------------------------- MODULE MCSmtp -------------------------------
(***************************************************************************)
(* Small instances of Smtp: one or two mappings on port 25, and mails whose *)
(* first recipient comes third, fourth, never or too late, sent in turn or  *)
(* pipelined, and cut at and inside the lines.                              *)
(***************************************************************************)
EXTENDS Smtp

CONSTANTS p25, p443, a1, a2, i1, b1

MCLabel == {"*", "ex", "own", "net", "com", "co"}
MCLower == [l \in MCLabel |-> l]

Ex  == <<"ex", "com">>
Own == <<"own", "com">>
Net == <<"ex", "net">>
Cut == <<"own", "co">>

EmptyName == <<>>

MCDomain == {Ex, Own}
MCRequested == {Ex, Own, Net, Cut}

M(d, p, a) ==
    [domain |-> d, port |-> p, ip4 |-> a, ip6 |-> None, iface |-> None,
     cert |-> FALSE, tls |-> FALSE]

One == <<M(Ex, p25, a1)>>
Two == <<M(Ex, p25, a1), M(Own, p25, a2)>>
Web == <<M(Own, p443, a2), M(Ex, p25, a1)>>

AllLists == {One, Two, Web}

-----------------------------------------------------------------------------
\* EHLO, MAIL FROM, RCPT TO and DATA with the message.
Usual ==
    [ends |-> <<20, 50, 80, 120>>, rcpt |-> 3, host |-> Own, hostAt |-> 77,
     part |-> EmptyName, partAt |-> 0, pipelined |-> FALSE,
     cuts |-> {20, 50, 80, 120}]

\* A segment ends inside the recipient's name, before and after its dot.
CutBefore == [Usual EXCEPT !.cuts = {20, 50, 68, 80, 120}]
CutAfter ==
    [Usual EXCEPT !.part = Cut, !.partAt = 76, !.cuts = {20, 50, 76, 80, 120}]

Unknown   == [Usual EXCEPT !.host = Net]
Pipelined == [Usual EXCEPT !.pipelined = TRUE, !.cuts = {80, 90, 120}]

\* A reset before the recipient; no recipient; one that is out of reach.
Fourth == [Usual EXCEPT !.rcpt = 4, !.hostAt = 117]
FourthPipelined == [Fourth EXCEPT !.pipelined = TRUE]
Nobody == [Usual EXCEPT !.rcpt = 0, !.host = EmptyName, !.hostAt = 9999]
TooFar ==
    [Pipelined EXCEPT !.ends = <<20, 50, 5000>>, !.hostAt = 4990,
        !.cuts = {50, 4096, 5000}]

AllMails == {Usual, CutBefore, CutAfter, Unknown, Pipelined, Fourth,
             FourthPipelined, Nobody, TooFar}
UsualOnly == {Usual}
OneOnly == {One}
=============================================================================
