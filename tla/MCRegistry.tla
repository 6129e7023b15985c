----------------------------- MODULE MCRegistry -----------------------------
(***************************************************************************)
(* Small instances of Registry: two domains, two ports, two IPv4 addresses *)
(* and one IPv6 address, and the commands each run may give.               *)
(***************************************************************************)
EXTENDS Registry

CONSTANTS d1, d2, p443, p80, a1, a2, b1, i1, i2, c1, c2, daemon

\* Each domain has an interface of its own, or the two have one, as
\* mail.example.com and mail.example.org have sip-mail-exampl.
OwnIfName == d1 :> i1 @@ d2 :> i2
OneIfName == d1 :> i1 @@ d2 :> i1

\* The file does not exist before the first command, or is an empty list.
UsedHost == {NoFile, Json(<<>>)}
OldHost == {Json(<<>>)}

-----------------------------------------------------------------------------
Plain(op, d, p) ==
    [op |-> op, domain |-> d, port |-> p, ip4 |-> None, ip6 |-> None,
     clear4 |-> FALSE, clear6 |-> FALSE, certbot |-> FALSE, tls |-> FALSE]

AddV4(d, p, a)  == [Plain("add", d, p) EXCEPT !.ip4 = a]
AddTLS(d, p, a) == [AddV4(d, p, a) EXCEPT !.certbot = TRUE, !.tls = TRUE]
AddBoth(d, p, a, b) == [AddV4(d, p, a) EXCEPT !.ip6 = b]

SetV4(d, p, a) == [Plain("update", d, p) EXCEPT !.ip4 = a]
ClearV4(d, p)  == [Plain("update", d, p) EXCEPT !.clear4 = TRUE]
ClearV6(d, p)  == [Plain("update", d, p) EXCEPT !.clear6 = TRUE]

-----------------------------------------------------------------------------
\* Two terminals: a mapping that is cleared of one address or of the other,
\* beside another one.
AtOnce ==
    {AddBoth(d1, p443, a1, b1), AddV4(d2, p80, a2),
     ClearV4(d1, p443), ClearV6(d1, p443)}

\* A terminal and the daemon, when everything may go wrong.
WithDaemon ==
    {AddTLS(d1, p443, a1), SetV4(d1, p443, a2), Plain("add", d1, p443),
     Plain("update", d1, p443), Plain("delete", d1, p443),
     Plain("reset", d1, p443), Plain("list", d1, p443),
     Plain("daemon", d1, p443)}

\* Two terminals that add.
TwoAdds == {AddV4(d1, p443, a1), AddV4(d2, p443, a2)}

\* Mappings that share an interface: of one domain on two ports, and of the two
\* domains under OneIfName.
Sharing == TwoAdds \cup {AddV4(d1, p80, a1), Plain("delete", d1, p443)}

Terminals == Permutations({c1, c2})
=============================================================================
