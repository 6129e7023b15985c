----------------------------- MODULE Extractor ------------------------------
(***************************************************************************)
(* internal/extractor on a growing buffer of a TCP stream.                 *)
(*                                                                         *)
(* A stream is known by the offsets the extractor looks at.  The order of  *)
(* its tests is kept, and with it what a stream is taken for while only    *)
(* its first bytes are there: the test for DNS reads the first two bytes   *)
(* of ANY stream that is neither TLS nor SSH as a length.  Lengths are     *)
(* those of the code.                                                      *)
(***************************************************************************)
EXTENDS Integers

CONSTANTS
    HostName, \* the names a stream may carry
    NoHost    \* the empty host

\* The first bytes of a stream: 2 for TLS, 4 for SSH; the fixed header of a
\* DNS message.
TLSMark   == 2
SSHMark   == 4
DNSHeader == 12

TwoBytes == 0 .. 2^16 - 1

Stream ==
    [proto : {"tls", "ssh", "dns-tcp", "http", "smtp", "other"},
     host : HostName \cup {NoHost},
     hostAt : Nat,    \* the bytes that hold the host in full
     knownAt : Nat,   \* the bytes that hold the HTTP method or the EHLO
     dnsLen : TwoBytes, \* the first two bytes, read as a length
     hello : Nat,     \* the bytes of the client's TLS handshake
     acmeAt : Nat,    \* the bytes that hold the path of a known ACME token
     cuts : SUBSET Nat] \* where a segment may end; the last is its length

\* Where the formats put the host: the SNI after the mark of a TLS record, the
\* query name in a message as long as its first two bytes say, which is parsed
\* when it is complete.
WellFormed(s) ==
    s.host # NoHost =>
        /\ s.proto = "tls" => s.hostAt >= TLSMark
        /\ s.proto = "dns-tcp" =>
              s.dnsLen >= DNSHeader /\ s.hostAt = s.dnsLen + 2

\* A query name and an SNI are read only when they are there in full.  The last
\* line of a text, which the code takes as it stands, is not reached: a method
\* or an EHLO at the start, read as a length, holds the text as DNS.
HasHost(s, n) == s.host # NoHost /\ s.hostAt <= n

-----------------------------------------------------------------------------
NoProto == ""
Result(host, proto, done) == [host |-> host, proto |-> proto, done |-> done]

\* Mutants of FoundOrMore: one byte late, and giving up at once.
FoundLate(s, n) ==
    IF HasHost(s, n - 1) THEN Result(s.host, s.proto, TRUE)
                         ELSE Result(NoHost, s.proto, FALSE)
FoundOrNot(s, n) ==
    Result(IF HasHost(s, n) THEN s.host ELSE NoHost, s.proto, TRUE)

FoundOrMore(s, n) ==
    IF HasHost(s, n) THEN Result(s.host, s.proto, TRUE)
                     ELSE Result(NoHost, s.proto, FALSE)

IsSSH(s, n)  == s.proto = "ssh" /\ n >= SSHMark
IsDNS(s, n)  == s.proto = "dns-tcp" /\ s.dnsLen >= DNSHeader
                    /\ s.dnsLen + 2 <= n /\ HasHost(s, n)
MaybeDNS(s, n) == s.dnsLen >= DNSHeader /\ n < s.dnsLen + 2 /\ n >= 4
IsText(s, n) == s.proto \in {"http", "smtp"} /\ n >= s.knownAt

\* ExtractDomainIncremental of the first n bytes of s.
Extract(s, n) ==
    IF n < TLSMark           THEN Result(NoHost, NoProto, FALSE)
    ELSE IF s.proto = "tls"  THEN FoundOrMore(s, n)
    ELSE IF IsSSH(s, n)      THEN Result(NoHost, "ssh", TRUE)
    ELSE IF IsDNS(s, n)      THEN Result(s.host, "dns-tcp", TRUE)
    ELSE IF MaybeDNS(s, n)   THEN Result(NoHost, "dns-tcp", FALSE)
    ELSE IF IsText(s, n)     THEN FoundOrMore(s, n)
    ELSE Result(NoHost, NoProto, TRUE)
=============================================================================
